------------------------- MODULE UserPrompts_proofs -------------------------
(***************************************************************************)
(* Proofs about UserPrompts: when one thread at a time asks and the user   *)
(* does not answer a prompt twice while it is asked, every answer goes to  *)
(* its own prompt until a wait is cancelled, for any number of prompts,    *)
(* runs and batches, in both modes, with reads that raise, answers that    *)
(* name no prompt, /close and disconnects at any moment.                   *)
(***************************************************************************)
EXTENDS UserPrompts, TLAPS

\* One thread asks, and the user is patient.
Alone(t) == Thread = {t} /\ ~Impatient

-----------------------------------------------------------------------------
(***************************************************************************)
(* The inductive invariant.                                                *)
(***************************************************************************)

Elements(s) == {s[i] : i \in DOMAIN s}
Distinct(s) == \A i, j \in DOMAIN s : s[i] = s[j] => i = j

\* Types; how often a call puts is left to Items.
Types ==
  /\ _pending_prompt_id \in Prompt \cup {None}
  /\ _pending_input \in Seq(Item)
  /\ _outbox \in Seq(Prompt)
  /\ asked \in 0..MaxPrompts
  /\ draining \in Seq(Prompt)
  /\ pump \in {"idle", "copied", "sending"}
  /\ at \in [Thread -> {"idle", "asking", "posting", "waiting", "taken", "answered"}]
  /\ prompt \in [Thread -> Prompt \cup {None}]
  /\ answer \in [Prompt -> Item \cup {Unanswered}]
  /\ shown \subseteq Prompt
  /\ sent \in [Prompt -> 0..2]
  /\ putting \in [Item -> Nat]
  /\ raised \subseteq Prompt
  /\ cancelled \in BOOLEAN

\* The thread takes answers for its prompt.
InWait(t) == at[t] \in {"posting", "waiting", "taken"}

\* The thread's program counter tells which prompt answers are taken for, unless the last
\* read raised after it had begun.
Program(t) ==
  /\ prompt[t] = IF at[t] = "idle" THEN None ELSE asked
  /\ InWait(t) => _pending_prompt_id = asked
  /\ ~InWait(t) /\ _pending_prompt_id # None => _pending_prompt_id \in raised
  /\ at[t] # "idle" => asked \in Prompt /\ asked \notin raised
  /\ \A q \in raised : q <= asked

\* Prompts that are on their way to the browser or were shown to it.
Posted == Elements(_outbox) \cup Elements(draining) \cup shown

\* A prompt is posted once; the one that is not posted yet, and one whose read raised
\* before, is not.
Pipe(t) ==
  /\ Distinct(_outbox) /\ Distinct(draining)
  /\ pump = "sending" => Elements(_outbox) \cap Elements(draining) = {}
  /\ pump = "sending" => draining # <<>>
  /\ pump = "idle" => draining = <<>>
  /\ (Elements(_outbox) \cup Elements(draining)) \cap shown = {}
  /\ \A q \in Posted : q <= asked
  /\ at[t] \in {"asking", "posting"} => asked \notin Posted
  /\ ~InWait(t) => _pending_prompt_id \notin Posted
  /\ \A q \in Prompt : sent[q] > 0 => q \in shown

\* Nothing is in the queue or about to be put there.
Clean == _pending_input = <<>> /\ \A i \in Item : putting[i] = 0

\* As long as no wait is cancelled, the queue holds at most the answer to the prompt that
\* waits for it, and a posted prompt that nobody answered is waited for.
Items(t) ==
  ~cancelled =>
    /\ at[t] # "waiting" => Clean
    /\ at[t] = "waiting" =>
         \/ Clean
         \/ /\ sent[prompt[t]] > 0
            /\ \/ /\ _pending_input = <<>>
                  /\ \A i \in Item : putting[i] = IF i = prompt[t] THEN 1 ELSE 0
               \/ /\ _pending_input = <<prompt[t]>>
                  /\ \A i \in Item : putting[i] = 0
    /\ \A q \in Posted : sent[q] = 0 => prompt[t] = q /\ at[t] = "waiting"

IInv(t) == Types /\ Program(t) /\ Pipe(t) /\ Items(t) /\ OwnAnswer

-----------------------------------------------------------------------------
\* The elements of a sequence that is extended or shortened.

LEMMA AppendFacts ==
  ASSUME NEW S, NEW s \in Seq(S), NEW x \in S
  PROVE  /\ Append(s, x) \in Seq(S)
         /\ Elements(Append(s, x)) = Elements(s) \cup {x}
         /\ Distinct(s) /\ x \notin Elements(s) => Distinct(Append(s, x))
<1>1. /\ Append(s, x) \in Seq(S) /\ DOMAIN s = 1..Len(s) /\ DOMAIN Append(s, x) = 1..(Len(s) + 1)
      /\ \A i \in 1..Len(s) : Append(s, x)[i] = s[i]
      /\ Append(s, x)[Len(s) + 1] = x /\ Len(s) \in Nat
  OBVIOUS
<1>2. Elements(Append(s, x)) = Elements(s) \cup {x}
  <2>1. \A i \in 1..(Len(s) + 1) : i \in 1..Len(s) \/ i = Len(s) + 1
    BY <1>1
  <2>2. 1..Len(s) \subseteq 1..(Len(s) + 1) /\ Len(s) + 1 \in 1..(Len(s) + 1)
    BY <1>1
  <2>. QED  BY ONLY <1>1, <2>1, <2>2 DEF Elements
<1>3. ASSUME Distinct(s), x \notin Elements(s) PROVE Distinct(Append(s, x))
  BY <1>1, <1>3 DEF Distinct, Elements
<1>. QED  BY <1>1, <1>2, <1>3

LEMMA TailFacts ==
  ASSUME NEW S, NEW s \in Seq(S), s # <<>>
  PROVE  /\ Head(s) \in Elements(s) /\ Head(s) \in S /\ Tail(s) \in Seq(S)
         /\ Elements(Tail(s)) \subseteq Elements(s)
         /\ Distinct(s) => Distinct(Tail(s)) /\ Head(s) \notin Elements(Tail(s))
<1>1. /\ Len(s) \in Nat \ {0} /\ DOMAIN s = 1..Len(s) /\ Head(s) = s[1]
      /\ Tail(s) \in Seq(S) /\ DOMAIN Tail(s) = 1..(Len(s) - 1)
      /\ \A i \in 1..(Len(s) - 1) : Tail(s)[i] = s[i + 1]
  OBVIOUS
<1>2. 1 \in DOMAIN s /\ \A i \in 1..(Len(s) - 1) : i + 1 \in DOMAIN s /\ i + 1 # 1
  BY <1>1
<1>3. \A i, j \in 1..(Len(s) - 1) : i + 1 = j + 1 => i = j
  BY <1>1
<1>. QED  BY <1>1, <1>2, <1>3 DEF Elements, Distinct

LEMMA ElementFacts == ASSUME NEW S, NEW s \in Seq(S) PROVE Elements(s) \subseteq S
<1>1. \A i \in DOMAIN s : s[i] \in S
  OBVIOUS
<1>. QED  BY <1>1 DEF Elements

LEMMA EmptyFacts == Elements(<<>>) = {} /\ Distinct(<<>>)
BY DEF Elements, Distinct

LEMMA InitIInv == ASSUME NEW t, Alone(t), Init PROVE IInv(t)
<1>. USE PromptAssumption DEF Init, Alone
<1>1. Types
  <2>1. 0 \in 0..MaxPrompts /\ 0 \in 0..2 /\ 0 \in Nat
    OBVIOUS
  <2>2. <<>> \in Seq(Item) /\ <<>> \in Seq(Prompt)
    OBVIOUS
  <2>. QED  BY <2>1, <2>2 DEF Types, Item
<1>2. Posted = {}
  BY EmptyFacts DEF Posted
<1>3. Program(t) /\ OwnAnswer
  BY DEF Program, InWait, OwnAnswer
<1>4. Items(t)
  BY <1>2 DEF Items, Clean
<1>5. Pipe(t)
  BY <1>2, EmptyFacts DEF Pipe
<1>. QED  BY <1>1, <1>3, <1>4, <1>5 DEF IInv

-----------------------------------------------------------------------------
(***************************************************************************)
(* The steps.                                                              *)
(***************************************************************************)

\* What the single thread's invariant says of its prompt.
LEMMA PromptFacts ==
  ASSUME NEW t, Alone(t), IInv(t)
  PROVE  /\ at[t] # "idle" => prompt[t] = asked /\ asked \in Prompt /\ asked \notin raised
         /\ at[t] = "idle" => prompt[t] = None
         /\ InWait(t) => _pending_prompt_id = asked
         /\ at[t] \in {"idle", "asking", "posting", "waiting", "taken", "answered"}
         /\ asked \in Nat /\ None \notin Prompt
<1>1. asked \in Nat /\ at[t] \in {"idle", "asking", "posting", "waiting", "taken", "answered"}
  BY PromptAssumption DEF Alone, IInv, Types
<1>. QED  BY <1>1, PromptAssumption DEF IInv, Program

\* Posted prompts are prompts.
LEMMA PostedFacts == ASSUME Types PROVE Posted \subseteq Prompt /\ Posted \subseteq Nat
<1>1. Elements(_outbox) \subseteq Prompt /\ Elements(draining) \subseteq Prompt
  BY ElementFacts DEF Types
<1>2. Prompt \subseteq Nat /\ shown \subseteq Prompt
  BY DEF Types, Prompt
<1>. QED  BY <1>1, <1>2 DEF Posted

LEMMA TypesStep == ASSUME NEW t, Alone(t), IInv(t), Next PROVE Types'
<1>. USE PromptAssumption DEF Alone, Item, comm, pumping, threads, user, session
<1>0. Types
  BY DEF IInv
<1>1. ASSUME NEW items \in SUBSET Item, Begin(items)
      PROVE  putting' \in [Item -> Nat]
  BY <1>0, <1>1 DEF Begin, Types
<1>2. CASE Ask(t)
  BY <1>0, <1>2 DEF Ask, Types, Prompt
<1>3. CASE EnterWait(t)
  BY <1>0, <1>3 DEF EnterWait, Types
<1>4. CASE PostPrompt(t)
  <2>1. prompt[t] \in Prompt
    BY <1>4, PromptFacts DEF PostPrompt
  <2>2. _outbox' \in Seq(Prompt)
    BY <1>0, <1>4, <2>1, AppendFacts DEF PostPrompt, Types
  <2>. QED  BY <1>0, <1>4, <2>2 DEF PostPrompt, Types
<1>5. CASE TakeInput(t)
  <2>1. Head(_pending_input) \in Item /\ Tail(_pending_input) \in Seq(Item)
    BY <1>0, <1>5, TailFacts DEF TakeInput, Received, Types
  <2>2. answer' \in [Prompt -> Item \cup {Unanswered}]
    BY <1>0, <1>5, <2>1 DEF TakeInput, Received, Types
  <2>. QED  BY <1>0, <1>5, <2>1, <2>2 DEF TakeInput, Received, Types
<1>6. CASE LeaveWait(t)
  BY <1>0, <1>6 DEF LeaveWait, AfterWait, Types
<1>7. CASE Return(t)
  BY <1>0, <1>7 DEF Return, Leaves, Types
<1>8. CASE ReadRaises(t)
  <2>1. prompt[t] \in Prompt
    BY <1>8, PromptFacts DEF ReadRaises
  <2>. QED  BY <1>0, <1>8, <2>1 DEF ReadRaises, Leaves, Types
<1>9. ASSUME NEW p \in Prompt, Answers(p), NEW items \in SUBSET Item, Begin(items)
      PROVE  Types'
  <2>1. putting' \in [Item -> Nat]
    BY <1>1, <1>9
  <2>2. sent[p] \in 0..2 /\ sent[p] < 2 /\ sent' = [sent EXCEPT ![p] = @ + 1]
    BY <1>0, <1>9 DEF Answers, Types
  <2>3. sent' \in [Prompt -> 0..2]
    BY <1>0, <2>2 DEF Types
  <2>. QED  BY <1>0, <1>9, <2>1, <2>3 DEF Answers, Types
<1>10. CASE \E p \in Prompt : Submit(p) \/ SocketInput(p)
  BY <1>9, <1>10 DEF Submit, SocketInput
<1>11. CASE CopyOutbox
  BY <1>0, <1>11 DEF CopyOutbox, Types
<1>12. CASE ClearOutbox
  BY <1>0, <1>12 DEF ClearOutbox, Types
<1>13. CASE SendPrompt
  <2>1. draining # <<>>
    BY <1>13 DEF SendPrompt, IInv, Pipe
  <2>2. Head(draining) \in Prompt /\ Tail(draining) \in Seq(Prompt)
    BY <1>0, <2>1, TailFacts DEF Types
  <2>3. putting' \in [Item -> Nat]
    BY <1>1, <1>13, <2>2 DEF SendPrompt
  <2>4. sent' \in [Prompt -> 0..2]
    <3>1. sent \in [Prompt -> 0..2] /\ 1 \in 0..2
      BY <1>0 DEF Types
    <3>2. sent' = sent \/ sent' = [sent EXCEPT ![Head(draining)] = 1]
      BY <1>13 DEF SendPrompt
    <3>. QED  BY <3>1, <3>2
  <2>. QED  BY <1>0, <1>13, <2>2, <2>3, <2>4 DEF SendPrompt, Types
<1>14. ASSUME NEW i \in Item, Put(i)
       PROVE  Types'
  BY <1>0, <1>14, AppendFacts DEF Put, Types
<1>15. CASE StartRun \/ RunEnds \/ StartBatch \/ BatchEnds \/ Disconnect
  BY <1>0, <1>15 DEF StartRun, RunEnds, StartBatch, BatchEnds, Disconnect, Types
<1>16. CASE CloseSession \/ SocketEnds
  <2>1. UNCHANGED <<comm, pumping, threads, user>>
    BY <1>16 DEF CloseSession, SocketEnds
  <2>2. CancelWait \/ UNCHANGED <<putting, cancelled>>
    BY <1>16 DEF CloseSession, SocketEnds
  <2>3. CASE CancelWait
    <3>1. putting' \in [Item -> Nat] /\ cancelled' \in BOOLEAN
      BY <1>0, <1>1, <2>3 DEF CancelWait, Types
    <3>. QED  BY <1>0, <2>1, <3>1 DEF Types
  <2>4. CASE UNCHANGED <<putting, cancelled>>
    BY <1>0, <2>1, <2>4 DEF Types
  <2>. QED  BY <2>2, <2>3, <2>4
<1>. QED  BY <1>2, <1>3, <1>4, <1>5, <1>6, <1>7, <1>8, <1>10, <1>11, <1>12, <1>13,
             <1>14, <1>15, <1>16 DEF Next, Asking, Pump

\* Steps of the others leave the thread alone.
LEMMA OthersStep ==
  ASSUME Pump \/ (\E i \in Item : Put(i)) \/ (\E p \in Prompt : Submit(p) \/ SocketInput(p))
         \/ StartRun \/ RunEnds \/ StartBatch \/ BatchEnds \/ CloseSession \/ Disconnect \/ SocketEnds
  PROVE  UNCHANGED <<threads, _pending_prompt_id, pending_interactions>>
BY DEF Pump, CopyOutbox, ClearOutbox, SendPrompt, Put, Submit, SocketInput, Answers, StartRun, RunEnds,
       StartBatch, BatchEnds, CloseSession, Disconnect, SocketEnds, comm

\* The thread is alone with its program counter.
LEMMA ProgramStep == ASSUME NEW t, Alone(t), IInv(t), Next PROVE Program(t)'
<1>. USE PromptAssumption DEF Alone, comm, pumping, threads, user, session
<1>0. /\ Types /\ Program(t) /\ asked \in Nat /\ raised \subseteq Prompt /\ Prompt \subseteq Nat
      /\ at \in [{t} -> {"idle", "asking", "posting", "waiting", "taken", "answered"}]
      /\ prompt \in [{t} -> Prompt \cup {None}]
  BY DEF IInv, Types, Prompt
<1>. USE DEF Program, InWait
<1>1. CASE Ask(t)
  <2>1. asked' = asked + 1 /\ asked' \in Prompt /\ \A q \in raised : q <= asked' /\ q # asked'
    BY <1>0, <1>1 DEF Ask, Prompt
  <2>2. at[t] = "idle" /\ at'[t] = "asking" /\ prompt'[t] = asked' /\ UNCHANGED <<_pending_prompt_id, raised>>
    BY <1>0, <1>1 DEF Ask
  <2>. QED  BY <1>0, <2>1, <2>2
<1>2. CASE EnterWait(t)
  BY <1>0, <1>2 DEF EnterWait
<1>3. CASE PostPrompt(t) \/ TakeInput(t)
  <2>1. /\ at[t] \in {"posting", "waiting"} /\ at'[t] \in {"waiting", "taken"}
        /\ UNCHANGED <<prompt, asked, raised, _pending_prompt_id>>
    BY <1>0, <1>3 DEF PostPrompt, TakeInput
  <2>. QED  BY <1>0, <2>1
<1>4. CASE LeaveWait(t)
  BY <1>0, <1>4 DEF LeaveWait, AfterWait
<1>5. CASE Return(t)
  BY <1>0, <1>5 DEF Return, Leaves
<1>6. CASE ReadRaises(t)
  <2>1. at[t] \in {"asking", "posting", "answered"} /\ prompt[t] = asked /\ asked \in Prompt
    BY <1>0, <1>6 DEF ReadRaises
  <2>2. raised' = raised \cup {asked} /\ at'[t] = "idle" /\ prompt'[t] = None
        /\ UNCHANGED <<_pending_prompt_id, asked>>
    BY <1>0, <1>6, <2>1 DEF ReadRaises, Leaves
  <2>. QED  BY <1>0, <2>1, <2>2
<1>7. CASE UNCHANGED <<threads, _pending_prompt_id, pending_interactions>>
  BY <1>0, <1>7
<1>. QED  BY <1>1, <1>2, <1>3, <1>4, <1>5, <1>6, <1>7, OthersStep DEF Next, Asking

\* A prompt passes the outbox and the pump once.
LEMMA PipeStep == ASSUME NEW t, Alone(t), IInv(t), Next PROVE Pipe(t)'
<1>. USE PromptAssumption DEF Alone, comm, pumping, threads, user, session
<1>0. /\ Types /\ Pipe(t) /\ _outbox \in Seq(Prompt) /\ draining \in Seq(Prompt)
      /\ sent \in [Prompt -> 0..2] /\ at \in [{t} -> {"idle", "asking", "posting", "waiting", "taken", "answered"}]
      /\ Posted \subseteq Prompt /\ Posted \subseteq Nat /\ asked \in Nat /\ None \notin Prompt
  BY PostedFacts, PromptFacts DEF IInv, Types
<1>. USE DEF Pipe
<1>1. CASE PostPrompt(t)
  <2>1. at[t] = "posting" /\ at'[t] = "waiting" /\ prompt[t] = asked /\ asked \in Prompt
    BY <1>0, <1>1, PromptFacts DEF PostPrompt
  <2>2. _outbox' = Append(_outbox, asked)
        /\ UNCHANGED <<draining, pump, shown, asked, sent>>
    BY <1>1, <2>1 DEF PostPrompt
  <2>3. Elements(_outbox') = Elements(_outbox) \cup {asked} /\ Distinct(_outbox')
    BY <1>0, <2>1, <2>2, AppendFacts DEF Posted
  <2>4. Posted' = Posted \cup {asked}
    BY <2>2, <2>3 DEF Posted
  <2>5. asked \notin Elements(_outbox) \cup Elements(draining) \cup shown
    BY <1>0, <2>1 DEF Posted
  <2>6. InWait(t)'
    BY <2>1 DEF InWait
  <2>. QED  BY <1>0, <2>1, <2>2, <2>3, <2>4, <2>5, <2>6
<1>2. CASE EnterWait(t) \/ TakeInput(t) \/ LeaveWait(t)
  <2>1. UNCHANGED <<_outbox, draining, pump, shown, asked, sent>>
    BY <1>2 DEF EnterWait, TakeInput, LeaveWait
  <2>2. at'[t] \in {"asking", "posting"} => at[t] \in {"asking", "posting"}
    BY <1>0, <1>2 DEF EnterWait, TakeInput, LeaveWait
  <2>3. ~InWait(t)' => _pending_prompt_id' = None
    BY <1>0, <1>2 DEF EnterWait, TakeInput, LeaveWait, AfterWait, InWait
  <2>4. Posted' = Posted
    BY <2>1 DEF Posted
  <2>. QED  BY <1>0, <2>1, <2>2, <2>3, <2>4
<1>3. CASE Return(t) \/ ReadRaises(t)
  <2>1. UNCHANGED <<_outbox, draining, pump, shown, asked, sent, _pending_prompt_id>> /\ at'[t] = "idle"
    BY <1>0, <1>3 DEF Return, ReadRaises, Leaves
  <2>2. Posted' = Posted
    BY <2>1 DEF Posted
  <2>3. _pending_prompt_id \notin Posted
    <3>1. CASE InWait(t)
      BY <1>0, <1>3, <3>1, PromptFacts DEF Return, ReadRaises, InWait
    <3>2. CASE ~InWait(t)
      BY <1>0, <3>2
    <3>. QED  BY <3>1, <3>2
  <2>. QED  BY <1>0, <2>1, <2>2, <2>3
<1>4. CASE Ask(t)
  <2>1. /\ asked' = asked + 1 /\ UNCHANGED <<_outbox, draining, pump, shown, sent, _pending_prompt_id>>
        /\ at[t] = "idle" /\ at'[t] = "asking"
    BY <1>0, <1>4 DEF Ask
  <2>2. Posted' = Posted /\ ~InWait(t)
    BY <2>1 DEF Posted, InWait
  <2>3. \A q \in Posted : q <= asked' /\ q # asked'
    BY <1>0, <2>1
  <2>. QED  BY <1>0, <2>1, <2>2, <2>3
<1>5. ASSUME NEW p \in Prompt, Submit(p) \/ SocketInput(p)
      PROVE  Pipe(t)'
  <2>1. sent' = [sent EXCEPT ![p] = @ + 1] /\ p \in shown
        /\ UNCHANGED <<_outbox, draining, pump, shown, asked, at, _pending_prompt_id>>
    BY <1>5 DEF Submit, SocketInput, Answers
  <2>2. \A q \in Prompt : sent'[q] > 0 => q \in shown'
    BY <1>0, <2>1
  <2>3. Posted' = Posted /\ (InWait(t)' <=> InWait(t))
    BY <2>1 DEF Posted, InWait
  <2>. QED  BY <1>0, <2>1, <2>2, <2>3
<1>6. CASE CopyOutbox
  <2>1. /\ draining' = _outbox /\ pump = "idle" /\ pump' = "copied"
        /\ UNCHANGED <<_outbox, shown, asked, at, sent, _pending_prompt_id>>
    BY <1>6 DEF CopyOutbox
  <2>2. Posted' \subseteq Posted /\ (InWait(t)' <=> InWait(t))
    BY <2>1 DEF Posted, InWait
  <2>. QED  BY <1>0, <2>1, <2>2
<1>7. CASE ClearOutbox
  <2>1. /\ _outbox' = <<>> /\ pump' = IF draining = <<>> THEN "idle" ELSE "sending"
        /\ UNCHANGED <<draining, shown, asked, at, sent, _pending_prompt_id>>
    BY <1>7 DEF ClearOutbox
  <2>2. Posted' \subseteq Posted /\ (InWait(t)' <=> InWait(t))
    BY <2>1, EmptyFacts DEF Posted, InWait
  <2>. QED  BY <1>0, <2>1, <2>2, EmptyFacts
<1>8. CASE SendPrompt
  <2>1. pump = "sending" /\ draining # <<>>
    BY <1>0, <1>8 DEF SendPrompt
  <2>2. /\ draining' = Tail(draining) /\ shown' = shown \cup {Head(draining)}
        /\ pump' = IF Tail(draining) = <<>> THEN "idle" ELSE "sending"
        /\ sent' = sent \/ sent' = [sent EXCEPT ![Head(draining)] = 1]
        /\ UNCHANGED <<_outbox, asked, at, _pending_prompt_id>>
    BY <1>8 DEF SendPrompt
  <2>3. /\ Head(draining) \in Elements(draining) /\ Elements(draining') \subseteq Elements(draining)
        /\ Distinct(draining') /\ Head(draining) \notin Elements(draining')
    BY <1>0, <2>1, <2>2, TailFacts
  <2>4. /\ (Elements(_outbox') \cup Elements(draining')) \cap shown' = {}
        /\ Elements(_outbox') \cap Elements(draining') = {}
    BY <1>0, <2>1, <2>2, <2>3
  <2>5. Posted' \subseteq Posted /\ (InWait(t)' <=> InWait(t))
    BY <2>2, <2>3 DEF Posted, InWait
  <2>6. \A q \in Prompt : sent'[q] > 0 => q \in shown'
    BY <1>0, <2>2
  <2>. QED  BY <1>0, <2>1, <2>2, <2>3, <2>4, <2>5, <2>6
<1>9. CASE (\E i \in Item : Put(i)) \/ StartRun \/ RunEnds \/ StartBatch \/ BatchEnds \/ CloseSession
           \/ Disconnect \/ SocketEnds
  <2>1. UNCHANGED <<_outbox, draining, pump, shown, asked, at, sent, _pending_prompt_id>>
    BY <1>9 DEF Put, StartRun, RunEnds, StartBatch, BatchEnds, CloseSession, Disconnect, SocketEnds
  <2>2. Posted' = Posted /\ (InWait(t)' <=> InWait(t))
    BY <2>1 DEF Posted, InWait
  <2>. QED  BY <1>0, <2>1, <2>2
<1>. QED  BY <1>1, <1>2, <1>3, <1>4, <1>5, <1>6, <1>7, <1>8, <1>9 DEF Next, Asking, Pump

\* A patient user answers the prompt that waits at most once, and so does the pump.
LEMMA ItemsStep == ASSUME NEW t, Alone(t), IInv(t), Next PROVE Items(t)'
<1>. USE PromptAssumption DEF Alone, comm, pumping, threads, user, session, Item
<1>. SUFFICES ASSUME ~cancelled' PROVE Items(t)'
  BY DEF Items
<1>0. /\ Types /\ Pipe(t) /\ sent \in [Prompt -> 0..2] /\ putting \in [Item -> Nat]
      /\ at \in [{t} -> {"idle", "asking", "posting", "waiting", "taken", "answered"}]
      /\ Posted \subseteq Prompt /\ cancelled \in BOOLEAN
  BY PostedFacts DEF IInv, Types
<1>1. ~cancelled
  BY <1>0 DEF Next, Asking, EnterWait, PostPrompt, TakeInput, LeaveWait, Return, ReadRaises, Leaves, Pump, CopyOutbox,
         ClearOutbox, SendPrompt, Put, SocketEnds, Ask, Submit, SocketInput, Answers, StartRun, RunEnds,
         StartBatch, BatchEnds, CloseSession, CancelWait, Disconnect
<1>2. /\ at[t] # "waiting" => Clean
      /\ at[t] = "waiting" =>
           \/ Clean
           \/ /\ sent[prompt[t]] > 0
              /\ \/ /\ _pending_input = <<>>
                    /\ \A i \in Item : putting[i] = IF i = prompt[t] THEN 1 ELSE 0
                 \/ /\ _pending_input = <<prompt[t]>>
                    /\ \A i \in Item : putting[i] = 0
      /\ \A q \in Posted : sent[q] = 0 => prompt[t] = q /\ at[t] = "waiting"
  BY <1>1 DEF IInv, Items
<1>3. ASSUME Begin({})
      PROVE  putting' = putting
  BY <1>0, <1>3 DEF Begin
<1>4. CASE Ask(t) \/ EnterWait(t) \/ LeaveWait(t) \/ Return(t) \/ ReadRaises(t)
  <2>1. at[t] # "waiting" /\ at'[t] # "waiting"
        /\ UNCHANGED <<_pending_input, putting, _outbox, draining, shown, sent>>
    BY <1>0, <1>4 DEF Ask, EnterWait, LeaveWait, Return, ReadRaises, Leaves
  <2>2. Clean' /\ Posted' = Posted
    BY <1>2, <2>1 DEF Clean, Posted
  <2>. QED  BY <1>2, <2>1, <2>2 DEF Items
<1>5. CASE PostPrompt(t)
  <2>1. /\ at[t] # "waiting" /\ at'[t] = "waiting" /\ prompt[t] \in Prompt
        /\ _outbox' = Append(_outbox, prompt[t])
        /\ UNCHANGED <<_pending_input, putting, draining, shown, sent, prompt>>
    BY <1>0, <1>5, PromptFacts DEF PostPrompt
  <2>2. Clean' /\ Posted' = Posted \cup {prompt[t]}
    <3>1. Elements(_outbox') = Elements(_outbox) \cup {prompt[t]}
      BY <1>0, <2>1, AppendFacts DEF Types
    <3>. QED  BY <1>2, <2>1, <3>1 DEF Clean, Posted
  <2>. QED  BY <1>2, <2>1, <2>2 DEF Items
<1>6. CASE TakeInput(t)
  <2>1. /\ at[t] = "waiting" /\ at'[t] = "taken" /\ _pending_input # <<>>
        /\ UNCHANGED <<putting, _outbox, draining, shown, sent, prompt>>
    BY <1>0, <1>6 DEF TakeInput, Received
  <2>2. sent[prompt[t]] > 0 /\ _pending_input = <<prompt[t]>> /\ \A i \in Item : putting[i] = 0
    BY <1>2, <2>1 DEF Clean
  <2>3. _pending_input' = <<>>
    BY <1>6, <2>2 DEF TakeInput, Received
  <2>4. Clean' /\ Posted' = Posted
    BY <2>1, <2>2, <2>3 DEF Clean, Posted
  <2>5. \A q \in Posted : sent[q] # 0
    BY <1>0, <1>2, <2>2
  <2>. QED  BY <2>1, <2>4, <2>5 DEF Items
\* An answer that names its prompt, or an unnamed one: it is for a prompt that waits.
<1>7. ASSUME NEW p \in Prompt, Answers(p), MayAnswer(p), Begin({q \in {p} : Accepts(q)})
      PROVE  Items(t)'
  <2>1. /\ p \in shown
        /\ sent[p] = 0 \/ prompt[t] # p
        /\ sent' = [sent EXCEPT ![p] = @ + 1]
        /\ UNCHANGED <<_pending_input, _outbox, draining, shown, at, prompt>>
    BY <1>7 DEF Answers, MayAnswer
  <2>2. sent'[p] > 0 /\ \A q \in Prompt : sent[q] > 0 => sent'[q] > 0
    BY <1>0, <2>1
  <2>3. Posted' = Posted /\ \A q \in Posted : sent'[q] = 0 => sent[q] = 0
    BY <1>0, <2>1, <2>2 DEF Posted
  <2>4. CASE ~Accepts(p)
    <3>1. putting' = putting
      BY <1>3, <1>7, <2>4
    <3>2. at[t] = "waiting" => prompt[t] \in Prompt
      BY PromptFacts
    <3>. QED  BY <1>2, <2>1, <2>2, <2>3, <3>1, <3>2 DEF Items, Clean
  <2>5. CASE Accepts(p)
    <3>1. InWait(t) /\ prompt[t] = p
      <4>1. p \in Posted /\ _pending_prompt_id = p
        BY <2>1, <2>5 DEF Posted, Accepts
      <4>2. InWait(t)
        BY <1>0, <4>1 DEF Pipe
      <4>. QED  BY <4>1, <4>2, PromptFacts DEF InWait
    <3>2. sent[p] = 0 /\ p \in Posted
      BY <2>1, <3>1 DEF Posted
    <3>3. at[t] = "waiting" /\ Clean
      BY <1>2, <3>1, <3>2
    <3>4. \A i \in Item : putting'[i] = IF i = p THEN 1 ELSE 0
      BY <1>7, <2>5, <3>3 DEF Begin, Clean
    <3>. QED  BY <1>2, <2>1, <2>2, <2>3, <3>1, <3>3, <3>4 DEF Items, Clean
  <2>. QED  BY <2>4, <2>5
<1>8. ASSUME NEW p \in Prompt, SocketInput(p), sent[p] = 0, Begin({q \in {p} : _pending_prompt_id # None})
      PROVE  Items(t)'
  <2>1. p \in shown /\ Answers(p) /\ MayAnswer(p)
    BY <1>8 DEF SocketInput, Answers, MayAnswer
  <2>2. prompt[t] = p /\ at[t] = "waiting"
    BY <1>2, <1>8, <2>1 DEF Posted
  <2>3. _pending_prompt_id = p /\ p # None
    BY <2>2, PromptFacts DEF InWait
  <2>4. {q \in {p} : _pending_prompt_id # None} = {q \in {p} : Accepts(q)}
    BY <2>3 DEF Accepts
  <2>. QED  BY <1>7, <1>8, <2>1, <2>4
<1>9. CASE \E p \in Prompt : Submit(p) \/ SocketInput(p)
  BY <1>7, <1>8, <1>9 DEF Submit, SocketInput
<1>10. CASE CopyOutbox \/ ClearOutbox
  <2>1. UNCHANGED <<_pending_input, putting, shown, sent, at, prompt>> /\ Posted' \subseteq Posted
    BY <1>10, EmptyFacts DEF CopyOutbox, ClearOutbox, Posted
  <2>. QED  BY <1>2, <2>1 DEF Items, Clean
<1>11. CASE SendPrompt
  <2>0. pump = "sending" /\ draining # <<>>
    BY <1>0, <1>11 DEF SendPrompt, Pipe
  <2>. PICK p \in Prompt : p = Head(draining)
    BY <1>0, <2>0, TailFacts DEF Types
  <2>1. /\ Begin({q \in {p} : AutoAnswers(q) /\ Accepts(q)})
        /\ sent' = IF AutoAnswers(p) THEN [sent EXCEPT ![p] = 1] ELSE sent
        /\ draining' = Tail(draining) /\ shown' = shown \cup {p}
        /\ UNCHANGED <<_pending_input, _outbox, at, prompt>>
    BY <1>11 DEF SendPrompt
  <2>2. p \in Elements(draining) /\ Elements(draining') \subseteq Elements(draining)
    BY <1>0, <2>0, <2>1, TailFacts DEF Types
  <2>3. p \in Posted /\ Posted' \subseteq Posted
    BY <2>1, <2>2 DEF Posted
  <2>4. sent[p] = 0
    <3>1. p \notin shown
      BY <1>0, <2>2 DEF Pipe
    <3>2. sent[p] \in 0..2 /\ ~(sent[p] > 0)
      BY <1>0, <3>1 DEF Pipe
    <3>. QED  BY <3>2
  <2>5. at[t] = "waiting" /\ prompt[t] = p /\ Clean
    BY <1>2, <2>3, <2>4
  <2>6. CASE ~AutoAnswers(p)
    <3>1. putting' = putting /\ sent' = sent
      BY <1>3, <2>1, <2>6
    <3>. QED  BY <1>2, <2>1, <2>3, <2>5, <3>1 DEF Items, Clean
  <2>7. CASE AutoAnswers(p)
    <3>1. Accepts(p)
      BY <2>5, PromptFacts DEF Accepts, InWait
    <3>2. \A i \in Item : putting'[i] = IF i = p THEN 1 ELSE 0
      BY <2>1, <2>5, <2>7, <3>1 DEF Begin, Clean
    <3>3. sent'[p] > 0 /\ \A q \in Posted : sent'[q] = 0 => sent[q] = 0
      BY <1>0, <2>1, <2>7
    <3>. QED  BY <1>2, <2>1, <2>3, <2>5, <3>2, <3>3 DEF Items, Clean
  <2>. QED  BY <2>6, <2>7
<1>12. ASSUME NEW i \in Item, Put(i)
       PROVE  Items(t)'
  <2>1. /\ putting[i] > 0 /\ putting' = [putting EXCEPT ![i] = @ - 1]
        /\ _pending_input' = Append(_pending_input, i)
        /\ UNCHANGED <<_outbox, draining, shown, at, prompt, sent>>
    BY <1>12 DEF Put
  <2>2. /\ at[t] = "waiting" /\ sent[prompt[t]] > 0 /\ _pending_input = <<>>
        /\ \A j \in Item : putting[j] = IF j = prompt[t] THEN 1 ELSE 0
    BY <1>0, <1>2, <2>1 DEF Clean
  <2>3. i = prompt[t] /\ \A j \in Item : putting'[j] = 0
    BY <1>0, <2>1, <2>2
  <2>4. _pending_input' = <<prompt[t]>> /\ Posted' = Posted
    BY <2>1, <2>2, <2>3 DEF Posted
  <2>. QED  BY <1>2, <2>1, <2>2, <2>3, <2>4 DEF Items
<1>13. CASE StartRun \/ RunEnds \/ StartBatch \/ BatchEnds \/ Disconnect
  <2>1. UNCHANGED <<_pending_input, putting, _outbox, draining, shown, sent, at, prompt>>
    BY <1>13 DEF StartRun, RunEnds, StartBatch, BatchEnds, Disconnect
  <2>2. Posted' = Posted
    BY <2>1 DEF Posted
  <2>. QED  BY <1>2, <2>1, <2>2 DEF Items, Clean
<1>14. CASE CloseSession \/ SocketEnds
  <2>1. UNCHANGED <<_pending_input, _outbox, draining, shown, sent, at, prompt>>
    BY <1>14 DEF CloseSession, SocketEnds
  <2>2. CASE UNCHANGED <<putting, cancelled>>
    <3>1. Posted' = Posted
      BY <2>1 DEF Posted
    <3>. QED  BY <1>2, <2>1, <2>2, <3>1 DEF Items, Clean
  <2>3. CASE CancelWait
    <3>1. ~Cancels
      BY <2>3 DEF CancelWait
    <3>2. {i \in {None} : Cancels} = {}
      BY <3>1
    <3>3. putting' = putting
      BY <1>3, <2>3, <3>1, <3>2 DEF CancelWait
    <3>4. Posted' = Posted
      BY <2>1 DEF Posted
    <3>. QED  BY <1>2, <2>1, <3>3, <3>4 DEF Items, Clean
  <2>. QED  BY <1>14, <2>2, <2>3 DEF CloseSession, SocketEnds
<1>. QED  BY <1>4, <1>5, <1>6, <1>9, <1>10, <1>11, <1>12, <1>13, <1>14 DEF Next, Asking, Pump

\* The thread takes its own answer from the queue.
LEMMA OwnAnswerStep == ASSUME NEW t, Alone(t), IInv(t), Next PROVE OwnAnswer'
<1>. USE DEF Alone, comm, pumping, threads, user, session
<1>0. cancelled => cancelled'
  BY DEF Next, Asking, EnterWait, PostPrompt, TakeInput, LeaveWait, Return, ReadRaises, Leaves, Pump, CopyOutbox,
         ClearOutbox, SendPrompt, Put, SocketEnds, Ask, Submit, SocketInput, Answers, StartRun, RunEnds,
         StartBatch, BatchEnds, CloseSession, CancelWait, Disconnect
<1>1. CASE TakeInput(t)
  <2> SUFFICES ASSUME ~cancelled PROVE \A p \in Prompt : answer'[p] \in {p, Unanswered}
    BY <1>1 DEF TakeInput, OwnAnswer
  <2>1. at[t] = "waiting" /\ _pending_input # <<>>
    BY <1>1 DEF TakeInput, Received
  <2>2. _pending_input = <<prompt[t]>>
    BY <2>1 DEF IInv, Items, Clean
  <2>3. answer' = [answer EXCEPT ![prompt[t]] = prompt[t]]
    BY <1>1, <2>2 DEF TakeInput, Received
  <2>. QED  BY <2>3 DEF IInv, OwnAnswer, Types
<1>2. CASE UNCHANGED answer
  BY <1>0, <1>2 DEF IInv, OwnAnswer
<1>. QED  BY <1>1, <1>2, OthersStep DEF Next, Asking, EnterWait, PostPrompt, LeaveWait, Return, ReadRaises, Leaves, Ask

LEMMA StepIInv == ASSUME NEW t, Alone(t) PROVE IInv(t) /\ [Next]_vars => IInv(t)'
<1>1. ASSUME IInv(t), Next PROVE IInv(t)'
  BY <1>1, TypesStep, ProgramStep, PipeStep, ItemsStep, OwnAnswerStep DEF IInv
<1>2. ASSUME IInv(t), UNCHANGED vars PROVE IInv(t)'
  <2>. USE DEF vars, comm, pumping, threads, user, session
  <2>1. Types' /\ Program(t)'
    BY <1>2 DEF IInv, Types, Program, InWait
  <2>2. Posted' = Posted /\ (InWait(t)' <=> InWait(t)) /\ (Clean' <=> Clean)
    BY <1>2 DEF Posted, InWait, Clean
  <2>3. Pipe(t)'
    BY <1>2, <2>2 DEF IInv, Pipe
  <2>4. Items(t)' /\ OwnAnswer'
    BY <1>2, <2>2 DEF IInv, Items, OwnAnswer
  <2>. QED  BY <2>1, <2>3, <2>4 DEF IInv
<1>. QED  BY <1>1, <1>2

-----------------------------------------------------------------------------
(***************************************************************************)
(* The theorems.                                                           *)
(***************************************************************************)

\* WebUserCommunication's queue carries no prompt ids, and needs none as long as one
\* thread asks at a time, the user answers a waiting prompt once and no wait is cancelled.
THEOREM AnswersAreOwn == ASSUME NEW t, Alone(t) PROVE Spec => []OwnAnswer
<1>1. Init => IInv(t)
  BY InitIInv
<1>2. IInv(t) /\ [Next]_vars => IInv(t)'
  BY StepIInv
<1>3. IInv(t) => OwnAnswer
  BY DEF IInv
<1>. QED  BY <1>1, <1>2, <1>3, PTL DEF Spec

-----------------------------------------------------------------------------
(***************************************************************************)
(* What the liveness of the waits rests on.  Once a wait was cancelled the *)
(* queue may hold anything, so a thread may get another item than its      *)
(* answer; but it gets one.                                                *)
(***************************************************************************)

\* An answer that was accepted, and is about to be put or in the queue, finds its prompt's
\* thread in its wait, unless a wait was cancelled and that thread got another item.
AcceptedIsAwaited ==
  \A p \in Prompt :
    putting[p] > 0 \/ p \in Elements(_pending_input) =>
      \/ \E t \in Thread : prompt[t] = p /\ at[t] = "waiting"
      \/ cancelled /\ answer[p] # Unanswered

\* While a thread that /close interrupted has no item, it is before or in its wait, and
\* something to end the wait is in the queue or about to be put there (cancel_wait).
InterruptedIsServed ==
  \A t \in Thread :
    prompt[t] \in closed_on /\ answer[prompt[t]] = Unanswered =>
      /\ at[t] \in {"posting", "waiting"}
      /\ _pending_input # <<>> \/ putting[None] > 0

\* A posted prompt without an answer is waited for.
WaitedFor(t) == \A q \in Posted : answer[q] = Unanswered => prompt[t] = q /\ at[t] = "waiting"

\* Users and the pump answer prompts that the browser was sent.
ShownItems == \A p \in Prompt : putting[p] > 0 \/ p \in Elements(_pending_input) => p \in shown

\* Prompts that were interrupted had been created.
Closed == closed_on \subseteq Prompt /\ \A q \in closed_on : q <= asked

WaitInv(t) ==
  /\ IInv(t)
  /\ pending_interactions \subseteq Prompt
  /\ PromptsAreLive
  /\ WaitedFor(t)
  /\ ShownItems
  /\ Closed
  /\ InterruptedIsServed

LEMMA InitWaitInv == ASSUME NEW t, Alone(t), Init PROVE WaitInv(t)
<1>1. IInv(t)
  BY InitIInv
<1>2. WaitedFor(t) /\ ShownItems
  BY EmptyFacts, PromptAssumption DEF Init, WaitedFor, Posted, ShownItems, Item
<1>. QED  BY <1>1, <1>2, PromptAssumption DEF WaitInv, Init, Alone, PromptsAreLive, Closed, InterruptedIsServed

\* Interactions are open for prompts that are asked or whose read raised, and answers are
\* taken in a wait.
LEMMA LiveStep ==
  ASSUME NEW t, Alone(t), WaitInv(t), Next
  PROVE  pending_interactions' \subseteq Prompt /\ PromptsAreLive'
<1>. USE PromptAssumption DEF Alone, comm, pumping, threads, user, session
<1>0. /\ IInv(t) /\ pending_interactions \subseteq Prompt /\ pending_interactions \subseteq {prompt[t]} \cup raised
      /\ at \in [{t} -> {"idle", "asking", "posting", "waiting", "taken", "answered"}]
      /\ prompt \in [{t} -> Prompt \cup {None}] /\ asked \in Nat
  BY DEF WaitInv, IInv, Types, PromptsAreLive
<1>1. Types' /\ Program(t)' /\ Pipe(t)'
  BY <1>0, TypesStep, ProgramStep, PipeStep
<1>2. _pending_prompt_id' # None =>
        \/ \E u \in Thread : prompt'[u] = _pending_prompt_id' /\ at'[u] \in {"posting", "waiting", "taken"}
        \/ _pending_prompt_id' \in raised' \ shown'
  BY <1>1 DEF Program, Pipe, Posted, InWait
<1>3. pending_interactions' \subseteq Prompt /\ pending_interactions' \subseteq {prompt'[t]} \cup raised'
  <2>1. CASE Ask(t)
    <3>1. None \notin pending_interactions /\ prompt[t] = None
      BY <1>0, <2>1, PromptFacts DEF Ask
    <3>2. asked' \in Prompt /\ prompt'[t] = asked'
      BY <1>0, <2>1 DEF Ask, Prompt
    <3>. QED  BY <1>0, <2>1, <3>1, <3>2 DEF Ask
  <2>2. CASE Return(t)
    BY <1>0, <2>2 DEF Return, Leaves
  <2>3. CASE ReadRaises(t)
    BY <1>0, <2>3 DEF ReadRaises, Leaves
  <2>4. CASE UNCHANGED <<pending_interactions, prompt, raised>>
    BY <1>0, <2>4
  <2>. QED  BY <2>1, <2>2, <2>3, <2>4, OthersStep DEF Next, Asking, EnterWait, PostPrompt, TakeInput, LeaveWait
<1>. QED  BY <1>2, <1>3 DEF PromptsAreLive

\* A thread waits for the prompt it posted until it gets an item.
LEMMA WaitedForStep == ASSUME NEW t, Alone(t), WaitInv(t), Next PROVE WaitedFor(t)'
<1>. USE PromptAssumption DEF Alone, comm, pumping, threads, user, session
<1>0. /\ IInv(t) /\ WaitedFor(t) /\ Pipe(t) /\ Types /\ Unanswered \notin Item
      /\ _pending_input \in Seq(Item) /\ answer \in [Prompt -> Item \cup {Unanswered}]
      /\ at \in [{t} -> {"idle", "asking", "posting", "waiting", "taken", "answered"}]
  BY DEF WaitInv, IInv, Types, Item
<1>. USE DEF WaitedFor
<1>1. CASE TakeInput(t)
  <2>1. prompt[t] \in Prompt /\ Head(_pending_input) \in Item
    BY <1>0, <1>1, PromptFacts, TailFacts DEF TakeInput, Received
  <2>2. answer' = [answer EXCEPT ![prompt[t]] = Head(_pending_input)] /\ UNCHANGED <<_outbox, draining, shown>>
    BY <1>1 DEF TakeInput, Received
  <2>3. Posted' = Posted /\ Posted \subseteq Prompt
    BY <1>0, <2>2, PostedFacts DEF Posted
  <2>4. \A q \in Posted : answer'[q] = Unanswered => q # prompt[t] /\ answer[q] = Unanswered
    BY <1>0, <2>1, <2>2, <2>3
  <2>. QED  BY <1>0, <2>3, <2>4
<1>2. CASE PostPrompt(t)
  <2>1. /\ at[t] # "waiting" /\ at'[t] = "waiting" /\ prompt[t] \in Prompt
        /\ _outbox' = Append(_outbox, prompt[t]) /\ UNCHANGED <<draining, shown, prompt, answer>>
    BY <1>0, <1>2, PromptFacts DEF PostPrompt
  <2>2. Posted' = Posted \cup {prompt[t]}
    BY <1>0, <2>1, AppendFacts DEF Posted, Types
  <2>. QED  BY <1>0, <2>1, <2>2
<1>3. CASE Ask(t) \/ EnterWait(t) \/ LeaveWait(t) \/ Return(t) \/ ReadRaises(t)
  <2>1. at[t] # "waiting" /\ UNCHANGED <<_outbox, draining, shown, answer>>
    BY <1>0, <1>3 DEF Ask, EnterWait, LeaveWait, Return, ReadRaises, Leaves
  <2>2. Posted' = Posted
    BY <2>1 DEF Posted
  <2>. QED  BY <1>0, <2>1, <2>2
<1>4. CASE Posted' \subseteq Posted /\ UNCHANGED threads
  BY <1>0, <1>4
<1>5. CASE Pump
  <2>1. Posted' \subseteq Posted
    <3>1. CASE CopyOutbox \/ ClearOutbox
      BY <3>1, EmptyFacts DEF CopyOutbox, ClearOutbox, Posted
    <3>2. CASE SendPrompt
      <4>1. draining # <<>> /\ draining' = Tail(draining) /\ shown' = shown \cup {Head(draining)}
            /\ UNCHANGED _outbox
        BY <1>0, <3>2 DEF SendPrompt, Pipe
      <4>2. Head(draining) \in Elements(draining) /\ Elements(draining') \subseteq Elements(draining)
        BY <1>0, <4>1, TailFacts DEF Types
      <4>. QED  BY <4>1, <4>2 DEF Posted
    <3>. QED  BY <1>5, <3>1, <3>2 DEF Pump
  <2>. QED  BY <1>4, <1>5, <2>1, OthersStep
<1>6. CASE (\E i \in Item : Put(i)) \/ (\E p \in Prompt : Submit(p) \/ SocketInput(p))
           \/ StartRun \/ RunEnds \/ StartBatch \/ BatchEnds \/ CloseSession \/ Disconnect \/ SocketEnds
  <2>1. UNCHANGED <<_outbox, draining, shown>>
    BY <1>6 DEF Put, Submit, SocketInput, Answers, StartRun, RunEnds, StartBatch, BatchEnds, CloseSession,
                Disconnect, SocketEnds
  <2>2. Posted' = Posted
    BY <2>1 DEF Posted
  <2>. QED  BY <1>4, <1>6, <2>2, OthersStep
<1>. QED  BY <1>1, <1>2, <1>3, <1>5, <1>6 DEF Next, Asking

LEMMA ShownItemsStep == ASSUME NEW t, Alone(t), WaitInv(t), Next PROVE ShownItems'
<1>. USE PromptAssumption DEF Alone, comm, pumping, threads, user, session
<1>0. /\ IInv(t) /\ Pipe(t) /\ Types /\ _pending_input \in Seq(Item) /\ putting \in [Item -> Nat]
      /\ Prompt \subseteq Item /\ None \notin Prompt
      /\ \A p \in Prompt : putting[p] > 0 \/ p \in Elements(_pending_input) => p \in shown
  BY DEF WaitInv, IInv, Types, Item, ShownItems
<1>. USE DEF ShownItems
<1>1. CASE TakeInput(t)
  <2>1. Elements(_pending_input') \subseteq Elements(_pending_input) /\ UNCHANGED <<putting, shown>>
    BY <1>0, <1>1, TailFacts DEF TakeInput, Received
  <2>. QED  BY <1>0, <2>1
<1>2. ASSUME NEW i \in Item, Put(i) PROVE ShownItems'
  <2>1. Elements(_pending_input') = Elements(_pending_input) \cup {i} /\ putting[i] > 0 /\ shown' = shown
    BY <1>0, <1>2, AppendFacts DEF Put
  <2>2. \A p \in Prompt : putting'[p] > 0 => putting[p] > 0
    BY <1>0, <1>2 DEF Put
  <2>. QED  BY <1>0, <2>1, <2>2
<1>3. ASSUME NEW items \in SUBSET Item, Begin(items), items \cap Prompt \subseteq shown',
             shown \subseteq shown', UNCHANGED _pending_input
      PROVE  ShownItems'
  <2>1. \A p \in Prompt : putting'[p] > 0 => putting[p] > 0 \/ p \in items
    BY <1>0, <1>3 DEF Begin
  <2>. QED  BY <1>0, <1>3, <2>1
<1>4. CASE \E p \in Prompt : Submit(p) \/ SocketInput(p)
  BY <1>0, <1>3, <1>4 DEF Submit, SocketInput, Answers
<1>5. CASE SendPrompt
  <2>1. Head(draining) \in Prompt
    BY <1>0, <1>5, TailFacts DEF SendPrompt, Pipe, Types
  <2>. QED  BY <1>0, <1>3, <1>5, <2>1 DEF SendPrompt
<1>6. CASE CloseSession \/ SocketEnds
  <2>1. {i \in {None} : Cancels} \in SUBSET Item /\ {i \in {None} : Cancels} \cap Prompt = {}
    BY <1>0 DEF Item
  <2>2. UNCHANGED <<_pending_input, shown>>
    BY <1>6 DEF CloseSession, SocketEnds
  <2>3. CASE CancelWait
    BY <1>3, <2>1, <2>2, <2>3 DEF CancelWait
  <2>4. CASE UNCHANGED putting
    BY <1>0, <2>2, <2>4
  <2>. QED  BY <1>6, <2>3, <2>4 DEF CloseSession, SocketEnds
<1>7. CASE UNCHANGED <<putting, _pending_input, shown>>
  BY <1>0, <1>7
<1>. QED  BY <1>1, <1>2, <1>4, <1>5, <1>6, <1>7 DEF Next, Asking, EnterWait, PostPrompt, LeaveWait, Return, ReadRaises,
     Leaves, Ask, Pump, CopyOutbox, ClearOutbox, StartRun, RunEnds, StartBatch, BatchEnds, Disconnect

LEMMA ClosedStep == ASSUME NEW t, Alone(t), WaitInv(t), Next PROVE Closed'
<1>. USE PromptAssumption DEF Alone, comm, pumping, threads, user, session
<1>0. IInv(t) /\ Closed /\ asked \in Nat /\ Prompt \subseteq Nat
  BY DEF WaitInv, IInv, Types, Prompt
<1>1. CASE CloseSession
  <2>1. closed_on' \subseteq Prompt /\ (\A q \in closed_on' : q = asked) /\ asked' = asked
    BY <1>0, <1>1, PromptFacts DEF CloseSession
  <2>. QED  BY <1>0, <2>1 DEF Closed
<1>2. CASE UNCHANGED closed_on /\ (asked' = asked \/ asked' = asked + 1)
  <2>1. \A q \in closed_on : q \in Nat /\ q <= asked
    BY <1>0 DEF Closed
  <2>. QED  BY <1>0, <1>2, <2>1 DEF Closed
<1>. QED  BY <1>1, <1>2 DEF Next, Asking, EnterWait, PostPrompt, TakeInput, LeaveWait, Return, ReadRaises,
     Leaves, Ask, Pump, CopyOutbox, ClearOutbox, SendPrompt, Put, SocketEnds, Submit, SocketInput, Answers,
     StartRun, RunEnds, StartBatch, BatchEnds, Disconnect

\* cancel_wait puts its item for the wait it interrupts, and items leave the queue to end it.
LEMMA InterruptedStep == ASSUME NEW t, Alone(t), WaitInv(t), Next PROVE InterruptedIsServed'
<1>. USE PromptAssumption DEF Alone, comm, pumping, threads, user, session
<1>0. /\ IInv(t) /\ Closed /\ _pending_input \in Seq(Item) /\ putting \in [Item -> Nat] /\ None \in Item
      /\ None \notin Prompt
      /\ answer \in [Prompt -> Item \cup {Unanswered}] /\ prompt \in [{t} -> Prompt \cup {None}]
      /\ at \in [{t} -> {"idle", "asking", "posting", "waiting", "taken", "answered"}]
  BY DEF WaitInv, IInv, Types, Item
<1>1. prompt[t] \in closed_on /\ answer[prompt[t]] = Unanswered =>
        /\ at[t] \in {"posting", "waiting"}
        /\ _pending_input # <<>> \/ putting[None] > 0
  BY DEF WaitInv, InterruptedIsServed
<1>. SUFFICES ASSUME prompt'[t] \in closed_on', answer'[prompt'[t]] = Unanswered
              PROVE  /\ at'[t] \in {"posting", "waiting"}
                     /\ _pending_input' # <<>> \/ putting'[None] > 0
  BY DEF InterruptedIsServed
<1>2. CASE CloseSession
  <2>1. prompt[t] \in closed_on' /\ UNCHANGED <<prompt, at, _pending_prompt_id>>
        /\ closed_on' = {prompt[u] : u \in {v \in Thread : at[v] \in {"posting", "waiting"}}}
    BY <1>2 DEF CloseSession
  <2>2. at[t] \in {"posting", "waiting"}
    BY <2>1
  <2>3. Cancels
    BY <1>0, <2>2, PromptFacts DEF Cancels, InWait
  <2>4. None \in {i \in {None} : Cancels} /\ Begin({i \in {None} : Cancels})
    BY <1>2, <2>3 DEF CloseSession, CancelWait
  <2>5. putting'[None] > 0
    BY <1>0, <2>4 DEF Begin
  <2>. QED  BY <2>1, <2>2, <2>5
<1>3. CASE TakeInput(t)
  <2>1. prompt[t] \in Prompt /\ Head(_pending_input) \in Item /\ Unanswered \notin Item /\ UNCHANGED prompt
    BY <1>0, <1>3, PromptFacts, TailFacts DEF TakeInput, Received, Item
  <2>2. answer' = [answer EXCEPT ![prompt[t]] = Head(_pending_input)]
    BY <1>3 DEF TakeInput, Received
  <2>3. answer'[prompt'[t]] # Unanswered
    BY <1>0, <2>1, <2>2
  <2>. QED  BY <2>3
<1>4. CASE Ask(t)
  <2>1. prompt'[t] = asked + 1 /\ UNCHANGED closed_on /\ asked \in Nat
    BY <1>0, <1>4, PromptFacts DEF Ask
  <2>2. asked + 1 <= asked
    BY <1>0, <2>1 DEF Closed
  <2>. QED  BY <2>1, <2>2
<1>5. CASE EnterWait(t) \/ LeaveWait(t)
  <2>1. UNCHANGED <<answer, closed_on, prompt>> /\ at[t] \notin {"posting", "waiting"}
    BY <1>0, <1>5 DEF EnterWait, LeaveWait
  <2>. QED  BY <1>1, <2>1
<1>6. CASE Return(t) \/ ReadRaises(t)
  <2>1. prompt'[t] = None /\ UNCHANGED closed_on
    BY <1>0, <1>6 DEF Return, ReadRaises, Leaves
  <2>. QED  BY <1>0, <2>1 DEF Closed
<1>7. CASE PostPrompt(t)
  BY <1>0, <1>1, <1>7 DEF PostPrompt
<1>8. ASSUME NEW i \in Item, Put(i) PROVE _pending_input' # <<>>
  BY <1>0, <1>8 DEF Put
<1>9. CASE \E i \in Item : Put(i)
  BY <1>1, <1>8, <1>9 DEF Put
<1>10. ASSUME NEW items, Begin(items), UNCHANGED <<answer, closed_on, prompt, at, _pending_input>>
      PROVE  /\ at'[t] \in {"posting", "waiting"}
             /\ _pending_input' # <<>> \/ putting'[None] > 0
  <2>1. putting[None] > 0 => putting'[None] > 0
    BY <1>0, <1>10 DEF Begin
  <2>. QED  BY <1>1, <1>10, <2>1
<1>11. CASE (\E q \in Prompt : Submit(q) \/ SocketInput(q)) \/ SendPrompt \/ SocketEnds
  <2>1. CASE SocketEnds /\ UNCHANGED putting
    BY <1>1, <2>1 DEF SocketEnds
  <2>2. CASE SocketEnds /\ CancelWait
    BY <1>10, <2>2 DEF SocketEnds, CancelWait
  <2>. QED  BY <1>10, <1>11, <2>1, <2>2 DEF Submit, SocketInput, Answers, SendPrompt, SocketEnds
<1>12. CASE UNCHANGED <<answer, closed_on, prompt, at, _pending_input, putting>>
  BY <1>1, <1>12
<1>. QED  BY <1>2, <1>3, <1>4, <1>5, <1>6, <1>7, <1>9, <1>11, <1>12
     DEF Next, Asking, Pump, CopyOutbox, ClearOutbox, StartRun, RunEnds, StartBatch, BatchEnds, Disconnect

LEMMA StepWaitInv == ASSUME NEW t, Alone(t) PROVE WaitInv(t) /\ [Next]_vars => WaitInv(t)'
<1>1. ASSUME WaitInv(t), Next PROVE WaitInv(t)'
  <2>1. IInv(t)'
    BY <1>1, StepIInv DEF WaitInv
  <2>. QED  BY <1>1, <2>1, LiveStep, WaitedForStep, ShownItemsStep, ClosedStep, InterruptedStep DEF WaitInv
<1>2. ASSUME WaitInv(t), UNCHANGED vars PROVE WaitInv(t)'
  <2>1. IInv(t)'
    BY <1>2, StepIInv DEF WaitInv
  <2>. QED  BY <1>2, <2>1 DEF WaitInv, PromptsAreLive, WaitedFor, ShownItems, Closed, Posted, InterruptedIsServed,
       Elements, vars, comm, pumping, threads, user, session
<1>. QED  BY <1>1, <1>2

\* An answer that submit_user_input accepted is never left behind by its thread, as long as
\* no wait is cancelled; afterwards only where the thread got another item.
THEOREM NoAnswerIsLeft == ASSUME NEW t, Alone(t) PROVE Spec => []AcceptedIsAwaited
<1>1. Init => WaitInv(t)
  BY InitWaitInv
<1>2. WaitInv(t) /\ [Next]_vars => WaitInv(t)'
  BY StepWaitInv
<1>3. WaitInv(t) => AcceptedIsAwaited
  <2>. SUFFICES ASSUME WaitInv(t), NEW p \in Prompt, putting[p] > 0 \/ p \in Elements(_pending_input),
                       ~(prompt[t] = p /\ at[t] = "waiting")
                PROVE  cancelled /\ answer[p] # Unanswered
    BY DEF AcceptedIsAwaited, Alone
  <2>1. answer[p] # Unanswered
    BY DEF WaitInv, WaitedFor, ShownItems, Posted
  <2>2. ASSUME ~cancelled PROVE FALSE
    <3>1. ~Clean
      BY EmptyFacts DEF Clean, Item
    <3>2. at[t] = "waiting" /\ prompt[t] # p
      BY <2>2, <3>1 DEF WaitInv, IInv, Items
    <3>3. \/ _pending_input = <<>> /\ putting[p] = 0
          \/ _pending_input = <<prompt[t]>> /\ putting[p] = 0
      BY <2>2, <3>1, <3>2 DEF WaitInv, IInv, Items, Item
    <3>4. p \notin Elements(_pending_input)
      BY <3>2, <3>3, EmptyFacts DEF Elements
    <3>. QED  BY <3>3, <3>4
  <2>3. cancelled \in BOOLEAN
    BY DEF WaitInv, IInv, Types
  <2>. QED  BY <2>1, <2>2, <2>3
<1>. QED  BY <1>1, <1>2, <1>3, PTL DEF Spec

\* A wait that /close interrupts always has an item to end it, so that it ends as soon as
\* the putting call and the thread go on.
THEOREM CloseIsDelivered == ASSUME NEW t, Alone(t) PROVE Spec => []InterruptedIsServed
<1>1. Init => WaitInv(t)
  BY InitWaitInv
<1>2. WaitInv(t) /\ [Next]_vars => WaitInv(t)'
  BY StepWaitInv
<1>3. WaitInv(t) => InterruptedIsServed
  BY DEF WaitInv
<1>. QED  BY <1>1, <1>2, <1>3, PTL DEF Spec

\* Answers are taken, and interactions open, for prompts that are being asked or whose
\* read raised; and a prompt left pending by a read that raised never reaches the browser.
THEOREM LivePrompts == ASSUME NEW t, Alone(t) PROVE Spec => []PromptsAreLive
<1>1. Init => WaitInv(t)
  BY InitWaitInv
<1>2. WaitInv(t) /\ [Next]_vars => WaitInv(t)'
  BY StepWaitInv
<1>3. WaitInv(t) => PromptsAreLive
  BY DEF WaitInv
<1>. QED  BY <1>1, <1>2, <1>3, PTL DEF Spec
=============================================================================
