-------------------------- MODULE Workflows_proofs ---------------------------
(***************************************************************************)
(* Proofs about runs inside runs: the phases of a workflow, for any        *)
(* workflows, steps and mutations, and the token usage of a tree of runs,  *)
(* for any tree; and about what runs are given: the prompts that are taken *)
(* over, for any documents, the prompts that are shown, for any messages,  *)
(* the last word on servers and parameters, for any files and prompts, and *)
(* what a limit leaves of memory entries and skills, for any of them.      *)
(* What holds of all sequences and sums is proved by least counterexample: *)
(* LeastNatural and Inductive.                                             *)
(***************************************************************************)
EXTENDS
  WorkflowRun, UsageTracking, PromptReferences, ModelMessages, Catalogs,
  Integers, FiniteSets, FiniteSetTheorems, WellFoundedInduction, TLAPS

LEMMA LeastNatural ==
  ASSUME NEW T, T \subseteq Nat, T # {}
  PROVE  \E x \in T : \A y \in T : x <= y
<1> DEFINE U == {0..(t - 1) : t \in T}
<1>1. U \subseteq FiniteSubsetsOf(Nat)
  <2> SUFFICES ASSUME NEW t \in T PROVE 0..(t - 1) \in FiniteSubsetsOf(Nat)
    OBVIOUS
  <2>1. IsFiniteSet(0..(t - 1))
    BY FS_Interval
  <2> QED BY <2>1 DEF FiniteSubsetsOf
<1>2. U # {}
  OBVIOUS
<1>3. \E u \in U : \A v \in U : ~ (<<v, u>> \in StrictSubsetOrdering(Nat))
  <2>1. IsWellFoundedOn(StrictSubsetOrdering(Nat), FiniteSubsetsOf(Nat))
    BY FS_StrictSubsetOrderingWellFounded
  <2> HIDE DEF U
  <2> QED BY <1>1, <1>2, <2>1, WFMin
<1>4. PICK x \in T : \A v \in U : ~ (<<v, 0..(x - 1)>> \in StrictSubsetOrdering(Nat))
  BY <1>3
<1>5. ASSUME NEW y \in T, y < x PROVE FALSE
  <2>1. 0..(y - 1) \subseteq 0..(x - 1)
    BY <1>5
  <2>2. y \in 0..(x - 1) /\ y \notin 0..(y - 1)
    BY <1>5
  <2>3. <<0..(y - 1), 0..(x - 1)>> \in (SUBSET Nat) \X (SUBSET Nat)
    OBVIOUS
  <2> QED BY ZenonT(30), <2>1, <2>2, <2>3, <1>4 DEF StrictSubsetOrdering
<1> QED BY <1>5

LEMMA Inductive ==
  ASSUME NEW B, 0 \in B, \A n \in Nat : n \in B => n + 1 \in B
  PROVE  Nat \subseteq B
<1> SUFFICES ASSUME Nat \ B # {} PROVE FALSE
  OBVIOUS
<1>1. PICK x \in Nat \ B : \A y \in Nat \ B : x <= y
  BY LeastNatural
<1>2. x - 1 \in Nat /\ x - 1 \in B
  BY <1>1
<1> QED BY <1>1, <1>2

LEMMA InductiveSequences ==
  ASSUME NEW E, NEW B, <<>> \in B, \A s \in Seq(E), e \in E : s \in B => Append(s, e) \in B
  PROVE  Seq(E) \subseteq B
<1> DEFINE L == {n \in Nat : \A s \in Seq(E) : Len(s) = n => s \in B}
<1>1. 0 \in L
  OBVIOUS
<1>2. ASSUME NEW n \in Nat, n \in L PROVE n + 1 \in L
  <2> SUFFICES ASSUME NEW s \in Seq(E), Len(s) = n + 1 PROVE s \in B
    OBVIOUS
  <2>1. /\ SubSeq(s, 1, n) \in Seq(E) /\ Len(SubSeq(s, 1, n)) = n
        /\ s[n + 1] \in E /\ s = Append(SubSeq(s, 1, n), s[n + 1])
    OBVIOUS
  <2>2. SubSeq(s, 1, n) \in B
    BY <1>2, <2>1
  <2> QED BY <2>1, <2>2
<1>3. Nat \subseteq L
  <2> HIDE DEF L
  <2> QED BY <1>1, <1>2, Inductive
<1> QED BY <1>3

Rest(f, entries, gone, n) ==
  f = [i \in 0..n |-> IF i = 0 THEN <<>>
                      ELSE IF entries[i] \in gone THEN f[i - 1] ELSE Append(f[i - 1], entries[i])]

LEMMA RestExists ==
  ASSUME NEW entries, NEW gone
  PROVE  \A n \in Nat : \E f : Rest(f, entries, gone, n)
<1> DEFINE B == {n \in Nat : \E f : Rest(f, entries, gone, n)}
<1>1. 0 \in B
  <2>1. [i \in 0..0 |-> <<>>] = [i \in 0..0 |-> IF i = 0 THEN <<>>
             ELSE IF entries[i] \in gone THEN [j \in 0..0 |-> <<>>][i - 1]
                                         ELSE Append([j \in 0..0 |-> <<>>][i - 1], entries[i])]
    OBVIOUS
  <2> QED BY <2>1 DEF Rest
<1>2. ASSUME NEW n \in Nat, n \in B PROVE n + 1 \in B
  <2>1. PICK f : Rest(f, entries, gone, n)
    BY <1>2
  <2> DEFINE last == IF entries[n + 1] \in gone THEN f[n] ELSE Append(f[n], entries[n + 1])
             g    == [i \in 0..(n + 1) |-> IF i = n + 1 THEN last ELSE f[i]]
  <2>2. ASSUME NEW i \in 0..(n + 1)
        PROVE  g[i] = IF i = 0 THEN <<>>
                      ELSE IF entries[i] \in gone THEN g[i - 1] ELSE Append(g[i - 1], entries[i])
    <3>1. CASE i = n + 1
      <4>1. g[i] = last /\ g[i - 1] = f[n] /\ i # 0
        BY <3>1
      <4> HIDE DEF g
      <4> QED BY <3>1, <4>1
    <3>2. CASE i # n + 1
      <4>1. i \in 0..n /\ g[i] = f[i] /\ (i # 0 => g[i - 1] = f[i - 1])
        BY <3>2
      <4> HIDE DEF g, last
      <4>2. f[i] = IF i = 0 THEN <<>>
                   ELSE IF entries[i] \in gone THEN f[i - 1] ELSE Append(f[i - 1], entries[i])
        BY <2>1, <4>1 DEF Rest
      <4> QED BY <4>1, <4>2
    <3> QED BY <3>1, <3>2
  <2>3. g = [i \in 0..(n + 1) |-> g[i]]
    OBVIOUS
  <2> HIDE DEF g
  <2>4. Rest(g, entries, gone, n + 1)
    BY <2>2, <2>3 DEF Rest
  <2> QED BY <2>4
<1>3. Nat \subseteq B
  <2> HIDE DEF B
  <2> QED BY <1>1, <1>2, Inductive
<1> QED BY <1>3

LEMMA WithoutIsRest ==
  ASSUME NEW entries, NEW gone, Len(entries) \in Nat
  PROVE  \E f : Rest(f, entries, gone, Len(entries)) /\ Without(entries, gone) = f[Len(entries)]
<1>1. \E f : Rest(f, entries, gone, Len(entries))
  BY RestExists
<1>2. Rest(CHOOSE f : Rest(f, entries, gone, Len(entries)), entries, gone, Len(entries))
  BY <1>1
<1> QED BY <1>2 DEF Without, Rest
LEMMA RestAgrees ==
  ASSUME NEW a, NEW b, NEW gone, NEW m \in Nat, NEW n \in Nat, NEW f, NEW g, m <= n,
         Rest(f, a, gone, m), Rest(g, b, gone, n), \A i \in 1..m : a[i] = b[i]
  PROVE  \A i \in 0..m : f[i] = g[i]
<1> DEFINE B == {i \in Nat : i <= m => f[i] = g[i]}
<1>1. 0 \in B
  BY DEF Rest
<1>2. ASSUME NEW i \in Nat, i \in B PROVE i + 1 \in B
  <2> SUFFICES ASSUME i + 1 <= m PROVE f[i + 1] = g[i + 1]
    OBVIOUS
  <2>1. i + 1 \in 0..m /\ i + 1 \in 0..n /\ i + 1 # 0 /\ (i + 1) - 1 = i /\ a[i + 1] = b[i + 1]
    OBVIOUS
  <2>2. f[i + 1] = IF a[i + 1] \in gone THEN f[i] ELSE Append(f[i], a[i + 1])
    BY <2>1 DEF Rest
  <2>3. g[i + 1] = IF b[i + 1] \in gone THEN g[i] ELSE Append(g[i], b[i + 1])
    BY <2>1 DEF Rest
  <2> QED BY <1>2, <2>1, <2>2, <2>3
<1>3. Nat \subseteq B
  <2> HIDE DEF B
  <2> QED BY <1>1, <1>2, Inductive
<1> QED BY <1>3

LEMMA WithoutEmpty == \A gone : Without(<<>>, gone) = <<>>
<1> SUFFICES ASSUME NEW gone PROVE Without(<<>>, gone) = <<>>
  OBVIOUS
<1>1. PICK f : Rest(f, <<>>, gone, 0) /\ Without(<<>>, gone) = f[0]
  BY WithoutIsRest
<1> QED BY <1>1 DEF Rest

LEMMA WithoutAppend ==
  ASSUME NEW E, NEW s \in Seq(E), NEW e \in E, NEW gone
  PROVE  Without(Append(s, e), gone) =
           IF e \in gone THEN Without(s, gone) ELSE Append(Without(s, gone), e)
<1> DEFINE n == Len(s)
           t == Append(s, e)
<1>1. n \in Nat /\ Len(t) = n + 1 /\ t[n + 1] = e /\ Len(s) = n /\ \A i \in 1..n : s[i] = t[i]
  OBVIOUS
<1> HIDE DEF n, t
<1>2. PICK f : Rest(f, s, gone, n) /\ Without(s, gone) = f[n]
  BY <1>1, WithoutIsRest
<1>3. PICK g : Rest(g, t, gone, n + 1) /\ Without(t, gone) = g[n + 1]
  <2>1. Len(t) \in Nat
    BY <1>1
  <2> QED BY <1>1, <2>1, WithoutIsRest
<1>4. f[n] = g[n]
  <2>1. ASSUME NEW m \in Nat, m = n + 1 PROVE \A i \in 0..n : f[i] = g[i]
    <3>1. Rest(g, t, gone, m) /\ n <= m
      BY <1>1, <1>3, <2>1
    <3> QED BY <1>1, <1>2, <3>1, RestAgrees
  <2> QED BY <1>1, <2>1
<1>5. g[n + 1] = IF t[n + 1] \in gone THEN g[n] ELSE Append(g[n], t[n + 1])
  <2>1. n + 1 \in 0..(n + 1) /\ n + 1 # 0 /\ (n + 1) - 1 = n
    BY <1>1
  <2> QED BY <1>3, <2>1 DEF Rest
<1>6. Without(t, gone) = IF e \in gone THEN Without(s, gone) ELSE Append(Without(s, gone), e)
  BY <1>1, <1>2, <1>3, <1>4, <1>5
<1> QED BY <1>6 DEF t

Once(s, e) == \A i, j \in DOMAIN s : s[i] = e /\ s[j] = e => i = j

LEMMA WithoutTypes ==
  ASSUME NEW E, NEW gone
  PROVE  \A s \in Seq(E) : /\ Without(s, gone) \in Seq(E)
                           /\ ToSet(Without(s, gone)) = ToSet(s) \ gone
                           /\ \A e \in E : Once(s, e) => Once(Without(s, gone), e)
<1> DEFINE P(s) == /\ Without(s, gone) \in Seq(E)
                   /\ ToSet(Without(s, gone)) = ToSet(s) \ gone
                   /\ \A e \in E : Once(s, e) => Once(Without(s, gone), e)
           B == {s \in Seq(E) : P(s)}
<1>1. <<>> \in B
  <2>1. ToSet(<<>>) = {} /\ <<>> \in Seq(E) /\ \A e \in E : Once(<<>>, e)
    BY DEF ToSet, Once
  <2> QED BY <2>1, WithoutEmpty
<1>2. ASSUME NEW s \in Seq(E), NEW e \in E, s \in B PROVE Append(s, e) \in B
  <2> DEFINE w == Without(s, gone)
  <2>1. w \in Seq(E) /\ ToSet(w) = ToSet(s) \ gone /\ \A x \in E : Once(s, x) => Once(w, x)
    BY <1>2
  <2>2. Without(Append(s, e), gone) = IF e \in gone THEN w ELSE Append(w, e)
    BY WithoutAppend
  <2> HIDE DEF w
  <2>3. ASSUME NEW t \in Seq(E) PROVE ToSet(Append(t, e)) = ToSet(t) \cup {e}
    <3>1. /\ DOMAIN Append(t, e) = DOMAIN t \cup {Len(t) + 1}
          /\ Append(t, e)[Len(t) + 1] = e /\ \A i \in DOMAIN t : Append(t, e)[i] = t[i]
      OBVIOUS
    <3> QED BY <3>1 DEF ToSet
  <2>4. ASSUME NEW x \in E, Once(Append(s, e), x) PROVE Once(s, x) /\ (x = e => e \notin ToSet(s))
    <3>1. /\ DOMAIN Append(s, e) = DOMAIN s \cup {Len(s) + 1} /\ Len(s) + 1 \notin DOMAIN s
          /\ Append(s, e)[Len(s) + 1] = e /\ \A i \in DOMAIN s : Append(s, e)[i] = s[i]
      OBVIOUS
    <3> QED BY <2>4, <3>1 DEF Once, ToSet
  <2>5. \A x \in E : Once(w, x) /\ (x = e => e \notin ToSet(w)) => Once(Append(w, e), x)
    BY <2>1 DEF Once, ToSet
  <2>6. CASE e \in gone
    BY <2>1, <2>2, <2>3, <2>4, <2>6
  <2>7. CASE e \notin gone
    <3>1. ToSet(Append(w, e)) = ToSet(Append(s, e)) \ gone
      BY <2>1, <2>3, <2>7
    <3>2. Append(w, e) \in Seq(E)
      BY <2>1
    <3>3. \A x \in E : Once(Append(s, e), x) => Once(Append(w, e), x)
      BY <2>1, <2>4, <2>5
    <3>4. P(Append(s, e))
      BY <2>2, <2>7, <3>1, <3>2, <3>3
    <3>5. Append(s, e) \in Seq(E)
      OBVIOUS
    <3> QED BY <3>4, <3>5
  <2> QED BY <2>6, <2>7
<1>3. Seq(E) \subseteq B
  <2> HIDE DEF B
  <2> QED BY <1>1, <1>2, InductiveSequences
<1> QED BY <1>3

LEMMA WithoutTwice ==
  ASSUME NEW E, NEW gone, NEW some, some \subseteq gone
  PROVE  \A s \in Seq(E) : Without(Without(s, some), gone) = Without(s, gone)
<1> DEFINE B == {s \in Seq(E) : Without(Without(s, some), gone) = Without(s, gone)}
<1>1. <<>> \in B
  BY WithoutEmpty
<1>2. ASSUME NEW s \in Seq(E), NEW e \in E, s \in B PROVE Append(s, e) \in B
  <2>1. /\ Without(Append(s, e), some) = IF e \in some THEN Without(s, some) ELSE Append(Without(s, some), e)
        /\ Without(Append(s, e), gone) = IF e \in gone THEN Without(s, gone) ELSE Append(Without(s, gone), e)
    BY WithoutAppend
  <2>2. Without(s, some) \in Seq(E)
    BY WithoutTypes
  <2>3. Without(Append(Without(s, some), e), gone) =
          IF e \in gone THEN Without(Without(s, some), gone) ELSE Append(Without(Without(s, some), gone), e)
    BY <2>2, WithoutAppend
  <2>4. Without(Without(Append(s, e), some), gone) = Without(Append(s, e), gone)
    BY <1>2, <2>1, <2>3
  <2>5. Append(s, e) \in Seq(E)
    OBVIOUS
  <2> QED BY <2>4, <2>5
<1>3. Seq(E) \subseteq B
  <2> HIDE DEF B
  <2> QED BY <1>1, <1>2, InductiveSequences
<1> QED BY <1>3
-----------------------------------------------------------------------------
(* A run of a workflow *)

Message == [kind : {"initial_prompt", "result", "reply", "phase_result", "reminder"},
            step : StepId \cup {None}, text : {None}]
             \cup Prompts

Control ==
  /\ TypeOK
  /\ conversation_messages \in Seq(Message) /\ prompt_fragments \in Seq(Message)
  /\ workflow_initial_prompt_appended \in BOOLEAN

\* The task is in the conversation once if and only if the flag says so.
TaskOnce ==
  /\ workflow_initial_prompt_appended <=> InitialPrompt \in ToSet(conversation_messages)
  /\ Once(conversation_messages, InitialPrompt)

\* Inside a phase the step is that of a model, with the prompts it is to see.
PhasePrompts ==
  pc = "phase" =>
    /\ Current # None /\ Current.kind = "model"
    /\ phase_fragment \in Prompts /\ phase_fragment.step = step_id
    /\ Current.mode = "conversation_only" => workflow_initial_prompt_appended
    /\ Current.policy # "none" => phase_fragment \in Seen

WorkflowInv == Control /\ TaskOnce /\ PhasePrompts

LEMMA EntryAppended ==
  ASSUME NEW s \in Seq(Message), NEW m \in Message
  PROVE  /\ Append(s, m) \in Seq(Message) /\ s \o <<m>> = Append(s, m) /\ s \o <<>> = s
         /\ ToSet(Append(s, m)) = ToSet(s) \cup {m}
         /\ \A e \in Message : Once(s, e) /\ (m = e => e \notin ToSet(s)) => Once(Append(s, m), e)
<1>1. /\ DOMAIN Append(s, m) = DOMAIN s \cup {Len(s) + 1} /\ Len(s) + 1 \notin DOMAIN s
      /\ Append(s, m)[Len(s) + 1] = m /\ \A i \in DOMAIN s : Append(s, m)[i] = s[i]
  OBVIOUS
<1>2. ToSet(Append(s, m)) = ToSet(s) \cup {m}
  BY <1>1 DEF ToSet
<1>3. ASSUME NEW e \in Message, Once(s, e), m = e => e \notin ToSet(s) PROVE Once(Append(s, m), e)
  BY <1>1, <1>3 DEF Once, ToSet
<1>4. Append(s, m) \in Seq(Message) /\ s \o <<m>> = Append(s, m) /\ s \o <<>> = s
  OBVIOUS
<1> QED BY <1>2, <1>3, <1>4

LEMMA Notes ==
  /\ InitialPrompt \in Message /\ InitialPrompt \notin Prompts
  /\ Prompts \subseteq Message
  /\ \A s \in StepId, k \in {"result", "reply", "phase_result", "reminder"} :
       Note(k, s) \in Message /\ Note(k, s) # InitialPrompt /\ Note(k, s) \notin Prompts
<1>1. \A p \in Prompts : p.kind = "phase"
  BY DEF Prompts, Phase
<1>2. InitialPrompt.kind = "initial_prompt" /\ InitialPrompt \in Message
  BY DEF InitialPrompt, Note, Message
<1>3. Prompts \subseteq Message
  BY DEF Message
<1>4. ASSUME NEW s \in StepId, NEW k \in {"result", "reply", "phase_result", "reminder"}
      PROVE  Note(k, s) \in Message /\ Note(k, s).kind = k
  BY DEF Note, Message
<1> QED BY <1>1, <1>2, <1>3, <1>4

LEMMA PrefixOfAppend ==
  ASSUME NEW E, NEW s \in Seq(E), NEW e \in E
  PROVE  IsPrefix(s, s) /\ IsPrefix(s, Append(s, e))
<1>1. SubSeq(s, 1, Len(s)) = s /\ SubSeq(Append(s, e), 1, Len(s)) = s
  OBVIOUS
<1>2. Len(s) \in Nat /\ Len(Append(s, e)) = Len(s) + 1
  OBVIOUS
<1> QED BY <1>1, <1>2 DEF IsPrefix

LEMMA KeptEntries ==
  ASSUME NEW s \in Seq(Message)
  PROVE  /\ Kept(s) \in Seq(Message)
         /\ \A p \in Prompts : Kept(Append(s, p)) = Kept(s)
         /\ \A p \in Prompts : Kept(Without(s, {p})) = Kept(s)
         /\ \A m \in Message \ Prompts : Kept(Append(s, m)) = Append(Kept(s), m)
<1>1. Kept(s) \in Seq(Message)
  BY WithoutTypes DEF Kept
<1>2. ASSUME NEW m \in Message
      PROVE  Kept(Append(s, m)) = IF m \in Prompts THEN Kept(s) ELSE Append(Kept(s), m)
  BY WithoutAppend DEF Kept
<1>3. ASSUME NEW p \in Prompts PROVE Kept(Without(s, {p})) = Kept(s)
  <2>1. {p} \subseteq Prompts
    OBVIOUS
  <2> QED BY <2>1, WithoutTwice DEF Kept
<1>4. ASSUME NEW p \in Prompts PROVE Kept(Append(s, p)) = Kept(s)
  BY <1>2, Notes
<1> QED BY <1>1, <1>2, <1>3, <1>4

Evolves(s, t) ==
  /\ t \in Seq(Message) /\ IsPrefix(Kept(s), Kept(t))
  /\ InitialPrompt \in ToSet(t) <=> InitialPrompt \in ToSet(s)
  /\ Once(s, InitialPrompt) => Once(t, InitialPrompt)

LEMMA EvolvesSame == \A s \in Seq(Message) : Evolves(s, s) /\ Evolves(s, s \o <<>>)
<1> SUFFICES ASSUME NEW s \in Seq(Message) PROVE Evolves(s, s) /\ Evolves(s, s \o <<>>)
  OBVIOUS
<1>1. s \o <<>> = s
  OBVIOUS
<1>2. IsPrefix(Kept(s), Kept(s))
  BY KeptEntries, PrefixOfAppend, Notes
<1> QED BY <1>1, <1>2 DEF Evolves

\* An entry that is not the task: a phase's prompt is not counted as kept.
LEMMA EvolvesByEntry ==
  ASSUME NEW s \in Seq(Message), NEW m \in Message, m # InitialPrompt
  PROVE  Evolves(s, Append(s, m)) /\ Evolves(s, s \o <<m>>) /\ ToSet(Append(s, m)) = ToSet(s) \cup {m}
<1>1. IsPrefix(Kept(s), Kept(Append(s, m)))
  <2>1. CASE m \in Prompts
    <3>1. Kept(Append(s, m)) = Kept(s)
      BY <2>1, KeptEntries
    <3> QED BY <3>1, KeptEntries, PrefixOfAppend
  <2>2. CASE m \notin Prompts
    <3>1. Kept(Append(s, m)) = Append(Kept(s), m) /\ Kept(s) \in Seq(Message)
      BY <2>2, KeptEntries
    <3> QED BY <3>1, PrefixOfAppend
  <2> QED BY <2>1, <2>2
<1>2. /\ s \o <<m>> = Append(s, m) /\ Append(s, m) \in Seq(Message)
      /\ ToSet(Append(s, m)) = ToSet(s) \cup {m}
  BY EntryAppended
<1>3. Once(s, InitialPrompt) => Once(Append(s, m), InitialPrompt)
  BY EntryAppended, Notes
<1>4. InitialPrompt \in ToSet(Append(s, m)) <=> InitialPrompt \in ToSet(s)
  BY <1>2
<1>5. Evolves(s, Append(s, m))
  BY <1>1, <1>2, <1>3, <1>4 DEF Evolves
<1> QED BY <1>2, <1>5

LEMMA EvolvesByForgetting ==
  ASSUME NEW s \in Seq(Message), NEW t \in Seq(Message), Evolves(s, t), NEW p \in Prompts
  PROVE  Evolves(s, Without(t, {p})) /\ ToSet(Without(t, {p})) = ToSet(t) \ {p}
<1>1. /\ Without(t, {p}) \in Seq(Message)
      /\ ToSet(Without(t, {p})) = ToSet(t) \ {p}
      /\ Once(t, InitialPrompt) => Once(Without(t, {p}), InitialPrompt)
  BY WithoutTypes, Notes
<1>2. Kept(Without(t, {p})) = Kept(t)
  BY KeptEntries
<1> QED BY <1>1, <1>2, Notes DEF Evolves

\* The task itself, the first time.
LEMMA TaskEnters ==
  ASSUME NEW s \in Seq(Message), InitialPrompt \notin ToSet(s)
  PROVE  /\ Append(s, InitialPrompt) \in Seq(Message)
         /\ ToSet(Append(s, InitialPrompt)) = ToSet(s) \cup {InitialPrompt}
         /\ Once(s, InitialPrompt) => Once(Append(s, InitialPrompt), InitialPrompt)
         /\ Kept(Append(s, InitialPrompt)) = Append(Kept(s), InitialPrompt)
         /\ IsPrefix(Kept(s), Append(Kept(s), InitialPrompt))
<1>1. Kept(s) \in Seq(Message) /\ Kept(Append(s, InitialPrompt)) = Append(Kept(s), InitialPrompt)
  BY KeptEntries, Notes
<1>2. IsPrefix(Kept(s), Append(Kept(s), InitialPrompt))
  BY <1>1, PrefixOfAppend, Notes
<1> QED BY <1>1, <1>2, EntryAppended, Notes

LEMMA StepKinds ==
  ASSUME Control, Current # None
  PROVE  Current \in Step /\ Current.next \subseteq StepId \cup {None}
<1>1. Current \in Step
  BY WorkflowAssumption DEF Control, TypeOK, Current
<1> QED BY <1>1 DEF Step

LEMMA StepEndTypes ==
  ASSUME Control, Current # None, StepEnd
  PROVE  /\ pc' \in {"step", "raised"} /\ workflow' \in Workflow /\ step_id' \in StepId
         /\ pc' = "raised" => step_id' = step_id
<1>1. workflow \in Workflow /\ step_id \in StepId /\ Current.next \subseteq StepId \cup {None}
  BY StepKinds DEF Control, TypeOK
<1>2. PICK mutation \in Mutations[workflow] :
        \/ mutation.do = "continue" /\ \E next \in Current.next : GoTo(next)
        \/ mutation.do = "abort" /\ Raises /\ UNCHANGED <<workflow, step_id, workflow_chat_history_enabled>>
        \/ mutation.do = "goto" /\ GoTo(mutation.to)
        \/ /\ mutation.do = "replace"
           /\ workflow' = mutation.to
           /\ step_id' = Entry[mutation.to]
           /\ pc' = "step"
  BY DEF StepEnd
<1>3. mutation \in Mutation
  BY <1>1, WorkflowAssumption
<1>4. CASE mutation.do = "continue" /\ \E next \in Current.next : GoTo(next)
  BY <1>1, <1>4 DEF GoTo, Raises
<1>5. CASE mutation.do = "abort" /\ Raises /\ UNCHANGED <<workflow, step_id, workflow_chat_history_enabled>>
  BY <1>1, <1>5 DEF Raises
<1>6. CASE mutation.do = "goto" /\ GoTo(mutation.to)
  <2>1. mutation.to \in StepId
    BY <1>3, <1>6 DEF Mutation
  <2> QED BY <1>1, <1>6, <2>1, WorkflowAssumption DEF GoTo
<1>7. CASE mutation.do = "replace" /\ workflow' = mutation.to /\ step_id' = Entry[mutation.to] /\ pc' = "step"
  <2>1. mutation.to \in Workflow
    BY <1>3, <1>7 DEF Mutation
  <2> QED BY <1>7, <2>1, WorkflowAssumption
<1> QED BY <1>2, <1>4, <1>5, <1>6, <1>7

LEMMA StoreTypes ==
  ASSUME Control, NEW r \in Results, Store(r)
  PROVE  step_results' \in [StepId -> Results \cup {None}]
BY DEF Control, TypeOK, Store

LEMMA WorkflowTypes ==
  ASSUME WorkflowInv, [Next]_vars
  PROVE  TypeOK'
<1> USE DEF WorkflowInv, Control, TypeOK
<1>1. ASSUME Executes(Kind) \/ AtStep PROVE steps_executed' \in Nat
  BY <1>1 DEF Executes, AtStep
<1>2. ASSUME NEW kinds, Executes(kinds) PROVE Current # None /\ steps_executed' \in Nat /\ pc = "step"
  BY <1>2 DEF Executes, AtStep
<1>3. CASE Start
  BY <1>3 DEF Start, Ends, Raises
<1>4. CASE NoSuchStep
  BY <1>1, <1>4 DEF NoSuchStep, Raises
<1>5. CASE StepRaises
  BY <1>2, <1>5 DEF StepRaises, Raises
<1>6. CASE Branch
  <2>1. Current # None /\ steps_executed' \in Nat
    BY <1>2, <1>6 DEF Branch
  <2>2. PICK next \in Current.next : GoTo(next)
    BY <1>6 DEF Branch
  <2>3. next \in StepId \cup {None}
    BY <2>1, <2>2, StepKinds
  <2>4. pc' \in {"step", "raised"} /\ workflow' \in Workflow /\ step_id' \in StepId
    BY <2>2, <2>3 DEF GoTo, Raises
  <2> QED BY <1>6, <2>1, <2>4 DEF Branch
<1>7. CASE Transform
  <2>1. Current # None /\ steps_executed' \in Nat
    BY <1>2, <1>7 DEF Transform
  <2>2. step_results' \in [StepId -> Results \cup {None}]
    BY <1>7, StoreTypes DEF Transform, Results
  <2> QED BY <1>7, <2>1, <2>2, StepEndTypes DEF Transform
<1>8. CASE CallSubagents
  <2>1. Current # None /\ steps_executed' \in Nat
    BY <1>2, <1>8 DEF CallSubagents
  <2>2. step_results' \in [StepId -> Results \cup {None}]
    BY <1>8, StoreTypes DEF CallSubagents, Results
  <2> QED BY <1>8, <2>1, <2>2, StepEndTypes DEF CallSubagents
<1>9. CASE CallTool
  <2>1. Current # None /\ steps_executed' \in Nat
    BY <1>2, <1>9 DEF CallTool
  <2>2. step_results' \in [StepId -> Results \cup {None}]
    BY <1>9, StoreTypes DEF CallTool, Results
  <2> QED BY <1>9, <2>1, <2>2, StepEndTypes DEF CallTool
<1>10. CASE ToolEndsRun
  BY <1>2, <1>10 DEF ToolEndsRun, Ends
<1>11. CASE ReturnStep
  BY <1>2, <1>11 DEF ReturnStep, Ends
<1>12. CASE EnterPhase
  BY <1>2, <1>12 DEF EnterPhase
<1>13. CASE PhaseRaises \/ NotAllowed \/ DispatchInPhase
  BY <1>13 DEF PhaseRaises, NotAllowed, DispatchInPhase, PhaseTurn, StaysInPhase, Raises
<1>14. CASE FinalMessage \/ TerminalOutcome \/ TurnsExceeded
  <2>1. Current # None /\ steps_executed' \in Nat
    BY <1>14 DEF FinalMessage, TerminalOutcome, TurnsExceeded, PhaseTurn, PhasePrompts
  <2>2. step_results' \in [StepId -> Results \cup {None}]
    BY <1>14, StoreTypes DEF FinalMessage, TerminalOutcome, TurnsExceeded, Results
  <2>3. StepEnd
    BY <1>14 DEF FinalMessage, TerminalOutcome, TurnsExceeded
  <2> QED BY <2>1, <2>2, <2>3, StepEndTypes
<1>15. CASE PostHooks
  BY <1>15 DEF PostHooks, Raises, control
<1>16. CASE UNCHANGED vars
  BY <1>16 DEF vars
<1> QED BY <1>3, <1>4, <1>5, <1>6, <1>7, <1>8, <1>9, <1>10, <1>11, <1>12, <1>13, <1>14, <1>15, <1>16 DEF Next, PhaseStep

-----------------------------------------------------------------------------
(* What a step does to the context *)

\* Entries come to the end or the prompt of a phase goes; no prompt of a phase comes.
Goes(s, t) == Evolves(s, t) /\ \A p \in Prompts : p \in ToSet(t) => p \in ToSet(s)

GoesOn ==
  /\ Goes(conversation_messages, conversation_messages') /\ Goes(prompt_fragments, prompt_fragments')
  /\ UNCHANGED workflow_initial_prompt_appended

LEMMA GoesSame == \A s \in Seq(Message) : Goes(s, s) /\ Goes(s, s \o <<>>)
<1>1. \A s \in Seq(Message) : s \o <<>> = s
  OBVIOUS
<1> QED BY <1>1, EvolvesSame DEF Goes

LEMMA GoesByNote ==
  ASSUME NEW s \in Seq(Message), NEW k \in {"result", "reply", "phase_result", "reminder"}, NEW r \in StepId
  PROVE  Goes(s, Append(s, Note(k, r))) /\ Goes(s, s \o <<Note(k, r)>>)
<1>1. Note(k, r) \in Message /\ Note(k, r) # InitialPrompt /\ Note(k, r) \notin Prompts
  BY Notes
<1>2. s \o <<Note(k, r)>> = Append(s, Note(k, r))
  BY <1>1, EntryAppended
<1>3. Evolves(s, Append(s, Note(k, r))) /\ ToSet(Append(s, Note(k, r))) = ToSet(s) \cup {Note(k, r)}
  BY <1>1, EvolvesByEntry
<1>4. Goes(s, Append(s, Note(k, r)))
  BY <1>1, <1>3 DEF Goes
<1> QED BY <1>2, <1>4

LEMMA GoesByForgetting ==
  ASSUME NEW s \in Seq(Message), NEW t \in Seq(Message), Goes(s, t), phase_fragment \in Prompts, NEW there
  PROVE  /\ Goes(s, WithoutPhase(t, there))
         /\ Current.policy = "ephemeral" /\ there => phase_fragment \notin ToSet(WithoutPhase(t, there))
BY EvolvesByForgetting DEF Goes, WithoutPhase

LEMMA Unmoved ==
  ASSUME WorkflowInv, UNCHANGED context
  PROVE  GoesOn
BY GoesSame DEF WorkflowInv, Control, GoesOn, context

LEMMA Remembered ==
  ASSUME WorkflowInv, Remember(Note("result", step_id))
  PROVE  GoesOn
<1>1. step_id \in StepId /\ conversation_messages \in Seq(Message) /\ prompt_fragments \in Seq(Message)
  BY DEF WorkflowInv, Control, TypeOK
<1> QED BY <1>1, GoesSame, GoesByNote DEF Remember, GoesOn

\* The steps that bring neither the task nor the prompt of a phase.
LEMMA MostGoOn ==
  ASSUME WorkflowInv,
         NoSuchStep \/ StepRaises \/ Branch \/ Transform \/ CallSubagents \/ CallTool \/ ToolEndsRun
           \/ ReturnStep \/ PhaseStep \/ PostHooks \/ UNCHANGED vars
  PROVE  GoesOn
<1>1. step_id \in StepId /\ conversation_messages \in Seq(Message) /\ prompt_fragments \in Seq(Message)
  BY DEF WorkflowInv, Control, TypeOK
<1>2. CASE NoSuchStep \/ StepRaises \/ Branch \/ ToolEndsRun \/ ReturnStep \/ PostHooks \/ TurnsExceeded
             \/ UNCHANGED vars
  <2>1. UNCHANGED context
    BY <1>2 DEF NoSuchStep, StepRaises, Branch, ToolEndsRun, ReturnStep, PostHooks, TurnsExceeded, vars, context
  <2> QED BY <2>1, Unmoved
<1>3. CASE Transform
  BY <1>3, Remembered DEF Transform
<1>4. CASE CallSubagents
  BY <1>4, Remembered, Unmoved DEF CallSubagents
<1>5. CASE CallTool
  BY <1>5, Remembered, Unmoved DEF CallTool
<1>6. CASE PhaseRaises
  BY <1>1, <1>6, GoesSame DEF PhaseRaises, PhaseTurn, GoesOn
<1>7. CASE NotAllowed
  BY <1>1, <1>7, GoesSame, GoesByNote DEF NotAllowed, PhaseTurn, GoesOn
<1>8. CASE DispatchInPhase
  <2>1. CASE Current.mode = "conversation_only"
    <3>1. PICK shown \in Projected("reply") : conversation_messages' = conversation_messages \o shown
      BY <1>8, <2>1 DEF DispatchInPhase
    <3>2. shown = <<>> \/ shown = <<Note("reply", step_id)>>
      BY DEF Projected
    <3>3. Goes(conversation_messages, conversation_messages')
      BY <1>1, <3>1, <3>2, GoesSame, GoesByNote
    <3> QED BY <1>1, <1>8, <2>1, <3>3, GoesSame DEF DispatchInPhase, PhaseTurn, GoesOn
  <2>2. CASE Current.mode # "conversation_only"
    BY <1>1, <1>8, <2>2, GoesByNote DEF DispatchInPhase, PhaseTurn, GoesOn
  <2> QED BY <2>1, <2>2
<1>9. CASE FinalMessage
  <2>5. phase_fragment \in Prompts
    BY <1>9 DEF FinalMessage, PhaseTurn, WorkflowInv, PhasePrompts
  <2>1. PICK shown \in Projected("phase_result") :
          conversation_messages' = WithoutPhase(conversation_messages \o shown, InMessages(Current))
    BY <1>9 DEF FinalMessage
  <2>2. shown = <<>> \/ shown = <<Note("phase_result", step_id)>>
    BY DEF Projected
  <2>3. Goes(conversation_messages, conversation_messages \o shown)
    BY <1>1, <2>2, GoesSame, GoesByNote
  <2>4. Goes(conversation_messages, conversation_messages')
    BY <1>1, <2>1, <2>3, <2>5, GoesByForgetting DEF Goes, Evolves
  <2> QED BY <1>1, <1>9, <2>4, <2>5, GoesSame, GoesByForgetting DEF FinalMessage, PhaseTurn, GoesOn
<1>10. CASE TerminalOutcome
  <2>1. phase_fragment \in Prompts
    BY <1>10 DEF TerminalOutcome, PhaseTurn, WorkflowInv, PhasePrompts
  <2> QED BY <1>1, <1>10, <2>1, GoesSame, GoesByForgetting DEF TerminalOutcome, PhaseTurn, GoesOn
<1> QED BY <1>2, <1>3, <1>4, <1>5, <1>6, <1>7, <1>8, <1>9, <1>10 DEF PhaseStep

\* What every step leaves in order.
InOrder ==
  /\ conversation_messages' \in Seq(Message) /\ prompt_fragments' \in Seq(Message)
  /\ workflow_initial_prompt_appended' \in BOOLEAN
  /\ IsPrefix(Kept(conversation_messages), Kept(conversation_messages'))
  /\ IsPrefix(Kept(prompt_fragments), Kept(prompt_fragments'))
  /\ TaskOnce'

LEMMA GoesInOrder ==
  ASSUME WorkflowInv, GoesOn
  PROVE  InOrder
BY DEF WorkflowInv, Control, TaskOnce, GoesOn, Goes, Evolves, InOrder

\* _append_workflow_initial_prompt, with the flag set.
LEMMA TaskAppended ==
  ASSUME WorkflowInv
  PROVE  LET told == WithInitialPrompt(conversation_messages)
         IN  /\ told \in Seq(Message)
             /\ IsPrefix(Kept(conversation_messages), Kept(told))
             /\ InitialPrompt \in ToSet(told) /\ Once(told, InitialPrompt)
             /\ \A p \in Prompts : p \in ToSet(told) => p \in ToSet(conversation_messages)
<1> DEFINE told == WithInitialPrompt(conversation_messages)
<1>1. conversation_messages \in Seq(Message) /\ Once(conversation_messages, InitialPrompt)
  BY DEF WorkflowInv, Control, TaskOnce
<1>2. CASE workflow_initial_prompt_appended
  BY <1>1, <1>2, EvolvesSame DEF WorkflowInv, TaskOnce, WithInitialPrompt, Evolves
<1>3. CASE ~workflow_initial_prompt_appended
  <2>1. InitialPrompt \notin ToSet(conversation_messages)
    BY <1>3 DEF WorkflowInv, TaskOnce
  <2>2. told = Append(conversation_messages, InitialPrompt)
    BY <1>3 DEF WithInitialPrompt
  <2> HIDE DEF told
  <2>3. /\ told \in Seq(Message) /\ ToSet(told) = ToSet(conversation_messages) \cup {InitialPrompt}
        /\ Once(told, InitialPrompt) /\ IsPrefix(Kept(conversation_messages), Kept(told))
    BY <1>1, <2>1, <2>2, TaskEnters
  <2>4. InitialPrompt \in ToSet(told)
    BY <2>3
  <2>5. \A p \in Prompts : p \in ToSet(told) => p \in ToSet(conversation_messages)
    BY <2>3, Notes
  <2> QED BY <2>3, <2>4, <2>5 DEF told
<1> QED BY <1>2, <1>3

LEMMA StartInOrder ==
  ASSUME WorkflowInv, Start
  PROVE  /\ InOrder /\ prompt_fragments' = prompt_fragments
         /\ \A p \in Prompts : p \in ToSet(conversation_messages') => p \in ToSet(conversation_messages)
<1>1. CASE UNCHANGED context
  BY <1>1, Unmoved, GoesInOrder DEF GoesOn, Goes, context
<1>2. CASE /\ conversation_messages' = WithInitialPrompt(conversation_messages)
           /\ workflow_initial_prompt_appended' = TRUE
           /\ UNCHANGED prompt_fragments
  <2>1. prompt_fragments \in Seq(Message) /\ IsPrefix(Kept(prompt_fragments), Kept(prompt_fragments))
    BY EvolvesSame DEF WorkflowInv, Control, Evolves
  <2> QED BY <1>2, <2>1, TaskAppended DEF InOrder, TaskOnce
<1> QED BY <1>1, <1>2 DEF Start, Ends, Raises

\* The prompt of the phase comes, and nothing else but the task.
LEMMA EnterInOrder ==
  ASSUME WorkflowInv, EnterPhase
  PROVE  /\ InOrder /\ PhasePrompts'
         /\ \A p \in Prompts : p \in ToSet(conversation_messages') =>
              \/ p \in ToSet(conversation_messages)
              \/ p = phase_fragment' /\ Current.policy # "none" /\ InMessages(Current)
         /\ \A p \in Prompts : p \in ToSet(prompt_fragments') =>
              \/ p \in ToSet(prompt_fragments)
              \/ p = phase_fragment' /\ Current.policy # "none" /\ InFragments(Current)
<1> DEFINE talks    == Current.mode = "conversation_only"
           messages == IF talks THEN WithInitialPrompt(conversation_messages) ELSE conversation_messages
           told     == Current.policy # "none"
<1> DEFINE new == phase_fragment'
<1>1. /\ conversation_messages' = messages \o IF told /\ InMessages(Current) THEN <<new>> ELSE <<>>
      /\ prompt_fragments' = prompt_fragments \o IF told /\ InFragments(Current) THEN <<new>> ELSE <<>>
      /\ workflow_initial_prompt_appended' = (workflow_initial_prompt_appended \/ talks)
      /\ Current # None /\ Current.kind = "model" /\ Current' = Current /\ UNCHANGED step_id
  BY DEF EnterPhase, Executes, Current, Told
<1>2. /\ conversation_messages \in Seq(Message) /\ prompt_fragments \in Seq(Message)
      /\ workflow_initial_prompt_appended \in BOOLEAN /\ TaskOnce
      /\ Current \in Step /\ new \in Prompts /\ new.step = step_id /\ new \in Message /\ new # InitialPrompt
  <2>1. Current \in Step /\ step_id \in StepId
    BY <1>1, StepKinds DEF WorkflowInv, Control, TypeOK
  <2>2. PICK text \in Current.texts : phase_fragment' = Phase(step_id, text)
    BY DEF EnterPhase
  <2>3. text \in Text
    BY <2>1, <2>2 DEF Step
  <2>4. new \in Prompts /\ new.step = step_id
    BY <2>1, <2>2, <2>3 DEF Prompts, Phase
  <2> QED BY <2>1, <2>4, Notes DEF WorkflowInv, Control
<1>3. /\ messages \in Seq(Message) /\ IsPrefix(Kept(conversation_messages), Kept(messages))
      /\ InitialPrompt \in ToSet(messages) <=> (workflow_initial_prompt_appended \/ talks)
      /\ Once(messages, InitialPrompt)
      /\ \A p \in Prompts : p \in ToSet(messages) => p \in ToSet(conversation_messages)
  <2>1. CASE talks
    BY <2>1, TaskAppended
  <2>2. CASE ~talks
    BY <1>2, <2>2, EvolvesSame DEF TaskOnce, Evolves
  <2> QED BY <2>1, <2>2
<1> HIDE DEF messages, new
<1>4. ASSUME NEW s \in Seq(Message), NEW t, NEW there \in BOOLEAN,
             t = s \o IF there THEN <<new>> ELSE <<>>
      PROVE  /\ t \in Seq(Message) /\ Kept(t) = Kept(s)
             /\ InitialPrompt \in ToSet(t) <=> InitialPrompt \in ToSet(s)
             /\ Once(s, InitialPrompt) => Once(t, InitialPrompt)
             /\ \A p \in Prompts : p \in ToSet(t) => p \in ToSet(s) \/ (p = new /\ there)
             /\ there => new \in ToSet(t)
  <2>1. CASE there
    <3>1. t = Append(s, new)
      BY <1>2, <1>4, <2>1, EntryAppended
    <3>2. t \in Seq(Message) /\ ToSet(t) = ToSet(s) \cup {new} /\ Evolves(s, t)
      BY <1>2, <3>1, EntryAppended, EvolvesByEntry
    <3>3. Kept(t) = Kept(s)
      BY <1>2, <3>1, KeptEntries
    <3>4. \A p \in Prompts : p \in ToSet(t) => p \in ToSet(s) \/ p = new
      BY <1>2, <3>2, Notes
    <3>5. new \in ToSet(t)
      BY <3>2
    <3> QED BY <2>1, <3>2, <3>3, <3>4, <3>5 DEF Evolves
  <2>2. CASE ~there
    <3>1. t = s
      BY <1>4, <2>2
    <3> QED BY <2>2, <3>1
  <2> QED BY <2>1, <2>2
<1>5. (told /\ InMessages(Current)) \in BOOLEAN /\ (told /\ InFragments(Current)) \in BOOLEAN
  OBVIOUS
<1>6. /\ conversation_messages' \in Seq(Message) /\ Kept(conversation_messages') = Kept(messages)
      /\ InitialPrompt \in ToSet(conversation_messages') <=> InitialPrompt \in ToSet(messages)
      /\ Once(conversation_messages', InitialPrompt)
      /\ \A p \in Prompts : p \in ToSet(conversation_messages') =>
           p \in ToSet(messages) \/ (p = new /\ told /\ InMessages(Current))
      /\ told /\ InMessages(Current) => new \in ToSet(conversation_messages')
  BY <1>1, <1>3, <1>4, <1>5
<1>7. /\ prompt_fragments' \in Seq(Message) /\ Kept(prompt_fragments') = Kept(prompt_fragments)
      /\ \A p \in Prompts : p \in ToSet(prompt_fragments') =>
           p \in ToSet(prompt_fragments) \/ (p = new /\ told /\ InFragments(Current))
      /\ told /\ InFragments(Current) => new \in ToSet(prompt_fragments')
  BY <1>1, <1>2, <1>4, <1>5
<1>8. IsPrefix(Kept(prompt_fragments), Kept(prompt_fragments))
  BY <1>2, EvolvesSame DEF Evolves
<1>9. InOrder
  BY <1>1, <1>2, <1>3, <1>6, <1>7, <1>8 DEF InOrder, TaskOnce
<1>10. PhasePrompts'
  <2>1. InMessages(Current) \/ InFragments(Current)
    BY <1>2 DEF Step, InMessages, InFragments
  <2>2. told => phase_fragment' \in Seen'
    BY <1>6, <1>7, <2>1 DEF Seen, new
  <2>3. phase_fragment' \in Prompts /\ (phase_fragment.step)' = step_id'
    BY <1>1, <1>2 DEF new
  <2> QED BY <1>1, <2>2, <2>3 DEF PhasePrompts
<1> QED BY <1>3, <1>6, <1>7, <1>9, <1>10 DEF new

LEMMA EveryStepInOrder ==
  ASSUME WorkflowInv, [Next]_vars
  PROVE  InOrder
<1>1. \/ Start \/ EnterPhase
      \/ NoSuchStep \/ StepRaises \/ Branch \/ Transform \/ CallSubagents \/ CallTool \/ ToolEndsRun
           \/ ReturnStep \/ PhaseStep \/ PostHooks \/ UNCHANGED vars
  BY DEF Next
<1> QED BY <1>1, StartInOrder, EnterInOrder, MostGoOn, GoesInOrder

LEMMA InitWorkflow == Init => WorkflowInv
<1> SUFFICES ASSUME Init PROVE WorkflowInv
  OBVIOUS
<1>1. TypeOK
  BY WorkflowAssumption DEF Init, TypeOK
<1>2. <<>> \in Seq(Message) /\ ToSet(<<>>) = {} /\ Once(<<>>, InitialPrompt)
  BY DEF ToSet, Once
<1> QED BY <1>1, <1>2 DEF Init, WorkflowInv, Control, TaskOnce, PhasePrompts

\* Steps that end up inside of a phase.
LEMMA InPhase ==
  ASSUME WorkflowInv, [Next]_vars, pc' = "phase"
  PROVE  \/ EnterPhase
         \/ pc = "phase" /\ (NotAllowed \/ DispatchInPhase)
         \/ UNCHANGED vars
<1>1. ASSUME Current # None, StepEnd PROVE FALSE
  BY <1>1, StepEndTypes DEF WorkflowInv
<1>2. ASSUME NEW kinds, Executes(kinds) PROVE Current # None
  BY <1>2 DEF Executes
<1>3. ASSUME NEW next, GoTo(next) PROVE FALSE
  BY <1>3 DEF GoTo, Raises
<1>4. ~Start /\ ~NoSuchStep /\ ~StepRaises /\ ~ToolEndsRun /\ ~ReturnStep /\ ~PostHooks /\ ~PhaseRaises
  BY DEF Start, NoSuchStep, StepRaises, ToolEndsRun, ReturnStep, PostHooks, PhaseRaises, Ends, Raises
<1>5. ~Branch
  BY <1>3 DEF Branch
<1>6. ~Transform /\ ~CallSubagents /\ ~CallTool
  BY <1>1, <1>2 DEF Transform, CallSubagents, CallTool
<1>7. ~FinalMessage /\ ~TerminalOutcome /\ ~TurnsExceeded
  <2>1. pc = "phase" => Current # None
    BY DEF WorkflowInv, PhasePrompts
  <2> QED BY <1>1, <2>1 DEF FinalMessage, TerminalOutcome, TurnsExceeded, PhaseTurn
<1> QED BY <1>4, <1>5, <1>6, <1>7 DEF Next, PhaseStep, NotAllowed, DispatchInPhase, PhaseTurn

\* Messages about the step of the phase take no prompt away.
LEMMA NothingForgotten ==
  ASSUME WorkflowInv, NotAllowed \/ DispatchInPhase
  PROVE  Seen \subseteq Seen'
<1>1. step_id \in StepId /\ conversation_messages \in Seq(Message) /\ prompt_fragments \in Seq(Message)
  BY DEF WorkflowInv, Control, TypeOK
<1>2. ASSUME NEW s \in Seq(Message), NEW k \in {"reply", "reminder"}
      PROVE  /\ s \o <<Note(k, step_id)>> = Append(s, Note(k, step_id)) /\ s \o <<>> = s
             /\ ToSet(s) \subseteq ToSet(Append(s, Note(k, step_id)))
  <2>1. Note(k, step_id) \in Message
    BY <1>1, Notes
  <2> QED BY <2>1, EntryAppended
<1>3. CASE NotAllowed
  BY <1>1, <1>2, <1>3 DEF NotAllowed, Seen
<1>4. CASE DispatchInPhase /\ Current.mode = "conversation_only"
  <2>1. PICK shown \in Projected("reply") :
          conversation_messages' = conversation_messages \o shown /\ UNCHANGED prompt_fragments
    BY <1>4 DEF DispatchInPhase
  <2>2. shown = <<>> \/ shown = <<Note("reply", step_id)>>
    BY DEF Projected
  <2> QED BY <1>1, <1>2, <2>1, <2>2 DEF Seen
<1>5. CASE DispatchInPhase /\ Current.mode # "conversation_only"
  BY <1>1, <1>2, <1>5 DEF DispatchInPhase, Seen
<1> QED BY <1>3, <1>4, <1>5

LEMMA StepWorkflow == WorkflowInv /\ [Next]_vars => WorkflowInv'
<1> SUFFICES ASSUME WorkflowInv, [Next]_vars PROVE WorkflowInv'
  OBVIOUS
<1>1. InOrder /\ TypeOK'
  BY EveryStepInOrder, WorkflowTypes
<1>2. PhasePrompts'
  <2>1. SUFFICES ASSUME pc' = "phase" PROVE PhasePrompts'
    BY DEF PhasePrompts
  <2>2. CASE EnterPhase
    BY <2>2, EnterInOrder
  <2>3. CASE pc = "phase" /\ (NotAllowed \/ DispatchInPhase)
    <3>1. UNCHANGED <<pc, workflow, step_id, phase_fragment, workflow_initial_prompt_appended>>
      BY <2>3 DEF NotAllowed, DispatchInPhase, PhaseTurn, StaysInPhase
    <3>2. Current' = Current /\ Seen \subseteq Seen'
      BY <2>3, <3>1, NothingForgotten DEF Current
    <3> QED BY <2>3, <3>1, <3>2 DEF WorkflowInv, PhasePrompts
  <2>4. CASE UNCHANGED vars
    BY <2>4 DEF vars, WorkflowInv, PhasePrompts, Current, Seen
  <2> QED BY <2>1, <2>2, <2>3, <2>4, InPhase
<1> QED BY <1>1, <1>2 DEF WorkflowInv, Control, InOrder

\* The control state stays within the workflows, the flag of the task is what the
\* conversation says, and a phase has its prompts.
THEOREM WorkflowInvariance == Spec => []WorkflowInv
BY InitWorkflow, StepWorkflow, PTL DEF Spec

\* A model that is asked reads the task, once, and the prompt of its phase.
THEOREM TaskIsSeen == Spec => []ModelSeesTask
<1>1. WorkflowInv => ModelSeesTask
  BY DEF WorkflowInv, TaskOnce, PhasePrompts, ModelSeesTask, Once
<1> QED BY <1>1, WorkflowInvariance, PTL

\* Whatever a step adds or forgets, everything else stays in its order.
THEOREM ContextIsKept == Spec => ContextKept
<1>1. WorkflowInv /\ [Next]_vars =>
        [IsPrefix(Kept(conversation_messages), Kept(conversation_messages'))
           /\ IsPrefix(Kept(prompt_fragments), Kept(prompt_fragments'))]_vars
  BY EveryStepInOrder DEF InOrder
<1> QED BY <1>1, WorkflowInvariance, PTL DEF Spec, ContextKept

-----------------------------------------------------------------------------
(* Prompts of phases *)

\* A prompt is where the phase that put it there keeps its own.
Placed ==
  /\ \A p \in Prompts : p \in ToSet(conversation_messages) =>
       \E w \in Workflow : /\ Steps[w][p.step] # None /\ Steps[w][p.step].kind = "model"
                          /\ Steps[w][p.step].policy # "none" /\ InMessages(Steps[w][p.step])
  /\ \A p \in Prompts : p \in ToSet(prompt_fragments) =>
       \E w \in Workflow : /\ Steps[w][p.step] # None /\ Steps[w][p.step].kind = "model"
                          /\ Steps[w][p.step].policy # "none" /\ InFragments(Steps[w][p.step])

NoMorePrompts ==
  /\ \A p \in Prompts : p \in ToSet(conversation_messages') => p \in ToSet(conversation_messages)
  /\ \A p \in Prompts : p \in ToSet(prompt_fragments') => p \in ToSet(prompt_fragments)

LEMMA PlacedStep ==
  ASSUME WorkflowInv, [Next]_vars, Placed
  PROVE  Placed' /\ (EnterPhase \/ NoMorePrompts)
<1>1. CASE EnterPhase
  <2>1. Current # None /\ Current.kind = "model" /\ workflow \in Workflow /\ pc' = "phase" /\ UNCHANGED step_id
    BY <1>1 DEF EnterPhase, Executes, WorkflowInv, Control, TypeOK
  <2>2. (phase_fragment.step)' = step_id
    BY <1>1, <2>1, EnterInOrder DEF PhasePrompts
  <2> QED BY <1>1, <2>1, <2>2, EnterInOrder DEF Placed, Current
<1>2. CASE ~EnterPhase
  <2>1. Start \/ GoesOn
    BY <1>2, MostGoOn DEF Next
  <2>2. NoMorePrompts
    BY <2>1, StartInOrder DEF NoMorePrompts, GoesOn, Goes
  <2> QED BY <2>2 DEF Placed, NoMorePrompts
<1> QED BY <1>1, <1>2

\* The end of an ephemeral phase takes its prompt away.
LEMMA PromptGoes ==
  ASSUME WorkflowInv, FinalMessage \/ TerminalOutcome, Current.policy = "ephemeral"
  PROVE  /\ InMessages(Current) => phase_fragment \notin ToSet(conversation_messages')
         /\ InFragments(Current) => phase_fragment \notin ToSet(prompt_fragments')
<1>1. /\ step_id \in StepId /\ conversation_messages \in Seq(Message) /\ prompt_fragments \in Seq(Message)
      /\ phase_fragment \in Prompts
  BY DEF WorkflowInv, Control, TypeOK, PhasePrompts, FinalMessage, TerminalOutcome, PhaseTurn
<1>2. CASE FinalMessage
  <2>1. PICK shown \in Projected("phase_result") :
          conversation_messages' = WithoutPhase(conversation_messages \o shown, InMessages(Current))
    BY <1>2 DEF FinalMessage
  <2>2. shown = <<>> \/ shown = <<Note("phase_result", step_id)>>
    BY DEF Projected
  <2>3. Goes(conversation_messages, conversation_messages \o shown)
    BY <1>1, <2>2, GoesSame, GoesByNote
  <2>4. InMessages(Current) => phase_fragment \notin ToSet(conversation_messages')
    BY <1>1, <2>1, <2>3, GoesByForgetting DEF Goes, Evolves
  <2> QED BY <1>1, <1>2, <2>4, GoesSame, GoesByForgetting DEF FinalMessage
<1>3. CASE TerminalOutcome
  BY <1>1, <1>3, GoesSame, GoesByForgetting DEF TerminalOutcome
<1> QED BY <1>2, <1>3

\* The end of a phase in its own way.
LEMMA ForgottenAtEnd ==
  ASSUME PhasesAgree, WorkflowInv, Placed, FinalMessage \/ TerminalOutcome, NoMorePrompts,
         NEW w \in Workflow, Steps[w][step_id] # None, Steps[w][step_id].kind = "model",
         Steps[w][step_id].policy = "ephemeral"
  PROVE  phase_fragment \notin Seen'
<1>1. /\ pc = "phase" /\ workflow \in Workflow /\ step_id \in StepId /\ Current # None /\ Current.kind = "model"
      /\ phase_fragment \in Prompts /\ phase_fragment.step = step_id
  BY DEF WorkflowInv, Control, TypeOK, PhasePrompts, FinalMessage, TerminalOutcome, PhaseTurn
<1>2. \A v \in Workflow : Steps[v][step_id] # None /\ Steps[v][step_id].kind = "model" =>
        Current.mode = Steps[v][step_id].mode /\ Current.policy = Steps[v][step_id].policy
  BY <1>1 DEF PhasesAgree, Current
<1>3. Current.policy = "ephemeral"
  BY <1>2
<1>4. phase_fragment \in ToSet(conversation_messages) => InMessages(Current)
  BY <1>1, <1>2 DEF Placed, InMessages
<1>5. phase_fragment \in ToSet(prompt_fragments) => InFragments(Current)
  BY <1>1, <1>2 DEF Placed, InFragments
<1>6. phase_fragment \in ToSet(conversation_messages') => phase_fragment \in ToSet(conversation_messages)
  BY <1>1 DEF NoMorePrompts
<1>7. phase_fragment \in ToSet(prompt_fragments') => phase_fragment \in ToSet(prompt_fragments)
  BY <1>1 DEF NoMorePrompts
<1> QED BY <1>3, <1>4, <1>5, <1>6, <1>7, PromptGoes DEF Seen

LEMMA ForgottenStep ==
  ASSUME PhasesAgree, WorkflowInv, Placed, EphemeralForgotten, [Next]_vars
  PROVE  EphemeralForgotten'
<1> SUFFICES ASSUME NEW p \in Prompts, p \in Seen',
                    ~ \E w \in Workflow : /\ Steps[w][p.step] # None /\ Steps[w][p.step].kind = "model"
                                         /\ Steps[w][p.step].policy = "durable"
             PROVE  p \in left' \/ (pc' \in {"phase", "raised"} /\ p = phase_fragment')
  BY DEF EphemeralForgotten, Prompts, Phase
<1>1. /\ workflow \in Workflow /\ step_id \in StepId
      /\ pc = "phase" => Current # None /\ Current.kind = "model" /\ phase_fragment.step = step_id
  BY DEF WorkflowInv, Control, TypeOK, PhasePrompts
<1>2. p \in Seen => p \in left \/ (pc \in {"phase", "raised"} /\ p = phase_fragment)
  BY DEF EphemeralForgotten
<1>3. CASE EnterPhase
  <2>1. pc = "step" /\ pc' = "phase" /\ UNCHANGED left
    BY <1>3 DEF EnterPhase, Executes, AtStep
  <2>2. p \in Seen \/ p = phase_fragment'
    BY <1>3, EnterInOrder DEF Seen
  <2> QED BY <1>2, <2>1, <2>2
<1>4. CASE ~EnterPhase
  <2>1. p \in Seen /\ NoMorePrompts
    BY <1>4, PlacedStep DEF NoMorePrompts, Seen
  <2>2. p \in left \/ (pc \in {"phase", "raised"} /\ p = phase_fragment)
    BY <1>2, <2>1
  <2>3. PICK w \in Workflow : Steps[w][p.step] # None /\ Steps[w][p.step].kind = "model" /\ Steps[w][p.step].policy # "none"
    BY <2>1 DEF Placed, Seen
  <2>4. Steps[w][p.step].policy = "ephemeral"
    <3>1. p.step \in StepId
      BY DEF Prompts, Phase
    <3>2. Steps[w][p.step] \in Step
      BY <2>3, <3>1, WorkflowAssumption
    <3> QED BY <2>3, <3>2 DEF Step
  <2>5. CASE \/ Start \/ NoSuchStep \/ StepRaises \/ Branch \/ ToolEndsRun \/ ReturnStep \/ PostHooks
             \/ Transform \/ CallSubagents \/ CallTool
    <3>1. pc \notin {"phase", "raised"} /\ UNCHANGED left
      BY <2>5 DEF Start, NoSuchStep, StepRaises, Branch, ToolEndsRun, ReturnStep, PostHooks, Transform,
                  CallSubagents, CallTool, Executes, AtStep, phase
    <3> QED BY <2>2, <3>1
  <2>6. CASE PhaseRaises \/ NotAllowed \/ DispatchInPhase
    BY <2>2, <2>6 DEF PhaseRaises, NotAllowed, DispatchInPhase, PhaseTurn, StaysInPhase, Raises
  <2>7. CASE TurnsExceeded
    <3>1. CASE p = phase_fragment
      <4>1. pc = "phase" /\ Current.policy = "ephemeral"
        <5>1. pc = "phase"
          BY <2>7 DEF TurnsExceeded
        <5>2. Current.policy = Steps[w][step_id].policy
          BY <1>1, <2>3, <3>1, <5>1 DEF PhasesAgree, Current
        <5> QED BY <1>1, <2>4, <3>1, <5>1, <5>2
      <4> QED BY <2>7, <3>1, <4>1 DEF TurnsExceeded
    <3>2. CASE p # phase_fragment
      BY <2>2, <2>7, <3>2 DEF TurnsExceeded
    <3> QED BY <3>1, <3>2
  <2>8. CASE FinalMessage \/ TerminalOutcome
    <3>1. pc = "phase" /\ left' = left \ {phase_fragment}
      BY <2>8 DEF FinalMessage, TerminalOutcome, PhaseTurn
    <3>2. p # phase_fragment
      BY <1>1, <2>1, <2>3, <2>4, <2>8, <3>1, ForgottenAtEnd
    <3> QED BY <2>2, <3>1, <3>2
  <2>9. CASE UNCHANGED vars
    BY <2>2, <2>9 DEF vars
  <2> QED BY <1>4, <2>5, <2>6, <2>7, <2>8, <2>9 DEF Next, PhaseStep
<1> QED BY <1>3, <1>4

\* Among workflows that agree about their phases, the prompt of an ephemeral phase is read
\* in that phase only, unless the phase ran out of turns.
THEOREM PhasesAreForgotten == ASSUME PhasesAgree PROVE Spec => []EphemeralForgotten
<1>1. Init => Placed /\ EphemeralForgotten
  BY DEF Init, Placed, EphemeralForgotten, Seen, ToSet
<1>2. WorkflowInv /\ Placed /\ EphemeralForgotten /\ [Next]_vars => Placed' /\ EphemeralForgotten'
  BY PlacedStep, ForgottenStep
<1> QED BY <1>1, <1>2, WorkflowInvariance, PTL DEF Spec

-----------------------------------------------------------------------------
(***************************************************************************)
(* UsageTracking: what finish_run reports covers the run and all below it. *)
(***************************************************************************)
(* Sums along a list of runs *)

Sums(f, u, list, n) == f = [i \in 0..n |-> IF i = 0 THEN 0 ELSE f[i - 1] + u[list[i]]]

\* What u gives for the first n entries of the list.
SumTo(u, list, n) == LET sum[i \in 0..n] == IF i = 0 THEN 0 ELSE sum[i - 1] + u[list[i]] IN sum[n]

LEMMA SumsExist ==
  ASSUME NEW u, NEW list
  PROVE  \A n \in Nat : \E f : Sums(f, u, list, n)
<1> DEFINE B == {n \in Nat : \E f : Sums(f, u, list, n)}
<1>1. 0 \in B
  <2>1. [i \in 0..0 |-> 0] = [i \in 0..0 |-> IF i = 0 THEN 0 ELSE [j \in 0..0 |-> 0][i - 1] + u[list[i]]]
    OBVIOUS
  <2> QED BY <2>1 DEF Sums
<1>2. ASSUME NEW n \in Nat, n \in B PROVE n + 1 \in B
  <2>1. PICK f : Sums(f, u, list, n)
    BY <1>2
  <2> DEFINE last == f[n] + u[list[n + 1]]
             g    == [i \in 0..(n + 1) |-> IF i = n + 1 THEN last ELSE f[i]]
  <2>2. ASSUME NEW i \in 0..(n + 1) PROVE g[i] = IF i = 0 THEN 0 ELSE g[i - 1] + u[list[i]]
    <3>1. CASE i = n + 1
      <4>1. g[i] = last /\ g[i - 1] = f[n] /\ i # 0
        BY <3>1
      <4> HIDE DEF g
      <4> QED BY <3>1, <4>1
    <3>2. CASE i # n + 1
      <4>1. i \in 0..n /\ g[i] = f[i] /\ (i # 0 => g[i - 1] = f[i - 1])
        BY <3>2
      <4> HIDE DEF g, last
      <4>2. f[i] = IF i = 0 THEN 0 ELSE f[i - 1] + u[list[i]]
        BY <2>1, <4>1 DEF Sums
      <4> QED BY <4>1, <4>2
    <3> QED BY <3>1, <3>2
  <2>3. g = [i \in 0..(n + 1) |-> g[i]]
    OBVIOUS
  <2> HIDE DEF g
  <2>4. Sums(g, u, list, n + 1)
    BY <2>2, <2>3 DEF Sums
  <2> QED BY <2>4
<1>3. Nat \subseteq B
  <2> HIDE DEF B
  <2> QED BY <1>1, <1>2, Inductive
<1> QED BY <1>3

LEMMA SumsAgree ==
  ASSUME NEW u, NEW list, NEW m \in Nat, NEW n \in Nat, NEW f, NEW g, m <= n,
         Sums(f, u, list, m), Sums(g, u, list, n)
  PROVE  \A i \in 0..m : f[i] = g[i]
<1> DEFINE B == {i \in Nat : i <= m => f[i] = g[i]}
<1>1. 0 \in B
  BY DEF Sums
<1>2. ASSUME NEW i \in Nat, i \in B PROVE i + 1 \in B
  <2> SUFFICES ASSUME i + 1 <= m PROVE f[i + 1] = g[i + 1]
    OBVIOUS
  <2>1. i + 1 \in 0..m /\ i + 1 \in 0..n /\ i + 1 # 0 /\ (i + 1) - 1 = i
    OBVIOUS
  <2>2. f[i + 1] = f[i] + u[list[i + 1]] /\ g[i + 1] = g[i] + u[list[i + 1]]
    BY <2>1 DEF Sums
  <2> QED BY <1>2, <2>2
<1>3. Nat \subseteq B
  <2> HIDE DEF B
  <2> QED BY <1>1, <1>2, Inductive
<1> QED BY <1>3

LEMMA SumIs ==
  ASSUME NEW u, NEW list, NEW n \in Nat
  PROVE  \E f : Sums(f, u, list, n) /\ SumTo(u, list, n) = f[n]
<1>1. Sums(CHOOSE f : Sums(f, u, list, n), u, list, n)
  BY SumsExist
<1> QED BY <1>1 DEF SumTo, Sums

LEMMA SumSteps ==
  ASSUME NEW u, NEW list
  PROVE  /\ SumTo(u, list, 0) = 0
         /\ \A n \in Nat : SumTo(u, list, n + 1) = SumTo(u, list, n) + u[list[n + 1]]
<1>1. SumTo(u, list, 0) = 0
  <2>1. PICK f : Sums(f, u, list, 0) /\ SumTo(u, list, 0) = f[0]
    BY SumIs
  <2> QED BY <2>1 DEF Sums
<1>2. ASSUME NEW n \in Nat PROVE SumTo(u, list, n + 1) = SumTo(u, list, n) + u[list[n + 1]]
  <2>1. PICK f : Sums(f, u, list, n) /\ SumTo(u, list, n) = f[n]
    BY SumIs
  <2>2. ASSUME NEW m \in Nat, m = n + 1 PROVE SumTo(u, list, m) = f[n] + u[list[m]]
    <3>1. PICK g : Sums(g, u, list, m) /\ SumTo(u, list, m) = g[m]
      BY SumIs
    <3>2. f[n] = g[n]
      <4>1. n <= m
        BY <2>2
      <4>2. \A i \in 0..n : f[i] = g[i]
        BY <2>1, <3>1, <4>1, SumsAgree
      <4> QED BY <4>2
    <3>3. m \in 0..m /\ m # 0 /\ m - 1 = n
      BY <2>2
    <3>4. g[m] = g[n] + u[list[m]]
      BY <3>1, <3>3 DEF Sums
    <3> QED BY <3>1, <3>2, <3>4
  <2> QED BY <2>1, <2>2
<1> QED BY <1>1, <1>2

LEMMA SumTypes ==
  ASSUME NEW R, NEW u \in [R -> Nat], NEW list \in Seq(R)
  PROVE  \A n \in 0..Len(list) : SumTo(u, list, n) \in Nat
<1> DEFINE B == {n \in Nat : n <= Len(list) => SumTo(u, list, n) \in Nat}
<1>1. 0 \in B
  BY SumSteps
<1>2. ASSUME NEW n \in Nat, n \in B PROVE n + 1 \in B
  <2> SUFFICES ASSUME n + 1 <= Len(list) PROVE SumTo(u, list, n + 1) \in Nat
    OBVIOUS
  <2>1. list[n + 1] \in R /\ n <= Len(list)
    OBVIOUS
  <2>2. u[list[n + 1]] \in Nat /\ SumTo(u, list, n) \in Nat
    BY <1>2, <2>1
  <2>3. SumTo(u, list, n + 1) = SumTo(u, list, n) + u[list[n + 1]]
    BY SumSteps
  <2> QED BY <2>2, <2>3
<1>3. Nat \subseteq B
  <2> HIDE DEF B
  <2> QED BY <1>1, <1>2, Inductive
<1> QED BY <1>3

\* The sum only looks at the entries it sums up.
LEMMA SumPrefix ==
  ASSUME NEW R, NEW u \in [R -> Nat], NEW l \in Seq(R), NEW k \in Seq(R)
  PROVE  \A m \in Nat : m <= Len(l) /\ (\A i \in 1..m : l[i] = k[i]) => SumTo(u, l, m) = SumTo(u, k, m)
<1> SUFFICES ASSUME NEW m \in Nat, m <= Len(l), \A i \in 1..m : l[i] = k[i]
             PROVE  SumTo(u, l, m) = SumTo(u, k, m)
  OBVIOUS
<1> DEFINE B == {n \in Nat : n <= m => SumTo(u, l, n) = SumTo(u, k, n)}
<1>1. 0 \in B
  BY SumSteps
<1>2. ASSUME NEW n \in Nat, n \in B PROVE n + 1 \in B
  <2> SUFFICES ASSUME n + 1 <= m PROVE SumTo(u, l, n + 1) = SumTo(u, k, n + 1)
    OBVIOUS
  <2>1. l[n + 1] = k[n + 1] /\ SumTo(u, l, n) = SumTo(u, k, n)
    BY <1>2
  <2>2. SumTo(u, l, n + 1) = SumTo(u, l, n) + u[l[n + 1]]
    BY SumSteps
  <2>3. SumTo(u, k, n + 1) = SumTo(u, k, n) + u[k[n + 1]]
    BY SumSteps
  <2> QED BY <2>1, <2>2, <2>3
<1>3. Nat \subseteq B
  <2> HIDE DEF B
  <2> QED BY <1>1, <1>2, Inductive
<1> QED BY <1>3

LEMMA SumSame ==
  ASSUME NEW R, NEW u \in [R -> Nat], NEW v \in [R -> Nat], NEW l \in Seq(R)
  PROVE  \A m \in Nat : m <= Len(l) /\ (\A i \in 1..m : u[l[i]] = v[l[i]]) => SumTo(u, l, m) = SumTo(v, l, m)
<1> SUFFICES ASSUME NEW m \in Nat, m <= Len(l), \A i \in 1..m : u[l[i]] = v[l[i]]
             PROVE  SumTo(u, l, m) = SumTo(v, l, m)
  OBVIOUS
<1> DEFINE B == {n \in Nat : n <= m => SumTo(u, l, n) = SumTo(v, l, n)}
<1>1. 0 \in B
  BY SumSteps
<1>2. ASSUME NEW n \in Nat, n \in B PROVE n + 1 \in B
  <2> SUFFICES ASSUME n + 1 <= m PROVE SumTo(u, l, n + 1) = SumTo(v, l, n + 1)
    OBVIOUS
  <2>1. u[l[n + 1]] = v[l[n + 1]] /\ SumTo(u, l, n) = SumTo(v, l, n)
    BY <1>2
  <2>2. SumTo(u, l, n + 1) = SumTo(u, l, n) + u[l[n + 1]]
    BY SumSteps
  <2>3. SumTo(v, l, n + 1) = SumTo(v, l, n) + v[l[n + 1]]
    BY SumSteps
  <2> QED BY <2>1, <2>2, <2>3
<1>3. Nat \subseteq B
  <2> HIDE DEF B
  <2> QED BY <1>1, <1>2, Inductive
<1> QED BY <1>3

\* A sum of more is more, by one at least when one of its entries is.
LEMMA SumGrows ==
  ASSUME NEW R, NEW u \in [R -> Nat], NEW v \in [R -> Nat], NEW l \in Seq(R), \A r \in R : u[r] <= v[r]
  PROVE  \A m \in 0..Len(l) :
           /\ SumTo(u, l, m) <= SumTo(v, l, m)
           /\ (\E i \in 1..m : u[l[i]] + 1 <= v[l[i]]) => SumTo(u, l, m) + 1 <= SumTo(v, l, m)
<1> DEFINE P(m) == /\ SumTo(u, l, m) <= SumTo(v, l, m)
                   /\ (\E i \in 1..m : u[l[i]] + 1 <= v[l[i]]) => SumTo(u, l, m) + 1 <= SumTo(v, l, m)
           B == {m \in Nat : m <= Len(l) => P(m)}
<1>1. 0 \in B
  BY SumSteps
<1>2. ASSUME NEW n \in Nat, n \in B PROVE n + 1 \in B
  <2> SUFFICES ASSUME n + 1 <= Len(l) PROVE P(n + 1)
    OBVIOUS
  <2>1. P(n) /\ l[n + 1] \in R /\ n \in 0..Len(l)
    BY <1>2
  <2>2. /\ u[l[n + 1]] \in Nat /\ v[l[n + 1]] \in Nat /\ u[l[n + 1]] <= v[l[n + 1]]
        /\ SumTo(u, l, n) \in Nat /\ SumTo(v, l, n) \in Nat
    BY <2>1, SumTypes
  <2>3. /\ SumTo(u, l, n + 1) = SumTo(u, l, n) + u[l[n + 1]]
        /\ SumTo(v, l, n + 1) = SumTo(v, l, n) + v[l[n + 1]]
    BY SumSteps
  <2>4. (\E i \in 1..(n + 1) : u[l[i]] + 1 <= v[l[i]]) =>
          u[l[n + 1]] + 1 <= v[l[n + 1]] \/ \E i \in 1..n : u[l[i]] + 1 <= v[l[i]]
    OBVIOUS
  <2>5. SumTo(u, l, n + 1) <= SumTo(v, l, n + 1)
    BY <2>1, <2>2, <2>3
  <2>6. ASSUME \E i \in 1..(n + 1) : u[l[i]] + 1 <= v[l[i]]
        PROVE  SumTo(u, l, n + 1) + 1 <= SumTo(v, l, n + 1)
    <3>1. CASE u[l[n + 1]] + 1 <= v[l[n + 1]]
      BY <2>1, <2>2, <2>3, <3>1
    <3>2. CASE \E i \in 1..n : u[l[i]] + 1 <= v[l[i]]
      <4>1. SumTo(u, l, n) + 1 <= SumTo(v, l, n)
        BY <2>1, <3>2
      <4> QED BY <2>2, <2>3, <4>1
    <3> QED BY <2>4, <2>6, <3>1, <3>2
  <2> QED BY <2>5, <2>6
<1>3. Nat \subseteq B
  <2> HIDE DEF B
  <2> QED BY <1>1, <1>2, Inductive
<1> QED BY <1>3

-----------------------------------------------------------------------------
(* A run and what is above it *)

LEMMA LineageOf ==
  ASSUME NEW r \in Run
  PROVE  /\ r \in Lineage(r) /\ Lineage(r) \subseteq Run
         /\ \A a \in Lineage(r) : Parent[a] # None => Parent[a] \in Lineage(r)
         /\ \A a \in Lineage(r) : a # r => \E c \in Lineage(r) : Parent[c] = a
<1>1. Parent \in [Run -> Run \cup {None}]
  BY UsageAssumption
<1>2. r \in Lineage(r) /\ Lineage(r) \subseteq Run
  BY DEF Lineage
<1>3. ASSUME NEW a \in Lineage(r), Parent[a] # None PROVE Parent[a] \in Lineage(r)
  BY <1>1, <1>3 DEF Lineage
<1>4. ASSUME NEW a \in Lineage(r), a # r PROVE \E c \in Lineage(r) : Parent[c] = a
  <2> DEFINE S == {x \in Lineage(r) : x = r \/ \E c \in Lineage(r) : Parent[c] = x}
  <2>1. S \in SUBSET Run /\ r \in S /\ \A x \in S : Parent[x] # None => Parent[x] \in S
    BY <1>2, <1>3
  <2>2. a \in S
    BY <2>1 DEF Lineage
  <2> QED BY <1>4, <2>2
<1> QED BY <1>2, <1>3, <1>4

LEMMA LineageTransitive ==
  ASSUME NEW r \in Run, NEW c \in Lineage(r), NEW a \in Lineage(c)
  PROVE  a \in Lineage(r)
<1>1. Lineage(r) \in SUBSET Run /\ \A x \in Lineage(r) : Parent[x] # None => Parent[x] \in Lineage(r)
  BY LineageOf
<1> QED BY <1>1 DEF Lineage

LEMMA LineageOfParent ==
  ASSUME NEW c \in Run, Parent[c] # None
  PROVE  Parent[c] \in Run /\ Parent[c] \in Lineage(c)
BY LineageOf, UsageAssumption

Frames == [node : Run, sum : Nat, next : Nat]

UsageTypes ==
  /\ status \in [Run -> {"idle", "running", "finishing", "reported", "done"}]
  /\ child_run_ids \in [Run -> Seq(Run)]
  /\ self_totals \in [Run -> Nat]
  /\ inclusive_totals \in [Run -> Nat \cup {None}]
  /\ stack \in [Run -> Seq(Frames)]
  /\ used \in [Run -> Nat] /\ due \in [Run -> Nat] /\ reported \in [Run -> Int]

\* No run of the subtree called a child with its own total cached.
Sound(r) == \A d \in Run : r \in Lineage(d) => d \notin cached_callers

\* The parent of an active run waits for it, and has no cached total unless it had one when
\* it called it.
Waits(p) == status[p] = "running" /\ (inclusive_totals[p] = None \/ p \in cached_callers)
ParentsWait == \A c \in Run : Active(c) /\ Parent[c] # None => Waits(Parent[c])

\* The children a run ever had are in its list, and no others.
Listed ==
  /\ \A c \in Run : status[c] # "idle" /\ Parent[c] # None =>
       \E i \in DOMAIN child_run_ids[Parent[c]] : child_run_ids[Parent[c]][i] = c
  /\ \A r \in Run : \A i \in DOMAIN child_run_ids[r] : Parent[child_run_ids[r][i]] = r

\* The tokens of the first n children in the list of a run.
ChildTokens(r, n) == SumTo(used, child_run_ids[r], n)

\* What a run and its descendants used is its own and that of the children in its list; a
\* cached total of a sound run covers it.
ListCovers  == \A r \in Run : used[r] <= self_totals[r] + ChildTokens(r, Len(child_run_ids[r]))
CacheCovers == \A r \in Run : inclusive_totals[r] # None /\ Sound(r) => used[r] <= inclusive_totals[r]

\* A frame covers its node and the children it has visited; the next one is computed in the
\* frame above.
Covering(r, f) ==
  /\ r \in Lineage(f.node)
  /\ f.next \in 1..(Len(child_run_ids[f.node]) + 1)
  /\ Sound(f.node) => self_totals[f.node] + ChildTokens(f.node, f.next - 1) <= f.sum
Nesting(r, frames) ==
  frames # <<>> =>
    /\ frames[1].node = r
    /\ \A i \in 1..(Len(frames) - 1) :
         /\ frames[i].next \in DOMAIN child_run_ids[frames[i].node]
         /\ frames[i + 1].node = child_run_ids[frames[i].node][frames[i].next]
FramesCover == \A r \in Run : \A i \in DOMAIN stack[r] : Covering(r, stack[r][i])
FramesNest  == \A r \in Run : Nesting(r, stack[r])

\* While a run is computed nothing it covers changes.
Finishing ==
  \A r \in Run :
    /\ stack[r] # <<>> => status[r] = "finishing"
    /\ status[r] = "finishing" /\ stack[r] = <<>> => inclusive_totals[r] # None
    /\ status[r] \in {"finishing", "reported"} => due[r] = used[r]
    /\ status[r] = "reported" /\ Sound(r) => used[r] <= reported[r]

UsageInv ==
  /\ UsageTypes /\ ParentsWait /\ Listed /\ ListCovers /\ CacheCovers
  /\ FramesCover /\ FramesNest /\ Finishing

\* What is below a sound run is sound, and soundness is never won back.
LEMMA SoundBelow ==
  ASSUME NEW r \in Run, NEW n \in Run, r \in Lineage(n), Sound(r)
  PROVE  Sound(n)
BY LineageTransitive DEF Sound

LEMMA SoundBefore ==
  ASSUME NEW r \in Run, cached_callers \subseteq cached_callers', Sound(r)'
  PROVE  Sound(r)
BY DEF Sound, Lineage

LEMMA AboveActive ==
  ASSUME UsageTypes, ParentsWait, NEW d \in Run, Active(d), NEW a \in Lineage(d)
  PROVE  a = d \/ status[a] = "running"
<1> DEFINE S == {x \in Lineage(d) : x = d \/ status[x] = "running"}
<1>1. S \in SUBSET Run /\ d \in S
  BY LineageOf
<1>2. ASSUME NEW x \in S, Parent[x] # None PROVE Parent[x] \in S
  <2>1. x \in Run /\ Active(x) /\ Parent[x] \in Lineage(d)
    BY <1>2, LineageOf DEF Active
  <2> QED BY <1>2, <2>1 DEF ParentsWait, Waits
<1>3. a \in S
  BY <1>1, <1>2 DEF Lineage
<1> QED BY <1>3

\* Below a run that is computed nothing runs.
LEMMA QuietBelow ==
  ASSUME UsageTypes, ParentsWait, NEW r \in Run, NEW n \in Run, r \in Lineage(n),
         status[r] \in {"finishing", "reported"}
  PROVE  status[n] # "running"
BY AboveActive DEF Active

\* A child that is active keeps its parents, and so on, from having a cached total, but
\* for what they had before they called.
LEMMA UncachedAbove ==
  ASSUME UsageInv, NEW r \in Run, status[r] = "running", NEW q \in Lineage(r), q # r
  PROVE  /\ status[q] = "running" /\ (inclusive_totals[q] = None \/ ~Sound(q))
         /\ \E i \in DOMAIN child_run_ids[q] : child_run_ids[q][i] \in Lineage(r)
<1>1. PICK c \in Lineage(r) : Parent[c] = q
  BY LineageOf
<1>2. q \in Run /\ c \in Run /\ q # None
  BY LineageOf, UsageAssumption
<1>3. Active(r)
  BY DEF Active
<1>4. Active(c) /\ status[c] # "idle"
  BY <1>2, <1>3, AboveActive DEF Active, UsageInv
<1>5. status[q] = "running" /\ (inclusive_totals[q] = None \/ q \in cached_callers)
  BY <1>1, <1>2, <1>4 DEF UsageInv, ParentsWait, Waits
<1>7. q \in cached_callers => ~Sound(q)
  BY <1>2, LineageOf DEF Sound
<1>6. \E i \in DOMAIN child_run_ids[q] : child_run_ids[q][i] = c
  BY <1>1, <1>2, <1>4 DEF UsageInv, Listed
<1> QED BY <1>2, <1>5, <1>6, <1>7

LEMMA SameUsage ==
  ASSUME UsageInv,
         UNCHANGED <<status, cached_callers, child_run_ids, self_totals, inclusive_totals, stack, used, due, reported>>
  PROVE  UsageInv'
<1>3. \A n \in Run : Sound(n)' => Sound(n)
  BY SoundBefore
<1>1. UsageTypes' /\ ParentsWait' /\ Listed' /\ CacheCovers' /\ FramesNest' /\ Finishing'
  BY <1>3 DEF UsageInv, UsageTypes, ParentsWait, Waits, Listed, CacheCovers, FramesNest, Finishing, Active, Nesting
<1>2. ListCovers' /\ FramesCover'
  <2>1. \A n : Sound(n)' = Sound(n)
    BY DEF Sound, Lineage
  <2> QED BY <2>1 DEF UsageInv, ListCovers, FramesCover, ChildTokens, Covering
<1> QED BY <1>1, <1>2 DEF UsageInv

\* Frames stay as they are when what they cover does.
LEMMA FramesStay ==
  ASSUME UsageInv, UsageTypes', UNCHANGED stack, cached_callers \subseteq cached_callers',
         \A r, n \in Run : status[r] = "finishing" /\ r \in Lineage(n) =>
           /\ child_run_ids'[n] = child_run_ids[n] /\ self_totals'[n] = self_totals[n]
           /\ \A i \in DOMAIN child_run_ids[n] : used'[child_run_ids[n][i]] = used[child_run_ids[n][i]]
  PROVE  FramesCover' /\ FramesNest'
<1>1. ASSUME NEW r \in Run, NEW i \in DOMAIN stack[r]
      PROVE  LET f == stack[r][i]
             IN  /\ f \in Frames /\ r \in Lineage(f.node)
                 /\ child_run_ids'[f.node] = child_run_ids[f.node] /\ self_totals'[f.node] = self_totals[f.node]
                 /\ f.next \in 1..(Len(child_run_ids'[f.node]) + 1)
                 /\ ChildTokens(f.node, f.next - 1)' = ChildTokens(f.node, f.next - 1)
  <2> DEFINE f    == stack[r][i]
             list == child_run_ids[f.node]
  <2>1. f \in Frames /\ f.node \in Run /\ stack[r] # <<>>
    <3>1. stack[r] \in Seq(Frames) /\ stack[r] # <<>>
      BY DEF UsageInv, UsageTypes
    <3>2. f \in Frames
      BY <3>1
    <3> QED BY <3>1, <3>2 DEF Frames
  <2>2. r \in Lineage(f.node) /\ f.next \in 1..(Len(list) + 1)
    BY <1>1 DEF UsageInv, FramesCover, Covering
  <2>3. status[r] = "finishing"
    BY <2>1 DEF UsageInv, Finishing
  <2> HIDE DEF f
  <2>4. /\ child_run_ids'[f.node] = list /\ self_totals'[f.node] = self_totals[f.node]
        /\ \A j \in DOMAIN list : used'[list[j]] = used[list[j]]
    BY <2>1, <2>2, <2>3
  <2>5. list \in Seq(Run) /\ used \in [Run -> Nat] /\ used' \in [Run -> Nat]
    BY <2>1 DEF UsageInv, UsageTypes
  <2> HIDE DEF list
  <2>6. f.next - 1 \in Nat /\ f.next - 1 <= Len(list) /\ \A j \in 1..(f.next - 1) : used'[list[j]] = used[list[j]]
    BY <2>2, <2>4, <2>5
  <2>7. SumTo(used', list, f.next - 1) = SumTo(used, list, f.next - 1)
    <3>1. ASSUME NEW m \in Nat, m = f.next - 1 PROVE SumTo(used', list, m) = SumTo(used, list, m)
      <4>1. m <= Len(list) /\ \A j \in 1..m : used'[list[j]] = used[list[j]]
        BY <2>6, <3>1
      <4> QED BY <2>5, <4>1, SumSame
    <3> QED BY <2>6, <3>1
  <2> QED BY <2>1, <2>2, <2>4, <2>7 DEF ChildTokens, f, list
<1>2. FramesCover'
  <2> SUFFICES ASSUME NEW r \in Run, NEW i \in DOMAIN stack[r] PROVE Covering(r, stack[r][i])'
    BY DEF FramesCover
  <2>1. stack[r][i].node \in Run
    BY <1>1 DEF Frames
  <2>2. Sound(stack[r][i].node)' => Sound(stack[r][i].node)
    BY <2>1, SoundBefore
  <2> QED BY <1>1, <2>2 DEF UsageInv, FramesCover, Covering
<1>3. FramesNest'
  <2> SUFFICES ASSUME NEW r \in Run, stack[r] # <<>>
               PROVE  /\ stack[r][1].node = r
                      /\ \A i \in 1..(Len(stack[r]) - 1) :
                           /\ stack[r][i].next \in DOMAIN child_run_ids'[stack[r][i].node]
                           /\ stack[r][i + 1].node = child_run_ids'[stack[r][i].node][stack[r][i].next]
    BY DEF FramesNest, Nesting
  <2>1. \A i \in 1..(Len(stack[r]) - 1) : i \in DOMAIN stack[r]
    BY DEF UsageInv, UsageTypes
  <2>2. /\ stack[r][1].node = r
        /\ \A i \in 1..(Len(stack[r]) - 1) :
             /\ stack[r][i].next \in DOMAIN child_run_ids[stack[r][i].node]
             /\ stack[r][i + 1].node = child_run_ids[stack[r][i].node][stack[r][i].next]
    BY DEF UsageInv, FramesNest, Nesting
  <2>3. ASSUME NEW i \in 1..(Len(stack[r]) - 1)
        PROVE  child_run_ids'[stack[r][i].node] = child_run_ids[stack[r][i].node]
    BY <1>1, <2>1
  <2> QED BY <2>2, <2>3
<1> QED BY <1>2, <1>3

LEMMA ListSum ==
  ASSUME NEW u \in [Run -> Nat], NEW l \in Seq(Run)
  PROVE  SumTo(u, l, Len(l)) \in Nat
<1>1. Len(l) \in 0..Len(l)
  OBVIOUS
<1> QED BY <1>1, SumTypes

\* A list that goes on covers no less.
LEMMA ListGrows ==
  ASSUME NEW u \in [Run -> Nat], NEW l \in Seq(Run), NEW c \in Run
  PROVE  SumTo(u, l, Len(l)) <= SumTo(u, Append(l, c), Len(Append(l, c)))
<1> DEFINE k == Append(l, c)
           n == Len(l)
<1>1. k \in Seq(Run) /\ n \in Nat /\ Len(k) = n + 1 /\ k[n + 1] = c /\ \A i \in 1..n : l[i] = k[i]
  OBVIOUS
<1>2. n <= Len(l) /\ SumTo(u, l, n) \in Nat
  BY <1>1, ListSum
<1> HIDE DEF k, n
<1>3. SumTo(u, l, n) = SumTo(u, k, n)
  BY <1>1, <1>2, SumPrefix
<1>4. SumTo(u, k, n + 1) = SumTo(u, k, n) + u[k[n + 1]]
  BY <1>1, SumSteps
<1>5. SumTo(u, l, n) <= SumTo(u, k, Len(k))
  BY <1>1, <1>2, <1>3, <1>4
<1> QED BY <1>5 DEF k, n

LEMMA UsageStart ==
  ASSUME UsageInv, NEW r \in Run, StartRun(r)
  PROVE  UsageInv'
<1> DEFINE p == Parent[r]
<1>1. /\ status[r] \in {"idle", "done"}
      /\ p # None => status[p] = "running" /\ p \in Run /\ p # r
      /\ p = None => p \notin Run
      /\ status' = [status EXCEPT ![r] = "running"]
      /\ cached_callers' = cached_callers \cup {q \in Run : q = p /\ inclusive_totals[q] # None}
      /\ child_run_ids' = [q \in Run |-> IF q = p THEN WithChild(child_run_ids[q], r) ELSE child_run_ids[q]]
      /\ UNCHANGED <<self_totals, inclusive_totals, stack, used, due, reported>>
  BY UsageAssumption DEF StartRun, reports
<1>2. ASSUME NEW q \in Run
      PROVE  /\ child_run_ids'[q] \in Seq(Run)
             /\ child_run_ids'[q] = child_run_ids[q] \/ (q = p /\ child_run_ids'[q] = Append(child_run_ids[q], r))
             /\ q = p => \E i \in DOMAIN child_run_ids'[q] : child_run_ids'[q][i] = r
  <2>1. child_run_ids[q] \in Seq(Run)
    BY DEF UsageInv, UsageTypes
  <2>2. CASE q = p
    <3>1. child_run_ids'[q] = WithChild(child_run_ids[q], r)
      BY <1>1, <2>2
    <3>2. CASE \E i \in DOMAIN child_run_ids[q] : child_run_ids[q][i] = r
      BY <2>1, <3>1, <3>2 DEF WithChild
    <3>3. CASE ~ \E i \in DOMAIN child_run_ids[q] : child_run_ids[q][i] = r
      <4>1. child_run_ids'[q] = Append(child_run_ids[q], r)
        BY <3>1, <3>3 DEF WithChild
      <4>2. Append(child_run_ids[q], r)[Len(child_run_ids[q]) + 1] = r
            /\ Len(child_run_ids[q]) + 1 \in DOMAIN Append(child_run_ids[q], r)
        BY <2>1
      <4> QED BY <2>1, <2>2, <4>1, <4>2
    <3> QED BY <3>2, <3>3
  <2>3. CASE q # p
    BY <1>1, <2>1, <2>3
  <2> QED BY <2>2, <2>3
<1>3. ASSUME NEW q \in Run, NEW i \in DOMAIN child_run_ids[q]
      PROVE  i \in DOMAIN child_run_ids'[q] /\ child_run_ids'[q][i] = child_run_ids[q][i]
  <2>1. child_run_ids[q] \in Seq(Run)
    BY DEF UsageInv, UsageTypes
  <2>2. CASE child_run_ids'[q] = child_run_ids[q]
    BY <2>2
  <2>3. CASE child_run_ids'[q] = Append(child_run_ids[q], r)
    BY <2>1, <2>3
  <2> QED BY <1>2, <2>2, <2>3
<1>4. UsageTypes'
  <2>1. child_run_ids' \in [Run -> Seq(Run)]
    BY <1>1, <1>2
  <2> QED BY <1>1, <2>1 DEF UsageInv, UsageTypes
<1>5. ParentsWait'
  <2> SUFFICES ASSUME NEW c \in Run, Active(c)', Parent[c] # None
               PROVE  Waits(Parent[c])'
    BY DEF ParentsWait
  <2>1. CASE c = r
    BY <1>1, <2>1 DEF UsageInv, UsageTypes, Waits
  <2>2. CASE c # r
    <3>1. Active(c)
      BY <1>1, <2>2 DEF Active, UsageInv, UsageTypes
    <3>2. Waits(Parent[c])
      BY <3>1 DEF UsageInv, ParentsWait
    <3> QED BY SMTT(30), <1>1, <3>2 DEF UsageInv, UsageTypes, Waits
  <2> QED BY <2>1, <2>2
<1>6. \A n \in Run : Sound(n)' => Sound(n)
  BY <1>1, SoundBefore
<1>7. Listed'
  <2>1. ASSUME NEW c \in Run, status'[c] # "idle", Parent[c] # None
        PROVE  \E i \in DOMAIN child_run_ids'[Parent[c]] : child_run_ids'[Parent[c]][i] = c
    <3>1. Parent[c] \in Run
      BY <2>1, LineageOfParent
    <3>2. CASE c = r
      BY <1>2, <3>1, <3>2
    <3>3. CASE c # r
      <4>1. status[c] # "idle"
        BY <1>1, <2>1, <3>3 DEF UsageInv, UsageTypes
      <4>2. PICK i \in DOMAIN child_run_ids[Parent[c]] : child_run_ids[Parent[c]][i] = c
        BY <2>1, <4>1 DEF UsageInv, Listed
      <4> QED BY <1>3, <3>1, <4>2
    <3> QED BY <3>2, <3>3
  <2>2. ASSUME NEW q \in Run, NEW i \in DOMAIN child_run_ids'[q] PROVE Parent[child_run_ids'[q][i]] = q
    <3>1. child_run_ids[q] \in Seq(Run)
      BY DEF UsageInv, UsageTypes
    <3>2. CASE child_run_ids'[q] = child_run_ids[q]
      BY <2>2, <3>2 DEF UsageInv, Listed
    <3>3. CASE q = p /\ child_run_ids'[q] = Append(child_run_ids[q], r)
      <4>1. i \in DOMAIN child_run_ids[q] \/ child_run_ids'[q][i] = r
        BY <2>2, <3>1, <3>3
      <4> QED BY <1>3, <3>3, <4>1 DEF UsageInv, Listed
    <3> QED BY <1>2, <3>2, <3>3
  <2> QED BY <2>1, <2>2 DEF Listed
<1>8. ListCovers'
  <2> SUFFICES ASSUME NEW q \in Run
               PROVE  used[q] <= self_totals[q] + SumTo(used, child_run_ids'[q], Len(child_run_ids'[q]))
    BY <1>1 DEF ListCovers, ChildTokens
  <2>1. used[q] <= self_totals[q] + SumTo(used, child_run_ids[q], Len(child_run_ids[q]))
    BY DEF UsageInv, ListCovers, ChildTokens
  <2>2. /\ child_run_ids[q] \in Seq(Run) /\ child_run_ids'[q] \in Seq(Run) /\ used \in [Run -> Nat]
        /\ used[q] \in Nat /\ self_totals[q] \in Nat
    BY <1>2 DEF UsageInv, UsageTypes
  <2>3. SumTo(used, child_run_ids[q], Len(child_run_ids[q]))
          <= SumTo(used, child_run_ids'[q], Len(child_run_ids'[q]))
    <3>1. CASE child_run_ids'[q] = child_run_ids[q]
      <4>1. SumTo(used, child_run_ids[q], Len(child_run_ids[q])) \in Nat
        BY <2>2, ListSum
      <4> QED BY <3>1, <4>1
    <3>2. CASE child_run_ids'[q] = Append(child_run_ids[q], r)
      BY <2>2, <3>2, ListGrows
    <3> QED BY <1>2, <3>1, <3>2
  <2>4. /\ SumTo(used, child_run_ids[q], Len(child_run_ids[q])) \in Nat
        /\ SumTo(used, child_run_ids'[q], Len(child_run_ids'[q])) \in Nat
    BY <2>2, ListSum
  <2> QED BY <2>1, <2>2, <2>3, <2>4
<1>9. CacheCovers'
  BY <1>1, <1>6 DEF UsageInv, CacheCovers
<1>10. FramesCover' /\ FramesNest'
  <2>1. ASSUME NEW x \in Run, NEW n \in Run, status[x] = "finishing", x \in Lineage(n)
        PROVE  /\ child_run_ids'[n] = child_run_ids[n] /\ self_totals'[n] = self_totals[n]
               /\ \A i \in DOMAIN child_run_ids[n] : used'[child_run_ids[n][i]] = used[child_run_ids[n][i]]
    <3>1. status[n] # "running"
      BY <2>1, QuietBelow DEF UsageInv
    <3>2. n # p
      BY <1>1, <3>1
    <3> QED BY <1>1, <3>2
  <2> QED BY <1>1, <1>4, <2>1, FramesStay
<1>11. Finishing'
  <2>1. stack[r] = <<>>
    BY <1>1 DEF UsageInv, Finishing
  <2> QED BY <1>1, <1>6, <2>1 DEF UsageInv, UsageTypes, Finishing
<1> QED BY <1>4, <1>5, <1>7, <1>8, <1>9, <1>10, <1>11 DEF UsageInv

LEMMA UsageRecorded ==
  ASSUME UsageInv, NEW r \in Run, RecordUsage(r)
  PROVE  UsageInv'
<1>1. /\ status[r] = "running"
      /\ self_totals' = [self_totals EXCEPT ![r] = @ + 1]
      /\ inclusive_totals' = [inclusive_totals EXCEPT ![r] = None]
      /\ used' = [q \in Run |-> IF q \in Lineage(r) THEN used[q] + 1 ELSE used[q]]
      /\ UNCHANGED <<status, cached_callers, child_run_ids, stack, due, reported>>
  BY DEF RecordUsage, Free, AfterUsage
<1>2. UsageTypes'
  <2>1. \A q \in Run : used[q] \in Nat /\ self_totals[q] \in Nat
    BY DEF UsageInv, UsageTypes
  <2>2. used' \in [Run -> Nat]
    BY <1>1, <2>1
  <2>3. self_totals' \in [Run -> Nat] /\ inclusive_totals' \in [Run -> Nat \cup {None}]
    BY <1>1, <2>1 DEF UsageInv, UsageTypes
  <2> QED BY <1>1, <2>2, <2>3 DEF UsageInv, UsageTypes
<1>3. ASSUME NEW q \in Run
      PROVE  /\ used[q] \in Nat /\ used'[q] \in Nat /\ used[q] <= used'[q] /\ used'[q] <= used[q] + 1
             /\ q \in Lineage(r) => used'[q] = used[q] + 1
             /\ q \notin Lineage(r) => used'[q] = used[q]
  <2>1. used[q] \in Nat
    BY DEF UsageInv, UsageTypes
  <2>2. used'[q] = IF q \in Lineage(r) THEN used[q] + 1 ELSE used[q]
    BY <1>1
  <2>3. CASE q \in Lineage(r)
    BY <2>1, <2>2, <2>3
  <2>4. CASE q \notin Lineage(r)
    BY <2>1, <2>2, <2>4
  <2> QED BY <2>3, <2>4
<1>4. ParentsWait' /\ Listed'
  <2>1. \A q \in Run : inclusive_totals[q] = None => inclusive_totals'[q] = None
    BY <1>1 DEF UsageInv, UsageTypes
  <2>2. ParentsWait'
    BY <1>1, <2>1, LineageOfParent DEF UsageInv, ParentsWait, Waits, Active
  <2>3. Listed'
    BY <1>1 DEF UsageInv, Listed
  <2> QED BY <2>2, <2>3
<1>5. \A n \in Run : Sound(n)' => Sound(n)
  BY <1>1, SoundBefore
<1>6. ListCovers'
  <2> SUFFICES ASSUME NEW q \in Run
               PROVE  used'[q] <= self_totals'[q] + SumTo(used', child_run_ids[q], Len(child_run_ids[q]))
    BY <1>1 DEF ListCovers, ChildTokens
  <2> DEFINE l == child_run_ids[q]
             n == Len(l)
  <2>1. l \in Seq(Run) /\ n \in 0..Len(l) /\ used \in [Run -> Nat] /\ used' \in [Run -> Nat]
    <3>1. l \in Seq(Run) /\ used \in [Run -> Nat] /\ used' \in [Run -> Nat]
      BY <1>2 DEF UsageInv, UsageTypes
    <3> QED BY <3>1
  <2>2. used[q] <= self_totals[q] + SumTo(used, l, n) /\ self_totals[q] \in Nat /\ self_totals'[q] \in Nat
    BY <1>2 DEF UsageInv, UsageTypes, ListCovers, ChildTokens
  <2>3. SumTo(used, l, n) \in Nat /\ SumTo(used', l, n) \in Nat
    BY <2>1, ListSum
  <2>4. q # r /\ q \in Lineage(r) => \E i \in 1..n : used[l[i]] + 1 <= used'[l[i]]
    <3> SUFFICES ASSUME q # r, q \in Lineage(r) PROVE \E i \in 1..n : used[l[i]] + 1 <= used'[l[i]]
      OBVIOUS
    <3>1. PICK i \in DOMAIN l : l[i] \in Lineage(r)
      BY <1>1, UncachedAbove
    <3>2. l[i] \in Run /\ i \in 1..n
      BY <2>1
    <3>3. used[l[i]] + 1 <= used'[l[i]]
      BY <1>3, <3>1, <3>2
    <3> QED BY <3>2, <3>3
  <2>5. self_totals'[q] = IF q = r THEN self_totals[q] + 1 ELSE self_totals[q]
    BY <1>1 DEF UsageInv, UsageTypes
  <2> HIDE DEF n, l
  <2>6. /\ SumTo(used, l, n) <= SumTo(used', l, n)
        /\ (\E i \in 1..n : used[l[i]] + 1 <= used'[l[i]]) => SumTo(used, l, n) + 1 <= SumTo(used', l, n)
    BY <1>3, <2>1, SumGrows
  <2>7. used'[q] <= self_totals'[q] + SumTo(used', l, n)
    <3>1. CASE q = r
      BY <1>3, <2>2, <2>3, <2>5, <2>6, <3>1
    <3>2. CASE q # r /\ q \in Lineage(r)
      BY <1>3, <2>2, <2>3, <2>4, <2>5, <2>6, <3>2
    <3>3. CASE q # r /\ q \notin Lineage(r)
      BY <1>3, <2>2, <2>3, <2>5, <2>6, <3>3
    <3> QED BY <3>1, <3>2, <3>3
  <2> QED BY <2>7 DEF l, n
<1>7. CacheCovers'
  <2> SUFFICES ASSUME NEW q \in Run, inclusive_totals'[q] # None, Sound(q) PROVE used'[q] <= inclusive_totals'[q]
    BY <1>5 DEF CacheCovers
  <2>1. q # r /\ inclusive_totals'[q] = inclusive_totals[q]
    BY <1>1 DEF UsageInv, UsageTypes
  <2>2. q \notin Lineage(r)
    BY <1>1, <2>1, UncachedAbove
  <2> QED BY <1>3, <2>1, <2>2 DEF UsageInv, CacheCovers
<1>8. FramesCover' /\ FramesNest'
  <2>1. ASSUME NEW x \in Run, NEW n \in Run, status[x] = "finishing", x \in Lineage(n)
        PROVE  /\ child_run_ids'[n] = child_run_ids[n] /\ self_totals'[n] = self_totals[n]
               /\ \A i \in DOMAIN child_run_ids[n] : used'[child_run_ids[n][i]] = used[child_run_ids[n][i]]
    <3>1. n # r /\ n \notin Lineage(r)
      BY <1>1, <2>1, QuietBelow, UncachedAbove DEF UsageInv
    <3>2. ASSUME NEW i \in DOMAIN child_run_ids[n] PROVE used'[child_run_ids[n][i]] = used[child_run_ids[n][i]]
      <4>1. child_run_ids[n][i] \in Run
        <5>1. child_run_ids[n] \in Seq(Run)
          BY DEF UsageInv, UsageTypes
        <5> QED BY <5>1
      <4>2. Parent[child_run_ids[n][i]] = n /\ n # None
        BY UsageAssumption DEF UsageInv, Listed
      <4>3. child_run_ids[n][i] \notin Lineage(r)
        BY <3>1, <4>2, LineageOf
      <4> QED BY <1>3, <4>1, <4>3
    <3>3. self_totals'[n] = self_totals[n]
      BY <1>1, <3>1 DEF UsageInv, UsageTypes
    <3> QED BY <1>1, <3>2, <3>3
  <2> QED BY <1>1, <1>2, <2>1, FramesStay
<1>9. Finishing'
  <2> SUFFICES ASSUME NEW q \in Run
               PROVE  /\ stack[q] # <<>> => status[q] = "finishing"
                      /\ status[q] = "finishing" /\ stack[q] = <<>> => inclusive_totals'[q] # None
                      /\ status[q] \in {"finishing", "reported"} => due[q] = used'[q]
                      /\ status[q] = "reported" /\ Sound(q) => used'[q] <= reported[q]
    BY <1>1, <1>5 DEF Finishing
  <2>1. q \in Lineage(r) => status[q] = "running"
    BY <1>1, UncachedAbove
  <2>2. status[q] # "running" => used'[q] = used[q] /\ inclusive_totals'[q] = inclusive_totals[q]
    BY <1>1, <1>3, <2>1 DEF UsageInv, UsageTypes
  <2> QED BY <2>2 DEF UsageInv, Finishing
<1> QED BY <1>2, <1>4, <1>6, <1>7, <1>8, <1>9 DEF UsageInv

\* The stack of one run changes, what frames cover does not.
LEMMA StackChanges ==
  ASSUME UsageInv, NEW r \in Run, NEW st \in Seq(Frames), stack' = [stack EXCEPT ![r] = st],
         UNCHANGED <<child_run_ids, self_totals, used, cached_callers>>,
         \A i \in DOMAIN st : Covering(r, st[i]), Nesting(r, st)
  PROVE  FramesCover' /\ FramesNest' /\ stack' \in [Run -> Seq(Frames)] /\ ListCovers'
<1>1. stack' \in [Run -> Seq(Frames)] /\ stack'[r] = st /\ \A q \in Run : q # r => stack'[q] = stack[q]
  BY DEF UsageInv, UsageTypes
<1>2. (\A n, k : ChildTokens(n, k)' = ChildTokens(n, k)) /\ (\A n : Sound(n)' = Sound(n))
  BY DEF ChildTokens, Sound, Lineage
<1>3. FramesCover'
  BY <1>1, <1>2 DEF UsageInv, FramesCover, Covering
<1>4. FramesNest'
  BY <1>1 DEF UsageInv, FramesNest, Nesting
<1>5. ListCovers'
  BY <1>2 DEF UsageInv, ListCovers
<1> QED BY <1>1, <1>3, <1>4, <1>5

\* Nothing but the status of one run, which has no active child, and what goes with it.
LEMMA StatusChanges ==
  ASSUME UsageInv, NEW r \in Run, \A c \in Run : Parent[c] = r => ~Active(c), Active(r),
         NEW s \in {"running", "finishing", "reported", "done"}, status' = [status EXCEPT ![r] = s],
         \A q \in Run : Waits(q) /\ q # r => Waits(q)',
         UNCHANGED child_run_ids
  PROVE  ParentsWait' /\ Listed'
<1>1. ASSUME NEW c \in Run, Active(c)', Parent[c] # None
      PROVE  Waits(Parent[c])'
  <2>1. Active(c) /\ Parent[c] \in Run
    BY <1>1, LineageOfParent DEF Active, UsageInv, UsageTypes
  <2>2. Waits(Parent[c]) /\ Parent[c] # r
    BY <1>1, <2>1 DEF UsageInv, ParentsWait
  <2> QED BY <2>1, <2>2
<1>2. \A c \in Run : status'[c] # "idle" => status[c] # "idle"
  BY DEF UsageInv, UsageTypes, Active
<1> QED BY <1>1, <1>2 DEF UsageInv, ParentsWait, Listed

LEMMA NotRunning ==
  ASSUME UsageInv, NEW r \in Run, status[r] # "running"
  PROVE  \A c \in Run : Parent[c] = r => ~Active(c)
BY UsageAssumption DEF UsageInv, ParentsWait, Waits

LEMMA UsageBeginFinish ==
  ASSUME ~Orphans, UsageInv, NEW r \in Run, BeginFinish(r)
  PROVE  UsageInv'
<1> DEFINE st == IF inclusive_totals[r] = None THEN <<Frame(r)>> ELSE <<>>
<1>1. /\ status[r] = "running" /\ \A c \in Run : Parent[c] = r => ~Active(c)
      /\ status' = [status EXCEPT ![r] = "finishing"]
      /\ due' = [due EXCEPT ![r] = used[r]] /\ stack' = [stack EXCEPT ![r] = st]
      /\ UNCHANGED <<cached_callers, child_run_ids, self_totals, inclusive_totals, used, reported>>
  BY DEF BeginFinish, Free, Children, nodes
<1>2. /\ Frame(r) \in Frames /\ Frame(r).node = r /\ Frame(r).next = 1 /\ Frame(r).sum = self_totals[r]
      /\ self_totals[r] \in Nat
  BY DEF Frame, Frames, UsageInv, UsageTypes
<1>3. st \in Seq(Frames) /\ (st = <<>> \/ (st = <<Frame(r)>> /\ Len(st) = 1 /\ DOMAIN st = {1} /\ st[1] = Frame(r)))
      /\ (st = <<>> <=> inclusive_totals[r] # None)
  BY <1>2
<1> HIDE DEF st
<1>4. (\A i \in DOMAIN st : Covering(r, st[i])) /\ Nesting(r, st)
  <2>1. SumTo(used, child_run_ids[r], 0) = 0
    BY SumSteps
  <2>2. ChildTokens(r, 1 - 1) = 0
    BY <2>1 DEF ChildTokens
  <2>3. Len(child_run_ids[r]) \in Nat
    BY DEF UsageInv, UsageTypes
  <2>4. Covering(r, Frame(r))
    BY <1>2, <2>2, <2>3, LineageOf DEF Covering
  <2>5. CASE st = <<>>
    BY <2>5 DEF Nesting
  <2>6. CASE st = <<Frame(r)>> /\ Len(st) = 1 /\ DOMAIN st = {1} /\ st[1] = Frame(r)
    BY <1>2, <2>4, <2>6 DEF Nesting
  <2> QED BY <1>3, <2>5, <2>6
<1>5. FramesCover' /\ FramesNest' /\ stack' \in [Run -> Seq(Frames)] /\ ListCovers'
  BY <1>1, <1>3, <1>4, StackChanges
<1>6. ParentsWait' /\ Listed'
  <2>1. \A q \in Run : Waits(q) /\ q # r => Waits(q)'
    BY <1>1 DEF Waits, UsageInv, UsageTypes
  <2> QED BY <1>1, <2>1, StatusChanges DEF Active
<1>9. \A n \in Run : Sound(n)' => Sound(n)
  BY <1>1, SoundBefore
<1>7. UsageTypes' /\ CacheCovers'
  BY <1>1, <1>5, <1>9 DEF UsageInv, UsageTypes, CacheCovers
<1>8. Finishing'
  BY <1>1, <1>3, <1>9 DEF UsageInv, UsageTypes, Finishing
<1> QED BY <1>5, <1>6, <1>7, <1>8 DEF UsageInv

LEMMA UsageLeave ==
  ASSUME UsageInv, NEW r \in Run, Leave(r)
  PROVE  UsageInv'
<1>1. /\ status[r] = "reported"
      /\ UNCHANGED <<cached_callers, child_run_ids, self_totals, inclusive_totals, stack, used, due, reported>>
  BY DEF Leave, nodes, reports
<1>2. PICK s \in {"running", "done"} : status' = [status EXCEPT ![r] = s]
  BY DEF Leave
<1>3. ParentsWait' /\ Listed'
  <2>1. \A c \in Run : Parent[c] = r => ~Active(c)
    BY <1>1, NotRunning
  <2>2. Active(r)
    BY <1>1 DEF Active
  <2>3. \A q \in Run : Waits(q) /\ q # r => Waits(q)'
    BY <1>1, <1>2 DEF Waits, UsageInv, UsageTypes
  <2> QED BY <1>1, <1>2, <2>1, <2>2, <2>3, StatusChanges
<1>8. \A n \in Run : Sound(n)' = Sound(n)
  BY <1>1 DEF Sound, Lineage
<1>4. UsageTypes' /\ CacheCovers' /\ FramesNest'
  <2>1. CacheCovers' /\ FramesNest'
    BY <1>1, <1>8 DEF UsageInv, CacheCovers, FramesNest, Nesting
  <2>2. status' \in [Run -> {"idle", "running", "finishing", "reported", "done"}]
    BY <1>1, <1>2 DEF UsageInv, UsageTypes
  <2> QED BY <1>1, <2>1, <2>2 DEF UsageInv, UsageTypes
<1>7. Finishing'
  BY <1>1, <1>2, <1>8 DEF UsageInv, UsageTypes, Finishing
<1>5. ListCovers' /\ FramesCover'
  <2>1. \A n : Sound(n)' = Sound(n)
    BY <1>1 DEF Sound, Lineage
  <2> QED BY <1>1, <2>1 DEF UsageInv, ListCovers, FramesCover, ChildTokens, Covering
<1> QED BY <1>3, <1>4, <1>5, <1>7 DEF UsageInv

LEMMA UsageReportCached ==
  ASSUME UsageInv, NEW r \in Run, ReportCached(r)
  PROVE  UsageInv'
<1>1. /\ status[r] = "finishing" /\ stack[r] = <<>>
      /\ reported' = [reported EXCEPT ![r] = inclusive_totals[r]]
      /\ status' = [status EXCEPT ![r] = "reported"]
      /\ UNCHANGED <<cached_callers, child_run_ids, self_totals, inclusive_totals, stack, used, due>>
  BY DEF ReportCached, nodes
<1>2. inclusive_totals[r] \in Nat /\ (Sound(r) => used[r] <= inclusive_totals[r])
  BY <1>1 DEF UsageInv, UsageTypes, Finishing, CacheCovers
<1>3. ParentsWait' /\ Listed'
  <2>1. \A c \in Run : Parent[c] = r => ~Active(c)
    BY <1>1, NotRunning
  <2>2. Active(r)
    BY <1>1 DEF Active
  <2>3. \A q \in Run : Waits(q) /\ q # r => Waits(q)'
    BY <1>1 DEF Waits, UsageInv, UsageTypes
  <2> QED BY <1>1, <2>1, <2>2, <2>3, StatusChanges
<1>7. \A n \in Run : Sound(n)' = Sound(n)
  BY <1>1 DEF Sound, Lineage
<1>4. UsageTypes' /\ CacheCovers' /\ FramesNest'
  <2>1. UsageTypes'
    BY <1>1, <1>2 DEF UsageInv, UsageTypes
  <2>2. CacheCovers'
    BY <1>1, <1>7 DEF UsageInv, CacheCovers
  <2>3. FramesNest'
    BY <1>1 DEF UsageInv, FramesNest, Nesting
  <2> QED BY <2>1, <2>2, <2>3
<1>5. Finishing'
  BY <1>1, <1>2, <1>7 DEF UsageInv, UsageTypes, Finishing
<1>6. ListCovers' /\ FramesCover'
  <2>1. \A n : Sound(n)' = Sound(n)
    BY <1>1 DEF Sound, Lineage
  <2> QED BY <1>1, <2>1 DEF UsageInv, ListCovers, FramesCover, ChildTokens, Covering
<1> QED BY <1>3, <1>4, <1>5, <1>6 DEF UsageInv

LEMMA LastChanged ==
  ASSUME NEW S, NEW s \in Seq(S), s # <<>>, NEW e \in S, NEW t, t = [s EXCEPT ![Len(s)] = e]
  PROVE  /\ t \in Seq(S) /\ Len(t) = Len(s) /\ t[Len(s)] = e
         /\ \A i \in 1..Len(s) : i # Len(s) => t[i] = s[i]
OBVIOUS

LEMMA PlusFrames ==
  ASSUME NEW frames \in Seq(Frames), frames # <<>>, NEW n \in Nat
  PROVE  LET L == Len(frames)
         IN  /\ Plus(frames, n) \in Seq(Frames) /\ Len(Plus(frames, n)) = L /\ L \in Nat \ {0}
             /\ \A i \in 1..L : i # L => Plus(frames, n)[i] = frames[i]
             /\ Plus(frames, n)[L] \in Frames
             /\ Plus(frames, n)[L].node = frames[L].node
             /\ Plus(frames, n)[L].sum = frames[L].sum + n
             /\ Plus(frames, n)[L].next = frames[L].next + 1
<1> DEFINE L == Len(frames)
           f == frames[L]
           g == [node |-> f.node, sum |-> f.sum + n, next |-> f.next + 1]
<1>1. L \in Nat \ {0} /\ f \in Frames /\ frames \in [1..L -> Frames]
  OBVIOUS
<1> HIDE DEF f
<1>2. g \in Frames /\ g.node = f.node /\ g.sum = f.sum + n /\ g.next = f.next + 1
  BY <1>1 DEF Frames
<1>3. Plus(frames, n) = [frames EXCEPT ![L] = g]
  BY <1>1 DEF Plus, f
<1> HIDE DEF g
<1>4. Plus(frames, n) \in Seq(Frames) /\ Len(Plus(frames, n)) = L /\ Plus(frames, n)[L] = g
      /\ \A i \in 1..L : i # L => Plus(frames, n)[i] = frames[i]
  BY <1>1, <1>2, <1>3, LastChanged
<1> QED BY <1>1, <1>2, <1>4 DEF f

LEMMA ListedChild ==
  ASSUME UsageInv, NEW q \in Run, NEW k \in DOMAIN child_run_ids[q]
  PROVE  Sound(q) => Sound(child_run_ids[q][k])
<1> DEFINE c == child_run_ids[q][k]
<1>1. c \in Run
  <2>1. child_run_ids[q] \in Seq(Run)
    BY DEF UsageInv, UsageTypes
  <2> QED BY <2>1
<1>2. Parent[c] = q /\ q # None
  BY UsageAssumption DEF UsageInv, Listed
<1> HIDE DEF c
<1>3. q \in Lineage(c)
  BY <1>1, <1>2, LineageOfParent
<1>4. Sound(q) => Sound(c)
  BY <1>1, <1>3, SoundBelow
<1> QED BY <1>4 DEF c

\* A frame that visits the next child covers it too.
LEMMA FrameGoesOn ==
  ASSUME UsageInv, NEW q \in Run, NEW k \in DOMAIN child_run_ids[q], NEW sum \in Nat, NEW n \in Nat,
         self_totals[q] + ChildTokens(q, k - 1) <= sum, used[child_run_ids[q][k]] <= n
  PROVE  self_totals[q] + ChildTokens(q, (k + 1) - 1) <= sum + n
<1> DEFINE l == child_run_ids[q]
<1>1. l \in Seq(Run) /\ used \in [Run -> Nat] /\ self_totals[q] \in Nat
  BY DEF UsageInv, UsageTypes
<1>2. k \in 1..Len(l) /\ l[k] \in Run /\ used[l[k]] \in Nat
  BY <1>1
<1> HIDE DEF l
<1>3. ASSUME NEW m \in Nat, m = k - 1 PROVE SumTo(used, l, m + 1) = SumTo(used, l, m) + used[l[m + 1]]
  BY SumSteps
<1>4. k - 1 \in Nat /\ k - 1 \in 0..Len(l) /\ (k - 1) + 1 = k /\ (k + 1) - 1 = k
  BY SMTT(30), <1>1, <1>2
<1>5. SumTo(used, l, k) = SumTo(used, l, k - 1) + used[l[k]]
  BY <1>3, <1>4
<1>6. SumTo(used, l, k - 1) \in Nat
  BY <1>1, <1>4, SumTypes
<1>7. ChildTokens(q, (k + 1) - 1) = SumTo(used, l, k) /\ ChildTokens(q, k - 1) = SumTo(used, l, k - 1)
  BY <1>4 DEF ChildTokens, l
<1>8. self_totals[q] + SumTo(used, l, k - 1) <= sum /\ used[l[k]] <= n
  BY <1>7 DEF l
<1> HIDE DEF ChildTokens
<1>9. ASSUME NEW a \in Nat, NEW b \in Nat, NEW d \in Nat, a + b <= sum, d <= n PROVE a + (b + d) <= sum + n
  BY <1>9
<1>10. self_totals[q] + SumTo(used, l, k) <= sum + n
  BY <1>1, <1>2, <1>5, <1>6, <1>8, <1>9
<1> QED BY <1>7, <1>10

\* What is known of the innermost frame.
LEMMA TopFrame ==
  ASSUME UsageInv, NEW r \in Run, stack[r] # <<>>
  PROVE  /\ stack[r] \in Seq(Frames) /\ Len(stack[r]) \in Nat \ {0} /\ Len(stack[r]) \in DOMAIN stack[r]
         /\ Top(r) \in Frames /\ Top(r).node \in Run /\ Top(r).sum \in Nat /\ Top(r).next \in Nat
         /\ r \in Lineage(Top(r).node) /\ status[r] = "finishing"
         /\ child_run_ids[Top(r).node] \in Seq(Run)
         /\ Top(r).next \in 1..(Len(child_run_ids[Top(r).node]) + 1)
         /\ Sound(Top(r).node) => self_totals[Top(r).node] + ChildTokens(Top(r).node, Top(r).next - 1) <= Top(r).sum
<1>1. stack[r] \in Seq(Frames) /\ Len(stack[r]) \in Nat \ {0} /\ Len(stack[r]) \in DOMAIN stack[r]
  <2>1. stack[r] \in Seq(Frames)
    BY DEF UsageInv, UsageTypes
  <2> QED BY <2>1
<1>2. Top(r) \in Frames /\ Top(r).node \in Run /\ Top(r).sum \in Nat /\ Top(r).next \in Nat
  <2>1. Top(r) \in Frames
    BY <1>1 DEF Top
  <2> QED BY <2>1 DEF Frames
<1>3. /\ r \in Lineage(Top(r).node)
      /\ Top(r).next \in 1..(Len(child_run_ids[Top(r).node]) + 1)
      /\ Sound(Top(r).node) => self_totals[Top(r).node] + ChildTokens(Top(r).node, Top(r).next - 1) <= Top(r).sum
  BY <1>1 DEF UsageInv, FramesCover, Top, Covering
<1>4. status[r] = "finishing"
  BY DEF UsageInv, Finishing
<1>5. child_run_ids[Top(r).node] \in Seq(Run)
  BY <1>2 DEF UsageInv, UsageTypes
<1> QED BY <1>1, <1>2, <1>3, <1>4, <1>5

LEMMA UsageVisitChild ==
  ASSUME UsageInv, NEW r \in Run, VisitChild(r)
  PROVE  UsageInv'
<1> DEFINE fs == stack[r]
           L  == Len(fs)
           q  == Top(r).node
           k  == Top(r).next
           c  == child_run_ids[q][k]
           st == IF inclusive_totals[c] = None THEN Append(fs, Frame(c)) ELSE Plus(fs, inclusive_totals[c])
<1>1. /\ fs # <<>> /\ k \in DOMAIN child_run_ids[q] /\ stack' = [stack EXCEPT ![r] = st]
      /\ UNCHANGED <<status, cached_callers, child_run_ids, self_totals, inclusive_totals, used, due, reported>>
  BY DEF VisitChild, lifecycle, nodes, reports
<1>2. /\ fs \in Seq(Frames) /\ L \in Nat \ {0} /\ L \in DOMAIN fs /\ fs[L] = Top(r)
      /\ Top(r) \in Frames /\ q \in Run /\ Top(r).sum \in Nat /\ k \in Nat
      /\ r \in Lineage(q) /\ status[r] = "finishing" /\ child_run_ids[q] \in Seq(Run)
      /\ Sound(q) => self_totals[q] + ChildTokens(q, k - 1) <= Top(r).sum
  BY <1>1, TopFrame DEF Top
<1>3. /\ c \in Run /\ r \in Lineage(c) /\ (Sound(q) => Sound(c))
  <2>1. c \in Run /\ Parent[c] = q /\ q # None
    BY <1>1, <1>2, UsageAssumption DEF UsageInv, Listed
  <2>2. q \in Lineage(c)
    BY <2>1, LineageOfParent
  <2> QED BY <1>2, <2>1, <2>2, LineageTransitive, SoundBelow
<1>4. /\ \A i \in DOMAIN fs : Covering(r, fs[i])
      /\ fs[1].node = r
      /\ \A i \in 1..(Len(fs) - 1) :
           /\ fs[i].next \in DOMAIN child_run_ids[fs[i].node]
           /\ fs[i + 1].node = child_run_ids[fs[i].node][fs[i].next]
  BY <1>1 DEF UsageInv, FramesCover, FramesNest, Nesting
<1>5. /\ st \in Seq(Frames) /\ st # <<>> /\ st[1].node = r
      /\ \A i \in DOMAIN st : Covering(r, st[i])
      /\ \A i \in 1..(Len(st) - 1) :
           /\ st[i].next \in DOMAIN child_run_ids[st[i].node]
           /\ st[i + 1].node = child_run_ids[st[i].node][st[i].next]
  <2>1. CASE inclusive_totals[c] = None
    <3>1. /\ Frame(c) \in Frames /\ Frame(c).node = c /\ Frame(c).next = 1 /\ Frame(c).sum = self_totals[c]
          /\ self_totals[c] \in Nat
      BY <1>3 DEF Frame, Frames, UsageInv, UsageTypes
    <3>2. st = Append(fs, Frame(c))
      BY <2>1
    <3> HIDE DEF st, c, q, k
    <3>3. /\ st \in Seq(Frames) /\ Len(st) = L + 1 /\ st # <<>> /\ st[L + 1] = Frame(c)
          /\ \A i \in 1..L : st[i] = fs[i]
      BY <1>2, <3>1, <3>2
    <3>4. Covering(r, Frame(c))
      <4>1. SumTo(used, child_run_ids[c], 0) = 0
        BY SumSteps
      <4>2. ChildTokens(c, 1 - 1) = 0
        BY <4>1 DEF ChildTokens
      <4>3. Len(child_run_ids[c]) \in Nat
        BY <1>3 DEF UsageInv, UsageTypes
      <4> QED BY <1>3, <3>1, <4>2, <4>3 DEF Covering
    <3>5. st[1].node = r
      BY <1>2, <1>4, <3>3
    <3>6. ASSUME NEW i \in DOMAIN st
          PROVE  Covering(r, st[i])
      <4>1. i = L + 1 \/ i \in 1..L
        BY <1>2, <3>3
      <4>2. CASE i = L + 1
        BY <3>3, <3>4, <4>2
      <4>3. CASE i \in 1..L
        <5>1. st[i] = fs[i] /\ i \in DOMAIN fs
          BY <1>2, <3>3, <4>3
        <5> QED BY <1>4, <5>1
      <4> QED BY <4>1, <4>2, <4>3
    <3>7. ASSUME NEW i \in 1..(Len(st) - 1)
          PROVE  /\ st[i].next \in DOMAIN child_run_ids[st[i].node]
                 /\ st[i + 1].node = child_run_ids[st[i].node][st[i].next]
      <4>1. i \in 1..L /\ st[i] = fs[i]
        BY <1>2, <3>3
      <4>2. CASE i = L
        BY <1>1, <1>2, <3>1, <3>3, <4>1, <4>2 DEF c, q, k
      <4>3. CASE i # L
        <5>1. i \in 1..(Len(fs) - 1) /\ i + 1 \in 1..L
          BY <1>2, <4>1, <4>3
        <5>2. st[i + 1] = fs[i + 1]
          BY <3>3, <5>1
        <5> QED BY <1>4, <4>1, <5>1, <5>2
      <4> QED BY <4>2, <4>3
    <3> QED BY <3>3, <3>5, <3>6, <3>7
  <2>2. CASE inclusive_totals[c] # None
    <3> DEFINE n == inclusive_totals[c]
    <3>1. n \in Nat /\ (Sound(q) => used[c] <= n)
      BY <1>3, <2>2 DEF UsageInv, UsageTypes, CacheCovers
    <3>2. st = Plus(fs, n)
      BY <2>2
    <3> HIDE DEF st, n
    <3>3. /\ st \in Seq(Frames) /\ Len(st) = L /\ \A i \in 1..L : i # L => st[i] = fs[i]
          /\ st[L].node = q /\ st[L].sum = Top(r).sum + n /\ st[L].next = k + 1
      BY SMTT(30), <1>1, <1>2, <3>1, <3>2, PlusFrames
    <3>4. Sound(q) => self_totals[q] + ChildTokens(q, (k + 1) - 1) <= Top(r).sum + n
      BY <1>1, <1>2, <3>1, FrameGoesOn
    <3>5. k + 1 \in 1..(Len(child_run_ids[q]) + 1)
      BY <1>1, <1>2
    <3> HIDE DEF c, q, k
    <3>6. ASSUME NEW i \in DOMAIN st
          PROVE  Covering(r, st[i])
      <4>1. i \in 1..L
        BY <3>3
      <4>2. CASE i = L
        BY <1>2, <3>3, <3>4, <3>5, <4>2 DEF Covering
      <4>3. CASE i # L
        <5>1. st[i] = fs[i] /\ i \in DOMAIN fs
          BY <1>2, <3>3, <4>1, <4>3
        <5> QED BY <1>4, <5>1
      <4> QED BY <4>2, <4>3
    <3>7. ASSUME NEW i \in 1..(Len(st) - 1)
          PROVE  /\ st[i].next \in DOMAIN child_run_ids[st[i].node]
                 /\ st[i + 1].node = child_run_ids[st[i].node][st[i].next]
      <4>1. i \in 1..(Len(fs) - 1) /\ i \in 1..L /\ i # L /\ i + 1 \in 1..L
        BY <1>2, <3>3
      <4>2. st[i] = fs[i]
        BY <3>3, <4>1
      <4>3. st[i + 1].node = fs[i + 1].node
        <5>1. CASE i + 1 = L
          BY <1>2, <3>3, <5>1 DEF q
        <5>2. CASE i + 1 # L
          BY <3>3, <4>1, <5>2
        <5> QED BY <5>1, <5>2
      <4> QED BY <1>4, <4>1, <4>2, <4>3
    <3>8. st # <<>> /\ st[1].node = r
      <4>1. st # <<>> /\ 1 \in 1..L
        BY <1>2, <3>3
      <4>2. CASE L = 1
        BY <1>2, <1>4, <3>3, <4>2 DEF q
      <4>3. CASE L # 1
        BY <1>4, <3>3, <4>1, <4>3
      <4> QED BY <4>1, <4>2, <4>3
    <3> QED BY <3>3, <3>6, <3>7, <3>8
  <2> QED BY <2>1, <2>2
<1> HIDE DEF st, fs, c, k, q, L
<1>6. FramesCover' /\ FramesNest' /\ stack' \in [Run -> Seq(Frames)] /\ ListCovers'
  <2>1. UNCHANGED <<child_run_ids, self_totals, used, cached_callers>>
    BY <1>1
  <2>2. stack' = [stack EXCEPT ![r] = st]
    BY <1>1
  <2>3. (\A i \in DOMAIN st : Covering(r, st[i])) /\ Nesting(r, st) /\ st \in Seq(Frames)
    BY <1>5 DEF Nesting
  <2> QED BY <2>1, <2>2, <2>3, StackChanges
<1>9. \A n \in Run : Sound(n)' = Sound(n)
  BY <1>1 DEF Sound, Lineage
<1>7. UsageTypes' /\ ParentsWait' /\ Listed' /\ CacheCovers'
  BY <1>1, <1>6, <1>9 DEF UsageInv, UsageTypes, ParentsWait, Waits, Listed, CacheCovers, Active
<1>8. Finishing'
  <2>1. stack'[r] = st /\ \A x \in Run : x # r => stack'[x] = stack[x]
    BY <1>1 DEF UsageInv, UsageTypes
  <2> QED BY <1>1, <1>2, <1>5, <1>9, <2>1 DEF UsageInv, Finishing
<1> QED BY <1>6, <1>7, <1>8 DEF UsageInv

\* The frame around the innermost one takes its sum.
LEMMA FrameReturns ==
  ASSUME UsageInv, NEW r \in Run, NEW fs, fs = stack[r], NEW b, b = SubSeq(fs, 1, Len(fs) - 1), b # <<>>,
         NEW sum \in Nat, Sound(fs[Len(fs)].node) => used[fs[Len(fs)].node] <= sum, NEW st, st = Plus(b, sum)
  PROVE  st \in Seq(Frames) /\ st # <<>> /\ (\A i \in DOMAIN st : Covering(r, st[i])) /\ Nesting(r, st)
<1> DEFINE M == Len(b)
<1>1. fs \in Seq(Frames) /\ b \in Seq(Frames) /\ M \in Nat \ {0} /\ Len(fs) = M + 1 /\ \A i \in 1..M : b[i] = fs[i]
  <2>1. fs \in Seq(Frames)
    BY DEF UsageInv, UsageTypes
  <2> QED BY <2>1
<1>2. b[M] = fs[M] /\ fs[M] \in Frames /\ fs # <<>> /\ M \in DOMAIN fs /\ M \in 1..(Len(fs) - 1) /\ M + 1 = Len(fs)
  BY <1>1
<1>3. (\A i \in DOMAIN fs : Covering(r, fs[i])) /\ Nesting(r, fs)
  BY DEF UsageInv, FramesCover, FramesNest
<1> DEFINE q == fs[M].node
           k == fs[M].next
<1>4. q \in Run /\ fs[M].sum \in Nat
  BY <1>2 DEF Frames
<1>5. k \in DOMAIN child_run_ids[q] /\ fs[M + 1].node = child_run_ids[q][k] /\ child_run_ids[q] \in Seq(Run)
  BY <1>2, <1>3, <1>4 DEF Nesting, UsageInv, UsageTypes
<1>6. r \in Lineage(q) /\ (Sound(q) => self_totals[q] + ChildTokens(q, k - 1) <= fs[M].sum)
  BY <1>2, <1>3 DEF Covering
<1>7. Sound(q) => used[child_run_ids[q][k]] <= sum
  <2>3. Sound(q) => Sound(child_run_ids[q][k])
    BY <1>4, <1>5, ListedChild
  <2> QED BY <1>2, <1>5, <2>3
<1>8. Sound(q) => self_totals[q] + ChildTokens(q, (k + 1) - 1) <= fs[M].sum + sum
  BY <1>4, <1>5, <1>6, <1>7, FrameGoesOn
<1>9. k + 1 \in 1..(Len(child_run_ids[q]) + 1)
  BY SMTT(30), <1>5
<1>10. /\ st \in Seq(Frames) /\ Len(st) = M /\ \A i \in 1..M : i # M => st[i] = b[i]
       /\ st[M].node = q /\ st[M].sum = fs[M].sum + sum /\ st[M].next = k + 1
  <2>1. /\ Plus(b, sum) \in Seq(Frames) /\ Len(Plus(b, sum)) = Len(b)
        /\ \A i \in 1..Len(b) : i # Len(b) => Plus(b, sum)[i] = b[i]
        /\ Plus(b, sum)[Len(b)].node = b[Len(b)].node
        /\ Plus(b, sum)[Len(b)].sum = b[Len(b)].sum + sum
        /\ Plus(b, sum)[Len(b)].next = b[Len(b)].next + 1
    <3>1. b \in Seq(Frames)
      BY <1>1
    <3> HIDE DEF M
    <3> QED BY <3>1, PlusFrames
  <2>2. b[Len(b)] = fs[Len(b)]
    BY <1>2
  <2> QED BY <2>1, <2>2
<1> HIDE DEF q, k, M
<1>11. ASSUME NEW i \in DOMAIN st PROVE Covering(r, st[i])
  <2>1. i \in 1..M
    BY <1>10
  <2>2. CASE i = M
    BY <1>6, <1>8, <1>9, <1>10, <2>2 DEF Covering
  <2>3. CASE i # M
    <3>1. st[i] = fs[i] /\ i \in DOMAIN fs
      BY <1>1, <1>10, <2>1, <2>3
    <3> QED BY <1>3, <3>1
  <2> QED BY <2>2, <2>3
<1>12. ASSUME NEW i \in 1..(Len(st) - 1)
       PROVE  /\ st[i].next \in DOMAIN child_run_ids[st[i].node]
              /\ st[i + 1].node = child_run_ids[st[i].node][st[i].next]
  <2>1. i \in 1..(Len(fs) - 1) /\ i \in 1..M /\ i # M /\ i + 1 \in 1..M
    <3>1. i \in 1..(M - 1) /\ M \in Nat /\ Len(fs) - 1 = M
      BY <1>1, <1>10
    <3> QED BY <3>1
  <2>2. st[i] = fs[i]
    BY <1>1, <1>10, <2>1
  <2>3. st[i + 1].node = fs[i + 1].node
    <3>1. CASE i + 1 = M
      BY <1>10, <3>1 DEF q
    <3>2. CASE i + 1 # M
      BY <1>1, <1>10, <2>1, <3>2
    <3> QED BY <3>1, <3>2
  <2> QED BY <1>2, <1>3, <2>1, <2>2, <2>3 DEF Nesting
<1>13. st # <<>> /\ st[1].node = r
  <2>1. st # <<>> /\ 1 \in 1..M /\ fs[1].node = r
    BY <1>1, <1>2, <1>3, <1>10 DEF Nesting
  <2>2. CASE M = 1
    BY <1>10, <2>1, <2>2 DEF q
  <2>3. CASE M # 1
    <3>1. st[1] = b[1] /\ b[1] = fs[1]
      BY <1>1, <1>10, <2>1, <2>3
    <3> QED BY <2>1, <3>1
  <2> QED BY <2>1, <2>2, <2>3
<1> QED BY <1>10, <1>11, <1>12, <1>13 DEF Nesting

LEMMA UsageCloseFrame ==
  ASSUME UsageInv, NEW r \in Run, CloseFrame(r)
  PROVE  UsageInv'
<1> DEFINE fs   == stack[r]
           q    == Top(r).node
           sum  == Top(r).sum
           last == Below(r) = <<>>
           st   == IF last THEN <<>> ELSE Plus(Below(r), sum)
           s    == IF last THEN "reported" ELSE "finishing"
<1>1. /\ fs # <<>> /\ Top(r).next \notin DOMAIN child_run_ids[q]
      /\ inclusive_totals' = [inclusive_totals EXCEPT ![q] = sum] /\ stack' = [stack EXCEPT ![r] = st]
      /\ reported' = [reported EXCEPT ![r] = IF last THEN sum ELSE @]
      /\ status' = [status EXCEPT ![r] = IF last THEN "reported" ELSE @]
      /\ UNCHANGED <<cached_callers, child_run_ids, self_totals, used, due>>
  BY DEF CloseFrame
<1>2. /\ fs \in Seq(Frames) /\ Len(fs) \in Nat \ {0} /\ q \in Run /\ sum \in Nat /\ fs[Len(fs)] = Top(r)
      /\ r \in Lineage(q) /\ status[r] = "finishing" /\ child_run_ids[q] \in Seq(Run)
      /\ Top(r).next \in 1..(Len(child_run_ids[q]) + 1)
      /\ Sound(q) => self_totals[q] + ChildTokens(q, Top(r).next - 1) <= sum
  BY <1>1, TopFrame DEF Top
<1>3. Sound(q) => used[q] <= sum
  <2> SUFFICES ASSUME Sound(q) PROVE used[q] <= sum
    OBVIOUS
  <2>1. Top(r).next = Len(child_run_ids[q]) + 1 /\ Len(child_run_ids[q]) \in Nat
    BY <1>1, <1>2
  <2>2. Top(r).next - 1 = Len(child_run_ids[q])
    BY <2>1
  <2>3. self_totals[q] + ChildTokens(q, Len(child_run_ids[q])) <= sum
    BY <1>2, <2>2
  <2>4. used[q] <= self_totals[q] + ChildTokens(q, Len(child_run_ids[q]))
    BY <1>2 DEF UsageInv, ListCovers
  <2>5. used[q] \in Nat /\ self_totals[q] \in Nat /\ ChildTokens(q, Len(child_run_ids[q])) \in Nat
    BY <1>2, ListSum DEF UsageInv, UsageTypes, ChildTokens
  <2> QED BY <1>2, <2>3, <2>4, <2>5
<1>4. last => q = r
  <2> SUFFICES ASSUME last PROVE q = r
    OBVIOUS
  <2>1. Len(fs) = 1
    <3>1. Len(Below(r)) = Len(fs) - 1
      BY <1>2 DEF Below
    <3>2. Len(Below(r)) = 0
      OBVIOUS
    <3> QED BY <1>2, <3>1, <3>2
  <2>2. fs[1].node = r
    BY <1>1 DEF UsageInv, FramesNest, Nesting
  <2> QED BY <1>2, <2>1, <2>2
<1>5. st \in Seq(Frames) /\ (\A i \in DOMAIN st : Covering(r, st[i])) /\ Nesting(r, st) /\ (st = <<>> <=> last)
  <2>1. CASE last
    BY <2>1 DEF Nesting
  <2>2. CASE ~last
    <3>1. st = Plus(Below(r), sum) /\ Below(r) = SubSeq(fs, 1, Len(fs) - 1)
          /\ (Sound(fs[Len(fs)].node) => used[fs[Len(fs)].node] <= sum)
      BY <1>2, <1>3, <2>2 DEF Below
    <3>2. Below(r) # <<>>
      BY <2>2
    <3> HIDE DEF st
    <3> QED BY <1>2, <2>2, <3>1, <3>2, FrameReturns
  <2> QED BY <2>1, <2>2
<1>6. s \in {"reported", "finishing"} /\ (last <=> s = "reported") /\ status' = [status EXCEPT ![r] = s]
      /\ reported' = [reported EXCEPT ![r] = IF s = "reported" THEN sum ELSE @]
  BY <1>1, <1>2
<1> HIDE DEF st, s, last, q, sum, fs
<1>7. FramesCover' /\ FramesNest' /\ stack' \in [Run -> Seq(Frames)] /\ ListCovers'
  <2>1. UNCHANGED <<child_run_ids, self_totals, used, cached_callers>>
    BY <1>1
  <2>2. stack' = [stack EXCEPT ![r] = st]
    BY <1>1
  <2> QED BY <1>5, <2>1, <2>2, StackChanges
<1>8. ParentsWait' /\ Listed'
  <2>1. \A c \in Run : Parent[c] = r => ~Active(c)
    BY <1>2, NotRunning
  <2>2. Active(r)
    BY <1>2 DEF Active
  <2>3. status[q] # "running"
    BY <1>2, QuietBelow DEF UsageInv
  <2>4. \A x \in Run : Waits(x) /\ x # r => Waits(x)'
    BY <1>1, <1>2, <1>6, <2>3 DEF Waits, UsageInv, UsageTypes
  <2> QED BY <1>1, <1>6, <2>1, <2>2, <2>4, StatusChanges
<1>12. \A n \in Run : Sound(n)' = Sound(n)
  BY <1>1 DEF Sound, Lineage
<1>9. UsageTypes'
  <2>1. inclusive_totals' \in [Run -> Nat \cup {None}]
    BY <1>1, <1>2 DEF UsageInv, UsageTypes
  <2>2. status' \in [Run -> {"idle", "running", "finishing", "reported", "done"}]
    BY <1>6 DEF UsageInv, UsageTypes
  <2>3. reported' \in [Run -> Int]
    BY <1>2, <1>6 DEF UsageInv, UsageTypes
  <2> QED BY <1>1, <1>7, <2>1, <2>2, <2>3 DEF UsageInv, UsageTypes
<1>10. CacheCovers'
  <2>1. \A x \in Run : x # q => inclusive_totals'[x] = inclusive_totals[x]
    BY <1>1, <1>6 DEF UsageInv, UsageTypes
  <2>2. inclusive_totals'[q] = sum
    BY <1>1, <1>2 DEF UsageInv, UsageTypes
  <2> QED BY <1>1, <1>3, <1>12, <2>1, <2>2 DEF UsageInv, CacheCovers
<1>11. Finishing'
  <2> SUFFICES ASSUME NEW x \in Run
               PROVE  /\ stack'[x] # <<>> => status'[x] = "finishing"
                      /\ status'[x] = "finishing" /\ stack'[x] = <<>> => inclusive_totals'[x] # None
                      /\ status'[x] \in {"finishing", "reported"} => due[x] = used[x]
                      /\ status'[x] = "reported" /\ Sound(x) => used[x] <= reported'[x]
    BY <1>1, <1>12 DEF Finishing
  <2>1. CASE x = r
    <3>1. stack'[r] = st /\ status'[r] = s /\ (s = "reported" => reported'[r] = sum) /\ due[r] = used[r]
      BY <1>1, <1>2, <1>6 DEF UsageInv, UsageTypes, Finishing
    <3> QED BY <1>3, <1>4, <1>5, <1>6, <2>1, <3>1
  <2>2. CASE x # r
    <3>1. stack'[x] = stack[x] /\ status'[x] = status[x] /\ reported'[x] = reported[x]
      BY <1>1, <1>6, <2>2 DEF UsageInv, UsageTypes
    <3>2. inclusive_totals[x] # None => inclusive_totals'[x] # None
      BY <1>1, <1>2, UsageAssumption DEF UsageInv, UsageTypes
    <3> QED BY <3>1, <3>2 DEF UsageInv, Finishing
  <2> QED BY <2>1, <2>2
<1> QED BY <1>7, <1>8, <1>9, <1>10, <1>11 DEF UsageInv

LEMMA UsageInitially ==
  UsageInit => UsageInv
<1> SUFFICES ASSUME UsageInit PROVE UsageInv
  OBVIOUS
<1>1. UsageTypes
  <2>1. child_run_ids \in [Run -> Seq(Run)] /\ stack \in [Run -> Seq(Frames)]
    BY DEF UsageInit
  <2>2. inclusive_totals \in [Run -> Nat \cup {None}] /\ reported \in [Run -> Int]
    BY DEF UsageInit
  <2> QED BY <2>1, <2>2 DEF UsageInit, UsageTypes
<1>2. ParentsWait /\ Listed /\ CacheCovers /\ FramesNest /\ Finishing
  BY UsageAssumption DEF UsageInit, ParentsWait, Listed, CacheCovers, FramesNest, Nesting, Finishing, Active
<1>3. FramesCover
  BY DEF UsageInit, FramesCover
<1>4. ListCovers
  <2> SUFFICES ASSUME NEW r \in Run PROVE used[r] <= self_totals[r] + ChildTokens(r, Len(child_run_ids[r]))
    BY DEF ListCovers
  <2>1. SumTo(used, child_run_ids[r], 0) = 0
    BY SumSteps
  <2>2. used[r] = 0 /\ self_totals[r] = 0 /\ child_run_ids[r] = <<>>
    BY DEF UsageInit
  <2> QED BY <2>1, <2>2 DEF ChildTokens
<1> QED BY <1>1, <1>2, <1>3, <1>4 DEF UsageInv

\* If no batch is left behind, the cached totals, and the sums finish_run computes, cover
\* what was used, below any run none of whose subtree called a child with its own total
\* cached: the invariant the next theorem rests on.
THEOREM UsageInvariance ==
  ASSUME ~Orphans
  PROVE  UsageSpec => []UsageInv
<1>1. ASSUME UsageInv, [UsageNext]_usage_vars PROVE UsageInv'
  <2>1. ASSUME NEW r \in Run, StartRun(r) PROVE UsageInv'
    BY <1>1, <2>1, UsageStart
  <2>2. ASSUME NEW r \in Run, RecordUsage(r) PROVE UsageInv'
    BY <1>1, <2>2, UsageRecorded
  <2>3. ASSUME NEW r \in Run, AddToSession(r) PROVE UsageInv'
    BY <1>1, <2>3, SameUsage DEF AddToSession, lifecycle, nodes, reports
  <2>4. ASSUME NEW r \in Run, BeginFinish(r) PROVE UsageInv'
    BY <1>1, <2>4, UsageBeginFinish
  <2>5. ASSUME NEW r \in Run, VisitChild(r) PROVE UsageInv'
    BY <1>1, <2>5, UsageVisitChild
  <2>6. ASSUME NEW r \in Run, CloseFrame(r) PROVE UsageInv'
    BY <1>1, <2>6, UsageCloseFrame
  <2>7. ASSUME NEW r \in Run, ReportCached(r) PROVE UsageInv'
    BY <1>1, <2>7, UsageReportCached
  <2>8. ASSUME NEW r \in Run, Leave(r) PROVE UsageInv'
    BY <1>1, <2>8, UsageLeave
  <2>9. CASE UNCHANGED usage_vars
    BY <1>1, <2>9, SameUsage DEF usage_vars, lifecycle, nodes, reports
  <2> QED BY <1>1, <2>1, <2>2, <2>3, <2>4, <2>5, <2>6, <2>7, <2>8, <2>9 DEF UsageNext
<1> QED BY <1>1, UsageInitially, PTL DEF UsageSpec

\* finish_run's usage_inclusive covers the run and everything below it that was used before
\* the call, for any tree of runs, however often they are started.
THEOREM InclusiveCovers ==
  ASSUME ~Orphans
  PROVE  UsageSpec => []InclusiveCoversDescendants
<1>1. UsageInv => InclusiveCoversDescendants
  <2> SUFFICES ASSUME UsageInv, NEW r \in Run, status[r] = "reported", Descendants(r) \cap cached_callers = {}
               PROVE  reported[r] >= due[r]
    BY DEF InclusiveCoversDescendants
  <2>2. Sound(r)
    BY DEF Sound, Descendants
  <2>1. due[r] = used[r] /\ used[r] <= reported[r] /\ used[r] \in Nat /\ reported[r] \in Int
    BY <2>2 DEF UsageInv, UsageTypes, Finishing
  <2> QED BY <2>1
<1> QED BY <1>1, UsageInvariance, PTL

(***************************************************************************)
(* UsageTracking: nothing is counted twice, by any agents and with batches *)
(* that are left behind.                                                   *)
(***************************************************************************)

-----------------------------------------------------------------------------
(* Sums over a set of runs *)

SomeOf(s) == CHOOSE x \in s : TRUE

\* f gives for each subset of S what u sums up to.
SumTerm(f, u, s)   == IF s = {} THEN 0 ELSE u[SomeOf(s)] + f[s \ {SomeOf(s)}]
Totals(f, u, S)    == f = [s \in SUBSET S |-> SumTerm(f, u, s)]
UpTo(S, n)         == {s \in SUBSET S : Cardinality(s) <= n}

LEMMA SomeLeaves ==
  ASSUME NEW S, IsFiniteSet(S), NEW s \in SUBSET S
  PROVE  /\ Cardinality(s) \in Nat /\ (Cardinality(s) = 0 <=> s = {})
         /\ s # {} => /\ SomeOf(s) \in s /\ s \ {SomeOf(s)} \in SUBSET S
                      /\ Cardinality(s \ {SomeOf(s)}) = Cardinality(s) - 1
<1>1. IsFiniteSet(s)
  BY FS_Subset
<1>2. s # {} => SomeOf(s) \in s
  BY DEF SomeOf
<1>3. Cardinality(s) \in Nat /\ (Cardinality(s) = 0 <=> s = {})
  BY <1>1, FS_CardinalityType, FS_EmptySet
<1>4. SomeOf(s) \in s => Cardinality(s \ {SomeOf(s)}) = Cardinality(s) - 1
  BY <1>1, FS_RemoveElement
<1> QED BY <1>2, <1>3, <1>4

LEMMA SomeTotalsExist ==
  ASSUME NEW u, NEW S, IsFiniteSet(S)
  PROVE  \A n \in Nat : \E f : f = [s \in UpTo(S, n) |-> SumTerm(f, u, s)]
<1> DEFINE B == {n \in Nat : \E f : f = [s \in UpTo(S, n) |-> SumTerm(f, u, s)]}
<1>1. 0 \in B
  <2>1. ASSUME NEW t \in UpTo(S, 0) PROVE t = {}
    <3>1. t \in SUBSET S /\ Cardinality(t) <= 0
      BY DEF UpTo
    <3>2. Cardinality(t) \in Nat /\ (Cardinality(t) = 0 <=> t = {})
      BY <3>1, SomeLeaves
    <3> QED BY <3>1, <3>2
  <2>2. \A f : SumTerm(f, u, {}) = 0
    BY DEF SumTerm
  <2> DEFINE f == [s \in UpTo(S, 0) |-> 0]
  <2>3. \A s \in UpTo(S, 0) : f[s] = SumTerm(f, u, s)
    BY <2>1, <2>2
  <2>4. f = [s \in UpTo(S, 0) |-> f[s]]
    OBVIOUS
  <2> HIDE DEF f
  <2>5. f = [s \in UpTo(S, 0) |-> SumTerm(f, u, s)]
    BY <2>3, <2>4
  <2> QED BY <2>5
<1>2. ASSUME NEW n \in Nat, n \in B PROVE n + 1 \in B
  <2>1. PICK f : f = [s \in UpTo(S, n) |-> SumTerm(f, u, s)]
    BY <1>2
  <2> DEFINE g == [s \in UpTo(S, n + 1) |-> IF s \in UpTo(S, n) THEN f[s] ELSE SumTerm(f, u, s)]
  <2>2. ASSUME NEW s \in UpTo(S, n + 1) PROVE g[s] = SumTerm(g, u, s)
    <3>1. g[s] = SumTerm(f, u, s)
      <4>1. CASE s \in UpTo(S, n)
        <5>1. f[s] = SumTerm(f, u, s)
          BY <2>1, <4>1
        <5> QED BY <4>1, <5>1
      <4>2. CASE s \notin UpTo(S, n)
        BY <4>2
      <4> QED BY <4>1, <4>2
    <3>2. CASE s = {}
      BY <3>1, <3>2 DEF SumTerm
    <3>3. CASE s # {}
      <4>1. PICK t : t = s \ {SomeOf(s)}
        OBVIOUS
      <4>2. s \in SUBSET S /\ Cardinality(s) <= n + 1
        BY DEF UpTo
      <4>3. t \in SUBSET S /\ Cardinality(t) \in Nat /\ Cardinality(t) = Cardinality(s) - 1 /\ Cardinality(s) \in Nat
        BY <3>3, <4>1, <4>2, SomeLeaves
      <4>4. t \in UpTo(S, n) /\ t \in UpTo(S, n + 1)
        BY <4>2, <4>3 DEF UpTo
      <4>5. g[t] = f[t]
        BY <4>4
      <4> HIDE DEF g
      <4> QED BY <3>1, <3>3, <4>1, <4>5 DEF SumTerm
    <3> QED BY <3>2, <3>3
  <2>3. g = [s \in UpTo(S, n + 1) |-> g[s]]
    OBVIOUS
  <2> HIDE DEF g
  <2>4. g = [s \in UpTo(S, n + 1) |-> SumTerm(g, u, s)]
    BY <2>2, <2>3
  <2> QED BY <2>4
<1>3. Nat \subseteq B
  <2> HIDE DEF B
  <2> QED BY <1>1, <1>2, Inductive
<1> QED BY <1>3

LEMMA TotalsExist ==
  ASSUME NEW u, NEW S, IsFiniteSet(S)
  PROVE  \E f : Totals(f, u, S)
<1>1. PICK n \in Nat : n = Cardinality(S)
  BY FS_CardinalityType
<1>2. UpTo(S, n) = SUBSET S
  BY <1>1, FS_Subset DEF UpTo
<1>3. PICK f : f = [s \in UpTo(S, n) |-> SumTerm(f, u, s)]
  BY SomeTotalsExist
<1> QED BY <1>2, <1>3 DEF Totals

LEMMA TokensAre ==
  ASSUME IsFiniteSet(Run)
  PROVE  \E f : Totals(f, self_totals, Run) /\ Tokens(Run) = f[Run]
<1> DEFINE h == CHOOSE f : Totals(f, self_totals, Run)
<1>1. Totals(h, self_totals, Run)
  BY TotalsExist
<1>2. Tokens(Run) = h[Run]
  BY DEF Totals, SumTerm, SomeOf, Tokens, MapThenSumSet, MapThenFoldSet
<1> QED BY <1>1, <1>2

\* One more, or none, of an entry is one more, or none, in the sum.
LEMMA TotalsGrow ==
  ASSUME NEW S, IsFiniteSet(S), NEW u \in [S -> Nat], NEW v, NEW more \in {0, 1}, NEW r \in S,
         \A x \in S : v[x] = u[x] + IF x = r THEN more ELSE 0,
         NEW f, NEW g, Totals(f, u, S), Totals(g, v, S)
  PROVE  f[S] \in Nat /\ g[S] = f[S] + more
<1> DEFINE P(s) == f[s] \in Nat /\ g[s] = f[s] + IF r \in s THEN more ELSE 0
           B == {n \in Nat : \A s \in SUBSET S : Cardinality(s) = n => P(s)}
<1>0. \A s \in SUBSET S : f[s] = SumTerm(f, u, s) /\ g[s] = SumTerm(g, v, s)
  BY DEF Totals
<1>9. \A s \in SUBSET S : Cardinality(s) = 0 <=> s = {}
  BY SomeLeaves
<1>1. 0 \in B
  <2> SUFFICES ASSUME NEW s \in SUBSET S, Cardinality(s) = 0 PROVE P(s)
    OBVIOUS
  <2>1. s = {}
    BY <1>9
  <2>2. f[s] = 0 /\ g[s] = 0
    BY <1>0, <2>1 DEF SumTerm
  <2> QED BY <2>1, <2>2
<1>2. ASSUME NEW n \in Nat, n \in B PROVE n + 1 \in B
  <2> SUFFICES ASSUME NEW s \in SUBSET S, Cardinality(s) = n + 1 PROVE P(s)
    OBVIOUS
  <2>1. s # {}
    BY <1>9
  <2>2. PICK x, t : x = SomeOf(s) /\ t = s \ {x}
    OBVIOUS
  <2>3. x \in s /\ x \in S /\ t \in SUBSET S /\ Cardinality(t) = n
    <3>1. x \in s /\ t \in SUBSET S /\ Cardinality(t) = Cardinality(s) - 1
      BY <2>1, <2>2, SomeLeaves
    <3>2. Cardinality(t) = n
      BY <3>1
    <3> QED BY <3>1, <3>2
  <2>5. P(t)
    BY <1>2, <2>3
  <2>6. f[s] = u[x] + f[t] /\ g[s] = v[x] + g[t]
    BY <1>0, <2>1, <2>2 DEF SumTerm
  <2>7. u[x] \in Nat /\ v[x] = u[x] + IF x = r THEN more ELSE 0
    BY <2>3
  <2>8. r \in s <=> x = r \/ r \in t
    BY <2>2, <2>3
  <2>9. ~ (x = r /\ r \in t)
    BY <2>2
  <2> QED BY <2>5, <2>6, <2>7, <2>8, <2>9
<1>3. Nat \subseteq B
  <2> HIDE DEF B
  <2> QED BY <1>1, <1>2, Inductive
<1>4. P(S)
  <2>1. S \in SUBSET S /\ Cardinality(S) \in Nat
    BY FS_CardinalityType
  <2>2. Cardinality(S) \in B
    BY <1>3, <2>1
  <2> QED BY <2>1, <2>2
<1> QED BY <1>4

\* The tokens of all runs stay what they are, or are one more.
LEMMA TokensGrow ==
  ASSUME IsFiniteSet(Run), self_totals \in [Run -> Nat], NEW r \in Run, NEW more \in {0, 1},
         \A x \in Run : self_totals'[x] = self_totals[x] + IF x = r THEN more ELSE 0
  PROVE  Tokens(Run) \in Nat /\ Tokens(Run)' = Tokens(Run) + more
<1>1. PICK f : Totals(f, self_totals, Run) /\ Tokens(Run) = f[Run]
  BY TokensAre
<1>2. PICK g : Totals(g, self_totals', Run) /\ Tokens(Run)' = g[Run]
  <2> DEFINE h == CHOOSE g : Totals(g, self_totals', Run)
  <2>1. Totals(h, self_totals', Run)
    BY TotalsExist
  <2>2. Tokens(Run)' = h[Run]
    BY DEF Totals, SumTerm, SomeOf, Tokens, MapThenSumSet, MapThenFoldSet
  <2> QED BY <2>1, <2>2
<1> QED BY <1>1, <1>2, TotalsGrow

SessionInv ==
  /\ self_totals \in [Run -> Nat] /\ _session_totals \in Nat /\ adding \in [Run -> Nat \cup {None}]
  /\ _session_totals <= Tokens(Run)
  /\ \A r \in Run : adding[r] # None => adding[r] + 1 <= Tokens(Run)

LEMMA SessionStart ==
  ASSUME IsFiniteSet(Run), UsageInit
  PROVE  SessionInv
<1>1. self_totals \in [Run -> Nat] /\ \A x \in Run : self_totals[x] = 0
  BY DEF UsageInit
<1>2. PICK f : Totals(f, self_totals, Run) /\ Tokens(Run) = f[Run]
  BY TokensAre
<1>3. f[Run] \in Nat
  <2>1. CASE Run = {}
    <3>1. f[{}] = SumTerm(f, self_totals, {})
      BY <1>2, <2>1 DEF Totals
    <3> QED BY <2>1, <3>1 DEF SumTerm
  <2>2. CASE Run # {}
    <3>1. PICK r : r \in Run
      BY <2>2
    <3>2. \A x \in Run : self_totals[x] = self_totals[x] + IF x = r THEN 0 ELSE 0
      BY <1>1
    <3> QED BY <1>1, <1>2, <3>1, <3>2, TotalsGrow
  <2> QED BY <2>1, <2>2
<1> QED BY <1>1, <1>2, <1>3 DEF UsageInit, SessionInv

LEMMA SessionSteps ==
  ASSUME IsFiniteSet(Run), SessionInv, [UsageNext]_usage_vars
  PROVE  SessionInv'
<1>1. ASSUME UNCHANGED <<self_totals, _session_totals, adding>> PROVE SessionInv'
  <2>1. CASE Run = {}
    <3>1. Tokens(Run)' = Tokens(Run)
      BY <1>1 DEF Tokens, MapThenSumSet, MapThenFoldSet
    <3> QED BY <1>1, <3>1 DEF SessionInv
  <2>2. CASE Run # {}
    <3>1. PICK r : r \in Run
      BY <2>2
    <3>2. \A x \in Run : self_totals[x] \in Nat /\ self_totals'[x] = self_totals[x]
      BY <1>1 DEF SessionInv
    <3>3. \A x \in Run : self_totals'[x] = self_totals[x] + IF x = r THEN 0 ELSE 0
      BY <3>2
    <3>4. Tokens(Run)' = Tokens(Run) + 0 /\ Tokens(Run) \in Nat
      BY <3>1, <3>3, TokensGrow DEF SessionInv
    <3>5. Tokens(Run)' = Tokens(Run)
      BY <3>4
    <3> QED BY <1>1, <3>5 DEF SessionInv
  <2> QED BY <2>1, <2>2
<1>2. ASSUME NEW r \in Run, RecordUsage(r) PROVE SessionInv'
  <2>1. /\ self_totals' = [self_totals EXCEPT ![r] = @ + 1] /\ adding' = [adding EXCEPT ![r] = _session_totals]
        /\ _session_totals' = _session_totals
    BY <1>2 DEF RecordUsage
  <2>2. \A x \in Run : self_totals[x] \in Nat /\ self_totals'[x] = self_totals[x] + IF x = r THEN 1 ELSE 0
    BY <2>1 DEF SessionInv
  <2>3. Tokens(Run)' = Tokens(Run) + 1 /\ Tokens(Run) \in Nat
    BY <2>2, TokensGrow DEF SessionInv
  <2>4. self_totals' \in [Run -> Nat] /\ adding' \in [Run -> Nat \cup {None}] /\ _session_totals' \in Nat
    BY <2>1, <2>2 DEF SessionInv
  <2>5. ASSUME NEW x \in Run, adding'[x] # None PROVE adding'[x] + 1 <= Tokens(Run) + 1
    <3>1. _session_totals \in Nat /\ _session_totals <= Tokens(Run) /\ adding[x] \in Nat \cup {None}
          /\ (adding[x] # None => adding[x] + 1 <= Tokens(Run))
      BY DEF SessionInv
    <3>2. adding'[x] = IF x = r THEN _session_totals ELSE adding[x]
      BY <2>1 DEF SessionInv
    <3> QED BY <2>3, <2>5, <3>1, <3>2
  <2>6. _session_totals' <= Tokens(Run) + 1
    BY <2>1, <2>3 DEF SessionInv
  <2> QED BY <2>3, <2>4, <2>5, <2>6 DEF SessionInv
<1>3. ASSUME NEW r \in Run, AddToSession(r) PROVE SessionInv'
  <2>1. /\ adding[r] # None /\ _session_totals' = adding[r] + 1 /\ adding' = [adding EXCEPT ![r] = None]
        /\ self_totals' = self_totals
    BY <1>3 DEF AddToSession, Added, nodes
  <2>2. \A x \in Run : self_totals[x] \in Nat /\ self_totals'[x] = self_totals[x] + IF x = r THEN 0 ELSE 0
    BY <2>1 DEF SessionInv
  <2>3. Tokens(Run)' = Tokens(Run) + 0 /\ Tokens(Run) \in Nat
    BY <2>2, TokensGrow DEF SessionInv
  <2>4. Tokens(Run)' = Tokens(Run)
    BY <2>3
  <2>5. _session_totals' \in Nat /\ _session_totals' <= Tokens(Run)
    BY <2>1 DEF SessionInv
  <2>6. adding' \in [Run -> Nat \cup {None}] /\ \A x \in Run : adding'[x] # None => adding'[x] = adding[x]
    BY <2>1 DEF SessionInv
  <2> QED BY <2>1, <2>4, <2>5, <2>6 DEF SessionInv
<1>4. ASSUME NEW r \in Run,
             \/ StartRun(r) \/ BeginFinish(r) \/ VisitChild(r) \/ CloseFrame(r) \/ ReportCached(r) \/ Leave(r)
      PROVE  SessionInv'
  BY <1>1, <1>4 DEF StartRun, BeginFinish, VisitChild, CloseFrame, ReportCached, Leave, nodes
<1>5. CASE UNCHANGED usage_vars
  BY <1>1, <1>5 DEF usage_vars, nodes
<1> QED BY <1>2, <1>3, <1>4, <1>5 DEF UsageNext

-----------------------------------------------------------------------------
(* The sums of finish_run are not too great *)

\* A run that was started has a parent that was, and is not above it.
Rooted ==
  \A c \in Run : status[c] # "idle" /\ Parent[c] # None =>
    status[Parent[c]] # "idle" /\ c \notin Lineage(Parent[c])
ListedOnce ==
  \A r \in Run : \A i, j \in DOMAIN child_run_ids[r] :
    /\ status[child_run_ids[r][i]] # "idle"
    /\ child_run_ids[r][i] = child_run_ids[r][j] => i = j
IdleUnused == \A r \in Run : status[r] = "idle" => used[r] = 0

\* The other half of ListCovers, CacheCovers and Covering.
ListAdds  == \A r \in Run : self_totals[r] + ChildTokens(r, Len(child_run_ids[r])) <= used[r]
CacheAdds == \A r \in Run : inclusive_totals[r] # None => inclusive_totals[r] <= used[r]
Adding(f) ==
  /\ f.next \in 1..(Len(child_run_ids[f.node]) + 1)
  /\ f.sum <= self_totals[f.node] + ChildTokens(f.node, f.next - 1)
FramesAdd == \A r \in Run : \A i \in DOMAIN stack[r] : Adding(stack[r][i])
ReportsAdd ==
  \A r \in Run :
    /\ stack[r] # <<>> => status[r] = "finishing"
    /\ status[r] = "finishing" /\ stack[r] = <<>> => inclusive_totals[r] # None
    /\ reported[r] <= used[r]

CountInv ==
  /\ UsageTypes /\ Rooted /\ Listed /\ ListedOnce /\ IdleUnused
  /\ ListAdds /\ CacheAdds /\ FramesAdd /\ FramesNest /\ ReportsAdd

\* The runs above a run are a chain.
LEMMA LineageIsChain ==
  ASSUME NEW r \in Run, NEW a \in Lineage(r), NEW b \in Lineage(r)
  PROVE  a \in Lineage(b) \/ b \in Lineage(a)
<1> DEFINE S == {x \in Lineage(r) : a \in Lineage(x) \/ x \in Lineage(a)}
<1>1. a \in Run /\ S \in SUBSET Run /\ r \in S
  BY LineageOf
<1>2. ASSUME NEW x \in S, Parent[x] # None PROVE Parent[x] \in S
  <2>1. x \in Run /\ Parent[x] \in Lineage(r)
    BY <1>2, LineageOf
  <2>2. CASE x \in Lineage(a)
    BY <1>1, <1>2, <2>1, <2>2, LineageOf
  <2>3. CASE a \in Lineage(x) /\ x # a
    <3>1. PICK c \in Lineage(x) : Parent[c] = a
      BY <2>1, <2>3, LineageOf
    <3>2. a \in Lineage(Parent[x])
      <4> DEFINE U == {x} \cup Lineage(Parent[x])
      <4>1. Parent[x] \in Run
        BY <1>2, <2>1, LineageOfParent
      <4>2. U \in SUBSET Run /\ x \in U /\ \A y \in U : Parent[y] # None => Parent[y] \in U
        BY <2>1, <4>1, LineageOf
      <4>3. a \in U
        BY <2>3, <4>2 DEF Lineage
      <4> QED BY <2>3, <4>3
    <3> QED BY <2>1, <3>2
  <2>4. CASE x = a
    BY <1>1, <2>1, <2>4, <1>2, LineageOfParent
  <2> QED BY <2>2, <2>3, <2>4
<1>3. b \in S
  BY <1>1, <1>2 DEF Lineage
<1> QED BY <1>3

\* So at most one child of a run is above, or is, the same run.
LEMMA OneChildAbove ==
  ASSUME Rooted, NEW r \in Run, NEW a \in Lineage(r), NEW b \in Lineage(r),
         status[a] # "idle", status[b] # "idle", Parent[a] # None, Parent[a] = Parent[b]
  PROVE  a = b
<1> SUFFICES ASSUME a # b PROVE FALSE
  OBVIOUS
<1>1. a \in Run /\ b \in Run
  BY LineageOf
<1>2. ASSUME NEW x \in Run, NEW y \in Run, x # y, x \in Lineage(y), Parent[y] # None PROVE x \in Lineage(Parent[y])
  <2> DEFINE U == {y} \cup Lineage(Parent[y])
  <2>1. Parent[y] \in Run
    BY <1>2, LineageOfParent
  <2>2. U \in SUBSET Run /\ y \in U /\ \A z \in U : Parent[z] # None => Parent[z] \in U
    BY <2>1, LineageOf
  <2>3. x \in U
    BY <1>2, <2>2 DEF Lineage
  <2> QED BY <1>2, <2>3
<1>3. a \in Lineage(Parent[b]) \/ b \in Lineage(Parent[a])
  BY <1>1, <1>2, LineageIsChain
<1> QED BY <1>1, <1>3 DEF Rooted

LEMMA BothMore ==
  ASSUME NEW a \in Nat, NEW b \in Nat, NEW c \in Nat, NEW d \in Nat,
         (b <= a + 1 /\ c = d) \/ (b = a /\ d <= c + 1)
  PROVE  b + d <= (a + c) + 1
OBVIOUS

\* A sum in which one entry is one more is at most one more.
LEMMA SumOneMore ==
  ASSUME NEW R, NEW u \in [R -> Nat], NEW v \in [R -> Nat], NEW l \in Seq(R),
         \A x \in R : v[x] <= u[x] + 1,
         \A i, j \in 1..Len(l) : u[l[i]] # v[l[i]] /\ u[l[j]] # v[l[j]] => i = j
  PROVE  \A m \in 0..Len(l) : SumTo(v, l, m) <= SumTo(u, l, m) + 1
<1> DEFINE B == {m \in Nat : m <= Len(l) => SumTo(v, l, m) <= SumTo(u, l, m) + 1}
<1>1. 0 \in B
  BY SumSteps
<1>2. ASSUME NEW n \in Nat, n \in B PROVE n + 1 \in B
  <2> SUFFICES ASSUME n + 1 <= Len(l) PROVE SumTo(v, l, n + 1) <= SumTo(u, l, n + 1) + 1
    OBVIOUS
  <2>1. l[n + 1] \in R /\ n \in 0..Len(l) /\ n <= Len(l) /\ n + 1 \in 1..Len(l)
    OBVIOUS
  <2>2. /\ u[l[n + 1]] \in Nat /\ v[l[n + 1]] \in Nat /\ v[l[n + 1]] <= u[l[n + 1]] + 1
        /\ SumTo(u, l, n) \in Nat /\ SumTo(v, l, n) \in Nat /\ SumTo(v, l, n) <= SumTo(u, l, n) + 1
    BY <1>2, <2>1, SumTypes
  <2>3. /\ SumTo(u, l, n + 1) = SumTo(u, l, n) + u[l[n + 1]]
        /\ SumTo(v, l, n + 1) = SumTo(v, l, n) + v[l[n + 1]]
    BY SumSteps
  <2>4. CASE u[l[n + 1]] = v[l[n + 1]]
    BY SMTT(30), <2>2, <2>3, <2>4, BothMore
  <2>5. CASE u[l[n + 1]] # v[l[n + 1]]
    <3>1. \A i \in 1..n : u[l[i]] = v[l[i]]
      <4> SUFFICES ASSUME NEW i \in 1..n, u[l[i]] # v[l[i]] PROVE FALSE
        OBVIOUS
      <4>1. i \in 1..Len(l) /\ i # n + 1
        BY <2>1
      <4> QED BY <2>1, <2>5, <4>1
    <3>2. SumTo(u, l, n) = SumTo(v, l, n)
      <4>1. n \in Nat /\ n <= Len(l) /\ \A i \in 1..n : u[l[i]] = v[l[i]]
        BY <2>1, <3>1
      <4> QED BY <4>1, SumSame
    <3> QED BY SMTT(30), <2>2, <2>3, <3>2, BothMore
  <2> QED BY <2>4, <2>5
<1>3. Nat \subseteq B
  <2> HIDE DEF B
  <2> QED BY <1>1, <1>2, Inductive
<1> QED BY <1>3

\* Frames stay sound as lists go on and counts grow.
LEMMA FramesStayAdding ==
  ASSUME CountInv, UsageTypes', UNCHANGED stack,
         \A n \in Run :
           /\ self_totals[n] <= self_totals'[n] /\ used[n] <= used'[n]
           /\ Len(child_run_ids[n]) <= Len(child_run_ids'[n])
           /\ \A i \in DOMAIN child_run_ids[n] : child_run_ids'[n][i] = child_run_ids[n][i]
  PROVE  FramesAdd' /\ FramesNest'
<1>1. ASSUME NEW r \in Run, NEW i \in DOMAIN stack[r] PROVE Adding(stack[r][i])'
  <2>1. stack[r] \in Seq(Frames) /\ Adding(stack[r][i])
    BY DEF CountInv, UsageTypes, FramesAdd
  <2>2. PICK f \in Frames : f = stack[r][i]
    BY <2>1
  <2>a. f.node \in Run /\ f.next \in 1..(Len(child_run_ids[f.node]) + 1)
    BY <2>1, <2>2 DEF Adding, Frames
  <2>b. child_run_ids[f.node] \in Seq(Run)
    BY <2>a DEF CountInv, UsageTypes
  <2>c. f.next - 1 \in Nat /\ f.next - 1 <= Len(child_run_ids[f.node]) /\ f.next = (f.next - 1) + 1
    BY <2>a, <2>b
  <2>3. PICK n \in Run, k \in Nat : n = f.node /\ k = f.next - 1 /\ k <= Len(child_run_ids[n]) /\ f.next = k + 1
    BY <2>a, <2>c
  <2>4. PICK l \in Seq(Run), t \in Seq(Run) : l = child_run_ids[n] /\ t = child_run_ids'[n]
    BY DEF CountInv, UsageTypes
  <2>5. /\ k <= Len(l) /\ Len(l) <= Len(t) /\ \A j \in 1..k : l[j] = t[j]
        /\ k \in 0..Len(l) /\ k \in 0..Len(t)
    BY <2>3, <2>4
  <2>6. used \in [Run -> Nat] /\ used' \in [Run -> Nat] /\ self_totals[n] \in Nat /\ self_totals'[n] \in Nat
    BY DEF CountInv, UsageTypes
  <2>7. SumTo(used, l, k) = SumTo(used, t, k)
    BY <2>5, <2>6, SumPrefix
  <2>8. SumTo(used, t, k) <= SumTo(used', t, k) /\ SumTo(used, t, k) \in Nat /\ SumTo(used', t, k) \in Nat
    BY <2>5, <2>6, SumGrows, SumTypes
  <2>9. f.sum \in Nat /\ f.sum <= self_totals[n] + SumTo(used, l, k)
    BY <2>1, <2>2, <2>3, <2>4 DEF Adding, ChildTokens, Frames
  <2>10. f.sum <= self_totals'[n] + SumTo(used', t, k)
    BY <2>6, <2>7, <2>8, <2>9
  <2>11. f.next \in 1..(Len(t) + 1)
    BY <2>3, <2>5
  <2> QED BY <2>2, <2>3, <2>4, <2>10, <2>11 DEF Adding, ChildTokens
<1>2. FramesAdd'
  BY <1>1 DEF FramesAdd
<1>3. FramesNest'
  <2> SUFFICES ASSUME NEW r \in Run, stack[r] # <<>>
               PROVE  /\ stack[r][1].node = r
                      /\ \A i \in 1..(Len(stack[r]) - 1) :
                           /\ stack[r][i].next \in DOMAIN child_run_ids'[stack[r][i].node]
                           /\ stack[r][i + 1].node = child_run_ids'[stack[r][i].node][stack[r][i].next]
    BY DEF FramesNest, Nesting
  <2>1. stack[r] \in Seq(Frames)
    BY DEF CountInv, UsageTypes
  <2>2. /\ stack[r][1].node = r
        /\ \A i \in 1..(Len(stack[r]) - 1) :
             /\ stack[r][i].next \in DOMAIN child_run_ids[stack[r][i].node]
             /\ stack[r][i + 1].node = child_run_ids[stack[r][i].node][stack[r][i].next]
    BY DEF CountInv, FramesNest, Nesting
  <2>3. ASSUME NEW i \in 1..(Len(stack[r]) - 1)
        PROVE  /\ stack[r][i].next \in DOMAIN child_run_ids'[stack[r][i].node]
               /\ stack[r][i + 1].node = child_run_ids'[stack[r][i].node][stack[r][i].next]
    <3>1. stack[r][i] \in Frames
      BY <2>1
    <3>2. PICK n \in Run, k \in Nat : n = stack[r][i].node /\ k = stack[r][i].next
      BY <3>1 DEF Frames
    <3>3. k \in DOMAIN child_run_ids[n] /\ stack[r][i + 1].node = child_run_ids[n][k]
      BY <2>2, <3>2
    <3>4. k \in DOMAIN child_run_ids'[n] /\ child_run_ids'[n][k] = child_run_ids[n][k]
      <4>1. child_run_ids[n] \in Seq(Run) /\ child_run_ids'[n] \in Seq(Run)
        BY DEF CountInv, UsageTypes
      <4>2. Len(child_run_ids[n]) <= Len(child_run_ids'[n])
        OBVIOUS
      <4> QED BY <3>3, <4>1, <4>2
    <3> QED BY <3>2, <3>3, <3>4
  <2> QED BY <2>2, <2>3
<1> QED BY <1>2, <1>3


\* The stack of one run changes, what frames add up does not.
LEMMA StackAdds ==
  ASSUME CountInv, NEW r \in Run, NEW st \in Seq(Frames), stack' = [stack EXCEPT ![r] = st],
         UNCHANGED <<child_run_ids, self_totals, used>>,
         \A i \in DOMAIN st : Adding(st[i]), Nesting(r, st)
  PROVE  FramesAdd' /\ FramesNest' /\ stack' \in [Run -> Seq(Frames)] /\ ListAdds'
<1>1. stack' \in [Run -> Seq(Frames)] /\ stack'[r] = st /\ \A q \in Run : q # r => stack'[q] = stack[q]
  BY DEF CountInv, UsageTypes
<1>2. \A n, k : ChildTokens(n, k)' = ChildTokens(n, k)
  BY DEF ChildTokens
<1>3. FramesAdd'
  BY <1>1, <1>2 DEF CountInv, FramesAdd, Adding
<1>4. FramesNest'
  BY <1>1 DEF CountInv, FramesNest, Nesting
<1>5. ListAdds'
  BY <1>2 DEF CountInv, ListAdds
<1> QED BY <1>1, <1>3, <1>4, <1>5

LEMMA AddingGoesOn ==
  ASSUME UsageTypes, NEW q \in Run, NEW k \in DOMAIN child_run_ids[q], NEW sum \in Nat, NEW n \in Nat,
         sum <= self_totals[q] + ChildTokens(q, k - 1), n <= used[child_run_ids[q][k]]
  PROVE  sum + n <= self_totals[q] + ChildTokens(q, (k + 1) - 1)
<1> DEFINE l == child_run_ids[q]
<1>1. l \in Seq(Run) /\ used \in [Run -> Nat] /\ self_totals[q] \in Nat
  BY DEF UsageTypes
<1>2. k \in 1..Len(l) /\ l[k] \in Run /\ used[l[k]] \in Nat
  BY <1>1
<1> HIDE DEF l
<1>3. ASSUME NEW m \in Nat, m = k - 1 PROVE SumTo(used, l, m + 1) = SumTo(used, l, m) + used[l[m + 1]]
  BY SumSteps
<1>4. k - 1 \in Nat /\ k - 1 \in 0..Len(l) /\ (k - 1) + 1 = k /\ (k + 1) - 1 = k
  BY <1>1, <1>2
<1>5. SumTo(used, l, k) = SumTo(used, l, k - 1) + used[l[k]]
  BY <1>3, <1>4
<1>6. SumTo(used, l, k - 1) \in Nat
  BY <1>1, <1>4, SumTypes
<1>7. ChildTokens(q, (k + 1) - 1) = SumTo(used, l, k) /\ ChildTokens(q, k - 1) = SumTo(used, l, k - 1)
  BY <1>4 DEF ChildTokens, l
<1>8. sum <= self_totals[q] + SumTo(used, l, k - 1) /\ n <= used[l[k]]
  BY <1>7 DEF l
<1> HIDE DEF ChildTokens
<1>9. ASSUME NEW a \in Nat, NEW b \in Nat, NEW d \in Nat, sum <= a + b, n <= d PROVE sum + n <= a + (b + d)
  BY <1>9
<1>10. sum + n <= self_totals[q] + SumTo(used, l, k)
  BY <1>1, <1>2, <1>5, <1>6, <1>8, <1>9
<1> QED BY <1>7, <1>10

\* The innermost frame takes what a child has used at most.
LEMMA FrameAdds ==
  ASSUME UsageTypes, NEW r \in Run, NEW fs \in Seq(Frames), fs # <<>>, Nesting(r, fs),
         \A i \in DOMAIN fs : Adding(fs[i]),
         fs[Len(fs)].next \in DOMAIN child_run_ids[fs[Len(fs)].node],
         NEW n \in Nat, n <= used[child_run_ids[fs[Len(fs)].node][fs[Len(fs)].next]],
         NEW st, st = Plus(fs, n)
  PROVE  st \in Seq(Frames) /\ st # <<>> /\ (\A i \in DOMAIN st : Adding(st[i])) /\ Nesting(r, st)
<1> DEFINE L == Len(fs)
           q == fs[L].node
           k == fs[L].next
<1>1. L \in Nat \ {0} /\ L \in DOMAIN fs /\ fs[L] \in Frames
  OBVIOUS
<1>2. q \in Run /\ fs[L].sum \in Nat /\ k \in Nat
  BY <1>1 DEF Frames
<1>3. child_run_ids[q] \in Seq(Run) /\ k \in DOMAIN child_run_ids[q]
  BY <1>2 DEF UsageTypes
<1>4. fs[L].sum <= self_totals[q] + ChildTokens(q, k - 1)
  BY <1>1 DEF Adding
<1>5. fs[L].sum + n <= self_totals[q] + ChildTokens(q, (k + 1) - 1)
  BY <1>2, <1>3, <1>4, AddingGoesOn
<1>6. k + 1 \in 1..(Len(child_run_ids[q]) + 1)
  BY <1>3
<1>7. /\ st \in Seq(Frames) /\ Len(st) = L /\ \A i \in 1..L : i # L => st[i] = fs[i]
      /\ st[L].node = q /\ st[L].sum = fs[L].sum + n /\ st[L].next = k + 1
  BY PlusFrames
<1>8. /\ fs[1].node = r
      /\ \A i \in 1..(Len(fs) - 1) :
           /\ fs[i].next \in DOMAIN child_run_ids[fs[i].node]
           /\ fs[i + 1].node = child_run_ids[fs[i].node][fs[i].next]
  BY DEF Nesting
<1> HIDE DEF q, k
<1>9. ASSUME NEW i \in DOMAIN st PROVE Adding(st[i])
  <2>1. i \in 1..L
    BY <1>7
  <2>2. CASE i = L
    BY <1>5, <1>6, <1>7, <2>2 DEF Adding
  <2>3. CASE i # L
    <3>1. st[i] = fs[i] /\ i \in DOMAIN fs
      BY <1>7, <2>1, <2>3
    <3> QED BY <3>1
  <2> QED BY <2>2, <2>3
<1>10. ASSUME NEW i \in 1..(Len(st) - 1)
       PROVE  /\ st[i].next \in DOMAIN child_run_ids[st[i].node]
              /\ st[i + 1].node = child_run_ids[st[i].node][st[i].next]
  <2>1. i \in 1..(Len(fs) - 1) /\ i \in 1..L /\ i # L /\ i + 1 \in 1..L
    BY <1>1, <1>7
  <2>2. st[i] = fs[i]
    BY <1>7, <2>1
  <2>3. st[i + 1].node = fs[i + 1].node
    <3>1. CASE i + 1 = L
      BY <1>7, <3>1 DEF q
    <3>2. CASE i + 1 # L
      BY <1>7, <2>1, <3>2
    <3> QED BY <3>1, <3>2
  <2> QED BY <1>8, <2>1, <2>2, <2>3
<1>11. st # <<>> /\ st[1].node = r
  <2>1. st # <<>> /\ 1 \in 1..L
    BY <1>1, <1>7
  <2>2. CASE L = 1
    BY <1>7, <1>8, <2>2 DEF q
  <2>3. CASE L # 1
    BY <1>7, <1>8, <2>1, <2>3
  <2> QED BY <2>2, <2>3
<1> QED BY <1>7, <1>9, <1>10, <1>11 DEF Nesting

\* A frame of its own for a child.
LEMMA FramePushed ==
  ASSUME UsageTypes, NEW r \in Run, NEW fs \in Seq(Frames), fs # <<>>, Nesting(r, fs),
         \A i \in DOMAIN fs : Adding(fs[i]), NEW c \in Run,
         fs[Len(fs)].next \in DOMAIN child_run_ids[fs[Len(fs)].node],
         c = child_run_ids[fs[Len(fs)].node][fs[Len(fs)].next],
         NEW st, st = Append(fs, Frame(c))
  PROVE  st \in Seq(Frames) /\ st # <<>> /\ (\A i \in DOMAIN st : Adding(st[i])) /\ Nesting(r, st)
<1> DEFINE L == Len(fs)
<1>1. L \in Nat \ {0} /\ L \in DOMAIN fs
  OBVIOUS
<1>2. /\ Frame(c) \in Frames /\ Frame(c).node = c /\ Frame(c).next = 1 /\ Frame(c).sum = self_totals[c]
      /\ self_totals[c] \in Nat
  BY DEF Frame, Frames, UsageTypes
<1>3. /\ st \in Seq(Frames) /\ Len(st) = L + 1 /\ st # <<>> /\ st[L + 1] = Frame(c)
      /\ \A i \in 1..L : st[i] = fs[i]
  BY <1>2
<1>4. Adding(Frame(c))
  <2>1. SumTo(used, child_run_ids[c], 0) = 0
    BY SumSteps
  <2>2. ChildTokens(c, 1 - 1) = 0
    BY <2>1 DEF ChildTokens
  <2>3. Len(child_run_ids[c]) \in Nat
    BY DEF UsageTypes
  <2> QED BY <1>2, <2>2, <2>3 DEF Adding
<1>5. /\ fs[1].node = r
      /\ \A i \in 1..(Len(fs) - 1) :
           /\ fs[i].next \in DOMAIN child_run_ids[fs[i].node]
           /\ fs[i + 1].node = child_run_ids[fs[i].node][fs[i].next]
  BY DEF Nesting
<1>6. st[1].node = r
  BY <1>1, <1>3, <1>5
<1>7. ASSUME NEW i \in DOMAIN st PROVE Adding(st[i])
  <2>1. i = L + 1 \/ i \in 1..L
    BY <1>1, <1>3
  <2>2. CASE i = L + 1
    BY <1>3, <1>4, <2>2
  <2>3. CASE i \in 1..L
    <3>1. st[i] = fs[i] /\ i \in DOMAIN fs
      BY <1>3, <2>3
    <3> QED BY <3>1
  <2> QED BY <2>1, <2>2, <2>3
<1>8. ASSUME NEW i \in 1..(Len(st) - 1)
      PROVE  /\ st[i].next \in DOMAIN child_run_ids[st[i].node]
             /\ st[i + 1].node = child_run_ids[st[i].node][st[i].next]
  <2>1. i \in 1..L /\ st[i] = fs[i]
    BY <1>1, <1>3
  <2>2. CASE i = L
    BY <1>2, <1>3, <2>1, <2>2
  <2>3. CASE i # L
    <3>1. i \in 1..(Len(fs) - 1) /\ i + 1 \in 1..L
      BY <1>1, <2>1, <2>3
    <3>2. st[i + 1] = fs[i + 1]
      BY <1>3, <3>1
    <3> QED BY <1>5, <2>1, <3>1, <3>2
  <2> QED BY <2>2, <2>3
<1> QED BY <1>3, <1>6, <1>7, <1>8 DEF Nesting

LEMMA CountStart ==
  ASSUME CountInv, NEW r \in Run, StartRun(r)
  PROVE  CountInv'
<1> DEFINE p == Parent[r]
<1>1. /\ status[r] \in {"idle", "done"}
      /\ p # None => status[p] = "running" /\ p \in Run
      /\ p = None => p \notin Run
      /\ status' = [status EXCEPT ![r] = "running"]
      /\ child_run_ids' = [q \in Run |-> IF q = p THEN WithChild(child_run_ids[q], r) ELSE child_run_ids[q]]
      /\ UNCHANGED <<self_totals, inclusive_totals, stack, used, due, reported>>
  BY UsageAssumption DEF StartRun, reports
<1>2. ASSUME NEW q \in Run
      PROVE  /\ child_run_ids'[q] \in Seq(Run)
             /\ \/ child_run_ids'[q] = child_run_ids[q]
                \/ /\ q = p /\ child_run_ids'[q] = Append(child_run_ids[q], r)
                   /\ \A i \in DOMAIN child_run_ids[q] : child_run_ids[q][i] # r
             /\ q = p => \E i \in DOMAIN child_run_ids'[q] : child_run_ids'[q][i] = r
  <2>1. child_run_ids[q] \in Seq(Run)
    BY DEF CountInv, UsageTypes
  <2>2. CASE q = p
    <3>1. child_run_ids'[q] = WithChild(child_run_ids[q], r)
      BY <1>1, <2>2
    <3>2. CASE \E i \in DOMAIN child_run_ids[q] : child_run_ids[q][i] = r
      BY <2>1, <3>1, <3>2 DEF WithChild
    <3>3. CASE ~ \E i \in DOMAIN child_run_ids[q] : child_run_ids[q][i] = r
      <4>1. child_run_ids'[q] = Append(child_run_ids[q], r)
        BY <3>1, <3>3 DEF WithChild
      <4>2. Append(child_run_ids[q], r)[Len(child_run_ids[q]) + 1] = r
            /\ Len(child_run_ids[q]) + 1 \in DOMAIN Append(child_run_ids[q], r)
        BY <2>1
      <4> QED BY <2>1, <2>2, <3>3, <4>1, <4>2
    <3> QED BY <3>2, <3>3
  <2>3. CASE q # p
    BY <1>1, <2>1, <2>3
  <2> QED BY <2>2, <2>3
<1>3. ASSUME NEW q \in Run
      PROVE  /\ Len(child_run_ids[q]) <= Len(child_run_ids'[q])
             /\ \A i \in DOMAIN child_run_ids[q] :
                  i \in DOMAIN child_run_ids'[q] /\ child_run_ids'[q][i] = child_run_ids[q][i]
  <2>1. child_run_ids[q] \in Seq(Run)
    BY DEF CountInv, UsageTypes
  <2>2. CASE child_run_ids'[q] = child_run_ids[q]
    BY <2>1, <2>2
  <2>3. CASE child_run_ids'[q] = Append(child_run_ids[q], r)
    BY <2>1, <2>3
  <2> QED BY <1>2, <2>2, <2>3
<1>4. UsageTypes'
  <2>1. child_run_ids' \in [Run -> Seq(Run)]
    BY <1>1, <1>2
  <2> QED BY <1>1, <2>1 DEF CountInv, UsageTypes
<1>5. status' = [x \in Run |-> IF x = r THEN "running" ELSE status[x]]
  BY <1>1 DEF CountInv, UsageTypes
<1>6. Rooted'
  <2> SUFFICES ASSUME NEW c \in Run, status'[c] # "idle", Parent[c] # None
               PROVE  status'[Parent[c]] # "idle" /\ c \notin Lineage(Parent[c])
    BY DEF Rooted, Lineage
  <2>1. CASE status[c] # "idle"
    <3>1. status[Parent[c]] # "idle" /\ c \notin Lineage(Parent[c]) /\ Parent[c] \in Run
      BY <2>1, LineageOfParent DEF CountInv, Rooted
    <3> QED BY <1>5, <3>1
  <2>2. CASE status[c] = "idle"
    <3>1. c = r
      BY <1>5, <2>2
    <3> DEFINE S == {x \in Run : status[x] # "idle"}
    <3>2. p \in S /\ S \in SUBSET Run
      BY <1>1, <3>1
    <3>3. \A x \in S : Parent[x] # None => Parent[x] \in S
      BY LineageOfParent DEF CountInv, Rooted
    <3>4. Lineage(p) \subseteq S
      BY <3>2, <3>3 DEF Lineage
    <3>5. c \notin S
      BY <2>2
    <3> QED BY <1>1, <1>5, <3>1, <3>4, <3>5
  <2> QED BY <2>1, <2>2
<1>7. Listed'
  <2>1. ASSUME NEW c \in Run, status'[c] # "idle", Parent[c] # None
        PROVE  \E i \in DOMAIN child_run_ids'[Parent[c]] : child_run_ids'[Parent[c]][i] = c
    <3>1. Parent[c] \in Run
      BY <2>1, LineageOfParent
    <3>2. CASE c = r
      BY <1>2, <3>1, <3>2
    <3>3. CASE c # r
      <4>1. status[c] # "idle"
        BY <1>5, <2>1, <3>3
      <4>2. PICK i \in DOMAIN child_run_ids[Parent[c]] : child_run_ids[Parent[c]][i] = c
        BY <2>1, <4>1 DEF CountInv, Listed
      <4> QED BY <1>3, <3>1, <4>2
    <3> QED BY <3>2, <3>3
  <2>2. ASSUME NEW q \in Run, NEW i \in DOMAIN child_run_ids'[q] PROVE Parent[child_run_ids'[q][i]] = q
    <3>1. child_run_ids[q] \in Seq(Run)
      BY DEF CountInv, UsageTypes
    <3>2. CASE child_run_ids'[q] = child_run_ids[q]
      BY <2>2, <3>2 DEF CountInv, Listed
    <3>3. CASE q = p /\ child_run_ids'[q] = Append(child_run_ids[q], r)
      <4>1. i \in DOMAIN child_run_ids[q] \/ child_run_ids'[q][i] = r
        BY <2>2, <3>1, <3>3
      <4> QED BY <1>3, <3>3, <4>1 DEF CountInv, Listed
    <3> QED BY <1>2, <3>2, <3>3
  <2> QED BY <2>1, <2>2 DEF Listed
<1>8. ListedOnce'
  <2> SUFFICES ASSUME NEW q \in Run, NEW i \in DOMAIN child_run_ids'[q], NEW j \in DOMAIN child_run_ids'[q]
               PROVE  /\ status'[child_run_ids'[q][i]] # "idle"
                      /\ child_run_ids'[q][i] = child_run_ids'[q][j] => i = j
    BY DEF ListedOnce
  <2>1. child_run_ids[q] \in Seq(Run)
    BY DEF CountInv, UsageTypes
  <2>2. \A m, n \in DOMAIN child_run_ids[q] :
          /\ child_run_ids[q][m] \in Run /\ status[child_run_ids[q][m]] # "idle"
          /\ child_run_ids[q][m] = child_run_ids[q][n] => m = n
    BY <2>1 DEF CountInv, ListedOnce
  <2>3. CASE child_run_ids'[q] = child_run_ids[q]
    BY <1>5, <2>2, <2>3
  <2>4. CASE /\ child_run_ids'[q] = Append(child_run_ids[q], r)
             /\ \A m \in DOMAIN child_run_ids[q] : child_run_ids[q][m] # r
    <3>1. \A m \in DOMAIN child_run_ids'[q] :
            \/ m \in DOMAIN child_run_ids[q] /\ child_run_ids'[q][m] = child_run_ids[q][m]
            \/ m = Len(child_run_ids[q]) + 1 /\ child_run_ids'[q][m] = r
      BY <2>1, <2>4
    <3> QED BY <1>5, <2>2, <2>4, <3>1
  <2> QED BY <1>2, <2>3, <2>4
<1>9. IdleUnused'
  BY <1>1, <1>5 DEF CountInv, IdleUnused
<1>10. ListAdds'
  <2> SUFFICES ASSUME NEW q \in Run
               PROVE  self_totals[q] + SumTo(used, child_run_ids'[q], Len(child_run_ids'[q])) <= used[q]
    BY <1>1 DEF ListAdds, ChildTokens
  <2> DEFINE l == child_run_ids[q]
             n == Len(l)
             t == child_run_ids'[q]
  <2>1. /\ l \in Seq(Run) /\ t \in Seq(Run) /\ used \in [Run -> Nat] /\ self_totals[q] \in Nat
        /\ self_totals[q] + SumTo(used, l, n) <= used[q]
    BY <1>2 DEF CountInv, UsageTypes, ListAdds, ChildTokens
  <2>2. CASE t = l
    BY <2>1, <2>2
  <2>3. CASE q = p /\ t = Append(l, r) /\ \A i \in DOMAIN l : l[i] # r
    <3>1. status[r] = "idle"
      <4>1. p # None
        BY <1>1, <2>3
      <4>2. status[r] # "idle" => \E i \in DOMAIN l : l[i] = r
        BY <2>3, <4>1 DEF CountInv, Listed
      <4> QED BY <2>3, <4>2
    <3>2. used[r] = 0
      BY <3>1 DEF CountInv, IdleUnused
    <3>3. n \in Nat /\ n <= Len(l) /\ Len(t) = n + 1 /\ t[n + 1] = r /\ n <= Len(t) /\ \A i \in 1..n : l[i] = t[i]
      BY <2>1, <2>3
    <3> HIDE DEF l, n, t
    <3>4. SumTo(used, l, n) = SumTo(used, t, n)
      BY <2>1, <3>3, SumPrefix
    <3>5. SumTo(used, t, n + 1) = SumTo(used, t, n) + used[t[n + 1]]
      BY <3>3, SumSteps
    <3>6. SumTo(used, t, n) \in Nat
      <4>1. n \in 0..Len(t)
        BY <3>3
      <4> QED BY <2>1, <4>1, SumTypes
    <3>7. SumTo(used, t, Len(t)) = SumTo(used, l, n)
      BY <3>2, <3>3, <3>4, <3>5, <3>6
    <3> QED BY <2>1, <3>7 DEF t
  <2> QED BY <1>2, <2>2, <2>3
<1>11. CacheAdds'
  BY <1>1 DEF CountInv, CacheAdds
<1>12. FramesAdd' /\ FramesNest'
  <2>1. \A q \in Run : self_totals[q] \in Nat /\ used[q] \in Nat
    BY DEF CountInv, UsageTypes
  <2> QED BY <1>1, <1>3, <1>4, <2>1, FramesStayAdding
<1>13. ReportsAdd'
  <2>1. stack[r] = <<>>
    BY <1>1 DEF CountInv, ReportsAdd
  <2> QED BY <1>1, <1>5, <2>1 DEF CountInv, ReportsAdd
<1> QED BY <1>4, <1>6, <1>7, <1>8, <1>9, <1>10, <1>11, <1>12, <1>13 DEF CountInv

LEMMA CountRecorded ==
  ASSUME CountInv, NEW r \in Run, RecordUsage(r)
  PROVE  CountInv'
<1>1. /\ status[r] = "running"
      /\ self_totals' = [self_totals EXCEPT ![r] = @ + 1]
      /\ inclusive_totals' = [inclusive_totals EXCEPT ![r] = None]
      /\ used' = [q \in Run |-> IF q \in Lineage(r) THEN used[q] + 1 ELSE used[q]]
      /\ UNCHANGED <<status, child_run_ids, stack, due, reported>>
  BY DEF RecordUsage, Free, AfterUsage
<1>2. UsageTypes'
  <2>1. \A q \in Run : used[q] \in Nat /\ self_totals[q] \in Nat
    BY DEF CountInv, UsageTypes
  <2>2. used' \in [Run -> Nat]
    BY <1>1, <2>1
  <2>3. self_totals' \in [Run -> Nat] /\ inclusive_totals' \in [Run -> Nat \cup {None}]
    BY <1>1, <2>1 DEF CountInv, UsageTypes
  <2> QED BY <1>1, <2>2, <2>3 DEF CountInv, UsageTypes
<1>3. ASSUME NEW q \in Run
      PROVE  /\ used[q] \in Nat /\ used'[q] \in Nat /\ used[q] <= used'[q] /\ used'[q] <= used[q] + 1
             /\ q \in Lineage(r) => used'[q] = used[q] + 1
             /\ q \notin Lineage(r) => used'[q] = used[q]
             /\ self_totals[q] \in Nat /\ self_totals'[q] = IF q = r THEN self_totals[q] + 1 ELSE self_totals[q]
  <2>1. used[q] \in Nat
    BY DEF CountInv, UsageTypes
  <2>2. used'[q] = IF q \in Lineage(r) THEN used[q] + 1 ELSE used[q]
    BY <1>1
  <2>5. self_totals[q] \in Nat /\ self_totals'[q] = IF q = r THEN self_totals[q] + 1 ELSE self_totals[q]
    BY <1>1 DEF CountInv, UsageTypes
  <2>3. CASE q \in Lineage(r)
    BY <2>1, <2>2, <2>3, <2>5
  <2>4. CASE q \notin Lineage(r)
    BY <2>1, <2>2, <2>4, <2>5
  <2> QED BY <2>3, <2>4
<1>4. Rooted' /\ Listed' /\ ListedOnce'
  <2>1. Rooted'
    BY <1>1 DEF CountInv, Rooted, Lineage
  <2> QED BY <1>1, <2>1 DEF CountInv, Listed, ListedOnce
<1>5. IdleUnused'
  <2> DEFINE S == {x \in Run : status[x] # "idle"}
  <2>1. r \in S /\ S \in SUBSET Run /\ \A x \in S : Parent[x] # None => Parent[x] \in S
    BY <1>1, LineageOfParent DEF CountInv, Rooted
  <2>2. Lineage(r) \subseteq S
    BY <2>1 DEF Lineage
  <2> QED BY <1>1, <1>3, <2>2 DEF CountInv, IdleUnused
<1>6. ListAdds'
  <2> SUFFICES ASSUME NEW q \in Run
               PROVE  self_totals'[q] + SumTo(used', child_run_ids[q], Len(child_run_ids[q])) <= used'[q]
    BY <1>1 DEF ListAdds, ChildTokens
  <2> DEFINE l == child_run_ids[q]
             n == Len(l)
  <2>1. l \in Seq(Run) /\ n \in 0..Len(l) /\ n \in Nat /\ n <= Len(l) /\ used \in [Run -> Nat] /\ used' \in [Run -> Nat]
    <3>1. l \in Seq(Run) /\ used \in [Run -> Nat] /\ used' \in [Run -> Nat]
      BY <1>2 DEF CountInv, UsageTypes
    <3> QED BY <3>1
  <2>2. self_totals[q] + SumTo(used, l, n) <= used[q]
    BY DEF CountInv, ListAdds, ChildTokens
  <2>3. SumTo(used, l, n) \in Nat /\ SumTo(used', l, n) \in Nat
    BY <2>1, ListSum
  <2>4. ASSUME NEW i \in 1..n
        PROVE  /\ l[i] \in Run /\ Parent[l[i]] = q /\ Parent[l[i]] # None /\ status[l[i]] # "idle"
               /\ l[i] \notin Lineage(q)
               /\ used[l[i]] # used'[l[i]] => l[i] \in Lineage(r)
               /\ \A j \in 1..n : l[i] = l[j] => i = j
    <3>1. i \in DOMAIN child_run_ids[q] /\ l[i] \in Run
      BY <2>1
    <3>2. Parent[l[i]] = q /\ q # None /\ status[l[i]] # "idle"
      BY <3>1, UsageAssumption DEF CountInv, Listed, ListedOnce
    <3>3. \A j \in 1..n : l[i] = l[j] => i = j
      <4>1. \A j \in DOMAIN child_run_ids[q] : child_run_ids[q][i] = child_run_ids[q][j] => i = j
        BY <3>1 DEF CountInv, ListedOnce
      <4> QED BY <2>1, <4>1
    <3>4. l[i] \notin Lineage(q)
      BY <3>1, <3>2 DEF CountInv, Rooted
    <3> QED BY <1>3, <3>1, <3>2, <3>3, <3>4
  <2> HIDE DEF n, l
  <2>5. CASE q = r \/ q \notin Lineage(r)
    <3>1. \A i \in 1..n : used[l[i]] = used'[l[i]]
      <4> SUFFICES ASSUME NEW i \in 1..n, l[i] \in Lineage(r) PROVE FALSE
        BY <2>4
      <4> QED BY <2>4, <2>5, LineageOf
    <3>2. SumTo(used, l, n) = SumTo(used', l, n)
      BY <2>1, <3>1, SumSame
    <3>3. CASE q = r
      <4>1. q \in Lineage(r)
        BY <3>3, LineageOf
      <4> QED BY <1>3, <2>2, <2>3, <3>2, <3>3, <4>1 DEF l, n
    <3>4. CASE q # r /\ q \notin Lineage(r)
      BY <1>3, <2>2, <2>3, <3>2, <3>4 DEF l, n
    <3> QED BY <2>5, <3>3, <3>4
  <2>6. CASE q # r /\ q \in Lineage(r)
    <3>1. \A i, j \in 1..Len(l) : used[l[i]] # used'[l[i]] /\ used[l[j]] # used'[l[j]] => i = j
      <4> SUFFICES ASSUME NEW i \in 1..n, NEW j \in 1..n, l[i] \in Lineage(r), l[j] \in Lineage(r) PROVE i = j
        BY <2>4 DEF n
      <4>1. l[i] = l[j]
        BY <2>4, OneChildAbove DEF CountInv
      <4> QED BY <2>4, <4>1
    <3>2. \A x \in Run : used'[x] <= used[x] + 1
      BY <1>3
    <3>3. SumTo(used', l, n) <= SumTo(used, l, n) + 1
      BY <2>1, <3>1, <3>2, SumOneMore
    <3> QED BY <1>3, <2>2, <2>3, <2>6, <3>3 DEF l, n
  <2> QED BY <2>5, <2>6
<1>7. CacheAdds'
  <2> SUFFICES ASSUME NEW q \in Run, inclusive_totals'[q] # None PROVE inclusive_totals'[q] <= used'[q]
    BY DEF CacheAdds
  <2>1. inclusive_totals'[q] = inclusive_totals[q]
    BY <1>1 DEF CountInv, UsageTypes
  <2>2. inclusive_totals[q] \in Nat /\ inclusive_totals[q] <= used[q]
    BY <2>1 DEF CountInv, UsageTypes, CacheAdds
  <2> QED BY <1>3, <2>1, <2>2
<1>8. FramesAdd' /\ FramesNest'
  <2>1. \A n \in Run : Len(child_run_ids[n]) \in Nat
    BY DEF CountInv, UsageTypes
  <2> QED BY <1>1, <1>2, <1>3, <2>1, FramesStayAdding
<1>9. ReportsAdd'
  <2> SUFFICES ASSUME NEW q \in Run
               PROVE  /\ stack[q] # <<>> => status[q] = "finishing"
                      /\ status[q] = "finishing" /\ stack[q] = <<>> => inclusive_totals'[q] # None
                      /\ reported[q] <= used'[q]
    BY <1>1 DEF ReportsAdd
  <2>1. status[q] = "finishing" => inclusive_totals'[q] = inclusive_totals[q]
    BY <1>1 DEF CountInv, UsageTypes
  <2>2. reported[q] \in Int /\ reported[q] <= used[q]
    BY DEF CountInv, UsageTypes, ReportsAdd
  <2>3. reported[q] <= used'[q]
    BY <1>3, <2>2
  <2> QED BY <2>1, <2>3 DEF CountInv, ReportsAdd
<1> QED BY <1>2, <1>4, <1>5, <1>6, <1>7, <1>8, <1>9 DEF CountInv

\* The status of a run that was started changes, and it stays started.
LEMMA StatusMoves ==
  ASSUME CountInv, NEW r \in Run, status[r] # "idle", NEW s \in {"running", "finishing", "reported", "done"},
         status' = [status EXCEPT ![r] = s], UNCHANGED <<child_run_ids, used>>
  PROVE  Rooted' /\ Listed' /\ ListedOnce' /\ IdleUnused'
<1>1. \A q \in Run : status[q] = "idle" <=> status'[q] = "idle"
  BY DEF CountInv, UsageTypes
<1>2. Rooted'
  BY <1>1, LineageOfParent DEF CountInv, Rooted, Lineage
<1>3. Listed' /\ IdleUnused'
  BY <1>1 DEF CountInv, Listed, IdleUnused
<1>4. ListedOnce'
  <2> SUFFICES ASSUME NEW q \in Run, NEW i \in DOMAIN child_run_ids[q], NEW j \in DOMAIN child_run_ids[q]
               PROVE  /\ status'[child_run_ids[q][i]] # "idle"
                      /\ child_run_ids[q][i] = child_run_ids[q][j] => i = j
    BY DEF ListedOnce
  <2>1. child_run_ids[q][i] \in Run
    <3>1. child_run_ids[q] \in Seq(Run)
      BY DEF CountInv, UsageTypes
    <3> QED BY <3>1
  <2> QED BY <1>1, <2>1 DEF CountInv, ListedOnce
<1> QED BY <1>2, <1>3, <1>4

LEMMA NothingStarts ==
  ASSUME CountInv, UNCHANGED <<status, child_run_ids, used>>
  PROVE  Rooted' /\ Listed' /\ ListedOnce' /\ IdleUnused'
<1>1. Rooted'
  BY DEF CountInv, Rooted, Lineage
<1>2. Listed' /\ ListedOnce'
  BY DEF CountInv, Listed, ListedOnce
<1>3. IdleUnused'
  BY DEF CountInv, IdleUnused
<1> QED BY <1>1, <1>2, <1>3

LEMMA CountBeginFinish ==
  ASSUME CountInv, NEW r \in Run, BeginFinish(r)
  PROVE  CountInv'
<1> DEFINE st == IF inclusive_totals[r] = None THEN <<Frame(r)>> ELSE <<>>
<1>1. /\ status[r] = "running" /\ status' = [status EXCEPT ![r] = "finishing"]
      /\ due' = [due EXCEPT ![r] = used[r]] /\ stack' = [stack EXCEPT ![r] = st]
      /\ UNCHANGED <<child_run_ids, self_totals, inclusive_totals, used, reported>>
  BY DEF BeginFinish, Free, Children, nodes
<1>2. /\ Frame(r) \in Frames /\ Frame(r).node = r /\ Frame(r).next = 1 /\ Frame(r).sum = self_totals[r]
      /\ self_totals[r] \in Nat
  BY DEF Frame, Frames, CountInv, UsageTypes
<1>3. st \in Seq(Frames) /\ (st = <<>> \/ (st = <<Frame(r)>> /\ Len(st) = 1 /\ DOMAIN st = {1} /\ st[1] = Frame(r)))
      /\ (st = <<>> <=> inclusive_totals[r] # None)
  BY <1>2
<1> HIDE DEF st
<1>4. (\A i \in DOMAIN st : Adding(st[i])) /\ Nesting(r, st)
  <2>1. SumTo(used, child_run_ids[r], 0) = 0
    BY SumSteps
  <2>2. ChildTokens(r, 1 - 1) = 0
    BY <2>1 DEF ChildTokens
  <2>3. Len(child_run_ids[r]) \in Nat
    BY DEF CountInv, UsageTypes
  <2>4. Adding(Frame(r))
    BY <1>2, <2>2, <2>3 DEF Adding
  <2>5. CASE st = <<>>
    BY <2>5 DEF Nesting
  <2>6. CASE st = <<Frame(r)>> /\ Len(st) = 1 /\ DOMAIN st = {1} /\ st[1] = Frame(r)
    BY <1>2, <2>4, <2>6 DEF Nesting
  <2> QED BY <1>3, <2>5, <2>6
<1>5. FramesAdd' /\ FramesNest' /\ stack' \in [Run -> Seq(Frames)] /\ ListAdds'
  BY <1>1, <1>3, <1>4, StackAdds
<1>6. UsageTypes' /\ CacheAdds'
  BY <1>1, <1>5 DEF CountInv, UsageTypes, CacheAdds
<1>7. Rooted' /\ Listed' /\ ListedOnce' /\ IdleUnused'
  BY <1>1, StatusMoves DEF CountInv
<1>8. ReportsAdd'
  BY <1>1, <1>3 DEF CountInv, UsageTypes, ReportsAdd
<1> QED BY <1>5, <1>6, <1>7, <1>8 DEF CountInv

LEMMA CountLeave ==
  ASSUME CountInv, NEW r \in Run, Leave(r)
  PROVE  CountInv'
<1>1. /\ status[r] = "reported"
      /\ UNCHANGED <<child_run_ids, self_totals, inclusive_totals, stack, used, due, reported>>
  BY DEF Leave, nodes, reports
<1>2. PICK s \in {"running", "done"} : status' = [status EXCEPT ![r] = s]
  BY DEF Leave
<1>3. Rooted' /\ Listed' /\ ListedOnce' /\ IdleUnused'
  BY <1>1, <1>2, StatusMoves DEF CountInv
<1>4. UsageTypes' /\ CacheAdds' /\ FramesNest'
  <2>1. status' \in [Run -> {"idle", "running", "finishing", "reported", "done"}]
    BY <1>1, <1>2 DEF CountInv, UsageTypes
  <2>2. CacheAdds' /\ FramesNest'
    BY <1>1 DEF CountInv, CacheAdds, FramesNest, Nesting
  <2> QED BY <1>1, <2>1, <2>2 DEF CountInv, UsageTypes
<1>5. ListAdds' /\ FramesAdd'
  BY <1>1 DEF CountInv, ListAdds, FramesAdd, ChildTokens, Adding
<1>6. ReportsAdd'
  BY <1>1, <1>2 DEF CountInv, UsageTypes, ReportsAdd
<1> QED BY <1>3, <1>4, <1>5, <1>6 DEF CountInv

LEMMA CountReportCached ==
  ASSUME CountInv, NEW r \in Run, ReportCached(r)
  PROVE  CountInv'
<1>1. /\ status[r] = "finishing" /\ stack[r] = <<>>
      /\ reported' = [reported EXCEPT ![r] = inclusive_totals[r]]
      /\ status' = [status EXCEPT ![r] = "reported"]
      /\ UNCHANGED <<child_run_ids, self_totals, inclusive_totals, stack, used, due>>
  BY DEF ReportCached, nodes
<1>2. inclusive_totals[r] \in Nat /\ inclusive_totals[r] <= used[r]
  BY <1>1 DEF CountInv, UsageTypes, ReportsAdd, CacheAdds
<1>3. Rooted' /\ Listed' /\ ListedOnce' /\ IdleUnused'
  BY <1>1, StatusMoves DEF CountInv
<1>4. UsageTypes' /\ CacheAdds' /\ FramesNest'
  <2>1. reported' \in [Run -> Int] /\ status' \in [Run -> {"idle", "running", "finishing", "reported", "done"}]
    BY <1>1, <1>2 DEF CountInv, UsageTypes
  <2>2. CacheAdds' /\ FramesNest'
    BY <1>1 DEF CountInv, CacheAdds, FramesNest, Nesting
  <2> QED BY <1>1, <2>1, <2>2 DEF CountInv, UsageTypes
<1>5. ListAdds' /\ FramesAdd'
  BY <1>1 DEF CountInv, ListAdds, FramesAdd, ChildTokens, Adding
<1>6. ReportsAdd'
  BY <1>1, <1>2 DEF CountInv, UsageTypes, ReportsAdd
<1> QED BY <1>3, <1>4, <1>5, <1>6 DEF CountInv

LEMMA CountVisitChild ==
  ASSUME CountInv, NEW r \in Run, VisitChild(r)
  PROVE  CountInv'
<1> DEFINE fs == stack[r]
           q  == fs[Len(fs)].node
           c  == child_run_ids[q][fs[Len(fs)].next]
           st == IF inclusive_totals[c] = None THEN Append(fs, Frame(c)) ELSE Plus(fs, inclusive_totals[c])
<1>1. /\ fs # <<>> /\ fs[Len(fs)].next \in DOMAIN child_run_ids[q] /\ stack' = [stack EXCEPT ![r] = st]
      /\ UNCHANGED <<status, child_run_ids, self_totals, inclusive_totals, used, due, reported>>
  BY DEF VisitChild, Top, lifecycle, nodes, reports
<1>2. fs \in Seq(Frames) /\ Nesting(r, fs) /\ \A i \in DOMAIN fs : Adding(fs[i])
  BY DEF CountInv, UsageTypes, FramesNest, FramesAdd
<1>3. q \in Run /\ child_run_ids[q] \in Seq(Run) /\ c \in Run
  <2>1. fs[Len(fs)] \in Frames
    BY <1>1, <1>2
  <2>2. q \in Run
    BY <2>1 DEF Frames
  <2>3. child_run_ids[q] \in Seq(Run)
    BY <2>2 DEF CountInv, UsageTypes
  <2> QED BY <1>1, <2>2, <2>3
<1>4. st \in Seq(Frames) /\ st # <<>> /\ (\A i \in DOMAIN st : Adding(st[i])) /\ Nesting(r, st)
  <2>1. CASE inclusive_totals[c] = None
    <3>1. st = Append(fs, Frame(c))
      BY <2>1
    <3> QED BY <1>1, <1>2, <1>3, <3>1, FramePushed DEF CountInv
  <2>2. CASE inclusive_totals[c] # None
    <3>1. st = Plus(fs, inclusive_totals[c])
      BY <2>2
    <3>2. inclusive_totals[c] \in Nat /\ inclusive_totals[c] <= used[c]
      BY <1>3, <2>2 DEF CountInv, UsageTypes, CacheAdds
    <3> QED BY <1>1, <1>2, <3>1, <3>2, FrameAdds DEF CountInv
  <2> QED BY <2>1, <2>2
<1> HIDE DEF st, c, q
<1>5. FramesAdd' /\ FramesNest' /\ stack' \in [Run -> Seq(Frames)] /\ ListAdds'
  BY <1>1, <1>4, StackAdds
<1>6. UsageTypes' /\ Rooted' /\ Listed' /\ ListedOnce' /\ IdleUnused' /\ CacheAdds'
  <2>1. UsageTypes' /\ CacheAdds'
    BY <1>1, <1>5 DEF CountInv, UsageTypes, CacheAdds
  <2>2. Rooted' /\ Listed' /\ ListedOnce' /\ IdleUnused'
    BY <1>1, NothingStarts DEF CountInv
  <2> QED BY <2>1, <2>2
<1>7. ReportsAdd'
  <2>1. stack'[r] = st /\ \A x \in Run : x # r => stack'[x] = stack[x]
    BY <1>1 DEF CountInv, UsageTypes
  <2> QED BY <1>1, <1>4, <2>1 DEF CountInv, ReportsAdd
<1> QED BY <1>5, <1>6, <1>7 DEF CountInv

LEMMA CountCloseFrame ==
  ASSUME CountInv, NEW r \in Run, CloseFrame(r)
  PROVE  CountInv'
<1> DEFINE fs  == stack[r]
           L   == Len(fs)
           q   == fs[L].node
           sum == fs[L].sum
           b   == SubSeq(fs, 1, L - 1)
           st  == IF b = <<>> THEN <<>> ELSE Plus(b, sum)
<1>1. /\ fs # <<>> /\ fs[L].next \notin DOMAIN child_run_ids[q]
      /\ inclusive_totals' = [inclusive_totals EXCEPT ![q] = sum]
      /\ stack' = [stack EXCEPT ![r] = st]
      /\ reported' = [reported EXCEPT ![r] = IF b = <<>> THEN sum ELSE @]
      /\ status' = [status EXCEPT ![r] = IF b = <<>> THEN "reported" ELSE @]
      /\ UNCHANGED <<child_run_ids, self_totals, used, due>>
  BY DEF CloseFrame, Top, Below
<1>2. fs \in Seq(Frames) /\ Nesting(r, fs) /\ (\A i \in DOMAIN fs : Adding(fs[i])) /\ L \in Nat \ {0} /\ L \in DOMAIN fs
  <2>1. fs \in Seq(Frames) /\ Nesting(r, fs) /\ \A i \in DOMAIN fs : Adding(fs[i])
    BY DEF CountInv, UsageTypes, FramesNest, FramesAdd
  <2> QED BY <1>1, <2>1
<1>3. q \in Run /\ sum \in Nat /\ fs[L].next \in Nat /\ child_run_ids[q] \in Seq(Run) /\ self_totals[q] \in Nat
  <2>1. fs[L] \in Frames
    BY <1>2
  <2>2. q \in Run /\ sum \in Nat /\ fs[L].next \in Nat
    BY <2>1 DEF Frames
  <2> QED BY <2>2 DEF CountInv, UsageTypes
<1>4. sum <= used[q]
  <2>1. fs[L].next \in 1..(Len(child_run_ids[q]) + 1) /\ sum <= self_totals[q] + ChildTokens(q, fs[L].next - 1)
    BY <1>2 DEF Adding
  <2>2. fs[L].next - 1 = Len(child_run_ids[q])
    <3>1. DOMAIN child_run_ids[q] = 1..Len(child_run_ids[q]) /\ Len(child_run_ids[q]) \in Nat
      BY <1>3
    <3>2. fs[L].next \notin 1..Len(child_run_ids[q])
      BY <1>1, <3>1
    <3> HIDE DEF q
    <3> QED BY SMTT(30), <1>3, <2>1, <3>1, <3>2
  <2>3. ChildTokens(q, Len(child_run_ids[q])) \in Nat
    BY <1>3, ListSum DEF CountInv, UsageTypes, ChildTokens
  <2>4. self_totals[q] + ChildTokens(q, Len(child_run_ids[q])) <= used[q] /\ used[q] \in Nat
    BY <1>3 DEF CountInv, UsageTypes, ListAdds
  <2>5. sum <= self_totals[q] + ChildTokens(q, Len(child_run_ids[q]))
    BY <2>1, <2>2
  <2> HIDE DEF sum, q
  <2> QED BY <1>3, <2>3, <2>4, <2>5
<1>5. b = <<>> => q = r
  <2> SUFFICES ASSUME b = <<>> PROVE q = r
    OBVIOUS
  <2>1. L = 1
    <3>1. Len(b) = L - 1
      BY <1>2
    <3> HIDE DEF b
    <3>2. Len(b) = 0
      OBVIOUS
    <3> QED BY <1>2, <3>1, <3>2
  <2> QED BY <1>1, <1>2, <2>1 DEF Nesting
<1>6. ASSUME b # <<>>
      PROVE  st \in Seq(Frames) /\ st # <<>> /\ (\A i \in DOMAIN st : Adding(st[i])) /\ Nesting(r, st)
  <2> DEFINE M == Len(b)
  <2>1. b \in Seq(Frames) /\ M \in Nat \ {0} /\ L = M + 1 /\ \A i \in 1..M : b[i] = fs[i]
    BY <1>2, <1>6
  <2>2. /\ fs[1].node = r
        /\ \A i \in 1..M :
             /\ fs[i].next \in DOMAIN child_run_ids[fs[i].node]
             /\ fs[i + 1].node = child_run_ids[fs[i].node][fs[i].next]
    BY <1>1, <1>2, <2>1 DEF Nesting
  <2>3. Nesting(r, b)
    <3>1. b[1].node = r
      BY <2>1, <2>2
    <3>2. ASSUME NEW i \in 1..(Len(b) - 1)
          PROVE  /\ b[i].next \in DOMAIN child_run_ids[b[i].node]
                 /\ b[i + 1].node = child_run_ids[b[i].node][b[i].next]
      <4>1. i \in 1..M /\ i + 1 \in 1..M
        BY <2>1
      <4>2. b[i] = fs[i] /\ b[i + 1] = fs[i + 1]
        BY <2>1, <4>1
      <4> HIDE DEF b
      <4> QED BY <2>2, <4>1, <4>2
    <3> HIDE DEF b
    <3> QED BY <3>1, <3>2 DEF Nesting
  <2>4. \A i \in DOMAIN b : Adding(b[i])
    BY <1>2, <2>1
  <2>5. b[M] = fs[M] /\ M \in 1..M
    BY <2>1
  <2>6. b[M].next \in DOMAIN child_run_ids[b[M].node] /\ q = child_run_ids[b[M].node][b[M].next]
    BY <2>1, <2>2, <2>5
  <2>7. sum <= used[child_run_ids[b[M].node][b[M].next]]
    BY <1>4, <2>6
  <2>8. st = Plus(b, sum)
    BY <1>6
  <2> HIDE DEF st, sum, b
  <2> QED BY <1>3, <1>6, <2>1, <2>3, <2>4, <2>6, <2>7, <2>8, FrameAdds DEF CountInv
<1>7. st \in Seq(Frames) /\ (\A i \in DOMAIN st : Adding(st[i])) /\ Nesting(r, st) /\ (st = <<>> <=> b = <<>>)
  <2>1. CASE b = <<>>
    <3>1. st = <<>>
      BY <2>1
    <3> HIDE DEF st
    <3> QED BY <2>1, <3>1 DEF Nesting
  <2>2. CASE b # <<>>
    BY <1>6, <2>2
  <2> QED BY <2>1, <2>2
<1>8. status[r] = "finishing"
  BY <1>1 DEF CountInv, ReportsAdd
<1> HIDE DEF st, b, sum, q
<1>9. FramesAdd' /\ FramesNest' /\ stack' \in [Run -> Seq(Frames)] /\ ListAdds'
  BY <1>1, <1>7, StackAdds
<1>10. UsageTypes'
  <2>1. /\ reported' \in [Run -> Int] /\ inclusive_totals' \in [Run -> Nat \cup {None}]
        /\ status' \in [Run -> {"idle", "running", "finishing", "reported", "done"}]
    BY SMTT(30), <1>1, <1>3 DEF CountInv, UsageTypes
  <2> QED BY <1>1, <1>9, <2>1 DEF CountInv, UsageTypes
<1>11. CacheAdds'
  BY <1>1, <1>3, <1>4 DEF CountInv, UsageTypes, CacheAdds
<1>12. Rooted' /\ Listed' /\ ListedOnce' /\ IdleUnused'
  <2>1. PICK s \in {"finishing", "reported"} : status' = [status EXCEPT ![r] = s]
    BY <1>1, <1>8
  <2> QED BY <1>1, <1>8, <2>1, StatusMoves DEF CountInv
<1>13. ReportsAdd'
  <2> SUFFICES ASSUME NEW x \in Run
               PROVE  /\ stack'[x] # <<>> => status'[x] = "finishing"
                      /\ status'[x] = "finishing" /\ stack'[x] = <<>> => inclusive_totals'[x] # None
                      /\ reported'[x] <= used[x]
    BY <1>1 DEF ReportsAdd
  <2>1. inclusive_totals[x] # None => inclusive_totals'[x] # None
    BY <1>1, <1>3, UsageAssumption DEF CountInv, UsageTypes
  <2>2. CASE x # r
    <3>1. stack'[x] = stack[x] /\ status'[x] = status[x] /\ reported'[x] = reported[x]
      BY <1>1, <2>2 DEF CountInv, UsageTypes
    <3> QED BY <2>1, <3>1 DEF CountInv, ReportsAdd
  <2>3. CASE x = r
    <3>1. /\ stack'[x] = st /\ status'[x] = IF b = <<>> THEN "reported" ELSE "finishing"
          /\ reported'[x] = IF b = <<>> THEN sum ELSE reported[x]
      BY <1>1, <1>8, <2>3 DEF CountInv, UsageTypes
    <3>2. reported[x] <= used[x]
      BY DEF CountInv, ReportsAdd
    <3> QED BY <1>4, <1>5, <1>7, <2>3, <3>1, <3>2
  <2> QED BY <2>2, <2>3
<1> QED BY <1>9, <1>10, <1>11, <1>12, <1>13 DEF CountInv

LEMMA CountSteps == CountInv /\ [UsageNext]_usage_vars => CountInv'
<1> SUFFICES ASSUME CountInv, [UsageNext]_usage_vars PROVE CountInv'
  OBVIOUS
<1>1. ASSUME UNCHANGED <<status, child_run_ids, self_totals, inclusive_totals, stack, used, due, reported>>
      PROVE  CountInv'
  <2>1. UsageTypes' /\ CacheAdds' /\ ReportsAdd'
    BY <1>1 DEF CountInv, UsageTypes, CacheAdds, ReportsAdd
  <2>2. Rooted' /\ Listed' /\ ListedOnce' /\ IdleUnused'
    BY <1>1, NothingStarts DEF CountInv
  <2>3. ListAdds' /\ FramesAdd' /\ FramesNest'
    BY <1>1 DEF CountInv, ListAdds, FramesAdd, Adding, FramesNest, Nesting, ChildTokens
  <2> QED BY <2>1, <2>2, <2>3 DEF CountInv
<1>2. ASSUME NEW r \in Run, AddToSession(r) PROVE CountInv'
  BY <1>1, <1>2 DEF AddToSession, lifecycle, nodes, reports
<1>3. CASE UNCHANGED usage_vars
  BY <1>1, <1>3 DEF usage_vars, lifecycle, nodes, reports
<1> QED BY <1>2, <1>3, CountStart, CountRecorded, CountBeginFinish, CountVisitChild, CountCloseFrame,
           CountReportCached, CountLeave DEF UsageNext

LEMMA CountBegins == UsageInit => CountInv
<1> SUFFICES ASSUME UsageInit PROVE CountInv
  OBVIOUS
<1>1. UsageTypes
  BY UsageAssumption DEF UsageInit, UsageTypes
<1>2. Rooted /\ Listed /\ ListedOnce /\ IdleUnused /\ CacheAdds /\ FramesAdd /\ FramesNest /\ ReportsAdd
  BY DEF UsageInit, Rooted, Listed, ListedOnce, IdleUnused, CacheAdds, FramesAdd, FramesNest, Nesting, ReportsAdd
<1>3. ListAdds
  <2> SUFFICES ASSUME NEW r \in Run PROVE self_totals[r] + SumTo(used, child_run_ids[r], Len(child_run_ids[r])) <= used[r]
    BY DEF ListAdds, ChildTokens
  <2>1. child_run_ids[r] = <<>> /\ self_totals[r] = 0 /\ used[r] = 0 /\ Len(child_run_ids[r]) = 0
    BY DEF UsageInit
  <2>2. SumTo(used, child_run_ids[r], 0) = 0
    BY SumSteps
  <2> QED BY <2>1, <2>2
<1> QED BY <1>1, <1>2, <1>3 DEF CountInv

\* Whatever is called in parallel, left behind, started again or reported again, no token is
\* in a run's total or in the session's more often than it was used: run ids form a tree as
\* they are started, each child is in its parent's list once, and an addition to the session
\* may be lost to another one but is never made twice.
THEOREM NothingIsCountedTwice ==
  ASSUME IsFiniteSet(Run)
  PROVE  UsageSpec => []NothingCountedTwice
<1>1. UsageInit => CountInv
  BY CountBegins
<1>2. CountInv /\ [UsageNext]_usage_vars => CountInv'
  BY CountSteps
<1>3. UsageInit => SessionInv
  BY SessionStart
<1>4. SessionInv /\ [UsageNext]_usage_vars => SessionInv'
  BY SessionSteps
<1>5. CountInv /\ SessionInv => NothingCountedTwice
  BY DEF CountInv, ReportsAdd, SessionInv, NothingCountedTwice
<1> QED BY <1>1, <1>2, <1>3, <1>4, <1>5, PTL DEF UsageSpec

(***************************************************************************)
(* Catalogs: the last that speaks decides.                                 *)
(***************************************************************************)

\* A set of naturals that is bounded has a greatest element.
LEMMA Greatest ==
  ASSUME NEW S, S \subseteq Nat, S # {}, NEW n \in Nat, \A x \in S : x <= n
  PROVE  Max(S) \in S /\ \A x \in S : x <= Max(S)
<1> DEFINE T == {n - x : x \in S}
<1>1. PICK y \in T : \A z \in T : y <= z
  <2>1. \A x \in S : n - x \in Nat
    OBVIOUS
  <2>2. T \subseteq Nat /\ T # {}
    BY <2>1
  <2> HIDE DEF T
  <2> QED BY <2>2, LeastNatural
<1>2. PICK m \in S : y = n - m
  BY <1>1
<1>3. \A x \in S : m >= x
  <2> SUFFICES ASSUME NEW x \in S PROVE m >= x
    OBVIOUS
  <2>1. n - x \in T
    OBVIOUS
  <2>2. n - m <= n - x /\ m \in Nat /\ x \in Nat
    BY <2>1, <1>1, <1>2
  <2> QED BY <2>2
<1>4. \E x \in S : \A z \in S : x >= z
  BY <1>3
<1>5. /\ (CHOOSE x \in S : \A z \in S : x >= z) \in S
      /\ \A z \in S : (CHOOSE x \in S : \A w \in S : x >= w) >= z
  BY <1>4
<1> QED BY <1>5 DEF Max

LEMMA Smallest ==
  ASSUME NEW S, S \subseteq Nat, S # {}
  PROVE  Min(S) \in S /\ \A x \in S : Min(S) <= x
<1>1. \E y \in S : \A x \in S : y <= x
  BY LeastNatural
<1>2. /\ (CHOOSE x \in S : \A y \in S : x <= y) \in S
      /\ \A z \in S : (CHOOSE x \in S : \A y \in S : x <= y) <= z
  BY <1>1
<1> QED BY <1>2 DEF Min

\* What a prompt is made of.
TaggedText == [name : STRING, text : STRING, says : UNION {[S -> STRING] : S \in SUBSET Guessed}]

\* An answer to be read: no placeholder, and of the type of its parameter.
NewAnswer ==
  {t \in TaggedText : /\ t.text \notin {"?", "unreadable", "invalid"}
                      /\ \A n \in DOMAIN t.says : t.says[n] # "unreadable"}

\* A phrase of the answer tells of a parameter the prompt had said nothing of.
Tells(spec, prompt, answer) ==
  spec.name \in Guessed /\ spec.name \in DOMAIN answer.says /\ ExtractPromptValue(spec, prompt) = None

\* The newest tag counts, a phrase only where nothing else does.
LEMMA NewestTag ==
  ASSUME NEW spec, NEW prompt \in Seq(TaggedText), NEW answer \in NewAnswer
  PROVE  ExtractPromptValue(spec, Append(prompt, answer)) =
           IF spec.name = answer.name THEN answer.text
           ELSE IF Tells(spec, prompt, answer) THEN answer.says[spec.name]
           ELSE ExtractPromptValue(spec, prompt)
<1> DEFINE n     == Len(prompt)
           after == Append(prompt, answer)
<1>1. /\ n \in Nat /\ DOMAIN after = 1..(n + 1) /\ DOMAIN prompt = 1..n
      /\ after[n + 1] = answer /\ \A i \in 1..n : after[i] = prompt[i] /\ prompt[i] \in TaggedText
      /\ answer.text # "?" /\ answer \in TaggedText
  BY DEF NewAnswer
<1>2. CASE spec.name = answer.name
  <2>1. Tagged(spec, after) \subseteq 1..(n + 1) /\ n + 1 \in Tagged(spec, after)
    BY <1>1, <1>2 DEF Tagged
  <2> HIDE DEF n, after
  <2>2. Max(Tagged(spec, after)) \in Tagged(spec, after) /\ n + 1 <= Max(Tagged(spec, after))
    <3>1. /\ Tagged(spec, after) \subseteq Nat /\ Tagged(spec, after) # {}
          /\ \A x \in Tagged(spec, after) : x <= n + 1
      BY <1>1, <2>1
    <3> QED BY <1>1, <2>1, <3>1, Greatest
  <2>3. Max(Tagged(spec, after)) = n + 1
    BY <1>1, <2>1, <2>2
  <2> QED BY <1>1, <1>2, <2>1, <2>3 DEF ExtractPromptValue, after
<1>3. CASE spec.name # answer.name
  <2>1. Tagged(spec, after) = Tagged(spec, prompt) /\ Tagged(spec, prompt) \subseteq 1..n
    BY <1>1, <1>3 DEF Tagged
  <2>2. Phrases(spec, prompt) \subseteq 1..n
    BY <1>1 DEF Phrases
  <2>3. Phrases(spec, after) = Phrases(spec, prompt) \cup
          (IF spec.name \in Guessed /\ spec.name \in DOMAIN answer.says THEN {n + 1} ELSE {})
    BY <1>1 DEF Phrases
  <2>4. \A i \in Phrases(spec, prompt) : prompt[i].says[spec.name] \in STRING
    <3> SUFFICES ASSUME NEW i \in Phrases(spec, prompt) PROVE prompt[i].says[spec.name] \in STRING
      OBVIOUS
    <3>1. prompt[i].says \in UNION {[S -> STRING] : S \in SUBSET Guessed} /\ spec.name \in DOMAIN prompt[i].says
      BY <1>1, <2>2 DEF Phrases, TaggedText
    <3>2. PICK S \in SUBSET Guessed : prompt[i].says \in [S -> STRING]
      BY <3>1
    <3> QED BY <3>1, <3>2
  <2> HIDE DEF n, after
  <2>5. CASE Tagged(spec, prompt) # {}
    <3>1. Max(Tagged(spec, prompt)) \in 1..n
      <4>1. Tagged(spec, prompt) \subseteq Nat /\ \A x \in Tagged(spec, prompt) : x <= n
        BY <1>1, <2>1
      <4> QED BY <1>1, <2>1, <2>5, <4>1, Greatest
    <3>2. ExtractPromptValue(spec, prompt) = prompt[Max(Tagged(spec, prompt))].text
      BY <2>5 DEF ExtractPromptValue
    <3>3. ExtractPromptValue(spec, after) = ExtractPromptValue(spec, prompt)
      BY <1>1, <2>1, <2>5, <3>1, <3>2 DEF ExtractPromptValue
    <3>4. ExtractPromptValue(spec, prompt) \in STRING
      BY <1>1, <3>1, <3>2 DEF TaggedText
    <3> QED BY <1>3, <3>3, <3>4, NoneAssumption DEF Tells, after
  <2>6. CASE Tagged(spec, prompt) = {} /\ Phrases(spec, prompt) # {}
    <3>1. /\ Min(Phrases(spec, prompt)) \in Phrases(spec, prompt)
          /\ \A x \in Phrases(spec, prompt) : Min(Phrases(spec, prompt)) <= x
      <4>1. Phrases(spec, prompt) \subseteq Nat
        BY <1>1, <2>2
      <4> QED BY <2>6, <4>1, Smallest
    <3>2. /\ Min(Phrases(spec, after)) \in Phrases(spec, after)
          /\ \A x \in Phrases(spec, after) : Min(Phrases(spec, after)) <= x
      <4>1. Phrases(spec, after) \subseteq Nat /\ Phrases(spec, after) # {}
        BY <1>1, <2>2, <2>3, <2>6
      <4> QED BY <4>1, Smallest
    <3>3. Min(Phrases(spec, after)) = Min(Phrases(spec, prompt)) /\ Min(Phrases(spec, prompt)) \in 1..n
      <4> DEFINE m == Min(Phrases(spec, prompt))
                 k == Min(Phrases(spec, after))
      <4>1. m \in Phrases(spec, prompt) /\ m \in 1..n /\ m \in Phrases(spec, after)
        BY <2>2, <2>3, <3>1
      <4>2. k \in Phrases(spec, after) /\ k <= m
        BY <3>2, <4>1
      <4>3. k \in Phrases(spec, prompt)
        <5>1. k \in Phrases(spec, prompt) \/ k = n + 1
          BY <2>3, <4>2
        <5> QED BY <1>1, <4>1, <4>2, <5>1
      <4>4. m <= k /\ k \in 1..n
        BY <2>2, <3>1, <4>3
      <4> HIDE DEF m, k
      <4>5. m = k
        BY <1>1, <4>1, <4>2, <4>4
      <4> QED BY <4>1, <4>5 DEF m, k
    <3>4. ExtractPromptValue(spec, prompt) = prompt[Min(Phrases(spec, prompt))].says[spec.name]
      BY <2>6 DEF ExtractPromptValue, FirstPhrase
    <3>5. ExtractPromptValue(spec, after) = ExtractPromptValue(spec, prompt)
      <4>1. Phrases(spec, after) # {} /\ Tagged(spec, after) = {}
        BY <2>1, <2>3, <2>6
      <4>2. ExtractPromptValue(spec, after) = after[Min(Phrases(spec, after))].says[spec.name]
        BY <4>1 DEF ExtractPromptValue, FirstPhrase
      <4> QED BY <1>1, <3>3, <3>4, <4>2
    <3>6. ExtractPromptValue(spec, prompt) \in STRING
      BY <2>4, <3>1, <3>4
    <3> QED BY <1>3, <3>5, <3>6, NoneAssumption DEF Tells, after
  <2>7. CASE Tagged(spec, prompt) = {} /\ Phrases(spec, prompt) = {}
    <3>1. ExtractPromptValue(spec, prompt) = None
      BY <2>7 DEF ExtractPromptValue, FirstPhrase
    <3>2. CASE spec.name \in Guessed /\ spec.name \in DOMAIN answer.says
      <4>1. Phrases(spec, after) = {n + 1} /\ Tagged(spec, after) = {}
        BY <2>1, <2>3, <2>7, <3>2
      <4>2. Min(Phrases(spec, after)) = n + 1
        <5>1. Phrases(spec, after) \subseteq Nat /\ Phrases(spec, after) # {}
          BY <1>1, <4>1
        <5> QED BY <4>1, <5>1, Smallest
      <4>3. ExtractPromptValue(spec, after) = answer.says[spec.name]
        BY <1>1, <4>1, <4>2 DEF ExtractPromptValue, FirstPhrase
      <4> QED BY <1>3, <3>1, <3>2, <4>3 DEF Tells, after
    <3>3. CASE ~(spec.name \in Guessed /\ spec.name \in DOMAIN answer.says)
      <4>1. Phrases(spec, after) = {} /\ Tagged(spec, after) = {}
        BY <2>1, <2>3, <2>7, <3>3
      <4>2. ExtractPromptValue(spec, after) = None
        BY <4>1 DEF ExtractPromptValue, FirstPhrase
      <4> QED BY <1>3, <3>1, <3>3, <4>2 DEF Tells, after
    <3> QED BY <3>2, <3>3
  <2> QED BY <2>5, <2>6, <2>7
<1> QED BY <1>2, <1>3

LEMMA LaterDecides == \A user, project, explicit : LaterFileDecides(user, project, explicit)
<1> SUFFICES ASSUME NEW user, NEW project, NEW explicit
             PROVE  LaterFileDecides(user, project, explicit)
  OBVIOUS
<1> DEFINE raw     == Updated(Updated(Updated(<<>>, user), project), explicit)
           said(n) == IF n \in Described(explicit) THEN explicit[n]
                      ELSE IF n \in Described(project) THEN project[n] ELSE user[n]
           servers == McpServers(user, project, explicit)
           all     == Described(user) \cup Described(project) \cup Described(explicit)
<1>1. DOMAIN raw = all /\ \A n \in DOMAIN raw : raw[n] = said(n)
  <2>1. DOMAIN <<>> = {}
    OBVIOUS
  <2>2. /\ DOMAIN Updated(<<>>, user) = Described(user)
        /\ \A n \in Described(user) : Updated(<<>>, user)[n] = user[n]
    BY <2>1 DEF Updated
  <2> QED BY <2>2 DEF Updated
<1>2. servers = [name \in {n \in DOMAIN raw : raw[n] \notin {"off", "broken"}} |-> raw[name]]
  BY DEF McpServers
<1> HIDE DEF raw
<1> SUFFICES /\ DOMAIN servers \subseteq all
             /\ \A n \in all : IF said(n) \in {"off", "broken"} THEN n \notin DOMAIN servers
                               ELSE n \in DOMAIN servers /\ servers[n] = said(n)
  BY DEF LaterFileDecides
<1> HIDE DEF servers, said, all
<1> QED BY <1>1, <1>2

\* What the value of a parameter is once the prompt has an answer for one.
LEMMA AnswerDecides ==
  ASSUME NEW specs, NEW prompt \in Seq(TaggedText), NEW seed, NEW answer \in NewAnswer
  PROVE  AnswerTakesEffect(specs, prompt, seed, answer)
<1> DEFINE longer == Append(prompt, answer)
           before == ParameterState(specs, prompt, seed)
           after  == ParameterState(specs, longer, seed)
           old(s) == ParameterValue(s, prompt, seed)
           new(s) == ParameterValue(s, longer, seed)
           told   == {answer.name} \cup {s.name : s \in {t \in specs : /\ t.name \in Guessed /\ t.name \in DOMAIN answer.says
                                                                       /\ ExtractPromptValue(t, prompt) = None}}
<1>0. answer.text # None /\ answer.text \notin {"unreadable", "invalid"}
  BY NoneAssumption DEF NewAnswer, TaggedText
<1>1. \A s \in specs : ExtractPromptValue(s, longer) =
                         IF s.name = answer.name THEN answer.text
                         ELSE IF Tells(s, prompt, answer) THEN answer.says[s.name]
                         ELSE ExtractPromptValue(s, prompt)
  <2> SUFFICES ASSUME NEW s \in specs
               PROVE  ExtractPromptValue(s, longer) =
                        IF s.name = answer.name THEN answer.text
                        ELSE IF Tells(s, prompt, answer) THEN answer.says[s.name]
                        ELSE ExtractPromptValue(s, prompt)
    OBVIOUS
  <2> QED BY NewestTag
<1>2. \A s \in specs : s.name = answer.name => new(s) = answer.text
  <2> HIDE DEF longer
  <2> QED BY <1>0, <1>1 DEF ParameterValue
<1>3. \A s \in specs : s.name \notin told => new(s) = old(s)
  <2> SUFFICES ASSUME NEW s \in specs, s.name \notin told PROVE new(s) = old(s)
    OBVIOUS
  <2>1. s.name # answer.name /\ ~Tells(s, prompt, answer)
    BY DEF Tells
  <2> HIDE DEF longer, told
  <2>2. ExtractPromptValue(s, longer) = ExtractPromptValue(s, prompt)
    BY <1>1, <2>1
  <2> QED BY <2>2 DEF ParameterValue
<1>4. /\ after.raises = (\E s \in specs : ExtractPromptValue(s, longer) = "unreadable")
      /\ before.raises = (\E s \in specs : ExtractPromptValue(s, prompt) = "unreadable")
      /\ after.values = {<<s.name, new(s)>> : s \in {t \in specs : new(t) \notin {None, "invalid"}}}
      /\ before.values = {<<s.name, old(s)>> : s \in {t \in specs : old(t) \notin {None, "invalid"}}}
      /\ after.missing = {s.name : s \in {t \in specs : new(t) = None /\ t.required}}
      /\ before.missing = {s.name : s \in {t \in specs : old(t) = None /\ t.required}}
      /\ after.invalid = {s.name : s \in {t \in specs : new(t) = "invalid"}}
      /\ before.invalid = {s.name : s \in {t \in specs : old(t) = "invalid"}}
  BY DEF ParameterState
<1>5. answer.name \in told
  OBVIOUS
<1>6. \A s \in specs : Tells(s, prompt, answer) => answer.says[s.name] # "unreadable"
  BY DEF Tells, NewAnswer
<1> HIDE DEF longer, before, after, old, new, told
<1> SUFFICES ASSUME ~before.raises, \E s \in specs : s.name = answer.name
             PROVE  /\ ~after.raises
                    /\ <<answer.name, answer.text>> \in after.values
                    /\ answer.name \notin after.missing \cup after.invalid
                    /\ {p \in after.values : p[1] \notin told} = {p \in before.values : p[1] \notin told}
                    /\ after.missing \ told = before.missing \ told
                    /\ after.invalid \ told = before.invalid \ told
  BY DEF AnswerTakesEffect, before, after, longer, told
<1>7. ~after.raises
  BY <1>0, <1>1, <1>4, <1>6
<1>8. <<answer.name, answer.text>> \in after.values
  BY <1>0, <1>2, <1>4
<1>9. answer.name \notin after.missing \cup after.invalid
  BY <1>0, <1>2, <1>4
<1>10. {p \in after.values : p[1] \notin told} = {p \in before.values : p[1] \notin told}
  BY <1>3, <1>4
<1>11. after.missing \ told = before.missing \ told
  BY <1>3, <1>4
<1>12. after.invalid \ told = before.invalid \ told
  BY <1>3, <1>4
<1> QED BY <1>7, <1>8, <1>9, <1>10, <1>11, <1>12

\* Whatever the files say, and whatever tags and phrases a prompt has, what parameters an
\* agent has and what the caller gave for them, the last that speaks decides.
THEOREM LastWord ==
  ASSUME asked = "answer" => given[2] \in Seq(TaggedText) /\ given[4] \in NewAnswer
  PROVE  LastWordCounts
BY LaterDecides, AnswerDecides DEF LastWordCounts

(***************************************************************************)
(* Catalogs: what a limit leaves of a sorted list is the best of it.       *)
(***************************************************************************)
Sorts(order, set) ==
  /\ \A a \in set : <<a, a>> \notin order
  /\ \A a, b \in set : a # b => <<a, b>> \in order \/ <<b, a>> \in order
  /\ \A a, b, c \in set : <<a, b>> \in order /\ <<b, c>> \in order => <<a, c>> \in order

Before(e, set, order) == {d \in set : <<d, e>> \in order}

LEMMA FirstOfIs ==
  ASSUME NEW n, NEW set, NEW order
  PROVE  FirstOf(n, set, order) = {e \in set : Cardinality(Before(e, set, order)) < n}
BY DEF FirstOf, Before

LEMMA BeforeCounts ==
  ASSUME NEW set, IsFiniteSet(set), NEW order, NEW e
  PROVE  IsFiniteSet(Before(e, set, order)) /\ Cardinality(Before(e, set, order)) \in Nat
<1>1. Before(e, set, order) \in SUBSET set
  BY DEF Before
<1>2. IsFiniteSet(Before(e, set, order))
  BY <1>1, FS_Subset
<1> QED BY <1>2, FS_CardinalityType

\* More stand before the later of two.
LEMMA BeforeGrows ==
  ASSUME NEW set, IsFiniteSet(set), NEW order, Sorts(order, set),
         NEW a \in set, NEW b \in set, <<a, b>> \in order
  PROVE  Cardinality(Before(a, set, order)) < Cardinality(Before(b, set, order))
<1>1. Before(a, set, order) \subseteq Before(b, set, order) \ {a}
  BY DEF Before, Sorts
<1>2. a \in Before(b, set, order)
  BY DEF Before
<1> DEFINE A == Before(a, set, order)
           B == Before(b, set, order)
<1>3. IsFiniteSet(B) /\ Cardinality(B) \in Nat /\ Cardinality(A) \in Nat
  BY BeforeCounts
<1> HIDE DEF A, B
<1>4. A \subseteq B \ {a} /\ a \in B
  BY <1>1, <1>2 DEF A, B
<1>5. IsFiniteSet(B \ {a}) /\ Cardinality(B \ {a}) = Cardinality(B) - 1
  BY <1>3, <1>4, FS_RemoveElement
<1>6. Cardinality(A) <= Cardinality(B \ {a})
  BY <1>4, <1>5, FS_Subset
<1>7. Cardinality(A) < Cardinality(B)
  BY <1>3, <1>5, <1>6
<1> QED BY <1>7 DEF A, B

\* Who is left out stands behind everyone who is not.
LEMMA LeftOutAreBehind ==
  ASSUME NEW set, IsFiniteSet(set), NEW order, Sorts(order, set), NEW n \in Nat,
         NEW kept \in FirstOf(n, set, order), NEW d \in set, d \notin FirstOf(n, set, order)
  PROVE  <<kept, d>> \in order
<1>1. kept \in set /\ kept # d /\ Cardinality(Before(kept, set, order)) < n
      /\ ~ (Cardinality(Before(d, set, order)) < n)
  BY FirstOfIs
<1>2. Cardinality(Before(kept, set, order)) \in Nat /\ Cardinality(Before(d, set, order)) \in Nat
  BY BeforeCounts
<1>3. ASSUME <<d, kept>> \in order PROVE FALSE
  <2>1. Cardinality(Before(d, set, order)) < Cardinality(Before(kept, set, order))
    BY <1>1, <1>3, BeforeGrows
  <2> QED BY <1>1, <1>2, <2>1
<1> QED BY <1>1, <1>3 DEF Sorts

\* Among some there is one who stands before the others.
LEMMA LeastOf ==
  ASSUME NEW set, IsFiniteSet(set), NEW order, Sorts(order, set),
         NEW some, some \subseteq set, some # {}
  PROVE  \E m \in some : \A x \in some : x # m => <<m, x>> \in order
<1> DEFINE Place(x) == Cardinality(Before(x, set, order))
           T == {Place(x) : x \in some}
<1>1. \A x \in set : Place(x) \in Nat
  BY BeforeCounts
<1>2. T \subseteq Nat /\ T # {}
  BY <1>1
<1>3. PICK t \in T : \A u \in T : t <= u
  <2> HIDE DEF T
  <2> QED BY <1>2, LeastNatural
<1>4. PICK m \in some : t = Place(m)
  BY <1>3
<1>5. ASSUME NEW x \in some, x # m PROVE <<m, x>> \in order
  <2>1. Place(m) <= Place(x)
    BY <1>3, <1>4
  <2>2. ASSUME <<x, m>> \in order PROVE FALSE
    <3>1. Place(x) < Place(m)
      BY <2>2, BeforeGrows
    <3>2. Place(x) \in Nat /\ Place(m) \in Nat
      BY <1>1
    <3> HIDE DEF Place
    <3> QED BY <2>1, <3>1, <3>2
  <2> QED BY <1>5, <2>2 DEF Sorts
<1> QED BY <1>5

LEMMA OneMore ==
  ASSUME NEW set, IsFiniteSet(set), NEW order, Sorts(order, set), NEW n \in Nat,
         Cardinality(FirstOf(n, set, order)) = n,
         NEW m \in set, m \notin FirstOf(n, set, order),
         \A x \in set : x \notin FirstOf(n, set, order) /\ x # m => <<m, x>> \in order
  PROVE  FirstOf(n + 1, set, order) = FirstOf(n, set, order) \cup {m}
<1> DEFINE F == FirstOf(n, set, order)
           Place(x) == Cardinality(Before(x, set, order))
<1>1. F \in SUBSET set
  BY FirstOfIs
<1>2. IsFiniteSet(F)
  BY <1>1, FS_Subset
<1>3. \A x \in set : Place(x) \in Nat
  BY BeforeCounts
<1>4. \A x \in F : Place(x) < n
  BY FirstOfIs
<1>5. Place(m) = n
  <2>1. \A x \in F : <<x, m>> \in order
    BY LeftOutAreBehind
  <2>2. ASSUME NEW x \in set, x \notin F, <<x, m>> \in order PROVE FALSE
    <3>1. x # m
      BY <2>2 DEF Sorts
    <3>2. <<m, x>> \in order
      BY <2>2, <3>1
    <3> QED BY <2>2, <3>2 DEF Sorts
  <2> HIDE DEF F
  <2>3. Before(m, set, order) = F
    BY <1>1, <2>1, <2>2 DEF Before
  <2>4. Cardinality(F) = n
    BY DEF F
  <2> QED BY <2>3, <2>4
<1>6. ASSUME NEW x \in set, x \notin F, x # m PROVE ~ (Place(x) < n + 1)
  <2>1. <<m, x>> \in order
    BY <1>6
  <2>2. Place(m) < Place(x)
    BY <2>1, BeforeGrows
  <2>3. Place(x) \in Nat
    BY <1>3
  <2> HIDE DEF Place
  <2> QED BY <1>5, <2>2, <2>3
<1>7. FirstOf(n + 1, set, order) = {x \in set : Place(x) < n + 1}
  BY FirstOfIs
<1>8. m \in set /\ \A x \in F : Place(x) < n + 1
  BY <1>1, <1>3, <1>4
<1> HIDE DEF F, Place
<1>9. n < n + 1
  OBVIOUS
<1>10. FirstOf(n + 1, set, order) = F \cup {m}
  BY <1>1, <1>5, <1>6, <1>7, <1>8, <1>9
<1> QED BY <1>10 DEF F

\* As many are left as the limit admits, or all.
LEMMA AsManyAsFit ==
  ASSUME NEW set, IsFiniteSet(set), NEW order, Sorts(order, set)
  PROVE  \A n \in Nat :
           Cardinality(FirstOf(n, set, order)) = IF n <= Cardinality(set) THEN n ELSE Cardinality(set)
<1> DEFINE F(n) == FirstOf(n, set, order)
           Size_(n) == Cardinality(F(n))
           c == Cardinality(set)
           B == {n \in Nat : Size_(n) = IF n <= c THEN n ELSE c}
<1>1. c \in Nat
  BY FS_CardinalityType
<1>2. 0 \in B
  <2>1. \A x \in set : ~ (Cardinality(Before(x, set, order)) < 0)
    <3> SUFFICES ASSUME NEW x \in set PROVE ~ (Cardinality(Before(x, set, order)) < 0)
      OBVIOUS
    <3>1. Cardinality(Before(x, set, order)) \in Nat
      BY BeforeCounts
    <3> QED BY <3>1
  <2>2. F(0) = {}
    BY <2>1, FirstOfIs
  <2>3. Size_(0) = 0
    BY <2>2, FS_EmptySet
  <2> QED BY <1>1, <2>3
<1>3. ASSUME NEW n \in Nat, n \in B PROVE n + 1 \in B
  <2>1. F(n) \in SUBSET set /\ F(n + 1) \in SUBSET set /\ F(n) \subseteq F(n + 1)
    <3> SUFFICES ASSUME NEW x \in set, Cardinality(Before(x, set, order)) < n
                 PROVE  Cardinality(Before(x, set, order)) < n + 1
      BY FirstOfIs
    <3>1. Cardinality(Before(x, set, order)) \in Nat
      BY BeforeCounts
    <3> QED BY <3>1
  <2>2. IsFiniteSet(F(n)) /\ Size_(n) <= c /\ (Size_(n) = c => set = F(n))
    BY <2>1, FS_Subset
  <2>3. CASE F(n) = set
    <3>1. F(n + 1) = set
      BY <2>1, <2>3
    <3>2. Size_(n) = c /\ Size_(n + 1) = c
      BY <2>3, <3>1
    <3>3. Size_(n) = IF n <= c THEN n ELSE c
      BY <1>3
    <3> HIDE DEF Size_, c
    <3>4. Size_(n + 1) = IF n + 1 <= c THEN n + 1 ELSE c
      BY <1>1, <3>2, <3>3
    <3> QED BY <3>4
  <2>4. CASE F(n) # set
    <3>1. Size_(n) = n /\ n + 1 <= c
      <4>1. Size_(n) = IF n <= c THEN n ELSE c
        BY <1>3
      <4>2. Size_(n) # c
        BY <2>2, <2>4
      <4> HIDE DEF Size_, c
      <4> QED BY <1>1, <4>1, <4>2
    <3>2. PICK m \in set \ F(n) : \A x \in set \ F(n) : x # m => <<m, x>> \in order
      <4> DEFINE some == set \ F(n)
      <4>1. some \subseteq set /\ some # {}
        BY <2>1, <2>4
      <4> HIDE DEF some
      <4>2. \E m \in some : \A x \in some : x # m => <<m, x>> \in order
        BY <4>1, LeastOf
      <4> QED BY <4>2 DEF some
    <3>3. F(n + 1) = F(n) \cup {m}
      BY <3>1, <3>2, OneMore
    <3>4. Size_(n + 1) = Size_(n) + 1
      BY <2>2, <3>2, <3>3, FS_AddElement
    <3> HIDE DEF Size_, c
    <3>5. Size_(n + 1) = IF n + 1 <= c THEN n + 1 ELSE c
      BY <3>1, <3>4
    <3> QED BY <3>5
  <2> QED BY <2>3, <2>4
<1>4. Nat \subseteq B
  <2> HIDE DEF B
  <2> QED BY <1>2, <1>3, Inductive
<1> QED BY <1>4

LEMMA AllFit ==
  ASSUME NEW set, IsFiniteSet(set), NEW order, Sorts(order, set),
         NEW n \in Nat, Cardinality(set) <= n
  PROVE  FirstOf(n, set, order) = set
<1>1. FirstOf(n, set, order) \in SUBSET set
  BY FirstOfIs
<1>2. Cardinality(set) \in Nat
  BY FS_CardinalityType
<1>3. Cardinality(FirstOf(n, set, order)) = IF n <= Cardinality(set) THEN n ELSE Cardinality(set)
  BY AsManyAsFit
<1>4. Cardinality(FirstOf(n, set, order)) = Cardinality(set)
  BY <1>2, <1>3
<1> QED BY <1>1, <1>4, FS_Subset

\* Memory: entries have uris of their own, and numbers for uris and ranks.
MemoryEntry == [uri : Nat, scope : STRING, rank : Nat]

LEMMA EntryTypes == \A e \in MemoryEntry : e.uri \in Nat /\ e.rank \in Nat
BY DEF MemoryEntry

Catalogued(entries) ==
  /\ IsFiniteSet(entries)
  /\ entries \subseteq MemoryEntry
  /\ \A d, e \in entries : d.uri = e.uri => d = e

LEMMA UrisSort ==
  ASSUME NEW entries, Catalogued(entries), NEW some, some \subseteq entries
  PROVE  Sorts(ByUri(entries), some) /\ Sorts(ByRank(entries), some)
<1>1. \A e \in some : e \in entries /\ e.uri \in Nat /\ e.rank \in Nat
  BY EntryTypes DEF Catalogued
<1>2. \A d, e \in some : <<d, e>> \in ByUri(entries) <=> d.uri < e.uri
  BY <1>1 DEF ByUri
<1>3. \A d, e \in some : <<d, e>> \in ByRank(entries) <=>
                           d.rank > e.rank \/ (d.rank = e.rank /\ d.uri < e.uri)
  BY <1>1 DEF ByRank
<1>4. \A d, e \in some : d # e => d.uri # e.uri
  BY <1>1 DEF Catalogued
<1>5. Sorts(ByUri(entries), some)
  <2>1. \A a \in some : <<a, a>> \notin ByUri(entries)
    BY <1>1, <1>2
  <2>2. \A a, b \in some : a # b => <<a, b>> \in ByUri(entries) \/ <<b, a>> \in ByUri(entries)
    BY <1>1, <1>2, <1>4
  <2>3. \A a, b, c \in some : <<a, b>> \in ByUri(entries) /\ <<b, c>> \in ByUri(entries) => <<a, c>> \in ByUri(entries)
    BY <1>1, <1>2
  <2> QED BY <2>1, <2>2, <2>3 DEF Sorts
<1>6. Sorts(ByRank(entries), some)
  <2>1. \A a \in some : <<a, a>> \notin ByRank(entries)
    BY <1>1, <1>3
  <2>2. \A a, b \in some : a # b => <<a, b>> \in ByRank(entries) \/ <<b, a>> \in ByRank(entries)
    BY <1>1, <1>3, <1>4
  <2>3. \A a, b, c \in some : <<a, b>> \in ByRank(entries) /\ <<b, c>> \in ByRank(entries) => <<a, c>> \in ByRank(entries)
    BY <1>1, <1>3
  <2> QED BY <2>1, <2>2, <2>3 DEF Sorts
<1> QED BY <1>5, <1>6

LEMMA MaxOfTwo ==
  ASSUME NEW a \in Nat, NEW b \in Nat
  PROVE  Max({a, b}) = IF a >= b THEN a ELSE b
BY DEF Max

LEMMA MinOfTwo ==
  ASSUME NEW a \in Nat, NEW b \in Nat
  PROVE  Min({a, b}) = IF a <= b THEN a ELSE b
BY DEF Min

LEMMA HitsAreBest ==
  ASSUME NEW entries, Catalogued(entries), NEW scopes, NEW limit \in Nat
  PROVE  BestHits(entries, scopes, limit)
<1> DEFINE visible == Visible(entries, scopes)
           listed  == ListRefs(entries, scopes, limit * ListedPerHit)
           matching == Matching(visible)
           hits == Query(entries, scopes, limit)
<1> SUFFICES ASSUME Cardinality(visible) <= ListedPerHit * limit
             PROVE  /\ \A h \in hits, e \in visible \ hits : e.rank <= h.rank
                    /\ Cardinality(hits) = Min({limit, Cardinality(matching)})
  BY DEF BestHits
<1>1. visible \in SUBSET entries /\ matching \in SUBSET visible /\ IsFiniteSet(visible) /\ IsFiniteSet(matching)
  <2>1. visible \in SUBSET entries /\ matching \in SUBSET visible
    BY DEF Visible, Matching
  <2>2. IsFiniteSet(visible)
    BY <2>1, FS_Subset DEF Catalogued
  <2> HIDE DEF visible, matching
  <2>3. IsFiniteSet(matching)
    BY <2>1, <2>2, FS_Subset
  <2> QED BY <2>1, <2>2, <2>3
<1>2. listed = visible
  <2> DEFINE n == Max({limit * ListedPerHit, 1})
  <2>1. ListedPerHit = 10 /\ limit * ListedPerHit \in Nat
    BY DEF ListedPerHit
  <2>2. n \in Nat /\ limit * ListedPerHit <= n
    BY <2>1, MaxOfTwo
  <2>3. ListedPerHit * limit = limit * ListedPerHit /\ Cardinality(visible) \in Nat
    BY <1>1, <2>1, FS_CardinalityType
  <2>4. Cardinality(visible) <= n
    <3> HIDE DEF n, visible
    <3> QED BY <2>1, <2>2, <2>3 DEF visible
  <2>5. Sorts(ByUri(entries), visible)
    BY <1>1, UrisSort
  <2>6. listed = FirstOf(n, visible, ByUri(entries))
    BY DEF ListRefs
  <2> HIDE DEF n, visible, listed
  <2> QED BY <1>1, <2>2, <2>4, <2>5, <2>6, AllFit
<1>3. hits = FirstOf(limit, matching, ByRank(entries))
  BY <1>2 DEF Query
<1>4. Sorts(ByRank(entries), matching)
  BY <1>1, UrisSort
<1>5. \A e \in visible : e.rank \in Nat /\ (e \notin matching => ~ (e.rank > 0))
  <2>1. \A e \in visible : e.rank \in Nat
    BY <1>1, EntryTypes DEF Catalogued
  <2> QED BY <2>1 DEF Matching
<1>6. hits \subseteq matching
  BY <1>3, FirstOfIs
<1> HIDE DEF visible, listed, matching, hits
<1>7. ASSUME NEW h \in hits, NEW e \in visible \ hits PROVE e.rank <= h.rank
  <2>1. h \in visible /\ h.rank \in Nat /\ e.rank \in Nat
    BY <1>1, <1>5, <1>6
  <2>2. CASE e \in matching
    <3>1. <<h, e>> \in ByRank(entries)
      BY <1>1, <1>3, <1>4, <2>2, LeftOutAreBehind
    <3>2. h.rank > e.rank \/ h.rank = e.rank
      BY <3>1 DEF ByRank
    <3> QED BY <2>1, <3>2
  <2>3. CASE e \notin matching
    <3>1. ~ (e.rank > 0)
      BY <1>5, <2>3
    <3> QED BY <2>1, <3>1
  <2> QED BY <2>2, <2>3
<1>8. Cardinality(hits) = Min({limit, Cardinality(matching)})
  <2>1. Cardinality(hits) = IF limit <= Cardinality(matching) THEN limit ELSE Cardinality(matching)
    BY <1>1, <1>3, <1>4, AsManyAsFit
  <2>2. Cardinality(matching) \in Nat
    BY <1>1, FS_CardinalityType
  <2> QED BY <2>1, <2>2, MinOfTwo
<1> QED BY <1>7, <1>8

Skill == [priority : Int, size : Nat]

LEMMA SkillTypes == \A s \in Skill : s.priority \in Int
BY DEF Skill

LEMMA SkillsSort ==
  ASSUME NEW skills \in Seq(Skill)
  PROVE  Sorts(ByPriority(skills), DOMAIN skills)
<1> DEFINE places == DOMAIN skills
           p(i) == skills[i].priority
<1>1. \A i \in places : i \in Nat /\ p(i) \in Int
  BY SkillTypes
<1>2. \A i, j \in places : <<i, j>> \in ByPriority(skills) <=> p(i) > p(j) \/ (p(i) = p(j) /\ i < j)
  BY DEF ByPriority
<1> HIDE DEF places, p
<1>3. \A a \in places : <<a, a>> \notin ByPriority(skills)
  BY <1>1, <1>2
<1>4. \A a, b \in places : a # b => <<a, b>> \in ByPriority(skills) \/ <<b, a>> \in ByPriority(skills)
  BY <1>1, <1>2
<1>5. \A a, b, c \in places : <<a, b>> \in ByPriority(skills) /\ <<b, c>> \in ByPriority(skills)
                                 => <<a, c>> \in ByPriority(skills)
  BY <1>1, <1>2
<1>6. Sorts(ByPriority(skills), places)
  BY <1>3, <1>4, <1>5 DEF Sorts
<1> QED BY <1>6 DEF places

LEMMA SkillsAreBest ==
  ASSUME NEW skills \in Seq(Skill), NEW room
  PROVE  BestSkills(skills, room)
<1> DEFINE places == DOMAIN skills
           order == ByPriority(skills)
           working(n) == FirstOf(n, places, order)
           fitting == {n \in places : Size(skills, working(n)) <= room}
           offered == SkillsCatalog(skills, room)
           count == Len(skills)
<1>1. CASE skills = <<>>
  <2>1. offered = {} /\ places = {}
    BY <1>1 DEF SkillsCatalog
  <2> QED BY <1>1, <2>1 DEF BestSkills
<1>2. CASE skills # <<>>
  <2>1. /\ places = 1..count /\ count \in Nat /\ count # 0
        /\ \A i \in places : i \in Nat /\ i <= count /\ skills[i].priority \in Int
    BY <1>2, SkillTypes
  <2>2. IsFiniteSet(places) /\ Cardinality(places) = count
    BY <2>1, FS_Interval
  <2>3. Sorts(order, places)
    BY SkillsSort
  <2> DEFINE most == Max(fitting \cup {1})
  <2>4. most \in fitting \cup {1} /\ \A n \in fitting \cup {1} : n <= most
    <3> DEFINE S == fitting \cup {1}
    <3>1. S \subseteq Nat /\ S # {} /\ \A x \in S : x <= count
      BY <2>1
    <3> HIDE DEF S
    <3>2. Max(S) \in S /\ \A x \in S : x <= Max(S)
      BY <2>1, <3>1, Greatest
    <3> QED BY <3>2 DEF S
  <2>5. offered = working(most)
    BY <1>2 DEF SkillsCatalog
  <2>6. most \in Nat /\ 1 <= most /\ most <= count /\ (most \in fitting \/ most = 1)
    BY <2>1, <2>4
  <2>7. working(count) = places
    <3> HIDE DEF places, order
    <3> QED BY <2>1, <2>2, <2>3, AllFit
  <2>8. Cardinality(working(1)) = 1
    <3> HIDE DEF places, order, count
    <3>1. Cardinality(working(1)) = IF 1 <= Cardinality(places) THEN 1 ELSE Cardinality(places)
      BY <2>2, <2>3, AsManyAsFit
    <3> QED BY <2>1, <2>2, <3>1
  <2>9. Size(skills, places) <= room => most = count
    <3> SUFFICES ASSUME Size(skills, places) <= room PROVE most = count
      OBVIOUS
    <3>1. count \in fitting
      BY <2>1, <2>7
    <3>2. count \in fitting \cup {1}
      BY <3>1
    <3> HIDE DEF fitting, most
    <3>3. count <= most
      BY <2>4, <3>2
    <3> HIDE DEF count
    <3> QED BY <2>1, <2>6, <3>3
  <2>10. most \in fitting => Size(skills, offered) <= room
    BY <2>5
  <2> HIDE DEF most, fitting
  <2>11. ASSUME NEW kept \in offered, NEW dropped \in places \ offered
         PROVE  skills[dropped].priority <= skills[kept].priority
    <3>1. <<kept, dropped>> \in order
      <4> HIDE DEF offered, places, order
      <4> QED BY <2>2, <2>3, <2>5, <2>6, <2>11, LeftOutAreBehind
    <3>2. kept \in places
      <4> HIDE DEF places, order, offered
      <4> QED BY <2>5, FirstOfIs
    <3>3. skills[kept].priority > skills[dropped].priority \/ skills[kept].priority = skills[dropped].priority
      BY <3>1 DEF ByPriority
    <3> QED BY <2>1, <3>2, <3>3
  <2>12. Size(skills, places) <= room => offered = places
    BY <2>5, <2>7, <2>9
  <2>13. Size(skills, offered) <= room \/ Cardinality(offered) = 1
    BY <2>5, <2>6, <2>8, <2>10
  <2> HIDE DEF offered
  <2> QED BY <2>11, <2>12, <2>13 DEF BestSkills, offered
<1> QED BY <1>1, <1>2

\* Whatever is stored, in whichever scopes, and whatever skills there are: what a limit
\* leaves out is no better than what it leaves.
THEOREM BestAreLeft ==
  ASSUME asked = "memory" => Catalogued(given[1]) /\ given[3] \in Nat,
         asked = "skills" => given[1] \in Seq(Skill)
  PROVE  BestAreOffered
BY HitsAreBest, SkillsAreBest DEF BestAreOffered

(***************************************************************************)
(* PromptReferences: selecting sections by their paths keeps and drops     *)
(* whole parts of a document.  A stack begins with the stack of each       *)
(* heading above, and each beginning of it is the stack of one.            *)
(***************************************************************************)

Heading == [level : Nat, title : STRING]

LEMMA HeadingLevel == \A h \in Heading : h.level \in Nat
BY DEF Heading

StackOf(f, doc, n) == f = [i \in 0..n |-> IF i = 0 THEN <<>> ELSE Push(f[i - 1], doc[i])]

LEMMA StackExists ==
  ASSUME NEW doc
  PROVE  \A n \in Nat : \E f : StackOf(f, doc, n)
<1> DEFINE B == {n \in Nat : \E f : StackOf(f, doc, n)}
<1>1. 0 \in B
  <2>1. [i \in 0..0 |-> <<>>] = [i \in 0..0 |-> IF i = 0 THEN <<>> ELSE Push([j \in 0..0 |-> <<>>][i - 1], doc[i])]
    OBVIOUS
  <2> QED BY <2>1 DEF StackOf
<1>2. ASSUME NEW n \in Nat, n \in B PROVE n + 1 \in B
  <2>1. PICK f : StackOf(f, doc, n)
    BY <1>2
  <2> DEFINE g == [i \in 0..(n + 1) |-> IF i = n + 1 THEN Push(f[n], doc[n + 1]) ELSE f[i]]
  <2>2. ASSUME NEW i \in 0..(n + 1) PROVE g[i] = IF i = 0 THEN <<>> ELSE Push(g[i - 1], doc[i])
    <3>1. CASE i = n + 1
      <4>1. g[i] = Push(f[n], doc[n + 1]) /\ g[i - 1] = f[n] /\ i # 0
        BY <3>1
      <4> HIDE DEF g
      <4> QED BY <3>1, <4>1
    <3>2. CASE i # n + 1
      <4>1. i \in 0..n /\ g[i] = f[i] /\ (i # 0 => g[i - 1] = f[i - 1])
        BY <3>2
      <4> HIDE DEF g
      <4>2. f[i] = IF i = 0 THEN <<>> ELSE Push(f[i - 1], doc[i])
        BY <2>1, <4>1 DEF StackOf
      <4> QED BY <4>1, <4>2
    <3> QED BY <3>1, <3>2
  <2>3. g = [i \in 0..(n + 1) |-> g[i]]
    OBVIOUS
  <2> HIDE DEF g
  <2>4. StackOf(g, doc, n + 1)
    BY <2>2, <2>3 DEF StackOf
  <2> QED BY <2>4
<1>3. Nat \subseteq B
  <2> HIDE DEF B
  <2> QED BY <1>1, <1>2, Inductive
<1> QED BY <1>3

LEMMA StacksAre ==
  ASSUME NEW doc, Len(doc) \in Nat
  PROVE  StackOf(Stacks(doc), doc, Len(doc))
<1>1. \E f : StackOf(f, doc, Len(doc))
  BY StackExists
<1>2. StackOf(CHOOSE f : StackOf(f, doc, Len(doc)), doc, Len(doc))
  BY <1>1
<1> QED BY <1>2 DEF Stacks, StackOf

\* What a heading leaves of the stack: all that is above the topmost heading of a lower
\* level, with it.
LEMMA PushKeeps ==
  ASSUME NEW pile \in Seq(Heading), NEW h \in Heading
  PROVE  /\ Above(pile, h) \in 0..Len(pile)
         /\ Above(pile, h) > 0 => pile[Above(pile, h)].level < h.level
         /\ \A n \in 1..Len(pile) : pile[n].level < h.level => n <= Above(pile, h)
         /\ Push(pile, h) \in Seq(Heading)
         /\ Len(Push(pile, h)) = Above(pile, h) + 1
         /\ Push(pile, h)[Above(pile, h) + 1] = h
         /\ \A n \in 1..Above(pile, h) : Push(pile, h)[n] = pile[n]
<1> DEFINE S == {0} \cup {n \in DOMAIN pile : pile[n].level < h.level}
<1>1. S \subseteq Nat /\ S # {} /\ Len(pile) \in Nat /\ \A x \in S : x <= Len(pile)
  OBVIOUS
<1>2. Above(pile, h) = Max(S)
  BY DEF Above
<1>3. Max(S) \in S /\ \A x \in S : x <= Max(S)
  <2> HIDE DEF S
  <2> QED BY <1>1, Greatest
<1>4. /\ Above(pile, h) \in 0..Len(pile)
      /\ Above(pile, h) > 0 => pile[Above(pile, h)].level < h.level
      /\ \A n \in 1..Len(pile) : pile[n].level < h.level => n <= Above(pile, h)
  BY <1>2, <1>3
<1> HIDE DEF S
<1>5. /\ SubSeq(pile, 1, Above(pile, h)) \in Seq(Heading)
      /\ Len(SubSeq(pile, 1, Above(pile, h))) = Above(pile, h)
      /\ \A n \in 1..Above(pile, h) : SubSeq(pile, 1, Above(pile, h))[n] = pile[n]
  BY <1>4
<1>6. ASSUME NEW s \in Seq(Heading), Push(pile, h) = Append(s, h)
      PROVE  /\ Push(pile, h) \in Seq(Heading)
             /\ Len(Push(pile, h)) = Len(s) + 1
             /\ Push(pile, h)[Len(s) + 1] = h
             /\ \A n \in 1..Len(s) : Push(pile, h)[n] = s[n]
  BY <1>6
<1>7. Push(pile, h) = Append(SubSeq(pile, 1, Above(pile, h)), h)
  BY DEF Push
<1> QED BY <1>4, <1>5, <1>6, <1>7

\* The levels on a stack increase, and its top is the heading it is the stack of.
Ordered(pile) == \A m, n \in 1..Len(pile) : m < n => pile[m].level < pile[n].level

LEMMA StackFacts ==
  ASSUME NEW doc \in Seq(Heading)
  PROVE  /\ Stacks(doc)[0] = <<>>
         /\ \A i \in 1..Len(doc) :
              /\ Stacks(doc)[i - 1] \in Seq(Heading)
              /\ Stacks(doc)[i] = Push(Stacks(doc)[i - 1], doc[i])
              /\ Stacks(doc)[i] \in Seq(Heading)
              /\ Ordered(Stacks(doc)[i])
              /\ Len(Stacks(doc)[i]) > 0
              /\ Stacks(doc)[i][Len(Stacks(doc)[i])] = doc[i]
<1> DEFINE f == Stacks(doc)
           B == {i \in Nat : i <= Len(doc) => f[i] \in Seq(Heading) /\ Ordered(f[i])}
<1>1. Len(doc) \in Nat /\ \A i \in 1..Len(doc) : doc[i] \in Heading
  OBVIOUS
<1>2. StackOf(f, doc, Len(doc))
  BY <1>1, StacksAre
<1> HIDE DEF f
<1>3. f[0] = <<>> /\ \A i \in 1..Len(doc) : f[i] = Push(f[i - 1], doc[i])
  BY <1>1, <1>2 DEF StackOf
<1>4. 0 \in B
  <2>1. <<>> \in Seq(Heading) /\ Ordered(<<>>)
    BY DEF Ordered
  <2> QED BY <1>3, <2>1
<1>5. ASSUME NEW i \in Nat, i \in B PROVE i + 1 \in B
  <2> SUFFICES ASSUME i + 1 <= Len(doc) PROVE f[i + 1] \in Seq(Heading) /\ Ordered(f[i + 1])
    OBVIOUS
  <2>1. f[i] \in Seq(Heading) /\ Ordered(f[i]) /\ doc[i + 1] \in Heading /\ f[i + 1] = Push(f[i], doc[i + 1])
    <3>1. i + 1 \in 1..Len(doc) /\ (i + 1) - 1 = i /\ i <= Len(doc)
      BY <1>1
    <3> QED BY <1>1, <1>3, <1>5, <3>1
  <2> DEFINE a == Above(f[i], doc[i + 1])
  <2>2. /\ a \in 0..Len(f[i]) /\ (a > 0 => f[i][a].level < doc[i + 1].level)
        /\ f[i + 1] \in Seq(Heading) /\ Len(f[i + 1]) = a + 1 /\ f[i + 1][a + 1] = doc[i + 1]
        /\ \A n \in 1..a : f[i + 1][n] = f[i][n]
    <3> DEFINE pile == f[i]
               h == doc[i + 1]
    <3>1. pile \in Seq(Heading) /\ h \in Heading /\ f[i + 1] = Push(pile, h) /\ a = Above(pile, h)
      BY <2>1
    <3> HIDE DEF pile, h, a
    <3>2. /\ a \in 0..Len(pile) /\ (a > 0 => pile[a].level < h.level)
          /\ f[i + 1] \in Seq(Heading) /\ Len(f[i + 1]) = a + 1 /\ f[i + 1][a + 1] = h
          /\ \A n \in 1..a : f[i + 1][n] = pile[n]
      <4>1. /\ Above(pile, h) \in 0..Len(pile)
            /\ (Above(pile, h) > 0 => pile[Above(pile, h)].level < h.level)
            /\ Push(pile, h) \in Seq(Heading)
            /\ Len(Push(pile, h)) = Above(pile, h) + 1
            /\ Push(pile, h)[Above(pile, h) + 1] = h
            /\ \A n \in 1..Above(pile, h) : Push(pile, h)[n] = pile[n]
        BY <3>1, PushKeeps
      <4> QED BY <3>1, <4>1
    <3> QED BY <3>2 DEF pile, h
  <2> HIDE DEF a
  <2>3. ASSUME NEW m \in 1..(a + 1), NEW n \in 1..(a + 1), m < n
        PROVE  f[i + 1][m].level < f[i + 1][n].level
    <3>1. m \in 1..a /\ m \in 1..Len(f[i]) /\ Len(f[i]) \in Nat /\ f[i + 1][m] = f[i][m]
      BY <2>1, <2>2, <2>3
    <3>2. CASE n = a + 1
      <4>1. a \in 1..Len(f[i]) /\ (m = a \/ f[i][m].level < f[i][a].level)
        BY <2>1, <2>2, <3>1 DEF Ordered
      <4>2. f[i][m].level \in Nat /\ f[i][a].level \in Nat /\ doc[i + 1].level \in Nat
        BY <2>1, <3>1, <4>1, HeadingLevel
      <4> QED BY SMTT(30), <2>2, <3>1, <3>2, <4>1, <4>2
    <3>3. CASE n # a + 1
      <4>1. n \in 1..a /\ n \in 1..Len(f[i])
        BY <2>2, <3>3
      <4> QED BY <2>1, <2>2, <2>3, <3>1, <4>1 DEF Ordered
    <3> QED BY <3>2, <3>3
  <2> QED BY <2>2, <2>3 DEF Ordered
<1>6. Nat \subseteq B
  <2> HIDE DEF B
  <2> QED BY <1>4, <1>5, Inductive
<1>7. ASSUME NEW i \in 1..Len(doc)
      PROVE  /\ f[i - 1] \in Seq(Heading) /\ f[i] = Push(f[i - 1], doc[i])
             /\ f[i] \in Seq(Heading) /\ Ordered(f[i])
             /\ Len(f[i]) > 0 /\ f[i][Len(f[i])] = doc[i]
  <2>1. i \in Nat /\ i - 1 \in Nat /\ i <= Len(doc) /\ i - 1 <= Len(doc)
    BY <1>1
  <2>2. f[i - 1] \in Seq(Heading) /\ f[i] \in Seq(Heading) /\ Ordered(f[i])
    BY <1>6, <2>1
  <2>3. f[i] = Push(f[i - 1], doc[i]) /\ doc[i] \in Heading
    BY <1>1, <1>3
  <2>4. /\ Above(f[i - 1], doc[i]) \in 0..Len(f[i - 1]) /\ Len(f[i]) = Above(f[i - 1], doc[i]) + 1
        /\ f[i][Above(f[i - 1], doc[i]) + 1] = doc[i]
    <3> DEFINE pile == f[i - 1]
               h == doc[i]
    <3>1. pile \in Seq(Heading) /\ h \in Heading /\ f[i] = Push(pile, h)
      BY <2>2, <2>3
    <3> HIDE DEF pile, h
    <3>2. /\ Above(pile, h) \in 0..Len(pile) /\ Len(f[i]) = Above(pile, h) + 1
          /\ f[i][Above(pile, h) + 1] = h
      BY <3>1, PushKeeps
    <3> QED BY <3>2 DEF pile, h
  <2> QED BY <2>2, <2>3, <2>4
<1> QED BY <1>3, <1>7 DEF f

\* Pushing keeps what is above: the part of the stack whose last heading is of a lower
\* level stays, and what stays is of that kind.
LEMMA PushPrefix ==
  ASSUME NEW pile \in Seq(Heading), Ordered(pile), NEW h \in Heading, NEW n \in 1..Len(pile)
  PROVE  /\ pile[n].level < h.level =>
              n < Len(Push(pile, h)) /\ SubSeq(Push(pile, h), 1, n) = SubSeq(pile, 1, n)
         /\ n < Len(Push(pile, h)) =>
              pile[n].level < h.level /\ SubSeq(Push(pile, h), 1, n) = SubSeq(pile, 1, n)
<1> DEFINE a == Above(pile, h)
           p == Push(pile, h)
<1>1. /\ a \in 0..Len(pile) /\ (a > 0 => pile[a].level < h.level)
      /\ (pile[n].level < h.level => n <= a)
      /\ p \in Seq(Heading) /\ Len(p) = a + 1
      /\ \A k \in 1..a : p[k] = pile[k]
  BY PushKeeps
<1> HIDE DEF a, p
<1>2. n <= a => SubSeq(p, 1, n) = SubSeq(pile, 1, n)
  <2> SUFFICES ASSUME n <= a PROVE SubSeq(p, 1, n) = SubSeq(pile, 1, n)
    OBVIOUS
  <2>1. /\ SubSeq(p, 1, n) = [k \in 1..n |-> p[k]]
        /\ SubSeq(pile, 1, n) = [k \in 1..n |-> pile[k]]
    BY <1>1
  <2>2. \A k \in 1..n : p[k] = pile[k]
    BY <1>1
  <2> QED BY <2>1, <2>2
<1>3. n <= a => pile[n].level < h.level
  <2> SUFFICES ASSUME n <= a PROVE pile[n].level < h.level
    OBVIOUS
  <2>1. a \in 1..Len(pile) /\ a > 0 /\ (n = a \/ pile[n].level < pile[a].level)
    BY <1>1 DEF Ordered
  <2>2. pile[n].level \in Nat /\ pile[a].level \in Nat /\ h.level \in Nat
    BY <2>1, HeadingLevel
  <2> QED BY <1>1, <2>1, <2>2
<1>4. Len(pile) \in Nat
  OBVIOUS
<1> QED BY <1>1, <1>2, <1>3, <1>4 DEF p

\* The stack of a heading is the beginning of the stacks of all headings below it.
LEMMA StackOfSubtree ==
  ASSUME NEW doc \in Seq(Heading), NEW k \in 1..Len(doc)
  PROVE  \A i \in Subtree(doc, k) :
           /\ Len(Stacks(doc)[k]) <= Len(Stacks(doc)[i])
           /\ SubSeq(Stacks(doc)[i], 1, Len(Stacks(doc)[k])) = Stacks(doc)[k]
<1> DEFINE f == Stacks(doc)
           n == Len(f[k])
           Begins(i) == n <= Len(f[i]) /\ SubSeq(f[i], 1, n) = f[k]
           B == {d \in Nat : k + d \in Subtree(doc, k) => Begins(k + d)}
<1>1. /\ \A i \in 1..Len(doc) :
           /\ f[i] = Push(f[i - 1], doc[i]) /\ f[i] \in Seq(Heading) /\ Ordered(f[i])
           /\ Len(f[i]) > 0 /\ f[i][Len(f[i])] = doc[i]
  BY StackFacts
<1>2. k \in Nat /\ k > 0 /\ Len(doc) \in Nat /\ \A i \in 1..Len(doc) : doc[i] \in Heading
  OBVIOUS
<1>3. n \in Nat /\ n > 0 /\ f[k] \in Seq(Heading) /\ n = Len(f[k])
  BY <1>1
<1> HIDE DEF f, n
<1>4. 0 \in B
  BY <1>2, <1>3
<1>5. ASSUME NEW d \in Nat, d \in B PROVE d + 1 \in B
  <2> DEFINE i == k + d
             s == f[i]
             h == doc[i + 1]
  <2> SUFFICES ASSUME i + 1 \in Subtree(doc, k) PROVE Begins(i + 1)
    BY <1>2
  <2>1. /\ i \in 1..Len(doc) /\ i + 1 \in 1..Len(doc) /\ i \in Subtree(doc, k)
        /\ doc[i + 1].level > doc[k].level
    BY <1>2 DEF Subtree
  <2>2. Begins(i)
    BY <1>5, <2>1
  <2>3. s \in Seq(Heading) /\ Ordered(s) /\ h \in Heading /\ f[i + 1] = Push(s, h)
    <3>1. (i + 1) - 1 = i
      BY <2>1
    <3> QED BY <1>1, <1>2, <2>1, <3>1
  <2>4. n \in 1..Len(s) /\ s[n].level < h.level
    <3>1. n \in 1..Len(s)
      BY <1>3, <2>2, <2>3
    <3>2. s[n] = SubSeq(s, 1, n)[n]
      BY <1>3, <2>3, <3>1
    <3>3. s[n] = doc[k]
      BY <1>1, <1>3, <2>2, <3>2
    <3>4. s[n].level \in Nat /\ h.level \in Nat
      BY <2>3, <3>1, HeadingLevel
    <3> QED BY <2>1, <3>1, <3>3, <3>4
  <2> HIDE DEF s, h
  <2>5. n < Len(Push(s, h)) /\ SubSeq(Push(s, h), 1, n) = SubSeq(s, 1, n)
    BY <2>3, <2>4, PushPrefix
  <2>6. Push(s, h) \in Seq(Heading)
    BY <2>3, PushKeeps
  <2> QED BY <1>3, <2>2, <2>3, <2>5, <2>6 DEF s
<1>6. Nat \subseteq B
  <2> HIDE DEF B
  <2> QED BY <1>4, <1>5, Inductive
<1>7. ASSUME NEW i \in Subtree(doc, k) PROVE Begins(i)
  <2>1. i - k \in Nat /\ k + (i - k) = i
    BY <1>2 DEF Subtree
  <2>2. i - k \in B
    BY <1>6, <2>1
  <2> QED BY <2>1, <2>2
<1> QED BY <1>7 DEF f, n

LEMMA AllOfSequence == \A s \in Seq(Heading) : SubSeq(s, 1, Len(s)) = s
OBVIOUS

\* Every beginning of a stack is the stack of a heading that is above.
LEMMA StackAbove ==
  ASSUME NEW doc \in Seq(Heading)
  PROVE  \A i \in 1..Len(doc) : \A j \in 1..Len(Stacks(doc)[i]) :
           \E k \in 1..Len(doc) : i \in Subtree(doc, k) /\ SubSeq(Stacks(doc)[i], 1, j) = Stacks(doc)[k]
<1> DEFINE f == Stacks(doc)
           Found(i, j) == \E k \in 1..Len(doc) : i \in Subtree(doc, k) /\ SubSeq(f[i], 1, j) = f[k]
           B == {i \in Nat : i \in 1..Len(doc) => \A j \in 1..Len(f[i]) : Found(i, j)}
<1>1. /\ \A i \in 1..Len(doc) :
           /\ f[i - 1] \in Seq(Heading)
           /\ f[i] = Push(f[i - 1], doc[i]) /\ f[i] \in Seq(Heading) /\ Ordered(f[i])
           /\ Len(f[i]) > 0 /\ f[i][Len(f[i])] = doc[i]
      /\ f[0] = <<>>
  BY StackFacts
<1>2. Len(doc) \in Nat /\ \A i \in 1..Len(doc) : doc[i] \in Heading
  OBVIOUS
<1> HIDE DEF f
<1>3. ASSUME NEW i \in 1..Len(doc) PROVE Found(i, Len(f[i]))
  <2>1. i \in Subtree(doc, i)
    BY <1>2 DEF Subtree
  <2>2. SubSeq(f[i], 1, Len(f[i])) = f[i]
    BY <1>1, AllOfSequence
  <2> WITNESS i \in 1..Len(doc)
  <2> QED BY <2>1, <2>2
<1>4. 0 \in B
  OBVIOUS
<1>5. ASSUME NEW i \in Nat, i \in B PROVE i + 1 \in B
  <2> DEFINE s == f[i]
             h == doc[i + 1]
  <2> SUFFICES ASSUME i + 1 \in 1..Len(doc), NEW j \in 1..Len(f[i + 1]) PROVE Found(i + 1, j)
    OBVIOUS
  <2>1. s \in Seq(Heading) /\ h \in Heading /\ f[i + 1] = Push(s, h) /\ Len(s) \in Nat
    <3>1. (i + 1) - 1 = i
      OBVIOUS
    <3> QED BY <1>1, <1>2, <3>1
  <2>2. CASE j = Len(f[i + 1])
    BY <1>3, <2>2
  <2>3. CASE j # Len(f[i + 1])
    <3>1. /\ Above(s, h) \in 0..Len(s) /\ Len(Push(s, h)) = Above(s, h) + 1
      BY <2>1, PushKeeps
    <3>2. j \in 1..Len(s) /\ j < Len(Push(s, h))
      BY <2>1, <2>3, <3>1
    <3>3. i \in 1..Len(doc)
      <4>1. i # 0
        <5> SUFFICES ASSUME i = 0 PROVE FALSE
          OBVIOUS
        <5>1. s = <<>>
          BY <1>1
        <5> QED BY <3>2, <5>1
      <4> QED BY <1>2, <4>1
    <3>4. PICK k \in 1..Len(doc) : i \in Subtree(doc, k) /\ SubSeq(f[i], 1, j) = f[k]
      BY <1>5, <3>2, <3>3
    <3>5. Ordered(s)
      BY <1>1, <3>3
    <3>6. s[j].level < h.level /\ SubSeq(Push(s, h), 1, j) = SubSeq(s, 1, j)
      <4> HIDE DEF s, h
      <4> QED BY <2>1, <3>2, <3>5, PushPrefix
    <3>7. s[j] = doc[k]
      <4>1. SubSeq(s, 1, j)[j] = s[j] /\ Len(SubSeq(s, 1, j)) = j
        BY <2>1, <3>2
      <4> QED BY <1>1, <3>4, <4>1
    <3>8. i + 1 \in Subtree(doc, k)
      <4>1. h.level \in Nat /\ doc[k].level \in Nat
        BY <1>2, <2>1, HeadingLevel
      <4>2. h.level > doc[k].level
        BY <3>6, <3>7, <4>1
      <4> QED BY <1>2, <3>4, <4>2 DEF Subtree
    <3> QED BY <2>1, <3>4, <3>6, <3>8
  <2> QED BY <2>2, <2>3
<1>6. Nat \subseteq B
  <2> HIDE DEF B
  <2> QED BY <1>4, <1>5, Inductive
<1>7. \A i \in 1..Len(doc) : \A j \in 1..Len(f[i]) : Found(i, j)
  BY <1>2, <1>6
<1> QED BY <1>7 DEF f

LEMMA SameSequence ==
  ASSUME NEW s \in Seq(STRING), NEW t \in Seq(STRING), Len(s) = Len(t), \A n \in 1..Len(s) : s[n] = t[n]
  PROVE  s = t
OBVIOUS

\* A selected path selects what is below its headings.
LEMMA PathSelects ==
  ASSUME NEW doc \in Seq(Heading), NEW paths, <<>> \notin paths, \A s \in paths : s \in Seq(STRING),
         NEW i \in 1..Len(doc)
  PROVE  PathIsSelected(Path(doc, i), paths) <=>
           (\E k \in 1..Len(doc) : Path(doc, k) \in paths /\ i \in Subtree(doc, k))
<1> DEFINE f == Stacks(doc)
<1>1. ASSUME NEW k \in 1..Len(doc)
      PROVE  /\ f[k] \in Seq(Heading) /\ Len(f[k]) \in Nat /\ Len(f[k]) > 0
             /\ Path(doc, k) \in Seq(STRING) /\ Len(Path(doc, k)) = Len(f[k])
             /\ \A n \in 1..Len(f[k]) : Path(doc, k)[n] = f[k][n].title
  <2>1. f[k] \in Seq(Heading) /\ Len(f[k]) > 0
    BY StackFacts
  <2> HIDE DEF f
  <2>2. \A n \in 1..Len(f[k]) : f[k][n].title \in STRING
    <3>1. \A h \in Heading : h.title \in STRING
      BY DEF Heading
    <3> QED BY <2>1, <3>1
  <2>3. Path(doc, k) = [n \in 1..Len(f[k]) |-> f[k][n].title]
    BY <2>1 DEF Path, Titles, f
  <2> QED BY <2>1, <2>2, <2>3
<1> HIDE DEF f
<1>2. ASSUME NEW s \in paths, IsPrefix(s, Path(doc, i))
      PROVE  \E k \in 1..Len(doc) : Path(doc, k) \in paths /\ i \in Subtree(doc, k)
  <2>1. Len(s) \in 1..Len(f[i]) /\ s \in Seq(STRING)
    BY <1>1, <1>2 DEF IsPrefix
  <2>2. PICK k \in 1..Len(doc) : i \in Subtree(doc, k) /\ SubSeq(f[i], 1, Len(s)) = f[k]
    BY <2>1, StackAbove DEF f
  <2>3. Len(f[k]) = Len(s) /\ \A n \in 1..Len(s) : f[k][n] = f[i][n]
    BY <1>1, <2>1, <2>2
  <2>4. SubSeq(s, 1, Len(s)) = s /\ Path(doc, i) \in Seq(STRING) /\ Len(s) <= Len(Path(doc, i))
    BY <1>1, <2>1
  <2>5. s = SubSeq(Path(doc, i), 1, Len(s))
    BY <1>2, <2>4 DEF IsPrefix
  <2>6. \A n \in 1..Len(s) : s[n] = Path(doc, i)[n]
    BY <2>1, <2>4, <2>5
  <2>7. ASSUME NEW n \in 1..Len(s) PROVE Path(doc, k)[n] = s[n]
    <3>1. n \in 1..Len(f[i]) /\ n \in 1..Len(f[k])
      BY <1>1, <2>1, <2>3
    <3>2. Path(doc, k)[n] = f[k][n].title /\ Path(doc, i)[n] = f[i][n].title
      BY <1>1, <3>1
    <3> QED BY <2>3, <2>6, <3>2
  <2>8. Path(doc, k) = s
    BY <1>1, <2>1, <2>3, <2>7, SameSequence
  <2> QED BY <2>2, <2>8
<1>3. ASSUME NEW k \in 1..Len(doc), Path(doc, k) \in paths, i \in Subtree(doc, k)
      PROVE  IsPrefix(Path(doc, k), Path(doc, i))
  <2>1. Len(f[k]) <= Len(f[i]) /\ SubSeq(f[i], 1, Len(f[k])) = f[k]
    BY <1>3, StackOfSubtree DEF f
  <2>2. \A n \in 1..Len(f[k]) : f[k][n] = f[i][n]
    BY <1>1, <2>1
  <2>3. ASSUME NEW n \in 1..Len(f[k]) PROVE Path(doc, k)[n] = Path(doc, i)[n]
    <3>1. n \in 1..Len(f[i])
      BY <1>1, <2>1
    <3>2. Path(doc, k)[n] = f[k][n].title /\ Path(doc, i)[n] = f[i][n].title
      BY <1>1, <3>1
    <3> QED BY <2>2, <3>2
  <2> DEFINE p == Path(doc, k)
             q == Path(doc, i)
  <2>4. p \in Seq(STRING) /\ q \in Seq(STRING) /\ Len(p) <= Len(q) /\ \A n \in 1..Len(p) : p[n] = q[n]
    BY <1>1, <2>1, <2>3
  <2> HIDE DEF p, q
  <2>5. SubSeq(p, 1, Len(p)) = SubSeq(q, 1, Len(p))
    <3>1. /\ SubSeq(p, 1, Len(p)) = [n \in 1..Len(p) |-> p[n]]
          /\ SubSeq(q, 1, Len(p)) = [n \in 1..Len(p) |-> q[n]]
      BY <2>4
    <3> QED BY <2>4, <3>1
  <2> QED BY <2>4, <2>5 DEF IsPrefix, p, q
<1> QED BY <1>2, <1>3 DEF PathIsSelected

\* What _resolve_section_specs returns are paths of headings, and nothing only where no
\* section is named.
LEMMA ResolvedPaths ==
  ASSUME NEW doc \in Seq(Heading), NEW specs, NEW required \in BOOLEAN,
         ResolveSpecs(specs, doc, required) # Error
  PROVE  /\ <<>> \notin ResolveSpecs(specs, doc, required)
         /\ \A s \in ResolveSpecs(specs, doc, required) : s \in Seq(STRING)
         /\ required => (ResolveSpecs(specs, doc, required) = {} <=> specs = {})
<1>1. \A s \in specs : ~(required /\ Candidates(s, doc) = {})
  BY DEF ResolveSpecs
<1>2. ResolveSpecs(specs, doc, required) = UNION {Candidates(s, doc) : s \in specs}
  BY DEF ResolveSpecs
<1>3. DOMAIN doc = 1..Len(doc)
  OBVIOUS
<1>4. ASSUME NEW i \in 1..Len(doc) PROVE Path(doc, i) \in Seq(STRING) /\ Path(doc, i) # <<>>
  <2> DEFINE f == Stacks(doc)
  <2>1. f[i] \in Seq(Heading) /\ Len(f[i]) > 0
    BY StackFacts
  <2> HIDE DEF f
  <2>2. \A n \in 1..Len(f[i]) : f[i][n].title \in STRING
    <3>1. \A h \in Heading : h.title \in STRING
      BY DEF Heading
    <3> QED BY <2>1, <3>1
  <2>3. Path(doc, i) = [n \in 1..Len(f[i]) |-> f[i][n].title]
    BY <2>1 DEF Path, Titles, f
  <2>4. Path(doc, i) \in Seq(STRING) /\ Len(Path(doc, i)) = Len(f[i])
    BY <2>1, <2>2, <2>3
  <2> QED BY <2>1, <2>4
<1>5. \A s \in specs : Candidates(s, doc) \subseteq Paths(doc)
  BY <1>3 DEF Candidates, Paths, Titled
<1>6. \A p \in Paths(doc) : p \in Seq(STRING) /\ p # <<>>
  BY <1>3, <1>4 DEF Paths
<1> QED BY <1>1, <1>2, <1>5, <1>6

LEMMA WholeParts ==
  ASSUME NEW ref, NEW doc \in Seq(Heading), NEW compose
  PROVE  WholePartsSelected(ref, doc, compose)
<1> DEFINE chosen  == Project(ref, doc, compose)
           include == ResolveSpecs(compose.include, doc, TRUE)
           exclude == ResolveSpecs(compose.exclude, doc, FALSE)
           below(paths) == UNION {Subtree(doc, i) : i \in {k \in DOMAIN doc : Path(doc, k) \in paths}}
<1> SUFFICES ASSUME chosen # Error
             PROVE  chosen = (IF compose.include = {} THEN DOMAIN doc ELSE below(include)) \ below(exclude)
  BY DEF WholePartsSelected
<1>1. /\ include # Error /\ exclude # Error
      /\ chosen = {i \in DOMAIN doc : /\ include # {} => PathIsSelected(Path(doc, i), include)
                                      /\ ~PathIsSelected(Path(doc, i), exclude)}
  BY DEF Project
<1>2. DOMAIN doc = 1..Len(doc) /\ \A k \in DOMAIN doc : Subtree(doc, k) \subseteq DOMAIN doc
  BY DEF Subtree
<1>3. /\ <<>> \notin include /\ \A s \in include : s \in Seq(STRING)
      /\ include = {} <=> compose.include = {}
  BY <1>1, ResolvedPaths
<1>4. <<>> \notin exclude /\ \A s \in exclude : s \in Seq(STRING)
  BY <1>1, ResolvedPaths
<1> HIDE DEF chosen, include, exclude
<1>5. \A i \in DOMAIN doc : PathIsSelected(Path(doc, i), include) <=> i \in below(include)
  <2> SUFFICES ASSUME NEW i \in 1..Len(doc)
               PROVE  PathIsSelected(Path(doc, i), include) <=> i \in below(include)
    BY <1>2
  <2>1. PathIsSelected(Path(doc, i), include) <=>
          (\E k \in 1..Len(doc) : Path(doc, k) \in include /\ i \in Subtree(doc, k))
    BY <1>3, PathSelects
  <2>2. i \in below(include) <=> \E k \in 1..Len(doc) : Path(doc, k) \in include /\ i \in Subtree(doc, k)
    BY <1>2
  <2> HIDE DEF below
  <2> QED BY <2>1, <2>2
<1>6. \A i \in DOMAIN doc : PathIsSelected(Path(doc, i), exclude) <=> i \in below(exclude)
  <2> SUFFICES ASSUME NEW i \in 1..Len(doc)
               PROVE  PathIsSelected(Path(doc, i), exclude) <=> i \in below(exclude)
    BY <1>2
  <2>1. PathIsSelected(Path(doc, i), exclude) <=>
          (\E k \in 1..Len(doc) : Path(doc, k) \in exclude /\ i \in Subtree(doc, k))
    BY <1>4, PathSelects
  <2>2. i \in below(exclude) <=> \E k \in 1..Len(doc) : Path(doc, k) \in exclude /\ i \in Subtree(doc, k)
    BY <1>2
  <2> HIDE DEF below
  <2> QED BY <2>1, <2>2
<1>7. below(include) \subseteq DOMAIN doc
  BY <1>2
<1> HIDE DEF below
<1> QED BY <1>1, <1>3, <1>5, <1>6, <1>7

LEMMA WholePrompt == \A blocks : PromptIsPartitioned(blocks)
<1> SUFFICES ASSUME NEW blocks, PromptSections(blocks) # Error, NEW i \in DOMAIN blocks
             PROVE  (i \in PromptSections(blocks).system_prompt) #
                      (/\ blocks[i].tag \in DOMAIN PromptSections(blocks).sections
                       /\ PromptSections(blocks).sections[blocks[i].tag] = i)
  BY DEF PromptIsPartitioned
<1> DEFINE tags == {blocks[k].tag : k \in DOMAIN blocks} \ {"loose"}
           tagged(t) == {k \in DOMAIN blocks : blocks[k].tag = t}
           parts == PromptSections(blocks)
<1>1. CASE tags = {}
  <2>1. parts.system_prompt = DOMAIN blocks /\ parts.sections = <<>>
    BY <1>1 DEF PromptSections
  <2>2. DOMAIN parts.sections = {}
    BY <2>1
  <2> HIDE DEF parts
  <2> QED BY <2>1, <2>2 DEF parts
<1>2. CASE tags # {}
  <2>1. /\ tagged("loose") = {}
        /\ \A k, l \in DOMAIN blocks : k # l => blocks[k].tag # blocks[l].tag
        /\ parts = [system_prompt |-> tagged("workflow_system"),
                    sections |-> [t \in tags \ {"workflow_system"} |-> CHOOSE k \in tagged(t) : TRUE]]
    BY <1>2 DEF PromptSections
  <2>2. /\ parts.system_prompt = tagged("workflow_system")
        /\ DOMAIN parts.sections = tags \ {"workflow_system"}
        /\ \A t \in tags \ {"workflow_system"} : parts.sections[t] = CHOOSE k \in tagged(t) : TRUE
    BY <2>1
  <2>3. blocks[i].tag \in tags
    BY <2>1
  <2>4. tagged(blocks[i].tag) = {i}
    BY <2>1
  <2>5. (CHOOSE k \in {i} : TRUE) = i
    OBVIOUS
  <2> HIDE DEF parts
  <2>6. CASE blocks[i].tag = "workflow_system"
    BY <2>2, <2>6 DEF parts
  <2>7. CASE blocks[i].tag # "workflow_system"
    <3>1. /\ blocks[i].tag \in DOMAIN parts.sections
          /\ parts.sections[blocks[i].tag] = CHOOSE k \in tagged(blocks[i].tag) : TRUE
      BY <2>2, <2>3, <2>7
    <3>2. parts.sections[blocks[i].tag] = i
      <4> HIDE DEF tagged
      <4> QED BY <2>4, <2>5, <3>1
    <3>3. i \notin parts.system_prompt
      BY <2>2, <2>7
    <3> QED BY <3>1, <3>2, <3>3 DEF parts
  <2> QED BY <2>6, <2>7
<1> QED BY <1>1, <1>2

\* Whatever headings a document has and whatever sections are named, and whatever blocks
\* the prompt of a workflow has, prompts are taken over in whole parts.
THEOREM TakenWhole ==
  ASSUME asked = "sections" => given[1] \in Seq(Heading)
  PROVE  PromptsTakenWhole
BY WholeParts, WholePrompt DEF PromptsTakenWhole

(***************************************************************************)
(* ModelMessages: the prompts that are shown are those that were sent.     *)
(***************************************************************************)
FoundIn(f, messages, n) ==
  f = [i \in 0..n |-> IF i = 0 THEN NothingFound ELSE Read(f[i - 1], messages[i])]

LEMMA FoundExists ==
  ASSUME NEW messages
  PROVE  \A n \in Nat : \E f : FoundIn(f, messages, n)
<1> DEFINE B == {n \in Nat : \E f : FoundIn(f, messages, n)}
<1>1. 0 \in B
  <2>1. [i \in 0..0 |-> NothingFound] = [i \in 0..0 |-> IF i = 0 THEN NothingFound ELSE Read([j \in 0..0 |-> NothingFound][i - 1], messages[i])]
    OBVIOUS
  <2> QED BY <2>1 DEF FoundIn
<1>2. ASSUME NEW n \in Nat, n \in B PROVE n + 1 \in B
  <2>1. PICK f : FoundIn(f, messages, n)
    BY <1>2
  <2> DEFINE g == [i \in 0..(n + 1) |-> IF i = n + 1 THEN Read(f[n], messages[n + 1]) ELSE f[i]]
  <2>2. ASSUME NEW i \in 0..(n + 1) PROVE g[i] = IF i = 0 THEN NothingFound ELSE Read(g[i - 1], messages[i])
    <3>1. CASE i = n + 1
      <4>1. g[i] = Read(f[n], messages[n + 1]) /\ g[i - 1] = f[n] /\ i # 0
        BY <3>1
      <4> HIDE DEF g
      <4> QED BY <3>1, <4>1
    <3>2. CASE i # n + 1
      <4>1. i \in 0..n /\ g[i] = f[i] /\ (i # 0 => g[i - 1] = f[i - 1])
        BY <3>2
      <4> HIDE DEF g
      <4>2. f[i] = IF i = 0 THEN NothingFound ELSE Read(f[i - 1], messages[i])
        BY <2>1, <4>1 DEF FoundIn
      <4> QED BY <4>1, <4>2
    <3> QED BY <3>1, <3>2
  <2>3. g = [i \in 0..(n + 1) |-> g[i]]
    OBVIOUS
  <2> HIDE DEF g
  <2>4. FoundIn(g, messages, n + 1)
    BY <2>2, <2>3 DEF FoundIn
  <2> QED BY <2>4
<1>3. Nat \subseteq B
  <2> HIDE DEF B
  <2> QED BY <1>1, <1>2, Inductive
<1> QED BY <1>3

LEMMA FoundIs ==
  ASSUME NEW messages, Len(messages) \in Nat
  PROVE  FoundIn(FoundPrompts(messages), messages, Len(messages))
<1>1. \E f : FoundIn(f, messages, Len(messages))
  BY FoundExists
<1>2. FoundIn(CHOOSE f : FoundIn(f, messages, Len(messages)), messages, Len(messages))
  BY <1>1
<1> QED BY <1>2 DEF FoundPrompts, FoundIn

TextsOf(f, messages, n) ==
  f = [i \in 0..n |-> IF i = 0 THEN <<>>
                      ELSE IF messages[i].role = "user" THEN Append(f[i - 1], messages[i].text) ELSE f[i - 1]]

LEMMA TextsExist ==
  ASSUME NEW messages
  PROVE  \A n \in Nat : \E f : TextsOf(f, messages, n)
<1> DEFINE B == {n \in Nat : \E f : TextsOf(f, messages, n)}
           Longer(s, i) == IF messages[i].role = "user" THEN Append(s, messages[i].text) ELSE s
<1>1. 0 \in B
  <2>1. [i \in 0..0 |-> <<>>] = [i \in 0..0 |-> IF i = 0 THEN <<>>
             ELSE IF messages[i].role = "user" THEN Append([j \in 0..0 |-> <<>>][i - 1], messages[i].text)
                                               ELSE [j \in 0..0 |-> <<>>][i - 1]]
    OBVIOUS
  <2> QED BY <2>1 DEF TextsOf
<1>2. ASSUME NEW n \in Nat, n \in B PROVE n + 1 \in B
  <2>1. PICK f : TextsOf(f, messages, n)
    BY <1>2
  <2> DEFINE g == [i \in 0..(n + 1) |-> IF i = n + 1 THEN Longer(f[n], n + 1) ELSE f[i]]
  <2>2. ASSUME NEW i \in 0..(n + 1) PROVE g[i] = IF i = 0 THEN <<>> ELSE Longer(g[i - 1], i)
    <3>1. CASE i = n + 1
      <4>1. g[i] = Longer(f[n], n + 1) /\ g[i - 1] = f[n] /\ i # 0
        BY <3>1
      <4> HIDE DEF g
      <4> QED BY <3>1, <4>1
    <3>2. CASE i # n + 1
      <4>1. i \in 0..n /\ g[i] = f[i] /\ (i # 0 => g[i - 1] = f[i - 1])
        BY <3>2
      <4> HIDE DEF g
      <4>2. f[i] = IF i = 0 THEN <<>> ELSE Longer(f[i - 1], i)
        BY <2>1, <4>1 DEF TextsOf
      <4> QED BY <4>1, <4>2
    <3> QED BY <3>1, <3>2
  <2>3. g = [i \in 0..(n + 1) |-> g[i]]
    OBVIOUS
  <2> HIDE DEF g
  <2>4. TextsOf(g, messages, n + 1)
    BY <2>2, <2>3 DEF TextsOf
  <2> QED BY <2>4
<1>3. Nat \subseteq B
  <2> HIDE DEF B
  <2> QED BY <1>1, <1>2, Inductive
<1> QED BY <1>3

LEMMA UserTextsAre ==
  ASSUME NEW messages, Len(messages) \in Nat
  PROVE  \E f : TextsOf(f, messages, Len(messages)) /\ UserTexts(messages) = f[Len(messages)]
<1>1. \E f : TextsOf(f, messages, Len(messages))
  BY TextsExist
<1>2. TextsOf(CHOOSE f : TextsOf(f, messages, Len(messages)), messages, Len(messages))
  BY <1>1
<1> QED BY <1>2 DEF UserTexts, TextsOf

\* A message of the user or of another role that is put first, and the texts after it.
LEMMA TextsAfter ==
  ASSUME NEW a, NEW b, NEW n \in Nat, NEW f, NEW g,
         TextsOf(f, a, n + 1), TextsOf(g, b, n),
         a[1].role # "user", \A i \in 1..n : a[i + 1] = b[i]
  PROVE  f[n + 1] = g[n]
<1> DEFINE B == {i \in Nat : i <= n => f[i + 1] = g[i]}
<1>1. ASSUME NEW i \in 1..(n + 1)
      PROVE  f[i] = IF a[i].role = "user" THEN Append(f[i - 1], a[i].text) ELSE f[i - 1]
  <2>1. i \in 0..(n + 1) /\ i # 0
    OBVIOUS
  <2> QED BY <2>1 DEF TextsOf
<1>2. ASSUME NEW i \in 1..n
      PROVE  g[i] = IF b[i].role = "user" THEN Append(g[i - 1], b[i].text) ELSE g[i - 1]
  <2>1. i \in 0..n /\ i # 0
    OBVIOUS
  <2> QED BY <2>1 DEF TextsOf
<1>3. f[0] = <<>> /\ g[0] = <<>>
  <2>1. 0 \in 0..(n + 1) /\ 0 \in 0..n
    OBVIOUS
  <2> QED BY <2>1 DEF TextsOf
<1>4. 0 \in B
  <2>1. f[1] = f[0]
    BY <1>1
  <2> QED BY <1>3, <2>1
<1>5. ASSUME NEW i \in Nat, i \in B PROVE i + 1 \in B
  <2> SUFFICES ASSUME i + 1 <= n PROVE f[(i + 1) + 1] = g[i + 1]
    OBVIOUS
  <2>1. (i + 1) + 1 \in 1..(n + 1) /\ i + 1 \in 1..n /\ ((i + 1) + 1) - 1 = i + 1 /\ (i + 1) - 1 = i
    OBVIOUS
  <2>2. f[i + 1] = g[i] /\ a[(i + 1) + 1] = b[i + 1]
    BY <1>5, <2>1
  <2> QED BY <1>1, <1>2, <2>1, <2>2
<1>6. Nat \subseteq B
  <2> HIDE DEF B
  <2> QED BY <1>4, <1>5, Inductive
<1> QED BY <1>6

\* The second sequence is the first one without its first element.
Behind(a, b, n) == \A i \in 1..n : a[i + 1] = b[i]

\* Behind the system message that is put first nothing but texts of the user is found.
LEMMA FoundAfter ==
  ASSUME NEW a, NEW b, NEW n \in Nat, NEW f, NEW g,
         FoundIn(f, a, n + 1), TextsOf(g, b, n),
         a[1] = System("combined"), Behind(a, b, n)
  PROVE  f[n + 1] = [system |-> "combined", users |-> g[n]]
<1> DEFINE Shown(i) == [system |-> "combined", users |-> g[i]]
           B == {i \in Nat : i <= n => f[i + 1] = Shown(i)}
<1>1. ASSUME NEW i \in 1..(n + 1) PROVE f[i] = Read(f[i - 1], a[i])
  <2>1. i \in 0..(n + 1) /\ i # 0
    OBVIOUS
  <2> QED BY <2>1 DEF FoundIn
<1>2. ASSUME NEW i \in 1..n
      PROVE  g[i] = IF b[i].role = "user" THEN Append(g[i - 1], b[i].text) ELSE g[i - 1]
  <2>1. i \in 0..n /\ i # 0
    OBVIOUS
  <2> QED BY <2>1 DEF TextsOf
<1>3. f[0] = NothingFound /\ g[0] = <<>>
  <2>1. 0 \in 0..(n + 1) /\ 0 \in 0..n
    OBVIOUS
  <2> QED BY <2>1 DEF FoundIn, TextsOf
<1>4. 0 \in B
  <2>1. f[1] = Read(f[0], a[1])
    BY <1>1
  <2>2. Read(NothingFound, System("combined")) = [system |-> "combined", users |-> <<>>]
    BY DEF Read, System, NothingFound
  <2>3. f[1] = [system |-> "combined", users |-> <<>>]
    BY <1>3, <2>1, <2>2
  <2> QED BY <1>3, <2>3
<1>5. ASSUME NEW i \in Nat, i \in B PROVE i + 1 \in B
  <2> SUFFICES ASSUME i + 1 <= n PROVE f[(i + 1) + 1] = Shown(i + 1)
    OBVIOUS
  <2>1. (i + 1) + 1 \in 1..(n + 1) /\ i + 1 \in 1..n /\ ((i + 1) + 1) - 1 = i + 1 /\ (i + 1) - 1 = i
    OBVIOUS
  <2>2. f[i + 1] = Shown(i) /\ f[(i + 1) + 1] = Read(f[i + 1], b[i + 1])
    BY <1>1, <1>5, <2>1 DEF Behind
  <2>3. Read(Shown(i), b[i + 1]) = Shown(i + 1)
    <3>1. CASE b[i + 1].role = "user"
      <4>1. g[i + 1] = Append(g[i], b[i + 1].text)
        BY <1>2, <2>1, <3>1
      <4> QED BY <3>1, <4>1 DEF Read
    <3>2. CASE b[i + 1].role # "user"
      <4>1. g[i + 1] = g[i]
        BY <1>2, <2>1, <3>2
      <4> QED BY <3>2, <4>1 DEF Read
    <3> QED BY <3>1, <3>2
  <2> QED BY <2>2, <2>3
<1>6. Nat \subseteq B
  <2> HIDE DEF B
  <2> QED BY <1>4, <1>5, Inductive
<1>7. n \in B
  BY <1>6
<1> QED BY <1>7

\* What is found in a request that begins with the assembled system prompt.
LEMMA FoundBehind ==
  ASSUME NEW n \in Nat, NEW rest, Len(rest) = n,
         NEW sent, Len(sent) = n + 1, sent[1] = System("combined"),
         Behind(sent, rest, n)
  PROVE  FoundPrompts(sent)[n + 1] = [system |-> "combined", users |-> UserTexts(rest)]
<1>1. Len(sent) \in Nat /\ Len(rest) \in Nat
  OBVIOUS
<1>2. FoundIn(FoundPrompts(sent), sent, Len(sent))
  BY <1>1, FoundIs
<1>3. FoundIn(FoundPrompts(sent), sent, n + 1)
  BY <1>2
<1>4. PICK g : TextsOf(g, rest, Len(rest)) /\ UserTexts(rest) = g[Len(rest)]
  BY <1>1, UserTextsAre
<1>5. TextsOf(g, rest, n) /\ UserTexts(rest) = g[n]
  BY <1>4
<1>6. PICK f : f = FoundPrompts(sent)
  OBVIOUS
<1>7. FoundIn(f, sent, n + 1)
  BY <1>3, <1>6
<1>8. f[n + 1] = [system |-> "combined", users |-> g[n]]
  BY <1>5, <1>7, FoundAfter
<1> QED BY <1>5, <1>6, <1>8

LEMMA FoundInRequest ==
  ASSUME NEW T, NEW rest \in Seq(T), NEW driver,
         NEW sent, sent = <<System("combined")>> \o rest
  PROVE  ExtractPrompts(RequestTrace(driver, sent)) = [system |-> "combined", users |-> UserTexts(rest)]
<1> DEFINE n == Len(rest)
<1>1. /\ n \in Nat /\ Len(sent) = n + 1 /\ sent # <<>> /\ sent[1] = System("combined")
      /\ \A i \in 1..n : sent[i + 1] = rest[i]
  OBVIOUS
<1>2. NormaliseToMessages(RequestTrace(driver, sent)) = sent
  BY <1>1 DEF NormaliseToMessages, RequestTrace
<1>3. Len(rest) = n /\ Behind(sent, rest, n)
  BY <1>1 DEF Behind
<1> HIDE DEF n
<1>4. FoundPrompts(sent)[n + 1] = [system |-> "combined", users |-> UserTexts(rest)]
  BY <1>1, <1>3, FoundBehind
<1>5. Len(sent) = n + 1
  BY <1>1
<1> QED BY <1>2, <1>4, <1>5 DEF ExtractPrompts

LEMMA SentPrompts ==
  ASSUME NEW T, NEW messages \in Seq(T), NEW prompt, NEW driver
  PROVE  PromptsAreSent(driver, [messages |-> messages, user_prompt |-> prompt])
<1> DEFINE request == [messages |-> messages, user_prompt |-> prompt]
           sent    == MergeRuntimeSystem(request)
           said    == IF messages = <<>> THEN <<User(prompt)>> ELSE messages
<1> SUFFICES ExtractPrompts(RequestTrace(driver, sent)) = [system |-> "combined", users |-> UserTexts(said)]
  BY DEF PromptsAreSent
<1>1. CASE messages = <<>>
  <2>1. sent = <<System("combined")>> \o <<User(prompt)>> /\ said = <<User(prompt)>>
    BY <1>1 DEF MergeRuntimeSystem
  <2>2. <<User(prompt)>> \in Seq({User(prompt)})
    OBVIOUS
  <2> HIDE DEF sent, said
  <2> QED BY <2>1, <2>2, FoundInRequest
<1>2. CASE messages # <<>> /\ messages[1].role # "system"
  <2>1. sent = <<System("combined")>> \o messages /\ said = messages
    BY <1>2 DEF MergeRuntimeSystem
  <2> HIDE DEF sent, said
  <2> QED BY <2>1, FoundInRequest
<1>3. CASE messages # <<>> /\ messages[1].role = "system"
  <2> DEFINE rest == Tail(messages)
             n    == Len(rest)
  <2>1. sent = <<System("combined")>> \o rest /\ said = messages
    BY <1>3 DEF MergeRuntimeSystem
  <2>2. /\ rest \in Seq(T) /\ n \in Nat /\ Len(messages) = n + 1
        /\ \A i \in 1..n : messages[i + 1] = rest[i]
    BY <1>3
  <2> HIDE DEF sent, said, rest
  <2>3. PICK f : TextsOf(f, messages, n + 1) /\ UserTexts(messages) = f[n + 1]
    BY <2>2, UserTextsAre
  <2>4. PICK g : TextsOf(g, rest, n) /\ UserTexts(rest) = g[n]
    BY <2>2, UserTextsAre
  <2>5. messages[1].role # "user"
    BY <1>3
  <2> HIDE DEF n
  <2>6. f[n + 1] = g[n]
    BY <2>2, <2>3, <2>4, <2>5, TextsAfter
  <2> QED BY <2>1, <2>2, <2>3, <2>4, <2>6, FoundInRequest
<1> QED BY <1>1, <1>2, <1>3

\* Whichever driver traced the first request, and whatever messages the conversation had,
\* the evaluator shows the prompts as the model got them.
THEOREM ShownAsSent ==
  ASSUME asked = "messages" => \E T : given[2] \in Seq(T)
  PROVE  PromptsAsSent
BY SentPrompts DEF PromptsAsSent
=============================================================================
