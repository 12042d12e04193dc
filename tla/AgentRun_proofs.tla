--------------------------- MODULE AgentRun_proofs ---------------------------
(***************************************************************************)
(* Proofs about AgentRun, for any agents, tools, policies and routing      *)
(* parameters, any depth of calls and callbacks and any number of runs:    *)
(* the run registry's lineage leads a callback to the right caller, no     *)
(* call context is forgotten open, only entitled agents answer and only    *)
(* what an agent declares is executed.                                     *)
(***************************************************************************)
EXTENDS AgentRun, TLAPS, FiniteSetTheorems, SequenceTheorems

Waiting == {"child", "caller"}
Pcs == {"bootstrap", "pre", "early", "turn", "tool", "post", "returning", "raising"}
         \cup Waiting \cup Asking

Outcome == [status : {"none", "completed", "stopped", "failed"}, message : BOOLEAN]
Entries == {"prompt", "decision", "tool_result", "tool_error", "tool_validation_error",
            "skill_error", "loaded", "resources_loaded", "already_loaded", "subagent_call",
            "subagent_result", "subagent_error", "subagent_validation_error",
            "subagent_batch_results", "callback_answer"}

Id   == Seq(Nat \cup Agent)
AskT == [route : Routes \cup {None}, caller : Agent \cup {"host", "user", "nobody", None},
         parent : Id \cup {None}, hops : Nat]
RunT == [id : Id, agent : Agent, caller : Agent \cup {"host"}, parent : Id \cup {None},
         pc : Pcs, turns : Nat, last : Entries, tool : Tool \cup {None}, skills : SUBSET Skill,
         ask : AskT, outcome : Outcome]

-----------------------------------------------------------------------------
(***************************************************************************)
(* The inductive invariant: of a stack s of runs and a registry reg ...    *)
(***************************************************************************)

Entitled(agent, route) == agent \notin route.skip /\ (route.by = {} \/ agent \in route.by)

\* A run by itself.
Local(r) ==
  /\ r.pc = "tool" => r.tool \in Tools[r.agent] \ TerminalTools
  /\ r.pc \in Asking => r.ask.route \in Routes
  /\ r.pc \in {"resolving", "caller"} => r.ask.caller \in Agent \cup {"host"}
  /\ r.pc \in {"answered", "caller"} /\ r.ask.caller \in Agent => Entitled(r.ask.caller, r.ask.route)

\* All runs but the top one wait, and a child knows who called it.
Linked(s, i) ==
  /\ i < Len(s) <=> s[i].pc \in Waiting
  /\ s[i].caller # "host" => /\ i > 1 /\ s[i - 1].pc = "child"
                             /\ s[i].caller = s[i - 1].agent /\ s[i].parent = s[i - 1].id

\* The callback got to a run as many calls below as it has hopped.
Climbed(s, i) ==
  s[i].pc \in {"resolving", "caller"} /\ s[i].ask.caller # "host" =>
    LET climbed == s[i].ask.hops - s[i].ask.route.hops
    IN  /\ climbed \in 1..(i - 1)
        /\ s[i - climbed].agent = s[i].ask.caller /\ s[i - climbed].id = s[i].ask.parent
        /\ \A k \in (i - climbed)..(i - 1) : s[k].pc = "child"

\* Ids of one root get longer, so no two runs of the stack have one id.
Ids(s) ==
  /\ \A i \in 1..Len(s) : Len(s[i].id) > 0
  /\ \A i, j \in 1..Len(s) : i < j /\ s[i].id[1] = s[j].id[1] => Len(s[i].id) < Len(s[j].id)

Lineage(r) == [agent |-> r.agent, caller |-> r.caller, parent |-> r.parent]

Registered(s, reg) ==
  \A i \in 1..Len(s) : s[i].id \in DOMAIN reg /\ reg[s[i].id] = Lineage(s[i])

\* The roots' ids are <<1>>, <<2>>, ...
Roots(s, reg) ==
  \E n \in Nat : /\ {id \in DOMAIN reg : Len(id) = 1} = {<<k>> : k \in 1..n}
                 /\ \A i \in 1..Len(s) : s[i].id[1] \in 1..n

StackOK(s, reg) ==
  /\ s \in Seq(RunT) /\ DOMAIN reg \subseteq Id
  /\ Ids(s) /\ Registered(s, reg) /\ Roots(s, reg)
  /\ \A i \in 1..Len(s) : Local(s[i]) /\ Linked(s, i) /\ Climbed(s, i)

(***************************************************************************)
(* ... and of the other variables.                                         *)
(***************************************************************************)

StackInv == StackOK(stack, _run_registry)

\* Every run that waits for an answer has one open context, and a run that left with an
\* exception is the only one that may have left more.
ContextInv ==
  /\ \A id \in DOMAIN contexts : contexts[id] \in Nat
  /\ \A i \in 1..Len(stack) : stack[i].pc \in Asking =>
       stack[i].id \in DOMAIN contexts /\ contexts[stack[i].id] > 0
  /\ \A id \in DOMAIN contexts : contexts[id] > 0 /\ id \notin raised =>
       /\ contexts[id] = 1
       /\ \E i \in 1..Len(stack) : stack[i].id = id /\ stack[i].pc \in Asking \cup {"raising"}

IInv == StackInv /\ ContextInv /\ AnswererIsEntitled /\ OnlyDeclaredExecuted

-----------------------------------------------------------------------------
(***************************************************************************)
(* Stacks.                                                                 *)
(***************************************************************************)

SameRun(r, t) == r \in RunT /\ r.id = t.id /\ r.agent = t.agent /\ r.caller = t.caller
                 /\ r.parent = t.parent

\* How far a callback has climbed depends on the runs below only.
LEMMA SameClimb ==
  ASSUME NEW s, NEW t, NEW i \in Nat \ {0}, \A k \in 1..i : t[k] = s[k], Climbed(s, i)
  PROVE  Climbed(t, i)
<1>. SUFFICES ASSUME s[i].pc \in {"resolving", "caller"}, s[i].ask.caller # "host"
              PROVE  LET climbed == s[i].ask.hops - s[i].ask.route.hops
                     IN  /\ climbed \in 1..(i - 1)
                         /\ t[i - climbed].agent = s[i].ask.caller
                         /\ t[i - climbed].id = s[i].ask.parent
                         /\ \A k \in (i - climbed)..(i - 1) : t[k].pc = "child"
  BY DEF Climbed
<1>. DEFINE climbed == s[i].ask.hops - s[i].ask.route.hops
<1>1. /\ climbed \in 1..(i - 1)
      /\ s[i - climbed].agent = s[i].ask.caller /\ s[i - climbed].id = s[i].ask.parent
      /\ \A k \in (i - climbed)..(i - 1) : s[k].pc = "child"
  BY DEF Climbed
<1>. HIDE DEF climbed
<1>2. i - climbed \in 1..i /\ \A k \in (i - climbed)..(i - 1) : k \in 1..i
  BY <1>1
<1>3. t[i - climbed] = s[i - climbed] /\ \A k \in (i - climbed)..(i - 1) : t[k] = s[k]
  BY <1>2
<1>4. \A k \in (i - climbed)..(i - 1) : t[k].pc = "child"
  BY <1>1, <1>3
<1>. QED  BY <1>1, <1>3, <1>4 DEF climbed

\* The top run moves on.
LEMMA TopChanges ==
  ASSUME NEW s, NEW reg, StackOK(s, reg), s # <<>>,
         NEW r, SameRun(r, s[Len(s)]), r.pc \notin Waiting, Local(r),
         NEW t, t = [s EXCEPT ![Len(s)] = r], Climbed(t, Len(t))
  PROVE  StackOK(t, reg)
<1>. DEFINE n == Len(s)
<1>1. /\ s \in Seq(RunT) /\ n \in Nat \ {0} /\ t \in Seq(RunT) /\ Len(t) = n /\ Len(s) = n
      /\ \A i \in 1..n : i < n => t[i] = s[i]
      /\ t[n] = r /\ SameRun(r, s[n])
  BY DEF StackOK, SameRun
<1>. HIDE DEF n
<1>2. ASSUME NEW i \in 1..n
      PROVE  /\ t[i].id = s[i].id /\ t[i].agent = s[i].agent
             /\ t[i].caller = s[i].caller /\ t[i].parent = s[i].parent
  <2>1. CASE i < n
    BY <1>1, <2>1
  <2>2. CASE i = n
    BY <1>1, <2>2 DEF SameRun
  <2>. QED  BY <1>1, <2>1, <2>2
<1>3. Ids(t) /\ Registered(t, reg) /\ Roots(t, reg)
  <2>1. Ids(t)
    BY <1>1, <1>2 DEF StackOK, Ids
  <2>2. Registered(t, reg)
    BY <1>1, <1>2 DEF StackOK, Registered, Lineage
  <2>3. Roots(t, reg)
    BY <1>1, <1>2 DEF StackOK, Roots
  <2>. QED  BY <2>1, <2>2, <2>3
<1>4. ASSUME NEW i \in 1..n PROVE Local(t[i]) /\ Linked(t, i) /\ Climbed(t, i)
  <2>1. CASE i < n
    <3>1. Local(t[i])
      BY <1>1, <2>1 DEF StackOK
    <3>2. Linked(t, i)
      BY <1>1, <2>1 DEF StackOK, Linked
    <3>3. Climbed(t, i)
      <4>1. Climbed(s, i) /\ \A k \in 1..i : t[k] = s[k]
        BY <1>1, <2>1 DEF StackOK
      <4>2. i \in Nat \ {0}
        BY <1>1
      <4>. QED  BY <4>1, <4>2, SameClimb
    <3>. QED  BY <3>1, <3>2, <3>3
  <2>2. CASE i = n
    <3>1. Linked(s, i)
      BY <1>1 DEF StackOK
    <3>2. i > 1 => t[i - 1] = s[i - 1]
      BY <1>1, <2>2
    <3>3. Linked(t, i)
      BY <1>1, <1>2, <2>2, <3>1, <3>2 DEF Linked
    <3>. QED  BY <1>1, <2>2, <3>3
  <2>. QED  BY <1>1, <2>1, <2>2
<1>. QED  BY <1>1, <1>3, <1>4 DEF StackOK

\* The top run waits for a new one.
LEMMA RunStarts ==
  ASSUME NEW s, NEW reg, StackOK(s, reg), s # <<>>,
         NEW w, SameRun(w, s[Len(s)]), w.pc \in Waiting, Local(w),
         NEW v, v = [s EXCEPT ![Len(s)] = w], Climbed(v, Len(v)),
         NEW r \in RunT, r.pc = "bootstrap",
         \/ r.caller = "host"
         \/ w.pc = "child" /\ r.caller = w.agent /\ r.parent = w.id,
         NEW t, t = Append(v, r),
         NEW reg2, reg2 = With(reg, r.id, Lineage(r)),
         Len(r.id) > 0,
         \A i \in 1..Len(s) : s[i].id[1] = r.id[1] => Len(s[i].id) < Len(r.id),
         Roots(t, reg2)
  PROVE  StackOK(t, reg2)
<1>. DEFINE n == Len(s)
<1>1. /\ s \in Seq(RunT) /\ n \in Nat \ {0} /\ t \in Seq(RunT) /\ Len(t) = n + 1 /\ Len(s) = n
      /\ \A i \in 1..n : i < n => t[i] = s[i]
      /\ t[n] = w /\ SameRun(w, s[n]) /\ t[n + 1] = r
      /\ Len(v) = n /\ \A i \in 1..n : t[i] = v[i]
  BY DEF StackOK, SameRun
<1>. HIDE DEF n
<1>2. ASSUME NEW i \in 1..n
      PROVE  /\ t[i].id = s[i].id /\ t[i].agent = s[i].agent
             /\ t[i].caller = s[i].caller /\ t[i].parent = s[i].parent
  <2>1. CASE i < n
    BY <1>1, <2>1
  <2>2. CASE i = n
    BY <1>1, <2>2 DEF SameRun
  <2>. QED  BY <1>1, <2>1, <2>2
<1>3. \A i \in 1..(n + 1) : i \in 1..n \/ i = n + 1
  BY <1>1
<1>4. Ids(t)
  <2>1. \A i, j \in 1..n : i < j /\ t[i].id[1] = t[j].id[1] => Len(t[i].id) < Len(t[j].id)
    BY <1>1, <1>2 DEF StackOK, Ids
  <2>2. \A i \in 1..n : t[i].id[1] = r.id[1] => Len(t[i].id) < Len(r.id)
    BY <1>1, <1>2
  <2>3. \A i \in 1..n : Len(t[i].id) > 0
    BY <1>1, <1>2 DEF StackOK, Ids
  <2>. QED  BY <1>1, <1>3, <2>1, <2>2, <2>3 DEF Ids
<1>5. DOMAIN reg2 \subseteq Id /\ DOMAIN reg2 = DOMAIN reg \cup {r.id}
      /\ reg2[r.id] = Lineage(r) /\ \A id \in DOMAIN reg \ {r.id} : reg2[id] = reg[id]
  BY DEF With, StackOK, RunT
<1>6. Registered(t, reg2)
  <2>1. ASSUME NEW i \in 1..n PROVE t[i].id \in DOMAIN reg2 /\ reg2[t[i].id] = Lineage(t[i])
    <3>1. s[i].id \in Id /\ r.id \in Id /\ s[i].id # r.id
      <4>1. s[i] \in RunT
        BY <1>1
      <4>2. s[i].id \in Id /\ r.id \in Id
        BY <4>1 DEF RunT
      <4>3. Len(r.id) \in Nat
        BY <4>2 DEF Id
      <4>4. s[i].id[1] = r.id[1] => Len(s[i].id) < Len(r.id)
        BY <1>1
      <4>5. s[i].id # r.id
        BY <4>3, <4>4
      <4>. QED  BY <4>2, <4>5
    <3>2. s[i].id \in DOMAIN reg /\ reg[s[i].id] = Lineage(s[i])
      BY <1>1 DEF StackOK, Registered
    <3>3. Lineage(t[i]) = Lineage(s[i])
      BY <1>2 DEF Lineage
    <3>. QED  BY <1>2, <1>5, <3>1, <3>2, <3>3
  <2>. QED  BY <1>1, <1>3, <1>5, <2>1 DEF Registered
<1>7. ASSUME NEW i \in 1..n PROVE Local(t[i]) /\ Linked(t, i) /\ Climbed(t, i)
  <2>1. CASE i < n
    <3>1. Local(t[i])
      BY <1>1, <2>1 DEF StackOK
    <3>2. Linked(t, i)
      BY <1>1, <2>1 DEF StackOK, Linked
    <3>3. Climbed(t, i)
      <4>1. Climbed(s, i) /\ \A k \in 1..i : t[k] = s[k]
        BY <1>1, <2>1 DEF StackOK
      <4>2. i \in Nat \ {0}
        BY <1>1
      <4>. QED  BY <4>1, <4>2, SameClimb
    <3>. QED  BY <3>1, <3>2, <3>3
  <2>2. CASE i = n
    <3>1. Linked(s, i)
      BY <1>1 DEF StackOK
    <3>2. i > 1 => t[i - 1] = s[i - 1]
      BY <1>1, <2>2
    <3>3. Linked(t, i)
      BY <1>1, <1>2, <2>2, <3>1, <3>2 DEF Linked
    <3>4. Climbed(t, i)
      <4>1. Climbed(v, i) /\ \A k \in 1..i : t[k] = v[k]
        BY <1>1, <2>2
      <4>2. i \in Nat \ {0}
        BY <1>1
      <4>. QED  BY <4>1, <4>2, SameClimb
    <3>. QED  BY <1>1, <2>2, <3>3, <3>4
  <2>. QED  BY <1>1, <2>1, <2>2
<1>8. Local(r) /\ Linked(t, n + 1) /\ Climbed(t, n + 1)
  <2>1. r.pc \notin Waiting \cup Asking \cup {"tool"}
    BY DEF Waiting, Asking
  <2>2. Local(r) /\ Climbed(t, n + 1)
    BY <1>1, <2>1 DEF Local, Climbed, Asking
  <2>3. Linked(t, n + 1)
    BY <1>1, <2>1 DEF Linked
  <2>. QED  BY <2>2, <2>3
<1>. QED  BY <1>1, <1>3, <1>4, <1>5, <1>6, <1>7, <1>8 DEF StackOK

LEMMA Popped ==
  ASSUME NEW s \in Seq(RunT), NEW n \in Nat \ {0}, n < Len(s), NEW r \in RunT,
         NEW t, t = [SubSeq(s, 1, n) EXCEPT ![n] = r]
  PROVE  t \in Seq(RunT) /\ Len(t) = n /\ \A i \in 1..n : t[i] = IF i = n THEN r ELSE s[i]
<1>1. SubSeq(s, 1, n) = [i \in 1..n |-> s[i]]
  BY SubSeqProperties
<1>2. t = [i \in 1..n |-> IF i = n THEN r ELSE s[i]]
  BY <1>1
<1>3. \A i \in 1..n : s[i] \in RunT
  OBVIOUS
<1>. QED  BY <1>2, <1>3

\* The top run leaves, and the one below goes on.
LEMMA RunLeaves ==
  ASSUME NEW s, NEW reg, StackOK(s, reg), Len(s) > 1,
         NEW r, SameRun(r, s[Len(s) - 1]), r.pc \notin Waiting, r.pc # "resolving", Local(r),
         NEW t, t = [SubSeq(s, 1, Len(s) - 1) EXCEPT ![Len(s) - 1] = r]
  PROVE  StackOK(t, reg)
<1>. DEFINE n == Len(s) - 1
<1>1. /\ s \in Seq(RunT) /\ n \in Nat \ {0} /\ Len(s) = n + 1
  BY DEF StackOK
<1>2. /\ t \in Seq(RunT) /\ Len(t) = n
      /\ \A i \in 1..n : i < n => t[i] = s[i]
      /\ t[n] = r /\ SameRun(r, s[n])
  <2>1. s \in Seq(RunT) /\ r \in RunT /\ SameRun(r, s[n])
    BY <1>1 DEF SameRun
  <2>2. n \in Nat \ {0} /\ n < Len(s) /\ t = [SubSeq(s, 1, n) EXCEPT ![n] = r]
    BY <1>1
  <2>. HIDE DEF n
  <2>3. t \in Seq(RunT) /\ Len(t) = n /\ \A i \in 1..n : t[i] = IF i = n THEN r ELSE s[i]
    BY <2>1, <2>2, Popped
  <2>. QED  BY <2>1, <2>2, <2>3
<1>. HIDE DEF n
<1>3. ASSUME NEW i \in 1..n
      PROVE  /\ t[i].id = s[i].id /\ t[i].agent = s[i].agent
             /\ t[i].caller = s[i].caller /\ t[i].parent = s[i].parent
  <2>1. CASE i < n
    BY <1>2, <2>1
  <2>2. CASE i = n
    BY <1>2, <2>2 DEF SameRun
  <2>. QED  BY <1>1, <2>1, <2>2
<1>4. \A i \in 1..n : i \in 1..Len(s)
  BY <1>1
<1>5. Ids(t) /\ Registered(t, reg) /\ Roots(t, reg)
  <2>1. Ids(t)
    <3>1. \A i \in 1..n : Len(t[i].id) > 0
      BY <1>3, <1>4 DEF StackOK, Ids
    <3>2. \A i, j \in 1..n : i < j /\ t[i].id[1] = t[j].id[1] => Len(t[i].id) < Len(t[j].id)
      BY <1>3, <1>4 DEF StackOK, Ids
    <3>. QED  BY <1>2, <3>1, <3>2 DEF Ids
  <2>2. Registered(t, reg)
    <3>1. \A i \in 1..n : s[i].id \in DOMAIN reg /\ reg[s[i].id] = Lineage(s[i])
      BY <1>4 DEF StackOK, Registered
    <3>2. \A i \in 1..n : Lineage(t[i]) = Lineage(s[i])
      BY <1>3 DEF Lineage
    <3>. QED  BY <1>2, <1>3, <3>1, <3>2 DEF Registered
  <2>3. Roots(t, reg)
    BY <1>2, <1>3, <1>4 DEF StackOK, Roots
  <2>. QED  BY <2>1, <2>2, <2>3
<1>6. ASSUME NEW i \in 1..n PROVE Local(t[i]) /\ Linked(t, i) /\ Climbed(t, i)
  <2>0. Linked(s, i) /\ Climbed(s, i) /\ Local(s[i])
    BY <1>4 DEF StackOK
  <2>1. CASE i < n
    <3>1. Linked(t, i)
      BY <1>1, <1>2, <2>0, <2>1 DEF Linked
    <3>2. Climbed(t, i)
      <4>1. \A k \in 1..i : t[k] = s[k]
        BY <1>1, <1>2, <2>1
      <4>2. i \in Nat \ {0}
        BY <1>1
      <4>. QED  BY <2>0, <4>1, <4>2, SameClimb
    <3>. QED  BY <1>2, <2>0, <2>1, <3>1, <3>2
  <2>2. CASE i = n
    <3>1. i > 1 => t[i - 1] = s[i - 1]
      BY <1>1, <1>2, <2>2
    <3>2. Linked(t, i)
      BY <1>1, <1>2, <1>3, <2>0, <2>2, <3>1 DEF Linked
    <3>3. Climbed(t, i)
      BY <1>2, <2>2 DEF Climbed, Waiting
    <3>. QED  BY <1>2, <2>2, <3>2, <3>3
  <2>. QED  BY <1>1, <2>1, <2>2
<1>. QED  BY <1>1, <1>2, <1>5, <1>6 DEF StackOK
-----------------------------------------------------------------------------
(***************************************************************************)
(* The top run.                                                            *)
(***************************************************************************)

LEMMA TopFacts ==
  ASSUME StackInv, Running
  PROVE  /\ stack \in Seq(RunT) /\ Len(stack) \in Nat \ {0} /\ Top \in RunT /\ Local(Top)
         /\ Linked(stack, Len(stack)) /\ Climbed(stack, Len(stack)) /\ Top.pc \notin Waiting
<1>1. stack \in Seq(RunT) /\ Len(stack) \in Nat \ {0} /\ Len(stack) \in 1..Len(stack)
  BY DEF StackInv, StackOK, Running
<1>2. Local(stack[Len(stack)]) /\ Linked(stack, Len(stack)) /\ Climbed(stack, Len(stack))
  BY <1>1 DEF StackInv, StackOK
<1>3. Top.pc \notin Waiting
  BY <1>1, <1>2 DEF Linked, Top
<1>. QED  BY <1>1, <1>2, <1>3 DEF Top

\* No two runs of the stack have the same id.
LEMMA OneRunPerId ==
  ASSUME StackInv, NEW i \in 1..Len(stack), NEW j \in 1..Len(stack), stack[i].id = stack[j].id
  PROVE  i = j
<1>1. stack \in Seq(RunT)
  BY DEF StackInv, StackOK
<1>2. Len(stack[i].id) \in Nat
  BY <1>1 DEF RunT, Id
<1>3. ~(i < j) /\ ~(j < i)
  BY <1>1, <1>2 DEF StackInv, StackOK, Ids
<1>. QED  BY <1>1, <1>3

\* Open contexts stay right as long as runs that ask, or raise, go on doing so.
LEMMA ContextsStay ==
  ASSUME ContextInv, contexts' = contexts, raised \subseteq raised',
         \A i \in 1..Len(stack') : stack'[i].pc \in Asking =>
           \E j \in 1..Len(stack) : stack[j].id = stack'[i].id /\ stack[j].pc \in Asking,
         \A i \in 1..Len(stack) : stack[i].pc \in Asking \cup {"raising"} /\ stack[i].id \notin raised' =>
           \E j \in 1..Len(stack') : stack'[j].id = stack[i].id /\ stack'[j].pc \in Asking \cup {"raising"}
  PROVE  ContextInv'
<1>1. \A id \in DOMAIN contexts' : contexts'[id] \in Nat
  BY DEF ContextInv
<1>2. ASSUME NEW i \in 1..Len(stack'), stack'[i].pc \in Asking
      PROVE  stack'[i].id \in DOMAIN contexts' /\ contexts'[stack'[i].id] > 0
  BY <1>2 DEF ContextInv
<1>3. ASSUME NEW id \in DOMAIN contexts', contexts'[id] > 0 /\ id \notin raised'
      PROVE  /\ contexts'[id] = 1
             /\ \E i \in 1..Len(stack') : stack'[i].id = id /\ stack'[i].pc \in Asking \cup {"raising"}
  BY <1>3 DEF ContextInv
<1>. QED  BY <1>1, <1>2, <1>3 DEF ContextInv

LEMMA TopReplaced ==
  ASSUME StackInv, Running, NEW r \in RunT, SetTop(r)
  PROVE  /\ stack' \in Seq(RunT) /\ Len(stack') = Len(stack) /\ Len(stack) \in Nat \ {0}
         /\ stack'[Len(stack)] = r /\ \A i \in 1..Len(stack) : i < Len(stack) => stack'[i] = stack[i]
BY DEF StackInv, StackOK, Running, SetTop

\* The top run moves on, without a callback.
LEMMA Quiet ==
  ASSUME IInv, Running, NEW r, SetTop(r), SameRun(r, Top), Local(r),
         r.pc \notin Waiting \cup {"resolving"},
         r.pc \in Asking => Top.pc \in Asking,
         Top.pc \in Asking \cup {"raising"} => r.pc \in Asking \cup {"raising"},
         UNCHANGED <<_run_registry, contexts, raised, answer>>, OnlyDeclaredExecuted'
  PROVE  IInv'
<1>1. StackInv'
  <2>1. Climbed(stack', Len(stack'))
    BY TopReplaced DEF IInv, Climbed, SameRun, Waiting
  <2>. QED  BY <2>1, TopChanges DEF IInv, StackInv, SetTop, Top, Running
<1>2. ContextInv'
  <2>1. r \in RunT /\ r.id = Top.id /\ StackInv
    BY DEF SameRun, IInv
  <2>2. /\ Len(stack') = Len(stack) /\ Len(stack) \in Nat \ {0} /\ stack'[Len(stack)] = r
        /\ \A i \in 1..Len(stack) : i < Len(stack) => stack'[i] = stack[i]
    BY <2>1, TopReplaced
  <2>3. \A i \in 1..Len(stack) : stack'[i].id = stack[i].id
    BY <2>1, <2>2 DEF Top
  <2>4. \A i \in 1..Len(stack) :
          /\ stack'[i].pc \in Asking => stack[i].pc \in Asking
          /\ stack[i].pc \in Asking \cup {"raising"} => stack'[i].pc \in Asking \cup {"raising"}
    BY <2>2 DEF Top
  <2>5. /\ \A i \in 1..Len(stack') : stack'[i].pc \in Asking =>
             \E j \in 1..Len(stack) : stack[j].id = stack'[i].id /\ stack[j].pc \in Asking
        /\ \A i \in 1..Len(stack) : stack[i].pc \in Asking \cup {"raising"} /\ stack[i].id \notin raised' =>
             \E j \in 1..Len(stack') : stack'[j].id = stack[i].id /\ stack'[j].pc \in Asking \cup {"raising"}
    BY <2>2, <2>3, <2>4
  <2>. QED  BY <2>5, ContextsStay DEF IInv
<1>. QED  BY <1>1, <1>2 DEF IInv, AnswererIsEntitled

-----------------------------------------------------------------------------
(***************************************************************************)
(* Steps that concern the top run only.                                    *)
(***************************************************************************)

\* What a turn of the model leaves of a run.
LEMMA TurnFacts ==
  ASSUME StackInv, Running
  PROVE  Turn \in RunT /\ SameRun(Turn, Top) /\ Turn.pc = Top.pc /\ Turn.tool = Top.tool
<1>1. Top \in RunT /\ Top.turns \in Nat
  BY TopFacts DEF RunT
<1>2. PICK n \in Nat : n = Top.turns + 1
  BY <1>1
<1>3. Turn = [Top EXCEPT !.turns = n, !.last = "decision"]
  BY <1>2 DEF Turn
<1>4. [Top EXCEPT !.turns = n, !.last = "decision"] \in RunT
  BY <1>1 DEF RunT, Entries
<1>5. /\ Turn.id = Top.id /\ Turn.agent = Top.agent /\ Turn.caller = Top.caller
      /\ Turn.parent = Top.parent /\ Turn.pc = Top.pc /\ Turn.tool = Top.tool
  BY <1>1, <1>3 DEF RunT
<1>. QED  BY <1>3, <1>4, <1>5 DEF SameRun

LEMMA BootstrapStep ==
  ASSUME IInv, Bootstrap
  PROVE  IInv'
<1>. DEFINE r == [Top EXCEPT !.pc = "pre"]
<1>1. Running /\ StackInv /\ SetTop(r) /\ Top.pc = "bootstrap"
  BY DEF IInv, Bootstrap, At, Goto
<1>2. SameRun(r, Top) /\ r.pc = "pre"
  BY <1>1, TopFacts DEF SameRun, RunT, Pcs
<1>3. Local(r)
  BY <1>2 DEF Local, Asking
<1>4. UNCHANGED <<_run_registry, contexts, raised, answer, executed>>
  BY DEF Bootstrap
<1>5. OnlyDeclaredExecuted'
  BY <1>4 DEF IInv, OnlyDeclaredExecuted
<1>. HIDE DEF r
<1>. QED  BY <1>1, <1>2, <1>3, <1>4, <1>5, Quiet DEF Waiting, Asking

\* A step of the top run from a program counter where it does not ask to one where it
\* neither asks nor waits nor executes a tool.
LEMMA QuietMove ==
  ASSUME IInv, Running, NEW r, SetTop(r), SameRun(r, Top),
         r.pc \notin Waiting \cup Asking \cup {"tool"},
         Top.pc \notin Asking \cup {"raising"},
         UNCHANGED <<_run_registry, contexts, raised, answer, executed>>
  PROVE  IInv'
<1>1. Local(r) /\ r.pc \notin Waiting \cup {"resolving"}
  BY DEF Local, Asking, Waiting
<1>2. OnlyDeclaredExecuted'
  BY DEF IInv, OnlyDeclaredExecuted
<1>. QED  BY <1>1, <1>2, Quiet

LEMMA PreAgentHooksStep ==
  ASSUME IInv, PreAgentHooks
  PROVE  IInv'
<1>1. Running /\ StackInv /\ Top.pc = "pre" /\ Top \in RunT
      /\ UNCHANGED <<_run_registry, contexts, raised, answer, executed>>
  BY TopFacts DEF IInv, PreAgentHooks, At
<1>2. \E r : SetTop(r) /\ SameRun(r, Top) /\ r.pc \in {"turn", "early", "raising"}
  <2>1. CASE \E pc \in {"turn", "raising"} : Goto(pc)
    <3>1. PICK pc \in {"turn", "raising"} : SetTop([Top EXCEPT !.pc = pc])
      BY <2>1 DEF Goto
    <3>2. SameRun([Top EXCEPT !.pc = pc], Top) /\ [Top EXCEPT !.pc = pc].pc = pc
      BY <1>1 DEF SameRun, RunT, Pcs
    <3>. QED  BY <3>1, <3>2
  <2>2. CASE \E o \in Outcome : SetTop([Top EXCEPT !.pc = "early", !.outcome = o])
    <3>1. PICK o \in Outcome : SetTop([Top EXCEPT !.pc = "early", !.outcome = o])
      BY <2>2
    <3>2. SameRun([Top EXCEPT !.pc = "early", !.outcome = o], Top)
          /\ [Top EXCEPT !.pc = "early", !.outcome = o].pc = "early"
      BY <1>1 DEF SameRun, RunT, Pcs
    <3>. QED  BY <3>1, <3>2
  <2>3. \A m \in BOOLEAN : [status |-> "completed", message |-> m] \in Outcome
    BY DEF Outcome
  <2>4. [status |-> "stopped", message |-> FALSE] \in Outcome
    BY DEF Outcome
  <2>. QED  BY <2>1, <2>2, <2>3, <2>4 DEF PreAgentHooks
<1>. QED  BY <1>1, <1>2, QuietMove DEF Waiting, Asking

LEMMA PostAgentHooksStep ==
  ASSUME IInv, PostAgentHooks
  PROVE  IInv'
<1>1. Running /\ StackInv /\ Top.pc \in {"post", "early"} /\ Top \in RunT
      /\ UNCHANGED <<_run_registry, contexts, raised, answer, executed>>
  BY TopFacts DEF IInv, PostAgentHooks, At
<1>2. \E r : SetTop(r) /\ SameRun(r, Top) /\ r.pc \in {"turn", "returning", "raising"}
  <2>1. CASE Goto("raising")
    <3>2. SameRun([Top EXCEPT !.pc = "raising"], Top) /\ [Top EXCEPT !.pc = "raising"].pc = "raising"
      BY <1>1 DEF SameRun, RunT, Pcs
    <3>. QED  BY <2>1, <3>2 DEF Goto
  <2>2. ASSUME NEW o \in Outcome, NEW pc \in {"turn", "returning"},
               SetTop([Top EXCEPT !.pc = pc, !.outcome = o])
        PROVE  \E r : SetTop(r) /\ SameRun(r, Top) /\ r.pc \in {"turn", "returning", "raising"}
    <3>2. SameRun([Top EXCEPT !.pc = pc, !.outcome = o], Top)
          /\ [Top EXCEPT !.pc = pc, !.outcome = o].pc = pc
      BY <1>1 DEF SameRun, RunT, Pcs
    <3>. QED  BY <2>2, <3>2
  <2>3. Top.outcome \in Outcome
    BY <1>1 DEF RunT
  <2>4. [status |-> "completed", message |-> TRUE] \in Outcome
    BY DEF Outcome
  <2>5. NoResult \in Outcome
    BY DEF NoResult, Outcome
  <2>. QED  BY <2>1, <2>2, <2>3, <2>4, <2>5 DEF PostAgentHooks
<1>. QED  BY <1>1, <1>2, QuietMove DEF Waiting, Asking

-----------------------------------------------------------------------------
(***************************************************************************)
(* Turns of the model that start neither a run nor a callback.             *)
(***************************************************************************)

\* What all of them have in common.
LEMMA TurnMove ==
  ASSUME IInv, At("turn"), NEW r, SetTop(r), SameRun(r, Turn),
         \/ r.pc \notin Waiting \cup Asking \cup {"tool"}
         \/ r.pc = "tool" /\ r.tool \in Tools[r.agent] \ TerminalTools,
         UNCHANGED <<_run_registry, contexts, raised, answer, executed>>
  PROVE  IInv'
<1>1. Running /\ StackInv /\ Top.pc = "turn"
  BY DEF IInv, At
<1>2. SameRun(r, Top)
  BY <1>1, TurnFacts DEF SameRun
<1>3. Local(r) /\ r.pc \notin Waiting \cup {"resolving"}
      /\ (r.pc \in Asking => Top.pc \in Asking)
      /\ (Top.pc \in Asking \cup {"raising"} => r.pc \in Asking \cup {"raising"})
  BY <1>1 DEF Local, Asking, Waiting
<1>4. OnlyDeclaredExecuted'
  BY DEF IInv, OnlyDeclaredExecuted
<1>. QED  BY <1>1, <1>2, <1>3, <1>4, Quiet

\* The forms of a run after such a turn.
LEMMA TurnEdits ==
  ASSUME StackInv, Running
  PROVE  /\ \A e \in Entries : SameRun([Turn EXCEPT !.last = e], Turn) /\ [Turn EXCEPT !.last = e].pc = Top.pc
         /\ \A pc \in Pcs : SameRun([Turn EXCEPT !.pc = pc], Turn) /\ [Turn EXCEPT !.pc = pc].pc = pc
         /\ \A pc \in Pcs, e \in Entries :
              SameRun([Turn EXCEPT !.pc = pc, !.last = e], Turn) /\ [Turn EXCEPT !.pc = pc, !.last = e].pc = pc
         /\ \A o \in Outcome, pc \in Pcs :
              SameRun([Turn EXCEPT !.pc = pc, !.outcome = o], Turn) /\ [Turn EXCEPT !.pc = pc, !.outcome = o].pc = pc
         /\ \A e \in Entries, S \in SUBSET Skill :
              SameRun([Turn EXCEPT !.last = e, !.skills = S], Turn) /\ [Turn EXCEPT !.last = e, !.skills = S].pc = Top.pc
         /\ \A x \in Tool, pc \in Pcs :
              /\ SameRun([Turn EXCEPT !.pc = pc, !.tool = x], Turn) /\ [Turn EXCEPT !.pc = pc, !.tool = x].pc = pc
              /\ [Turn EXCEPT !.pc = pc, !.tool = x].tool = x
<1>. DEFINE u == Turn
<1>0. u \in RunT /\ u.pc = Top.pc
  BY TurnFacts
<1>. HIDE DEF u
<1>1. \A e \in Entries : SameRun([u EXCEPT !.last = e], u) /\ [u EXCEPT !.last = e].pc = Top.pc
  BY <1>0 DEF SameRun, RunT
<1>2. \A pc \in Pcs : SameRun([u EXCEPT !.pc = pc], u) /\ [u EXCEPT !.pc = pc].pc = pc
  BY <1>0 DEF SameRun, RunT
<1>3. \A pc \in Pcs, e \in Entries :
        SameRun([u EXCEPT !.pc = pc, !.last = e], u) /\ [u EXCEPT !.pc = pc, !.last = e].pc = pc
  BY <1>0 DEF SameRun, RunT
<1>4. \A o \in Outcome, pc \in Pcs :
        SameRun([u EXCEPT !.pc = pc, !.outcome = o], u) /\ [u EXCEPT !.pc = pc, !.outcome = o].pc = pc
  BY <1>0 DEF SameRun, RunT
<1>5. \A e \in Entries, S \in SUBSET Skill :
        SameRun([u EXCEPT !.last = e, !.skills = S], u) /\ [u EXCEPT !.last = e, !.skills = S].pc = Top.pc
  BY <1>0 DEF SameRun, RunT
<1>6. \A x \in Tool, pc \in Pcs :
        /\ SameRun([u EXCEPT !.pc = pc, !.tool = x], u) /\ [u EXCEPT !.pc = pc, !.tool = x].pc = pc
        /\ [u EXCEPT !.pc = pc, !.tool = x].tool = x
  BY <1>0 DEF SameRun, RunT
<1>. QED  BY <1>1, <1>2, <1>3, <1>4, <1>5, <1>6 DEF u

LEMMA ModelFailsStep ==
  ASSUME IInv, ModelFails
  PROVE  IInv'
<1>1. Running /\ Top.pc = "turn" /\ Top \in RunT
      /\ UNCHANGED <<_run_registry, contexts, raised, answer, executed>>
  BY TopFacts DEF IInv, ModelFails, At
<1>2. SetTop([Top EXCEPT !.pc = "raising"])
  BY DEF ModelFails, Goto
<1>3. SameRun([Top EXCEPT !.pc = "raising"], Top) /\ [Top EXCEPT !.pc = "raising"].pc = "raising"
  BY <1>1 DEF SameRun, RunT, Pcs
<1>. QED  BY <1>1, <1>2, <1>3, QuietMove DEF Waiting, Asking

LEMMA PlainTurns ==
  ASSUME IInv, NEW d,
         \/ Rejected(d) \/ HandleFinalMessage(d) \/ HandleSubagentCalls(d)
         \/ RefuseSubagent(d) \/ HooksEndSubagentCall(d)
  PROVE  IInv'
<1>0. At("turn") /\ Running /\ StackInv /\ Top.pc = "turn"
      /\ UNCHANGED <<_run_registry, contexts, raised, answer, executed>>
  BY DEF Rejected, HandleFinalMessage, HandleSubagentCalls, RefuseSubagent,
         HooksEndSubagentCall, Decides, At, IInv
<1>1. CASE Rejected(d)
  <2>1. Top.last \in Entries /\ "raising" \in Pcs
    BY <1>0, TopFacts DEF RunT, Pcs
  <2>2. SetTop([Turn EXCEPT !.pc = "raising", !.last = Top.last])
    BY <1>1 DEF Rejected
  <2>. QED  BY <1>0, <2>1, <2>2, TurnEdits, TurnMove DEF Waiting, Asking
<1>2. CASE HandleFinalMessage(d)
  <2>1. PICK m \in BOOLEAN :
          SetTop([Turn EXCEPT !.pc = "post", !.outcome = [status |-> "completed", message |-> m]])
    BY <1>2 DEF HandleFinalMessage
  <2>2. PICK o \in Outcome : o = [status |-> "completed", message |-> m]
    BY DEF Outcome
  <2>3. SameRun([Turn EXCEPT !.pc = "post", !.outcome = o], Turn)
        /\ [Turn EXCEPT !.pc = "post", !.outcome = o].pc = "post"
    <3>1. "post" \in Pcs
      BY DEF Pcs
    <3>2. \A pc \in Pcs :
            SameRun([Turn EXCEPT !.pc = pc, !.outcome = o], Turn) /\ [Turn EXCEPT !.pc = pc, !.outcome = o].pc = pc
      BY <1>0, TurnEdits
    <3>. QED  BY <3>1, <3>2, Zenon
  <2>4. SetTop([Turn EXCEPT !.pc = "post", !.outcome = o])
    BY <2>1, <2>2
  <2>. QED  BY <1>0, <2>3, <2>4, TurnMove DEF Waiting, Asking
<1>3. CASE HandleSubagentCalls(d) \/ RefuseSubagent(d) \/ HooksEndSubagentCall(d)
  <2>1. PICK e \in Entries : SetTop([Turn EXCEPT !.last = e])
    BY <1>3 DEF HandleSubagentCalls, RefuseSubagent, HooksEndSubagentCall, Entries
  <2>2. SameRun([Turn EXCEPT !.last = e], Turn) /\ [Turn EXCEPT !.last = e].pc = "turn"
    BY <1>0, TurnEdits
  <2>. QED  BY <1>0, <2>1, <2>2, TurnMove DEF Waiting, Asking
<1>. QED  BY <1>1, <1>2, <1>3

LEMMA HandleToolCallStep ==
  ASSUME IInv, NEW d, HandleToolCall(d)
  PROVE  IInv'
<1>0. At("turn") /\ Running /\ StackInv /\ Top.pc = "turn"
      /\ UNCHANGED <<_run_registry, contexts, raised, answer, executed>>
  BY DEF HandleToolCall, Decides, At, IInv
<1>1. CASE d.tool_name \notin Tools[Top.agent]
  <2>1. SetTop([Turn EXCEPT !.last = "tool_validation_error"])
    BY <1>1 DEF HandleToolCall
  <2>2. SameRun([Turn EXCEPT !.last = "tool_validation_error"], Turn)
        /\ [Turn EXCEPT !.last = "tool_validation_error"].pc = "turn"
    BY <1>0, TurnEdits DEF Entries
  <2>. QED  BY <1>0, <2>1, <2>2, TurnMove DEF Waiting, Asking
<1>2. CASE d.tool_name \in Tools[Top.agent] \cap TerminalTools
  <2>1. SetTop([Turn EXCEPT !.pc = "post", !.outcome = [status |-> "completed", message |-> TRUE]])
    BY <1>2 DEF HandleToolCall
  <2>2. PICK o \in Outcome : o = [status |-> "completed", message |-> TRUE]
    BY DEF Outcome
  <2>3. SameRun([Turn EXCEPT !.pc = "post", !.outcome = o], Turn)
        /\ [Turn EXCEPT !.pc = "post", !.outcome = o].pc = "post"
    <3>1. "post" \in Pcs
      BY DEF Pcs
    <3>2. \A pc \in Pcs :
            SameRun([Turn EXCEPT !.pc = pc, !.outcome = o], Turn) /\ [Turn EXCEPT !.pc = pc, !.outcome = o].pc = pc
      BY <1>0, TurnEdits
    <3>. QED  BY <3>1, <3>2, Zenon
  <2>4. SetTop([Turn EXCEPT !.pc = "post", !.outcome = o])
    BY <2>1, <2>2
  <2>. QED  BY <1>0, <2>3, <2>4, TurnMove DEF Waiting, Asking
<1>3. CASE d.tool_name \in Tools[Top.agent] \ TerminalTools
  <2>1. PICK x : x = d.tool_name
    OBVIOUS
  <2>2. SetTop([Turn EXCEPT !.pc = "tool", !.tool = x])
    BY <1>3, <2>1 DEF HandleToolCall
  <2>3. Top.agent \in Agent /\ x \in Tool /\ "tool" \in Pcs
    BY <1>0, <1>3, <2>1, TopFacts, AgentAssumption DEF RunT, Pcs
  <2>4. PICK r : r = [Turn EXCEPT !.pc = "tool", !.tool = x]
    OBVIOUS
  <2>5. SameRun(r, Turn) /\ r.pc = "tool" /\ r.tool = x
    BY <1>0, <2>3, <2>4, TurnEdits
  <2>6. r.agent = Top.agent
    BY <1>0, <2>5, TurnFacts DEF SameRun
  <2>7. r.tool \in Tools[r.agent] \ TerminalTools
    BY <1>3, <2>1, <2>5, <2>6
  <2>8. SetTop(r)
    BY <2>2, <2>4
  <2>. QED  BY <1>0, <2>5, <2>7, <2>8, TurnMove
<1>. QED  BY <1>1, <1>2, <1>3

LEMMA HandleSkillInvocationStep ==
  ASSUME IInv, NEW d, HandleSkillInvocation(d)
  PROVE  IInv'
<1>0. At("turn") /\ Running /\ StackInv /\ Top.pc = "turn"
      /\ UNCHANGED <<_run_registry, contexts, raised, answer, executed>>
  BY DEF HandleSkillInvocation, Decides, At, IInv
<1>1. CASE SetTop([Turn EXCEPT !.last = "skill_error"])
  <2>. SameRun([Turn EXCEPT !.last = "skill_error"], Turn) /\ [Turn EXCEPT !.last = "skill_error"].pc = "turn"
    BY <1>0, TurnEdits DEF Entries
  <2>. QED  BY <1>0, <1>1, TurnMove DEF Waiting, Asking
<1>2. CASE SetTop([Turn EXCEPT !.pc = "raising"])
  <2>. SameRun([Turn EXCEPT !.pc = "raising"], Turn) /\ [Turn EXCEPT !.pc = "raising"].pc = "raising"
    BY <1>0, TurnEdits DEF Pcs
  <2>. QED  BY <1>0, <1>2, TurnMove DEF Waiting, Asking
<1>3. CASE \E s \in Skill : \E last \in IF s \in Top.skills THEN {"resources_loaded", "already_loaded"} ELSE {"loaded"} :
             SetTop([Turn EXCEPT !.last = last, !.skills = @ \cup {s}])
  <2>1. PICK s \in Skill, last \in Entries : SetTop([Turn EXCEPT !.last = last, !.skills = @ \cup {s}])
    BY <1>3 DEF Entries
  <2>2. PICK S : S = Turn.skills \cup {s}
    OBVIOUS
  <2>3. S \in SUBSET Skill
    BY <1>0, <2>2, TurnFacts DEF RunT
  <2>4. SetTop([Turn EXCEPT !.last = last, !.skills = S])
    BY <2>1, <2>2
  <2>5. SameRun([Turn EXCEPT !.last = last, !.skills = S], Turn)
        /\ [Turn EXCEPT !.last = last, !.skills = S].pc = "turn"
    BY <1>0, <2>3, TurnEdits
  <2>. QED  BY <1>0, <2>4, <2>5, TurnMove DEF Waiting, Asking
<1>. QED  BY <1>1, <1>2, <1>3 DEF HandleSkillInvocation

LEMMA ToolHooksEndRunStep ==
  ASSUME IInv, ToolHooksEndRun
  PROVE  IInv'
<1>1. Running /\ Top.pc = "tool" /\ Top \in RunT
      /\ UNCHANGED <<_run_registry, contexts, raised, answer, executed>>
  BY TopFacts DEF IInv, ToolHooksEndRun, At
<1>2. PICK o \in Outcome : SetTop([Top EXCEPT !.pc = "post", !.outcome = o, !.tool = None])
  BY DEF ToolHooksEndRun, Outcome
<1>3. SameRun([Top EXCEPT !.pc = "post", !.outcome = o, !.tool = None], Top)
      /\ [Top EXCEPT !.pc = "post", !.outcome = o, !.tool = None].pc = "post"
  BY <1>1 DEF SameRun, RunT, Pcs
<1>. QED  BY <1>1, <1>2, <1>3, QuietMove DEF Waiting, Asking

LEMMA ExecuteToolStep ==
  ASSUME IInv, ExecuteTool
  PROVE  IInv'
<1>1. /\ Running /\ StackInv /\ Top.pc = "tool" /\ Top \in RunT /\ Local(Top)
      /\ UNCHANGED <<_run_registry, contexts, raised, answer>>
      /\ executed' = [agent |-> Top.agent, name |-> Top.tool]
  BY TopFacts DEF IInv, ExecuteTool, At
<1>2. OnlyDeclaredExecuted'
  BY <1>1 DEF OnlyDeclaredExecuted, Local
<1>3. PICK r : SetTop(r) /\ SameRun(r, Top) /\ r.pc \in {"turn", "raising"}
  <2>1. CASE \E last \in {"tool_result", "tool_error"} : SetTop([Top EXCEPT !.pc = "turn", !.last = last, !.tool = None])
    <3>1. PICK last \in Entries : SetTop([Top EXCEPT !.pc = "turn", !.last = last, !.tool = None])
      BY <2>1 DEF Entries
    <3>2. SameRun([Top EXCEPT !.pc = "turn", !.last = last, !.tool = None], Top)
          /\ [Top EXCEPT !.pc = "turn", !.last = last, !.tool = None].pc = "turn"
      BY <1>1 DEF SameRun, RunT, Pcs
    <3>. QED  BY <3>1, <3>2
  <2>2. CASE SetTop([Top EXCEPT !.pc = "raising", !.tool = None])
    <3>2. SameRun([Top EXCEPT !.pc = "raising", !.tool = None], Top)
          /\ [Top EXCEPT !.pc = "raising", !.tool = None].pc = "raising"
      BY <1>1 DEF SameRun, RunT, Pcs
    <3>. QED  BY <2>2, <3>2
  <2>. QED  BY <2>1, <2>2 DEF ExecuteTool
<1>4. Local(r)
  BY <1>3 DEF Local, Asking
<1>. QED  BY <1>1, <1>2, <1>3, <1>4, Quiet DEF Waiting, Asking

-----------------------------------------------------------------------------
(***************************************************************************)
(* Callbacks.                                                              *)
(***************************************************************************)

\* The top run turns to somebody for an answer.
LEMMA ContextOpens ==
  ASSUME IInv, Running, Top.pc = "turn", NEW r, SetTop(r), SameRun(r, Top),
         r.pc \in Asking \cup {"raising"}, OpenContext, raised' = raised
  PROVE  ContextInv'
<1>. DEFINE n == Len(stack)  id == Top.id
<1>0. StackInv /\ ContextInv /\ r \in RunT
  BY DEF IInv, SameRun
<1>1. /\ n \in Nat \ {0} /\ Len(stack') = n /\ stack'[n] = r /\ stack[n].id = id /\ r.id = id
      /\ \A i \in 1..n : i < n => stack'[i] = stack[i]
      /\ Len(stack) = n /\ stack[n].pc = "turn"
  BY <1>0, TopReplaced DEF Top, SameRun
<1>2. \A i \in 1..n : i < n => stack[i].id # id
  BY <1>0, <1>1, OneRunPerId
<1>3. /\ DOMAIN contexts' = DOMAIN contexts \cup {id}
      /\ contexts'[id] = Count(contexts, id) + 1
      /\ \A x \in DOMAIN contexts : x # id => contexts'[x] = contexts[x]
  BY DEF OpenContext, Add, With
<1>4. Count(contexts, id) \in Nat
  BY <1>0 DEF ContextInv, Count
<1>5. id \notin raised => Count(contexts, id) = 0
  <2>1. ASSUME id \notin raised, id \in DOMAIN contexts, contexts[id] > 0 PROVE FALSE
    <3>1. PICK i \in 1..n : stack[i].id = id /\ stack[i].pc \in Asking \cup {"raising"}
      BY <1>0, <1>1, <2>1 DEF ContextInv
    <3>2. i = n
      BY <1>1, <1>2, <3>1
    <3>. QED  BY <1>1, <3>1, <3>2 DEF Asking
  <2>. QED  BY <1>0, <2>1 DEF Count, ContextInv
<1>. HIDE DEF n, id
<1>6. \A x \in DOMAIN contexts' : contexts'[x] \in Nat
  BY <1>0, <1>3, <1>4 DEF ContextInv
<1>7. ASSUME NEW i \in 1..Len(stack'), stack'[i].pc \in Asking
      PROVE  stack'[i].id \in DOMAIN contexts' /\ contexts'[stack'[i].id] > 0
  <2>1. CASE i = n
    BY <1>1, <1>3, <1>4, <2>1
  <2>2. CASE i # n
    <3>1. i \in 1..n /\ i < n /\ stack'[i] = stack[i] /\ i \in 1..Len(stack)
      BY <1>1, <2>2
    <3>2. stack[i].id \in DOMAIN contexts /\ contexts[stack[i].id] > 0 /\ stack[i].id # id
      BY <1>0, <1>2, <1>7, <3>1 DEF ContextInv
    <3>. QED  BY <1>3, <3>1, <3>2
  <2>. QED  BY <2>1, <2>2
<1>8. ASSUME NEW x \in DOMAIN contexts', contexts'[x] > 0 /\ x \notin raised'
      PROVE  /\ contexts'[x] = 1
             /\ \E i \in 1..Len(stack') : stack'[i].id = x /\ stack'[i].pc \in Asking \cup {"raising"}
  <2>1. CASE x = id
    <3>1. n \in 1..Len(stack') /\ stack'[n].id = x /\ stack'[n].pc \in Asking \cup {"raising"}
      BY <1>1, <2>1
    <3>. QED  BY <1>3, <1>5, <1>8, <2>1, <3>1
  <2>2. CASE x # id
    <3>1. x \in DOMAIN contexts /\ contexts'[x] = contexts[x]
      BY <1>3, <2>2
    <3>2. contexts[x] = 1 /\ \E i \in 1..n : stack[i].id = x /\ stack[i].pc \in Asking \cup {"raising"}
      BY <1>0, <1>1, <1>8, <3>1 DEF ContextInv
    <3>3. PICK i \in 1..n : stack[i].id = x /\ stack[i].pc \in Asking \cup {"raising"}
      BY <3>2
    <3>4. i \in 1..Len(stack') /\ stack'[i] = stack[i]
      BY <1>1, <2>2, <3>3
    <3>. QED  BY <3>1, <3>2, <3>3, <3>4
  <2>. QED  BY <2>1, <2>2
<1>. QED  BY <1>6, <1>7, <1>8 DEF ContextInv

\* What is dispatched has routing parameters.
LEMMA DispatchedRoutes ==
  ASSUME NEW a \in Agent, NEW d \in Dispatched[a]
  PROVE  d.route \in Routes
<1>1. PICK x \in Decision : d = Read(Normalized(a, x))
  BY DEF Dispatched
<1>2. /\ x \in [kind : Kinds, subagent_id : Agent \cup Tool \cup {None},
               tool_name : Agent \cup Tool \cup {None}, route : Routes]
  BY DEF Decision
<1>3. \A y \in [kind : Kinds, subagent_id : Agent \cup Tool \cup {None},
               tool_name : Agent \cup Tool \cup {None}, route : Routes] : Read(y).route \in Routes
  BY DEF Read
<1>4. Normalized(a, x) \in [kind : Kinds, subagent_id : Agent \cup Tool \cup {None},
                            tool_name : Agent \cup Tool \cup {None}, route : Routes]
  <2>1. PICK nm : nm = TheName(x)
    OBVIOUS
  <2>2. nm \in Agent \cup Tool \cup {None}
    BY <1>2, <2>1 DEF TheName
  <2>3. "call_subagent" \in Kinds /\ "call_tool" \in Kinds
    BY DEF Kinds
  <2>4. [x EXCEPT !.kind = "call_subagent", !.subagent_id = nm, !.tool_name = None]
          \in [kind : Kinds, subagent_id : Agent \cup Tool \cup {None},
               tool_name : Agent \cup Tool \cup {None}, route : Routes]
    BY <1>2, <2>2, <2>3
  <2>5. [x EXCEPT !.kind = "call_tool", !.tool_name = nm, !.subagent_id = None]
          \in [kind : Kinds, subagent_id : Agent \cup Tool \cup {None},
               tool_name : Agent \cup Tool \cup {None}, route : Routes]
    BY <1>2, <2>2, <2>3
  <2>. QED  BY <1>2, <2>1, <2>4, <2>5 DEF Normalized
<1>. QED  BY <1>1, <1>3, <1>4

\* The stack after a move of the top run that may leave it asking its callers.
LEMMA TopAsks ==
  ASSUME IInv, Running, NEW r, SetTop(r), SameRun(r, Top), Local(r), r.pc \notin Waiting,
         Climbed(stack', Len(stack)), _run_registry' = _run_registry
  PROVE  StackInv'
BY TopReplaced, TopChanges DEF IInv, StackInv, SetTop, Top, Running, SameRun

LEMMA CallbackToCallerStep ==
  ASSUME IInv, At("turn"), NEW d, d.route \in Routes, CallbackToCaller(d)
  PROVE  IInv'
<1>. DEFINE n == Len(stack)
            ask == [route |-> d.route, caller |-> Top.caller, parent |-> Top.parent, hops |-> d.route.hops + 1]
            r == [Turn EXCEPT !.pc = "resolving", !.ask = ask]
<1>1. /\ Running /\ StackInv /\ Top.pc = "turn" /\ Top \in RunT /\ SetTop(r)
      /\ UNCHANGED <<_run_registry, raised, answer, executed>> /\ OpenContext
      /\ Top.caller # "host"
  BY TopFacts DEF IInv, At, CallbackToCaller, Callback, RoutesToCaller
<1>2. d.route.hops \in Nat
  BY AgentAssumption DEF Route
<1>3. ask \in AskT
  BY <1>1, <1>2 DEF AskT, RunT
<1>4. /\ ask.route = d.route /\ ask.caller = Top.caller /\ ask.parent = Top.parent
      /\ ask.hops = d.route.hops + 1
  OBVIOUS
<1>. HIDE DEF ask
<1>5. r \in RunT /\ r.id = Turn.id /\ r.agent = Turn.agent /\ r.caller = Turn.caller
      /\ r.parent = Turn.parent /\ r.pc = "resolving" /\ r.ask = ask
  BY <1>1, <1>3, TurnFacts DEF RunT, Pcs, Asking
<1>6. SameRun(r, Top)
  BY <1>1, <1>5, TurnFacts DEF SameRun
<1>. HIDE DEF r
<1>7. Local(r)
  BY <1>1, <1>4, <1>5 DEF Local, RunT, Asking
<1>8. /\ stack' \in Seq(RunT) /\ Len(stack') = n /\ n \in Nat \ {0} /\ stack'[n] = r
      /\ \A i \in 1..n : i < n => stack'[i] = stack[i]
  BY <1>1, <1>6, TopReplaced DEF SameRun
<1>9. n > 1 /\ stack[n - 1].pc = "child" /\ Top.caller = stack[n - 1].agent /\ Top.parent = stack[n - 1].id
  BY <1>1, TopFacts DEF Linked, Top
<1>. HIDE DEF n
<1>10. Climbed(stack', n)
  <2>1. r.ask.hops - r.ask.route.hops = 1
    BY <1>2, <1>4, <1>5
  <2>2. stack'[n - 1] = stack[n - 1] /\ n - 1 \in Nat
    BY <1>8, <1>9
  <2>3. \A k \in (n - 1)..(n - 1) : k = n - 1
    BY <1>8
  <2>4. 1 \in 1..(n - 1)
    BY <1>8, <1>9
  <2>. QED  BY <1>4, <1>5, <1>8, <1>9, <2>1, <2>2, <2>3, <2>4 DEF Climbed
<1>11. StackInv'
  BY <1>1, <1>5, <1>6, <1>7, <1>10, TopAsks DEF Waiting, n
<1>12. ContextInv'
  BY <1>1, <1>5, <1>6, ContextOpens DEF Asking
<1>. QED  BY <1>1, <1>11, <1>12 DEF IInv, AnswererIsEntitled, OnlyDeclaredExecuted

LEMMA CallbackFailsStep ==
  ASSUME IInv, At("turn"), NEW d, CallbackFails(d)
  PROVE  IInv'
<1>1. /\ Running /\ StackInv /\ Top.pc = "turn"
      /\ SetTop([Turn EXCEPT !.pc = "post", !.outcome = [status |-> "failed", message |-> TRUE]])
      /\ UNCHANGED <<_run_registry, contexts, raised, answer, executed>>
  BY DEF IInv, At, CallbackFails, Callback
<1>2. PICK o \in Outcome : o = [status |-> "failed", message |-> TRUE]
  BY DEF Outcome
<1>3. SameRun([Turn EXCEPT !.pc = "post", !.outcome = o], Turn)
      /\ [Turn EXCEPT !.pc = "post", !.outcome = o].pc = "post"
  <2>1. "post" \in Pcs
    BY DEF Pcs
  <2>2. \A pc \in Pcs :
          SameRun([Turn EXCEPT !.pc = pc, !.outcome = o], Turn) /\ [Turn EXCEPT !.pc = pc, !.outcome = o].pc = pc
    BY <1>1, TurnEdits
  <2>. QED  BY <2>1, <2>2, Zenon
<1>4. SetTop([Turn EXCEPT !.pc = "post", !.outcome = o])
  BY <1>1, <1>2
<1>. QED  BY <1>1, <1>3, <1>4, TurnMove DEF Waiting, Asking

LEMMA CallbackToUserStep ==
  ASSUME IInv, At("turn"), NEW d, d.route \in Routes, CallbackToUser(d)
  PROVE  IInv'
<1>1. /\ Running /\ StackInv /\ Top.pc = "turn" /\ Top \in RunT
      /\ UNCHANGED <<_run_registry, raised, answer, executed>>
  BY TopFacts DEF IInv, At, CallbackToUser, Callback
<1>2. CASE Top.agent \notin AsksHost
  <2>1. SetTop([Turn EXCEPT !.pc = "raising"]) /\ UNCHANGED contexts
    BY <1>2 DEF CallbackToUser, Callback
  <2>2. SameRun([Turn EXCEPT !.pc = "raising"], Turn) /\ [Turn EXCEPT !.pc = "raising"].pc = "raising"
    BY <1>1, TurnEdits DEF Pcs
  <2>. QED  BY <1>1, <2>1, <2>2, TurnMove DEF Waiting, Asking
<1>3. CASE Top.agent \in AsksHost
  <2>. DEFINE ask == [NoAsk EXCEPT !.route = d.route, !.caller = "host"]
  <2>1. PICK pc \in {"user", "raising"} :
          SetTop([Turn EXCEPT !.pc = pc, !.ask = ask]) /\ OpenContext
    BY <1>3 DEF CallbackToUser, Callback
  <2>2. ask \in AskT /\ ask.route = d.route /\ ask.caller = "host"
    BY DEF AskT, NoAsk
  <2>. HIDE DEF ask
  <2>3. PICK r : r = [Turn EXCEPT !.pc = pc, !.ask = ask]
    OBVIOUS
  <2>4. r \in RunT /\ r.id = Turn.id /\ r.agent = Turn.agent /\ r.caller = Turn.caller
        /\ r.parent = Turn.parent /\ r.pc = pc /\ r.ask = ask
    BY <1>1, <2>2, <2>3, TurnFacts DEF RunT, Pcs, Asking
  <2>5. SameRun(r, Top) /\ SetTop(r)
    BY <1>1, <2>1, <2>3, <2>4, TurnFacts DEF SameRun
  <2>6. Local(r)
    BY <2>2, <2>4 DEF Local
  <2>7. Climbed(stack', Len(stack))
    BY <1>1, <2>4, <2>5, TopReplaced DEF Climbed
  <2>8. StackInv'
    BY <1>1, <2>4, <2>5, <2>6, <2>7, TopAsks DEF Waiting
  <2>9. ContextInv'
    BY <1>1, <2>1, <2>4, <2>5, ContextOpens DEF Asking
  <2>. QED  BY <1>1, <2>8, <2>9 DEF IInv, AnswererIsEntitled, OnlyDeclaredExecuted
<1>. QED  BY <1>2, <1>3

\* A move of the asking top run that goes on asking, but not at its next caller.
LEMMA AskingMove ==
  ASSUME IInv, Running, Top.pc \in Asking, NEW pc \in Asking \ {"resolving", "caller"},
         NEW by \in {Top.ask.caller, "user", "nobody"},
         SetTop([Top EXCEPT !.pc = pc, !.ask.caller = by]),
         pc = "answered" /\ by \in Agent => Entitled(by, Top.ask.route),
         UNCHANGED <<_run_registry, contexts, raised, answer, executed>>
  PROVE  IInv'
<1>1. StackInv /\ Top \in RunT /\ Local(Top)
  BY TopFacts DEF IInv
<1>2. PICK ask : ask = [Top.ask EXCEPT !.caller = by]
  OBVIOUS
<1>3. Top.ask \in AskT
  BY <1>1 DEF RunT
<1>4. ask \in AskT /\ ask.route = Top.ask.route /\ ask.caller = by
  BY <1>2, <1>3 DEF AskT
<1>5. PICK r : r = [Top EXCEPT !.pc = pc, !.ask = ask]
  OBVIOUS
<1>6. r \in RunT /\ r.id = Top.id /\ r.agent = Top.agent /\ r.caller = Top.caller
      /\ r.parent = Top.parent /\ r.pc = pc /\ r.ask = ask
  BY <1>1, <1>4, <1>5 DEF RunT, Pcs, Asking
<1>7. SetTop(r)
  BY <1>2, <1>5
<1>8. SameRun(r, Top)
  BY <1>6 DEF SameRun
<1>9. Local(r)
  BY <1>1, <1>4, <1>6 DEF Local, Asking
<1>10. OnlyDeclaredExecuted'
  BY DEF IInv, OnlyDeclaredExecuted
<1>. QED  BY <1>1, <1>6, <1>7, <1>8, <1>9, <1>10, Quiet DEF Waiting, Asking

\* The asking top run is left with an exception.
LEMMA AskingRaises ==
  ASSUME IInv, Running, Top.pc \in Asking, Goto("raising"),
         UNCHANGED <<_run_registry, contexts, raised, answer, executed>>
  PROVE  IInv'
<1>1. Top \in RunT /\ SetTop([Top EXCEPT !.pc = "raising"])
  BY TopFacts DEF IInv, Goto
<1>2. SameRun([Top EXCEPT !.pc = "raising"], Top) /\ [Top EXCEPT !.pc = "raising"].pc = "raising"
  BY <1>1 DEF SameRun, RunT, Pcs
<1>3. Local([Top EXCEPT !.pc = "raising"])
  BY <1>2 DEF Local, Asking
<1>4. OnlyDeclaredExecuted'
  BY DEF IInv, OnlyDeclaredExecuted
<1>. QED  BY <1>1, <1>2, <1>3, <1>4, Quiet DEF Waiting, Asking

LEMMA HostResolvesStep ==
  ASSUME IInv, HostResolves
  PROVE  IInv'
<1>1. /\ Running /\ Top.pc \in Asking /\ Top \in RunT /\ StackInv
      /\ UNCHANGED <<_run_registry, contexts, raised, answer, executed>>
  BY TopFacts DEF IInv, HostResolves, Asks, At, Asking
<1>2. PICK who : who = Top.ask.caller
  OBVIOUS
<1>3. CASE HasUser
  <2>1. SetTop([Top EXCEPT !.pc = "user"])
    BY <1>3 DEF HostResolves
  <2>2. [Top EXCEPT !.pc = "user"] = [Top EXCEPT !.pc = "user", !.ask.caller = who]
    BY <1>1, <1>2 DEF RunT, AskT
  <2>. QED  BY <1>1, <1>2, <2>1, <2>2, AskingMove DEF Asking
<1>4. CASE ~HasUser
  <2>1. SetTop([Top EXCEPT !.pc = "answered", !.ask.caller = "nobody"])
    BY <1>4 DEF HostResolves
  <2>2. "nobody" \notin Agent
    BY AgentAssumption
  <2>. QED  BY <1>1, <2>1, <2>2, AskingMove DEF Asking
<1>. QED  BY <1>3, <1>4

LEMMA UserAnswersStep ==
  ASSUME IInv, UserAnswers
  PROVE  IInv'
<1>1. /\ Running /\ Top.pc \in Asking
      /\ SetTop([Top EXCEPT !.pc = "answered", !.ask.caller = "user"]) \/ Goto("raising")
      /\ UNCHANGED <<_run_registry, contexts, raised, answer, executed>>
  BY DEF UserAnswers, At, Asking
<1>2. "user" \notin Agent
  BY AgentAssumption
<1>. QED  BY <1>1, <1>2, AskingMove, AskingRaises DEF Asking

\* Whoever the callback may not pass by is entitled to answer it.
LEMMA BehaviorRespondsStep ==
  ASSUME IInv, BehaviorResponds
  PROVE  IInv'
<1>1. /\ Running /\ Top.pc \in Asking /\ ~NotHere
      /\ SetTop([Top EXCEPT !.pc = "answered"]) \/ Goto("raising")
      /\ UNCHANGED <<_run_registry, contexts, raised, answer, executed>>
      /\ Top \in RunT
  BY TopFacts DEF IInv, BehaviorResponds, At, Asking, Goto
<1>2. PICK who : who = Top.ask.caller
  OBVIOUS
<1>3. [Top EXCEPT !.pc = "answered"] = [Top EXCEPT !.pc = "answered", !.ask.caller = who]
  BY <1>1, <1>2 DEF RunT, AskT
<1>4. Entitled(who, Top.ask.route)
  BY <1>1, <1>2 DEF NotHere, Entitled
<1>. QED  BY <1>1, <1>2, <1>3, <1>4, AskingMove, AskingRaises DEF Asking

LEMMA CallerPassesOnStep ==
  ASSUME IInv, CallerPassesOn
  PROVE  IInv'
<1>. DEFINE n == Len(stack)  climbed == Top.ask.hops - Top.ask.route.hops  j == n - climbed
<1>1. /\ Running /\ StackInv /\ Top.pc = "resolving" /\ Top.ask.caller # "host" /\ Top \in RunT
      /\ Local(Top) /\ Climbed(stack, n) /\ stack[n] = Top /\ n \in Nat \ {0} /\ Len(stack) = n
      /\ UNCHANGED <<_run_registry, contexts, raised, answer, executed>>
  BY TopFacts DEF IInv, CallerPassesOn, At, Top
<1>2. /\ climbed \in 1..(n - 1) /\ stack[j].agent = Top.ask.caller /\ stack[j].id = Top.ask.parent
      /\ \A k \in j..(n - 1) : stack[k].pc = "child"
  BY <1>1 DEF Climbed
<1>3. Top.ask \in AskT /\ Top.ask.route \in Routes /\ Top.ask.hops \in Nat /\ Top.ask.route.hops \in Nat
  BY <1>1, AgentAssumption DEF RunT, AskT, Local, Asking, Route
<1>4. Top.ask.hops + 1 - Top.ask.route.hops = climbed + 1
  BY <1>3
<1>. HIDE DEF climbed
<1>5. j \in 1..n /\ j < n
  BY <1>1, <1>2
<1>6. stack[j] \in RunT /\ Linked(stack, j) /\ stack[j].id \in DOMAIN _run_registry
      /\ _run_registry[stack[j].id] = Lineage(stack[j])
  BY <1>1, <1>5 DEF StackInv, StackOK, Registered
<1>7. PICK who, parent : who = stack[j].caller /\ parent = stack[j].parent
  OBVIOUS
<1>8. who \in Agent \cup {"host"} /\ parent \in Id \cup {None}
  BY <1>6, <1>7 DEF RunT
<1>9. PICK hops \in Nat : hops = Top.ask.hops + 1
  BY <1>3
<1>10. PICK ask : ask = [Top.ask EXCEPT !.caller = who, !.parent = parent, !.hops = hops]
  OBVIOUS
<1>11. ask \in AskT /\ ask.route = Top.ask.route /\ ask.caller = who /\ ask.parent = parent /\ ask.hops = hops
  BY <1>3, <1>8, <1>10 DEF AskT
<1>12. PICK r : r = [Top EXCEPT !.ask = ask]
  OBVIOUS
<1>13. r \in RunT /\ r.id = Top.id /\ r.agent = Top.agent /\ r.caller = Top.caller
       /\ r.parent = Top.parent /\ r.pc = "resolving" /\ r.ask = ask
  BY <1>1, <1>11, <1>12 DEF RunT
<1>14. SetTop(r)
  <2>1. PICK up : up = _run_registry[Top.ask.parent]
    OBVIOUS
  <2>2. Top.ask.parent \in DOMAIN _run_registry /\ up.caller = who /\ up.parent = parent
    BY <1>2, <1>6, <1>7, <2>1 DEF Lineage
  <2>3. SetTop([Top EXCEPT !.ask = [Top.ask EXCEPT !.caller = up.caller, !.parent = up.parent,
                                                  !.hops = Top.ask.hops + 1]])
    BY <2>1, <2>2 DEF CallerPassesOn
  <2>. QED  BY <1>9, <1>10, <1>12, <2>2, <2>3
<1>15. SameRun(r, Top) /\ Local(r)
  BY <1>1, <1>8, <1>3, <1>11, <1>13 DEF SameRun, Local, Asking
<1>16. /\ stack' \in Seq(RunT) /\ Len(stack') = n /\ stack'[n] = r
       /\ \A i \in 1..n : i < n => stack'[i] = stack[i]
  BY <1>1, <1>13, <1>14, TopReplaced
<1>. HIDE DEF n
<1>17. Climbed(stack', n)
  <2>0. stack'[n].ask.caller = who /\ stack'[n].ask.parent = parent
        /\ stack'[n].ask.hops - stack'[n].ask.route.hops = climbed + 1
    <3>1. stack'[n].ask = ask
      BY <1>13, <1>16
    <3>2. hops - Top.ask.route.hops = climbed + 1
      BY <1>3, <1>4, <1>9
    <3>3. ask.hops = hops /\ ask.route.hops = Top.ask.route.hops
      BY <1>11
    <3>4. ask.hops - ask.route.hops = climbed + 1
      BY <3>2, <3>3
    <3>5. stack'[n].ask.hops - stack'[n].ask.route.hops = climbed + 1
      BY <3>1, <3>4
    <3>. QED  BY <1>11, <3>1, <3>5
  <2>. SUFFICES ASSUME stack'[n].ask.caller # "host"
                PROVE  LET c == stack'[n].ask.hops - stack'[n].ask.route.hops
                       IN  /\ c \in 1..(n - 1)
                           /\ stack'[n - c].agent = stack'[n].ask.caller
                           /\ stack'[n - c].id = stack'[n].ask.parent
                           /\ \A k \in (n - c)..(n - 1) : stack'[k].pc = "child"
    BY DEF Climbed
  <2>1. j > 1 /\ stack[j - 1].pc = "child" /\ who = stack[j - 1].agent /\ parent = stack[j - 1].id
    BY <1>6, <1>7, <2>0 DEF Linked
  <2>2. n - (climbed + 1) = j - 1 /\ climbed + 1 \in 1..(n - 1) /\ j - 1 \in 1..n /\ j - 1 < n
    BY <1>1, <1>2, <1>5, <2>1
  <2>3. stack'[j - 1] = stack[j - 1]
    BY <1>16, <2>2
  <2>4. \A k \in (j - 1)..(n - 1) : k \in 1..n /\ k < n /\ (k = j - 1 \/ k \in j..(n - 1))
    BY <1>1, <1>5, <2>1
  <2>5. \A k \in (j - 1)..(n - 1) : stack'[k].pc = "child"
    BY <1>2, <1>16, <2>1, <2>4
  <2>6. PICK c : c = stack'[n].ask.hops - stack'[n].ask.route.hops
    OBVIOUS
  <2>7. /\ c \in 1..(n - 1) /\ stack'[n - c].agent = who /\ stack'[n - c].id = parent
        /\ \A k \in (n - c)..(n - 1) : stack'[k].pc = "child"
    BY <2>0, <2>1, <2>2, <2>3, <2>5, <2>6
  <2>. QED  BY <2>0, <2>6, <2>7
<1>18. StackInv'
  BY <1>1, <1>13, <1>14, <1>15, <1>17, TopAsks DEF Waiting, n
<1>19. ContextInv'
  <2>1. \A i \in 1..n : stack'[i].id = stack[i].id /\ stack'[i].pc = stack[i].pc
    BY <1>1, <1>13, <1>16
  <2>2. /\ \A i \in 1..Len(stack') : stack'[i].pc \in Asking =>
             \E k \in 1..Len(stack) : stack[k].id = stack'[i].id /\ stack[k].pc \in Asking
        /\ \A i \in 1..Len(stack) : stack[i].pc \in Asking \cup {"raising"} /\ stack[i].id \notin raised' =>
             \E k \in 1..Len(stack') : stack'[k].id = stack[i].id /\ stack'[k].pc \in Asking \cup {"raising"}
    BY <1>1, <1>16, <2>1
  <2>. QED  BY <1>1, <2>2, ContextsStay DEF IInv
<1>. QED  BY <1>1, <1>18, <1>19 DEF IInv, AnswererIsEntitled, OnlyDeclaredExecuted

LEMMA CallbackAnsweredStep ==
  ASSUME IInv, CallbackAnswered
  PROVE  IInv'
<1>. DEFINE n == Len(stack)  id == Top.id
            r == [Top EXCEPT !.pc = "turn", !.last = "callback_answer", !.ask = NoAsk]
<1>1. /\ Running /\ StackInv /\ ContextInv /\ Top.pc = "answered" /\ Top \in RunT /\ Local(Top) /\ SetTop(r)
      /\ UNCHANGED <<_run_registry, raised, executed>>
      /\ answer' = [run |-> Top.id, by |-> Top.ask.caller, hops |-> Top.ask.hops, route |-> Top.ask.route]
      /\ contexts' = [contexts EXCEPT ![id] = @ - 1]
  BY TopFacts DEF IInv, CallbackAnswered, At
<1>2. NoAsk \in AskT /\ "turn" \in Pcs /\ "callback_answer" \in Entries
  BY DEF AskT, NoAsk, Pcs, Entries
<1>3. r \in RunT /\ SameRun(r, Top) /\ r.pc = "turn"
  BY <1>1, <1>2 DEF RunT, SameRun
<1>. HIDE DEF r
<1>4. Local(r)
  BY <1>3 DEF Local, Asking
<1>5. /\ n \in Nat \ {0} /\ Len(stack) = n /\ Len(stack') = n /\ stack'[n] = r /\ stack[n] = Top
      /\ stack[n].id = id /\ r.id = id
      /\ \A i \in 1..n : i < n => stack'[i] = stack[i]
  BY <1>1, <1>3, TopReplaced DEF Top, SameRun
<1>6. StackInv'
  <2>1. Climbed(stack', Len(stack))
    BY <1>3, <1>5 DEF Climbed
  <2>. QED  BY <1>1, <1>3, <1>4, <2>1, TopAsks DEF Waiting
<1>7. AnswererIsEntitled'
  BY <1>1 DEF AnswererIsEntitled, Local, Entitled
<1>8. id \in DOMAIN contexts /\ contexts[id] \in Nat /\ contexts[id] > 0 /\ (id \notin raised => contexts[id] = 1)
  BY <1>1, <1>5 DEF ContextInv, Asking
<1>9. \A i \in 1..n : i < n => stack[i].id # id
  BY <1>1, <1>5, OneRunPerId
<1>. HIDE DEF n, id
<1>10. /\ DOMAIN contexts' = DOMAIN contexts /\ contexts'[id] = contexts[id] - 1
       /\ \A x \in DOMAIN contexts : x # id => contexts'[x] = contexts[x]
  BY <1>1, <1>8
<1>11. ContextInv'
  <2>1. \A x \in DOMAIN contexts' : contexts'[x] \in Nat
    BY <1>1, <1>8, <1>10 DEF ContextInv
  <2>2. ASSUME NEW i \in 1..Len(stack'), stack'[i].pc \in Asking
        PROVE  stack'[i].id \in DOMAIN contexts' /\ contexts'[stack'[i].id] > 0
    <3>1. i # n
      BY <1>3, <1>5, <2>2 DEF Asking
    <3>2. i \in 1..n /\ i < n /\ stack'[i] = stack[i] /\ i \in 1..Len(stack)
      BY <1>5, <3>1
    <3>3. stack[i].id \in DOMAIN contexts /\ contexts[stack[i].id] > 0 /\ stack[i].id # id
      BY <1>1, <1>9, <2>2, <3>2 DEF ContextInv
    <3>. QED  BY <1>10, <3>2, <3>3
  <2>3. ASSUME NEW x \in DOMAIN contexts', contexts'[x] > 0 /\ x \notin raised'
        PROVE  /\ contexts'[x] = 1
               /\ \E i \in 1..Len(stack') : stack'[i].id = x /\ stack'[i].pc \in Asking \cup {"raising"}
    <3>1. x # id
      BY <1>1, <1>8, <1>10, <2>3
    <3>2. x \in DOMAIN contexts /\ contexts'[x] = contexts[x]
      BY <1>10, <3>1
    <3>3. contexts[x] = 1 /\ \E i \in 1..n : stack[i].id = x /\ stack[i].pc \in Asking \cup {"raising"}
      BY <1>1, <1>5, <2>3, <3>2 DEF ContextInv
    <3>4. PICK i \in 1..n : stack[i].id = x /\ stack[i].pc \in Asking \cup {"raising"}
      BY <3>3
    <3>5. i \in 1..Len(stack') /\ stack'[i] = stack[i]
      BY <1>5, <3>1, <3>4
    <3>. QED  BY <3>2, <3>3, <3>4, <3>5
  <2>. QED  BY <2>1, <2>2, <2>3 DEF ContextInv
<1>. QED  BY <1>1, <1>6, <1>7, <1>11 DEF IInv, OnlyDeclaredExecuted

-----------------------------------------------------------------------------
(***************************************************************************)
(* Runs that start.                                                        *)
(***************************************************************************)

\* As many roots as the counter says.
LEMMA RootCount ==
  ASSUME NEW m \in Nat
  PROVE  Cardinality({<<k>> : k \in 1..m}) = m
<1>. DEFINE S == {<<k>> : k \in 1..m}  f == [k \in 1..m |-> <<k>>]
<1>1. f \in [1..m -> S]
  OBVIOUS
<1>2. \A j, k \in 1..m : f[j] = f[k] => j = k
  OBVIOUS
<1>3. \A y \in S : \E k \in 1..m : f[k] = y
  OBVIOUS
<1>. HIDE DEF f, S
<1>4. f \in Bijection(1..m, S)
  BY <1>1, <1>2, <1>3 DEF Bijection, Injection, Surjection, IsInjective
<1>5. ExistsBijection(1..m, S)
  BY <1>4 DEF ExistsBijection
<1>6. Cardinality(S) = m
  BY <1>5, FS_CountingElements
<1>. QED  BY <1>6 DEF S

\* A new run asks nothing.
LEMMA NewRunFacts ==
  ASSUME NEW id \in Id, NEW a \in Agent, NEW caller \in Agent \cup {"host"}, NEW parent \in Id \cup {None}
  PROVE  /\ NewRun(id, a, caller, parent) \in RunT
         /\ NewRun(id, a, caller, parent).id = id /\ NewRun(id, a, caller, parent).pc = "bootstrap"
         /\ NewRun(id, a, caller, parent).caller = caller /\ NewRun(id, a, caller, parent).parent = parent
         /\ NewRun(id, a, caller, parent).agent = a
<1>1. NoAsk \in AskT
  BY DEF AskT, NoAsk
<1>2. NoResult \in Outcome
  BY DEF NoResult, Outcome
<1>3. "bootstrap" \in Pcs /\ "prompt" \in Entries
  BY DEF Pcs, Entries
<1>. QED  BY <1>1, <1>2, <1>3 DEF NewRun, RunT

\* The contexts are as they were: the top run waits, and only a run that waited for an
\* answer before does so now.
LEMMA PushKeepsContexts ==
  ASSUME IInv, Running, NEW w \in RunT, w.id = Top.id,
         w.pc \in Asking => Top.pc \in Asking, Top.pc \in Asking => w.pc \in Asking, Top.pc # "raising",
         NEW r \in RunT, r.pc = "bootstrap", Push(w, r), contexts' = contexts, raised' = raised
  PROVE  ContextInv'
<1>. DEFINE n == Len(stack)
<1>1. stack \in Seq(RunT) /\ n \in Nat \ {0} /\ Len(stack) = n
  BY TopFacts DEF IInv
<1>2. stack' = Append([stack EXCEPT ![n] = w], r)
  BY DEF Push
<1>. HIDE DEF n
<1>3. /\ Len(stack') = n + 1 /\ stack'[n + 1] = r /\ stack'[n] = w
      /\ \A i \in 1..n : i < n => stack'[i] = stack[i]
  BY <1>1, <1>2
<1>4. /\ stack[n].id = w.id /\ (w.pc \in Asking => stack[n].pc \in Asking)
      /\ (stack[n].pc \in Asking => w.pc \in Asking) /\ stack[n].pc # "raising"
  BY DEF Top, n
<1>5. \A i \in 1..n : i < n \/ i = n
  BY <1>1
<1>6. \A i \in 1..n : /\ stack'[i].id = stack[i].id
                      /\ stack'[i].pc \in Asking => stack[i].pc \in Asking
                      /\ stack[i].pc \in Asking \cup {"raising"} => stack'[i].pc \in Asking \cup {"raising"}
  BY <1>3, <1>4, <1>5
<1>7. \A i \in 1..(n + 1) : i \in 1..n \/ i = n + 1
  BY <1>1
<1>8. \A i \in 1..n : i \in 1..(n + 1)
  BY <1>1
<1>9. /\ \A i \in 1..Len(stack') : stack'[i].pc \in Asking =>
           \E j \in 1..Len(stack) : stack[j].id = stack'[i].id /\ stack[j].pc \in Asking
      /\ \A i \in 1..Len(stack) : stack[i].pc \in Asking \cup {"raising"} /\ stack[i].id \notin raised' =>
           \E j \in 1..Len(stack') : stack'[j].id = stack[i].id /\ stack'[j].pc \in Asking \cup {"raising"}
  <2>1. r.pc \notin Asking
    BY DEF Asking
  <2>. QED  BY <1>1, <1>3, <1>6, <1>7, <1>8, <2>1
<1>. QED  BY <1>9, ContextsStay DEF IInv

LEMMA CallSubagentStep ==
  ASSUME IInv, NEW d, CallSubagent(d)
  PROVE  IInv'
<1>1. /\ Running /\ StackInv /\ At("turn") /\ Top.pc = "turn" /\ Top \in RunT
      /\ UNCHANGED <<contexts, raised, answer>>
  BY TopFacts DEF IInv, CallSubagent, Decides, At
<1>2. PICK c \in Children[Top.agent] :
        \/ /\ Push([Turn EXCEPT !.pc = "child", !.last = "subagent_call"],
                   NewRun(ChildId(c), c, Top.agent, Top.id))
           /\ executed' = [agent |-> Top.agent, name |-> c]
        \/ SetTop([Turn EXCEPT !.last = "subagent_error"]) /\ UNCHANGED <<_run_registry, executed>>
  BY DEF CallSubagent
<1>3. CASE SetTop([Turn EXCEPT !.last = "subagent_error"]) /\ UNCHANGED <<_run_registry, executed>>
  <2>. SameRun([Turn EXCEPT !.last = "subagent_error"], Turn)
       /\ [Turn EXCEPT !.last = "subagent_error"].pc = "turn"
    BY <1>1, TurnEdits DEF Entries
  <2>. QED  BY <1>1, <1>3, TurnMove DEF Waiting, Asking
<1>4. CASE /\ Push([Turn EXCEPT !.pc = "child", !.last = "subagent_call"],
                   NewRun(ChildId(c), c, Top.agent, Top.id))
           /\ executed' = [agent |-> Top.agent, name |-> c]
  <2>1. Top.agent \in Agent /\ c \in Agent /\ Top.id \in Id
    BY <1>1, AgentAssumption DEF RunT
  <2>2. /\ ChildId(c) \in Id /\ Len(ChildId(c)) = Len(Top.id) + 1 /\ Len(Top.id) \in Nat
        /\ (Len(Top.id) > 0 => ChildId(c)[1] = Top.id[1])
    BY <2>1 DEF ChildId, Id
  <2>3. PICK w : w = [Turn EXCEPT !.pc = "child", !.last = "subagent_call"]
    OBVIOUS
  <2>4. SameRun(w, Turn) /\ w.pc = "child"
    <3>1. "child" \in Pcs /\ "subagent_call" \in Entries
      BY DEF Pcs, Waiting, Entries
    <3>2. \A pc \in Pcs, e \in Entries :
            SameRun([Turn EXCEPT !.pc = pc, !.last = e], Turn) /\ [Turn EXCEPT !.pc = pc, !.last = e].pc = pc
      BY <1>1, TurnEdits
    <3>3. SameRun([Turn EXCEPT !.pc = "child", !.last = "subagent_call"], Turn)
          /\ [Turn EXCEPT !.pc = "child", !.last = "subagent_call"].pc = "child"
      BY <3>1, <3>2, Zenon
    <3>. QED  BY <2>3, <3>3
  <2>5. SameRun(w, Top)
    BY <1>1, <2>4, TurnFacts DEF SameRun
  <2>6. PICK r : r = NewRun(ChildId(c), c, Top.agent, Top.id)
    OBVIOUS
  <2>7. /\ r \in RunT /\ r.id = ChildId(c) /\ r.pc = "bootstrap" /\ r.caller = Top.agent
        /\ r.parent = Top.id /\ r.agent = c
    BY <2>1, <2>2, <2>6, NewRunFacts
  <2>8. Push(w, r)
    BY <1>4, <2>3, <2>6
  <2>. DEFINE n == Len(stack)
  <2>9. /\ stack \in Seq(RunT) /\ n \in Nat \ {0} /\ stack[n] = Top /\ n \in 1..n
    BY <1>1, TopFacts DEF Top
  <2>10. Ids(stack) /\ Roots(stack, _run_registry)
    BY <1>1 DEF StackInv, StackOK
  <2>11. Len(Top.id) > 0
    BY <2>9, <2>10 DEF Ids
  <2>12. \A i \in 1..Len(stack) : stack[i].id[1] = r.id[1] => Len(stack[i].id) < Len(r.id)
    <3>1. ASSUME NEW i \in 1..n, stack[i].id[1] = r.id[1] PROVE Len(stack[i].id) < Len(r.id)
      <4>1. stack[i].id[1] = stack[n].id[1]
        BY <2>2, <2>7, <2>9, <2>11, <3>1
      <4>2. i < n => Len(stack[i].id) < Len(stack[n].id)
        BY <2>9, <2>10, <4>1 DEF Ids
      <4>3. Len(stack[i].id) \in Nat
        <5>1. stack[i] \in RunT
          BY <2>9
        <5>2. stack[i].id \in Id
          BY <5>1 DEF RunT
        <5>. QED  BY <5>2 DEF Id
      <4>4. Len(stack[n].id) = Len(Top.id) /\ Len(r.id) = Len(Top.id) + 1
        BY <2>2, <2>7, <2>9
      <4>5. i = n \/ i < n
        BY <2>9
      <4>. QED  BY <2>2, <4>2, <4>3, <4>4, <4>5
    <3>. QED  BY <3>1
  <2>13. /\ stack' = Append([stack EXCEPT ![n] = w], r)
         /\ _run_registry' = With(_run_registry, r.id, Lineage(r))
    BY <1>1, <2>8 DEF Push, Lineage
  <2>14. Roots(stack', _run_registry')
    <3>. HIDE DEF n
    <3>1. PICK m \in Nat : /\ {id \in DOMAIN _run_registry : Len(id) = 1} = {<<k>> : k \in 1..m}
                           /\ \A i \in 1..n : stack[i].id[1] \in 1..m
      BY <2>10 DEF Roots, n
    <3>2. Len(r.id) # 1
      <4>1. Len(r.id) = Len(Top.id) + 1
        BY <2>2, <2>7
      <4>. QED  BY <2>2, <2>11, <4>1
    <3>3. DOMAIN _run_registry' = DOMAIN _run_registry \cup {r.id}
      BY <2>13 DEF With
    <3>4. {id \in DOMAIN _run_registry' : Len(id) = 1} = {<<k>> : k \in 1..m}
      BY <3>1, <3>2, <3>3
    <3>5. /\ Len(stack') = n + 1 /\ stack'[n + 1] = r /\ stack'[n] = w
          /\ \A i \in 1..n : i < n => stack'[i] = stack[i]
      BY <2>5, <2>7, <2>9, <2>13 DEF SameRun, n
    <3>6. \A i \in 1..n : stack'[i].id = stack[i].id
      BY <2>5, <2>9, <3>5 DEF SameRun
    <3>7. r.id[1] = stack[n].id[1] /\ n \in 1..n
      BY <2>2, <2>7, <2>9, <2>11
    <3>8. \A i \in 1..(n + 1) : i \in 1..n \/ i = n + 1
      BY <2>9
    <3>9. \A i \in 1..Len(stack') : stack'[i].id[1] \in 1..m
      BY <3>1, <3>5, <3>6, <3>7, <3>8
    <3>. QED  BY <3>1, <3>4, <3>9 DEF Roots
  <2>15. StackInv'
    <3>1. Climbed([stack EXCEPT ![n] = w], Len([stack EXCEPT ![n] = w]))
      <4>1. [stack EXCEPT ![n] = w][n] = w /\ Len([stack EXCEPT ![n] = w]) = n
        BY <2>5, <2>9 DEF SameRun
      <4>. QED  BY <2>4, <4>1 DEF Climbed
    <3>2. Local(w)
      BY <2>4 DEF Local, Asking
    <3>3. StackOK(stack, _run_registry) /\ stack # <<>> /\ SameRun(w, stack[Len(stack)])
          /\ w.pc \in Waiting /\ r.caller = w.agent /\ r.parent = w.id /\ Len(r.id) > 0
      BY <1>1, <2>2, <2>4, <2>5, <2>7, <2>9 DEF StackInv, Running, SameRun, Waiting
    <3>. QED  BY <2>4, <2>7, <2>12, <2>13, <2>14, <3>1, <3>2, <3>3, RunStarts DEF StackInv
  <2>16. ContextInv'
    BY <1>1, <2>4, <2>5, <2>7, <2>8, PushKeepsContexts DEF SameRun, Asking
  <2>17. OnlyDeclaredExecuted'
    BY <1>4 DEF OnlyDeclaredExecuted
  <2>. QED  BY <1>1, <2>15, <2>16, <2>17 DEF IInv, AnswererIsEntitled
<1>. QED  BY <1>2, <1>3, <1>4

LEMMA CallerRunsAgainStep ==
  ASSUME IInv, CallerRunsAgain
  PROVE  IInv'
<1>1. /\ Running /\ StackInv /\ Top.pc = "resolving" /\ Top \in RunT /\ Local(Top) /\ ~NotHere
      /\ Top.ask.caller # "host" /\ UNCHANGED <<contexts, raised, answer, executed>>
  BY TopFacts DEF IInv, CallerRunsAgain, At
<1>2. CASE SetTop([Top EXCEPT !.pc = "ask_user"]) /\ UNCHANGED _run_registry
  <2>1. PICK who : who = Top.ask.caller
    OBVIOUS
  <2>2. [Top EXCEPT !.pc = "ask_user"] = [Top EXCEPT !.pc = "ask_user", !.ask.caller = who]
    BY <1>1, <2>1 DEF RunT, AskT
  <2>. QED  BY <1>1, <1>2, <2>1, <2>2, AskingMove DEF Asking
<1>3. CASE Push([Top EXCEPT !.pc = "caller"], NewRun(FreshId, Top.ask.caller, "host", None))
  <2>. DEFINE n == Len(stack)
  <2>1. PICK w : w = [Top EXCEPT !.pc = "caller"]
    OBVIOUS
  <2>2. /\ w \in RunT /\ w.pc = "caller" /\ w.ask = Top.ask /\ w.id = Top.id /\ w.agent = Top.agent
        /\ w.caller = Top.caller /\ w.parent = Top.parent
    BY <1>1, <2>1 DEF RunT, Pcs, Waiting
  <2>3. SameRun(w, Top)
    BY <2>2 DEF SameRun
  <2>4. Local(w)
    BY <1>1, <2>2 DEF Local, Asking, NotHere, Entitled
  <2>5. /\ stack \in Seq(RunT) /\ n \in Nat \ {0} /\ stack[n] = Top /\ Climbed(stack, n)
    BY <1>1, TopFacts DEF Top
  <2>6. PICK m \in Nat : /\ {id \in DOMAIN _run_registry : Len(id) = 1} = {<<k>> : k \in 1..m}
                         /\ \A i \in 1..n : stack[i].id[1] \in 1..m
    BY <1>1 DEF StackInv, StackOK, Roots
  <2>7. Cardinality({<<k>> : k \in 1..m}) = m
    BY <2>6, RootCount
  <2>8. FreshId = <<m + 1>>
    BY <2>6, <2>7 DEF FreshId
  <2>9. FreshId \in Id /\ Len(FreshId) = 1 /\ FreshId[1] = m + 1
    BY <2>8 DEF Id
  <2>10. Top.ask.caller \in Agent
    BY <1>1 DEF Local
  <2>11. PICK r : r = NewRun(FreshId, Top.ask.caller, "host", None)
    OBVIOUS
  <2>12. /\ r \in RunT /\ r.id = FreshId /\ r.pc = "bootstrap" /\ r.caller = "host"
         /\ r.parent = None /\ r.agent = Top.ask.caller
    <3>1. PICK a \in Agent, parent \in Id \cup {None}, caller \in Agent \cup {"host"}, id \in Id :
            a = Top.ask.caller /\ parent = None /\ caller = "host" /\ id = FreshId
      BY <2>9, <2>10
    <3>2. r = NewRun(id, a, caller, parent)
      BY <2>11, <3>1
    <3>. QED  BY <3>1, <3>2, NewRunFacts
  <2>13. Push(w, r)
    BY <1>3, <2>1, <2>11
  <2>14. /\ stack' = Append([stack EXCEPT ![n] = w], r)
         /\ _run_registry' = With(_run_registry, r.id, Lineage(r))
    BY <1>1, <2>13 DEF Push, Lineage
  <2>15. \A i \in 1..Len(stack) : stack[i].id[1] # r.id[1]
    BY <2>6, <2>9, <2>12
  <2>16. Roots(stack', _run_registry')
    <3>. HIDE DEF n
    <3>1. DOMAIN _run_registry' = DOMAIN _run_registry \cup {<<m + 1>>}
      BY <2>8, <2>12, <2>14 DEF With
    <3>2. {id \in DOMAIN _run_registry' : Len(id) = 1}
            = {id \in DOMAIN _run_registry : Len(id) = 1} \cup {<<m + 1>>}
      BY <3>1
    <3>3. {<<k>> : k \in 1..(m + 1)} = {<<k>> : k \in 1..m} \cup {<<m + 1>>}
      BY <2>6
    <3>4. /\ Len(stack') = n + 1 /\ stack'[n + 1] = r /\ stack'[n] = w
          /\ \A i \in 1..n : i < n => stack'[i] = stack[i]
      BY <2>2, <2>5, <2>12, <2>14 DEF n
    <3>5. \A i \in 1..n : stack'[i].id = stack[i].id
      BY <2>2, <2>5, <3>4
    <3>6. \A i \in 1..(n + 1) : i \in 1..n \/ i = n + 1
      BY <2>5
    <3>7. \A i \in 1..Len(stack') : stack'[i].id[1] \in 1..(m + 1)
      BY <2>6, <2>9, <2>12, <3>4, <3>5, <3>6
    <3>8. m + 1 \in Nat
      BY <2>6
    <3>. QED  BY <2>6, <3>2, <3>3, <3>7, <3>8 DEF Roots
  <2>17. StackInv'
    <3>1. Climbed([stack EXCEPT ![n] = w], Len([stack EXCEPT ![n] = w]))
      <4>. DEFINE v == [stack EXCEPT ![n] = w]
      <4>1. v[n] = w /\ Len(v) = n /\ \A i \in 1..n : i < n => v[i] = stack[i]
        BY <2>2, <2>5
      <4>. HIDE DEF v, n
      <4>2. PICK c : c = Top.ask.hops - Top.ask.route.hops
        OBVIOUS
      <4>3. /\ c \in 1..(n - 1) /\ stack[n - c].agent = Top.ask.caller /\ stack[n - c].id = Top.ask.parent
            /\ \A k \in (n - c)..(n - 1) : stack[k].pc = "child"
        BY <1>1, <2>5, <4>2 DEF Climbed
      <4>4. n - c \in 1..n /\ n - c < n /\ \A k \in (n - c)..(n - 1) : k \in 1..n /\ k < n
        BY <2>5, <4>3
      <4>5. v[n - c] = stack[n - c] /\ \A k \in (n - c)..(n - 1) : v[k] = stack[k]
        BY <4>1, <4>4
      <4>6. Climbed(v, n)
        BY <2>2, <4>1, <4>2, <4>3, <4>5 DEF Climbed
      <4>. QED  BY <4>1, <4>6 DEF v
    <3>2. StackOK(stack, _run_registry) /\ stack # <<>> /\ SameRun(w, stack[Len(stack)])
          /\ w.pc \in Waiting /\ Len(r.id) > 0
      <4>1. StackOK(stack, _run_registry) /\ stack # <<>>
        BY <1>1 DEF StackInv, Running
      <4>2. SameRun(w, stack[Len(stack)])
        BY <2>3, <2>5
      <4>3. w.pc \in Waiting /\ Len(r.id) > 0
        <5>1. w.pc \in Waiting
          BY <2>2 DEF Waiting
        <5>2. Len(r.id) = 1
          BY <2>9, <2>12
        <5>. QED  BY <5>1, <5>2
      <4>. QED  BY <4>1, <4>2, <4>3
    <3>. QED  BY <2>4, <2>12, <2>14, <2>15, <2>16, <3>1, <3>2, RunStarts DEF StackInv
  <2>18. ContextInv'
    BY <1>1, <2>2, <2>12, <2>13, PushKeepsContexts DEF Asking
  <2>. QED  BY <1>1, <2>17, <2>18 DEF IInv, AnswererIsEntitled, OnlyDeclaredExecuted
<1>. QED  BY <1>2, <1>3 DEF CallerRunsAgain, Goto

\* The host calls the root agent.
LEMMA RunAgentStep ==
  ASSUME IInv, RunAgent
  PROVE  IInv'
<1>1. /\ stack = <<>> /\ _run_registry = <<>> /\ Push(None, NewRun(FreshId, Root, "host", None))
      /\ UNCHANGED <<contexts, raised, answer, executed>>
  BY DEF RunAgent, Running
<1>2. FreshId = <<1>>
  <2>1. {id \in DOMAIN _run_registry : Len(id) = 1} = {}
    BY <1>1
  <2>2. Cardinality({}) = 0
    BY FS_EmptySet
  <2>. QED  BY <2>1, <2>2 DEF FreshId
<1>3. PICK r : r = NewRun(FreshId, Root, "host", None)
  OBVIOUS
<1>4. FreshId \in Id /\ Root \in Agent
  BY <1>2, AgentAssumption DEF Id
<1>5. /\ r \in RunT /\ r.id = <<1>> /\ r.pc = "bootstrap" /\ r.caller = "host"
  <2>1. PICK parent \in Id \cup {None}, caller \in Agent \cup {"host"}, id \in Id :
          parent = None /\ caller = "host" /\ id = FreshId
    BY <1>4
  <2>2. r = NewRun(id, Root, caller, parent)
    BY <1>3, <2>1
  <2>. QED  BY <1>2, <1>4, <2>1, <2>2, NewRunFacts
<1>6. stack' = <<r>> /\ _run_registry' = With(_run_registry, r.id, Lineage(r))
  BY <1>1, <1>3 DEF Push, Lineage, Running
<1>7. DOMAIN _run_registry' = {<<1>>} /\ _run_registry'[<<1>>] = Lineage(r)
  BY <1>1, <1>5, <1>6 DEF With
<1>8. /\ stack' \in Seq(RunT) /\ Len(stack') = 1 /\ stack'[1] = r
      /\ \A i \in 1..Len(stack') : i = 1
  BY <1>5, <1>6
<1>9. StackInv'
  <2>1. Ids(stack')
    <3>1. Len(r.id) > 0
      BY <1>5
    <3>2. \A i \in 1..Len(stack') : stack'[i] = r
      BY <1>8
    <3>3. \A i, j \in 1..Len(stack') : ~(i < j)
      BY <1>8
    <3>4. \A i \in 1..Len(stack') : Len(stack'[i].id) > 0
      BY <3>1, <3>2
    <3>. QED  BY <3>3, <3>4 DEF Ids
  <2>2. Registered(stack', _run_registry')
    BY <1>5, <1>7, <1>8 DEF Registered
  <2>3. Roots(stack', _run_registry')
    <3>1. {id \in DOMAIN _run_registry' : Len(id) = 1} = {<<k>> : k \in 1..1}
      BY <1>7
    <3>2. \A i \in 1..Len(stack') : stack'[i].id[1] \in 1..1
      BY <1>5, <1>8
    <3>. QED  BY <3>1, <3>2 DEF Roots
  <2>4. Local(r)
    BY <1>5 DEF Local, Asking
  <2>5. Linked(stack', 1)
    BY <1>5, <1>8 DEF Linked, Waiting
  <2>6. Climbed(stack', 1)
    BY <1>5, <1>8 DEF Climbed
  <2>7. DOMAIN _run_registry' \subseteq Id
    BY <1>2, <1>4, <1>7
  <2>. QED  BY <1>8, <2>1, <2>2, <2>3, <2>4, <2>5, <2>6, <2>7 DEF StackInv, StackOK
<1>10. ContextInv'
  <2>1. \A i \in 1..Len(stack') : stack'[i].pc \notin Asking
    BY <1>5, <1>8 DEF Asking
  <2>2. \A i \in 1..Len(stack) : FALSE
    BY <1>1
  <2>. QED  BY <1>1, <2>1, <2>2, ContextsStay DEF IInv
<1>. QED  BY <1>1, <1>9, <1>10 DEF IInv, AnswererIsEntitled, OnlyDeclaredExecuted

-----------------------------------------------------------------------------
(***************************************************************************)
(* Runs that leave.                                                        *)
(***************************************************************************)

\* The run below takes up the result, or the exception.
LEMMA ResumedFacts ==
  ASSUME NEW u \in RunT, u.pc \in Waiting, Local(u), NEW res,
         NEW run \in Resumed(u, res)
  PROVE  /\ SameRun(run, u) /\ Local(run) /\ run.pc \notin Waiting \cup {"resolving"}
         /\ run.pc \in Asking => u.pc \in Asking
         /\ u.pc \in Asking \cup {"raising"} => run.pc \in Asking \cup {"raising"}
<1>1. CASE u.pc = "child"
  <2>1. \/ run = [u EXCEPT !.pc = "turn", !.last = "subagent_error"]
        \/ run = [u EXCEPT !.pc = "turn", !.last = "subagent_result"]
        \/ run = [u EXCEPT !.pc = "turn"]
    BY <1>1 DEF Resumed
  <2>2. "turn" \in Pcs /\ "subagent_error" \in Entries /\ "subagent_result" \in Entries
    BY DEF Pcs, Entries
  <2>3. SameRun(run, u) /\ run.pc = "turn"
    BY <2>1, <2>2 DEF RunT, SameRun
  <2>. QED  BY <1>1, <2>3 DEF Local, Waiting, Asking
<1>2. CASE u.pc = "caller"
  <2>1. \E pc \in {"raising", "answered", "ask_user"} : run = [u EXCEPT !.pc = pc]
    BY <1>2 DEF Resumed
  <2>2. PICK pc \in {"raising", "answered", "ask_user"} : run = [u EXCEPT !.pc = pc]
    BY <2>1
  <2>3. SameRun(run, u) /\ run.pc = pc /\ run.ask = u.ask
    BY <2>2 DEF RunT, SameRun, Pcs, Asking
  <2>4. Local(run)
    BY <1>2, <2>2, <2>3 DEF Local, Asking
  <2>. QED  BY <1>2, <2>2, <2>3, <2>4 DEF Waiting, Asking
<1>. QED  BY <1>1, <1>2 DEF Waiting

LEMMA LeaveStep ==
  ASSUME IInv, Running, NEW res, Leave(res), Top.pc \notin Asking,
         raised \subseteq raised', Top.pc = "raising" => Top.id \in raised',
         UNCHANGED <<_run_registry, contexts, answer, executed>>
  PROVE  IInv'
<1>. DEFINE n == Len(stack) - 1
<1>0. stack \in Seq(RunT) /\ Len(stack) \in Nat \ {0} /\ StackInv /\ stack[Len(stack)] = Top
  BY TopFacts DEF IInv, Top
<1>1. /\ n \in Nat /\ Len(stack) = n + 1 /\ n = Len(stack) - 1
      /\ n = 0 => stack' = <<>>
      /\ n # 0 => \E run \in Resumed(stack[n], res) : stack' = [SubSeq(stack, 1, n) EXCEPT ![n] = run]
  BY <1>0 DEF Leave
<1>. HIDE DEF n
<1>4. stack[n + 1] = Top /\ \A i \in 1..(n + 1) : i \in 1..n \/ i = n + 1
  BY <1>0, <1>1
<1>2. CASE n = 0
  <2>1. stack' = <<>>
    BY <1>1, <1>2
  <2>2. Roots(stack, _run_registry) /\ DOMAIN _run_registry \subseteq Id
    BY <1>0 DEF StackInv, StackOK
  <2>3. StackInv'
    <3>1. stack' \in Seq(RunT) /\ \A i \in 1..Len(stack') : FALSE
      BY <2>1
    <3>2. PICK k \in Nat : {id \in DOMAIN _run_registry : Len(id) = 1} = {<<j>> : j \in 1..k}
      BY <2>2 DEF Roots
    <3>3. Roots(stack', _run_registry)
      BY <3>1, <3>2 DEF Roots
    <3>4. Ids(stack') /\ Registered(stack', _run_registry)
      BY <3>1 DEF Ids, Registered
    <3>. QED  BY <2>2, <3>1, <3>3, <3>4 DEF StackInv, StackOK
  <2>4. \A i \in 1..Len(stack) : stack[i] = Top
    BY <1>0, <1>1, <1>2
  <2>5. ContextInv'
    <3>1. \A i \in 1..Len(stack') : FALSE
      BY <2>1
    <3>2. \A i \in 1..Len(stack) : stack[i].pc \notin Asking \cup {"raising"} \/ stack[i].id \in raised'
      BY <2>4
    <3>. QED  BY <3>1, <3>2, ContextsStay DEF IInv
  <2>. QED  BY <2>3, <2>5 DEF IInv, AnswererIsEntitled, OnlyDeclaredExecuted
<1>3. CASE n # 0
  <2>1. PICK run \in Resumed(stack[n], res) : stack' = [SubSeq(stack, 1, n) EXCEPT ![n] = run]
    BY <1>1, <1>3
  <2>2. n \in 1..Len(stack) /\ n < Len(stack) /\ Len(stack) > 1
    BY <1>1, <1>3
  <2>3. stack[n] \in RunT /\ Local(stack[n]) /\ Linked(stack, n)
    BY <1>0, <2>2 DEF StackInv, StackOK
  <2>4. stack[n].pc \in Waiting
    BY <2>2, <2>3 DEF Linked
  <2>5. /\ SameRun(run, stack[n]) /\ Local(run) /\ run.pc \notin Waiting \cup {"resolving"}
        /\ run.pc \in Asking => stack[n].pc \in Asking
        /\ stack[n].pc \in Asking \cup {"raising"} => run.pc \in Asking \cup {"raising"}
    BY <2>3, <2>4, ResumedFacts
  <2>6. StackInv'
    BY <1>0, <1>1, <2>1, <2>2, <2>5, RunLeaves DEF StackInv
  <2>7. run \in RunT /\ run.id = stack[n].id
    BY <2>5 DEF SameRun
  <2>8. n \in Nat \ {0}
    BY <1>1, <1>3
  <2>9. Len(stack') = n /\ \A i \in 1..n : stack'[i] = IF i = n THEN run ELSE stack[i]
    BY <1>0, <2>1, <2>2, <2>7, <2>8, Popped
  <2>10. \A i \in 1..n : /\ stack'[i].id = stack[i].id
                         /\ stack'[i].pc \in Asking => stack[i].pc \in Asking
                         /\ stack[i].pc \in Asking \cup {"raising"} => stack'[i].pc \in Asking \cup {"raising"}
    BY <2>5, <2>7, <2>9
  <2>11. stack[n + 1].pc \notin Asking \cup {"raising"} \/ stack[n + 1].id \in raised'
    BY <1>4
  <2>12. \A i \in 1..n : i \in 1..(n + 1)
    BY <1>1
  <2>13. /\ \A i \in 1..Len(stack') : stack'[i].pc \in Asking =>
              \E j \in 1..Len(stack) : stack[j].id = stack'[i].id /\ stack[j].pc \in Asking
         /\ \A i \in 1..Len(stack) : stack[i].pc \in Asking \cup {"raising"} /\ stack[i].id \notin raised' =>
              \E j \in 1..Len(stack') : stack'[j].id = stack[i].id /\ stack'[j].pc \in Asking \cup {"raising"}
    BY <1>1, <1>4, <2>9, <2>10, <2>11, <2>12
  <2>14. ContextInv'
    BY <2>13, ContextsStay DEF IInv
  <2>. QED  BY <2>6, <2>14 DEF IInv, AnswererIsEntitled, OnlyDeclaredExecuted
<1>. QED  BY <1>2, <1>3

LEMMA LeavingSteps ==
  ASSUME IInv, Return \/ Raise \/ BootstrapFails
  PROVE  IInv'
<1>1. CASE Return
  BY <1>1, LeaveStep DEF Return, At, Asking
<1>2. CASE Raise
  BY <1>2, LeaveStep DEF Raise, At, Asking
<1>3. CASE BootstrapFails
  BY <1>3, LeaveStep DEF BootstrapFails, At, Asking
<1>. QED  BY <1>1, <1>2, <1>3

-----------------------------------------------------------------------------
(***************************************************************************)
(* Theorems.                                                               *)
(***************************************************************************)

LEMMA Starts ==
  ASSUME Init
  PROVE  IInv
<1>1. StackInv
  <2>1. {id \in DOMAIN _run_registry : Len(id) = 1} = {<<k>> : k \in 1..0}
    BY DEF Init
  <2>2. Roots(stack, _run_registry)
    BY <2>1 DEF Init, Roots
  <2>. QED  BY <2>2 DEF Init, StackInv, StackOK, Ids, Registered
<1>2. ContextInv
  BY DEF Init, ContextInv
<1>. QED  BY <1>1, <1>2 DEF Init, IInv, AnswererIsEntitled, OnlyDeclaredExecuted

LEMMA Steps ==
  ASSUME IInv, [Next]_vars
  PROVE  IInv'
<1>1. CASE Lifecycle
  BY <1>1, RunAgentStep, BootstrapStep, PreAgentHooksStep, PostAgentHooksStep, LeavingSteps DEF Lifecycle
<1>2. CASE ModelFails \/ ToolHooksEndRun \/ ExecuteTool
  BY <1>2, ModelFailsStep, ToolHooksEndRunStep, ExecuteToolStep
<1>3. CASE Dispatch
  <2>1. At("turn") /\ Top.agent \in Agent
    BY <1>3, TopFacts DEF Dispatch, IInv, At, RunT
  <2>2. PICK d \in Dispatched[Top.agent] :
          \/ Rejected(d) \/ HandleFinalMessage(d) \/ HandleToolCall(d) \/ HandleSkillInvocation(d)
          \/ HandleSubagentCalls(d) \/ RefuseSubagent(d) \/ HooksEndSubagentCall(d) \/ CallSubagent(d)
          \/ HandleCallback(d)
    BY <1>3 DEF Dispatch
  <2>3. d.route \in Routes
    BY <2>1, DispatchedRoutes
  <2>. QED  BY <2>1, <2>2, <2>3, PlainTurns, HandleToolCallStep, HandleSkillInvocationStep, CallSubagentStep,
               CallbackToCallerStep, CallbackFailsStep, CallbackToUserStep DEF HandleCallback
<1>4. CASE ResolveCallback
  BY <1>4, CallerPassesOnStep, HostResolvesStep, BehaviorRespondsStep, CallerRunsAgainStep,
     UserAnswersStep, CallbackAnsweredStep DEF ResolveCallback
<1>5. CASE UNCHANGED vars
  BY <1>5 DEF IInv, StackInv, ContextInv, AnswererIsEntitled, OnlyDeclaredExecuted, vars
<1>. QED  BY <1>1, <1>2, <1>3, <1>4, <1>5 DEF Next

\* The runs under way are linked as the registry says, and open contexts have a run that
\* waits.
THEOREM Invariance == Spec => []IInv
<1>1. Init => IInv
  BY Starts
<1>2. IInv /\ [Next]_vars => IInv'
  BY Steps
<1>. QED  BY <1>1, <1>2, PTL DEF Spec

\* No call context is left open by a run that ends without an exception
\* (Agent.handle_callback).
THEOREM NoContextIsForgotten == Spec => []OpenContextsAreWaiting
<1>1. IInv => OpenContextsAreWaiting
  <2>. SUFFICES ASSUME IInv, NEW id \in DOMAIN contexts, contexts[id] > 0, id \notin raised
                PROVE  \E i \in OnStack(id) : stack[i].pc \in Asking \cup {"raising"}
    BY DEF OpenContextsAreWaiting
  <2>1. PICK i \in 1..Len(stack) : stack[i].id = id /\ stack[i].pc \in Asking \cup {"raising"}
    BY DEF IInv, ContextInv
  <2>. QED  BY <2>1 DEF OnStack
<1>. QED  BY <1>1, Invariance, PTL

\* However deep calls nest, whoever is run again and whichever run ids are used again,
\* the registry leads resolve_callback up the calls of the asking run, one caller per hop.
THEOREM RegistryLeadsToCallers == Spec => []CallbackClimbsCalls
<1>1. IInv => CallbackClimbsCalls
  <2>. SUFFICES ASSUME IInv, NEW i \in 1..Len(stack), stack[i].pc \in {"resolving", "caller"},
                       stack[i].ask.caller # "host"
                PROVE  LET climbed == stack[i].ask.hops - stack[i].ask.route.hops
                       IN  /\ climbed < i /\ stack[i - climbed].agent = stack[i].ask.caller
                           /\ \A k \in (i - climbed)..(i - 1) : stack[k].pc = "child"
    BY DEF CallbackClimbsCalls
  <2>1. Climbed(stack, i)
    BY DEF IInv, StackInv, StackOK
  <2>2. PICK climbed : climbed = stack[i].ask.hops - stack[i].ask.route.hops
    OBVIOUS
  <2>3. /\ climbed \in 1..(i - 1) /\ stack[i - climbed].agent = stack[i].ask.caller
        /\ \A k \in (i - climbed)..(i - 1) : stack[k].pc = "child"
    BY <2>1, <2>2 DEF Climbed
  <2>4. climbed < i
    BY <2>3
  <2>. QED  BY <2>2, <2>3, <2>4
<1>. QED  BY <1>1, Invariance, PTL

\* At whatever level a callback is answered, it is by an agent that may answer it
\* (AgentHost.resolve_callback).
THEOREM OnlyTheEntitledAnswer == Spec => []AnswererIsEntitled
<1>1. IInv => AnswererIsEntitled
  BY DEF IInv
<1>. QED  BY <1>1, Invariance, PTL

\* Nothing undeclared is executed, whatever the model or a hook asks for
\* (Agent._normalize_decision_capabilities and the handlers).
THEOREM OnlyTheDeclaredRuns == Spec => []OnlyDeclaredExecuted
<1>1. IInv => OnlyDeclaredExecuted
  BY DEF IInv
<1>. QED  BY <1>1, Invariance, PTL
-----------------------------------------------------------------------------
(***************************************************************************)
(* The audit trace: which calls are announced and not yet finished.        *)
(***************************************************************************)

\* A run of the stack s that was announced.
Announced(s, id) == \E i \in 1..Len(s) : s[i].id = id /\ s[i].pc # "bootstrap"

AuditInv ==
  /\ \A id : Count(call_started, id) \in Nat /\ Count(call_finished, id) \in Nat
  /\ \A id : Count(call_started, id) = Count(call_finished, id) + IF Announced(stack, id) THEN 1 ELSE 0

\* The top run moves on, and was announced before.
Moves == /\ Running /\ Top.pc # "bootstrap" /\ UNCHANGED audit
         /\ \E r : SetTop(r) /\ r.id = Top.id /\ r.pc # "bootstrap"

\* A run starts on top of an announced one, or of nothing.
Calls == /\ Running => Top.pc # "bootstrap"
         /\ UNCHANGED audit
         /\ \E w, r : /\ stack' = Append(IF Running THEN [stack EXCEPT ![Len(stack)] = w] ELSE stack, r)
                      /\ r.pc = "bootstrap"
                      /\ Running => w.id = Top.id /\ w.pc # "bootstrap"

LEMMA TopMoves ==
  ASSUME IInv, \/ PreAgentHooks \/ PostAgentHooks \/ ModelFails \/ ToolHooksEndRun \/ ExecuteTool
               \/ CallerPassesOn \/ HostResolves \/ BehaviorResponds \/ UserAnswers \/ CallbackAnswered
  PROVE  Moves
<1>1. Running /\ Top \in RunT /\ Top.pc # "bootstrap" /\ UNCHANGED audit
  BY TopFacts DEF IInv, At, Asks, PreAgentHooks, PostAgentHooks, ModelFails, ToolHooksEndRun, ExecuteTool,
     CallerPassesOn, HostResolves, BehaviorResponds, UserAnswers, CallbackAnswered, audit
<1>2. PICK t \in RunT : t = Top /\ t.pc # "bootstrap"
  BY <1>1
<1>3. ASSUME NEW pc, pc # "bootstrap", NEW o, NEW x, NEW e,
             \/ SetTop([t EXCEPT !.pc = pc]) \/ SetTop([t EXCEPT !.pc = pc, !.outcome = o])
             \/ SetTop([t EXCEPT !.pc = pc, !.outcome = o, !.tool = x])
             \/ SetTop([t EXCEPT !.pc = pc, !.last = e, !.tool = x]) \/ SetTop([t EXCEPT !.pc = pc, !.tool = x])
             \/ SetTop([t EXCEPT !.pc = pc, !.last = e, !.ask = x]) \/ SetTop([t EXCEPT !.ask = x])
             \/ SetTop([t EXCEPT !.pc = pc, !.ask.caller = x])
      PROVE  Moves
  <2>1. /\ [t EXCEPT !.pc = pc].id = t.id /\ [t EXCEPT !.pc = pc, !.outcome = o].id = t.id
        /\ [t EXCEPT !.pc = pc, !.outcome = o, !.tool = x].id = t.id
        /\ [t EXCEPT !.pc = pc, !.last = e, !.tool = x].id = t.id
        /\ [t EXCEPT !.pc = pc, !.tool = x].id = t.id
        /\ [t EXCEPT !.pc = pc, !.last = e, !.ask = x].id = t.id
        /\ [t EXCEPT !.ask = x].id = t.id /\ [t EXCEPT !.pc = pc, !.ask.caller = x].id = t.id
    BY DEF RunT
  <2>2. /\ [t EXCEPT !.pc = pc].pc = pc /\ [t EXCEPT !.pc = pc, !.outcome = o].pc = pc
        /\ [t EXCEPT !.pc = pc, !.outcome = o, !.tool = x].pc = pc
        /\ [t EXCEPT !.pc = pc, !.last = e, !.tool = x].pc = pc
        /\ [t EXCEPT !.pc = pc, !.tool = x].pc = pc
        /\ [t EXCEPT !.pc = pc, !.last = e, !.ask = x].pc = pc
        /\ [t EXCEPT !.ask = x].pc = t.pc /\ [t EXCEPT !.pc = pc, !.ask.caller = x].pc = pc
    BY DEF RunT
  <2>3. \A r : SetTop(r) /\ r.id = t.id /\ r.pc # "bootstrap" => Moves
    BY <1>1, <1>2 DEF Moves
  <2>. QED  BY <1>2, <1>3, <2>1, <2>2, <2>3
<1>4. CASE PreAgentHooks
  BY <1>2, <1>3, <1>4 DEF PreAgentHooks, Goto
<1>5. CASE PostAgentHooks
  BY <1>2, <1>3, <1>5 DEF PostAgentHooks, Goto
<1>6. CASE ModelFails \/ ToolHooksEndRun \/ ExecuteTool
  BY <1>2, <1>3, <1>6 DEF ModelFails, ToolHooksEndRun, ExecuteTool, Goto
<1>7. CASE HostResolves \/ BehaviorResponds \/ UserAnswers \/ CallbackAnswered
  BY <1>2, <1>3, <1>7 DEF HostResolves, BehaviorResponds, UserAnswers, CallbackAnswered, Goto
<1>8. CASE CallerPassesOn
  <2>1. PICK x : SetTop([Top EXCEPT !.ask = x])
    BY <1>8 DEF CallerPassesOn
  <2>. QED  BY <1>2, <1>3, <2>1
<1>. QED  BY <1>4, <1>5, <1>6, <1>7, <1>8

\* So does a decision, unless it calls a child.
LEMMA DecisionMoves ==
  ASSUME IInv, Dispatch
  PROVE  Moves \/ Calls
<1>1. Running /\ StackInv /\ Top.pc = "turn" /\ Top \in RunT
  BY TopFacts DEF IInv, Dispatch, At
<1>2. PICK t : t = Turn /\ t \in RunT /\ t.id = Top.id /\ t.pc = "turn"
  BY <1>1, TurnFacts DEF SameRun
<1>3. ASSUME NEW pc, pc # "bootstrap", NEW o, NEW e, NEW x, UNCHANGED audit,
             \/ SetTop([t EXCEPT !.pc = pc]) \/ SetTop([t EXCEPT !.last = e])
             \/ SetTop([t EXCEPT !.pc = pc, !.last = e]) \/ SetTop([t EXCEPT !.pc = pc, !.outcome = o])
             \/ SetTop([t EXCEPT !.pc = pc, !.tool = x]) \/ SetTop([t EXCEPT !.last = e, !.skills = x])
             \/ SetTop([t EXCEPT !.pc = pc, !.ask = x])
      PROVE  Moves
  <2>1. /\ [t EXCEPT !.pc = pc].id = t.id /\ [t EXCEPT !.last = e].id = t.id
        /\ [t EXCEPT !.pc = pc, !.last = e].id = t.id /\ [t EXCEPT !.pc = pc, !.outcome = o].id = t.id
        /\ [t EXCEPT !.pc = pc, !.tool = x].id = t.id /\ [t EXCEPT !.last = e, !.skills = x].id = t.id
        /\ [t EXCEPT !.pc = pc, !.ask = x].id = t.id
    BY <1>2 DEF RunT
  <2>2. /\ [t EXCEPT !.pc = pc].pc = pc /\ [t EXCEPT !.last = e].pc = t.pc
        /\ [t EXCEPT !.pc = pc, !.last = e].pc = pc /\ [t EXCEPT !.pc = pc, !.outcome = o].pc = pc
        /\ [t EXCEPT !.pc = pc, !.tool = x].pc = pc /\ [t EXCEPT !.last = e, !.skills = x].pc = t.pc
        /\ [t EXCEPT !.pc = pc, !.ask = x].pc = pc
    BY <1>2 DEF RunT
  <2>3. \A r : SetTop(r) /\ r.id = t.id /\ r.pc # "bootstrap" => Moves
    BY <1>1, <1>2, <1>3 DEF Moves
  <2>. QED  BY <1>2, <1>3, <2>1, <2>2, <2>3
<1>4. PICK d : \/ Rejected(d) \/ HandleFinalMessage(d) \/ HandleToolCall(d) \/ HandleSkillInvocation(d)
               \/ HandleSubagentCalls(d) \/ RefuseSubagent(d) \/ HooksEndSubagentCall(d) \/ CallSubagent(d)
               \/ HandleCallback(d)
  BY DEF Dispatch
<1>5. CASE Rejected(d) \/ HandleFinalMessage(d) \/ HandleToolCall(d)
  BY <1>2, <1>3, <1>5 DEF Rejected, HandleFinalMessage, HandleToolCall, audit
<1>6. CASE HandleSkillInvocation(d) \/ HandleSubagentCalls(d) \/ RefuseSubagent(d) \/ HooksEndSubagentCall(d)
  <2>1. CASE HandleSkillInvocation(d)
    <3>1. CASE \E s \in Skill : \E last \in IF s \in Top.skills THEN {"resources_loaded", "already_loaded"} ELSE {"loaded"} :
                 SetTop([Turn EXCEPT !.last = last, !.skills = @ \cup {s}])
      <4>1. PICK s, last : SetTop([Turn EXCEPT !.last = last, !.skills = @ \cup {s}])
        BY <3>1
      <4>2. PICK x : x = Turn.skills \cup {s}
        OBVIOUS
      <4>. QED  BY <1>2, <1>3, <2>1, <4>1, <4>2 DEF HandleSkillInvocation, audit
    <3>. QED  BY <1>2, <1>3, <2>1, <3>1 DEF HandleSkillInvocation, audit
  <2>. QED  BY <1>2, <1>3, <1>6, <2>1 DEF HandleSubagentCalls, RefuseSubagent, HooksEndSubagentCall, audit
<1>7. CASE HandleCallback(d)
  <2>1. UNCHANGED audit
    BY <1>7 DEF HandleCallback, CallbackToCaller, CallbackFails, CallbackToUser, Callback
  <2>2. \E pc, o, x : /\ pc # "bootstrap"
                      /\ \/ SetTop([t EXCEPT !.pc = pc]) \/ SetTop([t EXCEPT !.pc = pc, !.outcome = o])
                         \/ SetTop([t EXCEPT !.pc = pc, !.ask = x])
    BY <1>2, <1>7 DEF HandleCallback, CallbackToCaller, CallbackFails, CallbackToUser, Callback
  <2>. QED  BY <1>3, <2>1, <2>2
<1>8. CASE CallSubagent(d)
  <2>0. UNCHANGED audit
    BY <1>8 DEF CallSubagent
  <2>1. CASE SetTop([Turn EXCEPT !.last = "subagent_error"])
    BY <1>2, <1>3, <2>0, <2>1
  <2>2. ASSUME NEW c, Push([Turn EXCEPT !.pc = "child", !.last = "subagent_call"],
                           NewRun(ChildId(c), c, Top.agent, Top.id))
        PROVE  Calls
    <3>1. NewRun(ChildId(c), c, Top.agent, Top.id).pc = "bootstrap"
      BY DEF NewRun
    <3>2. /\ [t EXCEPT !.pc = "child", !.last = "subagent_call"].id = t.id
          /\ [t EXCEPT !.pc = "child", !.last = "subagent_call"].pc = "child"
      BY <1>2 DEF RunT
    <3>. QED  BY <1>1, <1>2, <2>0, <2>2, <3>1, <3>2 DEF Push, Calls
  <2>. QED  BY <1>8, <2>1, <2>2 DEF CallSubagent
<1>. QED  BY <1>4, <1>5, <1>6, <1>7, <1>8

\* The first run, and a caller that is run again.
LEMMA RunStartsAnew ==
  ASSUME IInv, RunAgent \/ CallerRunsAgain
  PROVE  Moves \/ Calls
<1>1. CASE RunAgent
  <2>1. NewRun(FreshId, Root, "host", None).pc = "bootstrap"
    BY DEF NewRun
  <2>. QED  BY <1>1, <2>1 DEF RunAgent, Push, Calls, Running
<1>2. CASE CallerRunsAgain
  <2>1. Running /\ Top \in RunT /\ Top.pc = "resolving" /\ UNCHANGED audit
    BY <1>2, TopFacts DEF IInv, At, CallerRunsAgain, audit
  <2>2. ASSUME NEW pc \in {"caller", "ask_user"}
        PROVE  [Top EXCEPT !.pc = pc].id = Top.id /\ [Top EXCEPT !.pc = pc].pc = pc
    BY <2>1 DEF RunT
  <2>3. CASE Goto("ask_user")
    BY <2>1, <2>2, <2>3 DEF Goto, Moves
  <2>4. CASE Push([Top EXCEPT !.pc = "caller"], NewRun(FreshId, Top.ask.caller, "host", None))
    <3>1. NewRun(FreshId, Top.ask.caller, "host", None).pc = "bootstrap"
      BY DEF NewRun
    <3>. QED  BY <2>1, <2>2, <2>4, <3>1 DEF Push, Calls
  <2>. QED  BY <1>2, <2>3, <2>4 DEF CallerRunsAgain
<1>. QED  BY <1>1, <1>2

\* What a step does to the runs that were announced.
LEMMA MovesKeepRuns ==
  ASSUME IInv, IInv', Moves, NEW id
  PROVE  Announced(stack', id) <=> Announced(stack, id)
<1>1. stack \in Seq(RunT) /\ stack' \in Seq(RunT) /\ Len(stack) \in Nat \ {0}
  BY TopFacts DEF IInv, StackInv, StackOK, Moves
<1>2. PICK r : SetTop(r) /\ r.id = Top.id /\ r.pc # "bootstrap"
  BY DEF Moves
<1>3. Len(stack') = Len(stack) /\ \A i \in 1..Len(stack) : stack'[i] = IF i = Len(stack) THEN r ELSE stack[i]
  BY <1>1, <1>2 DEF SetTop
<1>4. \A i \in 1..Len(stack) : stack'[i].id = stack[i].id /\ (stack'[i].pc = "bootstrap" <=> stack[i].pc = "bootstrap")
  BY <1>2, <1>3 DEF Top, Moves
<1>. QED  BY <1>3, <1>4 DEF Announced

LEMMA CallsKeepRuns ==
  ASSUME IInv, IInv', Calls, NEW id
  PROVE  Announced(stack', id) <=> Announced(stack, id)
<1>1. stack \in Seq(RunT) /\ stack' \in Seq(RunT) /\ Len(stack) \in Nat
  BY DEF IInv, StackInv, StackOK
<1>2. PICK w, r : /\ stack' = Append(IF Running THEN [stack EXCEPT ![Len(stack)] = w] ELSE stack, r)
                  /\ r.pc = "bootstrap"
                  /\ Running => w.id = Top.id /\ w.pc # "bootstrap"
  BY DEF Calls
<1>3. CASE Running
  <2>1. /\ Len(stack') = Len(stack) + 1 /\ Len(stack) # 0 /\ stack'[Len(stack) + 1] = r
        /\ \A i \in 1..Len(stack) : stack'[i] = IF i = Len(stack) THEN w ELSE stack[i]
    BY <1>1, <1>2, <1>3 DEF Running
  <2>2. \A i \in 1..Len(stack) : /\ stack'[i].id = stack[i].id
                                 /\ stack'[i].pc = "bootstrap" <=> stack[i].pc = "bootstrap"
    BY <1>2, <1>3, <2>1 DEF Top, Calls
  <2>3. \A i \in 1..(Len(stack) + 1) : i \in 1..Len(stack) \/ i = Len(stack) + 1
    BY <1>1
  <2>4. \A i \in 1..Len(stack) : i \in 1..(Len(stack) + 1)
    BY <1>1
  <2>. QED  BY <1>2, <2>1, <2>2, <2>3, <2>4 DEF Announced
<1>4. CASE ~Running
  <2>1. stack = <<>> /\ stack' = <<r>>
    BY <1>2, <1>4 DEF Running
  <2>. QED  BY <1>2, <2>1 DEF Announced
<1>. QED  BY <1>3, <1>4

LEMMA LeaveTakesOne ==
  ASSUME IInv, Running, NEW res, Leave(res), NEW id
  PROVE  /\ Announced(stack', id) <=> Announced(stack, id) /\ id # Top.id
         /\ Announced(stack, Top.id) <=> Top.pc # "bootstrap"
<1>. DEFINE n == Len(stack) - 1
<1>1. /\ stack \in Seq(RunT) /\ n \in Nat /\ Len(stack) = n + 1 /\ StackInv /\ stack[n + 1] = Top
      /\ n = 0 => stack' = <<>>
      /\ n # 0 => \E run \in Resumed(stack[n], res) : stack' = [SubSeq(stack, 1, n) EXCEPT ![n] = run]
  BY TopFacts DEF IInv, Top, Leave
<1>. HIDE DEF n
<1>2. ASSUME NEW i \in 1..(n + 1) PROVE stack[i].id = Top.id <=> i = n + 1
  <2>1. i \in 1..Len(stack) /\ n + 1 \in 1..Len(stack)
    BY <1>1
  <2>2. stack[i].id = stack[n + 1].id => i = n + 1
    BY <1>1, <2>1, OneRunPerId
  <2>. QED  BY <1>1, <2>2
<1>3. \A i \in 1..(n + 1) : i \in 1..n \/ i = n + 1
  BY <1>1
<1>4. \A i \in 1..n : i \in 1..(n + 1) /\ i # n + 1
  BY <1>1
<1>5. n + 1 \in 1..(n + 1)
  BY <1>1
<1>6. Len(stack') = n /\ \A i \in 1..n : /\ stack'[i].id = stack[i].id
                                         /\ stack'[i].pc = "bootstrap" <=> stack[i].pc = "bootstrap"
  <2>1. CASE n = 0
    BY <1>1, <2>1
  <2>2. CASE n # 0
    <3>1. PICK run \in Resumed(stack[n], res) : stack' = [SubSeq(stack, 1, n) EXCEPT ![n] = run]
      BY <1>1, <2>2
    <3>2. n \in 1..Len(stack) /\ n < Len(stack) /\ n \in Nat \ {0}
      BY <1>1, <2>2
    <3>3. stack[n] \in RunT /\ Local(stack[n]) /\ stack[n].pc \in Waiting
      BY <1>1, <3>2 DEF StackInv, StackOK, Linked
    <3>4. SameRun(run, stack[n])
      BY <3>1, <3>3, ResumedFacts
    <3>5. run.pc # "bootstrap" /\ stack[n].pc # "bootstrap"
      <4>1. PICK u \in RunT : u = stack[n]
        BY <3>3
      <4>2. /\ [u EXCEPT !.pc = "turn", !.last = "subagent_error"].pc = "turn"
            /\ [u EXCEPT !.pc = "turn", !.last = "subagent_result"].pc = "turn"
            /\ [u EXCEPT !.pc = "turn"].pc = "turn" /\ [u EXCEPT !.pc = "raising"].pc = "raising"
            /\ [u EXCEPT !.pc = "answered"].pc = "answered" /\ [u EXCEPT !.pc = "ask_user"].pc = "ask_user"
        BY DEF RunT
      <4>. QED  BY <3>1, <3>3, <4>1, <4>2 DEF Resumed, Waiting
    <3>6. Len(stack') = n /\ \A i \in 1..n : stack'[i] = IF i = n THEN run ELSE stack[i]
      <4>1. run \in RunT
        BY <3>4 DEF SameRun
      <4>. QED  BY <1>1, <3>1, <3>2, <4>1, Popped
    <3>. QED  BY <3>4, <3>5, <3>6 DEF SameRun
  <2>. QED  BY <2>1, <2>2
<1>7. Announced(stack', id) <=> \E i \in 1..n : stack[i].id = id /\ stack[i].pc # "bootstrap"
  BY <1>6 DEF Announced
<1>8. Announced(stack', id) <=> Announced(stack, id) /\ id # Top.id
  BY <1>1, <1>2, <1>3, <1>4, <1>7 DEF Announced
<1>9. Announced(stack, Top.id) <=> Top.pc # "bootstrap"
  BY <1>1, <1>2, <1>5 DEF Announced
<1>. QED  BY <1>8, <1>9

LEMMA OneMore ==
  ASSUME NEW count, NEW id, NEW x, Count(count, id) \in Nat, Count(count, x) \in Nat
  PROVE  Count(Add(count, id), x) = Count(count, x) + IF x = id THEN 1 ELSE 0
BY DEF Count, Add, With

\* Announcing a run, and finishing one that leaves, keep the two counts apart by the runs
\* on the stack.
LEMMA AuditStays ==
  ASSUME AuditInv, UNCHANGED audit, \A id : Announced(stack', id) <=> Announced(stack, id)
  PROVE  AuditInv'
BY DEF AuditInv, audit

LEMMA BootstrapCounts ==
  ASSUME IInv, IInv', AuditInv, Bootstrap
  PROVE  AuditInv'
<1>1. /\ stack \in Seq(RunT) /\ stack' \in Seq(RunT) /\ Len(stack) \in Nat \ {0} /\ StackInv
      /\ Running /\ Top \in RunT /\ Top.pc = "bootstrap"
      /\ call_started' = Add(call_started, Top.id) /\ call_finished' = call_finished
  BY TopFacts DEF IInv, StackInv, StackOK, Bootstrap, At
<1>2. PICK r : SetTop(r) /\ r.id = Top.id /\ r.pc = "pre"
  BY <1>1 DEF Bootstrap, Goto, RunT
<1>3. Len(stack') = Len(stack) /\ \A i \in 1..Len(stack) : stack'[i] = IF i = Len(stack) THEN r ELSE stack[i]
  BY <1>1, <1>2 DEF SetTop
<1>4. \A i \in 1..Len(stack) : stack[i].id = Top.id <=> i = Len(stack)
  BY <1>1, OneRunPerId DEF Top
<1>5. Len(stack) \in 1..Len(stack)
  BY <1>1
<1>6. ~Announced(stack, Top.id) /\ Announced(stack', Top.id)
  BY <1>1, <1>2, <1>3, <1>4, <1>5 DEF Announced, Top
<1>7. \A id : id # Top.id => (Announced(stack', id) <=> Announced(stack, id))
  BY <1>2, <1>3, <1>4 DEF Announced
<1>8. \A id : /\ Count(call_started, id) \in Nat /\ Count(call_finished, id) \in Nat
              /\ Count(call_started', id) = Count(call_started, id) + IF id = Top.id THEN 1 ELSE 0
  BY <1>1, OneMore DEF AuditInv
<1>. QED  BY <1>1, <1>6, <1>7, <1>8, SMTT(30) DEF AuditInv

LEMMA LeavingCounts ==
  ASSUME IInv, AuditInv, Return \/ Raise
  PROVE  AuditInv'
<1>1. /\ Running /\ Top.pc # "bootstrap" /\ \E res : Leave(res)
      /\ call_finished' = Add(call_finished, Top.id) /\ call_started' = call_started
  BY DEF Return, Raise, At
<1>2. /\ Announced(stack, Top.id)
      /\ \A id : Announced(stack', id) <=> Announced(stack, id) /\ id # Top.id
  BY <1>1, LeaveTakesOne
<1>3. \A id : /\ Count(call_started, id) \in Nat /\ Count(call_finished, id) \in Nat
              /\ Count(call_finished', id) = Count(call_finished, id) + IF id = Top.id THEN 1 ELSE 0
  BY <1>1, OneMore DEF AuditInv
<1>. QED  BY <1>1, <1>2, <1>3 DEF AuditInv

LEMMA UnannouncedLeaves ==
  ASSUME IInv, AuditInv, BootstrapFails
  PROVE  AuditInv'
<1>1. Running /\ Top.pc = "bootstrap" /\ Leave(None) /\ UNCHANGED audit
  BY DEF BootstrapFails, At, audit
<1>2. \A id : Announced(stack', id) <=> Announced(stack, id)
  BY <1>1, LeaveTakesOne
<1>. QED  BY <1>1, <1>2, AuditStays

LEMMA AuditSteps ==
  ASSUME IInv, AuditInv, [Next]_vars
  PROVE  AuditInv'
<1>0. IInv'
  BY Steps
<1>1. CASE Moves
  BY <1>0, <1>1, MovesKeepRuns, AuditStays DEF Moves
<1>2. CASE Calls
  BY <1>0, <1>2, CallsKeepRuns, AuditStays DEF Calls
<1>3. CASE UNCHANGED vars
  BY <1>3 DEF AuditInv, vars, audit
<1>. QED  BY <1>0, <1>1, <1>2, <1>3, TopMoves, DecisionMoves, RunStartsAnew, BootstrapCounts, LeavingCounts,
              UnannouncedLeaves DEF Next, Lifecycle, ResolveCallback

\* However runs nest, whatever raises and whichever run ids are used again, each agent
\* call that was announced is finished once, when it leaves the stack (the finally block
\* of Agent.run).
THEOREM CallsAreFinished == Spec => []CallsFinishOnce
<1>1. Init => AuditInv
  BY DEF Init, AuditInv, Announced, Count
<1>2. IInv /\ AuditInv /\ [Next]_vars => AuditInv'
  BY AuditSteps
<1>3. IInv /\ AuditInv => CallsFinishOnce
  <2>. SUFFICES ASSUME IInv, AuditInv, NEW id
                PROVE  Count(call_started, id) - Count(call_finished, id)
                         = Cardinality({i \in OnStack(id) : stack[i].pc # "bootstrap"})
    BY DEF CallsFinishOnce
  <2>1. Count(call_started, id) - Count(call_finished, id) = IF Announced(stack, id) THEN 1 ELSE 0
    BY DEF AuditInv
  <2>2. CASE Announced(stack, id)
    <3>1. PICK i \in 1..Len(stack) : stack[i].id = id /\ stack[i].pc # "bootstrap"
      BY <2>2 DEF Announced
    <3>2. {k \in OnStack(id) : stack[k].pc # "bootstrap"} = {i}
      BY <3>1, OneRunPerId DEF IInv, OnStack
    <3>. QED  BY <2>1, <2>2, <3>2, FS_Singleton
  <2>3. CASE ~Announced(stack, id)
    <3>1. {k \in OnStack(id) : stack[k].pc # "bootstrap"} = {}
      BY <2>3 DEF Announced, OnStack
    <3>. QED  BY <2>1, <2>3, <3>1, FS_EmptySet
  <2>. QED  BY <2>2, <2>3
<1>. QED  BY <1>1, <1>2, <1>3, Invariance, PTL DEF Spec

=============================================================================
