------------------------ MODULE SubagentBatch_proofs ------------------------
(***************************************************************************)
(* Proofs about SubagentBatch, for any batches, any output keys, any       *)
(* number of children, threads and rounds, with timeouts and               *)
(* cleanup_checkpoints at any moment: every spec gets one result, and a    *)
(* child that asked is resumed as itself, unless it shares its key.        *)
(***************************************************************************)
EXTENDS SubagentBatch, TLAPS, FiniteSetTheorems, WellFoundedInduction

-----------------------------------------------------------------------------
(***************************************************************************)
(* The inductive invariant.                                                *)
(***************************************************************************)

Open   == pending \cup blocked
Flying == pc \in {"wait", "tombstone", "collect"}

\* The frame of the batch.
Shape ==
  /\ pc \in {"idle", "round", "wait", "tombstone", "collect", "resolve", "asking", "cleanup"}
  /\ batch \in 0..MaxBatches
  /\ round_num \in Nat
  /\ specs \in Seq(OutputKey)
  /\ DOMAIN final_results = DOMAIN specs
  /\ blocked # {} => pc \in {"resolve", "asking"}
  /\ pc = "asking" => blocked # {}
  /\ pc \in {"cleanup", "idle"} => pending = {}

\* The entry shares its key with no other child.
Own(e) == e.key \notin reused

\* An entry has the key of its spec; if it is the only one with that key, it runs its own
\* spec, with its own conversation of the round it was or will be run in.
EntryInv ==
  /\ \A e \in Open : e \in Entry /\ e.origin \in DOMAIN specs /\ e.key = specs[e.origin]
  /\ \A e \in Open : Own(e) => e.slot = e.origin
  /\ \A e \in blocked : Own(e) =>
       e.messages = [batch |-> batch, slot |-> e.origin, answers |-> round_num]
  /\ \A e \in pending : Own(e) =>
       e.messages = [batch |-> batch, slot |-> e.origin,
                     answers |-> IF pc \in {"resolve", "asking"} THEN round_num + 1 ELSE round_num]

\* A key that is not in reused belongs to one spec, and to no child of another batch.
KeyInv ==
  /\ \A i, j \in DOMAIN specs : specs[i] = specs[j] /\ specs[i] \notin reused => i = j
  /\ \A t \in DOMAIN tasks : \A i \in DOMAIN specs :
       t[1] # batch /\ specs[i] = tasks[t].entry.key => specs[i] \in reused

\* A sequence of one item.
Single(s) == s # <<>> /\ s = <<s[1]>>

\* A spec has a result or an entry.
Settlement ==
  /\ \A o \in DOMAIN specs :
       \/ Single(final_results[o]) /\ \A e \in Open : e.origin # o
       \/ final_results[o] = <<>> /\ \E e \in Open : e.origin = o
  /\ \A e, f \in Open : e.origin = f.origin => e = f
  /\ pending \cap blocked = {}

\* The only task that can run for an open entry is the one of this round.
TaskInv ==
  /\ \A t \in DOMAIN tasks :
       /\ t \in TaskId /\ tasks[t] \in Task
       /\ t[1] <= batch
       /\ t[1] = batch => t[3] \in DOMAIN specs /\ tasks[t].entry.key = specs[t[3]]
       /\ \A e \in Open : t[1] = batch /\ t[3] = e.origin => Flying /\ t = CurrentTask(e)
  /\ Flying => \A e \in pending :
       /\ CurrentTask(e) \in DOMAIN tasks
       /\ tasks[CurrentTask(e)].entry = e
       /\ pc = "wait" => ~tasks[CurrentTask(e)].abandoned
       /\ pc # "wait" => tasks[CurrentTask(e)].abandoned \/ tasks[CurrentTask(e)].at = "done"

\* Of the entries with a key of their own only those that were given up have a tombstone.
TombstoneInv ==
  \A e \in Open : Own(e) /\ e.key \in _timed_out_run_ids =>
    pc = "collect" /\ e \in pending /\ tasks[CurrentTask(e)].abandoned

\* What a child with a key of its own left behind that is, or will be, reported as
\* blocked.
Left(e) == Own(e) => _checkpoints[e.key] \in {e.messages} \cup (IF HostCleansUp THEN {None} ELSE {})

CheckpointInv ==
  /\ _checkpoints \in [RunId -> Conversation \cup {None}]
  /\ Flying => \A e \in pending :
       LET t == tasks[CurrentTask(e)]
       IN  ~t.abandoned /\ (t.at = "saved" \/ (t.at = "done" /\ t.outcome = "blocked")) => Left(e)
  /\ \A e \in blocked : Left(e)
  /\ pc = "asking" => saved \in Conversation
  /\ pc = "asking" /\ Own(First(blocked)) => saved = First(blocked).messages

IInv == Shape /\ EntryInv /\ KeyInv /\ Settlement /\ TaskInv /\ TombstoneInv /\ CheckpointInv

LEMMA InitIInv == Init => IInv
<1>. SUFFICES ASSUME Init PROVE IInv
  OBVIOUS
<1>. USE BatchAssumption DEF Init
<1>1. Shape
  BY DEF Shape
<1>2. EntryInv /\ KeyInv /\ Settlement /\ TaskInv
  BY DEF EntryInv, KeyInv, Settlement, TaskInv, Open, Flying
<1>3. TombstoneInv /\ CheckpointInv
  BY DEF TombstoneInv, CheckpointInv, Open, Flying
<1>. QED  BY <1>1, <1>2, <1>3 DEF IInv

-----------------------------------------------------------------------------
(***************************************************************************)
(* About the operators of the model.                                       *)
(***************************************************************************)

\* Every nonempty set of naturals has a least member.
LEMMA LeastMember ==
  ASSUME NEW S, S \subseteq Nat, S # {}
  PROVE  \E m \in S : \A k \in S : m <= k
<1>. DEFINE F == {0..k : k \in S}
<1>1. F \subseteq FiniteSubsetsOf(Nat) /\ F # {}
  <2>1. \A k \in Nat : IsFiniteSet(0..k) /\ 0..k \subseteq Nat
    BY FS_Interval
  <2>. QED  BY <2>1 DEF FiniteSubsetsOf
<1>. HIDE DEF F
<1>2. PICK x \in F : \A y \in F : <<y, x>> \notin StrictSubsetOrdering(Nat)
  BY <1>1, FS_StrictSubsetOrderingWellFounded, WFMin
<1>3. PICK m \in S : x = 0..m
  BY DEF F
<1>4. ASSUME NEW k \in S, k < m PROVE FALSE
  <2>1. 0..k \in F /\ 0..k \subseteq 0..m /\ m \notin 0..k /\ m \in 0..m /\ 0..m \subseteq Nat
    BY <1>4 DEF F
  <2>2. <<0..k, x>> \in StrictSubsetOrdering(Nat)
    BY <1>3, <2>1 DEF StrictSubsetOrdering
  <2>. QED  BY <1>2, <2>1, <2>2
<1>. QED  BY <1>4

\* First(entries) is one of the entries, with the least origin.
LEMMA FirstIsOne ==
  ASSUME NEW entries, entries # {}, \A e \in entries : e.origin \in Nat
  PROVE  /\ First(entries) \in entries
         /\ \A f \in entries : First(entries).origin <= f.origin
<1>. DEFINE S == {e.origin : e \in entries}
<1>1. PICK m \in S : \A k \in S : m <= k
  <2>. S \subseteq Nat /\ S # {}
    OBVIOUS
  <2>. HIDE DEF S
  <2>. QED  BY LeastMember
<1>2. PICK e \in entries : \A f \in entries : e.origin <= f.origin
  BY <1>1
<1>. QED  BY <1>2 DEF First

\* Reported adds one item for every spec of an entry that has a status.
LEMMA Reporting ==
  ASSUME NEW statuses, NEW o \in DOMAIN final_results,
         Single(final_results[o]) \/ final_results[o] = <<>>
  PROVE  /\ DOMAIN Reported(statuses) = DOMAIN final_results
         /\ (\A e \in DOMAIN statuses : e.origin # o) =>
              Reported(statuses)[o] = final_results[o]
         /\ (\E e \in DOMAIN statuses : e.origin = o) /\ final_results[o] = <<>> =>
              Single(Reported(statuses)[o])
<1>1. Reported(statuses)[o] =
        final_results[o] \o IF \E e \in DOMAIN statuses : e.origin = o
                            THEN <<statuses[CHOOSE e \in DOMAIN statuses : e.origin = o]>>
                            ELSE <<>>
  BY DEF Reported
<1>2. DOMAIN Reported(statuses) = DOMAIN final_results
  BY DEF Reported
<1>3. ASSUME \A e \in DOMAIN statuses : e.origin # o
      PROVE  Reported(statuses)[o] = final_results[o]
  <2>1. Reported(statuses)[o] = final_results[o] \o <<>>
    BY <1>1, <1>3
  <2>. QED  BY <2>1 DEF Single
<1>4. ASSUME \E e \in DOMAIN statuses : e.origin = o, final_results[o] = <<>>
      PROVE  Single(Reported(statuses)[o])
  <2>. DEFINE x == statuses[CHOOSE e \in DOMAIN statuses : e.origin = o]
  <2>1. Reported(statuses)[o] = <<>> \o <<x>>
    BY <1>1, <1>4
  <2>. HIDE DEF x
  <2>. QED  BY <2>1 DEF Single
<1>. QED  BY <1>2, <1>3, <1>4

\* The first spec with the key of an entry is one of the specs.
LEMMA OriginalIsOne ==
  ASSUME Shape, NEW e, NEW o \in DOMAIN specs, e.key = specs[o]
  PROVE  OriginalSpec(e) \in DOMAIN specs /\ specs[OriginalSpec(e)] = e.key
<1>. DEFINE S == {i \in DOMAIN specs : specs[i] = e.key}
<1>1. specs \in Seq(OutputKey) /\ DOMAIN specs \subseteq Nat
  BY DEF Shape
<1>2. PICK m \in S : \A k \in S : m <= k
  <2>. S \subseteq Nat /\ S # {}
    BY <1>1
  <2>. HIDE DEF S
  <2>. QED  BY LeastMember
<1>3. m \in DOMAIN specs /\ specs[m] = e.key /\ \A j \in 1..(m - 1) : specs[j] # e.key
  <2>1. \A j \in 1..(m - 1) : j \in DOMAIN specs /\ j < m
    BY <1>1, <1>2
  <2>. QED  BY <1>1, <1>2, <2>1
<1>. QED  BY <1>3 DEF OriginalSpec

\* A step that leaves the parent's variables alone.
LEMMA ParentKept ==
  ASSUME IInv, UNCHANGED <<reused, control, work>>
  PROVE  Shape' /\ EntryInv' /\ Settlement' /\ Open' = Open /\ Flying' = Flying
<1>. USE DEF control, work
<1>1. Open' = Open /\ Flying' = Flying
  BY DEF Open, Flying
<1>. QED  BY <1>1 DEF IInv, Shape, EntryInv, Settlement, Single, Own

\* Tasks that keep their entries, and no new ones.
LEMMA KeysKept ==
  ASSUME IInv, UNCHANGED <<reused, batch, specs>>, DOMAIN tasks' \subseteq DOMAIN tasks,
         \A t \in DOMAIN tasks' : tasks'[t].entry = tasks[t].entry
  PROVE  KeyInv'
BY DEF IInv, KeyInv

-----------------------------------------------------------------------------
(***************************************************************************)
(* The parent's steps.                                                     *)
(***************************************************************************)

LEMMA StepBeginBatch ==
  ASSUME IInv, BeginBatch
  PROVE  IInv'
<1>. USE BatchAssumption DEF IInv, store
<1>1. PICK keys \in BatchKeys[batch + 1], m \in Modes :
        /\ pc' \in {"idle", "round"}
        /\ pc' = "idle" => specs' = <<>>
        /\ specs' \in {<<>>, keys}
        /\ pending' = {FreshEntry(keys, i) : i \in DOMAIN specs'}
        /\ final_results' = [i \in DOMAIN specs' |-> <<>>]
        /\ reused' = {k \in RunId : Taken(k) \/ Twice(specs', k)}
  BY DEF BeginBatch
<1>2. /\ batch \in Nat /\ batch' = batch + 1 /\ batch' \in 1..MaxBatches
      /\ round_num' = 0 /\ blocked' = {}
      /\ UNCHANGED <<tasks, _checkpoints, _timed_out_run_ids>>
  BY DEF BeginBatch, Shape
<1>3. specs' \in Seq(OutputKey) /\ (specs' # <<>> => specs' = keys)
  BY <1>1, <1>2
<1>4. ~Flying' /\ Open' = pending'
  BY <1>1, <1>2 DEF Flying, Open
<1>5. \A e \in pending' : \E i \in DOMAIN specs' : e = FreshEntry(specs', i)
  BY <1>1, <1>3
<1>6. Shape'
  <2>1. pc' = "idle" => pending' = {}
    BY <1>1
  <2>. QED  BY <1>1, <1>2, <1>3, <2>1 DEF Shape
<1>7. EntryInv'
  <2>. SUFFICES ASSUME NEW i \in DOMAIN specs', NEW e, e = FreshEntry(specs', i), e \in pending'
                PROVE  /\ e \in Entry /\ e.origin \in DOMAIN specs' /\ e.slot = e.origin
                       /\ e.key = specs'[e.origin]
                       /\ e.messages = [batch |-> batch', slot |-> e.origin, answers |-> 0]
    <3>1. blocked' = {} /\ pc' \notin {"resolve", "asking"} /\ round_num' = 0
      BY <1>1, <1>2
    <3>2. SUFFICES ASSUME NEW e \in pending'
                   PROVE  /\ e \in Entry /\ e.origin \in DOMAIN specs' /\ e.slot = e.origin
                          /\ e.key = specs'[e.origin]
                          /\ e.messages = [batch |-> batch', slot |-> e.origin, answers |-> 0]
      BY <1>4, <3>1 DEF EntryInv
    <3>3. PICK i \in DOMAIN specs' : e = FreshEntry(specs', i)
      BY <1>5
    <3>. QED  BY <3>3
  <2>1. i \in Nat /\ specs'[i] \in OutputKey
    BY <1>3
  <2>. QED  BY <1>2, <2>1 DEF FreshEntry, Entry, Conversation, RunId
<1>8. Settlement'
  <2>1. \A o \in DOMAIN specs' : final_results'[o] = <<>> /\ \E e \in pending' : e.origin = o
    <3>1. \A i \in DOMAIN specs' : FreshEntry(keys, i) \in pending' /\ FreshEntry(keys, i).origin = i
      BY <1>1 DEF FreshEntry
    <3>. QED  BY <1>1, <3>1
  <2>2. \A e, f \in pending' : e.origin = f.origin => e = f
    BY <1>5 DEF FreshEntry
  <2>. QED  BY <1>2, <1>4, <2>1, <2>2 DEF Settlement
<1>9. TaskInv'
  <2>1. \A t \in DOMAIN tasks : t[1] \in Nat /\ t[1] <= batch
    BY DEF TaskInv, TaskId
  <2>. QED  BY <1>2, <1>4, <2>1 DEF TaskInv
<1>10. TombstoneInv'
  <2>1. \A e \in Open' : e.key \in RunId
    BY <1>7 DEF EntryInv, Entry
  <2>. QED  BY <1>1, <1>2, <2>1 DEF TombstoneInv, Taken, Own
<1>11. CheckpointInv'
  BY <1>1, <1>2, <1>4 DEF CheckpointInv
<1>12. KeyInv'
  <2>1. \A i \in DOMAIN specs' : specs'[i] \in RunId
    BY <1>3 DEF RunId
  <2>2. \A i, j \in DOMAIN specs' : specs'[i] = specs'[j] /\ specs'[i] \notin reused' => i = j
    BY <1>1, <2>1 DEF Twice
  <2>3. \A t \in DOMAIN tasks : \A i \in DOMAIN specs' :
          specs'[i] = tasks[t].entry.key => specs'[i] \in reused'
    BY <1>1, <2>1 DEF Taken
  <2>. QED  BY <1>2, <2>2, <2>3 DEF KeyInv
<1>. QED  BY <1>6, <1>7, <1>8, <1>9, <1>10, <1>11, <1>12

\* A step of the parent that moves on between two rounds or waits.
LEMMA StepNothingPending ==
  ASSUME IInv, NothingPending
  PROVE  IInv'
<1>. USE DEF NothingPending, store, work
<1>1. ~Flying' /\ Open' = {} /\ Open = {} /\ blocked = {}
  BY DEF Flying, Open, IInv, Shape
<1>2. Shape' /\ EntryInv' /\ KeyInv'
  BY <1>1 DEF IInv, Shape, EntryInv, KeyInv, Own
<1>3. Settlement' /\ TaskInv'
  BY <1>1 DEF IInv, Settlement, TaskInv, Single
<1>4. TombstoneInv' /\ CheckpointInv'
  BY <1>1 DEF IInv, TombstoneInv, CheckpointInv, Own
<1>. QED  BY <1>2, <1>3, <1>4 DEF IInv

\* The tasks of two entries are two.
LEMMA TasksDiffer ==
  ASSUME IInv, NEW e \in Open, NEW f \in Open, CurrentTask(e) = CurrentTask(f)
  PROVE  e = f
BY DEF IInv, Settlement, CurrentTask

LEMMA StepSubmitRound ==
  ASSUME IInv, SubmitRound
  PROVE  IInv'
<1>1. /\ pc = "round" /\ pc' = "wait"
      /\ UNCHANGED <<reused, batch, mode, specs, round_num, pending, blocked, final_results,
                     _checkpoints, _timed_out_run_ids>>
  BY DEF SubmitRound, work, store
<1>2. tasks' = [t \in DOMAIN tasks \cup CurrentTasks |->
                  IF t \in DOMAIN tasks THEN tasks[t]
                  ELSE [entry |-> CHOOSE e \in pending : CurrentTask(e) = t,
                        at |-> "queued", outcome |-> None, abandoned |-> FALSE]]
  BY DEF SubmitRound
<1>3. blocked = {} /\ Open = pending /\ Open' = pending /\ ~Flying /\ Flying'
  BY <1>1 DEF IInv, Shape, Open, Flying
<1>4. \A e \in pending : CurrentTask(e)' = CurrentTask(e)
  BY <1>1 DEF CurrentTask
<1>5. \A e \in pending : CurrentTask(e) \notin DOMAIN tasks
  BY <1>3 DEF IInv, TaskInv, CurrentTask
<1>6. \A e \in pending :
        tasks'[CurrentTask(e)] = [entry |-> e, at |-> "queued", outcome |-> None,
                                  abandoned |-> FALSE]
  <2>. TAKE e \in pending
  <2>1. CurrentTask(e) \in CurrentTasks
    BY DEF CurrentTasks
  <2>2. (CHOOSE f \in pending : CurrentTask(f) = CurrentTask(e)) = e
    <3>1. \A f \in pending : CurrentTask(f) = CurrentTask(e) => f = e
      BY <1>3, TasksDiffer
    <3>. QED  BY <3>1
  <2>. QED  BY <1>2, <1>5, <2>1, <2>2
<1>7. Shape' /\ EntryInv' /\ Settlement'
  BY <1>1, <1>3 DEF IInv, Shape, EntryInv, Settlement, Single, Own
<1>8. TaskInv'
  <2>1. ASSUME NEW t \in DOMAIN tasks
        PROVE  /\ t \in TaskId /\ tasks'[t] \in Task
               /\ t[1] <= batch'
               /\ t[1] = batch' => t[3] \in DOMAIN specs' /\ tasks'[t].entry.key = specs'[t[3]]
               /\ \A e \in Open' : t[1] = batch' /\ t[3] = e.origin => FALSE
    <3>1. tasks'[t] = tasks[t]
      BY <1>2
    <3>. QED  BY <1>1, <1>3, <3>1 DEF IInv, TaskInv
  <2>2. ASSUME NEW e0 \in pending, NEW t, t = CurrentTask(e0)
        PROVE  /\ t \in TaskId /\ tasks'[t] \in Task
               /\ t[1] <= batch'
               /\ t[1] = batch' => t[3] \in DOMAIN specs' /\ tasks'[t].entry.key = specs'[t[3]]
               /\ \A e \in Open' : t[1] = batch' /\ t[3] = e.origin => t = CurrentTask(e)'
    <3>1. tasks'[t] = [entry |-> e0, at |-> "queued", outcome |-> None, abandoned |-> FALSE]
      BY <1>6, <2>2
    <3>2. /\ e0 \in Entry /\ e0.origin \in DOMAIN specs /\ e0.key = specs[e0.origin]
          /\ batch \in Nat /\ round_num \in Nat /\ e0.origin \in Nat
      BY <1>3, BatchAssumption DEF IInv, EntryInv, Shape, Entry
    <3>4. t = <<batch, round_num, e0.origin>>
      BY <2>2 DEF CurrentTask
    <3>5. tasks'[t] \in Task
      BY <3>1, <3>2 DEF Task, TaskPcs
    <3>6. \A e \in Open' : t[3] = e.origin => t = CurrentTask(e)'
      BY <1>1, <3>4 DEF CurrentTask
    <3>7. t \in TaskId /\ t[1] = batch /\ t[3] = e0.origin
      BY <3>2, <3>4 DEF TaskId
    <3>8. /\ t[1] <= batch'
          /\ t[1] = batch' => t[3] \in DOMAIN specs' /\ tasks'[t].entry.key = specs'[t[3]]
      <4>1. tasks'[t].entry.key = specs[t[3]]
        BY <3>1, <3>2, <3>7
      <4>. QED  BY <1>1, <3>2, <3>7, <4>1
    <3>. QED  BY <3>5, <3>6, <3>7, <3>8
  <2>3. DOMAIN tasks' = DOMAIN tasks \cup CurrentTasks
    BY <1>2
  <2>4. \A t \in CurrentTasks : \E e \in pending : t = CurrentTask(e)
    BY DEF CurrentTasks
  <2>5. ASSUME NEW e \in pending
        PROVE  /\ CurrentTask(e)' \in DOMAIN tasks'
               /\ tasks'[CurrentTask(e)'].entry = e
               /\ ~tasks'[CurrentTask(e)'].abandoned
    <3>1. CurrentTask(e)' = CurrentTask(e) /\ CurrentTask(e) \in DOMAIN tasks'
      BY <1>4, <2>3 DEF CurrentTasks
    <3>2. tasks'[CurrentTask(e)] = [entry |-> e, at |-> "queued", outcome |-> None,
                                    abandoned |-> FALSE]
      BY <1>6
    <3>. QED  BY <3>1, <3>2
  <2>. QED  BY <1>1, <1>3, <2>1, <2>2, <2>3, <2>4, <2>5 DEF TaskInv
<1>9. TombstoneInv'
  BY <1>1, <1>3 DEF IInv, TombstoneInv, Own
<1>10. CheckpointInv'
  <2>1. ASSUME NEW e \in pending PROVE tasks'[CurrentTask(e)'].at = "queued"
    <3>1. CurrentTask(e)' = CurrentTask(e)
      BY <1>4
    <3>2. tasks'[CurrentTask(e)] = [entry |-> e, at |-> "queued", outcome |-> None,
                                    abandoned |-> FALSE]
      BY <1>6
    <3>. QED  BY <3>1, <3>2
  <2>. QED  BY <1>1, <1>3, <2>1 DEF IInv, CheckpointInv
<1>11. KeyInv'
  <2>1. \A t \in DOMAIN tasks' : (t \in DOMAIN tasks /\ tasks'[t] = tasks[t]) \/ t[1] = batch
    BY <1>2 DEF CurrentTasks, CurrentTask
  <2>. QED  BY <1>1, <2>1 DEF IInv, KeyInv
<1>. QED  BY <1>7, <1>8, <1>9, <1>10, <1>11 DEF IInv

LEMMA StepWaitDone ==
  ASSUME IInv, WaitDone
  PROVE  IInv'
<1>. USE DEF work, store
<1>1. /\ pc = "wait" /\ pc' = "collect"
      /\ UNCHANGED <<reused, batch, mode, specs, round_num, pending, blocked, final_results,
                     tasks, _checkpoints, _timed_out_run_ids>>
  BY DEF WaitDone
<1>2. Flying /\ Flying' /\ blocked = {} /\ Open' = Open
  BY <1>1 DEF Flying, Open, IInv, Shape
<1>3. \A e \in pending : tasks[CurrentTask(e)].at = "done"
  BY DEF WaitDone, Unfinished, CurrentTasks
<1>4. Shape' /\ EntryInv' /\ KeyInv' /\ Settlement'
  BY <1>1, <1>2, KeysKept DEF IInv, Shape, EntryInv, Settlement, Single, Own
<1>5. TaskInv'
  BY <1>1, <1>2, <1>3 DEF IInv, TaskInv, CurrentTask
<1>6. TombstoneInv'
  BY <1>1, <1>2 DEF IInv, TombstoneInv, Own
<1>7. CheckpointInv'
  BY <1>1, <1>2 DEF IInv, CheckpointInv, CurrentTask, Left, Own
<1>. QED  BY <1>4, <1>5, <1>6, <1>7 DEF IInv

LEMMA StepWaitTimesOut ==
  ASSUME IInv, WaitTimesOut
  PROVE  IInv'
<1>. USE DEF work, store
<1>1. /\ pc = "wait" /\ pc' = "tombstone"
      /\ UNCHANGED <<reused, batch, mode, specs, round_num, pending, blocked, final_results,
                     _checkpoints, _timed_out_run_ids>>
  BY DEF WaitTimesOut
<1>2. Flying /\ Flying' /\ blocked = {} /\ Open' = Open
  BY <1>1 DEF Flying, Open, IInv, Shape
<1>3. tasks' = [t \in DOMAIN tasks |-> [tasks[t] EXCEPT !.abandoned = @ \/ t \in Unfinished]]
  BY DEF WaitTimesOut
<1>4. DOMAIN tasks' = DOMAIN tasks
  BY <1>3
<1>5. \A t \in DOMAIN tasks :
        /\ tasks[t] \in Task /\ tasks'[t] \in Task
        /\ tasks'[t].entry = tasks[t].entry /\ tasks'[t].at = tasks[t].at
        /\ tasks'[t].outcome = tasks[t].outcome
        /\ tasks[t].abandoned => tasks'[t].abandoned
        /\ t \in Unfinished => tasks'[t].abandoned
  BY <1>3 DEF IInv, TaskInv, Task
<1>6. \A e \in pending : CurrentTask(e) \in DOMAIN tasks /\ CurrentTask(e) \in CurrentTasks
  BY <1>2 DEF IInv, TaskInv, CurrentTasks
<1>7. \A e \in pending : tasks'[CurrentTask(e)].abandoned \/ tasks[CurrentTask(e)].at = "done"
  BY <1>5, <1>6 DEF Unfinished
<1>8. Shape' /\ EntryInv' /\ KeyInv' /\ Settlement'
  <2>1. KeyInv'
    BY <1>1, <1>4, <1>5, KeysKept
  <2>. QED  BY <1>1, <1>2, <2>1 DEF IInv, Shape, EntryInv, Settlement, Single, Own
<1>9. TaskInv'
  <2>1. \A t \in DOMAIN tasks' :
          /\ t \in TaskId /\ tasks'[t] \in Task
          /\ t[1] <= batch'
          /\ t[1] = batch' => t[3] \in DOMAIN specs' /\ tasks'[t].entry.key = specs'[t[3]]
    BY <1>1, <1>4, <1>5 DEF IInv, TaskInv
  <2>2. \A t \in DOMAIN tasks' : \A e \in Open' : t[1] = batch' /\ t[3] = e.origin =>
          t = <<batch', round_num', e.origin>>
    BY <1>1, <1>2, <1>4 DEF IInv, TaskInv, CurrentTask
  <2>3. \A e \in pending : LET t == <<batch', round_num', e.origin>>
                           IN  /\ t \in DOMAIN tasks' /\ tasks'[t].entry = e
                               /\ tasks'[t].abandoned \/ tasks'[t].at = "done"
    BY <1>1, <1>2, <1>4, <1>5, <1>6, <1>7 DEF IInv, TaskInv, CurrentTask
  <2>. QED  BY <1>1, <1>2, <2>1, <2>2, <2>3 DEF TaskInv, CurrentTask
<1>10. TombstoneInv'
  BY <1>1, <1>2 DEF IInv, TombstoneInv, Own
<1>11. CheckpointInv'
  <2>1. \A e \in pending : LET t == tasks'[<<batch', round_num', e.origin>>]
          IN  ~t.abandoned /\ (t.at = "saved" \/ (t.at = "done" /\ t.outcome = "blocked"))
                => (Own(e) => _checkpoints'[e.key] \in {e.messages} \cup (IF HostCleansUp THEN {None} ELSE {}))
    BY <1>1, <1>2, <1>5, <1>6 DEF IInv, CheckpointInv, CurrentTask, Left, Own
  <2>. QED  BY <1>1, <1>2, <2>1 DEF IInv, CheckpointInv, CurrentTask, Left, Own
<1>. QED  BY <1>8, <1>9, <1>10, <1>11 DEF IInv

LEMMA StepRegisterTombstones ==
  ASSUME IInv, RegisterTombstones
  PROVE  IInv'
<1>. USE DEF work, store
<1>1. /\ pc = "tombstone" /\ pc' = "collect"
      /\ UNCHANGED <<reused, batch, mode, specs, round_num, pending, blocked, final_results,
                     tasks, _checkpoints>>
      /\ _timed_out_run_ids' = _timed_out_run_ids \cup GivenUpKeys
  BY DEF RegisterTombstones
<1>2. Flying /\ Flying' /\ blocked = {} /\ Open' = Open /\ Open = pending
  BY <1>1 DEF Flying, Open, IInv, Shape
<1>3. \A k \in GivenUpKeys : \E f \in pending : k = f.key /\ tasks[CurrentTask(f)].abandoned
  BY <1>2 DEF GivenUpKeys, CurrentTasks, IInv, TaskInv
<1>4. Shape' /\ EntryInv' /\ KeyInv' /\ Settlement'
  BY <1>1, <1>2, KeysKept DEF IInv, Shape, EntryInv, Settlement, Single, Own
<1>5. TaskInv'
  BY <1>1, <1>2 DEF IInv, TaskInv, CurrentTask
<1>6. TombstoneInv'
  <2>2. ASSUME NEW e \in Open, Own(e), e.key \in GivenUpKeys
        PROVE  tasks[CurrentTask(e)].abandoned
    <3>1. PICK f \in pending : e.key = f.key /\ tasks[CurrentTask(f)].abandoned
      BY <1>3, <2>2
    <3>2. e = f
      <4>1. specs[e.origin] = specs[f.origin] /\ e.origin \in DOMAIN specs /\ f.origin \in DOMAIN specs
        BY <1>2, <3>1 DEF IInv, EntryInv
      <4>2. e.origin = f.origin
        BY <2>2, <3>1, <4>1 DEF IInv, EntryInv, KeyInv, Own
      <4>. QED  BY <1>2, <4>2 DEF IInv, Settlement
    <3>. QED  BY <3>1, <3>2
  <2>3. \A e \in Open : Own(e) => e.key \notin _timed_out_run_ids
    BY <1>1 DEF IInv, TombstoneInv, Own
  <2>4. \A e \in Open' : Own(e)' /\ e.key \in _timed_out_run_ids' =>
          tasks'[CurrentTask(e)'].abandoned
    BY <1>1, <1>2, <2>2, <2>3 DEF CurrentTask, Own
  <2>. QED  BY <1>1, <1>2, <2>4 DEF IInv, TombstoneInv, Own
<1>7. CheckpointInv'
  BY <1>1, <1>2 DEF IInv, CheckpointInv, CurrentTask, Left, Own
<1>. QED  BY <1>4, <1>5, <1>6, <1>7 DEF IInv

\* The entries that got a status are settled, and only they.
LEMMA Settling ==
  ASSUME IInv, NEW statuses, DOMAIN statuses \subseteq Open,
         final_results' = Reported(statuses), specs' = specs,
         Open' = Open \ DOMAIN statuses, pending' \cap blocked' = {}
  PROVE  Settlement' /\ DOMAIN final_results' = DOMAIN specs'
<1>1. DOMAIN final_results' = DOMAIN specs' /\ DOMAIN final_results = DOMAIN specs
  BY DEF Reported, IInv, Shape
<1>2. ASSUME NEW o \in DOMAIN specs
      PROVE  \/ Single(final_results'[o]) /\ \A e \in Open' : e.origin # o
             \/ final_results'[o] = <<>> /\ \E e \in Open' : e.origin = o
  <2>1. Single(final_results[o]) \/ final_results[o] = <<>>
    BY DEF IInv, Settlement
  <2>2. /\ (\A e \in DOMAIN statuses : e.origin # o) => final_results'[o] = final_results[o]
        /\ (\E e \in DOMAIN statuses : e.origin = o) /\ final_results[o] = <<>> =>
             Single(final_results'[o])
    BY <1>1, <2>1, Reporting
  <2>3. CASE \E e \in DOMAIN statuses : e.origin = o
    <3>1. final_results[o] = <<>>
      BY <2>3 DEF IInv, Settlement
    <3>2. \A e \in Open' : e.origin # o
      BY <2>3 DEF IInv, Settlement
    <3>. QED  BY <2>2, <2>3, <3>1, <3>2
  <2>4. CASE \A e \in DOMAIN statuses : e.origin # o
    BY <2>2, <2>4 DEF IInv, Settlement, Single
  <2>. QED  BY <2>3, <2>4
<1>. QED  BY <1>1, <1>2 DEF IInv, Settlement, Single

LEMMA StepCollect ==
  ASSUME IInv, Collect
  PROVE  IInv'
<1>. DEFINE asking == {e \in pending : RoundStatus(e) = "blocked"}
            statuses == [e \in Settled(asking) |->
                           IF e \in asking THEN "rounds_exceeded" ELSE RoundStatus(e)]
<1>1. /\ pc = "collect" /\ pending' = {}
      /\ UNCHANGED <<reused, batch, specs, round_num, _timed_out_run_ids>>
      /\ final_results' = Reported(statuses)
      /\ blocked' = IF RoundsUsedUp THEN {} ELSE asking
      /\ ~RoundsUsedUp => _checkpoints' = _checkpoints
      /\ RoundsUsedUp => _checkpoints' = Without({e.key : e \in asking})
      /\ pc' = IF blocked' = {} THEN "cleanup" ELSE "resolve"
      /\ tasks' = [t \in DOMAIN tasks \ {u \in CurrentTasks : tasks[u].at = "done"} |-> tasks[t]]
  BY DEF Collect
<1>2. Flying /\ ~Flying' /\ blocked = {} /\ Open = pending /\ Open' = blocked'
  BY <1>1 DEF Flying, Open, IInv, Shape
<1>3. \A e \in pending : e \in asking => /\ ~tasks[CurrentTask(e)].abandoned
                                         /\ tasks[CurrentTask(e)].at = "done"
                                         /\ tasks[CurrentTask(e)].outcome = "blocked"
  BY <1>1, <1>2 DEF RoundStatus, IInv, TaskInv
<1>4. DOMAIN statuses \subseteq pending /\ Open' = Open \ DOMAIN statuses
  BY <1>1, <1>2 DEF Settled
<1>5. Settlement' /\ DOMAIN final_results' = DOMAIN specs'
  <2>. HIDE DEF statuses, asking
  <2>. QED  BY <1>1, <1>2, <1>4, Settling
<1>6. Shape' /\ EntryInv'
  <2>1. blocked' \subseteq Open
    BY <1>1, <1>2
  <2>2. blocked' # {} => pc' = "resolve"
    BY <1>1
  <2>. HIDE DEF statuses, asking
  <2>3. Shape'
    BY <1>1, <1>5, <2>2 DEF IInv, Shape
  <2>4. EntryInv'
    BY <1>1, <1>2, <2>1 DEF IInv, EntryInv, Own
  <2>. QED  BY <2>3, <2>4
<1>7. TaskInv'
  <2>1. \A t \in DOMAIN tasks' : t \in DOMAIN tasks /\ tasks'[t] = tasks[t]
    BY <1>1
  <2>2. ASSUME NEW t \in DOMAIN tasks', NEW e \in Open', t[1] = batch, t[3] = e.origin
        PROVE  FALSE
    <3>1. e \in asking /\ e \in pending
      BY <1>1, <1>2
    <3>2. t = CurrentTask(e) /\ t \in CurrentTasks
      BY <1>2, <2>1, <2>2, <3>1 DEF IInv, TaskInv, CurrentTasks
    <3>3. t \notin DOMAIN tasks'
      BY <1>1, <1>3, <3>1, <3>2
    <3>. QED  BY <2>2, <3>3
  <2>. QED  BY <1>1, <1>2, <2>1, <2>2 DEF IInv, TaskInv
<1>8. TombstoneInv'
  <2>1. \A e \in Open' : Own(e) => e.key \notin _timed_out_run_ids
    BY <1>1, <1>2, <1>3 DEF IInv, TombstoneInv, Own
  <2>. QED  BY <1>1, <2>1 DEF TombstoneInv, Own
<1>9. CheckpointInv'
  <2>1. \A e \in blocked' : Left(e)
    BY <1>1, <1>2, <1>3 DEF IInv, CheckpointInv
  <2>2. blocked' # {} => _checkpoints' = _checkpoints
    BY <1>1
  <2>3. _checkpoints' \in [RunId -> Conversation \cup {None}]
    BY <1>1 DEF Without, IInv, CheckpointInv
  <2>4. pc' # "asking"
    BY <1>1
  <2>. QED  BY <1>1, <1>2, <2>1, <2>2, <2>3, <2>4 DEF CheckpointInv, Left, Own
<1>10. KeyInv'
  BY <1>1, KeysKept
<1>. QED  BY <1>5, <1>6, <1>7, <1>8, <1>9, <1>10 DEF IInv

\* The next blocked entry is an open one; one with a key of its own is the only one with
\* its key.
LEMMA FirstBlocked ==
  ASSUME IInv, blocked # {}
  PROVE  LET e == First(blocked)
         IN  /\ e \in blocked /\ e \in Open
             /\ \A f \in Open : f.origin = e.origin => f = e
             /\ \A f \in Open : f.key = e.key /\ Own(f) => f = e
<1>1. \A e \in blocked : e.origin \in Nat
  BY DEF IInv, EntryInv, Open, Entry
<1>. DEFINE e == First(blocked)
<1>2. e \in blocked /\ e \in Open
  BY <1>1, FirstIsOne DEF Open
<1>. HIDE DEF e
<1>3. \A f \in Open : f.origin = e.origin => f = e
  BY <1>2 DEF IInv, Settlement
<1>4. \A f \in Open : f.key = e.key /\ Own(f) => f.origin = e.origin
  BY <1>2 DEF IInv, EntryInv, KeyInv, Own
<1>. QED  BY <1>2, <1>3, <1>4 DEF e

\* A step that gives up some open entries while callbacks are resolved, or in a
\* sequential round.
LEMMA EntriesLeave ==
  ASSUME IInv, ~Flying, ~Flying', pc' # "asking",
         pending' \subseteq pending, blocked' \subseteq blocked,
         pc' = "round" => blocked' = {},
         pc' \in {"resolve", "round"},
         pc \in {"resolve", "asking"} <=> pc' \in {"resolve", "asking"},
         UNCHANGED <<reused, batch, specs, round_num, tasks, _timed_out_run_ids>>,
         DOMAIN final_results' = DOMAIN specs',
         _checkpoints' \in [RunId -> Conversation \cup {None}],
         \A e \in blocked' : Own(e) => _checkpoints'[e.key] = _checkpoints[e.key]
  PROVE  Shape' /\ EntryInv' /\ KeyInv' /\ TaskInv' /\ TombstoneInv' /\ CheckpointInv'
<1>1. Open' \subseteq Open
  BY DEF Open
<1>2. Shape'
  BY DEF IInv, Shape
<1>3. EntryInv' /\ KeyInv'
  BY <1>1, KeysKept DEF IInv, EntryInv, Own
<1>4. TaskInv'
  BY <1>1 DEF IInv, TaskInv
<1>5. TombstoneInv'
  BY <1>1 DEF IInv, TombstoneInv, Flying, Own
<1>6. CheckpointInv'
  BY DEF IInv, CheckpointInv, Left, Own
<1>. QED  BY <1>2, <1>3, <1>4, <1>5, <1>6

LEMMA StepLoadCheckpoint ==
  ASSUME IInv, LoadCheckpoint
  PROVE  IInv'
<1>. DEFINE e == First(blocked)
<1>1. /\ pc = "resolve" /\ blocked # {} /\ saved' = _checkpoints[e.key]
      /\ UNCHANGED <<reused, batch, mode, specs, round_num, pending, tasks, _checkpoints,
                     _timed_out_run_ids>>
  BY DEF LoadCheckpoint, store
<1>2. e \in blocked /\ e \in Open
  BY <1>1, FirstBlocked
<1>3. CASE saved' = None
  <2>. DEFINE statuses == [f \in {e} |-> "lost"]
  <2>1. /\ pc' = "resolve" /\ final_results' = Reported(statuses)
        /\ blocked' = blocked \ {e}
    BY <1>1, <1>3 DEF LoadCheckpoint
  <2>2. DOMAIN statuses \subseteq Open /\ pending' \cap blocked' = {}
        /\ Open' = Open \ DOMAIN statuses
    BY <1>1, <1>2, <2>1 DEF Open, IInv, Settlement
  <2>3. Settlement' /\ DOMAIN final_results' = DOMAIN specs'
    <3>. HIDE DEF statuses
    <3>. QED  BY <1>1, <2>1, <2>2, Settling
  <2>4. ~Flying /\ ~Flying'
    BY <1>1, <2>1 DEF Flying
  <2>5. _checkpoints' \in [RunId -> Conversation \cup {None}] /\ \A f \in blocked' : _checkpoints'[f.key] = _checkpoints[f.key]
    BY <1>1 DEF IInv, CheckpointInv
  <2>. HIDE DEF e, statuses
  <2>. QED  BY <1>1, <2>1, <2>3, <2>4, <2>5, EntriesLeave DEF IInv
<1>4. CASE saved' # None
  <2>1. pc' = "asking" /\ UNCHANGED <<final_results, blocked>>
    BY <1>1, <1>4 DEF LoadCheckpoint
  <2>2. ~Flying /\ ~Flying' /\ Open' = Open
    BY <1>1, <2>1 DEF Flying, Open
  <2>3. saved' \in Conversation /\ (Own(e) => saved' = e.messages)
    <3>1. Left(e)
      BY <1>2 DEF IInv, CheckpointInv
    <3>2. e.key \in RunId
      BY <1>2 DEF IInv, EntryInv, Entry
    <3>. QED  BY <1>1, <1>4, <3>1, <3>2 DEF Left, IInv, CheckpointInv
  <2>4. Shape' /\ EntryInv' /\ KeyInv' /\ Settlement'
    BY <1>1, <2>1, <2>2, KeysKept DEF IInv, Shape, EntryInv, Settlement, Single, Own
  <2>5. TaskInv' /\ TombstoneInv'
    BY <1>1, <2>1, <2>2 DEF IInv, TaskInv, TombstoneInv, Own
  <2>6. CheckpointInv'
    BY <1>1, <2>1, <2>2, <2>3 DEF IInv, CheckpointInv, Left, Own, First
  <2>. QED  BY <2>4, <2>5, <2>6 DEF IInv
<1>. QED  BY <1>3, <1>4

LEMMA StepCallbackFails ==
  ASSUME IInv, CallbackFails
  PROVE  IInv'
<1>. DEFINE e == First(blocked)
            statuses == [f \in {e} |-> "unresolved"]
<1>1. /\ pc = "asking" /\ pc' = "resolve"
      /\ UNCHANGED <<reused, batch, mode, specs, round_num, pending, tasks, _timed_out_run_ids>>
      /\ final_results' = Reported(statuses)
      /\ blocked' = blocked \ {e}
      /\ _checkpoints' = Without({e.key})
  BY DEF CallbackFails
<1>2. blocked # {}
  BY <1>1 DEF IInv, Shape
<1>3. e \in blocked /\ e \in Open /\ \A f \in Open : f.key = e.key /\ Own(f) => f = e
  BY <1>2, FirstBlocked
<1>4. DOMAIN statuses \subseteq Open /\ pending' \cap blocked' = {}
      /\ Open' = Open \ DOMAIN statuses
  BY <1>1, <1>3 DEF Open, IInv, Settlement
<1>5. Settlement' /\ DOMAIN final_results' = DOMAIN specs'
  <2>. HIDE DEF statuses
  <2>. QED  BY <1>1, <1>4, Settling
<1>6. ~Flying /\ ~Flying'
  BY <1>1 DEF Flying
<1>7. \A f \in blocked' : f.key \in RunId /\ (Own(f) => f.key # e.key)
  BY <1>1, <1>3 DEF Open, IInv, EntryInv, Entry
<1>8. /\ _checkpoints' \in [RunId -> Conversation \cup {None}]
      /\ \A f \in blocked' : Own(f) => _checkpoints'[f.key] = _checkpoints[f.key]
  BY <1>1, <1>7 DEF Without, IInv, CheckpointInv
<1>. HIDE DEF e, statuses
<1>. QED  BY <1>1, <1>5, <1>6, <1>8, EntriesLeave DEF IInv

LEMMA StepCallbackAnswered ==
  ASSUME IInv, CallbackAnswered
  PROVE  IInv'
<1>. DEFINE e == First(blocked)
            r == [e EXCEPT !.slot = OriginalSpec(e), !.messages = ResumedMessages(e)]
<1>1. /\ pc = "asking" /\ pc' = "resolve"
      /\ UNCHANGED <<reused, batch, mode, specs, round_num, final_results, tasks, _checkpoints,
                     _timed_out_run_ids>>
      /\ pending' = pending \cup {r}
      /\ blocked' = blocked \ {e}
  BY DEF CallbackAnswered, store
<1>2. blocked # {}
  BY <1>1 DEF IInv, Shape
<1>3. /\ e \in blocked /\ e \in Open
      /\ \A f \in Open : f.origin = e.origin => f = e
  BY <1>2, FirstBlocked
<1>4. /\ e \in Entry /\ e.origin \in DOMAIN specs /\ e.key = specs[e.origin]
      /\ Own(e) => /\ e.slot = e.origin
                   /\ e.messages = [batch |-> batch, slot |-> e.origin, answers |-> round_num]
                   /\ saved = e.messages
      /\ saved \in Conversation
      /\ batch \in Nat /\ round_num \in Nat /\ e.origin \in Nat
  BY <1>1, <1>3, BatchAssumption DEF IInv, EntryInv, CheckpointInv, Shape, Entry
<1>5. ASSUME Own(e) PROVE OriginalSpec(e) = e.origin
  <2>1. \A i \in DOMAIN specs : specs[i] = specs[e.origin] => i = e.origin
    BY <1>4, <1>5 DEF IInv, KeyInv, Own
  <2>2. \A j \in 1..(e.origin - 1) : j \in DOMAIN specs /\ specs[j] # e.key
    <3>1. specs \in Seq(OutputKey)
      BY DEF IInv, Shape
    <3>2. \A j \in 1..(e.origin - 1) : j \in DOMAIN specs /\ j # e.origin
      BY <1>4, <3>1
    <3>. QED  BY <1>4, <2>1, <3>2
  <2>. HIDE DEF e
  <2>. QED  BY <1>4, <2>1, <2>2 DEF OriginalSpec
<1>6. /\ ResumedMessages(e) \in Conversation
      /\ Own(e) => ResumedMessages(e) =
                     [batch |-> batch, slot |-> e.origin, answers |-> round_num + 1]
  <2>. HIDE DEF e
  <2>. QED  BY <1>4 DEF ResumedMessages, Conversation
<1>7. /\ r \in Entry /\ r.origin = e.origin /\ r.key = e.key
      /\ Own(e) => /\ r.slot = e.origin
                   /\ r.messages = [batch |-> batch, slot |-> e.origin, answers |-> round_num + 1]
  <2>. HIDE DEF e
  <2>0. OriginalSpec(e) \in Nat
    <3>1. OriginalSpec(e) \in DOMAIN specs
      BY <1>4, OriginalIsOne DEF IInv
    <3>. QED  BY <3>1 DEF IInv, Shape
  <2>1. PICK s \in Nat, m \in Conversation : s = OriginalSpec(e) /\ m = ResumedMessages(e)
    BY <1>6, <2>0
  <2>2. r = [e EXCEPT !.slot = s, !.messages = m]
    BY <2>1
  <2>. HIDE DEF r, e
  <2>3. r \in Entry /\ r.slot = s /\ r.origin = e.origin /\ r.key = e.key /\ r.messages = m
    BY <1>4, <2>2 DEF Entry
  <2>. QED  BY <1>5, <1>6, <2>1, <2>3
<1>. HIDE DEF e, r
<1>8. Open' = (Open \ {e}) \cup {r}
  BY <1>1, <1>3 DEF Open, IInv, Settlement
<1>9. ~Flying /\ ~Flying'
  BY <1>1 DEF Flying
<1>10. Shape'
  BY <1>1 DEF IInv, Shape
<1>11. EntryInv' /\ KeyInv'
  <2>1. \A f \in Open' : /\ f \in Entry
                         /\ f.origin \in DOMAIN specs' /\ f.key = specs'[f.origin]
                         /\ Own(f) => f.slot = f.origin
    BY <1>1, <1>4, <1>7, <1>8 DEF IInv, EntryInv, Own
  <2>2. \A f \in blocked' : Own(f) =>
          f.messages = [batch |-> batch', slot |-> f.origin, answers |-> round_num']
    BY <1>1 DEF IInv, EntryInv
  <2>3. \A f \in pending' : Own(f) =>
          f.messages = [batch |-> batch', slot |-> f.origin, answers |-> round_num' + 1]
    BY <1>1, <1>7 DEF IInv, EntryInv, Own
  <2>4. \A f : Own(f)' = Own(f)
    BY <1>1 DEF Own
  <2>. QED  BY <1>1, <2>1, <2>2, <2>3, <2>4, KeysKept DEF EntryInv
<1>12. Settlement'
  <2>1. \A o \in DOMAIN specs' :
          \/ Single(final_results'[o]) /\ \A f \in Open' : f.origin # o
          \/ final_results'[o] = <<>> /\ \E f \in Open' : f.origin = o
    <3>. SUFFICES ASSUME NEW o \in DOMAIN specs
                  PROVE  \/ Single(final_results[o]) /\ \A f \in Open' : f.origin # o
                         \/ final_results[o] = <<>> /\ \E f \in Open' : f.origin = o
      BY <1>1 DEF Single
    <3>1. (\E f \in Open' : f.origin = o) <=> (\E f \in Open : f.origin = o)
      BY <1>3, <1>7, <1>8
    <3>. QED  BY <3>1 DEF IInv, Settlement
  <2>2. \A f, g \in Open' : f.origin = g.origin => f = g
    BY <1>3, <1>7, <1>8 DEF IInv, Settlement
  <2>3. r \notin blocked'
    BY <1>1, <1>3, <1>7 DEF Open
  <2>. QED  BY <1>1, <2>1, <2>2, <2>3 DEF IInv, Settlement
<1>13. TaskInv'
  <2>1. \A f \in Open' : \E g \in Open : f.origin = g.origin
    BY <1>3, <1>7, <1>8
  <2>2. \A t \in DOMAIN tasks : \A f \in Open' : t[1] = batch /\ t[3] = f.origin => FALSE
    BY <1>9, <2>1 DEF IInv, TaskInv
  <2>. QED  BY <1>1, <1>9, <2>2 DEF IInv, TaskInv
<1>14. TombstoneInv'
  <2>1. \A f \in Open' : \E g \in Open : f.key = g.key
    BY <1>3, <1>7, <1>8
  <2>2. \A f \in Open' : Own(f) => f.key \notin _timed_out_run_ids
    BY <1>1, <2>1 DEF IInv, TombstoneInv, Own
  <2>. QED  BY <1>1, <2>2 DEF TombstoneInv, Own
<1>15. CheckpointInv'
  BY <1>1, <1>9 DEF IInv, CheckpointInv, Left, Own
<1>. QED  BY <1>10, <1>11, <1>12, <1>13, <1>14, <1>15 DEF IInv

LEMMA StepNextRound ==
  ASSUME IInv, NextRound
  PROVE  IInv'
<1>. USE DEF NextRound, work, store
<1>1. ~Flying /\ ~Flying' /\ Open' = Open /\ Open = pending /\ blocked' = {}
  BY DEF Flying, Open
<1>2. Shape' /\ EntryInv' /\ KeyInv' /\ Settlement'
  BY <1>1, KeysKept DEF IInv, Shape, EntryInv, Settlement, Single, Own
<1>3. TaskInv'
  BY <1>1 DEF IInv, TaskInv
<1>4. TombstoneInv' /\ CheckpointInv'
  BY <1>1 DEF IInv, TombstoneInv, CheckpointInv, Own
<1>. QED  BY <1>2, <1>3, <1>4 DEF IInv

LEMMA StepEndBatch ==
  ASSUME IInv, EndBatch
  PROVE  IInv'
<1>. USE DEF EndBatch, work
<1>1. ~Flying /\ ~Flying' /\ Open = {} /\ Open' = {} /\ blocked' = {}
  BY DEF Flying, Open, IInv, Shape
<1>2. Shape' /\ EntryInv' /\ KeyInv' /\ Settlement'
  BY <1>1, KeysKept DEF IInv, Shape, EntryInv, Settlement, Single, Own
<1>3. TaskInv' /\ TombstoneInv'
  BY <1>1 DEF IInv, TaskInv, TombstoneInv, Own
<1>4. CheckpointInv'
  BY <1>1 DEF IInv, CheckpointInv, Without
<1>. QED  BY <1>2, <1>3, <1>4 DEF IInv

LEMMA StepRunNextChild ==
  ASSUME IInv, RunNextChild
  PROVE  IInv'
<1>. DEFINE e == First(pending)
<1>1. PICK status \in SequentialStatuses : final_results' = Reported([f \in {e} |-> status])
  BY DEF RunNextChild
<1>. DEFINE statuses == [f \in {e} |-> status]
<1>2. /\ pc = "round" /\ pc' = "round" /\ pending # {} /\ pending' = pending \ {e}
      /\ UNCHANGED <<reused, batch, specs, round_num, blocked, tasks, _checkpoints,
                     _timed_out_run_ids>>
  BY DEF RunNextChild, control, store
<1>3. e \in pending
  <2>1. \A f \in pending : f.origin \in Nat
    BY DEF IInv, EntryInv, Open, Entry
  <2>. QED  BY <1>2, <2>1, FirstIsOne
<1>4. ~Flying /\ ~Flying' /\ blocked' = {}
  BY <1>2 DEF Flying, IInv, Shape
<1>5. DOMAIN statuses \subseteq Open /\ pending' \cap blocked' = {}
      /\ Open' = Open \ DOMAIN statuses
  BY <1>2, <1>3, <1>4 DEF Open
<1>6. Settlement' /\ DOMAIN final_results' = DOMAIN specs'
  <2>1. final_results' = Reported(statuses)
    BY <1>1
  <2>. HIDE DEF statuses
  <2>. QED  BY <1>2, <1>5, <2>1, Settling
<1>7. _checkpoints' \in [RunId -> Conversation \cup {None}]
  BY <1>2 DEF IInv, CheckpointInv
<1>. HIDE DEF e, statuses
<1>. QED  BY <1>2, <1>4, <1>6, <1>7, EntriesLeave DEF IInv

LEMMA StepDeadlinePasses ==
  ASSUME IInv, DeadlinePasses
  PROVE  IInv'
<1>. USE DEF DeadlinePasses, control, store
<1>1. ~Flying /\ ~Flying' /\ Open' = Open
  BY DEF Flying, Open
<1>2. Shape' /\ EntryInv' /\ KeyInv' /\ Settlement'
  BY <1>1, KeysKept DEF IInv, Shape, EntryInv, Settlement, Single, Own
<1>3. TaskInv' /\ TombstoneInv' /\ CheckpointInv'
  BY <1>1 DEF IInv, TaskInv, TombstoneInv, CheckpointInv, Left, Own, First
<1>. QED  BY <1>2, <1>3 DEF IInv

-----------------------------------------------------------------------------
(***************************************************************************)
(* The children's steps and cleanup_checkpoints.                           *)
(***************************************************************************)

\* An unfinished task moves on.
LEMMA TaskMoves ==
  ASSUME IInv, UNCHANGED <<reused, control, work>>, NEW t \in DOMAIN tasks,
         DOMAIN tasks' = DOMAIN tasks,
         \A u \in DOMAIN tasks \ {t} : tasks'[u] = tasks[u],
         tasks[t].at # "done",
         tasks'[t] \in Task, tasks'[t].entry = tasks[t].entry,
         tasks'[t].abandoned = tasks[t].abandoned
  PROVE  TaskInv' /\ KeyInv'
<1>. USE DEF control, work
<1>1. Open' = Open /\ Flying' = Flying
  BY ParentKept
<1>2. \A u \in DOMAIN tasks : /\ tasks'[u] \in Task /\ tasks'[u].entry = tasks[u].entry
                              /\ tasks'[u].abandoned = tasks[u].abandoned
                              /\ tasks[u].at = "done" => tasks'[u].at = "done"
  BY DEF IInv, TaskInv
<1>3. \A u \in DOMAIN tasks' :
        /\ u \in TaskId /\ tasks'[u] \in Task
        /\ u[1] <= batch'
        /\ u[1] = batch' => u[3] \in DOMAIN specs' /\ tasks'[u].entry.key = specs'[u[3]]
  BY <1>2 DEF IInv, TaskInv
<1>4. \A u \in DOMAIN tasks' : \A e \in Open' : u[1] = batch' /\ u[3] = e.origin =>
        Flying' /\ u = <<batch', round_num', e.origin>>
  BY <1>1 DEF IInv, TaskInv, CurrentTask
<1>5. Flying' => \A e \in pending' : LET u == <<batch', round_num', e.origin>>
        IN  /\ u \in DOMAIN tasks' /\ tasks'[u].entry = e
            /\ pc' = "wait" => ~tasks'[u].abandoned
            /\ pc' # "wait" => tasks'[u].abandoned \/ tasks'[u].at = "done"
  BY <1>1, <1>2 DEF IInv, TaskInv, CurrentTask
<1>6. KeyInv'
  BY <1>2, KeysKept
<1>. QED  BY <1>3, <1>4, <1>5, <1>6 DEF TaskInv, CurrentTask

\* A step of a child that leaves the checkpoints alone: if it is a current one, it is
\* given up, or left its checkpoint, or does not claim to be blocked.
LEMMA CheckpointsKept ==
  ASSUME IInv, UNCHANGED <<reused, control, work, _checkpoints>>, NEW t \in DOMAIN tasks,
         \A u \in DOMAIN tasks \ {t} : tasks'[u] = tasks[u],
         \A e \in pending : Flying /\ Own(e) /\ t = CurrentTask(e) =>
           \/ tasks'[t].abandoned
           \/ Left(e)
           \/ tasks'[t].at # "saved" /\ (tasks'[t].at = "done" => tasks'[t].outcome # "blocked")
  PROVE  CheckpointInv'
<1>. USE DEF control, work
<1>1. Open' = Open /\ Flying' = Flying
  BY ParentKept
<1>2. Flying => \A e \in pending : LET u == tasks'[CurrentTask(e)]
        IN  ~u.abandoned /\ (u.at = "saved" \/ (u.at = "done" /\ u.outcome = "blocked")) => Left(e)
  <2>. SUFFICES ASSUME Flying, NEW e \in pending
                PROVE  LET u == tasks'[CurrentTask(e)]
                       IN  ~u.abandoned /\ (u.at = "saved" \/ (u.at = "done" /\ u.outcome = "blocked"))
                             => Left(e)
    OBVIOUS
  <2>1. CurrentTask(e) \in DOMAIN tasks
    BY DEF IInv, TaskInv
  <2>2. CASE t = CurrentTask(e)
    BY <2>2 DEF Left
  <2>3. CASE t # CurrentTask(e)
    BY <2>1, <2>3 DEF IInv, CheckpointInv
  <2>. QED  BY <2>2, <2>3
<1>3. Flying' => \A e \in pending' : LET u == tasks'[<<batch', round_num', e.origin>>]
        IN  ~u.abandoned /\ (u.at = "saved" \/ (u.at = "done" /\ u.outcome = "blocked"))
              => (Own(e) => _checkpoints'[e.key] \in {e.messages} \cup (IF HostCleansUp THEN {None} ELSE {}))
  BY <1>1, <1>2 DEF CurrentTask, Left, Own
<1>. QED  BY <1>3 DEF IInv, CheckpointInv, CurrentTask, Left, Own, First

LEMMA TombstonesKept ==
  ASSUME IInv, UNCHANGED <<reused, control, work, _timed_out_run_ids>>,
         \A e \in pending : pc = "collect" =>
           tasks'[CurrentTask(e)].abandoned = tasks[CurrentTask(e)].abandoned
  PROVE  TombstoneInv'
<1>. USE DEF control, work
<1>1. Open' = Open
  BY ParentKept
<1>. QED  BY <1>1 DEF IInv, TombstoneInv, CurrentTask, Own

LEMMA StepStartChild ==
  ASSUME IInv, NEW t \in DOMAIN tasks, StartChild(t)
  PROVE  IInv'
<1>1. /\ UNCHANGED <<reused, control, work, _checkpoints, _timed_out_run_ids>>
      /\ tasks' = [tasks EXCEPT ![t].at = "running"] /\ tasks[t].at = "queued"
  BY DEF StartChild, Queued, store
<1>2. /\ DOMAIN tasks' = DOMAIN tasks
      /\ \A u \in DOMAIN tasks \ {t} : tasks'[u] = tasks[u]
      /\ tasks'[t] \in Task /\ tasks'[t].entry = tasks[t].entry
      /\ tasks'[t].abandoned = tasks[t].abandoned /\ tasks'[t].at = "running"
  BY <1>1 DEF IInv, TaskInv, Task, TaskPcs
<1>3. Shape' /\ EntryInv' /\ Settlement'
  BY <1>1, ParentKept
<1>4. TaskInv' /\ KeyInv'
  BY <1>1, <1>2, TaskMoves
<1>5. CheckpointInv'
  BY <1>1, <1>2, CheckpointsKept
<1>6. TombstoneInv'
  <2>1. \A e \in pending : pc = "collect" => CurrentTask(e) \in DOMAIN tasks
    BY DEF IInv, TaskInv, Flying
  <2>. QED  BY <1>1, <1>2, <2>1, TombstonesKept
<1>. QED  BY <1>3, <1>4, <1>5, <1>6 DEF IInv

LEMMA StepChildAsks ==
  ASSUME IInv, NEW t \in DOMAIN tasks, ChildAsks(t)
  PROVE  IInv'
<1>1. /\ UNCHANGED <<reused, control, work, _checkpoints, _timed_out_run_ids>>
      /\ tasks[t].at = "running"
      /\ tasks' = [tasks EXCEPT ![t].at =
                     IF MayCheckpoint(tasks[t].entry.key) THEN "saving" ELSE "saved"]
  BY DEF ChildAsks, store
<1>2. PICK a \in {"saving", "saved"} :
        /\ a = "saved" => tasks[t].entry.key \in _timed_out_run_ids
        /\ tasks' = [tasks EXCEPT ![t].at = a]
  BY <1>1 DEF MayCheckpoint
<1>3. /\ DOMAIN tasks' = DOMAIN tasks
      /\ \A u \in DOMAIN tasks \ {t} : tasks'[u] = tasks[u]
      /\ tasks'[t] \in Task /\ tasks'[t].entry = tasks[t].entry
      /\ tasks'[t].abandoned = tasks[t].abandoned /\ tasks'[t].at = a
  BY <1>2 DEF IInv, TaskInv, Task, TaskPcs
<1>4. Shape' /\ EntryInv' /\ Settlement'
  BY <1>1, ParentKept
<1>5. TaskInv' /\ KeyInv'
  BY <1>1, <1>3, TaskMoves
<1>6. CheckpointInv'
  <2>1. ASSUME NEW e \in pending, Flying, Own(e), t = CurrentTask(e), a = "saved"
        PROVE  tasks'[t].abandoned
    BY <1>2, <1>3, <2>1 DEF IInv, TaskInv, TombstoneInv, Open
  <2>. QED  BY <1>1, <1>3, <2>1, CheckpointsKept
<1>7. TombstoneInv'
  <2>1. \A e \in pending : pc = "collect" => CurrentTask(e) \in DOMAIN tasks
    BY DEF IInv, TaskInv, Flying
  <2>. QED  BY <1>1, <1>3, <2>1, TombstonesKept
<1>. QED  BY <1>4, <1>5, <1>6, <1>7 DEF IInv

LEMMA StepChildSaves ==
  ASSUME IInv, NEW t \in DOMAIN tasks, ChildSaves(t)
  PROVE  IInv'
<1>. DEFINE k == tasks[t].entry.key
<1>1. /\ UNCHANGED <<reused, control, work, _timed_out_run_ids>>
      /\ tasks[t].at = "saving"
      /\ tasks' = [tasks EXCEPT ![t].at = "saved"]
      /\ _checkpoints' = [_checkpoints EXCEPT ![k] = tasks[t].entry.messages]
  BY DEF ChildSaves
<1>2. /\ DOMAIN tasks' = DOMAIN tasks
      /\ \A u \in DOMAIN tasks \ {t} : tasks'[u] = tasks[u]
      /\ tasks'[t] \in Task /\ tasks'[t].entry = tasks[t].entry
      /\ tasks'[t].abandoned = tasks[t].abandoned /\ tasks'[t].at = "saved"
  BY <1>1 DEF IInv, TaskInv, Task, TaskPcs
<1>3. Shape' /\ EntryInv' /\ Settlement' /\ Open' = Open /\ Flying' = Flying
  BY <1>1, ParentKept
<1>4. TaskInv' /\ KeyInv'
  BY <1>1, <1>2, TaskMoves
<1>5. TombstoneInv'
  <2>1. \A e \in pending : pc = "collect" => CurrentTask(e) \in DOMAIN tasks
    BY DEF IInv, TaskInv, Flying
  <2>. QED  BY <1>1, <1>2, <2>1, TombstonesKept
<1>6. \A e \in Open : Own(e) /\ e.key = k => Flying /\ t = CurrentTask(e)
  <2>. SUFFICES ASSUME NEW e \in Open, Own(e), e.key = k
                PROVE  Flying /\ t = CurrentTask(e)
    OBVIOUS
  <2>1. e.origin \in DOMAIN specs /\ e.key = specs[e.origin]
    BY DEF IInv, EntryInv
  <2>2. t[1] = batch
    BY <2>1 DEF IInv, KeyInv, Own
  <2>3. t[3] \in DOMAIN specs /\ specs[t[3]] = specs[e.origin]
    BY <2>1, <2>2 DEF IInv, TaskInv
  <2>4. t[3] = e.origin
    BY <2>1, <2>3 DEF IInv, KeyInv, Own
  <2>. QED  BY <2>2, <2>4 DEF IInv, TaskInv
<1>7. \A e \in pending : Flying /\ Own(e) /\ e.key = k => _checkpoints'[e.key] = e.messages
  <2>. SUFFICES ASSUME NEW e \in pending, Flying, Own(e), e.key = k
                PROVE  _checkpoints'[e.key] = e.messages
    OBVIOUS
  <2>1. tasks[t].entry = e
    BY <1>6 DEF IInv, TaskInv, Open
  <2>2. k \in DOMAIN _checkpoints
    BY DEF IInv, CheckpointInv, TaskInv, Task, Entry
  <2>. QED  BY <1>1, <2>1, <2>2
<1>8. \A e \in Open : e.key # k => _checkpoints'[e.key] = _checkpoints[e.key]
  BY <1>1
<1>9. CheckpointInv'
  <2>1. \A e \in pending : LET u == tasks'[<<batch', round_num', e.origin>>]
          IN  Flying /\ ~u.abandoned /\ (u.at = "saved" \/ (u.at = "done" /\ u.outcome = "blocked"))
                => (Own(e) => _checkpoints'[e.key] \in {e.messages} \cup (IF HostCleansUp THEN {None} ELSE {}))
    <3>. SUFFICES ASSUME NEW e \in pending, Flying, Own(e), e.key # k, ~tasks'[CurrentTask(e)].abandoned,
                         \/ tasks'[CurrentTask(e)].at = "saved"
                         \/ tasks'[CurrentTask(e)].at = "done" /\ tasks'[CurrentTask(e)].outcome = "blocked"
                  PROVE  _checkpoints'[e.key] \in {e.messages} \cup (IF HostCleansUp THEN {None} ELSE {})
      BY <1>1, <1>7 DEF CurrentTask, control
    <3>1. CurrentTask(e) \in DOMAIN tasks /\ tasks[CurrentTask(e)].entry = e
      BY DEF IInv, TaskInv
    <3>2. tasks'[CurrentTask(e)] = tasks[CurrentTask(e)]
      BY <1>2, <3>1
    <3>3. Left(e)
      BY <3>2 DEF IInv, CheckpointInv
    <3>. QED  BY <1>8, <3>3 DEF Left, Own, Open
  <2>2. \A e \in blocked : Own(e) => _checkpoints'[e.key] \in {e.messages} \cup (IF HostCleansUp THEN {None} ELSE {})
    <3>1. \A e \in blocked : e \in Open /\ ~Flying
      BY DEF Open, Flying, IInv, Shape
    <3>. QED  BY <1>6, <1>8, <3>1 DEF IInv, CheckpointInv, Left, Own
  <2>3. _checkpoints' \in [RunId -> Conversation \cup {None}]
    BY <1>1 DEF IInv, CheckpointInv, TaskInv, Task, Entry
  <2>4. /\ pc' = "asking" => saved' \in Conversation
        /\ pc' = "asking" /\ Own(First(blocked')) => saved' = First(blocked').messages
    BY <1>1 DEF IInv, CheckpointInv, control, work
  <2>. QED  BY <1>1, <1>3, <2>1, <2>2, <2>3, <2>4 DEF CheckpointInv, CurrentTask, Left, Own, work
<1>. QED  BY <1>3, <1>4, <1>5, <1>9 DEF IInv

LEMMA StepReturn ==
  ASSUME IInv, NEW t \in DOMAIN tasks, NEW outcome \in Outcomes, Return(t, outcome),
         \/ tasks[t].at = "running" /\ outcome # "blocked"
         \/ tasks[t].at = "saved"
  PROVE  IInv'
<1>1. UNCHANGED <<reused, control, work, _checkpoints, _timed_out_run_ids>>
  BY DEF Return, store
<1>2. Shape' /\ EntryInv' /\ Settlement' /\ Open' = Open /\ Flying' = Flying
  BY <1>1, ParentKept
<1>3. \A e \in pending : pc = "collect" => CurrentTask(e) \in DOMAIN tasks
  BY DEF IInv, TaskInv, Flying
<1>4. CASE t \in CurrentTasks
  <2>1. tasks' = [tasks EXCEPT ![t].at = "done", ![t].outcome = outcome]
    BY <1>4 DEF Return
  <2>2. /\ DOMAIN tasks' = DOMAIN tasks
        /\ \A u \in DOMAIN tasks \ {t} : tasks'[u] = tasks[u]
        /\ tasks'[t] \in Task /\ tasks'[t].entry = tasks[t].entry
        /\ tasks'[t].abandoned = tasks[t].abandoned /\ tasks'[t].at = "done"
        /\ tasks'[t].outcome = outcome
    <3>1. tasks[t] \in Task
      BY DEF IInv, TaskInv
    <3>2. /\ DOMAIN tasks' = DOMAIN tasks
          /\ \A u \in DOMAIN tasks \ {t} : tasks'[u] = tasks[u]
          /\ tasks'[t] = [tasks[t] EXCEPT !.at = "done", !.outcome = outcome]
      BY <2>1
    <3>. QED  BY <3>1, <3>2 DEF Task, TaskPcs
  <2>3. TaskInv' /\ KeyInv'
    BY <1>1, <2>2, TaskMoves
  <2>4. CheckpointInv'
    <3>1. ASSUME NEW e \in pending, Flying, Own(e), t = CurrentTask(e), tasks[t].at = "saved",
                 ~tasks'[t].abandoned
          PROVE  Left(e)
      BY <2>2, <3>1 DEF IInv, CheckpointInv
    <3>. QED  BY <1>1, <2>2, <3>1, CheckpointsKept
  <2>5. TombstoneInv'
    BY <1>1, <1>3, <2>2, TombstonesKept
  <2>. QED  BY <1>2, <2>3, <2>4, <2>5 DEF IInv
<1>5. CASE t \notin CurrentTasks
  <2>1. DOMAIN tasks' = DOMAIN tasks \ {t} /\ \A u \in DOMAIN tasks' : tasks'[u] = tasks[u]
    BY <1>5 DEF Return
  <2>2. \A e \in pending : CurrentTask(e) # t
    BY <1>5 DEF CurrentTasks
  <2>3. \A e \in pending : Flying =>
          CurrentTask(e) \in DOMAIN tasks' /\ tasks'[CurrentTask(e)] = tasks[CurrentTask(e)]
    BY <2>1, <2>2 DEF IInv, TaskInv
  <2>4. /\ UNCHANGED <<batch, round_num, specs, pc, pending, blocked, saved>>
        /\ \A e : CurrentTask(e)' = CurrentTask(e)
    BY <1>1 DEF control, work, CurrentTask
  <2>5. TaskInv'
    <3>1. \A u \in DOMAIN tasks' :
            /\ u \in TaskId /\ tasks'[u] \in Task
            /\ u[1] <= batch'
            /\ u[1] = batch' => u[3] \in DOMAIN specs' /\ tasks'[u].entry.key = specs'[u[3]]
      BY <2>1, <2>4 DEF IInv, TaskInv
    <3>2. \A u \in DOMAIN tasks' : \A e \in Open' : u[1] = batch' /\ u[3] = e.origin =>
            Flying' /\ u = CurrentTask(e)
      BY <1>2, <2>1, <2>4 DEF IInv, TaskInv
    <3>3. Flying' => \A e \in pending' :
            /\ CurrentTask(e) \in DOMAIN tasks' /\ tasks'[CurrentTask(e)].entry = e
            /\ pc' = "wait" => ~tasks'[CurrentTask(e)].abandoned
            /\ pc' # "wait" => tasks'[CurrentTask(e)].abandoned \/ tasks'[CurrentTask(e)].at = "done"
      BY <1>2, <2>3, <2>4 DEF IInv, TaskInv
    <3>. QED  BY <2>4, <3>1, <3>2, <3>3 DEF TaskInv, CurrentTask
  <2>6. CheckpointInv'
    BY <1>1, <2>1, <2>2, CheckpointsKept
  <2>7. TombstoneInv'
    <3>1. \A e \in pending : pc = "collect" =>
            tasks'[CurrentTask(e)].abandoned = tasks[CurrentTask(e)].abandoned
      BY <2>3 DEF Flying
    <3>. QED  BY <1>1, <3>1, TombstonesKept
  <2>8. KeyInv'
    <3>1. UNCHANGED <<reused, batch, specs>>
      BY <1>1 DEF control
    <3>. QED  BY <2>1, <3>1, KeysKept
  <2>. QED  BY <1>2, <2>5, <2>6, <2>7, <2>8 DEF IInv
<1>. QED  BY <1>4, <1>5

LEMMA StepCleanup ==
  ASSUME IInv, DropExpired \/ DropTombstones
  PROVE  IInv'
<1>1. /\ UNCHANGED <<reused, control, work, tasks>>
      /\ _timed_out_run_ids' \subseteq _timed_out_run_ids
      /\ \/ _checkpoints' = _checkpoints
         \/ /\ HostCleansUp /\ _checkpoints' \in [RunId -> Conversation \cup {None}]
            /\ \A k \in RunId : _checkpoints'[k] \in {_checkpoints[k], None}
  BY DEF DropExpired, DropTombstones, IInv, CheckpointInv
<1>2. Shape' /\ EntryInv' /\ Settlement' /\ Open' = Open /\ Flying' = Flying
  BY <1>1, ParentKept
<1>3. TaskInv' /\ TombstoneInv'
  BY <1>1, <1>2 DEF IInv, TaskInv, TombstoneInv, CurrentTask, Own, control, work
<1>4. CheckpointInv'
  <2>1. \A e \in Open : Left(e) /\ Own(e) =>
          _checkpoints'[e.key] \in {e.messages} \cup (IF HostCleansUp THEN {None} ELSE {})
    BY <1>1 DEF Left, Own, IInv, EntryInv, Entry
  <2>2. _checkpoints' \in [RunId -> Conversation \cup {None}]
    BY <1>1 DEF IInv, CheckpointInv
  <2>. QED  BY <1>1, <1>2, <2>1, <2>2 DEF IInv, CheckpointInv, Left, Own, CurrentTask, First,
                                          control, work, Open
<1>5. KeyInv'
  BY <1>1, KeysKept DEF control
<1>. QED  BY <1>2, <1>3, <1>4, <1>5 DEF IInv

-----------------------------------------------------------------------------
(***************************************************************************)
(* The theorems.                                                           *)
(***************************************************************************)

\* Every step keeps the invariant.
LEMMA StepIInv ==
  ASSUME IInv, [Next]_vars
  PROVE  IInv'
<1>1. ASSUME Parent PROVE IInv'
  BY <1>1, StepBeginBatch, StepNothingPending, StepSubmitRound, StepWaitDone,
     StepWaitTimesOut, StepRegisterTombstones, StepCollect, StepLoadCheckpoint,
     StepCallbackAnswered, StepCallbackFails, StepNextRound, StepEndBatch,
     StepRunNextChild DEF Parent
<1>2. ASSUME NEW t \in DOMAIN tasks,
             \/ StartChild(t) \/ ChildEnds(t) \/ ChildAsks(t) \/ ChildSaves(t) \/ ChildReturns(t)
      PROVE  IInv'
  <2>1. ASSUME ChildEnds(t) PROVE IInv'
    <3>1. PICK outcome \in {"completed", "failed"} : Return(t, outcome)
      BY <2>1 DEF ChildEnds
    <3>. QED  BY <2>1, <3>1, StepReturn DEF ChildEnds, Outcomes
  <2>2. ASSUME ChildReturns(t) PROVE IInv'
    <3>1. PICK outcome \in Outcomes : Return(t, outcome)
      BY <2>2 DEF ChildReturns
    <3>. QED  BY <2>2, <3>1, StepReturn DEF ChildReturns
  <2>. QED  BY <1>2, <2>1, <2>2, StepStartChild, StepChildAsks, StepChildSaves
<1>3. ASSUME UNCHANGED vars PROVE IInv'
  <2>1. UNCHANGED <<reused, control, work, tasks, _checkpoints, _timed_out_run_ids>>
    BY <1>3 DEF vars, store
  <2>2. Shape' /\ EntryInv' /\ Settlement' /\ Open' = Open /\ Flying' = Flying
    BY <2>1, ParentKept
  <2>. QED  BY <2>1, <2>2 DEF IInv, KeyInv, TaskInv, TombstoneInv, CheckpointInv, Left, Own,
                              CurrentTask, First, control, work
<1>. QED  BY <1>1, <1>2, <1>3, StepDeadlinePasses, StepCleanup DEF Next, Ended

\* The invariant holds, whatever the keys are.
THEOREM Invariance == Spec => []IInv
BY InitIInv, StepIInv, PTL DEF Spec

\* call_subagent_batch: through all rounds, timeouts, failing callbacks and lost
\* checkpoints every spec has one result or one entry that is still worked on.
THEOREM EverySpecOnce == Spec => []AnsweredOnce
<1>1. IInv => AnsweredOnce
  <2>. SUFFICES ASSUME IInv PROVE AnsweredOnce
    OBVIOUS
  <2>1. ASSUME NEW o \in DOMAIN specs
        PROVE  LET open == {e \in pending \cup blocked : e.origin = o}
               IN  \/ Len(final_results[o]) = 1 /\ open = {}
                   \/ final_results[o] = <<>> /\ \E e \in open : open = {e}
    <3>1. CASE Single(final_results[o]) /\ \A e \in Open : e.origin # o
      <4>1. PICK x : final_results[o] = <<x>>
        BY <3>1 DEF Single
      <4>. QED  BY <3>1, <4>1 DEF Open
    <3>2. CASE final_results[o] = <<>> /\ \E e \in Open : e.origin = o
      BY <3>2 DEF Open, IInv, Settlement
    <3>. QED  BY <3>1, <3>2 DEF IInv, Settlement
  <2>2. pc \in {"cleanup", "idle"} => pending \cup blocked = {}
    BY DEF IInv, Shape
  <2>. QED  BY <2>1, <2>2 DEF AnsweredOnce
<1>. QED  BY <1>1, Invariance, PTL

\* The resumption of a child: it goes on with its own spec and its own conversation.
THEOREM ResumedAsItself == Spec => []ResumesItself
<1>1. IInv => ResumesItself
  BY DEF IInv, EntryInv, ResumesItself, Open, Own
<1>. QED  BY <1>1, Invariance, PTL

\* A child that reported "blocked" has left the checkpoint it is resumed from.
THEOREM CheckpointIsThere == Spec => []BlockedIsCheckpointed
<1>1. IInv => BlockedIsCheckpointed
  BY DEF IInv, CheckpointInv, Left, Own, BlockedIsCheckpointed
<1>. QED  BY <1>1, Invariance, PTL

-----------------------------------------------------------------------------
(***************************************************************************)
(* The refinement of BatchContract.                                        *)
(***************************************************************************)

\* The results as the caller sees them: a child that is done has an outcome; a sequential
\* batch is never in a parallel round, goes through its specs in turn, and times out only
\* after its deadline.
ResultInv ==
  /\ \A t \in DOMAIN tasks : tasks[t].at = "done" => tasks[t].outcome \in Outcomes
  /\ mode = "sequential" =>
       /\ pc \in {"idle", "round", "cleanup"}
       /\ Contract!InTurn
       /\ \A o \in DOMAIN final_results : final_results[o] = <<"timed_out">> => deadline_passed

\* What Reported gives to a spec: nothing, or the status of its entry and nothing else.
LEMMA ReportedOnce ==
  ASSUME IInv, NEW statuses, DOMAIN statuses \subseteq Open
  PROVE  /\ DOMAIN Reported(statuses) = DOMAIN final_results
         /\ \A o \in DOMAIN final_results :
              \/ /\ Reported(statuses)[o] = final_results[o]
                 /\ \A e \in DOMAIN statuses : e.origin # o
              \/ /\ final_results[o] = <<>>
                 /\ \E e \in DOMAIN statuses : e.origin = o /\ Reported(statuses)[o] = <<statuses[e]>>
<1>. SUFFICES ASSUME NEW o \in DOMAIN final_results
              PROVE  \/ /\ Reported(statuses)[o] = final_results[o]
                        /\ \A e \in DOMAIN statuses : e.origin # o
                     \/ /\ final_results[o] = <<>>
                        /\ \E e \in DOMAIN statuses : e.origin = o /\ Reported(statuses)[o] = <<statuses[e]>>
  BY DEF Reported
<1>1. Single(final_results[o]) \/ final_results[o] = <<>>
  BY DEF IInv, Shape, Settlement
<1>2. CASE \A e \in DOMAIN statuses : e.origin # o
  BY <1>1, <1>2, Reporting
<1>3. CASE \E e \in DOMAIN statuses : e.origin = o
  <2>. DEFINE f == CHOOSE e \in DOMAIN statuses : e.origin = o
  <2>1. f \in DOMAIN statuses /\ f.origin = o
    BY <1>3
  <2>2. final_results[o] = <<>>
    BY <2>1 DEF IInv, Shape, Settlement
  <2>3. Reported(statuses)[o] = <<>> \o <<statuses[f]>>
    BY <1>3, <2>2 DEF Reported
  <2>. HIDE DEF f
  <2>4. Reported(statuses)[o] = <<statuses[f]>>
    BY <2>3
  <2>. QED  BY <2>1, <2>2, <2>4
<1>. QED  BY <1>2, <1>3

\* Results that are given while the call is open are an Answer.
LEMMA Answering ==
  ASSUME IInv, NEW statuses, DOMAIN statuses \subseteq Open,
         \A e \in DOMAIN statuses : statuses[e] \in FinalStatuses,
         final_results' = Reported(statuses), mode' = mode, pc # "idle", pc' # "idle",
         mode = "sequential" => Contract!InTurn'
  PROVE  Contract!Answer
<1>1. \A o \in DOMAIN final_results :
        \/ final_results'[o] = final_results[o]
        \/ final_results[o] = <<>> /\ \E st \in FinalStatuses : final_results'[o] = <<st>>
  BY ReportedOnce
<1>2. DOMAIN final_results' = DOMAIN final_results
  BY DEF Reported
<1>3. Contract!Statuses = FinalStatuses
  BY DEF Contract!Statuses, FinalStatuses
<1>. QED  BY <1>1, <1>2, <1>3 DEF Contract!Answer, Contract!Unanswered

\* Whoever runs first has the least open spec.
LEMMA FirstPending ==
  ASSUME IInv, pending # {}
  PROVE  /\ First(pending) \in pending
         /\ \A f \in pending : First(pending).origin <= f.origin
         /\ \A f \in pending : f.origin \in Nat
<1>. \A f \in pending : f.origin \in Nat
  BY DEF IInv, EntryInv, Open, Entry
<1>. QED  BY FirstIsOne

\* A sequential round gives the next spec its result, and the specs before have theirs.
LEMMA RunsInTurn ==
  ASSUME IInv, ResultInv, RunNextChild
  PROVE  ResultInv' /\ Contract!Answer
<1>. DEFINE e == First(pending)
<1>1. PICK status \in SequentialStatuses : final_results' = Reported([f \in {e} |-> status])
  BY DEF RunNextChild
<1>2. /\ pc = "round" /\ pc' = "round" /\ mode = "sequential" /\ mode' = mode /\ pending # {}
      /\ UNCHANGED <<tasks, deadline_passed>>
  BY DEF RunNextChild, control
<1>3. /\ e \in pending /\ e \in Open /\ blocked = {} /\ Open = pending
      /\ \A f \in pending : e.origin <= f.origin /\ f.origin \in Nat
  BY <1>2, FirstPending DEF Open, IInv, Shape
<1>4. status \in FinalStatuses /\ (deadline_passed => status = "timed_out")
      /\ (status = "timed_out" => deadline_passed)
  BY DEF SequentialStatuses, FinalStatuses
<1>. DEFINE statuses == [f \in {e} |-> status]
<1>5. /\ DOMAIN statuses = {e} /\ statuses[e] = status /\ final_results' = Reported(statuses)
  BY <1>1
<1>. HIDE DEF e, statuses
<1>6. /\ DOMAIN final_results' = DOMAIN final_results
      /\ \A o \in DOMAIN final_results :
           \/ final_results'[o] = final_results[o] /\ o # e.origin
           \/ final_results[o] = <<>> /\ o = e.origin /\ final_results'[o] = <<status>>
  BY <1>3, <1>5, ReportedOnce
<1>7. /\ DOMAIN final_results = DOMAIN specs /\ DOMAIN specs \subseteq Nat
      /\ \A o \in DOMAIN specs : final_results[o] # <<>> \/ \E f \in pending : f.origin = o
      /\ e.origin \in DOMAIN specs /\ final_results[e.origin] = <<>>
  BY <1>3 DEF IInv, Shape, EntryInv, Settlement, Single
<1>8. Contract!InTurn'
  <2>. SUFFICES ASSUME NEW o \in DOMAIN final_results, NEW p \in DOMAIN final_results, o < p,
                       final_results'[p] # <<>>
                PROVE  /\ final_results'[o] # <<>>
                       /\ final_results'[o] = <<"timed_out">> => final_results'[p] = <<"timed_out">>
    BY <1>6 DEF Contract!InTurn
  <2>1. CASE p = e.origin
    <3>1. final_results[o] # <<>> /\ o # e.origin /\ final_results'[p] = <<status>>
      BY <1>3, <1>6, <1>7, <2>1
    <3>2. final_results[o] = <<"timed_out">> => deadline_passed
      BY <1>2 DEF ResultInv
    <3>. QED  BY <1>4, <1>6, <3>1, <3>2
  <2>2. CASE p # e.origin
    <3>1. final_results[o] # <<>> /\ (final_results[o] = <<"timed_out">> => final_results[p] = <<"timed_out">>)
      BY <1>2, <1>6, <2>2 DEF ResultInv, Contract!InTurn
    <3>. QED  BY <1>6, <1>7, <2>2, <3>1
  <2>. QED  BY <2>1, <2>2
<1>9. \A o \in DOMAIN final_results' : final_results'[o] = <<"timed_out">> => deadline_passed
  <2>. SUFFICES ASSUME NEW o \in DOMAIN final_results, final_results'[o] = <<"timed_out">>
                PROVE  deadline_passed
    BY <1>6
  <2>1. CASE final_results'[o] = <<status>>
    <3>1. <<status>>[1] = <<"timed_out">>[1]
      BY <2>1
    <3>2. status = "timed_out"
      BY <3>1
    <3>. QED  BY <1>4, <3>2
  <2>2. CASE final_results'[o] = final_results[o]
    BY <1>2, <2>2 DEF ResultInv
  <2>. QED  BY <1>6, <2>1, <2>2
<1>10. Contract!Answer
  <2>1. DOMAIN statuses \subseteq Open /\ \A f \in DOMAIN statuses : statuses[f] \in FinalStatuses
    BY <1>3, <1>4, <1>5
  <2>. QED  BY <1>2, <1>5, <1>8, <2>1, Answering
<1>11. \A t \in DOMAIN tasks' : tasks'[t].at = "done" => tasks'[t].outcome \in Outcomes
  BY <1>2 DEF ResultInv
<1>12. ResultInv'
  BY <1>2, <1>8, <1>9, <1>11 DEF ResultInv
<1>. QED  BY <1>10, <1>12

\* What the futures of a round are converted to: nobody is collected who is still running.
LEMMA Collecting ==
  ASSUME IInv, ResultInv, Collect
  PROVE  ResultInv' /\ Contract!Answer
<1>. DEFINE asking == {e \in pending : RoundStatus(e) = "blocked"}
            statuses == [e \in Settled(asking) |->
                           IF e \in asking THEN "rounds_exceeded" ELSE RoundStatus(e)]
<1>1. /\ pc = "collect" /\ pc' \in {"cleanup", "resolve"} /\ mode' = mode
      /\ final_results' = Reported(statuses)
      /\ tasks' = [t \in DOMAIN tasks \ {u \in CurrentTasks : tasks[u].at = "done"} |-> tasks[t]]
  BY DEF Collect
<1>2. mode # "sequential"
  BY <1>1 DEF ResultInv
<1>3. \A e \in pending : RoundStatus(e) \in {"timed_out", "completed", "failed", "blocked"}
  <2>1. \A e \in pending : /\ CurrentTask(e) \in DOMAIN tasks
                           /\ tasks[CurrentTask(e)].abandoned \/ tasks[CurrentTask(e)].at = "done"
    BY <1>1 DEF IInv, TaskInv, Flying
  <2>. QED  BY <2>1 DEF RoundStatus, ResultInv, Outcomes
<1>4. /\ DOMAIN statuses \subseteq Open
      /\ \A e \in DOMAIN statuses : statuses[e] \in FinalStatuses
  BY <1>3 DEF Settled, Open, FinalStatuses
<1>. HIDE DEF statuses, asking
<1>5. Contract!Answer
  BY <1>1, <1>2, <1>4, Answering
<1>6. ResultInv'
  BY <1>1, <1>2 DEF ResultInv
<1>. QED  BY <1>5, <1>6

\* A callback that cannot be asked or answered settles its spec.
LEMMA GivingUp ==
  ASSUME IInv, ResultInv, NEW status \in FinalStatuses, blocked # {},
         final_results' = Reported([e \in {First(blocked)} |-> status]), mode' = mode,
         pc \in {"resolve", "asking"}, pc' # "idle", UNCHANGED tasks
  PROVE  ResultInv' /\ Contract!Answer
<1>. DEFINE statuses == [e \in {First(blocked)} |-> status]
<1>1. mode # "sequential"
  BY DEF ResultInv
<1>2. First(blocked) \in Open
  BY FirstBlocked
<1>3. DOMAIN statuses \subseteq Open /\ \A e \in DOMAIN statuses : statuses[e] \in FinalStatuses
  BY <1>2
<1>4. final_results' = Reported(statuses)
  OBVIOUS
<1>. HIDE DEF statuses
<1>. QED  BY <1>1, <1>3, <1>4, Answering DEF ResultInv

\* The other steps leave the results alone.
LEMMA ResultsKept ==
  ASSUME ResultInv, UNCHANGED <<mode, final_results>>,
         deadline_passed => deadline_passed',
         mode = "sequential" => pc' \in {"idle", "round", "cleanup"},
         \A t \in DOMAIN tasks' : tasks'[t].at = "done" =>
           \/ tasks'[t].outcome \in Outcomes
           \/ t \in DOMAIN tasks /\ tasks[t].at = "done" /\ tasks'[t].outcome = tasks[t].outcome
  PROVE  ResultInv'
BY DEF ResultInv, Contract!InTurn

\* Every step keeps ResultInv, and is a step of the contract or none.
LEMMA ContractStep ==
  ASSUME IInv, ResultInv, [Next]_vars
  PROVE  ResultInv' /\ [Contract!Next]_(Contract!vars)
<1>. USE DEF control, work, store
<1>0. \A t \in DOMAIN tasks : tasks[t] \in Task
  BY DEF IInv, TaskInv
<1>1. CASE BeginBatch
  <2>1. PICK keys \in BatchKeys[batch + 1], m \in Modes :
          /\ pc' = IF specs' = <<>> THEN "idle" ELSE "round"
          /\ mode' = m /\ specs' \in {<<>>, keys}
          /\ final_results' = [i \in DOMAIN specs' |-> <<>>]
    <3>1. batch + 1 \in 1..MaxBatches /\ <<>> \notin BatchKeys[batch + 1]
      BY <1>1, BatchAssumption DEF BeginBatch, IInv, Shape
    <3>. QED  BY <1>1, <3>1 DEF BeginBatch
  <2>2. keys \in Seq(OutputKey)
    BY <1>1, BatchAssumption DEF BeginBatch, IInv, Shape
  <2>3. /\ DOMAIN final_results' = DOMAIN specs' /\ \A o \in DOMAIN final_results' : final_results'[o] = <<>>
        /\ DOMAIN final_results' = 1..Len(specs') /\ Len(specs') \in Nat
        /\ specs' = <<>> <=> Len(specs') = 0
    BY <2>1, <2>2
  <2>4. Len(final_results') = Len(specs') /\ (final_results' = <<>> <=> specs' = <<>>)
    <3>1. final_results' \in Seq({<<>>})
      BY <2>1, <2>3
    <3>2. Len(final_results') = Len(specs')
      BY <2>3, <3>1
    <3>. QED  BY <2>3, <3>1, <3>2
  <2>5. Contract!Call
    BY <1>1, <2>1, <2>3, <2>4 DEF Contract!Call, BeginBatch
  <2>6. ResultInv'
    BY <1>1, <2>1, <2>3 DEF BeginBatch, ResultInv, Contract!InTurn
  <2>. QED  BY <2>5, <2>6 DEF Contract!Next
<1>2. CASE EndBatch
  <2>1. Contract!Return
    <3>1. \A o \in DOMAIN final_results : final_results[o] # <<>>
      BY <1>2 DEF EndBatch, IInv, Shape, Settlement, Single, Open
    <3>. QED  BY <1>2, <3>1 DEF EndBatch, Contract!Return, Contract!Unanswered
  <2>2. ResultInv'
    BY <1>2, ResultsKept DEF EndBatch
  <2>. QED  BY <2>1, <2>2 DEF Contract!Next
<1>3. CASE RunNextChild
  BY <1>3, RunsInTurn DEF Contract!Next
<1>4. CASE Collect
  BY <1>4, Collecting DEF Contract!Next
<1>5. CASE LoadCheckpoint
  <2>1. CASE saved' = None
    BY <1>5, <2>1, GivingUp DEF LoadCheckpoint, FinalStatuses, Contract!Next
  <2>2. CASE saved' # None
    <3>1. ResultInv'
      BY <1>5, <2>2, ResultsKept DEF LoadCheckpoint, ResultInv
    <3>. QED  BY <1>5, <2>2, <3>1 DEF LoadCheckpoint, Contract!vars
  <2>. QED  BY <2>1, <2>2
<1>6. CASE CallbackFails
  <2>1. blocked # {}
    BY <1>6 DEF CallbackFails, IInv, Shape
  <2>. QED  BY <1>6, <2>1, GivingUp DEF CallbackFails, FinalStatuses, Contract!Next
<1>7. ASSUME /\ UNCHANGED <<mode, final_results>>
             /\ deadline_passed => deadline_passed'
             /\ pc # "idle" <=> pc' # "idle"
             /\ mode = "sequential" => pc' \in {"idle", "round", "cleanup"}
             /\ \A t \in DOMAIN tasks' : tasks'[t].at = "done" =>
                  \/ tasks'[t].outcome \in Outcomes
                  \/ t \in DOMAIN tasks /\ tasks[t].at = "done" /\ tasks'[t].outcome = tasks[t].outcome
      PROVE  ResultInv' /\ [Contract!Next]_(Contract!vars)
  BY <1>7, ResultsKept DEF Contract!vars
<1>8. CASE NothingPending \/ WaitDone \/ RegisterTombstones \/ CallbackAnswered \/ NextRound
  BY <1>7, <1>8 DEF NothingPending, WaitDone, RegisterTombstones, CallbackAnswered, NextRound, ResultInv
<1>9. CASE SubmitRound
  BY <1>7, <1>9 DEF SubmitRound, ResultInv
<1>10. CASE WaitTimesOut
  <2>1. \A t \in DOMAIN tasks' : /\ t \in DOMAIN tasks /\ tasks'[t].at = tasks[t].at
                                 /\ tasks'[t].outcome = tasks[t].outcome
    BY <1>0, <1>10 DEF WaitTimesOut, Task
  <2>. QED  BY <1>7, <1>10, <2>1 DEF WaitTimesOut, ResultInv
<1>11. CASE DeadlinePasses
  BY <1>7, <1>11 DEF DeadlinePasses, ResultInv
<1>12. ASSUME NEW t \in DOMAIN tasks, StartChild(t) \/ ChildAsks(t) \/ ChildSaves(t)
       PROVE  ResultInv' /\ [Contract!Next]_(Contract!vars)
  <2>1. PICK a \in TaskPcs \ {"done"} : tasks' = [tasks EXCEPT ![t].at = a]
    <3>1. CASE ChildAsks(t)
      <4>. DEFINE a == IF MayCheckpoint(tasks[t].entry.key) THEN "saving" ELSE "saved"
      <4>1. a \in TaskPcs \ {"done"} /\ tasks' = [tasks EXCEPT ![t].at = a]
        BY <3>1 DEF ChildAsks, TaskPcs
      <4>. QED  BY <4>1
    <3>. QED  BY <1>12, <3>1 DEF StartChild, ChildSaves, TaskPcs
  <2>2. \A u \in DOMAIN tasks' : u \in DOMAIN tasks /\ (tasks'[u].at = "done" => tasks'[u] = tasks[u])
    BY <1>0, <2>1 DEF Task
  <2>. QED  BY <1>7, <1>12, <2>2 DEF StartChild, ChildAsks, ChildSaves, ResultInv
<1>13. ASSUME NEW t \in DOMAIN tasks, NEW outcome \in Outcomes, Return(t, outcome)
       PROVE  ResultInv' /\ [Contract!Next]_(Contract!vars)
  <2>1. \A u \in DOMAIN tasks' : /\ u \in DOMAIN tasks
                                 /\ tasks'[u] = tasks[u] \/ tasks'[u].outcome = outcome
    BY <1>0, <1>13 DEF Return, Task
  <2>. QED  BY <1>7, <1>13, <2>1 DEF Return, ResultInv
<1>14. ASSUME NEW t \in DOMAIN tasks, ChildEnds(t) \/ ChildReturns(t)
       PROVE  ResultInv' /\ [Contract!Next]_(Contract!vars)
  BY <1>13, <1>14 DEF ChildEnds, ChildReturns, Outcomes
<1>15. CASE DropExpired \/ DropTombstones \/ UNCHANGED vars
  BY <1>7, <1>15 DEF DropExpired, DropTombstones, vars, ResultInv
<1>. QED  BY <1>1, <1>2, <1>3, <1>4, <1>5, <1>6, <1>8, <1>9, <1>10, <1>11, <1>12, <1>14, <1>15
          DEF Next, Parent, Ended

\* call_subagent_batch implements BatchContract, for any batches with keys of their own:
\* a spec gets one result and keeps it, in turn if the batch is sequential, and the call
\* returns when all specs have theirs.
THEOREM BatchImplementsContract == Spec => ImplementsContract
<1>1. Init => ResultInv /\ Contract!Init
  BY BatchAssumption DEF Init, ResultInv, Contract!Init, Contract!InTurn
<1>2. IInv /\ ResultInv /\ [Next]_vars => ResultInv' /\ [Contract!Next]_(Contract!vars)
  BY ContractStep
<1>3. Spec => []IInv
  BY Invariance
<1>. QED  BY <1>1, <1>2, <1>3, PTL DEF Spec, ImplementsContract, Contract!Spec

-----------------------------------------------------------------------------
(***************************************************************************)
(* The tombstones.  As long as nobody calls cleanup_checkpoints, a child   *)
(* the parent does not wait for has one, and what it leaves is either in   *)
(* the parent's hands or an orphan with a tombstone.                       *)
(***************************************************************************)

GivenUpInv ==
  /\ ~collecting
  /\ \A t \in DOMAIN tasks :
       \/ tasks[t].entry.key \in _timed_out_run_ids
       \/ Flying /\ t \in CurrentTasks /\ (tasks[t].abandoned => pc = "tombstone")
  /\ \A k \in RunId : _checkpoints[k] # None =>
       \/ k \in _timed_out_run_ids
       \/ pc # "idle" /\ \E o \in DOMAIN specs : specs[o] = k

\* The current tasks are those of the entries that run, with the key of a spec.
LEMMA CurrentKey ==
  ASSUME IInv, Flying, NEW t \in CurrentTasks
  PROVE  /\ t \in DOMAIN tasks
         /\ \E o \in DOMAIN specs : specs[o] = tasks[t].entry.key
         /\ pc = "wait" => ~tasks[t].abandoned
         /\ pc # "wait" => tasks[t].abandoned \/ tasks[t].at = "done"
<1>1. PICK e \in pending : t = CurrentTask(e)
  BY DEF CurrentTasks
<1>2. e.origin \in DOMAIN specs /\ e.key = specs[e.origin]
  BY DEF IInv, EntryInv, Open
<1>. QED  BY <1>1, <1>2 DEF IInv, TaskInv

\* A step that is not between the beginning and the end of a wait leaves it to the
\* tombstones, and to the specs, what children do.
LEMMA OutsideWaits ==
  ASSUME GivenUpInv, ~Flying, pc' # "idle" \/ pc = "idle", ~collecting',
         UNCHANGED <<specs, tasks, _timed_out_run_ids>>,
         \A k \in RunId : _checkpoints'[k] \in {_checkpoints[k], None}
  PROVE  GivenUpInv'
BY DEF GivenUpInv

\* A step of a child, which may save its conversation under its key.
LEMMA ChildrenKeep ==
  ASSUME IInv, GivenUpInv, UNCHANGED <<reused, control, work, _timed_out_run_ids, collecting>>,
         DOMAIN tasks' \subseteq DOMAIN tasks,
         \A t \in DOMAIN tasks' : /\ tasks'[t].entry = tasks[t].entry
                                  /\ tasks'[t].abandoned = tasks[t].abandoned,
         \A k \in RunId : \/ _checkpoints'[k] = _checkpoints[k]
                          \/ \E t \in DOMAIN tasks : tasks[t].entry.key = k
  PROVE  GivenUpInv'
<1>. USE DEF control, work
<1>1. Flying' = Flying /\ CurrentTasks' = CurrentTasks
  BY DEF Flying, CurrentTasks, CurrentTask
<1>2. \A t \in DOMAIN tasks' :
        \/ tasks'[t].entry.key \in _timed_out_run_ids
        \/ Flying /\ t \in CurrentTasks /\ (tasks'[t].abandoned => pc = "tombstone")
  BY DEF GivenUpInv
<1>3. ASSUME NEW t \in DOMAIN tasks
      PROVE  \/ tasks[t].entry.key \in _timed_out_run_ids
             \/ pc # "idle" /\ \E o \in DOMAIN specs : specs[o] = tasks[t].entry.key
  <2>1. Flying => pc # "idle"
    BY DEF Flying
  <2>. QED  BY <2>1, CurrentKey DEF GivenUpInv
<1>4. \A k \in RunId : _checkpoints'[k] # None =>
        \/ k \in _timed_out_run_ids
        \/ pc # "idle" /\ \E o \in DOMAIN specs : specs[o] = k
  BY <1>3 DEF GivenUpInv
<1>. QED  BY <1>1, <1>2, <1>4 DEF GivenUpInv

LEMMA GivenUpStep ==
  ASSUME ~HostCleansUp, IInv, GivenUpInv, [Next]_vars
  PROVE  GivenUpInv'
<1>. USE DEF control, work, store
<1>0. \A t \in DOMAIN tasks : tasks[t] \in Task
  BY DEF IInv, TaskInv
<1>1. CASE BeginBatch
  <2>1. \A t \in DOMAIN tasks : tasks[t].entry.key \in _timed_out_run_ids
    BY <1>1 DEF BeginBatch, GivenUpInv, Flying
  <2>. QED  BY <1>1, <2>1 DEF BeginBatch, GivenUpInv
<1>2. CASE NothingPending \/ CallbackAnswered \/ NextRound \/ RunNextChild \/ DeadlinePasses
  BY <1>2, OutsideWaits DEF NothingPending, CallbackAnswered, NextRound, RunNextChild, DeadlinePasses,
     Flying, GivenUpInv
<1>3. CASE LoadCheckpoint
  <2>1. pc' \in {"resolve", "asking"}
    BY <1>3 DEF LoadCheckpoint
  <2>. QED  BY <1>3, <2>1, OutsideWaits DEF LoadCheckpoint, Flying, GivenUpInv
<1>4. CASE CallbackFails
  <2>1. \A k \in RunId : _checkpoints'[k] \in {_checkpoints[k], None}
    BY <1>4 DEF CallbackFails, Without
  <2>. QED  BY <1>4, <2>1, OutsideWaits DEF CallbackFails, Flying, GivenUpInv
<1>5. CASE SubmitRound
  <2>1. /\ Flying' /\ ~Flying /\ CurrentTasks' = CurrentTasks
        /\ DOMAIN tasks' = DOMAIN tasks \cup CurrentTasks
        /\ \A t \in DOMAIN tasks : tasks'[t] = tasks[t]
        /\ \A t \in CurrentTasks \ DOMAIN tasks : ~tasks'[t].abandoned
    BY <1>5 DEF SubmitRound, Flying, CurrentTasks, CurrentTask
  <2>. QED  BY <1>5, <2>1 DEF SubmitRound, GivenUpInv
<1>6. CASE WaitDone
  <2>1. pc = "wait" /\ pc' = "collect" /\ Flying /\ Flying' /\ CurrentTasks' = CurrentTasks
    BY <1>6 DEF WaitDone, Flying, CurrentTasks, CurrentTask
  <2>2. \A t \in CurrentTasks : ~tasks[t].abandoned
    BY <2>1, CurrentKey
  <2>. QED  BY <1>6, <2>1, <2>2 DEF WaitDone, GivenUpInv
<1>7. CASE WaitTimesOut
  <2>1. pc = "wait" /\ pc' = "tombstone" /\ Flying /\ Flying' /\ CurrentTasks' = CurrentTasks
    BY <1>7 DEF WaitTimesOut, Flying, CurrentTasks, CurrentTask
  <2>2. \A t \in DOMAIN tasks' : t \in DOMAIN tasks /\ tasks'[t].entry = tasks[t].entry
    BY <1>0, <1>7 DEF WaitTimesOut, Task
  <2>. QED  BY <1>7, <2>1, <2>2 DEF WaitTimesOut, GivenUpInv
<1>8. CASE RegisterTombstones
  <2>1. /\ pc = "tombstone" /\ pc' = "collect" /\ Flying' /\ CurrentTasks' = CurrentTasks
        /\ _timed_out_run_ids' = _timed_out_run_ids \cup GivenUpKeys
    BY <1>8 DEF RegisterTombstones, Flying, CurrentTasks, CurrentTask
  <2>2. \A t \in CurrentTasks : tasks[t].abandoned => tasks[t].entry.key \in GivenUpKeys
    BY DEF GivenUpKeys
  <2>. QED  BY <1>8, <2>1, <2>2 DEF RegisterTombstones, GivenUpInv
<1>9. CASE Collect
  <2>1. /\ pc = "collect" /\ Flying
        /\ pc' # "idle" /\ UNCHANGED <<specs, _timed_out_run_ids, collecting>>
        /\ DOMAIN tasks' = DOMAIN tasks \ {u \in CurrentTasks : tasks[u].at = "done"}
        /\ \A t \in DOMAIN tasks' : tasks'[t] = tasks[t]
        /\ \A k \in RunId : _checkpoints'[k] \in {_checkpoints[k], None}
    BY <1>9 DEF Collect, Without, Flying
  <2>2. \A t \in DOMAIN tasks' : tasks[t].entry.key \in _timed_out_run_ids
    BY <2>1, CurrentKey DEF GivenUpInv
  <2>. QED  BY <2>1, <2>2 DEF GivenUpInv
<1>10. CASE EndBatch
  <2>1. \A o \in DOMAIN specs : specs[o] \in Leftovers
    BY <1>10 DEF EndBatch, Leftovers, IInv, Shape, Settlement, Single, Open
  <2>2. \A t \in DOMAIN tasks : tasks[t].entry.key \in _timed_out_run_ids
    BY <1>10 DEF EndBatch, GivenUpInv, Flying
  <2>3. \A k \in RunId : _checkpoints'[k] # None => _checkpoints[k] # None /\ k \notin Leftovers
    BY <1>10 DEF EndBatch, Without
  <2>4. \A k \in RunId : _checkpoints'[k] # None => k \in _timed_out_run_ids
    BY <2>1, <2>3 DEF GivenUpInv
  <2>. QED  BY <1>10, <2>2, <2>4 DEF EndBatch, GivenUpInv
<1>11. ASSUME NEW t \in DOMAIN tasks, StartChild(t) \/ ChildAsks(t) \/ ChildSaves(t)
       PROVE  GivenUpInv'
  <2>1. PICK a : tasks' = [tasks EXCEPT ![t].at = a]
    BY <1>11 DEF StartChild, ChildAsks, ChildSaves
  <2>2. DOMAIN tasks' = DOMAIN tasks /\ \A u \in DOMAIN tasks' :
          tasks'[u].entry = tasks[u].entry /\ tasks'[u].abandoned = tasks[u].abandoned
    BY <1>0, <2>1 DEF Task
  <2>3. \A k \in RunId : _checkpoints'[k] = _checkpoints[k] \/ tasks[t].entry.key = k
    BY <1>11 DEF StartChild, ChildAsks, ChildSaves, IInv, CheckpointInv
  <2>. QED  BY <1>11, <2>2, <2>3, ChildrenKeep DEF StartChild, ChildAsks, ChildSaves
<1>12. ASSUME NEW t \in DOMAIN tasks, NEW outcome, Return(t, outcome)
       PROVE  GivenUpInv'
  <2>1. DOMAIN tasks' \subseteq DOMAIN tasks /\ \A u \in DOMAIN tasks' :
          tasks'[u].entry = tasks[u].entry /\ tasks'[u].abandoned = tasks[u].abandoned
    BY <1>0, <1>12 DEF Return, Task
  <2>. QED  BY <1>12, <2>1, ChildrenKeep DEF Return
<1>13. ASSUME NEW t \in DOMAIN tasks, ChildEnds(t) \/ ChildReturns(t)
       PROVE  GivenUpInv'
  BY <1>12, <1>13 DEF ChildEnds, ChildReturns
<1>14. CASE DropExpired \/ DropTombstones
  BY <1>14 DEF DropExpired, DropTombstones, GivenUpInv
<1>15. CASE UNCHANGED vars
  BY <1>15 DEF vars, GivenUpInv, Flying, CurrentTasks, CurrentTask
<1>. QED  BY <1>1, <1>2, <1>3, <1>4, <1>5, <1>6, <1>7, <1>8, <1>9, <1>10, <1>11, <1>13, <1>14, <1>15
          DEF Next, Parent, Ended

\* A child whose wait is over finds its tombstone when it asks.
LEMMA NobodySavesLate ==
  ASSUME IInv, GivenUpInv, [Next]_vars, NEW t \in DOMAIN tasks \cap DOMAIN tasks',
         tasks[t].at = "running", tasks[t].abandoned, pc # "tombstone"
  PROVE  tasks'[t].at # "saving"
<1>. USE DEF control, work, store
<1>0. \A u \in DOMAIN tasks : tasks[u] \in Task
  BY DEF IInv, TaskInv
<1>1. ASSUME tasks'[t] = tasks[t] PROVE tasks'[t].at # "saving"
  BY <1>1
<1>2. CASE BeginBatch \/ NothingPending \/ WaitDone \/ RegisterTombstones \/ LoadCheckpoint \/ CallbackAnswered
           \/ CallbackFails \/ NextRound \/ EndBatch \/ RunNextChild \/ DeadlinePasses \/ DropExpired
           \/ DropTombstones \/ UNCHANGED vars
  BY <1>2 DEF BeginBatch, NothingPending, WaitDone, RegisterTombstones, LoadCheckpoint, CallbackAnswered,
     CallbackFails, NextRound, EndBatch, RunNextChild, DeadlinePasses, DropExpired, DropTombstones, vars
<1>3. CASE SubmitRound \/ Collect
  BY <1>3 DEF SubmitRound, Collect
<1>4. CASE WaitTimesOut
  BY <1>0, <1>4 DEF WaitTimesOut, Task
<1>5. ASSUME NEW u \in DOMAIN tasks, StartChild(u) \/ ChildSaves(u) \/ ChildEnds(u) \/ ChildReturns(u)
      PROVE  tasks'[t].at # "saving"
  <2>1. CASE StartChild(u) \/ ChildSaves(u)
    <3>1. PICK a \in {"running", "saved"} : tasks' = [tasks EXCEPT ![u].at = a]
      BY <2>1 DEF StartChild, ChildSaves
    <3>. QED  BY <1>0, <3>1 DEF Task
  <2>2. ASSUME NEW outcome, Return(u, outcome)
        PROVE  tasks'[t].at # "saving"
    <3>1. tasks'[t] = tasks[t] \/ tasks'[t].at = "done"
      BY <1>0, <2>2 DEF Return, Task
    <3>. QED  BY <3>1
  <2>. QED  BY <1>5, <2>1, <2>2 DEF ChildEnds, ChildReturns
<1>6. ASSUME NEW u \in DOMAIN tasks, ChildAsks(u)
      PROVE  tasks'[t].at # "saving"
  <2>1. tasks[t].entry.key \in _timed_out_run_ids
    BY DEF GivenUpInv
  <2>2. CASE u = t
    BY <1>0, <1>6, <2>1, <2>2 DEF ChildAsks, MayCheckpoint, Task
  <2>3. CASE u # t
    BY <1>0, <1>6, <2>3 DEF ChildAsks
  <2>. QED  BY <2>2, <2>3
<1>. QED  BY <1>2, <1>3, <1>4, <1>5, <1>6 DEF Next, Parent, Ended

\* Between two batches only children that were given up while they were saving have left
\* a checkpoint, in whatever order threads, timeouts and failures came.
THEOREM OnlyOrphansAreLeft ==
  ASSUME ~HostCleansUp
  PROVE  Spec => []OnlyOrphansLeaveCheckpoints
<1>1. Init => GivenUpInv
  BY DEF Init, GivenUpInv
<1>2. IInv /\ GivenUpInv /\ [Next]_vars => GivenUpInv'
  BY GivenUpStep
<1>3. GivenUpInv => OnlyOrphansLeaveCheckpoints
  BY DEF GivenUpInv, OnlyOrphansLeaveCheckpoints
<1>4. Spec => []IInv
  BY Invariance
<1>. QED  BY <1>1, <1>2, <1>3, <1>4, PTL DEF Spec

\* The guard of save_checkpoint keeps every child out that its parent no longer waits for.
THEOREM GivenUpIsFinal ==
  ASSUME ~HostCleansUp
  PROVE  Spec => GivenUpNeverSaves
<1>1. Init => GivenUpInv
  BY DEF Init, GivenUpInv
<1>2. IInv /\ GivenUpInv /\ [Next]_vars => GivenUpInv'
  BY GivenUpStep
<1>3. IInv /\ GivenUpInv /\ [Next]_vars =>
        [\A t \in DOMAIN tasks \cap DOMAIN tasks' :
           /\ tasks[t].at = "running"
           /\ tasks[t].abandoned
           /\ pc # "tombstone"
           => tasks'[t].at # "saving"]_vars
  BY NobodySavesLate
<1>4. Spec => []IInv
  BY Invariance
<1>. QED  BY <1>1, <1>2, <1>3, <1>4, PTL DEF Spec, GivenUpNeverSaves
=============================================================================
