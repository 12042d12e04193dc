---------------------------- MODULE SubagentBatch ---------------------------
(***************************************************************************)
(* A parent run's call_subagents decisions: AgentHost.call_subagent_batch  *)
(* (src/agent_framework/host.py), the shared thread pool its children run  *)
(* on, the checkpoints that blocked children leave for their resumption,   *)
(* and the tombstones meant to keep children the parent no longer waits    *)
(* for from leaving one.                                                   *)
(*                                                                         *)
(* One behaviour is one parent run that makes up to MaxBatches batches in  *)
(* turn.  What a child does (answer, fail, ask), when a worker thread runs *)
(* and when a wait times out are nondeterministic.                         *)
(***************************************************************************)
EXTENDS Naturals, Sequences, FiniteSets

CONSTANTS
  OutputKey,       \* output keys a batch entry can have
  None,            \* Python's None
  MaxBatches,      \* bound: batches the parent makes
  BatchKeys,       \* [1..MaxBatches -> sets of sequences of output keys]
  Modes,           \* batch modes the model may choose: parallel, sequential
  MaxParallelism,  \* SUBAGENT_MAX_PARALLELISM
  MaxRounds,       \* SUBAGENT_BATCH_MAX_CALLBACK_ROUNDS
  Workers,         \* threads of the host's executor
  CanTimeOut,      \* the batch timeout may pass before the children are done
  HostCleansUp     \* the application calls cleanup_checkpoints now and then

ASSUME BatchAssumption ==
  /\ MaxBatches \in Nat \ {0}
  /\ BatchKeys \in [1..MaxBatches -> SUBSET Seq(OutputKey)]
  /\ \A b \in 1..MaxBatches : <<>> \notin BatchKeys[b]
  /\ Modes \subseteq {"parallel", "sequential"}
  /\ {MaxParallelism, MaxRounds} \subseteq Nat
  /\ Workers \in Nat \ {0}
  /\ {CanTimeOut, HostCleansUp} \subseteq BOOLEAN
  /\ None \notin OutputKey

\* The child run id is parent_run_id.output_key: within one parent, the key.
RunId == OutputKey

VARIABLES
  pc,                  \* where call_subagent_batch is
  batch,               \* how many batches were begun
  mode,                \* of the current batch
  specs,               \* output keys of the batch's SubagentCallSpecs, in order
  round_num,           \* callback-resume round of the current batch
  pending,             \* entries to run in this round
  blocked,             \* blocked entries whose callback is still to be resolved
  final_results,       \* per spec: the statuses of the results collected for it
  saved,               \* the checkpoint loaded for the first blocked entry
  deadline_passed,     \* sequential mode: the batch's deadline is over
  tasks,               \* the children submitted to the executor, unfinished or
                       \* still waited for, by task id
  _checkpoints,        \* per run id: the saved conversation or None
  _timed_out_run_ids,  \* the tombstones
  collecting,          \* cleanup_checkpoints is between its two halves
  reused               \* history: output keys the batch shares with another child

control   == <<pc, batch, mode, specs, round_num>>
work      == <<pending, blocked, final_results, saved, deadline_passed>>
store     == <<_checkpoints, _timed_out_run_ids>>
vars      == <<control, work, tasks, store, collecting, reused>>

\* A child's conversation: which entry of which batch began it, and how many
\* callback answers it holds.
Conversation == [batch : Nat, slot : Nat, answers : Nat]

\* An entry of `pending`: origin is the position of the spec it stands for, slot the
\* position of the spec it runs with.  The lists of entries are in the order of their
\* origins, so they are sets here.
Entry == [slot : Nat, origin : Nat, key : RunId, messages : Conversation]

\* How a child ended, and with which status an entry is reported.  The last three
\* have status "failed" with the message "checkpoint not found after block",
\* "callback resolution error" and "max callback rounds exceeded".
Outcomes      == {"completed", "failed", "blocked"}
FinalStatuses == {"completed", "failed", "timed_out",
                  "lost", "unresolved", "rounds_exceeded"}

\* A task is named by its batch, round and origin.  An abandoned one was in not_done.
TaskId == Nat \X Nat \X Nat
TaskPcs == {"queued", "running", "saving", "saved", "done"}
Task == [entry : Entry, at : TaskPcs, outcome : Outcomes \cup {None},
         abandoned : BOOLEAN]

First(entries) == CHOOSE e \in entries : \A f \in entries : e.origin <= f.origin
CurrentTask(e) == <<batch, round_num, e.origin>>
CurrentTasks   == {CurrentTask(e) : e \in pending}
OnThread       == {t \in DOMAIN tasks : tasks[t].at \in {"running", "saving", "saved"}}

Init ==
  /\ pc = "idle"
  /\ batch = 0
  /\ mode = None
  /\ specs = <<>>
  /\ round_num = 0
  /\ pending = {}
  /\ blocked = {}
  /\ final_results = <<>>
  /\ saved = None
  /\ deadline_passed = FALSE
  /\ tasks = <<>>
  /\ _checkpoints = [k \in RunId |-> None]
  /\ _timed_out_run_ids = {}
  /\ collecting = FALSE
  /\ reused = {}

FreshEntry(keys, i) ==
  [slot |-> i, origin |-> i, key |-> keys[i],
   messages |-> [batch |-> batch + 1, slot |-> i, answers |-> 0]]

(***************************************************************************)
(* The parent's thread.                                                    *)
(***************************************************************************)

\* A child with this run id was given up in an earlier batch: it still runs, or its
\* tombstone is there.
Taken(k) == k \in _timed_out_run_ids \/ \E t \in DOMAIN tasks : tasks[t].entry.key = k

\* The model used the key twice.
Twice(keys, k) == \E i, j \in DOMAIN keys : i # j /\ keys[i] = k /\ keys[j] = k

\* call_subagent_batch up to its loop.  A parallel batch that is too large raises
\* ValueError to the parent, which goes on without results.
BeginBatch ==
  /\ pc = "idle"
  /\ batch < MaxBatches
  /\ \E keys \in BatchKeys[batch + 1], m \in Modes :
       LET refused == m = "parallel" /\ Len(keys) > MaxParallelism
       IN  /\ pc' = IF refused THEN "idle" ELSE "round"
           /\ mode' = m
           /\ specs' = IF refused THEN <<>> ELSE keys
           /\ pending' = {FreshEntry(keys, i) : i \in DOMAIN specs'}
           /\ final_results' = [i \in DOMAIN specs' |-> <<>>]
           /\ reused' = {k \in RunId : Taken(k) \/ Twice(specs', k)}
  /\ batch' = batch + 1
  /\ round_num' = 0
  /\ blocked' = {}
  /\ deadline_passed' = FALSE
  /\ UNCHANGED <<saved, tasks, store, collecting>>

\* The head of the round loop with nothing left to run.
NothingPending ==
  /\ pc = "round"
  /\ pending = {}
  /\ pc' = "cleanup"
  /\ UNCHANGED <<batch, mode, specs, round_num, work, tasks, store, collecting, reused>>

\* _run_parallel_round: submit every pending entry to the executor.
SubmitRound ==
  /\ pc = "round"
  /\ mode = "parallel"
  /\ pending # {}
  /\ tasks' = [t \in DOMAIN tasks \cup CurrentTasks |->
                 IF t \in DOMAIN tasks THEN tasks[t]
                 ELSE [entry |-> CHOOSE e \in pending : CurrentTask(e) = t,
                       at |-> "queued", outcome |-> None, abandoned |-> FALSE]]
  /\ pc' = "wait"
  /\ UNCHANGED <<batch, mode, specs, round_num, work, store, collecting, reused>>

Unfinished == {t \in CurrentTasks : tasks[t].at # "done"}

\* Mutant of WaitMayTimeOut: futures_wait is called without a timeout.
WaitMayTimeOut_Never == FALSE

\* The timeout given to futures_wait may pass.
WaitMayTimeOut == CanTimeOut

\* futures_wait returns because every future of the round is done, or with the
\* unfinished ones in not_done because the timeout passed.
WaitDone ==
  /\ pc = "wait"
  /\ Unfinished = {}
  /\ pc' = "collect"
  /\ UNCHANGED <<batch, mode, specs, round_num, work, tasks, store, collecting, reused>>

WaitTimesOut ==
  /\ pc = "wait"
  /\ WaitMayTimeOut
  /\ Unfinished # {}
  /\ tasks' = [t \in DOMAIN tasks |->
                 [tasks[t] EXCEPT !.abandoned = @ \/ t \in Unfinished]]
  /\ pc' = "tombstone"
  /\ UNCHANGED <<batch, mode, specs, round_num, work, store, collecting, reused>>

\* Mutant of GivenUpKeys: every child of the round gets a tombstone.
GivenUpKeys_All == {e.key : e \in pending}

\* The run ids of not_done.
GivenUpKeys ==
  {tasks[t].entry.key : t \in {u \in CurrentTasks : tasks[u].abandoned}}

RegisterTombstones ==
  /\ pc = "tombstone"
  /\ _timed_out_run_ids' = _timed_out_run_ids \cup GivenUpKeys
  /\ pc' = "collect"
  /\ UNCHANGED <<batch, mode, specs, round_num, work, tasks, _checkpoints, collecting, reused>>

\* The status the future of a pending entry is converted to.
RoundStatus(e) ==
  LET t == tasks[CurrentTask(e)] IN IF t.abandoned THEN "timed_out" ELSE t.outcome

\* final_results after an item was added for every entry that has a status.
Reported(statuses) ==
  [o \in DOMAIN final_results |->
     final_results[o] \o IF \E e \in DOMAIN statuses : e.origin = o
                         THEN <<statuses[CHOOSE e \in DOMAIN statuses : e.origin = o]>>
                         ELSE <<>>]

\* _checkpoints after delete_checkpoint for each of keys.
Without(keys) == [k \in RunId |-> IF k \in keys THEN None ELSE _checkpoints[k]]

\* round_num == max_rounds.
RoundsUsedUp == round_num = MaxRounds

\* Mutant of Settled: blocked entries are reported as well.
Settled_Blocked(asking) == pending

\* The entries of the round that get a final result, when asking are blocked.
Settled(asking) == IF RoundsUsedUp THEN pending ELSE pending \ asking

\* The rest of _run_parallel_round and call_subagent_batch up to the resolution of
\* callbacks: final results are collected; without a blocked entry, or after the
\* last round (then blocked entries fail), the loop is over.
Collect ==
  /\ pc = "collect"
  /\ LET asking == {e \in pending : RoundStatus(e) = "blocked"}
     IN  /\ final_results' =
              Reported([e \in Settled(asking) |->
                          IF e \in asking THEN "rounds_exceeded" ELSE RoundStatus(e)])
         /\ blocked' = IF RoundsUsedUp THEN {} ELSE asking
         /\ _checkpoints' = IF RoundsUsedUp THEN Without({e.key : e \in asking})
                            ELSE _checkpoints
         /\ pc' = IF blocked' = {} THEN "cleanup" ELSE "resolve"
  /\ pending' = {}
  /\ tasks' = [t \in DOMAIN tasks \ {u \in CurrentTasks : tasks[u].at = "done"} |->
                 tasks[t]]
  /\ UNCHANGED <<batch, mode, specs, round_num, saved, deadline_passed,
                 _timed_out_run_ids, collecting, reused>>

\* load_checkpoint for the next blocked entry; without one the entry fails.
LoadCheckpoint ==
  /\ pc = "resolve"
  /\ blocked # {}
  /\ saved' = _checkpoints[First(blocked).key]
  /\ IF saved' = None
     THEN /\ final_results' = Reported([e \in {First(blocked)} |-> "lost"])
          /\ blocked' = blocked \ {First(blocked)}
          /\ UNCHANGED pc
     ELSE /\ pc' = "asking"
          /\ UNCHANGED <<final_results, blocked>>
  /\ UNCHANGED <<batch, mode, specs, round_num, pending, deadline_passed, tasks,
                 store, collecting, reused>>

\* Mutant of ResumedMessages: the child is started over without its history.
ResumedMessages_Lost(e) == [saved EXCEPT !.answers = 1]

\* saved + [{"role": "user", "content": answer}].
ResumedMessages(e) == [saved EXCEPT !.answers = @ + 1]

\* The first spec with the entry's output key.
OriginalSpec(e) ==
  CHOOSE i \in DOMAIN specs :
    specs[i] = e.key /\ \A j \in 1..(i - 1) : specs[j] # e.key

\* resolve_callback returned: the entry will run again with the answer.
CallbackAnswered ==
  /\ pc = "asking"
  /\ LET e == First(blocked)
     IN  pending' = pending \cup {[e EXCEPT !.slot = OriginalSpec(e),
                                            !.messages = ResumedMessages(e)]}
  /\ blocked' = blocked \ {First(blocked)}
  /\ saved' = None
  /\ pc' = "resolve"
  /\ UNCHANGED <<batch, mode, specs, round_num, final_results, deadline_passed,
                 tasks, store, collecting, reused>>

\* get_agent or resolve_callback raised.
CallbackFails ==
  /\ pc = "asking"
  /\ final_results' = Reported([e \in {First(blocked)} |-> "unresolved"])
  /\ _checkpoints' = Without({First(blocked).key})
  /\ blocked' = blocked \ {First(blocked)}
  /\ saved' = None
  /\ pc' = "resolve"
  /\ UNCHANGED <<batch, mode, specs, round_num, pending, deadline_passed, tasks,
                 _timed_out_run_ids, collecting, reused>>

\* Every callback of the round was dealt with: the next round begins.
NextRound ==
  /\ pc = "resolve"
  /\ blocked = {}
  /\ round_num' = round_num + 1
  /\ pc' = "round"
  /\ UNCHANGED <<batch, mode, specs, work, tasks, store, collecting, reused>>

\* The run ids whose checkpoints are deleted at the end: those of all results, of
\* which none is "blocked".
Leftovers == {specs[o] : o \in {i \in DOMAIN specs : final_results[i] # <<>>}}

\* The final deletions; the results are returned to the parent.
EndBatch ==
  /\ pc = "cleanup"
  /\ _checkpoints' = Without(Leftovers)
  /\ pc' = "idle"
  /\ UNCHANGED <<batch, mode, specs, round_num, work, tasks, _timed_out_run_ids,
                 collecting, reused>>

\* How the next child of a sequential round can be reported.
SequentialStatuses == IF deadline_passed THEN {"timed_out"} ELSE {"completed", "failed"}

\* _run_sequential_round: one child after the other on the parent's own thread.
\* Its callbacks are answered inside call_subagent, so it is never blocked.
RunNextChild ==
  /\ pc = "round"
  /\ mode = "sequential"
  /\ pending # {}
  /\ \E status \in SequentialStatuses :
       final_results' = Reported([e \in {First(pending)} |-> status])
  /\ pending' = pending \ {First(pending)}
  /\ UNCHANGED <<control, blocked, saved, deadline_passed, tasks, store, collecting, reused>>

\* time.monotonic() passes the deadline.
DeadlinePasses ==
  /\ pc = "round"
  /\ mode = "sequential"
  /\ CanTimeOut
  /\ ~deadline_passed
  /\ deadline_passed' = TRUE
  /\ UNCHANGED <<control, pending, blocked, final_results, saved, tasks, store,
                 collecting, reused>>

Parent ==
  \/ BeginBatch \/ NothingPending \/ SubmitRound \/ WaitDone \/ WaitTimesOut
  \/ RegisterTombstones \/ Collect \/ LoadCheckpoint \/ CallbackAnswered
  \/ CallbackFails \/ NextRound \/ EndBatch \/ RunNextChild

(***************************************************************************)
(* The children on the executor's threads.                                 *)
(***************************************************************************)

Queued == {t \in DOMAIN tasks : tasks[t].at = "queued"}

\* t was submitted before u.
Before(t, u) ==
  \/ t[1] < u[1]
  \/ t[1] = u[1] /\ t[2] < u[2]
  \/ t[1] = u[1] /\ t[2] = u[2] /\ t[3] < u[3]

\* A thread takes the child that was submitted first, also one already given up.
StartChild(t) ==
  /\ t \in Queued
  /\ \A u \in Queued \ {t} : Before(t, u)
  /\ Cardinality(OnThread) < Workers
  /\ tasks' = [tasks EXCEPT ![t].at = "running"]
  /\ UNCHANGED <<control, work, store, collecting, reused>>

\* The future of t is done.  Nobody looks at the future of a child given up in an
\* earlier round.
Return(t, outcome) ==
  /\ tasks' = IF t \in CurrentTasks
              THEN [tasks EXCEPT ![t].at = "done", ![t].outcome = outcome]
              ELSE [u \in DOMAIN tasks \ {t} |-> tasks[u]]
  /\ UNCHANGED <<control, work, store, collecting, reused>>

\* The child's run ends without asking, or raises, or asks for direct user input.
ChildEnds(t) ==
  /\ tasks[t].at = "running"
  /\ \E outcome \in {"completed", "failed"} : Return(t, outcome)

\* The guard of save_checkpoint, evaluated under _timed_out_lock.
MayCheckpoint(k) == k \notin _timed_out_run_ids

\* handle_callback of a child of a parallel batch: save_checkpoint looks at the
\* tombstones under one lock ...
ChildAsks(t) ==
  /\ tasks[t].at = "running"
  /\ tasks' = [tasks EXCEPT ![t].at =
                 IF MayCheckpoint(tasks[t].entry.key) THEN "saving" ELSE "saved"]
  /\ UNCHANGED <<control, work, store, collecting, reused>>

\* ... and stores the conversation under another.
ChildSaves(t) ==
  /\ tasks[t].at = "saving"
  /\ _checkpoints' = [_checkpoints EXCEPT ![tasks[t].entry.key] = tasks[t].entry.messages]
  /\ tasks' = [tasks EXCEPT ![t].at = "saved"]
  /\ UNCHANGED <<control, work, _timed_out_run_ids, collecting, reused>>

\* The child returns "blocked", or what an after_run behavior made of it.
ChildReturns(t) ==
  /\ tasks[t].at = "saved"
  /\ \E outcome \in Outcomes : Return(t, outcome)

(***************************************************************************)
(* cleanup_checkpoints, called by the application: first the checkpoints   *)
(* past their age, then the tombstones without a checkpoint.               *)
(***************************************************************************)

DropExpired ==
  /\ HostCleansUp
  /\ ~collecting
  /\ \E expired \in SUBSET {k \in RunId : _checkpoints[k] # None} :
       _checkpoints' = [k \in RunId |-> IF k \in expired THEN None ELSE _checkpoints[k]]
  /\ collecting' = TRUE
  /\ UNCHANGED <<control, work, tasks, _timed_out_run_ids, reused>>

DropTombstones ==
  /\ collecting
  /\ _timed_out_run_ids' = {k \in _timed_out_run_ids : _checkpoints[k] # None}
  /\ collecting' = FALSE
  /\ UNCHANGED <<control, work, tasks, _checkpoints, reused>>

Ended == pc = "idle" /\ batch = MaxBatches /\ tasks = <<>> /\ UNCHANGED vars

Next ==
  \/ Parent
  \/ DeadlinePasses
  \/ \E t \in DOMAIN tasks : \/ StartChild(t) \/ ChildEnds(t) \/ ChildAsks(t)
                             \/ ChildSaves(t) \/ ChildReturns(t)
  \/ DropExpired
  \/ DropTombstones
  \/ Ended

Spec == Init /\ [][Next]_vars

\* The parent's thread is never suspended for good: futures_wait has a timeout, and
\* callbacks are assumed to be answered or to fail.  Nothing is assumed of children.
FairSpec == Spec /\ WF_vars(Parent)

(***************************************************************************)
(* Properties.                                                             *)
(***************************************************************************)

\* Every variable has its type; in particular no child is resumed more than
\* MaxRounds times.
TypeOK ==
  /\ pc \in {"idle", "round", "wait", "tombstone", "collect", "resolve", "asking", "cleanup"}
  /\ batch \in 0..MaxBatches
  /\ mode \in Modes \cup {None}
  /\ specs \in Seq(OutputKey)
  /\ round_num \in 0..MaxRounds
  /\ pending \subseteq Entry
  /\ blocked \subseteq Entry
  /\ final_results \in [DOMAIN specs -> Seq(FinalStatuses)]
  /\ saved \in Conversation \cup {None}
  /\ deadline_passed \in BOOLEAN
  /\ DOMAIN tasks \subseteq TaskId
  /\ \A t \in DOMAIN tasks : tasks[t] \in Task
  /\ _checkpoints \in [RunId -> Conversation \cup {None}]
  /\ _timed_out_run_ids \subseteq RunId
  /\ collecting \in BOOLEAN
  /\ reused \subseteq RunId

\* No spec of a batch is forgotten and none is answered twice: at any time it has one
\* final result or one entry that is still worked on, never both, through all rounds,
\* timeouts and failures of callbacks; and call_subagent_batch does not return before
\* every spec has its result.
AnsweredOnce ==
  /\ \A o \in DOMAIN specs :
       LET open == {e \in pending \cup blocked : e.origin = o}
       IN  \/ Len(final_results[o]) = 1 /\ open = {}
           \/ final_results[o] = <<>> /\ \E e \in open : open = {e}
  /\ pc \in {"cleanup", "idle"} => pending \cup blocked = {}

\* A child that is resumed after its callback goes on with its own spec and its own
\* conversation, extended by one answer per round: never with that of another entry,
\* of an earlier batch, or of an earlier round.  Also under the parser's default keys,
\* which are the same in every batch (call_0, call_1, ...), unless the key is one that
\* an earlier child of the parent had which was given up, or the model used it twice.
ResumesItself ==
  pc \in {"round", "wait", "tombstone", "collect"} =>
    \A e \in {f \in pending : f.key \notin reused} :
      /\ e.slot = e.origin
      /\ e.messages = [batch |-> batch, slot |-> e.origin, answers |-> round_num]

\* A child that reported "blocked" in this round has left the checkpoint it is to be
\* resumed from, with the conversation of this round, unless the application removes
\* it: save_checkpoint did not skip it, and nobody replaced it before its turn; unless it
\* shares its key as above.
BlockedIsCheckpointed ==
  pc = "resolve" =>
    \A e \in {f \in blocked : f.key \notin reused} : _checkpoints[e.key] \in {e.messages} \cup (IF HostCleansUp THEN {None} ELSE {})

\* call_subagent_batch returns from a parallel batch, whatever its children do: a child
\* that hangs or that asks again and again cannot hold its parent.
BatchReturns == pc # "idle" /\ mode = "parallel" ~> pc = "idle"

(***************************************************************************)
(* What holds as long as nobody calls cleanup_checkpoints: with            *)
(* HostCleansUp = FALSE.                                                   *)
(***************************************************************************)

\* Between batches no checkpoint is left of a child that was resumed, failed, or
\* changed its answer after it had asked; only a child that was given up, and was
\* saving when its parent's wait ran out, may leave one.
OnlyOrphansLeaveCheckpoints ==
  pc = "idle" =>
    \A k \in RunId : _checkpoints[k] # None => k \in _timed_out_run_ids

\* A child that asks after its parent registered it as timed out does not get to write
\* a checkpoint (the guard of save_checkpoint), however late it asks.
GivenUpNeverSaves ==
  [][\A t \in DOMAIN tasks \cap DOMAIN tasks' :
       /\ tasks[t].at = "running"
       /\ tasks[t].abandoned
       /\ pc # "tombstone"
       => tasks'[t].at # "saving"]_vars

(***************************************************************************)
(* The batch as its caller sees it.                                        *)
(***************************************************************************)

Contract == INSTANCE BatchContract WITH returned <- (pc = "idle"), results <- final_results

\* call_subagent_batch keeps what BatchContract promises: through all rounds, timeouts
\* and failures of callbacks a spec gets one result, never another one, and the call
\* does not return before every spec has its result.
ImplementsContract == Contract!Spec
=============================================================================
