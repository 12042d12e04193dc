-------------------------- MODULE MC_SubagentBatch --------------------------
(***************************************************************************)
(* Instances of SubagentBatch for TLC: two batches of up to three entries  *)
(* of one parent run.                                                      *)
(***************************************************************************)
EXTENDS SubagentBatch

CONSTANTS k0, k1, k2

\* The second batch has the parser's default keys call_0, call_1, which are the same in
\* every batch, or one the model chose anew, or uses that one twice; three entries are
\* more than MaxParallelism = 2 allows in parallel.
SomeKeys == [b \in 1..MaxBatches |->
               IF b = 1 THEN {<<k0, k1>>, <<k0, k0>>} ELSE {<<k0>>, <<k2, k1, k0>>}]

(***************************************************************************)
(* What else the documentation promises and TLC refutes; the README names  *)
(* the constants under which.                                              *)
(***************************************************************************)

\* A child that is resumed goes on with its own spec and conversation, whatever its key.
AlwaysItself ==
  pc \in {"round", "wait", "tombstone", "collect"} =>
    \A e \in pending :
      /\ e.slot = e.origin
      /\ e.messages = [batch |-> batch, slot |-> e.origin, answers |-> round_num]

\* A blocked child has left its checkpoint, whatever its key.
AlwaysCheckpointed ==
  pc = "resolve" =>
    \A e \in blocked : _checkpoints[e.key] \in {e.messages} \cup (IF HostCleansUp THEN {None} ELSE {})

\* After a batch nothing is left of it: no checkpoint of a child, orphaned or not
\* (_run_parallel_round).
NoCheckpointLeft == pc = "idle" => \A k \in RunId : _checkpoints[k] = None

\* A child whose callbacks the rounds did not settle is reported to the parent model
\* as blocked, for a follow-up call, and not as failed (call_subagent_batch).
UnsettledIsBlocked == \A o \in DOMAIN specs : final_results[o] # <<"rounds_exceeded">>
=============================================================================
