--------------------------- MODULE BatchContract ----------------------------
(***************************************************************************)
(* What AgentHost.call_subagent_batch promises the run that calls it,      *)
(* without saying how: every spec of the batch gets one result, which is   *)
(* final, and the call returns when all have theirs.  A sequential batch   *)
(* goes through its specs in their order and gives up at its deadline.     *)
(***************************************************************************)
EXTENDS Naturals, Sequences

CONSTANTS None, Modes

VARIABLES returned,  \* no call is open
          mode,      \* of the batch called last
          results    \* per spec of that batch: the results it was given

vars == <<returned, mode, results>>

\* How a spec's result tells its child ended, or why it has no child's result.
Statuses == {"completed", "failed", "timed_out", "lost", "unresolved", "rounds_exceeded"}

Unanswered == {o \in DOMAIN results : results[o] = <<>>}

Init == /\ returned = TRUE
        /\ mode = None
        /\ results = <<>>

\* A batch is called, or refused: then there is nothing to wait for.
Call == /\ returned
        /\ mode' \in Modes
        /\ DOMAIN results' = 1..Len(results')
        /\ \A o \in DOMAIN results' : results'[o] = <<>>
        /\ returned' = (results' = <<>>)

\* One spec after the other; who is timed out is followed by others that are.
InTurn == \A o, p \in DOMAIN results :
            o < p /\ results[p] # <<>> =>
              /\ results[o] # <<>>
              /\ results[o] = <<"timed_out">> => results[p] = <<"timed_out">>

\* Some specs get their results, together.
Answer == /\ ~returned
          /\ DOMAIN results' = DOMAIN results
          /\ \A o \in DOMAIN results :
               \/ results'[o] = results[o]
               \/ o \in Unanswered /\ \E st \in Statuses : results'[o] = <<st>>
          /\ mode = "sequential" => InTurn'
          /\ UNCHANGED <<returned, mode>>

Return == /\ ~returned
          /\ Unanswered = {}
          /\ returned' = TRUE
          /\ UNCHANGED <<mode, results>>

Next == Call \/ Answer \/ Return

Spec == Init /\ [][Next]_vars
=============================================================================
