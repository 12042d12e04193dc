---------------------------- MODULE StepLifecycle ----------------------------
(***************************************************************************)
(* What the planning driver promises about the steps of a plan, without    *)
(* saying how: a step that runs is never dropped, a step that is done stays *)
(* done and is never planned again, a waiting step (a callback the model   *)
(* has to answer) may be forgotten by a replan, and nothing moves once the *)
(* run is over.                                                            *)
(***************************************************************************)
CONSTANT StepId

VARIABLES stage,  \* where each step id is in its life
          over    \* the run has ended

vars == <<stage, over>>

Stages == {"absent", "planned", "running", "waiting", "done"}

InStage(st) == {id \in StepId : stage[id] = st}

Init == /\ stage = [id \in StepId |-> "absent"]
        /\ over = FALSE

\* A (new) plan: nothing runs, nothing done is named again; what the plan does
\* not name is dropped, and a waiting step it names may keep waiting.
Plan(ids) ==
  /\ InStage("running") = {}
  /\ ids \cap InStage("done") = {}
  /\ stage' \in [StepId -> Stages]
  /\ \A id \in StepId :
       stage'[id] \in IF stage[id] = "done" THEN {"done"}
                      ELSE IF id \notin ids THEN {"absent"}
                      ELSE IF stage[id] = "waiting" THEN {"planned", "waiting"}
                      ELSE {"planned"}

\* Planned steps start together.
Start(ids) ==
  /\ ids \subseteq InStage("planned")
  /\ stage' = [id \in StepId |-> IF id \in ids THEN "running" ELSE stage[id]]

\* One step is performed at once, is recorded, is parked, or is answered.
Move(id, from, to) == /\ stage[id] = from
                      /\ stage' = [stage EXCEPT ![id] = to]

Advance(id) == \/ Move(id, "planned", "done")
               \/ Move(id, "planned", "waiting")
               \/ Move(id, "running", "done")
               \/ Move(id, "running", "waiting")
               \/ Move(id, "waiting", "done")

End == over' = TRUE /\ UNCHANGED stage

Next == /\ ~over
        /\ \/ UNCHANGED over /\ \/ \E ids \in SUBSET StepId : Plan(ids) \/ Start(ids)
                                \/ \E id \in StepId : Advance(id)
           \/ End

Spec == Init /\ [][Next]_vars
=============================================================================
