-------------------------- MODULE MC_PlanningDriver -------------------------
(***************************************************************************)
(* Instances of PlanningDriver for TLC: four step ids and plans chosen so  *)
(* that every kind of plan the driver distinguishes occurs.                *)
(***************************************************************************)
EXTENDS PlanningDriver

CONSTANTS a, b, c, d

Work(id, deps) == [id |-> id, kind |-> "work", deps |-> deps]
Ask(id, deps)  == [id |-> id, kind |-> "callback", deps |-> deps]

\* Two parallel steps and one that joins them; the join alone; a replacement.
Join    == <<Work(a, {}), Work(b, {}), Work(c, {a, b})>>
Tail1   == <<Work(c, {}), Work(d, {c})>>
Single  == <<Work(d, {})>>
\* A callback between two pieces of work.
AskMid  == <<Work(a, {}), Ask(b, {a}), Work(c, {b})>>
\* Illegal payloads: a cycle, and one id twice.
Cycle   == <<Work(c, {d}), Work(d, {c})>>
Twice   == <<Work(d, {}), Ask(d, {})>>
\* Two callbacks that become ready together.
AskTwo  == <<Ask(a, {}), Ask(b, {}), Work(c, {a, b})>>

TwoAskPlans == {AskTwo, Single}
AllPlans    == {Join, AskMid, AskTwo, Tail1, Single, Cycle, Twice}

(***************************************************************************)
(* What else the documentation promises and TLC refutes; the README names  *)
(* the constants under which.                                              *)
(***************************************************************************)

\* Tools, subagents and skills may never come back.
HangingSpec == Spec /\ ThreadFairness

\* "max_steps": a plan never executes more steps than the configured cap.
StepsWithinCap == total_steps_executed <= MaxSteps

\* A step is recorded once, and its result is the one {{token}} references see.
RecordedOnce ==
  turn = "head" =>
    \A i, j \in DOMAIN completed_steps :
      completed_steps[i].step.id = completed_steps[j].step.id => i = j

\* total_steps_executed: "Cumulative count of step executions" (PlanState).
CountedOnce ==
  turn = "head" =>
    total_steps_executed = Cardinality({id \in StepId : started[id] > 0}) + resolved

\* Executing a plan needs no model call and comes to its end.
PlanAlwaysEnds == plan_revision > 0 ~> (AwaitingDecision \/ status # "running")

\* A safety cap terminates the run.
CapEndsRun == last_cap # "none" => status # "running"

\* The semantic-validation cap means two failures in a row.
SemanticCapAfterTwoInARow ==
  last_cap = "planning_semantic_validation" => semantic_streak = 2

\* The step timeout bounds the time a batch takes: the loop thread gets out of
\* it even if a tool never returns.
TimeoutEndsBatch == turn = "wait" ~> turn = "head"
=============================================================================
