--------------------------- MODULE PlanningDriver ---------------------------
(***************************************************************************)
(* The plan / execute / reflect loop of a planning-enabled agent run:      *)
(* PlanningTurnDriver.run_turn (src/agent_framework/planning/turn_driver)  *)
(* called from the loop of Agent.run, together with the worker threads     *)
(* that _dispatch_parallel_batch starts and the per-step timeout.          *)
(*                                                                         *)
(* One behaviour is one agent run.  The model's decisions, the outcomes of *)
(* tools, subagents and skills, and the moments a worker thread runs or a  *)
(* timeout fires are nondeterministic.  Everything inside one run_turn is  *)
(* one step, except a parallel batch, whose threads interleave.            *)
(***************************************************************************)
EXTENDS Integers, Sequences, FiniteSets

CONSTANTS
  StepId,             \* ids a plan step can have
  NoStep,             \* Python's None for pending_callback_step_id
  Plans,              \* plan payloads the model may emit (not only legal ones)
  ParallelExecution,  \* PlanningConfig.parallel_execution
  MaxSteps,           \* PlanningConfig.max_steps
  MaxRevisions,       \* PlanningConfig.max_plan_revisions
  StepTimeout,        \* PlanningConfig.step_timeout_seconds; 0 is "no timeout"
  Caller,             \* who called this run, see below
  ResolverRaises,     \* host.step_ref_resolver may raise on a step's parameters
  PostHookContinues   \* an after_run behavior may answer a result with continue_run

\* "host": top level (caller_id None or "host"); "agent": a synchronous parent
\* agent; "batch": a parent agent that runs this one in a parallel batch.
Callers == {"host", "agent", "batch"}

\* call_tool, call_subagent and invoke_skill steps treat PlanState alike: "work".
Step == [id : StepId, kind : {"work", "callback"}, deps : SUBSET StepId]

ASSUME ConfigAssumption ==
  /\ NoStep \notin StepId
  /\ Plans \subseteq Seq(Step)
  /\ ParallelExecution \in BOOLEAN
  /\ MaxSteps \in Nat \ {0}
  /\ MaxRevisions \in Nat \ {0}
  /\ StepTimeout \in Nat
  /\ Caller \in Callers
  /\ ResolverRaises \in BOOLEAN
  /\ PostHookContinues \in BOOLEAN

VARIABLES
  plan,                             \* PlanState.plan; <<>> until the first one
  plan_revision,                    \* PlanState.plan_revision; 0: no PlanState yet
  step_results,                     \* PlanState.step_results; "none": key absent
  completed_steps,                  \* PlanState.completed_steps
  total_steps_executed,             \* PlanState.total_steps_executed
  pending_callback_step_id,         \* PlanState.pending_callback_step_id
  eop_stall_count,                  \* PlanState.eop_stall_count, saturating at 3
  planning_semantic_failures,       \* AgentRun counter, 0..1 between turns
  consecutive_validation_failures,  \* AgentRun counter, 0..1 between turns
  status,                           \* "running" or how Agent.run ended
  turn,                             \* where the thread running the loop is
  batch,                            \* the steps of the parallel batch in flight
  worker,                           \* per step id: where its worker thread is
  outcome,                          \* per step id: its worker's local `result`
  late,                             \* the not_done steps still to be expired
  expiring,                         \* the one whose result is already replaced
  \* History variables: read by properties only.
  started,                          \* how often each step's work was started
  resolved,                         \* how many callback steps were resolved
  last_cap,                         \* the last safety cap emitted, or "none"
  semantic_streak                   \* semantic failures in a row, saturating at 2

plan_state == <<plan, plan_revision, step_results, completed_steps,
                total_steps_executed, pending_callback_step_id, eop_stall_count>>
threads    == <<turn, batch, worker, outcome, late, expiring>>
counters   == <<planning_semantic_failures, consecutive_validation_failures>>
vars == <<plan_state, counters, status, threads, started, resolved, last_cap,
          semantic_streak>>

Results   == {"ok", "error", "timed_out", "resolved"}
Record    == [step : Step, result : Results]
Statuses  == {"running", "completed", "failed", "blocked", "raised"}
Caps      == {"max_steps", "max_plan_revisions", "eop_stall",
              "planning_semantic_validation", "consecutive_validation_failures"}
WorkerPcs == {"idle", "resolving", "running", "stored", "recorded", "finished"}

Ids(p)       == {p[i].id : i \in DOMAIN p}
PlanSteps    == {plan[i] : i \in DOMAIN plan}
CompletedIds == {completed_steps[i].step.id : i \in DOMAIN completed_steps}

(***************************************************************************)
(* Pure helpers.                                                           *)
(***************************************************************************)

\* _parse_and_validate_plan: the plan payloads that do not raise ValueError.
ParserAccepts(p) ==
  /\ p # <<>>
  /\ \A i, j \in DOMAIN p : p[i].id = p[j].id => i = j
  /\ \A i \in DOMAIN p : p[i].deps \subseteq {p[j].id : j \in 1..(i - 1)}

\* _validate_submit_plan's collision rule; its token rule depends on parameter
\* payloads only and is the argument bad_token of SubmitPlan.
Collides(p) == Ids(p) \cap CompletedIds # {}

\* Mutant of ReadyBatch: no dispatched guard.
ReadyBatch_NoGuard ==
  LET ready == {i \in DOMAIN plan : plan[i].deps \subseteq CompletedIds}
  IN  {plan[i] : i \in ready}

\* Mutant of ReadyBatch: completed_steps as that guard.
ReadyBatch_CompletedGuard ==
  LET ready == {i \in DOMAIN plan : /\ plan[i].id \notin CompletedIds
                                    /\ plan[i].deps \subseteq CompletedIds}
  IN  {plan[i] : i \in {k \in ready : \/ ParallelExecution
                                      \/ \A j \in ready : k <= j}}

\* Mutant of ReadyBatch: a dependency counts once it is dispatched.
ReadyBatch_DispatchedDeps ==
  {s \in PlanSteps :
     /\ step_results[s.id] = "none"
     /\ \A dep \in s.deps : step_results[dep] # "none"}

\* _select_ready_batch: in step_results = already dispatched.
ReadyBatch ==
  LET ready == {i \in DOMAIN plan : /\ step_results[plan[i].id] = "none"
                                    /\ plan[i].deps \subseteq CompletedIds}
  IN  {plan[i] : i \in {k \in ready : \/ ParallelExecution
                                      \/ \A j \in ready : k <= j}}

\* _all_steps_done
AllStepsDone == Ids(plan) \subseteq CompletedIds

\* _validate_reflect_callback: some step_results entry is an error dict.
SomeStepFailed == \E id \in StepId : step_results[id] \in {"error", "timed_out"}

(***************************************************************************)
(* How a turn ends.                                                        *)
(***************************************************************************)

\* The loop of Agent.run stops at a result unless a post-agent hook says
\* continue_run: what becomes of a turn that returned one of these.
AfterHooks(results) == results \cup (IF PostHookContinues THEN {"running"} ELSE {})

\* What _emit_safety_cap_callback returns: a failed result at top level, and
\* what handle_callback makes of a callback_to_caller otherwise (answered:
\* None, so that the loop goes on; refused by the routing policy; no host
\* interaction allowed; or a checkpoint and a blocked result).
CapOutcomes == AfterHooks(CASE Caller = "host"  -> {"failed"}
                            [] Caller = "batch" -> {"blocked"}
                            [] Caller = "agent" -> {"running", "failed", "raised"})

EmitSafetyCap(cap) == /\ last_cap' = cap
                      /\ status' \in CapOutcomes

\* What dispatch_decision returns for a decision that is no planning decision:
\* None, a terminal result, or an exception.
DispatchOutcomes == {"running", "completed", "failed", "raised"}
                      \cup (IF Caller = "batch" THEN {"blocked"} ELSE {})

\* _handle_semantic_failure
HandleSemanticFailure ==
  /\ semantic_streak' = IF semantic_streak = 2 THEN 2 ELSE semantic_streak + 1
  /\ IF planning_semantic_failures + 1 >= 2
     THEN /\ planning_semantic_failures' = 0
          /\ EmitSafetyCap("planning_semantic_validation")
     ELSE /\ planning_semantic_failures' = planning_semantic_failures + 1
          /\ UNCHANGED <<status, last_cap>>

\* A record appended to the history, and counted.
Complete(records) ==
  /\ completed_steps' = completed_steps \o records
  /\ total_steps_executed' = total_steps_executed + Len(records)

(***************************************************************************)
(* PLAN and REFLECT: no step is ready, the model is asked for a decision.  *)
(***************************************************************************)

AwaitingDecision ==
  /\ status = "running"
  /\ turn = "head"
  /\ plan_revision = 0 \/ ReadyBatch = {}

\* A decision that parsed: _try_decide resets its counter.
Decided == /\ AwaitingDecision
           /\ consecutive_validation_failures' = 0
           /\ UNCHANGED <<threads, started>>

\* The decision was no semantic failure.
NotSemanticFailure == semantic_streak' = 0

\* agent.decide raises ValueError (unparsable decision, illegal plan).
InvalidDecision ==
  /\ AwaitingDecision
  /\ IF consecutive_validation_failures + 1 >= 2
     THEN /\ consecutive_validation_failures' = 0
          /\ EmitSafetyCap("consecutive_validation_failures")
     ELSE /\ consecutive_validation_failures' = consecutive_validation_failures + 1
          /\ UNCHANGED <<status, last_cap>>
  /\ UNCHANGED <<plan_state, planning_semantic_failures, threads, started,
                 resolved, semantic_streak>>

\* agent.decide raises anything else: it propagates out of Agent.run.
ModelCallFails ==
  /\ AwaitingDecision
  /\ status' = "raised"
  /\ UNCHANGED <<plan_state, counters, threads, started, resolved, last_cap,
                 semantic_streak>>

FinalMessage ==
  /\ Decided
  /\ NotSemanticFailure
  /\ status' \in AfterHooks({"completed"})
  /\ UNCHANGED <<plan_state, planning_semantic_failures, resolved, last_cap>>

\* The first plan of the run.
InitialPlan(p) ==
  /\ plan_revision = 0
  /\ plan' = p
  /\ plan_revision' = 1
  /\ UNCHANGED <<step_results, pending_callback_step_id, status, last_cap>>

\* Mutant of ApplyReplan: results the new plan does not name are all dropped.
ApplyReplan_PurgeResults(p) ==
  /\ plan_revision > 0
  /\ plan_revision < MaxRevisions
  /\ plan' = [i \in DOMAIN completed_steps |-> completed_steps[i].step] \o p
  /\ plan_revision' = plan_revision + 1
  /\ step_results' = [id \in StepId |->
                        IF id \in Ids(p) THEN step_results[id] ELSE "none"]
  /\ pending_callback_step_id' = NoStep
  /\ UNCHANGED <<status, last_cap>>

\* _apply_replan: the completed steps stay in front, sentinels the new plan
\* does not name are dropped, the pending callback is forgotten.
ApplyReplan(p) ==
  /\ plan_revision > 0
  /\ IF plan_revision >= MaxRevisions
     THEN /\ EmitSafetyCap("max_plan_revisions")
          /\ UNCHANGED <<plan, plan_revision, step_results, pending_callback_step_id>>
     ELSE /\ plan' = [i \in DOMAIN completed_steps |-> completed_steps[i].step] \o p
          /\ plan_revision' = plan_revision + 1
          /\ step_results' = [id \in StepId |->
                                IF id \in CompletedIds \cup Ids(p)
                                THEN step_results[id] ELSE "none"]
          /\ pending_callback_step_id' = NoStep
          /\ UNCHANGED <<status, last_cap>>

SubmitPlan(p, bad_token) ==
  /\ ParserAccepts(p)
  /\ Decided
  /\ \/ /\ bad_token \/ Collides(p)
        /\ HandleSemanticFailure
        /\ UNCHANGED <<plan, plan_revision, step_results, pending_callback_step_id>>
     \/ /\ ~bad_token
        /\ ~Collides(p)
        /\ planning_semantic_failures' = 0
        /\ NotSemanticFailure
        /\ InitialPlan(p) \/ ApplyReplan(p)
  /\ UNCHANGED <<completed_steps, total_steps_executed, eop_stall_count, resolved>>

\* continue_plan while every step is done: the stall guard.
ContinueAtEndOfPlan ==
  /\ Decided
  /\ NotSemanticFailure
  /\ plan_revision > 0
  /\ AllStepsDone
  /\ pending_callback_step_id = NoStep
  /\ eop_stall_count' = IF eop_stall_count = 3 THEN 3 ELSE eop_stall_count + 1
  /\ IF eop_stall_count' >= 3
     THEN EmitSafetyCap("eop_stall")
     ELSE UNCHANGED <<status, last_cap>>
  /\ UNCHANGED <<plan, plan_revision, step_results, completed_steps,
                 total_steps_executed, pending_callback_step_id,
                 planning_semantic_failures, resolved>>

\* The step a resolved callback is recorded with: its own (two steps of a plan
\* that have the same id are the same step), or plan[0].
PendingStep ==
  IF pending_callback_step_id \in Ids(plan)
  THEN CHOOSE s \in PlanSteps : s.id = pending_callback_step_id
  ELSE plan[1]

\* continue_plan while a callback step is pending resolves it.
ResolveCallback ==
  /\ Decided
  /\ NotSemanticFailure
  /\ plan_revision > 0
  /\ pending_callback_step_id # NoStep
  /\ step_results' = [step_results EXCEPT ![pending_callback_step_id] = "resolved"]
  /\ Complete(<<[step |-> PendingStep, result |-> "resolved"]>>)
  /\ pending_callback_step_id' = NoStep
  /\ resolved' = resolved + 1
  /\ UNCHANGED <<plan, plan_revision, eop_stall_count,
                 planning_semantic_failures, status, last_cap>>

\* continue_plan with nothing ready, nothing pending and the plan not done: the
\* turn returns None and the next one asks the model again.
ContinueForNothing ==
  /\ Decided
  /\ NotSemanticFailure
  /\ plan_revision > 0
  /\ ~AllStepsDone
  /\ pending_callback_step_id = NoStep
  /\ UNCHANGED <<plan_state, planning_semantic_failures, status, resolved, last_cap>>

\* amend_plan, and in PLAN also continue_plan, raise out of the run.
UnsupportedDecision ==
  /\ Decided
  /\ NotSemanticFailure
  /\ status' = "raised"
  /\ UNCHANGED <<plan_state, planning_semantic_failures, resolved, last_cap>>

\* A `callback` decision: rejected in REFLECT at the end of a plan with failed
\* steps, dispatched otherwise (only REFLECT resets the semantic counter).
Callback ==
  /\ Decided
  /\ \/ /\ plan_revision > 0 /\ AllStepsDone /\ SomeStepFailed
        /\ HandleSemanticFailure
     \/ /\ ~(plan_revision > 0 /\ AllStepsDone /\ SomeStepFailed)
        /\ NotSemanticFailure
        /\ planning_semantic_failures' = IF plan_revision > 0 THEN 0
                                         ELSE planning_semantic_failures
        /\ status' \in DispatchOutcomes
        /\ UNCHANGED last_cap
  /\ UNCHANGED <<plan_state, resolved>>

\* Any other decision (call_tool, call_subagent, invoke_skill, ...).
OtherDecision ==
  /\ Decided
  /\ NotSemanticFailure
  /\ status' \in DispatchOutcomes
  /\ UNCHANGED <<plan_state, planning_semantic_failures, resolved, last_cap>>

(***************************************************************************)
(* EXECUTE: _execute_phase, without any model call.                        *)
(***************************************************************************)

Executing == /\ status = "running"
             /\ turn = "head"
             /\ plan_revision > 0
             /\ ReadyBatch # {}

BelowStepCap == total_steps_executed < MaxSteps

MaxStepsCap ==
  /\ Executing
  /\ ~BelowStepCap
  /\ EmitSafetyCap("max_steps")
  /\ UNCHANGED <<plan_state, counters, threads, started, resolved, semantic_streak>>

\* _dispatch_step of a callback step: the sentinel, and the pending marker.
ParkCallback(s) ==
  /\ s.kind = "callback"
  /\ step_results' = [step_results EXCEPT ![s.id] = "pending"]
  /\ pending_callback_step_id' = s.id
  /\ UNCHANGED <<completed_steps, total_steps_executed, started>>

\* A batch of one step runs on the loop's own thread, start to end.
Alone(s) == /\ Executing
            /\ BelowStepCap
            /\ ReadyBatch = {s}

DispatchAlone(s) ==
  /\ Alone(s)
  /\ \/ ParkCallback(s)
     \/ /\ s.kind = "work"
        /\ started' = [started EXCEPT ![s.id] = @ + 1]
        /\ \E r \in {"ok", "error"} :
             /\ step_results' = [step_results EXCEPT ![s.id] = r]
             /\ Complete(<<[step |-> s, result |-> r]>>)
        /\ UNCHANGED pending_callback_step_id
  /\ UNCHANGED <<plan, plan_revision, eop_stall_count, counters, status, threads,
                 resolved, last_cap, semantic_streak>>

\* _resolve_step_parameters is called outside the try of _dispatch_step: what a
\* resolver raises leaves the turn, and Agent.run.
ResolveAloneRaises(s) ==
  /\ ResolverRaises
  /\ Alone(s)
  /\ status' = "raised"
  /\ UNCHANGED <<plan_state, counters, threads, started, resolved, last_cap,
                 semantic_streak>>

\* _dispatch_parallel_batch: one worker thread per step, then wait.
DispatchBatch ==
  /\ Executing
  /\ BelowStepCap
  /\ Cardinality(ReadyBatch) > 1
  /\ batch' = ReadyBatch
  /\ worker' = [id \in StepId |-> IF id \in {s.id : s \in ReadyBatch}
                                  THEN "resolving" ELSE "idle"]
  /\ turn' = "wait"
  /\ UNCHANGED <<plan_state, counters, status, outcome, late, expiring, started,
                 resolved, last_cap, semantic_streak>>

\* A worker has the parameters of its step and starts its work, late or not.
WorkerStart(s) ==
  /\ s \in batch /\ s.kind = "work" /\ worker[s.id] = "resolving"
  /\ worker' = [worker EXCEPT ![s.id] = "running"]
  /\ started' = [started EXCEPT ![s.id] = @ + 1]
  /\ UNCHANGED <<plan_state, counters, status, turn, batch, outcome, late, expiring,
                 resolved, last_cap, semantic_streak>>

\* The resolver raises: the future is done, nothing is stored, recorded or counted
\* (the loop thread logs the exception), and the step is ready as before.
WorkerRaises(s) ==
  /\ ResolverRaises
  /\ s \in batch /\ worker[s.id] = "resolving"
  /\ worker' = [worker EXCEPT ![s.id] = "finished"]
  /\ UNCHANGED <<plan_state, counters, status, turn, batch, outcome, late, expiring,
                 started, resolved, last_cap, semantic_streak>>

\* A worker's work returns or raises; it stores the result under the step's id.
WorkerStore(s) ==
  /\ s \in batch /\ s.kind = "work" /\ worker[s.id] = "running"
  /\ \E r \in {"ok", "error"} :
       /\ step_results' = [step_results EXCEPT ![s.id] = r]
       /\ outcome' = [outcome EXCEPT ![s.id] = r]
  /\ worker' = [worker EXCEPT ![s.id] = "stored"]
  /\ UNCHANGED <<plan, plan_revision, completed_steps, total_steps_executed,
                 pending_callback_step_id, eop_stall_count, counters, status, turn,
                 batch, late, expiring, started, resolved, last_cap, semantic_streak>>

\* It appends its CompletedStep and adds one to the total (no call lies between
\* the two that could yield the interpreter, and nobody reads the total now).
WorkerRecord(s) ==
  /\ s \in batch /\ worker[s.id] = "stored"
  /\ Complete(<<[step |-> s, result |-> outcome[s.id]]>>)
  /\ worker' = [worker EXCEPT ![s.id] = "recorded"]
  /\ UNCHANGED <<plan, plan_revision, step_results, pending_callback_step_id,
                 eop_stall_count, counters, status, turn, batch, outcome, late,
                 expiring, started, resolved, last_cap, semantic_streak>>

\* A worker whose step is a callback stores the sentinel and returns.
WorkerPark(s) ==
  /\ s \in batch /\ worker[s.id] = "resolving"
  /\ ParkCallback(s)
  /\ worker' = [worker EXCEPT ![s.id] = "recorded"]
  /\ UNCHANGED <<plan, plan_revision, eop_stall_count, counters, status, turn,
                 batch, outcome, late, expiring, resolved, last_cap, semantic_streak>>

\* Its future is done.
WorkerReturn(s) ==
  /\ s \in batch /\ worker[s.id] = "recorded"
  /\ worker' = [worker EXCEPT ![s.id] = "finished"]
  /\ UNCHANGED <<plan_state, counters, status, turn, batch, outcome, late,
                 expiring, started, resolved, last_cap, semantic_streak>>

AllReturned == \A s \in batch : worker[s.id] = "finished"

\* _futures_wait returns, with every future done or because the timeout passed.
WaitReturns ==
  /\ status = "running"
  /\ turn = "wait"
  /\ AllReturned \/ StepTimeout > 0
  /\ late' = {s \in batch : worker[s.id] # "finished"}
  /\ turn' = "expire"
  /\ UNCHANGED <<plan_state, counters, status, batch, worker, outcome, expiring,
                 started, resolved, last_cap, semantic_streak>>

\* The loop thread replaces the result of a step that is not done ...
ExpireStore(s) ==
  /\ turn = "expire"
  /\ s \in late
  /\ expiring = {}
  /\ expiring' = {s}
  /\ step_results' = [step_results EXCEPT ![s.id] = "timed_out"]
  /\ UNCHANGED <<plan, plan_revision, completed_steps, total_steps_executed,
                 pending_callback_step_id, eop_stall_count, counters, status, turn,
                 batch, worker, outcome, late, started, resolved, last_cap,
                 semantic_streak>>

\* ... and then records and counts it as timed out.
ExpireRecord(s) ==
  /\ turn = "expire"
  /\ expiring = {s}
  /\ Complete(<<[step |-> s, result |-> "timed_out"]>>)
  /\ expiring' = {}
  /\ late' = late \ {s}
  /\ UNCHANGED <<plan, plan_revision, step_results, pending_callback_step_id,
                 eop_stall_count, counters, status, turn, batch, worker, outcome,
                 started, resolved, last_cap, semantic_streak>>

\* Mutant of LeaveBatch: not_done futures are abandoned without a record.
LeaveBatch_Abandon ==
  /\ turn = "expire"
  /\ turn' = "head"
  /\ batch' = {}
  /\ late' = {}
  /\ worker' = [id \in StepId |-> "idle"]
  /\ UNCHANGED <<plan_state, counters, status, outcome, expiring, started,
                 resolved, last_cap, semantic_streak>>

\* Leaving the `with` block waits for every worker thread, late or not.
LeaveBatch ==
  /\ turn = "expire"
  /\ late = {}
  /\ AllReturned
  /\ turn' = "head"
  /\ batch' = {}
  /\ worker' = [id \in StepId |-> "idle"]
  /\ UNCHANGED <<plan_state, counters, status, outcome, late, expiring, started,
                 resolved, last_cap, semantic_streak>>

(***************************************************************************)
(* The specification.                                                      *)
(***************************************************************************)

Init ==
  /\ plan = <<>>
  /\ plan_revision = 0
  /\ step_results = [id \in StepId |-> "none"]
  /\ completed_steps = <<>>
  /\ total_steps_executed = 0
  /\ pending_callback_step_id = NoStep
  /\ eop_stall_count = 0
  /\ planning_semantic_failures = 0
  /\ consecutive_validation_failures = 0
  /\ status = "running"
  /\ turn = "head"
  /\ batch = {}
  /\ worker = [id \in StepId |-> "idle"]
  /\ outcome = [id \in StepId |-> "ok"]
  /\ late = {}
  /\ expiring = {}
  /\ started = [id \in StepId |-> 0]
  /\ resolved = 0
  /\ last_cap = "none"
  /\ semantic_streak = 0

\* Turns that ask the model.
ModelTurn ==
  \/ InvalidDecision
  \/ ModelCallFails
  \/ FinalMessage
  \/ \E p \in Plans, bad_token \in BOOLEAN : SubmitPlan(p, bad_token)
  \/ ContinueAtEndOfPlan
  \/ ResolveCallback
  \/ ContinueForNothing
  \/ UnsupportedDecision
  \/ Callback
  \/ OtherDecision

\* What the loop thread does by itself.
LoopThread ==
  \/ MaxStepsCap
  \/ \E s \in ReadyBatch : DispatchAlone(s) \/ ResolveAloneRaises(s)
  \/ DispatchBatch
  \/ WaitReturns
  \/ \E s \in late : ExpireStore(s)
  \/ \E s \in expiring : ExpireRecord(s)
  \/ LeaveBatch

\* What a worker thread does before and after its tool, subagent or skill.
WorkerBookkeeping(s) == \/ WorkerStart(s) \/ WorkerRaises(s) \/ WorkerPark(s)
                        \/ WorkerRecord(s) \/ WorkerReturn(s)

\* The run is over.
Ended == status # "running" /\ UNCHANGED vars

Next ==
  \/ ModelTurn
  \/ LoopThread
  \/ \E s \in batch : WorkerStore(s) \/ WorkerBookkeeping(s)
  \/ Ended

Spec == Init /\ [][Next]_vars

\* The loop thread and the threads' own bookkeeping are never starved.
ThreadFairness ==
  /\ WF_vars(LoopThread)
  /\ WF_vars(\E s \in batch : WorkerBookkeeping(s))

\* Tools, subagents and skills come back at last.  No fairness is assumed of the model.
FairSpec == Spec /\ ThreadFairness /\ WF_vars(\E s \in batch : WorkerStore(s))

(***************************************************************************)
(* Properties.                                                             *)
(***************************************************************************)

\* The types of the variables; the revision never passes its cap.
TypeOK ==
  /\ plan \in Seq(Step)
  /\ plan_revision \in 0..MaxRevisions
  /\ step_results \in [StepId -> Results \cup {"none", "pending"}]
  /\ completed_steps \in Seq(Record)
  /\ total_steps_executed \in Nat
  /\ pending_callback_step_id \in StepId \cup {NoStep}
  /\ eop_stall_count \in 0..3
  /\ planning_semantic_failures \in 0..1
  /\ consecutive_validation_failures \in 0..1
  /\ status \in Statuses
  /\ turn \in {"head", "wait", "expire"}
  /\ batch \subseteq Step
  /\ worker \in [StepId -> WorkerPcs]
  /\ outcome \in [StepId -> {"ok", "error"}]
  /\ late \subseteq batch
  /\ expiring \subseteq late
  /\ started \in [StepId -> Nat]
  /\ resolved \in Nat
  /\ last_cap \in Caps \cup {"none"}
  /\ semantic_streak \in 0..2

\* The history is causal: every step that was ever recorded comes after all the
\* steps it depends on, whatever replans, timeouts and thread interleavings lie
\* between (_select_ready_batch, _dispatch_step, _apply_replan).
DependenciesFirst ==
  \A i \in DOMAIN completed_steps :
    completed_steps[i].step.deps
      \subseteq {completed_steps[j].step.id : j \in 1..(i - 1)}

\* The work of a step is started at most once in a run: neither a replan nor a
\* timeout makes a tool or subagent run twice (_select_ready_batch looks at
\* step_results, _validate_submit_plan refuses completed ids).
WorkStartedOnce == \A id \in StepId : started[id] <= 1

\* Completed steps are immutable history (_apply_replan): records are only
\* appended, and the id of a recorded step keeps a result for {{token}}s.
HistoryImmutable ==
  [][/\ Len(completed_steps) <= Len(completed_steps')
     /\ \A i \in DOMAIN completed_steps : completed_steps'[i] = completed_steps[i]
     /\ \A id \in CompletedIds : step_results'[id] # "none"]_vars

Recorded(id, r) ==
  \E i \in DOMAIN completed_steps :
    completed_steps[i].step.id = id /\ completed_steps[i].result = r

\* Between turns the log and the result table tell the same story: what {{token}}
\* references see was recorded for its step, and a step has two records only if it
\* timed out, one for that and one for the worker or the answer that came later.
ResultsMatchHistory ==
  turn = "head" =>
    /\ \A id \in StepId :
         step_results[id] \in Results => Recorded(id, step_results[id])
    /\ \A i, j \in DOMAIN completed_steps :
         i # j /\ completed_steps[i].step.id = completed_steps[j].step.id
           => /\ "timed_out" \in {completed_steps[i].result, completed_steps[j].result}
              /\ completed_steps[i].result # completed_steps[j].result

\* total_steps_executed counts each started piece of work, each resolved callback and,
\* on top of the work it gave up on, each timeout once (PlanState, "Cumulative count of
\* step executions").
TotalCountsExecutions ==
  turn = "head" =>
    total_steps_executed = Cardinality({id \in StepId : started[id] > 0}) + resolved
                             + Cardinality({id \in StepId : Recorded(id, "timed_out")})

\* REFLECT is entered only at the end of the plan or to answer a pending
\* callback: an unfinished plan with nothing pending always has a ready step,
\* so continue_plan always makes the plan go on.
PlanNeverStuck ==
  turn = "head" /\ plan_revision > 0 /\ ~AllStepsDone
    /\ pending_callback_step_id = NoStep
  => ReadyBatch # {}

\* Executing a plan needs no model call and comes to its end: once steps are
\* ready the loop reaches a point where the model is asked, or the run ends.
\* Nothing but a resolver that raises again and again in its worker thread keeps it
\* from that: such a step is neither recorded nor counted, and is dispatched for ever.
PlanRunsByItself ==
  \/ plan_revision > 0 ~> (AwaitingDecision \/ status # "running")
  \/ []<><<\E s \in batch : WorkerRaises(s)>>_vars

(***************************************************************************)
(* The life of each step, as StepLifecycle sees it.                        *)
(***************************************************************************)

\* The work of a step was started and is not recorded yet, or its result is being
\* replaced by a timeout before that.  A step whose parameters are resolved is
\* still planned: if the resolver raises, it stays so.
InFlight(id) == \E s \in batch :
                  /\ s.id = id
                  /\ \/ worker[id] \in {"running", "stored"}
                     \/ worker[id] = "resolving" /\ s \in expiring

Stage == [id \in StepId |->
            IF id \in CompletedIds THEN "done"
            ELSE IF InFlight(id) THEN "running"
            ELSE IF step_results[id] # "none" THEN "waiting"
            ELSE IF id \in Ids(plan) THEN "planned"
            ELSE "absent"]

Lifecycle == INSTANCE StepLifecycle WITH stage <- Stage, over <- (status # "running")

\* The driver implements the promise of StepLifecycle.
ImplementsLifecycle == Lifecycle!Spec

=============================================================================
