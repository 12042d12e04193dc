------------------------ MODULE PlanningDriver_proofs ------------------------
(***************************************************************************)
(* Proofs about PlanningDriver, for every set of step ids and plans, every *)
(* configuration and every kind of caller: its invariants, and, at the end, *)
(* that it implements StepLifecycle.                                       *)
(***************************************************************************)
EXTENDS PlanningDriver, SequenceTheorems, FiniteSetTheorems, WellFoundedInduction, TLAPS

(***************************************************************************)
(* The inductive invariant.                                                *)
(***************************************************************************)

\* The plan, its history and what is pending or in flight fit together: ids
\* name steps, no recorded step has left the plan, and whatever runs or waits
\* had its dependencies recorded.
PlanInv ==
  /\ \A s, t \in PlanSteps : s.id = t.id => s = t
  /\ \A i \in DOMAIN completed_steps : completed_steps[i].step \in PlanSteps
  /\ batch \subseteq PlanSteps
  /\ \A s \in batch : s.deps \subseteq CompletedIds
  /\ turn = "head" => batch = {}
  /\ turn # "expire" => late = {}
  /\ pending_callback_step_id # NoStep =>
       \E s \in PlanSteps : /\ s.id = pending_callback_step_id
                            /\ s.deps \subseteq CompletedIds
  /\ plan_revision = 0 => plan = <<>>

\* A step whose work was started is recorded, or its worker has yet to record
\* it, and a worker that has no parameters yet has started nothing; the result table knows every step that is recorded, or about to be.
WorkInv ==
  /\ \A id \in StepId : started[id] > 0 =>
       \/ id \in CompletedIds
       \/ \E s \in batch : s.id = id /\ worker[id] \in {"running", "stored"}
  /\ \A s \in batch : worker[s.id] = "resolving" => started[s.id] = 0
  /\ \A id \in CompletedIds : step_results[id] # "none"
  /\ \A s \in batch : worker[s.id] = "stored" => step_results[s.id] # "none"
  /\ \A s \in expiring : step_results[s.id] # "none"

IInv == TypeOK /\ PlanInv /\ DependenciesFirst /\ WorkInv /\ WorkStartedOnce

-----------------------------------------------------------------------------
\* Facts about the helpers.

LEMMA RecordType == \A s \in Step, r \in Results : [step |-> s, result |-> r] \in Record
BY DEF Record

\* What the selection of the ready batch returns.
LEMMA ReadyBatchFacts ==
  ASSUME TypeOK, NEW s \in ReadyBatch
  PROVE  /\ s \in Step
         /\ s \in PlanSteps
         /\ step_results[s.id] = "none"
         /\ s.deps \subseteq CompletedIds
<1>1. PICK i \in DOMAIN plan : /\ plan[i] = s
                               /\ step_results[plan[i].id] = "none"
                               /\ plan[i].deps \subseteq CompletedIds
  BY DEF ReadyBatch
<1>2. plan[i] \in Step
  BY <1>1 DEF TypeOK
<1>. QED  BY <1>1, <1>2 DEF PlanSteps

\* What appending one record does to the history.
LEMMA CompleteOne ==
  ASSUME TypeOK, NEW s \in Step, NEW r \in Results,
         Complete(<<[step |-> s, result |-> r]>>)
  PROVE  /\ completed_steps' \in Seq(Record)
         /\ total_steps_executed' = total_steps_executed + 1
         /\ Len(completed_steps') = Len(completed_steps) + 1
         /\ \A i \in DOMAIN completed_steps :
              i \in DOMAIN completed_steps' /\ completed_steps'[i] = completed_steps[i]
         /\ completed_steps'[Len(completed_steps) + 1] = [step |-> s, result |-> r]
         /\ CompletedIds' = CompletedIds \cup {s.id}
<1> DEFINE rec == [step |-> s, result |-> r]
<1>1. rec \in Record /\ rec.step = s
  BY RecordType DEF Record
<1>2. completed_steps' = completed_steps \o <<rec>> /\ completed_steps \in Seq(Record)
  BY DEF Complete, TypeOK
<1> HIDE DEF rec
<1>3. /\ completed_steps' \in Seq(Record)
      /\ Len(completed_steps') = Len(completed_steps) + 1
      /\ \A i \in DOMAIN completed_steps :
           i \in DOMAIN completed_steps' /\ completed_steps'[i] = completed_steps[i]
      /\ completed_steps'[Len(completed_steps) + 1] = rec
      /\ DOMAIN completed_steps' = DOMAIN completed_steps \cup {Len(completed_steps) + 1}
  BY <1>1, <1>2
<1>4. CompletedIds' = CompletedIds \cup {s.id}
  BY <1>1, <1>3 DEF CompletedIds
<1>5. total_steps_executed' = total_steps_executed + 1
  BY DEF Complete
<1>. QED  BY <1>3, <1>4, <1>5 DEF rec

-----------------------------------------------------------------------------
\* Type correctness.

LEMMA InitType == Init => TypeOK
BY ConfigAssumption DEF Init, TypeOK, Statuses, WorkerPcs

\* Sequences handed to the driver by the model are sequences of steps.
LEMMA PlanType == \A p \in Plans : p \in Seq(Step)
BY ConfigAssumption

\* The outcomes of a cap and of a dispatched decision are run statuses.
LEMMA OutcomeTypes == CapOutcomes \subseteq Statuses /\ DispatchOutcomes \subseteq Statuses
BY ConfigAssumption DEF CapOutcomes, DispatchOutcomes, AfterHooks, Statuses, Callers

LEMMA CapType == ASSUME NEW cap \in Caps, EmitSafetyCap(cap)
                 PROVE  status' \in Statuses /\ last_cap' \in Caps
BY OutcomeTypes DEF EmitSafetyCap

LEMMA SemanticFailureType ==
  ASSUME TypeOK, HandleSemanticFailure
  PROVE  /\ status' \in Statuses
         /\ last_cap' \in Caps \cup {"none"}
         /\ semantic_streak' \in 0..2
         /\ planning_semantic_failures' \in 0..1
<1>1. CASE planning_semantic_failures + 1 >= 2
  <2>1. EmitSafetyCap("planning_semantic_validation")
    BY <1>1 DEF HandleSemanticFailure
  <2>2. status' \in Statuses /\ last_cap' \in Caps
    BY <2>1, CapType DEF Caps
  <2>. QED  BY <1>1, <2>2 DEF HandleSemanticFailure, TypeOK
<1>2. CASE ~(planning_semantic_failures + 1 >= 2)
  BY <1>2 DEF HandleSemanticFailure, TypeOK
<1>. QED  BY <1>1, <1>2

\* The plan a replan builds is a sequence of steps.
LEMMA MergedPlan ==
  ASSUME TypeOK, NEW p \in Seq(Step)
  PROVE  LET done == [i \in DOMAIN completed_steps |-> completed_steps[i].step]
         IN  /\ done \in Seq(Step)
             /\ done \o p \in Seq(Step)
             /\ \A i \in DOMAIN completed_steps :
                  i \in DOMAIN (done \o p) /\ (done \o p)[i] = completed_steps[i].step
             /\ \A i \in DOMAIN (done \o p) :
                  \/ i \in DOMAIN completed_steps
                  \/ \E j \in DOMAIN p : (done \o p)[i] = p[j]
             /\ Ids(done \o p) = CompletedIds \cup Ids(p)
<1> DEFINE done == [i \in DOMAIN completed_steps |-> completed_steps[i].step]
<1>1. completed_steps \in Seq(Record) /\ \A r \in Record : r.step \in Step
  BY DEF TypeOK, Record
<1>2. done \in Seq(Step) /\ Len(done) = Len(completed_steps)
  BY <1>1
<1>3. DOMAIN done = DOMAIN completed_steps /\ \A i \in DOMAIN done : done[i] = completed_steps[i].step
  OBVIOUS
<1> DEFINE merged == done \o p
<1>4. /\ merged \in Seq(Step)
      /\ Len(merged) = Len(done) + Len(p)
      /\ \A i \in 1..Len(done) : merged[i] = done[i]
      /\ \A i \in Len(done) + 1 .. Len(merged) : merged[i] = p[i - Len(done)]
  BY <1>2
<1>5. \A j \in DOMAIN p : /\ Len(done) + j \in DOMAIN merged
                          /\ merged[Len(done) + j] = p[j]
  BY <1>2, <1>4
<1> HIDE DEF done, merged
<1>6. \A i \in DOMAIN merged : \/ i \in DOMAIN completed_steps
                               \/ \E j \in DOMAIN p : merged[i] = p[j]
  <2> TAKE i \in DOMAIN merged
  <2>1. CASE i \in 1..Len(done)
    BY <2>1, <1>2, <1>3
  <2>2. CASE i \notin 1..Len(done)
    <3>1. i \in Len(done) + 1 .. Len(merged) /\ i - Len(done) \in DOMAIN p
      BY <2>2, <1>2, <1>4
    <3>. QED  BY <3>1, <1>4
  <2>. QED  BY <2>1, <2>2
<1>7. \A i \in DOMAIN completed_steps : i \in DOMAIN merged /\ merged[i] = completed_steps[i].step
  BY <1>2, <1>3, <1>4
<1>8. Ids(merged) = CompletedIds \cup Ids(p)
  <2>1. Ids(merged) \subseteq CompletedIds \cup Ids(p)
    BY <1>6, <1>7 DEF Ids, CompletedIds
  <2>2. CompletedIds \subseteq Ids(merged)
    BY <1>7 DEF Ids, CompletedIds
  <2>3. Ids(p) \subseteq Ids(merged)
    BY <1>5 DEF Ids
  <2>. QED  BY <2>1, <2>2, <2>3
<1>. QED  BY <1>2, <1>4, <1>6, <1>7, <1>8 DEF done, merged

\* The step a callback is resolved with is the pending one.
LEMMA PendingStepFacts ==
  ASSUME TypeOK, PlanInv, pending_callback_step_id # NoStep
  PROVE  /\ PendingStep \in Step
         /\ PendingStep \in PlanSteps
         /\ PendingStep.id = pending_callback_step_id
         /\ PendingStep.deps \subseteq CompletedIds
<1>1. PICK s \in PlanSteps : /\ s.id = pending_callback_step_id
                             /\ s.deps \subseteq CompletedIds
  BY DEF PlanInv
<1>2. pending_callback_step_id \in Ids(plan)
  BY <1>1 DEF PlanSteps, Ids
<1>3. PendingStep \in PlanSteps /\ PendingStep.id = pending_callback_step_id
  BY <1>1, <1>2, Zenon DEF PendingStep
<1>4. PendingStep = s
  BY <1>1, <1>3 DEF PlanInv
<1>5. PlanSteps \subseteq Step
  BY DEF PlanSteps, TypeOK
<1>. QED  BY <1>1, <1>3, <1>4, <1>5

\* Every step keeps the types: one step of the proof per action.
LEMMA TypeStep == TypeOK /\ PlanInv /\ [Next]_vars => TypeOK'
<1> SUFFICES ASSUME TypeOK, PlanInv, [Next]_vars PROVE TypeOK'
  OBVIOUS
<1> USE DEF plan_state, threads, counters
<1>1. CASE InvalidDecision
  <2>1. status' \in Statuses /\ last_cap' \in Caps \cup {"none"}
    BY <1>1, CapType DEF InvalidDecision, TypeOK, Caps
  <2>2. consecutive_validation_failures' \in 0..1
    BY <1>1 DEF InvalidDecision, TypeOK
  <2>. QED  BY <1>1, <2>1, <2>2 DEF InvalidDecision, TypeOK
<1>2. CASE ModelCallFails
  BY <1>2 DEF ModelCallFails, TypeOK, Statuses
<1>3. CASE FinalMessage
  BY <1>3 DEF FinalMessage, AfterHooks, Decided, NotSemanticFailure, TypeOK, Statuses
<1>4. ASSUME NEW p \in Plans, NEW bad_token \in BOOLEAN, SubmitPlan(p, bad_token)
      PROVE  TypeOK'
  <2>1. p \in Seq(Step)
    BY PlanType
  <2>2. CASE HandleSemanticFailure /\ UNCHANGED <<plan, plan_revision, step_results, pending_callback_step_id>>
    <3>1. /\ status' \in Statuses
          /\ last_cap' \in Caps \cup {"none"}
          /\ semantic_streak' \in 0..2
          /\ planning_semantic_failures' \in 0..1
      BY <2>2, SemanticFailureType
    <3>. QED  BY <1>4, <2>2, <3>1 DEF SubmitPlan, Decided, TypeOK
  <2>3. CASE planning_semantic_failures' = 0 /\ NotSemanticFailure /\ InitialPlan(p)
    BY <1>4, <2>1, <2>3, ConfigAssumption
    DEF SubmitPlan, Decided, TypeOK, NotSemanticFailure, InitialPlan
  <2>4. CASE planning_semantic_failures' = 0 /\ NotSemanticFailure /\ ApplyReplan(p)
    <3>1. /\ status' \in Statuses
          /\ last_cap' \in Caps \cup {"none"}
      BY <2>4, CapType DEF ApplyReplan, TypeOK, Caps
    <3>2. plan' \in Seq(Step)
      BY <2>1, <2>4, MergedPlan DEF ApplyReplan, TypeOK
    <3>3. plan_revision' \in 0..MaxRevisions
      BY <2>4, ConfigAssumption DEF ApplyReplan, TypeOK
    <3>4. step_results' \in [StepId -> Results \cup {"none", "pending"}]
      BY <2>4 DEF ApplyReplan, TypeOK
    <3>5. pending_callback_step_id' \in StepId \cup {NoStep}
      BY <2>4 DEF ApplyReplan, TypeOK
    <3>. QED  BY <1>4, <2>4, <3>1, <3>2, <3>3, <3>4, <3>5
              DEF SubmitPlan, Decided, TypeOK, NotSemanticFailure
  <2>. QED  BY <1>4, <2>2, <2>3, <2>4 DEF SubmitPlan
<1>5. CASE ContinueAtEndOfPlan
  <2>1. status' \in Statuses /\ last_cap' \in Caps \cup {"none"}
    BY <1>5, CapType DEF ContinueAtEndOfPlan, TypeOK, Caps
  <2>. QED  BY <1>5, <2>1 DEF ContinueAtEndOfPlan, Decided, NotSemanticFailure, TypeOK
<1>6. CASE ResolveCallback
  <2>1. PendingStep \in Step
    BY <1>6, PendingStepFacts DEF ResolveCallback
  <2>2. Complete(<<[step |-> PendingStep, result |-> "resolved"]>>) /\ "resolved" \in Results
    BY <1>6 DEF ResolveCallback, Results
  <2>3. completed_steps' \in Seq(Record) /\ total_steps_executed' \in Nat
    BY <2>1, <2>2, CompleteOne DEF TypeOK
  <2>4. step_results' \in [StepId -> Results \cup {"none", "pending"}]
    BY <1>6 DEF ResolveCallback, TypeOK, Results
  <2>. QED  BY <1>6, <2>3, <2>4 DEF ResolveCallback, Decided, NotSemanticFailure, TypeOK
<1>7. CASE ContinueForNothing
  BY <1>7 DEF ContinueForNothing, Decided, NotSemanticFailure, TypeOK
<1>8. CASE UnsupportedDecision
  BY <1>8 DEF UnsupportedDecision, Decided, NotSemanticFailure, TypeOK, Statuses
<1>9. CASE Callback
  <2>1. CASE HandleSemanticFailure
    BY <1>9, <2>1, SemanticFailureType DEF Callback, Decided, TypeOK
  <2>2. CASE ~HandleSemanticFailure
    BY <1>9, <2>2, OutcomeTypes DEF Callback, Decided, NotSemanticFailure, TypeOK
  <2>. QED  BY <2>1, <2>2
<1>10. CASE OtherDecision
  BY <1>10, OutcomeTypes DEF OtherDecision, Decided, NotSemanticFailure, TypeOK
<1>11. CASE MaxStepsCap
  BY <1>11, CapType DEF MaxStepsCap, TypeOK, Caps
<1>12. ASSUME NEW s \in ReadyBatch, DispatchAlone(s)
       PROVE  TypeOK'
  <2>1. s \in Step
    BY ReadyBatchFacts
  <2>2. CASE ParkCallback(s)
    BY <1>12, <2>1, <2>2 DEF DispatchAlone, ParkCallback, TypeOK, Step
  <2>3. CASE s.kind = "work"
    <3>1. PICK r \in {"ok", "error"} : /\ step_results' = [step_results EXCEPT ![s.id] = r]
                                       /\ Complete(<<[step |-> s, result |-> r]>>)
                                       /\ started' = [started EXCEPT ![s.id] = @ + 1]
                                       /\ UNCHANGED pending_callback_step_id
      BY <1>12, <2>3 DEF DispatchAlone, ParkCallback
    <3>2. r \in Results /\ s.id \in StepId
      BY <2>1 DEF Results, Step
    <3>3. completed_steps' \in Seq(Record) /\ total_steps_executed' \in Nat
      BY <2>1, <3>1, <3>2, CompleteOne DEF TypeOK
    <3>. QED  BY <1>12, <3>1, <3>2, <3>3 DEF DispatchAlone, TypeOK
  <2>. QED  BY <1>12, <2>2, <2>3 DEF DispatchAlone
<1>13. CASE DispatchBatch
  <2>1. ReadyBatch \subseteq Step
    BY ReadyBatchFacts
  <2>2. late = {} /\ expiring = {}
    BY <1>13 DEF DispatchBatch, Executing, PlanInv, TypeOK
  <2>3. worker' \in [StepId -> WorkerPcs]
    BY <1>13 DEF DispatchBatch, WorkerPcs
  <2>. QED  BY <1>13, <2>1, <2>2, <2>3 DEF DispatchBatch, TypeOK
<1>14. ASSUME NEW s \in batch, WorkerStore(s)
       PROVE  TypeOK'
  <2>1. s.id \in StepId
    BY DEF TypeOK, Step
  <2>2. step_results' \in [StepId -> Results \cup {"none", "pending"}]
    BY <1>14, <2>1 DEF WorkerStore, TypeOK, Results
  <2>3. outcome' \in [StepId -> {"ok", "error"}] /\ worker' \in [StepId -> WorkerPcs]
    BY <1>14, <2>1 DEF WorkerStore, TypeOK, WorkerPcs
  <2>. QED  BY <1>14, <2>2, <2>3 DEF WorkerStore, TypeOK
<1>15. ASSUME NEW s \in batch, WorkerRecord(s)
       PROVE  TypeOK'
  <2>1. s \in Step /\ s.id \in StepId
    BY DEF TypeOK, Step
  <2>2. outcome[s.id] \in Results
    BY <2>1 DEF TypeOK, Results
  <2>3. completed_steps' \in Seq(Record) /\ total_steps_executed' \in Nat
    BY <1>15, <2>1, <2>2, CompleteOne DEF WorkerRecord, TypeOK
  <2>4. worker' \in [StepId -> WorkerPcs]
    BY <1>15, <2>1 DEF WorkerRecord, TypeOK, WorkerPcs
  <2>. QED  BY <1>15, <2>3, <2>4 DEF WorkerRecord, TypeOK
<1>16. ASSUME NEW s \in batch, WorkerPark(s)
       PROVE  TypeOK'
  <2>1. s \in Step /\ s.id \in StepId
    BY DEF TypeOK, Step
  <2>2. worker' \in [StepId -> WorkerPcs]
    BY <1>16, <2>1 DEF WorkerPark, TypeOK, WorkerPcs
  <2>. QED  BY <1>16, <2>1, <2>2 DEF WorkerPark, ParkCallback, TypeOK
<1>17. ASSUME NEW s \in batch, WorkerReturn(s)
       PROVE  TypeOK'
  <2>1. worker' \in [StepId -> WorkerPcs]
    BY <1>17 DEF WorkerReturn, TypeOK, WorkerPcs
  <2>. QED  BY <1>17, <2>1 DEF WorkerReturn, TypeOK
<1>18. CASE WaitReturns
  <2>1. expiring \subseteq late'
    BY <1>18 DEF WaitReturns, TypeOK, PlanInv
  <2>. QED  BY <1>18, <2>1 DEF WaitReturns, TypeOK
<1>19. ASSUME NEW s \in late, ExpireStore(s)
       PROVE  TypeOK'
  BY <1>19 DEF ExpireStore, TypeOK, Results, Step
<1>20. ASSUME NEW s \in expiring, ExpireRecord(s)
       PROVE  TypeOK'
  <2>1. s \in Step
    BY DEF TypeOK
  <2>2. Complete(<<[step |-> s, result |-> "timed_out"]>>) /\ "timed_out" \in Results
    BY <1>20 DEF ExpireRecord, Results
  <2>3. completed_steps' \in Seq(Record) /\ total_steps_executed' \in Nat
    BY <2>1, <2>2, CompleteOne DEF TypeOK
  <2>. QED  BY <1>20, <2>3 DEF ExpireRecord, TypeOK
<1>21. CASE LeaveBatch
  <2>1. worker' \in [StepId -> WorkerPcs]
    BY <1>21 DEF LeaveBatch, WorkerPcs
  <2>. QED  BY <1>21, <2>1 DEF LeaveBatch, TypeOK
<1>22. CASE UNCHANGED vars
  BY <1>22 DEF vars, TypeOK
<1>23. ASSUME NEW s \in ReadyBatch, ResolveAloneRaises(s)
       PROVE  TypeOK'
  BY <1>23 DEF ResolveAloneRaises, TypeOK, Statuses
<1>24. ASSUME NEW s \in batch, WorkerStart(s)
       PROVE  TypeOK'
  <2>1. s.id \in StepId
    BY DEF TypeOK, Step
  <2>2. started' \in [StepId -> Nat] /\ worker' \in [StepId -> WorkerPcs]
    BY <1>24, <2>1 DEF WorkerStart, TypeOK, WorkerPcs
  <2>. QED  BY <1>24, <2>2 DEF WorkerStart, TypeOK
<1>25. ASSUME NEW s \in batch, WorkerRaises(s)
       PROVE  TypeOK'
  <2>1. worker' \in [StepId -> WorkerPcs]
    BY <1>25 DEF WorkerRaises, TypeOK, WorkerPcs
  <2>. QED  BY <1>25, <2>1 DEF WorkerRaises, TypeOK
<1>. QED
  BY <1>1, <1>2, <1>3, <1>4, <1>5, <1>6, <1>7, <1>8, <1>9, <1>10, <1>11, <1>12, <1>13,
     <1>14, <1>15, <1>16, <1>17, <1>18, <1>19, <1>20, <1>21, <1>22, <1>23, <1>24, <1>25
  DEF Next, ModelTurn, LoopThread, WorkerBookkeeping, Ended

-----------------------------------------------------------------------------
(***************************************************************************)
(* The steps that matter.  Most turns only move counters and the status;   *)
(* what can disturb the rest of the invariant is a new plan, an answered   *)
(* callback, and the execution of steps.                                   *)
(***************************************************************************)

Quiet == UNCHANGED <<plan, plan_revision, step_results, completed_steps,
                     pending_callback_step_id, batch, worker, turn, late,
                     expiring, started, total_steps_executed, outcome, resolved>>

NewPlan(p) ==
  /\ status = "running" /\ status' = status
  /\ turn = "head"
  /\ ParserAccepts(p)
  /\ ~Collides(p)
  /\ plan_revision' > 0
  /\ \/ /\ plan_revision = 0
        /\ plan' = p
        /\ UNCHANGED <<step_results, pending_callback_step_id>>
     \/ /\ plan' = [i \in DOMAIN completed_steps |-> completed_steps[i].step] \o p
        /\ step_results' = [id \in StepId |->
                              IF id \in CompletedIds \cup Ids(p)
                              THEN step_results[id] ELSE "none"]
        /\ pending_callback_step_id' = NoStep
  /\ UNCHANGED <<completed_steps, batch, worker, turn, late, expiring, started,
                 total_steps_executed, outcome, resolved>>

LEMMA StepKinds ==
  ASSUME TypeOK, [Next]_vars
  PROVE  \/ Quiet
         \/ \E p \in Plans : NewPlan(p)
         \/ ResolveCallback
         \/ \E s \in ReadyBatch : DispatchAlone(s)
         \/ DispatchBatch
         \/ \E s \in batch : WorkerStart(s) \/ WorkerRaises(s) \/ WorkerStore(s)
                              \/ WorkerRecord(s) \/ WorkerPark(s) \/ WorkerReturn(s)
         \/ WaitReturns
         \/ \E s \in late : ExpireStore(s)
         \/ \E s \in expiring : ExpireRecord(s)
         \/ LeaveBatch
<1> USE DEF plan_state, threads, counters
<1>1. CASE InvalidDecision
  BY <1>1 DEF InvalidDecision, Quiet
<1>2. CASE ModelCallFails
  BY <1>2 DEF ModelCallFails, Quiet
<1>3. CASE FinalMessage
  BY <1>3 DEF FinalMessage, Decided, Quiet
<1>4. ASSUME NEW p \in Plans, NEW bad_token \in BOOLEAN, SubmitPlan(p, bad_token)
      PROVE  Quiet \/ NewPlan(p)
  <2>1. CASE UNCHANGED <<plan, plan_revision, step_results, pending_callback_step_id>>
    BY <1>4, <2>1 DEF SubmitPlan, Decided, Quiet
  <2>2. CASE ~Collides(p) /\ InitialPlan(p)
    BY <1>4, <2>2 DEF SubmitPlan, Decided, AwaitingDecision, InitialPlan, NewPlan
  <2>3. CASE ~Collides(p) /\ ApplyReplan(p) /\ plan_revision < MaxRevisions
    <3>1. plan_revision' > 0 /\ ~(plan_revision >= MaxRevisions)
      BY <2>3, ConfigAssumption DEF ApplyReplan, TypeOK
    <3>. QED  BY <1>4, <2>3, <3>1 DEF SubmitPlan, Decided, AwaitingDecision, ApplyReplan, NewPlan
  <2>4. CASE ApplyReplan(p) /\ ~(plan_revision < MaxRevisions)
    <3>1. plan_revision >= MaxRevisions
      BY <2>4, ConfigAssumption DEF TypeOK
    <3>. QED  BY <2>1, <2>4, <3>1 DEF ApplyReplan
  <2>. QED  BY <1>4, <2>1, <2>2, <2>3, <2>4 DEF SubmitPlan
<1>5. CASE ContinueAtEndOfPlan
  BY <1>5 DEF ContinueAtEndOfPlan, Decided, Quiet
<1>6. CASE ContinueForNothing
  BY <1>6 DEF ContinueForNothing, Decided, Quiet
<1>7. CASE UnsupportedDecision
  BY <1>7 DEF UnsupportedDecision, Decided, Quiet
<1>8. CASE Callback
  BY <1>8 DEF Callback, Decided, Quiet
<1>9. CASE OtherDecision
  BY <1>9 DEF OtherDecision, Decided, Quiet
<1>10. CASE MaxStepsCap
  BY <1>10 DEF MaxStepsCap, Quiet
<1>11. CASE UNCHANGED vars
  BY <1>11 DEF vars, Quiet
<1>12. ASSUME NEW s \in ReadyBatch, ResolveAloneRaises(s)
       PROVE  Quiet
  BY <1>12 DEF ResolveAloneRaises, Quiet
<1>. QED
  BY <1>1, <1>2, <1>3, <1>4, <1>5, <1>6, <1>7, <1>8, <1>9, <1>10, <1>11, <1>12
  DEF Next, ModelTurn, LoopThread, WorkerBookkeeping, Ended

\* A plan that is taken over keeps the completed steps and names every step by
\* its id alone.
LEMMA NewPlanSteps ==
  ASSUME TypeOK, PlanInv, NEW p \in Plans, NewPlan(p)
  PROVE  /\ \A s, t \in PlanSteps' : s.id = t.id => s = t
         /\ \A i \in DOMAIN completed_steps : completed_steps[i].step \in PlanSteps'
<1> DEFINE new == {p[i] : i \in DOMAIN p}
           old == {completed_steps[i].step : i \in DOMAIN completed_steps}
<1>1. p \in Seq(Step)
  BY PlanType
<1>2. \A s, t \in new : s.id = t.id => s = t
  BY DEF NewPlan, ParserAccepts
<1>3. \A s \in new, t \in old : s.id # t.id
  <2>1. \A s \in new : s.id \in Ids(p)
    BY DEF Ids
  <2>2. \A t \in old : t.id \in CompletedIds
    BY DEF CompletedIds
  <2>. QED  BY <2>1, <2>2 DEF NewPlan, Collides
<1>4. \A s, t \in old : s.id = t.id => s = t
  BY DEF PlanInv
<1>5. PlanSteps' \subseteq old \cup new /\ old \subseteq PlanSteps'
  <2>1. CASE plan_revision = 0 /\ plan' = p
    <3>1. old = {}
      BY <2>1 DEF PlanInv, PlanSteps
    <3>. QED  BY <2>1, <3>1 DEF PlanSteps
  <2>2. CASE plan' = [i \in DOMAIN completed_steps |-> completed_steps[i].step] \o p
    <3>1. \A i \in DOMAIN completed_steps :
            i \in DOMAIN plan' /\ plan'[i] = completed_steps[i].step
      BY <1>1, <2>2, MergedPlan
    <3>2. \A i \in DOMAIN plan' : \/ i \in DOMAIN completed_steps
                                  \/ \E j \in DOMAIN p : plan'[i] = p[j]
      BY <1>1, <2>2, MergedPlan
    <3>. QED  BY <3>1, <3>2 DEF PlanSteps
  <2>. QED  BY <2>1, <2>2 DEF NewPlan
<1>. QED  BY <1>2, <1>3, <1>4, <1>5

\* A record of a step of the plan whose dependencies are recorded.
LEMMA RecordKeepsPlan ==
  ASSUME TypeOK, PlanInv, DependenciesFirst, UNCHANGED <<plan, plan_revision>>,
         NEW s \in PlanSteps, s.deps \subseteq CompletedIds,
         NEW r \in Results, Complete(<<[step |-> s, result |-> r]>>),
         UNCHANGED <<turn, batch>>,
         turn' # "expire" => late' = {},
         pending_callback_step_id' \in {NoStep, pending_callback_step_id}
  PROVE  PlanInv' /\ DependenciesFirst'
<1>1. s \in Step
  BY DEF PlanSteps, TypeOK
<1> DEFINE n == Len(completed_steps) + 1
<1>2. /\ completed_steps' \in Seq(Record)
      /\ Len(completed_steps') = n
      /\ \A i \in DOMAIN completed_steps :
           i \in DOMAIN completed_steps' /\ completed_steps'[i] = completed_steps[i]
      /\ completed_steps'[n] = [step |-> s, result |-> r]
      /\ CompletedIds' = CompletedIds \cup {s.id}
  BY <1>1, CompleteOne
<1>3. DOMAIN completed_steps' = 1..n /\ DOMAIN completed_steps = 1..(n - 1) /\ n \in Nat
  BY <1>2 DEF TypeOK
<1>4. completed_steps'[n].step = s
  BY <1>2
<1>5. PlanSteps' = PlanSteps
  BY DEF PlanSteps
<1>6. \A i \in DOMAIN completed_steps' : completed_steps'[i].step \in PlanSteps'
  <2> TAKE i \in DOMAIN completed_steps'
  <2>1. CASE i = n
    BY <2>1, <1>4, <1>5
  <2>2. CASE i # n
    BY <2>2, <1>2, <1>3, <1>5 DEF PlanInv
  <2>. QED  BY <2>1, <2>2
<1>7. PlanInv'
  BY <1>2, <1>5, <1>6 DEF PlanInv
<1>8. DependenciesFirst'
  <2> SUFFICES ASSUME NEW i \in DOMAIN completed_steps'
               PROVE  completed_steps'[i].step.deps
                        \subseteq {completed_steps'[j].step.id : j \in 1..(i - 1)}
    BY DEF DependenciesFirst
  <2>1. CASE i = n
    <3>1. CompletedIds = {completed_steps'[j].step.id : j \in 1..(n - 1)}
      BY <1>2, <1>3 DEF CompletedIds
    <3>. QED  BY <2>1, <3>1, <1>4
  <2>2. CASE i # n
    <3>1. i \in DOMAIN completed_steps /\ \A j \in 1..(i - 1) : completed_steps'[j] = completed_steps[j]
      BY <2>2, <1>2, <1>3
    <3>2. completed_steps[i].step.deps \subseteq {completed_steps[j].step.id : j \in 1..(i - 1)}
      BY <3>1 DEF DependenciesFirst
    <3>3. completed_steps'[i] = completed_steps[i]
      BY <3>1, <1>2
    <3>. QED  BY <3>1, <3>2, <3>3
  <2>. QED  BY <2>1, <2>2
<1>. QED  BY <1>7, <1>8

\* The plan, its history and the steps in flight keep fitting together, and the
\* history stays causal.
LEMMA PlanStep ==
  TypeOK /\ PlanInv /\ DependenciesFirst /\ [Next]_vars => PlanInv' /\ DependenciesFirst'
<1> SUFFICES ASSUME TypeOK, PlanInv, DependenciesFirst, [Next]_vars
             PROVE  PlanInv' /\ DependenciesFirst'
  OBVIOUS
<1> USE DEF plan_state, threads, counters
<1>1. CASE Quiet
  BY <1>1 DEF Quiet, PlanInv, DependenciesFirst, PlanSteps, CompletedIds
<1>2. ASSUME NEW p \in Plans, NewPlan(p)
      PROVE  PlanInv' /\ DependenciesFirst'
  <2>1. /\ \A s, t \in PlanSteps' : s.id = t.id => s = t
        /\ \A i \in DOMAIN completed_steps : completed_steps[i].step \in PlanSteps'
    BY <1>2, NewPlanSteps
  <2>2. pending_callback_step_id' = NoStep
    BY <1>2 DEF NewPlan, PlanInv, PlanSteps
  <2>. QED  BY <1>2, <2>1, <2>2 DEF NewPlan, PlanInv, DependenciesFirst, CompletedIds, TypeOK
<1>3. CASE ResolveCallback
  <2>1. /\ PendingStep \in PlanSteps
        /\ PendingStep.deps \subseteq CompletedIds
    BY <1>3, PendingStepFacts DEF ResolveCallback
  <2>2. /\ Complete(<<[step |-> PendingStep, result |-> "resolved"]>>)
        /\ "resolved" \in Results
        /\ UNCHANGED <<plan, plan_revision, turn, batch, late>>
        /\ pending_callback_step_id' = NoStep
    BY <1>3 DEF ResolveCallback, Decided, Results
  <2>3. turn' # "expire" => late' = {}
    BY <2>2 DEF PlanInv
  <2>. QED  BY <2>1, <2>2, <2>3, RecordKeepsPlan
<1>4. ASSUME NEW s \in ReadyBatch, DispatchAlone(s)
      PROVE  PlanInv' /\ DependenciesFirst'
  <2>1. s \in PlanSteps /\ s.deps \subseteq CompletedIds
    BY ReadyBatchFacts
  <2>2. CASE ParkCallback(s)
    BY <1>4, <2>1, <2>2
    DEF DispatchAlone, ParkCallback, PlanInv, DependenciesFirst, PlanSteps, CompletedIds
  <2>3. CASE ~ParkCallback(s)
    <3>1. PICK r \in {"ok", "error"} : Complete(<<[step |-> s, result |-> r]>>)
      BY <1>4, <2>3 DEF DispatchAlone
    <3>2. UNCHANGED <<plan, plan_revision, turn, batch, late, pending_callback_step_id>>
      BY <1>4, <2>3 DEF DispatchAlone
    <3>3. r \in Results /\ (turn' # "expire" => late' = {})
      BY <3>2 DEF Results, PlanInv
    <3>. QED  BY <2>1, <3>1, <3>2, <3>3, RecordKeepsPlan
  <2>. QED  BY <2>2, <2>3
<1>5. CASE DispatchBatch
  <2>1. \A s \in ReadyBatch : s \in PlanSteps /\ s.deps \subseteq CompletedIds
    BY ReadyBatchFacts
  <2>. QED  BY <1>5, <2>1
            DEF DispatchBatch, Executing, PlanInv, DependenciesFirst, PlanSteps, CompletedIds
<1>6. ASSUME NEW s \in batch, WorkerStore(s)
      PROVE  PlanInv' /\ DependenciesFirst'
  BY <1>6 DEF WorkerStore, PlanInv, DependenciesFirst, PlanSteps, CompletedIds
<1>7. ASSUME NEW s \in batch, WorkerRecord(s)
      PROVE  PlanInv' /\ DependenciesFirst'
  <2>1. s \in PlanSteps /\ s.deps \subseteq CompletedIds
    BY DEF PlanInv
  <2>2. outcome[s.id] \in Results
    BY DEF TypeOK, Results, Step
  <2>3. UNCHANGED <<plan, plan_revision, turn, batch, late, pending_callback_step_id>>
    BY <1>7 DEF WorkerRecord
  <2>4. turn' # "expire" => late' = {}
    BY <2>3 DEF PlanInv
  <2>5. Complete(<<[step |-> s, result |-> outcome[s.id]]>>)
    BY <1>7 DEF WorkerRecord
  <2>. QED  BY <2>1, <2>2, <2>3, <2>4, <2>5, RecordKeepsPlan
<1>8. ASSUME NEW s \in batch, WorkerPark(s)
      PROVE  PlanInv' /\ DependenciesFirst'
  BY <1>8 DEF WorkerPark, ParkCallback, PlanInv, DependenciesFirst, PlanSteps, CompletedIds
<1>9. ASSUME NEW s \in batch, WorkerReturn(s)
      PROVE  PlanInv' /\ DependenciesFirst'
  BY <1>9 DEF WorkerReturn, PlanInv, DependenciesFirst, PlanSteps, CompletedIds
<1>10. CASE WaitReturns
  BY <1>10 DEF WaitReturns, PlanInv, DependenciesFirst, PlanSteps, CompletedIds
<1>11. ASSUME NEW s \in late, ExpireStore(s)
       PROVE  PlanInv' /\ DependenciesFirst'
  BY <1>11 DEF ExpireStore, PlanInv, DependenciesFirst, PlanSteps, CompletedIds
<1>12. ASSUME NEW s \in expiring, ExpireRecord(s)
       PROVE  PlanInv' /\ DependenciesFirst'
  <2>1. s \in PlanSteps /\ s.deps \subseteq CompletedIds
    BY DEF PlanInv, TypeOK
  <2>2. /\ Complete(<<[step |-> s, result |-> "timed_out"]>>)
        /\ "timed_out" \in Results
        /\ UNCHANGED <<plan, plan_revision, turn, batch, pending_callback_step_id>>
        /\ turn' = "expire"
    BY <1>12 DEF ExpireRecord, Results
  <2>. QED  BY <2>1, <2>2, RecordKeepsPlan
<1>13. CASE LeaveBatch
  BY <1>13 DEF LeaveBatch, PlanInv, DependenciesFirst, PlanSteps, CompletedIds
<1>14. ASSUME NEW s \in batch, WorkerStart(s) \/ WorkerRaises(s)
       PROVE  PlanInv' /\ DependenciesFirst'
  BY <1>14 DEF WorkerStart, WorkerRaises, PlanInv, DependenciesFirst, PlanSteps, CompletedIds
<1>. QED
  BY <1>1, <1>2, <1>3, <1>4, <1>5, <1>6, <1>7, <1>8, <1>9, <1>10, <1>11, <1>12, <1>13,
     <1>14, StepKinds

-----------------------------------------------------------------------------
(***************************************************************************)
(* No piece of work is started twice.                                      *)
(***************************************************************************)

LEMMA PendingType == TypeOK => pending_callback_step_id \in StepId \cup {NoStep}
BY DEF TypeOK

LEMMA RecordedIds == TypeOK => CompletedIds \subseteq StepId
<1> SUFFICES ASSUME TypeOK, NEW i \in DOMAIN completed_steps
             PROVE  completed_steps[i].step.id \in StepId
  BY DEF CompletedIds
<1>1. completed_steps[i] \in Record
  BY DEF TypeOK
<1>. QED  BY <1>1 DEF Record, Step

\* A step that is neither recorded nor in flight was never started.
LEMMA NeverStarted ==
  ASSUME TypeOK, PlanInv, WorkInv, turn = "head", NEW id \in StepId,
         step_results[id] = "none"
  PROVE  started[id] = 0
<1>1. id \notin CompletedIds /\ batch = {}
  BY DEF WorkInv, PlanInv
<1>. QED  BY <1>1 DEF WorkInv, TypeOK

LEMMA WorkStep ==
  TypeOK /\ PlanInv /\ WorkInv /\ WorkStartedOnce /\ [Next]_vars
    => WorkInv' /\ WorkStartedOnce'
<1> SUFFICES ASSUME TypeOK, PlanInv, WorkInv, WorkStartedOnce, [Next]_vars
             PROVE  WorkInv' /\ WorkStartedOnce'
  OBVIOUS
<1> USE DEF plan_state, threads, counters
<1>0. \A s \in batch : s \in Step /\ s.id \in StepId
  BY DEF TypeOK, Step
<1>1. CASE Quiet
  BY <1>1 DEF Quiet, WorkInv, WorkStartedOnce, CompletedIds
<1>2. ASSUME NEW p \in Plans, NewPlan(p)
      PROVE  WorkInv' /\ WorkStartedOnce'
  <2>1. CompletedIds \subseteq StepId
    BY RecordedIds
  <2>2. \A id \in CompletedIds : step_results'[id] = step_results[id]
    BY <1>2, <2>1 DEF NewPlan
  <2>3. batch = {} /\ expiring = {}
    BY <1>2 DEF NewPlan, PlanInv, TypeOK
  <2>. QED  BY <1>2, <2>2, <2>3 DEF NewPlan, WorkInv, WorkStartedOnce, CompletedIds
<1>3. CASE ResolveCallback
  <2>1. /\ PendingStep \in Step
        /\ PendingStep.id = pending_callback_step_id
    BY <1>3, PendingStepFacts DEF ResolveCallback
  <2>2. Complete(<<[step |-> PendingStep, result |-> "resolved"]>>) /\ "resolved" \in Results
    BY <1>3 DEF ResolveCallback, Results
  <2>3. CompletedIds' = CompletedIds \cup {pending_callback_step_id}
    BY <2>1, <2>2, CompleteOne
  <2>4. pending_callback_step_id \in StepId
    BY <2>1 DEF Step
  <2>5. \A id \in StepId : step_results'[id] = IF id = pending_callback_step_id
                                              THEN "resolved" ELSE step_results[id]
    BY <1>3 DEF ResolveCallback, TypeOK
  <2>6. CompletedIds \subseteq StepId
    BY RecordedIds
  <2>7. UNCHANGED <<batch, worker, expiring, started>> /\ batch = {} /\ expiring = {}
    BY <1>3 DEF ResolveCallback, Decided, AwaitingDecision, PlanInv, TypeOK
  <2>. QED  BY <2>3, <2>4, <2>5, <2>6, <2>7 DEF WorkInv, WorkStartedOnce
<1>4. ASSUME NEW s \in ReadyBatch, DispatchAlone(s)
      PROVE  WorkInv' /\ WorkStartedOnce'
  <2>1. s \in Step /\ s.id \in StepId /\ step_results[s.id] = "none"
    BY ReadyBatchFacts DEF Step
  <2>2. UNCHANGED <<batch, worker, expiring>> /\ batch = {} /\ expiring = {}
    BY <1>4 DEF DispatchAlone, Alone, Executing, PlanInv, TypeOK
  <2>3. CompletedIds \subseteq StepId
    BY RecordedIds
  <2>4. CASE ParkCallback(s)
    <3>1. \A id \in StepId : step_results'[id] = IF id = s.id THEN "pending" ELSE step_results[id]
      BY <2>4 DEF ParkCallback, TypeOK
    <3>2. CompletedIds' = CompletedIds /\ started' = started
      BY <2>4 DEF ParkCallback, CompletedIds
    <3>. QED  BY <2>1, <2>2, <2>3, <3>1, <3>2 DEF WorkInv, WorkStartedOnce
  <2>5. CASE ~ParkCallback(s)
    <3>1. PICK r \in {"ok", "error"} : /\ Complete(<<[step |-> s, result |-> r]>>)
                                       /\ step_results' = [step_results EXCEPT ![s.id] = r]
      BY <1>4, <2>5 DEF DispatchAlone
    <3>2. r \in Results /\ r # "none"
      BY DEF Results
    <3>3. CompletedIds' = CompletedIds \cup {s.id}
      BY <2>1, <3>1, <3>2, CompleteOne
    <3>4. started' = [started EXCEPT ![s.id] = @ + 1]
      BY <1>4, <2>5 DEF DispatchAlone
    <3>5. started[s.id] = 0
      BY <1>4, <2>1, NeverStarted DEF DispatchAlone, Alone, Executing
    <3>6. \A id \in StepId : started'[id] = IF id = s.id THEN 1 ELSE started[id]
      BY <2>1, <3>4, <3>5 DEF TypeOK
    <3>7. \A id \in StepId : step_results'[id] = IF id = s.id THEN r ELSE step_results[id]
      BY <3>1 DEF TypeOK
    <3>. QED  BY <2>1, <2>2, <2>3, <3>2, <3>3, <3>6, <3>7 DEF WorkInv, WorkStartedOnce
  <2>. QED  BY <2>4, <2>5
<1>5. CASE DispatchBatch
  <2>1. \A s \in ReadyBatch : s.id \in StepId /\ started[s.id] = 0
    <3> TAKE s \in ReadyBatch
    <3>1. s.id \in StepId /\ step_results[s.id] = "none"
      BY ReadyBatchFacts DEF Step
    <3>. QED  BY <1>5, <3>1, NeverStarted DEF DispatchBatch, Executing
  <2>2. batch = {} /\ expiring = {}
    BY <1>5 DEF DispatchBatch, Executing, PlanInv, TypeOK
  <2>3. UNCHANGED <<completed_steps, step_results, expiring>> /\ CompletedIds' = CompletedIds
    BY <1>5 DEF DispatchBatch, CompletedIds
  <2>4. \A s \in batch' : worker'[s.id] = "resolving" /\ started'[s.id] = 0
    BY <1>5, <2>1 DEF DispatchBatch
  <2>. QED  BY <1>5, <2>2, <2>3, <2>4 DEF DispatchBatch, WorkInv, WorkStartedOnce
<1>6. ASSUME NEW s \in batch, WorkerStore(s)
      PROVE  WorkInv' /\ WorkStartedOnce'
  <2>1. PICK r \in {"ok", "error"} : step_results' = [step_results EXCEPT ![s.id] = r]
    BY <1>6 DEF WorkerStore
  <2>2. \A id \in StepId : step_results'[id] = IF id = s.id THEN r ELSE step_results[id]
    BY <2>1 DEF TypeOK
  <2>3. \A id \in StepId : worker'[id] = IF id = s.id THEN "stored" ELSE worker[id]
    BY <1>6 DEF WorkerStore, TypeOK
  <2>4. UNCHANGED <<batch, expiring, started>> /\ CompletedIds' = CompletedIds
    BY <1>6 DEF WorkerStore, CompletedIds
  <2>5. CompletedIds \subseteq StepId /\ \A t \in expiring : t.id \in StepId
    BY <1>0, RecordedIds DEF TypeOK
  <2>6. /\ \A id \in CompletedIds' : step_results'[id] # "none"
        /\ \A t \in expiring' : step_results'[t.id] # "none"
        /\ \A t \in batch' : worker'[t.id] = "stored" => step_results'[t.id] # "none"
        /\ \A t \in batch' : worker'[t.id] = "resolving" => started'[t.id] = 0
    BY <1>0, <2>2, <2>3, <2>4, <2>5 DEF WorkInv
  <2>7. \A id \in StepId : worker[id] \in {"running", "stored"} => worker'[id] \in {"running", "stored"}
    BY <2>3
  <2>. QED  BY <2>4, <2>6, <2>7 DEF WorkInv, WorkStartedOnce
<1>7. ASSUME NEW s \in batch, WorkerRecord(s)
      PROVE  WorkInv' /\ WorkStartedOnce'
  <2>1. outcome[s.id] \in Results /\ Complete(<<[step |-> s, result |-> outcome[s.id]]>>)
    BY <1>0, <1>7 DEF TypeOK, Results, WorkerRecord
  <2>2. CompletedIds' = CompletedIds \cup {s.id}
    BY <1>0, <2>1, CompleteOne
  <2>3. \A id \in StepId : worker'[id] = IF id = s.id THEN "recorded" ELSE worker[id]
    BY <1>7 DEF WorkerRecord, TypeOK
  <2>4. UNCHANGED <<batch, expiring, started, step_results>> /\ worker[s.id] = "stored"
    BY <1>7 DEF WorkerRecord
  <2>. QED  BY <1>0, <2>2, <2>3, <2>4 DEF WorkInv, WorkStartedOnce
<1>8. ASSUME NEW s \in batch, WorkerPark(s)
      PROVE  WorkInv' /\ WorkStartedOnce'
  <2>1. \A id \in StepId : step_results'[id] = IF id = s.id THEN "pending" ELSE step_results[id]
    BY <1>8 DEF WorkerPark, ParkCallback, TypeOK
  <2>2. \A id \in StepId : worker'[id] = IF id = s.id THEN "recorded" ELSE worker[id]
    BY <1>8 DEF WorkerPark, TypeOK
  <2>3. UNCHANGED <<batch, expiring, started>> /\ CompletedIds' = CompletedIds
    BY <1>8 DEF WorkerPark, ParkCallback, CompletedIds
  <2>4. CompletedIds \subseteq StepId /\ \A t \in expiring : t.id \in StepId
    BY <1>0, RecordedIds DEF TypeOK
  <2>5. worker[s.id] = "resolving"
    BY <1>8 DEF WorkerPark
  <2>6. \A id \in StepId : started'[id] > 0 =>
          \/ id \in CompletedIds'
          \/ \E t \in batch' : t.id = id /\ worker'[id] \in {"running", "stored"}
    BY <2>2, <2>3, <2>5 DEF WorkInv
  <2>7. /\ \A id \in CompletedIds' : step_results'[id] # "none"
        /\ \A t \in expiring' : step_results'[t.id] # "none"
        /\ \A t \in batch' : worker'[t.id] = "stored" => step_results'[t.id] # "none"
        /\ \A t \in batch' : worker'[t.id] = "resolving" => started'[t.id] = 0
    BY <1>0, <2>1, <2>2, <2>3, <2>4 DEF WorkInv
  <2>. QED  BY <2>3, <2>6, <2>7 DEF WorkInv, WorkStartedOnce
<1>9. ASSUME NEW s \in batch, WorkerReturn(s)
      PROVE  WorkInv' /\ WorkStartedOnce'
  <2>1. \A id \in StepId : worker'[id] = IF id = s.id THEN "finished" ELSE worker[id]
    BY <1>9 DEF WorkerReturn, TypeOK
  <2>2. /\ UNCHANGED <<batch, expiring, started, step_results>>
        /\ CompletedIds' = CompletedIds /\ worker[s.id] = "recorded"
    BY <1>9 DEF WorkerReturn, CompletedIds
  <2>. QED  BY <1>0, <2>1, <2>2 DEF WorkInv, WorkStartedOnce
<1>10. CASE WaitReturns
  BY <1>10 DEF WaitReturns, WorkInv, WorkStartedOnce, CompletedIds
<1>11. ASSUME NEW s \in late, ExpireStore(s)
       PROVE  WorkInv' /\ WorkStartedOnce'
  <2>1. \A id \in StepId : step_results'[id] = IF id = s.id THEN "timed_out" ELSE step_results[id]
    BY <1>11 DEF ExpireStore, TypeOK
  <2>2. /\ UNCHANGED <<batch, worker, started>> /\ expiring' = {s}
        /\ CompletedIds' = CompletedIds
    BY <1>11 DEF ExpireStore, CompletedIds
  <2>3. CompletedIds \subseteq StepId /\ s.id \in StepId
    BY <1>0, RecordedIds DEF TypeOK
  <2>. QED  BY <1>0, <2>1, <2>2, <2>3 DEF WorkInv, WorkStartedOnce
<1>12. ASSUME NEW s \in expiring, ExpireRecord(s)
       PROVE  WorkInv' /\ WorkStartedOnce'
  <2>1. s \in Step /\ "timed_out" \in Results /\ Complete(<<[step |-> s, result |-> "timed_out"]>>)
    BY <1>12 DEF TypeOK, Results, ExpireRecord
  <2>2. CompletedIds' = CompletedIds \cup {s.id}
    BY <2>1, CompleteOne
  <2>3. UNCHANGED <<batch, worker, started, step_results>> /\ expiring' = {}
    BY <1>12 DEF ExpireRecord
  <2>. QED  BY <2>2, <2>3 DEF WorkInv, WorkStartedOnce
<1>13. CASE LeaveBatch
  <2>1. \A id \in StepId, t \in batch : t.id = id => worker[id] = "finished"
    BY <1>13 DEF LeaveBatch, AllReturned
  <2>2. /\ batch' = {} /\ UNCHANGED <<expiring, started, step_results>>
        /\ CompletedIds' = CompletedIds /\ expiring = {}
    BY <1>13 DEF LeaveBatch, CompletedIds, TypeOK
  <2>. QED  BY <2>1, <2>2 DEF WorkInv, WorkStartedOnce
<1>14. ASSUME NEW s \in batch, WorkerStart(s)
       PROVE  WorkInv' /\ WorkStartedOnce'
  <2>1. \A id \in StepId : worker'[id] = IF id = s.id THEN "running" ELSE worker[id]
    BY <1>14 DEF WorkerStart, TypeOK
  <2>2. \A id \in StepId : started'[id] = IF id = s.id THEN started[id] + 1 ELSE started[id]
    BY <1>14 DEF WorkerStart, TypeOK
  <2>3. started[s.id] = 0 /\ worker[s.id] = "resolving"
    BY <1>14 DEF WorkerStart, WorkInv
  <2>4. UNCHANGED <<batch, expiring, step_results>> /\ CompletedIds' = CompletedIds
    BY <1>14 DEF WorkerStart, CompletedIds
  <2>5. WorkStartedOnce'
    BY <2>2, <2>3 DEF WorkStartedOnce
  <2>6. \A id \in StepId : started'[id] > 0 =>
          \/ id \in CompletedIds'
          \/ \E t \in batch' : t.id = id /\ worker'[id] \in {"running", "stored"}
    BY <2>1, <2>2, <2>4 DEF WorkInv
  <2>. QED  BY <1>0, <2>1, <2>2, <2>4, <2>5, <2>6 DEF WorkInv
<1>15. ASSUME NEW s \in batch, WorkerRaises(s)
       PROVE  WorkInv' /\ WorkStartedOnce'
  <2>1. \A id \in StepId : worker'[id] = IF id = s.id THEN "finished" ELSE worker[id]
    BY <1>15 DEF WorkerRaises, TypeOK
  <2>2. /\ UNCHANGED <<batch, expiring, started, step_results>>
        /\ CompletedIds' = CompletedIds /\ worker[s.id] = "resolving"
    BY <1>15 DEF WorkerRaises, CompletedIds
  <2>. QED  BY <1>0, <2>1, <2>2 DEF WorkInv, WorkStartedOnce
<1>. QED
  BY <1>1, <1>2, <1>3, <1>4, <1>5, <1>6, <1>7, <1>8, <1>9, <1>10, <1>11, <1>12, <1>13,
     <1>14, <1>15, StepKinds

-----------------------------------------------------------------------------
(***************************************************************************)
(* The theorems.                                                           *)
(***************************************************************************)

LEMMA InitIInv == Init => IInv
<1> SUFFICES ASSUME Init PROVE IInv
  OBVIOUS
<1>1. TypeOK
  BY InitType
<1>2. PlanInv /\ DependenciesFirst
  BY DEF Init, PlanInv, DependenciesFirst, PlanSteps
<1>3. WorkInv /\ WorkStartedOnce
  BY DEF Init, WorkInv, WorkStartedOnce, CompletedIds
<1>. QED  BY <1>1, <1>2, <1>3 DEF IInv

LEMMA StepIInv == IInv /\ [Next]_vars => IInv'
BY TypeStep, PlanStep, WorkStep DEF IInv

\* The invariant holds in every reachable state.
THEOREM Invariance == Spec => []IInv
BY InitIInv, StepIInv, PTL DEF Spec

\* Every variable keeps its type; plan_revision never passes max_plan_revisions.
THEOREM TypeCorrect == Spec => []TypeOK
<1>1. IInv => TypeOK
  BY DEF IInv
<1>. QED  BY <1>1, Invariance, PTL

\* The history is causal: whatever replans, timeouts and interleavings of the
\* worker threads, a step is recorded after everything it depends on.
THEOREM CausalHistory == Spec => []DependenciesFirst
<1>1. IInv => DependenciesFirst
  BY DEF IInv
<1>. QED  BY <1>1, Invariance, PTL

\* No tool, subagent or skill of a plan is started twice.
THEOREM NoWorkTwice == Spec => []WorkStartedOnce
<1>1. IInv => WorkStartedOnce
  BY DEF IInv
<1>. QED  BY <1>1, Invariance, PTL

-----------------------------------------------------------------------------
\* What any step does to the history: nothing, or it appends one record.
LEMMA HistoryGrows ==
  ASSUME TypeOK, PlanInv, [Next]_vars
  PROVE  \/ completed_steps' = completed_steps
         \/ \E s \in Step, r \in Results : Complete(<<[step |-> s, result |-> r]>>)
<1> USE DEF plan_state, Results
<1>1. CASE Quiet
  BY <1>1 DEF Quiet
<1>2. ASSUME NEW p \in Plans, NewPlan(p)
      PROVE  completed_steps' = completed_steps
  BY <1>2 DEF NewPlan
<1>3. CASE ResolveCallback
  <2>1. PendingStep \in Step
    BY <1>3, PendingStepFacts DEF ResolveCallback
  <2>2. Complete(<<[step |-> PendingStep, result |-> "resolved"]>>)
    BY <1>3 DEF ResolveCallback
  <2>. QED  BY <2>1, <2>2
<1>4. ASSUME NEW s \in ReadyBatch, DispatchAlone(s), completed_steps' # completed_steps
      PROVE  \E r \in Results : Complete(<<[step |-> s, result |-> r]>>)
  BY <1>4 DEF DispatchAlone, ParkCallback
<1>5. CASE DispatchBatch
  BY <1>5 DEF DispatchBatch
<1>6. ASSUME NEW s \in batch,
             \/ WorkerStart(s) \/ WorkerRaises(s) \/ WorkerStore(s)
             \/ WorkerPark(s) \/ WorkerReturn(s)
      PROVE  completed_steps' = completed_steps
  BY <1>6 DEF WorkerStart, WorkerRaises, WorkerStore, WorkerPark, ParkCallback, WorkerReturn
<1>7. ASSUME NEW s \in batch, WorkerRecord(s)
      PROVE  \E r \in Results : Complete(<<[step |-> s, result |-> r]>>)
  <2>1. outcome[s.id] \in Results
    BY DEF TypeOK, Step
  <2>. QED  BY <1>7, <2>1 DEF WorkerRecord
<1>8. CASE WaitReturns \/ LeaveBatch
  BY <1>8 DEF WaitReturns, LeaveBatch
<1>9. ASSUME NEW s \in late, ExpireStore(s)
      PROVE  completed_steps' = completed_steps
  BY <1>9 DEF ExpireStore
<1>10. ASSUME NEW s \in expiring, ExpireRecord(s)
       PROVE  \E r \in Results : Complete(<<[step |-> s, result |-> r]>>)
  BY <1>10 DEF ExpireRecord
<1>11. ReadyBatch \subseteq Step /\ batch \subseteq Step /\ expiring \subseteq Step
  BY ReadyBatchFacts DEF TypeOK
<1>. QED
  BY <1>1, <1>2, <1>3, <1>4, <1>5, <1>6, <1>7, <1>8, <1>9, <1>10, <1>11, StepKinds

\* The history is only appended to, and what is recorded keeps a result: no
\* replan, timeout or worker thread rewrites it.
THEOREM HistoryNeverRewritten == Spec => HistoryImmutable
<1>1. ASSUME IInv, IInv', [Next]_vars
      PROVE  [/\ Len(completed_steps) <= Len(completed_steps')
              /\ \A i \in DOMAIN completed_steps : completed_steps'[i] = completed_steps[i]
              /\ \A id \in CompletedIds : step_results'[id] # "none"]_vars
  <2> USE <1>1 DEF IInv
  <2>1. CASE completed_steps' = completed_steps
    <3>1. CompletedIds' = CompletedIds /\ Len(completed_steps) \in Nat
      BY <2>1 DEF CompletedIds, TypeOK
    <3>. QED  BY <2>1, <3>1 DEF WorkInv
  <2>2. ASSUME NEW s \in Step, NEW r \in Results, Complete(<<[step |-> s, result |-> r]>>)
        PROVE  /\ Len(completed_steps) <= Len(completed_steps')
               /\ \A i \in DOMAIN completed_steps : completed_steps'[i] = completed_steps[i]
               /\ \A id \in CompletedIds : step_results'[id] # "none"
    <3>1. /\ Len(completed_steps') = Len(completed_steps) + 1
          /\ \A i \in DOMAIN completed_steps : completed_steps'[i] = completed_steps[i]
          /\ CompletedIds' = CompletedIds \cup {s.id}
      BY <2>2, CompleteOne
    <3>2. Len(completed_steps) \in Nat
      BY DEF TypeOK
    <3>. QED  BY <3>1, <3>2 DEF WorkInv
  <2>. QED  BY <2>1, <2>2, HistoryGrows
<1>. QED  BY <1>1, Invariance, PTL DEF Spec, HistoryImmutable

-----------------------------------------------------------------------------
(***************************************************************************)
(* The log, the result table and the total tell one story, whatever the    *)
(* step timeout: a step that timed out has a second record if its worker,  *)
(* or the answer to its callback, came after all.                          *)
(***************************************************************************)

\* The id was recorded with an outcome of its own.
Answered(id) == \E r \in {"ok", "error", "resolved"} : Recorded(id, r)

\* At most one record of a step says that it timed out, and at most one says what
\* came of it.
RecordedOncePerKind ==
  \A i, j \in DOMAIN completed_steps :
    /\ completed_steps[i].step.id = completed_steps[j].step.id
    /\ completed_steps[i].result = "timed_out" <=> completed_steps[j].result = "timed_out"
    => i = j

\* Whoever is going to record an outcome, or a timeout, is the first to do so.
RecordsToCome ==
  /\ \A s \in batch : worker[s.id] \in {"resolving", "running", "stored"} => ~Answered(s.id)
  /\ \A s \in batch : turn = "wait" \/ s \in late => ~Recorded(s.id, "timed_out")
  /\ pending_callback_step_id # NoStep =>
       /\ step_results[pending_callback_step_id] # "none"
       /\ ~Answered(pending_callback_step_id)
       /\ \A s \in batch : s.id = pending_callback_step_id =>
                             worker[s.id] \in {"recorded", "finished"}

\* A result that {{token}}s see is recorded, or the thread that put it there is about
\* to record it.
ResultsAreRecorded ==
  \A id \in StepId : step_results[id] \in Results =>
    \/ Recorded(id, step_results[id])
    \/ \E s \in batch : /\ s.id = id /\ worker[id] = "stored"
                        /\ step_results[id] = outcome[id]
    \/ step_results[id] = "timed_out" /\ \E s \in expiring : s.id = id

LogInv == RecordedOncePerKind /\ RecordsToCome /\ ResultsAreRecorded

\* What one more record adds.
LEMMA RecordAdds ==
  ASSUME TypeOK, NEW s \in Step, NEW r \in Results,
         Complete(<<[step |-> s, result |-> r]>>)
  PROVE  \A id, q : Recorded(id, q)' <=> Recorded(id, q) \/ (id = s.id /\ q = r)
<1> DEFINE n == Len(completed_steps) + 1
<1>1. /\ completed_steps' \in Seq(Record)
      /\ Len(completed_steps') = n
      /\ \A i \in DOMAIN completed_steps :
           i \in DOMAIN completed_steps' /\ completed_steps'[i] = completed_steps[i]
      /\ completed_steps'[n] = [step |-> s, result |-> r]
  BY CompleteOne
<1>2. DOMAIN completed_steps' = DOMAIN completed_steps \cup {n}
  BY <1>1 DEF TypeOK
<1>3. completed_steps'[n].step.id = s.id /\ completed_steps'[n].result = r
  BY <1>1
<1> HIDE DEF n
<1> QED BY <1>1, <1>2, <1>3 DEF Recorded

\* A record of a kind that its step did not have.
LEMMA RecordKeepsLog ==
  ASSUME TypeOK, RecordedOncePerKind, NEW s \in Step, NEW r \in Results,
         r = "timed_out" => ~Recorded(s.id, "timed_out"),
         r # "timed_out" => ~Answered(s.id),
         Complete(<<[step |-> s, result |-> r]>>)
  PROVE  RecordedOncePerKind'
<1> DEFINE n == Len(completed_steps) + 1
<1>1. /\ completed_steps' \in Seq(Record)
      /\ Len(completed_steps') = n
      /\ \A i \in DOMAIN completed_steps :
           i \in DOMAIN completed_steps' /\ completed_steps'[i] = completed_steps[i]
      /\ completed_steps'[n] = [step |-> s, result |-> r]
  BY CompleteOne
<1>2. DOMAIN completed_steps' = 1..n /\ DOMAIN completed_steps = 1..(n - 1) /\ n \in Nat
  BY <1>1 DEF TypeOK
<1>3. completed_steps'[n].step.id = s.id /\ completed_steps'[n].result = r
  BY <1>1
<1>4. \A i \in 1..(n - 1) : completed_steps'[i] = completed_steps[i]
  BY <1>1, <1>2
<1>5. \A i \in 1..n : i = n \/ i \in 1..(n - 1)
  BY <1>2
<1>6. ASSUME NEW i \in 1..(n - 1), completed_steps[i].step.id = s.id,
             completed_steps[i].result = "timed_out" <=> r = "timed_out"
      PROVE  FALSE
  <2>1. completed_steps[i].result \in Results
    <3>1. completed_steps[i] \in Record
      BY <1>2 DEF TypeOK
    <3> QED BY <3>1 DEF Record
  <2>2. Recorded(s.id, completed_steps[i].result)
    BY <1>2, <1>6 DEF Recorded
  <2> QED BY <1>6, <2>1, <2>2 DEF Answered, Results
<1> HIDE DEF n
<1> SUFFICES ASSUME NEW i \in 1..n, NEW j \in 1..n,
                    completed_steps'[i].step.id = completed_steps'[j].step.id,
                    completed_steps'[i].result = "timed_out"
                      <=> completed_steps'[j].result = "timed_out"
             PROVE  i = j
  BY <1>2 DEF RecordedOncePerKind
<1>7. CASE i \in 1..(n - 1) /\ j \in 1..(n - 1)
  BY <1>7, <1>2, <1>4 DEF RecordedOncePerKind
<1>8. CASE i \in 1..(n - 1) /\ j = n
  BY <1>8, <1>3, <1>4, <1>6
<1>9. CASE i = n /\ j \in 1..(n - 1)
  BY <1>9, <1>3, <1>4, <1>6
<1> QED BY <1>7, <1>8, <1>9, <1>5

\* Whatever leaves the log alone.
LEMMA LogStays ==
  ASSUME completed_steps' = completed_steps
  PROVE  /\ RecordedOncePerKind => RecordedOncePerKind'
         /\ \A id, q : Recorded(id, q)' <=> Recorded(id, q)
         /\ \A id : Answered(id)' <=> Answered(id)
BY DEF RecordedOncePerKind, Recorded, Answered

\* A step that is not recorded has no record of any kind.
LEMMA NotRecorded ==
  ASSUME NEW id, id \notin CompletedIds
  PROVE  ~Answered(id) /\ ~Recorded(id, "timed_out")
BY DEF CompletedIds, Answered, Recorded

\* The steps of a batch are told apart by their ids.
LEMMA BatchIds ==
  ASSUME TypeOK, PlanInv
  PROVE  /\ \A s \in batch : s \in Step /\ s.id \in StepId
         /\ \A s, t \in batch : s.id = t.id => s = t
BY DEF TypeOK, PlanInv, Step

\* A step that is ready has no record, and is not the one that is pending.
LEMMA ReadyIsNew ==
  ASSUME TypeOK, WorkInv, LogInv, NEW s \in ReadyBatch
  PROVE  /\ s \in Step /\ s.id \in StepId /\ step_results[s.id] = "none"
         /\ ~Answered(s.id) /\ ~Recorded(s.id, "timed_out")
         /\ s.id # pending_callback_step_id
<1>1. s \in Step /\ s.id \in StepId /\ step_results[s.id] = "none"
  BY ReadyBatchFacts DEF Step
<1>2. s.id \notin CompletedIds
  BY <1>1 DEF WorkInv
<1>3. s.id # NoStep
  BY <1>1, ConfigAssumption
<1> QED BY <1>1, <1>2, <1>3, NotRecorded DEF LogInv, RecordsToCome

LEMMA LogStep ==
  ASSUME TypeOK, PlanInv, WorkInv, LogInv, [Next]_vars
  PROVE  LogInv'
<1> USE DEF plan_state, threads, counters
<1>a. RecordedOncePerKind /\ RecordsToCome /\ ResultsAreRecorded
  BY DEF LogInv
<1>b. /\ \A s \in batch : s \in Step /\ s.id \in StepId
      /\ \A s, t \in batch : s.id = t.id => s = t
  BY BatchIds
<1>c. expiring \subseteq late /\ late \subseteq batch
  BY DEF TypeOK
<1>1. CASE Quiet
  <2>1. completed_steps' = completed_steps
    BY <1>1 DEF Quiet
  <2> QED BY <1>1, <1>a, <2>1, LogStays DEF Quiet, LogInv, RecordsToCome, ResultsAreRecorded
<1>2. ASSUME NEW p \in Plans, NewPlan(p)
      PROVE  LogInv'
  <2>1. completed_steps' = completed_steps /\ batch = {} /\ batch' = {} /\ expiring = {}
    BY <1>2, <1>c DEF NewPlan, PlanInv
  <2>2. \/ pending_callback_step_id' = NoStep
        \/ UNCHANGED <<step_results, pending_callback_step_id>>
    BY <1>2 DEF NewPlan
  <2>3. \A id \in StepId : step_results'[id] \in {"none", step_results[id]}
    BY <1>2 DEF NewPlan
  <2>4. RecordsToCome'
    BY <1>a, <2>1, <2>2, LogStays DEF RecordsToCome
  <2>5. ResultsAreRecorded'
    BY <1>a, <2>1, <2>3, LogStays DEF ResultsAreRecorded, Results
  <2> QED BY <1>a, <2>1, <2>4, <2>5, LogStays DEF LogInv
<1>3. CASE ResolveCallback
  <2> DEFINE id0 == pending_callback_step_id
  <2>1. PendingStep \in Step /\ PendingStep.id = id0 /\ id0 \in StepId
    BY <1>3, PendingStepFacts DEF ResolveCallback, Step
  <2>2. /\ Complete(<<[step |-> PendingStep, result |-> "resolved"]>>)
        /\ "resolved" \in Results
        /\ id0 # NoStep /\ pending_callback_step_id' = NoStep
    BY <1>3 DEF ResolveCallback, Results
  <2>3. RecordedOncePerKind'
    BY <1>a, <2>1, <2>2, RecordKeepsLog DEF RecordsToCome
  <2>4. \A id, q : Recorded(id, q)' <=> Recorded(id, q) \/ (id = id0 /\ q = "resolved")
    BY <2>1, <2>2, RecordAdds
  <2>5. batch = {} /\ batch' = {} /\ expiring = {} /\ UNCHANGED <<worker, expiring, outcome>>
    BY <1>3, <1>c DEF ResolveCallback, Decided, AwaitingDecision, PlanInv
  <2>6. \A id \in StepId : step_results'[id] = IF id = id0 THEN "resolved" ELSE step_results[id]
    BY <1>3 DEF ResolveCallback, TypeOK
  <2>7. ResultsAreRecorded'
    BY <1>a, <2>4, <2>5, <2>6 DEF ResultsAreRecorded
  <2> QED BY <2>2, <2>3, <2>5, <2>7 DEF LogInv, RecordsToCome
<1>4. ASSUME NEW s \in ReadyBatch, DispatchAlone(s)
      PROVE  LogInv'
  <2>1. /\ s \in Step /\ s.id \in StepId /\ ~Answered(s.id)
        /\ s.id # pending_callback_step_id
    BY ReadyIsNew
  <2>2. /\ batch = {} /\ batch' = {} /\ expiring = {} /\ expiring' = {}
    BY <1>4, <1>c DEF DispatchAlone, Alone, Executing, PlanInv
  <2>3. CASE ParkCallback(s)
    <3>1. \A id \in StepId : step_results'[id] = IF id = s.id THEN "pending" ELSE step_results[id]
      BY <2>3 DEF ParkCallback, TypeOK
    <3>2. completed_steps' = completed_steps /\ pending_callback_step_id' = s.id
      BY <2>3 DEF ParkCallback
    <3>3. RecordsToCome'
      BY <2>1, <2>2, <3>1, <3>2, LogStays DEF RecordsToCome
    <3>4. ResultsAreRecorded'
      BY <1>a, <2>2, <3>1, <3>2, LogStays DEF ResultsAreRecorded, Results
    <3> QED BY <1>a, <3>2, <3>3, <3>4, LogStays DEF LogInv
  <2>4. CASE ~ParkCallback(s)
    <3>1. PICK r \in {"ok", "error"} : /\ Complete(<<[step |-> s, result |-> r]>>)
                                       /\ step_results' = [step_results EXCEPT ![s.id] = r]
                                       /\ UNCHANGED pending_callback_step_id
      BY <1>4, <2>4 DEF DispatchAlone
    <3>2. r \in Results /\ r # "timed_out"
      BY DEF Results
    <3>3. \A id \in StepId : step_results'[id] = IF id = s.id THEN r ELSE step_results[id]
      BY <3>1 DEF TypeOK
    <3>4. RecordedOncePerKind'
      BY <1>a, <2>1, <3>1, <3>2, RecordKeepsLog
    <3>5. \A id, q : Recorded(id, q)' <=> Recorded(id, q) \/ (id = s.id /\ q = r)
      BY <2>1, <3>1, <3>2, RecordAdds
    <3>6. ResultsAreRecorded'
      BY <1>a, <2>2, <3>3, <3>5 DEF ResultsAreRecorded
    <3>7. pending_callback_step_id # NoStep => pending_callback_step_id \in StepId
      BY DEF TypeOK
    <3>8. RecordsToCome'
      BY <1>a, <2>1, <2>2, <3>1, <3>3, <3>5, <3>7 DEF RecordsToCome, Answered
    <3> QED BY <3>4, <3>6, <3>8 DEF LogInv
  <2> QED BY <2>3, <2>4
<1>5. CASE DispatchBatch
  <2>1. /\ UNCHANGED <<step_results, completed_steps, pending_callback_step_id, outcome, expiring>>
        /\ batch = {} /\ late = {} /\ late' = {} /\ expiring = {}
    BY <1>5, <1>c DEF DispatchBatch, Executing, PlanInv
  <2>2. \A s \in batch' : /\ ~Answered(s.id) /\ ~Recorded(s.id, "timed_out")
                          /\ s.id # pending_callback_step_id
    BY <1>5, ReadyIsNew DEF DispatchBatch
  <2>3. RecordsToCome'
    BY <1>a, <2>1, <2>2, LogStays DEF RecordsToCome
  <2>4. ResultsAreRecorded'
    BY <1>a, <2>1, LogStays DEF ResultsAreRecorded
  <2> QED BY <1>a, <2>1, <2>3, <2>4, LogStays DEF LogInv
<1>6. ASSUME NEW s \in batch, WorkerStart(s) \/ WorkerRaises(s) \/ WorkerReturn(s)
      PROVE  LogInv'
  <2>1. UNCHANGED <<step_results, completed_steps, pending_callback_step_id, outcome, batch,
                    turn, late, expiring>>
    BY <1>6 DEF WorkerStart, WorkerRaises, WorkerReturn
  <2>2. \A id \in StepId : id # s.id => worker'[id] = worker[id]
    BY <1>6 DEF WorkerStart, WorkerRaises, WorkerReturn, TypeOK
  <2>3. \/ worker[s.id] = "resolving"
        \/ worker[s.id] = "recorded" /\ worker'[s.id] = "finished"
    BY <1>6, <1>b DEF WorkerStart, WorkerRaises, WorkerReturn, TypeOK
  <2>4. RecordsToCome'
    BY <1>a, <1>b, <2>1, <2>2, <2>3, LogStays DEF RecordsToCome
  <2>5. ResultsAreRecorded'
    BY <1>a, <1>b, <2>1, <2>2, <2>3, LogStays DEF ResultsAreRecorded
  <2> QED BY <1>a, <2>1, <2>4, <2>5, LogStays DEF LogInv
<1>7. ASSUME NEW s \in batch, WorkerStore(s)
      PROVE  LogInv'
  <2>1. PICK r \in {"ok", "error"} : /\ step_results' = [step_results EXCEPT ![s.id] = r]
                                     /\ outcome' = [outcome EXCEPT ![s.id] = r]
    BY <1>7 DEF WorkerStore
  <2>2. \A id \in StepId : /\ step_results'[id] = IF id = s.id THEN r ELSE step_results[id]
                           /\ outcome'[id] = IF id = s.id THEN r ELSE outcome[id]
                           /\ worker'[id] = IF id = s.id THEN "stored" ELSE worker[id]
    BY <1>7, <2>1 DEF WorkerStore, TypeOK
  <2>3. /\ UNCHANGED <<completed_steps, pending_callback_step_id, batch, turn, late, expiring>>
        /\ worker[s.id] = "running"
    BY <1>7 DEF WorkerStore
  <2>4. pending_callback_step_id # NoStep =>
          pending_callback_step_id \in StepId /\ pending_callback_step_id # s.id
    BY <1>a, <2>3 DEF RecordsToCome, TypeOK
  <2>5. RecordsToCome'
    BY <1>a, <1>b, <2>2, <2>3, <2>4, LogStays DEF RecordsToCome
  <2>6. ResultsAreRecorded'
    BY <1>a, <1>b, <2>2, <2>3, LogStays DEF ResultsAreRecorded
  <2> QED BY <1>a, <2>3, <2>5, <2>6, LogStays DEF LogInv
<1>8. ASSUME NEW s \in batch, WorkerRecord(s)
      PROVE  LogInv'
  <2> DEFINE r == outcome[s.id]
  <2>1. /\ r \in Results /\ r \in {"ok", "error"}
        /\ Complete(<<[step |-> s, result |-> r]>>)
    BY <1>8, <1>b DEF TypeOK, Results, WorkerRecord
  <2>2. \A id \in StepId : worker'[id] = IF id = s.id THEN "recorded" ELSE worker[id]
    BY <1>8 DEF WorkerRecord, TypeOK
  <2>3. /\ UNCHANGED <<step_results, pending_callback_step_id, outcome, batch, turn, late, expiring>>
        /\ worker[s.id] = "stored"
    BY <1>8 DEF WorkerRecord
  <2> HIDE DEF r
  <2>4. RecordedOncePerKind'
    <3>1. r # "timed_out" /\ ~Answered(s.id)
      BY <1>a, <2>1, <2>3 DEF RecordsToCome
    <3> QED BY <1>a, <1>b, <2>1, <3>1, RecordKeepsLog
  <2>5. \A id, q : Recorded(id, q)' <=> Recorded(id, q) \/ (id = s.id /\ q = r)
    BY <1>b, <2>1, RecordAdds
  <2>6. \A id : /\ Recorded(id, "timed_out")' <=> Recorded(id, "timed_out")
                /\ id # s.id => (Answered(id)' <=> Answered(id))
    BY <2>1, <2>5 DEF Answered
  <2>7. pending_callback_step_id # NoStep => pending_callback_step_id # s.id
    BY <1>a, <2>3 DEF RecordsToCome
  <2>8. RecordsToCome'
    BY <1>a, <1>b, <2>2, <2>3, <2>6, <2>7 DEF RecordsToCome
  <2>9. ResultsAreRecorded'
    BY <1>a, <1>b, <2>2, <2>3, <2>5 DEF ResultsAreRecorded, r
  <2> QED BY <2>4, <2>8, <2>9 DEF LogInv
<1>9. ASSUME NEW s \in batch, WorkerPark(s)
      PROVE  LogInv'
  <2>1. \A id \in StepId : /\ step_results'[id] = IF id = s.id THEN "pending" ELSE step_results[id]
                           /\ worker'[id] = IF id = s.id THEN "recorded" ELSE worker[id]
    BY <1>9 DEF WorkerPark, ParkCallback, TypeOK
  <2>2. /\ UNCHANGED <<completed_steps, outcome, batch, turn, late, expiring>>
        /\ pending_callback_step_id' = s.id /\ worker[s.id] = "resolving"
    BY <1>9 DEF WorkerPark, ParkCallback
  <2>3. RecordsToCome'
    BY <1>a, <1>b, <2>1, <2>2, LogStays DEF RecordsToCome
  <2>4. ResultsAreRecorded'
    BY <1>a, <1>b, <2>1, <2>2, LogStays DEF ResultsAreRecorded, Results
  <2> QED BY <1>a, <2>2, <2>3, <2>4, LogStays DEF LogInv
<1>10. CASE WaitReturns
  <2>1. /\ UNCHANGED <<batch, worker, outcome, completed_steps, step_results,
                       pending_callback_step_id, expiring>>
        /\ late' \subseteq batch /\ turn = "wait" /\ turn' = "expire"
    BY <1>10 DEF WaitReturns
  <2>2. RecordsToCome'
    BY <1>a, <2>1, LogStays DEF RecordsToCome
  <2>3. ResultsAreRecorded'
    BY <1>a, <2>1, LogStays DEF ResultsAreRecorded
  <2> QED BY <1>a, <2>1, <2>2, <2>3, LogStays DEF LogInv
<1>11. ASSUME NEW s \in late, ExpireStore(s)
       PROVE  LogInv'
  <2>1. \A id \in StepId : step_results'[id] = IF id = s.id THEN "timed_out" ELSE step_results[id]
    BY <1>11 DEF ExpireStore, TypeOK
  <2>2. /\ UNCHANGED <<batch, worker, outcome, completed_steps, pending_callback_step_id,
                       turn, late>>
        /\ expiring = {} /\ expiring' = {s}
    BY <1>11 DEF ExpireStore
  <2>3. RecordsToCome'
    BY <1>a, <2>1, <2>2, LogStays, PendingType DEF RecordsToCome
  <2>4. ResultsAreRecorded'
    BY <1>a, <2>1, <2>2, LogStays DEF ResultsAreRecorded
  <2> QED BY <1>a, <2>2, <2>3, <2>4, LogStays DEF LogInv
<1>12. ASSUME NEW s \in expiring, ExpireRecord(s)
       PROVE  LogInv'
  <2>1. s \in Step /\ s \in late /\ s \in batch
    BY <1>b, <1>c
  <2>2. /\ Complete(<<[step |-> s, result |-> "timed_out"]>>) /\ "timed_out" \in Results
        /\ UNCHANGED <<batch, worker, outcome, step_results, pending_callback_step_id, turn>>
        /\ expiring = {s} /\ expiring' = {} /\ late' = late \ {s} /\ turn = "expire"
    BY <1>12 DEF ExpireRecord, Results
  <2>3. RecordedOncePerKind'
    BY <1>a, <2>1, <2>2, RecordKeepsLog DEF RecordsToCome
  <2>4. \A id, q : Recorded(id, q)' <=> Recorded(id, q) \/ (id = s.id /\ q = "timed_out")
    BY <2>1, <2>2, RecordAdds
  <2>5. \A id : /\ Answered(id)' <=> Answered(id)
                /\ id # s.id => (Recorded(id, "timed_out")' <=> Recorded(id, "timed_out"))
    BY <2>4 DEF Answered
  <2>6. RecordsToCome'
    BY <1>a, <1>b, <1>c, <2>1, <2>2, <2>5 DEF RecordsToCome
  <2>7. ResultsAreRecorded'
    BY <1>a, <2>2, <2>4 DEF ResultsAreRecorded
  <2> QED BY <2>3, <2>6, <2>7 DEF LogInv
<1>13. CASE LeaveBatch
  <2>1. /\ batch' = {} /\ expiring = {} /\ \A s \in batch : worker[s.id] = "finished"
        /\ UNCHANGED <<expiring, completed_steps, step_results, pending_callback_step_id>>
    BY <1>13, <1>c DEF LeaveBatch, AllReturned
  <2>2. RecordsToCome'
    BY <1>a, <2>1, LogStays DEF RecordsToCome
  <2>3. ResultsAreRecorded'
    BY <1>a, <2>1, LogStays DEF ResultsAreRecorded
  <2> QED BY <1>a, <2>1, <2>2, <2>3, LogStays DEF LogInv
<1> QED
  BY <1>1, <1>2, <1>3, <1>4, <1>5, <1>6, <1>7, <1>8, <1>9, <1>10, <1>11, <1>12, <1>13,
     StepKinds

LEMMA InitLog == Init => LogInv
BY DEF Init, LogInv, RecordedOncePerKind, RecordsToCome, ResultsAreRecorded, Results

\* Between turns every result that {{token}}s see was recorded for its step, and a step
\* has two records only if one of them says that it timed out: whatever plans, replans,
\* timeouts and thread interleavings.
THEOREM LogTellsResults == Spec => []ResultsMatchHistory
<1>1. IInv /\ LogInv /\ [Next]_vars => LogInv'
  BY LogStep DEF IInv
<1>2. IInv /\ LogInv => ResultsMatchHistory
  <2> SUFFICES ASSUME IInv, LogInv, turn = "head" PROVE ResultsMatchHistory
    BY DEF ResultsMatchHistory
  <2>1. batch = {} /\ expiring = {}
    BY DEF IInv, PlanInv, TypeOK
  <2>2. \A id \in StepId : step_results[id] \in Results => Recorded(id, step_results[id])
    BY <2>1 DEF LogInv, ResultsAreRecorded
  <2>3. ASSUME NEW i \in DOMAIN completed_steps, NEW j \in DOMAIN completed_steps,
               i # j, completed_steps[i].step.id = completed_steps[j].step.id
        PROVE  /\ "timed_out" \in {completed_steps[i].result, completed_steps[j].result}
               /\ completed_steps[i].result # completed_steps[j].result
    BY <2>3 DEF LogInv, RecordedOncePerKind
  <2> QED BY <2>2, <2>3 DEF ResultsMatchHistory
<1> QED BY InitLog, <1>1, <1>2, Invariance, PTL DEF Spec

\* The steps whose work was started, those of them that a worker has yet to record, and
\* the steps that are recorded as timed out.
Worked == {id \in StepId : started[id] > 0}
Unrecorded == {s.id : s \in {t \in batch : worker[t.id] \in {"running", "stored"}}}
Expired == {id \in StepId : Recorded(id, "timed_out")}

\* Every started piece of work is counted, or its worker has yet to count it; and so is
\* every timeout.
CountInv ==
  /\ IsFiniteSet(Worked)
  /\ IsFiniteSet(Expired)
  /\ Unrecorded \subseteq Worked
  /\ total_steps_executed + Cardinality(Unrecorded)
       = Cardinality(Worked) + resolved + Cardinality(Expired)

\* A step that counts nothing and whose workers record nothing.
LEMMA CountStays ==
  ASSUME CountInv, Unrecorded' = Unrecorded,
         UNCHANGED <<started, total_steps_executed, resolved, completed_steps>>
  PROVE  CountInv'
BY DEF CountInv, Worked, Expired, Recorded

LEMMA CountStep ==
  ASSUME TypeOK, PlanInv, WorkInv, LogInv, CountInv, [Next]_vars
  PROVE  CountInv'
<1> USE DEF plan_state, threads, counters
<1>b. /\ \A s \in batch : s \in Step /\ s.id \in StepId
      /\ \A s, t \in batch : s.id = t.id => s = t
  BY BatchIds
<1>c. /\ IsFiniteSet(Worked) /\ IsFiniteSet(Expired) /\ Unrecorded \subseteq Worked
      /\ total_steps_executed + Cardinality(Unrecorded)
           = Cardinality(Worked) + resolved + Cardinality(Expired)
      /\ total_steps_executed \in Nat /\ resolved \in Nat
  BY DEF CountInv, TypeOK
<1>d. /\ IsFiniteSet(Unrecorded) /\ Cardinality(Unrecorded) \in Nat
      /\ Cardinality(Worked) \in Nat /\ Cardinality(Expired) \in Nat
  BY <1>c, FS_Subset, FS_CardinalityType
<1>1. CASE Quiet
  BY <1>1, CountStays DEF Quiet, Unrecorded
<1>2. ASSUME NEW p \in Plans, NewPlan(p)
      PROVE  CountInv'
  BY <1>2, CountStays DEF NewPlan, Unrecorded
<1>3. CASE ResolveCallback
  <2>1. PendingStep \in Step /\ "resolved" \in Results
    BY <1>3, PendingStepFacts DEF ResolveCallback, Results
  <2>2. Complete(<<[step |-> PendingStep, result |-> "resolved"]>>)
    BY <1>3 DEF ResolveCallback
  <2>3. total_steps_executed' = total_steps_executed + 1 /\ resolved' = resolved + 1
    BY <1>3, <2>1, <2>2, CompleteOne DEF ResolveCallback
  <2>4. Worked' = Worked /\ Unrecorded' = Unrecorded
    BY <1>3 DEF ResolveCallback, Decided, Worked, Unrecorded
  <2>5. Expired' = Expired
    BY <2>1, <2>2, RecordAdds DEF Expired
  <2> QED BY <1>c, <1>d, <2>3, <2>4, <2>5 DEF CountInv
<1>4. ASSUME NEW s \in ReadyBatch, DispatchAlone(s)
      PROVE  CountInv'
  <2>1. s \in Step /\ s.id \in StepId /\ step_results[s.id] = "none"
    BY ReadyBatchFacts DEF Step
  <2>2. batch = {} /\ batch' = {} /\ resolved' = resolved
    BY <1>4 DEF DispatchAlone, Alone, Executing, PlanInv
  <2>3. Unrecorded = {} /\ Unrecorded' = {}
    BY <2>2 DEF Unrecorded
  <2>4. CASE ParkCallback(s)
    BY <2>2, <2>3, <2>4, CountStays DEF ParkCallback
  <2>5. CASE ~ParkCallback(s)
    <3>1. PICK r \in {"ok", "error"} : /\ Complete(<<[step |-> s, result |-> r]>>)
                                       /\ started' = [started EXCEPT ![s.id] = @ + 1]
      BY <1>4, <2>5 DEF DispatchAlone
    <3>2. total_steps_executed' = total_steps_executed + 1
      BY <2>1, <3>1, CompleteOne DEF Results
    <3>3. started[s.id] = 0
      BY <1>4, <2>1, NeverStarted DEF DispatchAlone, Alone, Executing
    <3>4. \A id \in StepId : started'[id] = IF id = s.id THEN 1 ELSE started[id]
      BY <2>1, <3>1, <3>3 DEF TypeOK
    <3>5. Worked' = Worked \cup {s.id} /\ s.id \notin Worked
      BY <2>1, <3>3, <3>4 DEF Worked
    <3>6. IsFiniteSet(Worked') /\ Cardinality(Worked') = Cardinality(Worked) + 1
      BY <1>c, <3>5, FS_AddElement
    <3>7. Cardinality(Unrecorded) = 0 /\ Cardinality(Unrecorded') = 0
      BY <2>3, FS_EmptySet
    <3>8. Expired' = Expired
      BY <2>1, <3>1, RecordAdds DEF Expired, Results
    <3>9. total_steps_executed' + Cardinality(Unrecorded')
            = Cardinality(Worked') + resolved' + Cardinality(Expired')
      <4>1. Cardinality(Expired') = Cardinality(Expired)
        BY <3>8
      <4> QED BY <1>c, <1>d, <2>2, <3>2, <3>6, <3>7, <4>1
    <3> QED BY <1>c, <2>3, <3>6, <3>8, <3>9 DEF CountInv
  <2> QED BY <2>4, <2>5
<1>5. CASE DispatchBatch
  <2>1. \A s \in batch' : worker'[s.id] = "resolving"
    BY <1>5, ReadyBatchFacts DEF DispatchBatch, Step
  <2>2. Unrecorded = {} /\ Unrecorded' = {}
    BY <1>5, <2>1 DEF DispatchBatch, Executing, PlanInv, Unrecorded
  <2> QED BY <1>5, <2>2, CountStays DEF DispatchBatch
<1>6. ASSUME NEW s \in batch, WorkerStart(s)
      PROVE  CountInv'
  <2>1. started[s.id] = 0 /\ worker[s.id] = "resolving"
    BY <1>6 DEF WorkerStart, WorkInv
  <2>2. \A id \in StepId : /\ started'[id] = IF id = s.id THEN 1 ELSE started[id]
                           /\ worker'[id] = IF id = s.id THEN "running" ELSE worker[id]
    BY <1>6, <2>1 DEF WorkerStart, TypeOK
  <2>3. UNCHANGED <<batch, total_steps_executed, resolved, completed_steps>>
    BY <1>6 DEF WorkerStart
  <2>4. Worked' = Worked \cup {s.id} /\ s.id \notin Worked
    BY <1>b, <2>1, <2>2 DEF Worked
  <2>5. Unrecorded' = Unrecorded \cup {s.id} /\ s.id \notin Unrecorded
    BY <1>b, <2>1, <2>2, <2>3 DEF Unrecorded
  <2>6. /\ IsFiniteSet(Worked') /\ Cardinality(Worked') = Cardinality(Worked) + 1
        /\ Cardinality(Unrecorded') = Cardinality(Unrecorded) + 1
    BY <1>c, <1>d, <2>4, <2>5, FS_AddElement
  <2>7. Expired' = Expired
    BY <2>3 DEF Expired, Recorded
  <2> QED BY <1>c, <1>d, <2>3, <2>4, <2>5, <2>6, <2>7 DEF CountInv
<1>7. ASSUME NEW s \in batch, WorkerStore(s)
      PROVE  CountInv'
  <2>1. \A id \in StepId : worker'[id] = IF id = s.id THEN "stored" ELSE worker[id]
    BY <1>7 DEF WorkerStore, TypeOK
  <2>2. /\ UNCHANGED <<batch, started, total_steps_executed, resolved, completed_steps>>
        /\ worker[s.id] = "running"
    BY <1>7 DEF WorkerStore
  <2>3. Unrecorded' = Unrecorded
    BY <1>b, <2>1, <2>2 DEF Unrecorded
  <2> QED BY <2>2, <2>3, CountStays
<1>8. ASSUME NEW s \in batch, WorkerRecord(s)
      PROVE  CountInv'
  <2>1. /\ outcome[s.id] \in Results /\ outcome[s.id] # "timed_out"
        /\ Complete(<<[step |-> s, result |-> outcome[s.id]]>>)
    BY <1>8, <1>b DEF TypeOK, Results, WorkerRecord
  <2>2. total_steps_executed' = total_steps_executed + 1
    BY <1>b, <2>1, CompleteOne
  <2>3. \A id \in StepId : worker'[id] = IF id = s.id THEN "recorded" ELSE worker[id]
    BY <1>8 DEF WorkerRecord, TypeOK
  <2>4. UNCHANGED <<batch, started, resolved>> /\ worker[s.id] = "stored"
    BY <1>8 DEF WorkerRecord
  <2>5. Unrecorded' = Unrecorded \ {s.id} /\ s.id \in Unrecorded
    BY <1>b, <2>3, <2>4 DEF Unrecorded
  <2>6. Cardinality(Unrecorded') = Cardinality(Unrecorded) - 1
    BY <1>d, <2>5, FS_RemoveElement
  <2>7. Worked' = Worked
    BY <2>4 DEF Worked
  <2>8. Expired' = Expired
    BY <1>b, <2>1, RecordAdds DEF Expired
  <2> QED BY <1>c, <1>d, <2>2, <2>4, <2>5, <2>6, <2>7, <2>8 DEF CountInv
<1>9. ASSUME NEW s \in batch, WorkerRaises(s) \/ WorkerPark(s) \/ WorkerReturn(s)
      PROVE  CountInv'
  <2>1. \A id \in StepId \ {s.id} : worker'[id] = worker[id]
    BY <1>9 DEF WorkerRaises, WorkerPark, WorkerReturn, TypeOK
  <2>2. UNCHANGED <<batch, started, total_steps_executed, resolved, completed_steps>>
    BY <1>9 DEF WorkerRaises, WorkerPark, ParkCallback, WorkerReturn
  <2>3. worker[s.id] \in {"resolving", "recorded"} /\ worker'[s.id] \in {"recorded", "finished"}
    BY <1>9, <1>b DEF WorkerRaises, WorkerPark, WorkerReturn, TypeOK
  <2>4. Unrecorded' = Unrecorded
    BY <1>b, <2>1, <2>2, <2>3 DEF Unrecorded
  <2> QED BY <2>2, <2>4, CountStays
<1>10. CASE WaitReturns
  BY <1>10, CountStays DEF WaitReturns, Unrecorded
<1>11. ASSUME NEW s \in late, ExpireStore(s)
       PROVE  CountInv'
  BY <1>11, CountStays DEF ExpireStore, Unrecorded
<1>12. ASSUME NEW s \in expiring, ExpireRecord(s)
       PROVE  CountInv'
  <2>1. /\ s \in Step /\ s.id \in StepId /\ "timed_out" \in Results
        /\ Complete(<<[step |-> s, result |-> "timed_out"]>>)
        /\ s \in late /\ s \in batch
    BY <1>12, <1>b DEF TypeOK, Results, ExpireRecord
  <2>2. total_steps_executed' = total_steps_executed + 1
    BY <2>1, CompleteOne
  <2>3. Expired' = Expired \cup {s.id}
    BY <2>1, RecordAdds DEF Expired
  <2>4. s.id \notin Expired
    BY <2>1 DEF Expired, LogInv, RecordsToCome
  <2>5. IsFiniteSet(Expired') /\ Cardinality(Expired') = Cardinality(Expired) + 1
    BY <1>c, <2>3, <2>4, FS_AddElement
  <2>6. Worked' = Worked /\ Unrecorded' = Unrecorded /\ resolved' = resolved
    BY <1>12 DEF ExpireRecord, Worked, Unrecorded
  <2> QED BY <1>c, <1>d, <2>2, <2>5, <2>6 DEF CountInv
<1>13. CASE LeaveBatch
  <2>1. \A s \in batch : worker[s.id] = "finished"
    BY <1>13 DEF LeaveBatch, AllReturned
  <2>2. Unrecorded = {} /\ Unrecorded' = {}
    BY <1>13, <2>1 DEF LeaveBatch, Unrecorded
  <2> QED BY <1>13, <2>2, CountStays DEF LeaveBatch
<1> QED
  BY <1>1, <1>2, <1>3, <1>4, <1>5, <1>6, <1>7, <1>8, <1>9, <1>10, <1>11, <1>12, <1>13,
     StepKinds

\* Between turns the total that is compared with max_steps is the number of steps whose
\* work was started, plus that of the callbacks that were answered, plus one for each step
\* that timed out.
THEOREM TotalIsTrue == Spec => []TotalCountsExecutions
<1>1. Init => CountInv
  <2> SUFFICES ASSUME Init PROVE CountInv
    OBVIOUS
  <2>1. Worked = {} /\ Unrecorded = {} /\ Expired = {} /\ total_steps_executed = 0 /\ resolved = 0
    BY DEF Init, Worked, Unrecorded, Expired, Recorded
  <2> QED BY <2>1, FS_EmptySet DEF CountInv
<1>2. IInv /\ LogInv /\ CountInv /\ [Next]_vars => LogInv' /\ CountInv'
  BY LogStep, CountStep DEF IInv
<1>3. IInv /\ CountInv => TotalCountsExecutions
  <2> SUFFICES ASSUME IInv, CountInv, turn = "head"
               PROVE  total_steps_executed = Cardinality(Worked) + resolved + Cardinality(Expired)
    BY DEF TotalCountsExecutions, Worked, Expired
  <2>1. Unrecorded = {}
    BY DEF IInv, PlanInv, Unrecorded
  <2>2. Cardinality(Unrecorded) = 0
    BY <2>1, FS_EmptySet
  <2>3. /\ Cardinality(Worked) \in Nat /\ Cardinality(Expired) \in Nat
        /\ resolved \in Nat /\ total_steps_executed \in Nat
    BY FS_CardinalityType DEF CountInv, IInv, TypeOK
  <2> QED BY <2>2, <2>3 DEF CountInv
<1> QED BY InitLog, <1>1, <1>2, <1>3, Invariance, PTL DEF Spec

-----------------------------------------------------------------------------
(***************************************************************************)
(* PlanNeverStuck is refuted (a callback can be lost).  This is the only   *)
(* way: a plan that stops has a step with the sentinel of a callback that  *)
(* nobody waits for.                                                       *)
(***************************************************************************)

\* Steps of the plan that are taken for dispatched, although nobody will record them: the
\* sentinel of a callback that another one has overwritten or a replan has forgotten.
LostCallbacks ==
  {id \in Ids(plan) \ CompletedIds :
     step_results[id] = "pending" /\ id # pending_callback_step_id}

\* An unfinished plan with nothing pending and nothing lost goes on.
StuckOnlyByLostCallbacks ==
  turn = "head" /\ plan_revision > 0 /\ ~AllStepsDone
    /\ pending_callback_step_id = NoStep /\ LostCallbacks = {}
  => ReadyBatch # {}

\* A step depends on earlier steps of the plan only.
PlanOrdered ==
  \A i \in DOMAIN plan : plan[i].deps \subseteq {plan[j].id : j \in 1..(i - 1)}

\* What has a result is recorded, or its worker or the expiring thread is about to.
ResultsGetRecorded ==
  \A id \in StepId : step_results[id] \notin {"none", "pending"} =>
    \/ id \in CompletedIds
    \/ \E s \in batch : s.id = id /\ worker[id] = "stored"
    \/ \E s \in expiring : s.id = id

OrderInv == PlanOrdered /\ ResultsGetRecorded

LEMMA OrderStep ==
  ASSUME TypeOK, PlanInv, DependenciesFirst, OrderInv, [Next]_vars
  PROVE  OrderInv'
<1> USE DEF plan_state, threads, counters
<1>a. PlanOrdered /\ ResultsGetRecorded
  BY DEF OrderInv
<1>b. /\ \A s \in batch : s \in Step /\ s.id \in StepId
      /\ \A s, t \in batch : s.id = t.id => s = t
  BY BatchIds
<1>c. CompletedIds \subseteq StepId /\ \A s \in expiring : s \in batch
  BY RecordedIds DEF TypeOK
<1>1. CASE Quiet
  BY <1>1, <1>a DEF Quiet, OrderInv, PlanOrdered, ResultsGetRecorded, CompletedIds
<1>2. ASSUME NEW p \in Plans, NewPlan(p)
      PROVE  OrderInv'
  <2>1. p \in Seq(Step) /\ \A i \in DOMAIN p : p[i].deps \subseteq {p[j].id : j \in 1..(i - 1)}
    BY <1>2, PlanType DEF NewPlan, ParserAccepts
  <2>2. ResultsGetRecorded'
    <3>1. batch = {} /\ expiring = {} /\ batch' = {} /\ expiring' = {} /\ CompletedIds' = CompletedIds
      BY <1>2 DEF NewPlan, PlanInv, TypeOK, CompletedIds
    <3>2. \A id \in StepId : step_results'[id] \in {"none", step_results[id]}
      BY <1>2 DEF NewPlan, TypeOK
    <3> QED BY <1>a, <3>1, <3>2 DEF ResultsGetRecorded
  <2>3. PlanOrdered'
    <3>1. CASE plan' = p
      BY <2>1, <3>1 DEF PlanOrdered
    <3>2. CASE plan' = [i \in DOMAIN completed_steps |-> completed_steps[i].step] \o p
      <4> DEFINE done == [i \in DOMAIN completed_steps |-> completed_steps[i].step]
                 m == Len(completed_steps)
      <4>1. completed_steps \in Seq(Record) /\ \A r \in Record : r.step \in Step
        BY DEF TypeOK, Record
      <4>2. done \in Seq(Step) /\ Len(done) = m /\ m \in Nat
        BY <4>1
      <4>3. \A i \in 1..m : done[i] = completed_steps[i].step
        BY <4>1
      <4>4. /\ done \o p \in Seq(Step)
            /\ Len(done \o p) = Len(done) + Len(p)
            /\ \A i \in 1..Len(done) : (done \o p)[i] = done[i]
            /\ \A i \in Len(done) + 1 .. Len(done) + Len(p) : (done \o p)[i] = p[i - Len(done)]
        BY <2>1, <4>2
      <4> HIDE DEF done
      <4>5. /\ plan' \in Seq(Step)
            /\ Len(plan') = m + Len(p)
            /\ \A i \in 1..m : plan'[i] = completed_steps[i].step
            /\ \A i \in (m + 1)..(m + Len(p)) : plan'[i] = p[i - m]
        BY <3>2, <4>2, <4>3, <4>4 DEF done
      <4> HIDE DEF m
      <4>6. ASSUME NEW i \in 1..m
            PROVE  plan'[i].deps \subseteq {plan'[j].id : j \in 1..(i - 1)}
        <5>1. completed_steps[i].step.deps \subseteq {completed_steps[j].step.id : j \in 1..(i - 1)}
          BY DEF DependenciesFirst, m
        <5>2. \A j \in 1..(i - 1) : j \in 1..m /\ plan'[j] = completed_steps[j].step
          BY <4>2, <4>5
        <5> QED BY <4>5, <5>1, <5>2
      <4>7. ASSUME NEW i \in (m + 1)..(m + Len(p))
            PROVE  plan'[i].deps \subseteq {plan'[j].id : j \in 1..(i - 1)}
        <5>1. i - m \in DOMAIN p /\ plan'[i] = p[i - m]
          BY <2>1, <4>2, <4>5
        <5>2. p[i - m].deps \subseteq {p[j].id : j \in 1..(i - m - 1)}
          BY <2>1, <5>1
        <5>3. \A j \in 1..(i - m - 1) : m + j \in 1..(i - 1) /\ plan'[m + j] = p[j]
          BY <2>1, <4>2, <4>5
        <5> QED BY <5>1, <5>2, <5>3
      <4>8. \A i \in DOMAIN plan' : i \in 1..m \/ i \in (m + 1)..(m + Len(p))
        BY <2>1, <4>2, <4>5
      <4> QED BY <4>6, <4>7, <4>8 DEF PlanOrdered
    <3> QED BY <1>2, <3>1, <3>2 DEF NewPlan
  <2> QED BY <2>2, <2>3 DEF OrderInv
<1>3. CASE ResolveCallback
  <2>1. PendingStep \in Step /\ PendingStep.id = pending_callback_step_id
    BY <1>3, PendingStepFacts DEF ResolveCallback
  <2>2. CompletedIds' = CompletedIds \cup {pending_callback_step_id}
    BY <1>3, <2>1, CompleteOne DEF ResolveCallback, Results
  <2>3. \A id \in StepId : id # pending_callback_step_id => step_results'[id] = step_results[id]
    BY <1>3 DEF ResolveCallback, TypeOK
  <2>4. UNCHANGED <<plan, batch, worker, expiring>>
    BY <1>3 DEF ResolveCallback, Decided
  <2> QED BY <1>a, <2>2, <2>3, <2>4 DEF OrderInv, PlanOrdered, ResultsGetRecorded
<1>4. ASSUME NEW s \in ReadyBatch, DispatchAlone(s)
      PROVE  OrderInv'
  <2>1. s \in Step /\ s.id \in StepId
    BY ReadyBatchFacts DEF Step
  <2>2. UNCHANGED <<plan, batch, worker, expiring>>
    BY <1>4 DEF DispatchAlone
  <2>3. CASE ParkCallback(s)
    <3>1. \A id \in StepId : step_results'[id] = IF id = s.id THEN "pending" ELSE step_results[id]
      BY <2>3 DEF ParkCallback, TypeOK
    <3>2. CompletedIds' = CompletedIds
      BY <2>3 DEF ParkCallback, CompletedIds
    <3> QED BY <1>a, <2>2, <3>1, <3>2 DEF OrderInv, PlanOrdered, ResultsGetRecorded
  <2>4. CASE ~ParkCallback(s)
    <3>1. PICK r \in {"ok", "error"} : /\ Complete(<<[step |-> s, result |-> r]>>)
                                       /\ step_results' = [step_results EXCEPT ![s.id] = r]
      BY <1>4, <2>4 DEF DispatchAlone
    <3>2. CompletedIds' = CompletedIds \cup {s.id}
      BY <2>1, <3>1, CompleteOne DEF Results
    <3>3. \A id \in StepId : id # s.id => step_results'[id] = step_results[id]
      BY <3>1 DEF TypeOK
    <3> QED BY <1>a, <2>2, <3>2, <3>3 DEF OrderInv, PlanOrdered, ResultsGetRecorded
  <2> QED BY <2>3, <2>4
<1>5. CASE DispatchBatch
  <2>1. UNCHANGED <<plan, step_results, expiring>> /\ CompletedIds' = CompletedIds /\ batch = {}
    BY <1>5 DEF DispatchBatch, Executing, PlanInv, CompletedIds
  <2> QED BY <1>a, <2>1 DEF OrderInv, PlanOrdered, ResultsGetRecorded
<1>6. ASSUME NEW s \in batch, WorkerStore(s)
      PROVE  OrderInv'
  <2>1. \A id \in StepId : /\ id # s.id => step_results'[id] = step_results[id]
                           /\ worker'[id] = IF id = s.id THEN "stored" ELSE worker[id]
    BY <1>6 DEF WorkerStore, TypeOK
  <2>2. UNCHANGED <<plan, batch, expiring>> /\ CompletedIds' = CompletedIds
    BY <1>6 DEF WorkerStore, CompletedIds
  <2> QED BY <1>a, <1>b, <2>1, <2>2 DEF OrderInv, PlanOrdered, ResultsGetRecorded
<1>7. ASSUME NEW s \in batch, WorkerRecord(s)
      PROVE  OrderInv'
  <2>1. outcome[s.id] \in Results /\ Complete(<<[step |-> s, result |-> outcome[s.id]]>>)
    BY <1>7, <1>b DEF TypeOK, Results, WorkerRecord
  <2>2. CompletedIds' = CompletedIds \cup {s.id}
    BY <1>b, <2>1, CompleteOne
  <2>3. \A id \in StepId : id # s.id => worker'[id] = worker[id]
    BY <1>7 DEF WorkerRecord, TypeOK
  <2>4. UNCHANGED <<plan, batch, expiring, step_results>>
    BY <1>7 DEF WorkerRecord
  <2> QED BY <1>a, <1>b, <2>2, <2>3, <2>4 DEF OrderInv, PlanOrdered, ResultsGetRecorded
<1>8. ASSUME NEW s \in batch, WorkerPark(s)
      PROVE  OrderInv'
  <2>1. \A id \in StepId : /\ step_results'[id] = IF id = s.id THEN "pending" ELSE step_results[id]
                           /\ id # s.id => worker'[id] = worker[id]
    BY <1>8 DEF WorkerPark, ParkCallback, TypeOK
  <2>2. UNCHANGED <<plan, batch, expiring>> /\ CompletedIds' = CompletedIds
    BY <1>8 DEF WorkerPark, ParkCallback, CompletedIds
  <2> QED BY <1>a, <1>b, <2>1, <2>2 DEF OrderInv, PlanOrdered, ResultsGetRecorded
<1>9. ASSUME NEW s \in batch, WorkerReturn(s)
      PROVE  OrderInv'
  <2>1. \A id \in StepId : id # s.id => worker'[id] = worker[id]
    BY <1>9 DEF WorkerReturn, TypeOK
  <2>2. /\ UNCHANGED <<plan, batch, expiring, step_results>> /\ CompletedIds' = CompletedIds
        /\ worker[s.id] = "recorded"
    BY <1>9 DEF WorkerReturn, CompletedIds
  <2> QED BY <1>a, <1>b, <2>1, <2>2 DEF OrderInv, PlanOrdered, ResultsGetRecorded
<1>10. CASE WaitReturns
  BY <1>10, <1>a DEF WaitReturns, OrderInv, PlanOrdered, ResultsGetRecorded, CompletedIds
<1>11. ASSUME NEW s \in late, ExpireStore(s)
       PROVE  OrderInv'
  <2>1. \A id \in StepId : id # s.id => step_results'[id] = step_results[id]
    BY <1>11 DEF ExpireStore, TypeOK
  <2>2. /\ UNCHANGED <<plan, batch, worker>> /\ CompletedIds' = CompletedIds
        /\ expiring = {} /\ expiring' = {s}
    BY <1>11 DEF ExpireStore, CompletedIds
  <2> QED BY <1>a, <2>1, <2>2 DEF OrderInv, PlanOrdered, ResultsGetRecorded
<1>12. ASSUME NEW s \in expiring, ExpireRecord(s)
       PROVE  OrderInv'
  <2>1. s \in Step /\ "timed_out" \in Results /\ Complete(<<[step |-> s, result |-> "timed_out"]>>)
    BY <1>12 DEF TypeOK, Results, ExpireRecord
  <2>2. CompletedIds' = CompletedIds \cup {s.id}
    BY <2>1, CompleteOne
  <2>3. UNCHANGED <<plan, batch, worker, step_results>> /\ expiring = {s}
    BY <1>12 DEF ExpireRecord
  <2> QED BY <1>a, <2>2, <2>3 DEF OrderInv, PlanOrdered, ResultsGetRecorded
<1>13. CASE LeaveBatch
  <2>1. \A s \in batch : worker[s.id] = "finished"
    BY <1>13 DEF LeaveBatch, AllReturned
  <2>2. /\ UNCHANGED <<plan, expiring, step_results>> /\ CompletedIds' = CompletedIds
        /\ batch' = {}
    BY <1>13 DEF LeaveBatch, CompletedIds
  <2> QED BY <1>a, <2>1, <2>2 DEF OrderInv, PlanOrdered, ResultsGetRecorded
<1>14. ASSUME NEW s \in batch, WorkerStart(s) \/ WorkerRaises(s)
       PROVE  OrderInv'
  <2>1. \A id \in StepId : id # s.id => worker'[id] = worker[id]
    BY <1>14 DEF WorkerStart, WorkerRaises, TypeOK
  <2>2. /\ UNCHANGED <<plan, batch, expiring, step_results>> /\ CompletedIds' = CompletedIds
        /\ worker[s.id] = "resolving"
    BY <1>14 DEF WorkerStart, WorkerRaises, CompletedIds
  <2> QED BY <1>a, <1>b, <2>1, <2>2 DEF OrderInv, PlanOrdered, ResultsGetRecorded
<1> QED
  BY <1>1, <1>2, <1>3, <1>4, <1>5, <1>6, <1>7, <1>8, <1>9, <1>10, <1>11, <1>12, <1>13,
     <1>14, StepKinds

\* Every nonempty set of naturals has a least member.
LEMMA LeastMember ==
  ASSUME NEW S, S \subseteq Nat, S # {}
  PROVE  \E m \in S : \A k \in S : m <= k
<1>. DEFINE F == {0..k : k \in S}
<1>1. F \subseteq FiniteSubsetsOf(Nat) /\ F # {}
  <2>1. \A k \in Nat : IsFiniteSet(0..k) /\ 0..k \subseteq Nat
    BY FS_Interval
  <2>. QED  BY <2>1 DEF FiniteSubsetsOf
<1>. HIDE DEF F
<1>2. PICK x \in F : \A y \in F : <<y, x>> \notin StrictSubsetOrdering(Nat)
  BY <1>1, FS_StrictSubsetOrderingWellFounded, WFMin
<1>3. PICK m \in S : x = 0..m
  BY DEF F
<1>4. ASSUME NEW k \in S, k < m PROVE FALSE
  <2>1. 0..k \in F /\ 0..k \subseteq 0..m /\ m \notin 0..k /\ m \in 0..m /\ 0..m \subseteq Nat
    BY <1>4 DEF F
  <2>2. <<0..k, x>> \in StrictSubsetOrdering(Nat)
    BY <1>3, <2>1 DEF StrictSubsetOrdering
  <2>. QED  BY <1>2, <2>1, <2>2
<1>. QED  BY <1>4

\* The first step of the plan that is not recorded is ready.
LEMMA FirstOpenIsReady ==
  ASSUME TypeOK, PlanInv, OrderInv, turn = "head", ~AllStepsDone,
         pending_callback_step_id = NoStep, LostCallbacks = {}
  PROVE  ReadyBatch # {}
<1> DEFINE open == {i \in DOMAIN plan : plan[i].id \notin CompletedIds}
           ready == {i \in DOMAIN plan : /\ step_results[plan[i].id] = "none"
                                         /\ plan[i].deps \subseteq CompletedIds}
<1>1. DOMAIN plan \subseteq Nat /\ \A i \in DOMAIN plan : plan[i] \in Step /\ plan[i].id \in StepId
  <2>1. plan \in Seq(Step)
    BY DEF TypeOK
  <2>2. \A i \in DOMAIN plan : plan[i] \in Step
    BY <2>1
  <2>3. \A t \in Step : t.id \in StepId
    BY DEF Step
  <2>4. DOMAIN plan = 1..Len(plan) /\ Len(plan) \in Nat
    BY <2>1
  <2> QED BY <2>2, <2>3, <2>4
<1>2. open \subseteq Nat /\ open # {}
  BY <1>1 DEF AllStepsDone, Ids
<1>3. PICK i \in open : \A k \in open : i <= k
  BY <1>2, LeastMember
<1>4. \A j \in 1..(i - 1) : plan[j].id \in CompletedIds
  <2> TAKE j \in 1..(i - 1)
  <2>1. j \in DOMAIN plan /\ ~(i <= j)
    BY <1>2 DEF TypeOK
  <2> QED BY <1>3, <2>1
<1>5. plan[i].deps \subseteq CompletedIds
  BY <1>4 DEF OrderInv, PlanOrdered
<1>6. batch = {} /\ expiring = {}
  BY DEF PlanInv, TypeOK
<1>7. step_results[plan[i].id] \in {"none", "pending"}
  BY <1>1, <1>6 DEF OrderInv, ResultsGetRecorded
<1>8. step_results[plan[i].id] # "pending"
  <2>1. plan[i].id \in Ids(plan) /\ plan[i].id # NoStep
    BY <1>1, ConfigAssumption DEF Ids
  <2> QED BY <2>1 DEF LostCallbacks
<1>9. i \in ready
  BY <1>5, <1>7, <1>8
<1>10. PICK first \in ready : \A k \in ready : first <= k
  BY <1>1, <1>9, LeastMember
<1> QED BY <1>10 DEF ReadyBatch

\* A plan stops only by a lost callback: whatever plans, replans, timeouts and threads, an
\* unfinished plan with nothing pending has a step that is ready, or the sentinel of a
\* callback that was overwritten by another one or forgotten in a replan.
THEOREM OnlyLostCallbacksStick == Spec => []StuckOnlyByLostCallbacks
<1>1. Init => OrderInv
  BY DEF Init, OrderInv, PlanOrdered, ResultsGetRecorded
<1>2. IInv /\ OrderInv /\ [Next]_vars => OrderInv'
  BY OrderStep DEF IInv
<1>3. IInv /\ OrderInv => StuckOnlyByLostCallbacks
  BY FirstOpenIsReady DEF IInv, StuckOnlyByLostCallbacks
<1> QED BY <1>1, <1>2, <1>3, Invariance, PTL DEF Spec

-----------------------------------------------------------------------------
(***************************************************************************)
(* PlanningDriver implements StepLifecycle, for every value of the         *)
(* constants.  PlanningDriver!Stage says where a step is in its life; each *)
(* step of the driver moves it as StepLifecycle allows, or not at all.     *)
(***************************************************************************)

\* What the refinement needs beyond the inductive invariant: a batch is only in
\* flight while the run goes on; the result table knows only steps of the plan;
\* a pending callback keeps its sentinel; a worker past its work left a result, and
\* one that has not begun it finds none, unless the loop thread gave up on its step.
LifeInv ==
  /\ turn # "head" => status = "running"
  /\ \A id \in StepId : step_results[id] # "none" => id \in Ids(plan)
  /\ pending_callback_step_id # NoStep => step_results[pending_callback_step_id] # "none"
  /\ \A s \in batch :
       /\ worker[s.id] \in {"stored", "recorded"} => step_results[s.id] # "none"
       /\ worker[s.id] = "resolving" =>
            step_results[s.id] = "none" \/ s.id \in CompletedIds \/ s \in expiring

LInv == IInv /\ LifeInv

-----------------------------------------------------------------------------
LEMMA PlanStepIds == \A s \in PlanSteps : s.id \in Ids(plan)
BY DEF PlanSteps, Ids

\* The only steps that change the status are taken while the run goes on, from
\* the head of the loop.
LEMMA StatusChanges ==
  ASSUME [Next]_vars, status' # status
  PROVE  status = "running" /\ turn = "head" /\ turn' = "head"
<1> USE DEF plan_state, threads, counters
<1>1. CASE Decided \/ InvalidDecision \/ ModelCallFails \/ MaxStepsCap
  BY <1>1 DEF Decided, InvalidDecision, ModelCallFails, MaxStepsCap, AwaitingDecision, Executing
<1>2. ASSUME NEW s \in batch, WorkerStore(s) \/ WorkerBookkeeping(s)
      PROVE  FALSE
  BY <1>2 DEF WorkerStore, WorkerBookkeeping, WorkerStart, WorkerRaises, WorkerRecord,
              WorkerPark, WorkerReturn
<1>3. ASSUME NEW s \in ReadyBatch, DispatchAlone(s)
      PROVE  FALSE
  BY <1>3 DEF DispatchAlone
<1>4. CASE DispatchBatch \/ WaitReturns \/ LeaveBatch \/ UNCHANGED vars
  BY <1>4 DEF DispatchBatch, WaitReturns, LeaveBatch, vars
<1>5. ASSUME NEW s \in late, ExpireStore(s)
      PROVE  FALSE
  BY <1>5 DEF ExpireStore
<1>6. ASSUME NEW s \in expiring, ExpireRecord(s)
      PROVE  FALSE
  BY <1>6 DEF ExpireRecord
<1>7. ASSUME NEW s \in ReadyBatch, ResolveAloneRaises(s)
      PROVE  status = "running" /\ turn = "head" /\ turn' = "head"
  BY <1>7 DEF ResolveAloneRaises, Alone, Executing
<1>. QED
  BY <1>1, <1>2, <1>3, <1>4, <1>5, <1>6, <1>7
  DEF Next, ModelTurn, LoopThread, Ended, FinalMessage, SubmitPlan, ContinueAtEndOfPlan,
      ResolveCallback, ContinueForNothing, UnsupportedDecision, Callback, OtherDecision

LEMMA InitLifeInv == Init => LifeInv
BY DEF Init, LifeInv

\* The ids of the plan after a new plan.
LEMMA NewPlanIds ==
  ASSUME TypeOK, PlanInv, NEW p \in Plans, NewPlan(p)
  PROVE  Ids(plan') = CompletedIds \cup Ids(p)
<1>1. p \in Seq(Step)
  BY PlanType
<1>2. CASE plan_revision = 0 /\ plan' = p
  <2>1. CompletedIds = {}
    BY <1>2 DEF PlanInv, PlanSteps, CompletedIds
  <2>. QED  BY <1>2, <2>1
<1>3. CASE plan' = [i \in DOMAIN completed_steps |-> completed_steps[i].step] \o p
  BY <1>1, <1>3, MergedPlan
<1>. QED  BY <1>2, <1>3 DEF NewPlan

LEMMA StepLifeInv == LInv /\ [Next]_vars => LifeInv'
<1> SUFFICES ASSUME TypeOK, PlanInv, WorkInv, LifeInv, [Next]_vars
             PROVE  LifeInv'
  BY DEF LInv, IInv
<1> USE DEF plan_state, threads, counters
<1>0. /\ \A s \in batch : s \in Step /\ s.id \in StepId /\ s.id \in Ids(plan)
      /\ \A s, t \in batch : s.id = t.id => s = t
  BY PlanStepIds DEF PlanInv, TypeOK, Step
<1>1. CASE Quiet
  <2>1. turn' # "head" => status' = "running"
    BY <1>1, StatusChanges DEF Quiet, LifeInv
  <2>2. CompletedIds' = CompletedIds
    BY <1>1 DEF Quiet, CompletedIds
  <2>. QED  BY <1>1, <2>1, <2>2 DEF Quiet, LifeInv
<1>2. ASSUME NEW p \in Plans, NewPlan(p)
      PROVE  LifeInv'
  <2>1. Ids(plan') = CompletedIds \cup Ids(p)
    BY <1>2, NewPlanIds
  <2>2. pending_callback_step_id' = NoStep
    BY <1>2 DEF NewPlan, PlanInv, PlanSteps
  <2>3. \A id \in StepId : step_results'[id] # "none" => id \in Ids(plan)'
    <3>1. CASE plan_revision = 0 /\ UNCHANGED step_results
      BY <3>1 DEF PlanInv, LifeInv, Ids
    <3>2. CASE step_results' = [id \in StepId |-> IF id \in CompletedIds \cup Ids(p)
                                                  THEN step_results[id] ELSE "none"]
      BY <3>2, <2>1
    <3>. QED  BY <1>2, <3>1, <3>2 DEF NewPlan
  <2>. QED  BY <1>2, <2>2, <2>3 DEF NewPlan, LifeInv, PlanInv
<1>3. CASE ResolveCallback
  <2>1. pending_callback_step_id \in StepId /\ pending_callback_step_id \in Ids(plan)
    BY <1>3, PendingStepFacts, PlanStepIds DEF ResolveCallback, Step
  <2>2. \A id \in StepId : step_results'[id] = IF id = pending_callback_step_id
                                              THEN "resolved" ELSE step_results[id]
    BY <1>3 DEF ResolveCallback, TypeOK
  <2>3. UNCHANGED <<plan, batch, turn>> /\ pending_callback_step_id' = NoStep /\ turn = "head" /\ batch = {}
    BY <1>3 DEF ResolveCallback, Decided, AwaitingDecision, PlanInv
  <2>. QED  BY <2>1, <2>2, <2>3 DEF LifeInv
<1>4. ASSUME NEW s \in ReadyBatch, DispatchAlone(s)
      PROVE  LifeInv'
  <2>1. s.id \in StepId /\ s.id \in Ids(plan)
    BY ReadyBatchFacts, PlanStepIds DEF Step
  <2>2. UNCHANGED <<plan, batch, turn>> /\ turn = "head" /\ batch = {}
    BY <1>4 DEF DispatchAlone, Alone, Executing, PlanInv
  <2>3. PICK r : r # "none" /\ step_results' = [step_results EXCEPT ![s.id] = r]
    BY <1>4 DEF DispatchAlone, ParkCallback
  <2>4. \A id \in StepId : step_results'[id] = IF id = s.id THEN r ELSE step_results[id]
    BY <2>3 DEF TypeOK
  <2>5. pending_callback_step_id' \in {pending_callback_step_id, s.id}
    BY <1>4 DEF DispatchAlone, ParkCallback
  <2>. QED  BY <2>1, <2>2, <2>3, <2>4, <2>5, PendingType DEF LifeInv
<1>5. CASE DispatchBatch
  <2>1. \A s \in ReadyBatch : s.id \in StepId /\ step_results[s.id] = "none"
    BY ReadyBatchFacts DEF Step
  <2>2. \A s \in batch' : worker'[s.id] = "resolving" /\ step_results'[s.id] = "none"
    BY <1>5, <2>1 DEF DispatchBatch
  <2>. QED  BY <1>5, <2>2 DEF DispatchBatch, Executing, LifeInv
<1>6. ASSUME NEW s \in batch, WorkerStore(s) \/ WorkerPark(s)
      PROVE  LifeInv'
  <2>1. PICK r : r # "none" /\ step_results' = [step_results EXCEPT ![s.id] = r]
    BY <1>6 DEF WorkerStore, WorkerPark, ParkCallback
  <2>2. \A id \in StepId : step_results'[id] = IF id = s.id THEN r ELSE step_results[id]
    BY <2>1 DEF TypeOK
  <2>3. \A id \in StepId : id # s.id => worker'[id] = worker[id]
    BY <1>6 DEF WorkerStore, WorkerPark, TypeOK
  <2>4. worker'[s.id] \in {"stored", "recorded"}
    BY <1>6, <1>0 DEF WorkerStore, WorkerPark, TypeOK
  <2>5. UNCHANGED <<plan, batch, turn, status, expiring, completed_steps>>
    BY <1>6 DEF WorkerStore, WorkerPark, ParkCallback
  <2>6. pending_callback_step_id' \in {pending_callback_step_id, s.id}
    BY <1>6 DEF WorkerStore, WorkerPark, ParkCallback
  <2>7. CompletedIds' = CompletedIds
    BY <2>5 DEF CompletedIds
  <2>. QED  BY <1>0, <2>1, <2>2, <2>3, <2>4, <2>5, <2>6, <2>7, PendingType DEF LifeInv
<1>7. ASSUME NEW s \in batch,
             WorkerStart(s) \/ WorkerRaises(s) \/ WorkerRecord(s) \/ WorkerReturn(s)
      PROVE  LifeInv'
  <2>1. \A id \in StepId : id # s.id => worker'[id] = worker[id]
    BY <1>7 DEF WorkerStart, WorkerRaises, WorkerRecord, WorkerReturn, TypeOK
  <2>2. \/ worker'[s.id] \in {"running", "finished"}
        \/ worker[s.id] = "stored" /\ worker'[s.id] = "recorded"
    BY <1>7, <1>0 DEF WorkerStart, WorkerRaises, WorkerRecord, WorkerReturn, TypeOK
  <2>3. /\ UNCHANGED <<plan, batch, turn, status, step_results, pending_callback_step_id,
                       expiring>>
        /\ CompletedIds \subseteq CompletedIds'
    <3>1. CASE WorkerRecord(s)
      <4>1. outcome[s.id] \in Results /\ Complete(<<[step |-> s, result |-> outcome[s.id]]>>)
        BY <1>0, <3>1 DEF TypeOK, Results, WorkerRecord
      <4>. QED  BY <1>0, <3>1, <4>1, CompleteOne DEF WorkerRecord
    <3>2. CASE ~WorkerRecord(s)
      BY <1>7, <3>2 DEF WorkerStart, WorkerRaises, WorkerReturn, CompletedIds
    <3>. QED  BY <3>1, <3>2
  <2>. QED  BY <1>0, <2>1, <2>2, <2>3 DEF LifeInv
<1>8. CASE WaitReturns
  <2>1. CompletedIds' = CompletedIds
    BY <1>8 DEF WaitReturns, CompletedIds
  <2>. QED  BY <1>8, <2>1 DEF WaitReturns, LifeInv
<1>9. ASSUME NEW s \in late, ExpireStore(s)
      PROVE  LifeInv'
  <2>1. s \in batch
    BY DEF TypeOK
  <2>2. \A id \in StepId : step_results'[id] = IF id = s.id THEN "timed_out" ELSE step_results[id]
    BY <1>9 DEF ExpireStore, TypeOK
  <2>3. /\ UNCHANGED <<plan, batch, turn, status, worker, pending_callback_step_id>>
        /\ expiring = {} /\ expiring' = {s} /\ CompletedIds' = CompletedIds
    BY <1>9 DEF ExpireStore, CompletedIds
  <2>. QED  BY <1>0, <2>1, <2>2, <2>3, PendingType DEF LifeInv
<1>10. ASSUME NEW s \in expiring, ExpireRecord(s)
       PROVE  LifeInv'
  <2>1. s \in Step /\ "timed_out" \in Results /\ Complete(<<[step |-> s, result |-> "timed_out"]>>)
    BY <1>10 DEF TypeOK, Results, ExpireRecord
  <2>2. CompletedIds' = CompletedIds \cup {s.id}
    BY <2>1, CompleteOne
  <2>3. /\ UNCHANGED <<plan, batch, turn, status, worker, step_results,
                       pending_callback_step_id>>
        /\ expiring = {s}
    BY <1>10 DEF ExpireRecord
  <2>. QED  BY <2>2, <2>3 DEF LifeInv
<1>11. CASE LeaveBatch
  BY <1>11 DEF LeaveBatch, LifeInv
<1>. QED
  BY <1>1, <1>2, <1>3, <1>4, <1>5, <1>6, <1>7, <1>8, <1>9, <1>10, <1>11, StepKinds

-----------------------------------------------------------------------------
\* What Stage says, id by id.
LEMMA StageIs ==
  /\ DOMAIN Stage = StepId
  /\ \A id \in StepId :
       /\ id \in CompletedIds => Stage[id] = "done"
       /\ id \notin CompletedIds /\ InFlight(id) => Stage[id] = "running"
       /\ id \notin CompletedIds /\ ~InFlight(id) =>
            /\ step_results[id] # "none" => Stage[id] = "waiting"
            /\ step_results[id] = "none" /\ id \in Ids(plan) => Stage[id] = "planned"
            /\ step_results[id] = "none" /\ id \notin Ids(plan) => Stage[id] = "absent"
BY DEF Stage

LEMMA StageIsNext ==
  /\ DOMAIN Stage' = StepId
  /\ \A id \in StepId :
       /\ id \in CompletedIds' => Stage'[id] = "done"
       /\ id \notin CompletedIds' /\ InFlight(id)' => Stage'[id] = "running"
       /\ id \notin CompletedIds' /\ ~InFlight(id)' =>
            /\ step_results'[id] # "none" => Stage'[id] = "waiting"
            /\ step_results'[id] = "none" /\ id \in Ids(plan') => Stage'[id] = "planned"
            /\ step_results'[id] = "none" /\ id \notin Ids(plan') => Stage'[id] = "absent"
BY DEF Stage

\* Nothing is in flight at the head of the loop.
LEMMA NothingInFlight ==
  ASSUME batch = {} PROVE \A id \in StepId : ~InFlight(id)
BY DEF InFlight

\* A step of the driver in which one id moves on.
LEMMA OneMoves ==
  ASSUME NEW id \in StepId,
         \A other \in StepId : other # id => Stage'[other] = Stage[other],
         \/ Stage'[id] = Stage[id]
         \/ Stage[id] = "planned" /\ Stage'[id] \in {"running", "done", "waiting"}
         \/ Stage[id] = "running" /\ Stage'[id] \in {"done", "waiting"}
         \/ Stage[id] = "waiting" /\ Stage'[id] = "done",
         status = "running", UNCHANGED status
  PROVE  [Lifecycle!Next]_(Lifecycle!vars)
<1>1. /\ DOMAIN Stage = StepId /\ DOMAIN Stage' = StepId
      /\ Stage = [i \in StepId |-> Stage[i]] /\ Stage' = [i \in StepId |-> Stage'[i]]
  BY DEF Stage
<1>2. CASE Stage'[id] = Stage[id]
  <2>1. \A i \in StepId : Stage'[i] = Stage[i]
    BY <1>2
  <2>2. Stage' = Stage
    BY <1>1, <2>1
  <2>. QED  BY <2>2 DEF Lifecycle!vars
<1>3. CASE Stage'[id] # Stage[id]
  <2>1. Stage' = [Stage EXCEPT ![id] = Stage'[id]]
    BY <1>1
  <2>2. CASE Stage'[id] = "running"
    <3>1. Stage' = [i \in StepId |-> IF i \in {id} THEN "running" ELSE Stage[i]]
      BY <1>1, <2>1, <2>2
    <3>2. {id} \subseteq Lifecycle!InStage("planned")
      BY <1>3, <2>2 DEF Lifecycle!InStage
    <3>3. Lifecycle!Start({id}) /\ {id} \in SUBSET StepId
      BY <3>1, <3>2 DEF Lifecycle!Start
    <3>. QED  BY <3>3 DEF Lifecycle!Next
  <2>3. CASE Stage'[id] # "running"
    <3>1. Lifecycle!Advance(id)
      BY <2>1, <1>3, <2>3 DEF Lifecycle!Advance, Lifecycle!Move
    <3>. QED  BY <3>1 DEF Lifecycle!Next
  <2>. QED  BY <2>2, <2>3
<1>. QED  BY <1>2, <1>3

\* A new plan, as the lifecycle sees it.
LEMMA NewPlanRefines ==
  ASSUME TypeOK, PlanInv, WorkInv, LifeInv, NEW p \in Plans, NewPlan(p)
  PROVE  Lifecycle!Next
<1>1. /\ \A id \in StepId : ~InFlight(id)
      /\ \A id \in StepId : ~InFlight(id)'
  BY NothingInFlight DEF NewPlan, PlanInv, InFlight
<1>2. Ids(plan') = CompletedIds \cup Ids(p) /\ CompletedIds' = CompletedIds
  BY NewPlanIds, ZenonT(30) DEF NewPlan, CompletedIds
<1>3. Lifecycle!InStage("running") = {}
  BY <1>1, StageIs DEF Lifecycle!InStage
<1>4. Ids(p) \cap Lifecycle!InStage("done") = {}
  <2> SUFFICES ASSUME NEW id \in StepId, id \in Ids(p), Stage[id] = "done"
               PROVE  FALSE
    BY DEF Lifecycle!InStage
  <2>1. id \in CompletedIds
    BY <1>1, StageIs
  <2>. QED  BY <2>1 DEF NewPlan, Collides
<1>5. Stage' \in [StepId -> Lifecycle!Stages]
  BY DEF Stage, Lifecycle!Stages
<1>6. ASSUME NEW id \in StepId
      PROVE  Stage'[id] \in IF Stage[id] = "done" THEN {"done"}
                            ELSE IF id \notin Ids(p) THEN {"absent"}
                            ELSE IF Stage[id] = "waiting" THEN {"planned", "waiting"}
                            ELSE {"planned"}
  <2>1. CASE id \in CompletedIds
    BY <2>1, <1>2, StageIs, StageIsNext
  <2>2. CASE id \notin CompletedIds /\ id \notin Ids(p)
    <3>1. step_results'[id] = "none"
      <4>1. CASE plan_revision = 0 /\ UNCHANGED step_results
        BY <4>1 DEF PlanInv, LifeInv, Ids
      <4>2. CASE step_results' = [i \in StepId |-> IF i \in CompletedIds \cup Ids(p)
                                                   THEN step_results[i] ELSE "none"]
        BY <4>2, <2>2
      <4>. QED  BY <4>1, <4>2 DEF NewPlan
    <3>2. Stage'[id] = "absent"
      BY <1>1, <1>2, <2>2, <3>1, StageIsNext
    <3>3. Stage[id] # "done"
      BY <1>1, <2>2, StageIs
    <3>. QED  BY <2>2, <3>2, <3>3
  <2>3. CASE id \notin CompletedIds /\ id \in Ids(p)
    <3>1. step_results'[id] = step_results[id]
      BY <2>3 DEF NewPlan
    <3>2. Stage'[id] = IF step_results[id] = "none" THEN "planned" ELSE "waiting"
      BY <1>1, <1>2, <2>3, <3>1, StageIsNext
    <3>3. /\ Stage[id] # "done"
          /\ step_results[id] # "none" => Stage[id] = "waiting"
          /\ step_results[id] = "none" => Stage[id] \in {"planned", "absent"}
      BY <1>1, <2>3, StageIs
    <3>. QED  BY <2>3, <3>2, <3>3
  <2>. QED  BY <2>1, <2>2, <2>3
<1>7. Ids(p) \subseteq StepId
  <2>1. \A i \in DOMAIN p : p[i] \in Step
    BY PlanType
  <2>. QED  BY <2>1 DEF Ids, Step
<1>8. Lifecycle!Plan(Ids(p))
  BY <1>3, <1>4, <1>5, <1>6 DEF Lifecycle!Plan
<1>. QED  BY <1>7, <1>8 DEF Lifecycle!Next, NewPlan

\* A step that leaves what Stage reads alone, but for one worker that stays on
\* the same side of its work.
LEMMA SameStage ==
  ASSUME UNCHANGED <<plan, completed_steps, step_results>>,
         \A id \in StepId : InFlight(id)' <=> InFlight(id)
  PROVE  Stage' = Stage
<1>1. CompletedIds' = CompletedIds
  BY DEF CompletedIds
<1>. QED  BY <1>1 DEF Stage

\* A parallel batch: its threads have started nothing yet.
LEMMA DispatchBatchRefines ==
  ASSUME TypeOK, PlanInv, WorkInv, LifeInv, DispatchBatch
  PROVE  [Lifecycle!Next]_(Lifecycle!vars)
<1> USE DEF plan_state, threads, counters
<1>1. expiring = {} /\ UNCHANGED <<plan, completed_steps, step_results, expiring, status>>
  BY DEF DispatchBatch, Executing, PlanInv, TypeOK
<1>2. \A s \in batch' : worker'[s.id] = "resolving"
  BY ReadyBatchFacts DEF DispatchBatch, Step
<1>3. \A id \in StepId : ~InFlight(id) /\ ~InFlight(id)'
  BY <1>1, <1>2 DEF InFlight, DispatchBatch, Executing, PlanInv
<1>4. Stage' = Stage
  BY <1>1, <1>3, SameStage
<1>. QED  BY <1>1, <1>4 DEF Lifecycle!vars

\* An answered callback.
LEMMA ResolveRefines ==
  ASSUME TypeOK, PlanInv, WorkInv, LifeInv, ResolveCallback
  PROVE  [Lifecycle!Next]_(Lifecycle!vars)
<1> USE DEF plan_state, threads, counters
<1> DEFINE id == pending_callback_step_id
<1>1. PendingStep \in Step /\ PendingStep.id = id /\ id \in StepId
  BY PendingStepFacts DEF ResolveCallback, Step
<1>2. CompletedIds' = CompletedIds \cup {id}
  <2>1. Complete(<<[step |-> PendingStep, result |-> "resolved"]>>) /\ "resolved" \in Results
    BY DEF ResolveCallback, Results
  <2>. QED  BY <1>1, <2>1, CompleteOne
<1>3. \A i \in StepId : ~InFlight(i) /\ ~InFlight(i)'
  BY DEF ResolveCallback, Decided, AwaitingDecision, PlanInv, InFlight
<1>4. UNCHANGED <<plan, status>> /\ status = "running" /\ step_results[id] # "none"
  BY DEF ResolveCallback, Decided, AwaitingDecision, LifeInv
<1>5. \A i \in StepId : i # id => step_results'[i] = step_results[i]
  BY DEF ResolveCallback, TypeOK
<1>6. \A i \in StepId : i # id => Stage'[i] = Stage[i]
  BY <1>2, <1>3, <1>4, <1>5 DEF Stage
<1>7. Stage'[id] = "done" /\ Stage[id] \in {"waiting", "done"}
  BY <1>1, <1>2, <1>3, <1>4, StageIs, StageIsNext
<1>. QED  BY <1>1, <1>4, <1>6, <1>7, OneMoves

\* A step that runs alone is done, or parked, at once.
LEMMA DispatchAloneRefines ==
  ASSUME TypeOK, PlanInv, WorkInv, LifeInv, NEW s \in ReadyBatch, DispatchAlone(s)
  PROVE  [Lifecycle!Next]_(Lifecycle!vars)
<1> USE DEF plan_state, threads, counters
<1>1. s \in Step /\ s.id \in StepId /\ s.id \in Ids(plan) /\ step_results[s.id] = "none"
  BY ReadyBatchFacts, PlanStepIds DEF Step
<1>2. s.id \notin CompletedIds
  BY <1>1 DEF WorkInv
<1>3. \A i \in StepId : ~InFlight(i) /\ ~InFlight(i)'
  BY DEF DispatchAlone, Alone, Executing, PlanInv, InFlight
<1>4. UNCHANGED <<plan, status>> /\ status = "running"
  BY DEF DispatchAlone, Alone, Executing
<1>5. Stage[s.id] = "planned"
  BY <1>1, <1>2, <1>3, StageIs
<1>6. PICK r : r # "none" /\ step_results' = [step_results EXCEPT ![s.id] = r]
  BY DEF DispatchAlone, ParkCallback
<1>7. \A i \in StepId : step_results'[i] = IF i = s.id THEN r ELSE step_results[i]
  BY <1>6 DEF TypeOK
<1>8. CompletedIds' = CompletedIds \/ CompletedIds' = CompletedIds \cup {s.id}
  <2>1. CASE completed_steps' = completed_steps
    BY <2>1 DEF CompletedIds
  <2>2. CASE completed_steps' # completed_steps
    <3>1. PICK q \in {"ok", "error"} : Complete(<<[step |-> s, result |-> q]>>)
      BY <2>2 DEF DispatchAlone, ParkCallback
    <3>. QED  BY <1>1, <3>1, CompleteOne DEF Results
  <2>. QED  BY <2>1, <2>2
<1>9. \A i \in StepId : i # s.id => Stage'[i] = Stage[i]
  BY <1>3, <1>4, <1>7, <1>8 DEF Stage
<1>10. Stage'[s.id] \in {"done", "waiting"}
  BY <1>1, <1>3, <1>6, <1>7, StageIsNext
<1>. QED  BY <1>1, <1>4, <1>5, <1>9, <1>10, OneMoves

\* What a worker thread does moves its own step, and no other.
LEMMA WorkerRefines ==
  ASSUME TypeOK, PlanInv, WorkInv, LifeInv, NEW s \in batch,
         \/ WorkerStart(s) \/ WorkerRaises(s) \/ WorkerStore(s)
         \/ WorkerRecord(s) \/ WorkerPark(s) \/ WorkerReturn(s)
  PROVE  [Lifecycle!Next]_(Lifecycle!vars)
<1> USE DEF plan_state, threads, counters
<1>1. s \in Step /\ s.id \in StepId /\ s.id \in Ids(plan)
  BY PlanStepIds DEF TypeOK, Step, PlanInv
<1>2. status = "running" /\ UNCHANGED <<status, plan, batch, expiring>>
  BY DEF LifeInv, PlanInv, WorkerStart, WorkerRaises, WorkerStore, WorkerRecord, WorkerPark,
         ParkCallback, WorkerReturn
<1>3. \A i \in StepId : i # s.id => worker'[i] = worker[i] /\ step_results'[i] = step_results[i]
  BY DEF WorkerStart, WorkerRaises, WorkerStore, WorkerRecord, WorkerPark, ParkCallback,
         WorkerReturn, TypeOK
<1>4. CompletedIds' = CompletedIds \/ (WorkerRecord(s) /\ CompletedIds' = CompletedIds \cup {s.id})
  <2>1. CASE WorkerRecord(s)
    <3>1. outcome[s.id] \in Results /\ Complete(<<[step |-> s, result |-> outcome[s.id]]>>)
      BY <1>1, <2>1 DEF WorkerRecord, TypeOK, Results
    <3>. QED  BY <1>1, <2>1, <3>1, CompleteOne
  <2>2. CASE ~WorkerRecord(s)
    BY <2>2 DEF WorkerStart, WorkerRaises, WorkerStore, WorkerPark, ParkCallback, WorkerReturn,
                CompletedIds
  <2>. QED  BY <2>1, <2>2
<1>5. \A i \in StepId : i # s.id => (InFlight(i)' <=> InFlight(i))
  BY <1>2, <1>3 DEF InFlight
<1>6. \A i \in StepId : i # s.id => Stage'[i] = Stage[i]
  BY <1>2, <1>3, <1>4, <1>5 DEF Stage
<1>a. InFlight(s.id) <=> \/ worker[s.id] \in {"running", "stored"}
                         \/ worker[s.id] = "resolving" /\ s \in expiring
  BY DEF InFlight, PlanInv
<1>b. InFlight(s.id)' <=> \/ worker'[s.id] \in {"running", "stored"}
                          \/ worker'[s.id] = "resolving" /\ s \in expiring
  BY <1>2 DEF InFlight, PlanInv
<1>7. \/ Stage'[s.id] = Stage[s.id]
      \/ Stage[s.id] = "planned" /\ Stage'[s.id] \in {"running", "waiting"}
      \/ Stage[s.id] = "running" /\ Stage'[s.id] \in {"done", "waiting"}
  <2>1. CASE s.id \in CompletedIds
    BY <1>1, <1>4, <2>1, StageIs, StageIsNext
  <2>2. CASE s.id \notin CompletedIds /\ WorkerStart(s)
    <3>1. /\ worker[s.id] = "resolving" /\ worker'[s.id] = "running"
          /\ CompletedIds' = CompletedIds
      BY <1>1, <2>2 DEF WorkerStart, TypeOK, CompletedIds
    <3>2. Stage'[s.id] = "running"
      BY <1>1, <1>b, <2>2, <3>1, StageIsNext
    <3>3. Stage[s.id] \in {"running", "planned"}
      BY <1>1, <1>a, <2>2, <3>1, StageIs DEF LifeInv
    <3>. QED  BY <3>2, <3>3
  <2>3. CASE s.id \notin CompletedIds /\ WorkerRaises(s)
    <3>1. /\ worker[s.id] = "resolving" /\ worker'[s.id] = "finished"
          /\ CompletedIds' = CompletedIds /\ step_results' = step_results
      BY <1>1, <2>3 DEF WorkerRaises, TypeOK, CompletedIds
    <3>2. CASE s \in expiring
      <4>1. step_results[s.id] # "none"
        BY <3>2 DEF WorkInv
      <4>2. Stage[s.id] = "running" /\ Stage'[s.id] = "waiting"
        BY <1>1, <1>a, <1>b, <2>3, <3>1, <3>2, <4>1, StageIs, StageIsNext
      <4>. QED  BY <4>2
    <3>3. CASE s \notin expiring
      <4>1. ~InFlight(s.id) /\ ~InFlight(s.id)'
        BY <1>a, <1>b, <3>1, <3>3
      <4>2. Stage'[s.id] = Stage[s.id]
        BY <1>1, <1>2, <3>1, <4>1 DEF Stage
      <4>. QED  BY <4>2
    <3>. QED  BY <3>2, <3>3
  <2>4. CASE s.id \notin CompletedIds /\ WorkerStore(s)
    <3>1. worker[s.id] = "running" /\ worker'[s.id] = "stored" /\ CompletedIds' = CompletedIds
      BY <1>1, <2>4 DEF WorkerStore, TypeOK, CompletedIds
    <3>2. InFlight(s.id) /\ InFlight(s.id)'
      BY <1>a, <1>b, <3>1
    <3>. QED  BY <1>1, <2>4, <3>1, <3>2, StageIs, StageIsNext
  <2>5. CASE s.id \notin CompletedIds /\ WorkerRecord(s)
    <3>1. worker[s.id] = "stored" /\ worker'[s.id] = "recorded" /\ step_results' = step_results
      BY <1>1, <2>5 DEF WorkerRecord, TypeOK
    <3>2. InFlight(s.id) /\ ~InFlight(s.id)' /\ step_results'[s.id] # "none"
      BY <1>a, <1>b, <3>1 DEF WorkInv
    <3>. QED  BY <1>1, <2>5, <3>2, StageIs, StageIsNext
  <2>6. CASE s.id \notin CompletedIds /\ WorkerPark(s)
    <3>1. /\ worker[s.id] = "resolving" /\ worker'[s.id] = "recorded"
          /\ CompletedIds' = CompletedIds /\ step_results'[s.id] = "pending"
      BY <1>1, <2>6 DEF WorkerPark, ParkCallback, TypeOK, CompletedIds
    <3>2. Stage'[s.id] = "waiting"
      BY <1>1, <1>b, <2>6, <3>1, StageIsNext
    <3>3. Stage[s.id] \in {"running", "planned"}
      BY <1>1, <1>a, <2>6, <3>1, StageIs DEF LifeInv
    <3>. QED  BY <3>2, <3>3
  <2>7. CASE s.id \notin CompletedIds /\ WorkerReturn(s)
    <3>1. /\ worker[s.id] = "recorded" /\ worker'[s.id] = "finished"
          /\ UNCHANGED <<completed_steps, step_results>>
      BY <1>1, <2>7 DEF WorkerReturn, TypeOK
    <3>2. ~InFlight(s.id) /\ ~InFlight(s.id)'
      BY <1>a, <1>b, <3>1
    <3>3. CompletedIds' = CompletedIds
      BY <3>1 DEF CompletedIds
    <3>. QED  BY <1>1, <1>2, <3>1, <3>2, <3>3 DEF Stage
  <2>. QED  BY <2>1, <2>2, <2>3, <2>4, <2>5, <2>6, <2>7
<1>. QED  BY <1>1, <1>2, <1>6, <1>7, OneMoves

\* The loop thread gives up on late steps: a step that has not begun is taken for a
\* running one, or, once its resolver has raised, for a waiting one; when it is
\* recorded it is done.
LEMMA ExpireRefines ==
  ASSUME TypeOK, PlanInv, WorkInv, LifeInv, NEW s \in late,
         ExpireStore(s) \/ (s \in expiring /\ ExpireRecord(s))
  PROVE  [Lifecycle!Next]_(Lifecycle!vars)
<1> USE DEF plan_state, threads, counters
<1>1. s \in batch /\ s \in Step /\ s.id \in StepId /\ s.id \in Ids(plan)
  BY PlanStepIds DEF TypeOK, Step, PlanInv
<1>2. UNCHANGED <<plan, status, batch, worker>> /\ status = "running"
  BY DEF ExpireStore, ExpireRecord, LifeInv
<1>3. /\ expiring \subseteq {s} /\ expiring' \subseteq {s}
      /\ \A t \in batch : t.id = s.id => t = s
  BY <1>1 DEF ExpireStore, ExpireRecord, PlanInv
<1>4. \A i \in StepId : i # s.id => (InFlight(i)' <=> InFlight(i))
  BY <1>2, <1>3 DEF InFlight
<1>a. InFlight(s.id) <=> \/ worker[s.id] \in {"running", "stored"}
                         \/ worker[s.id] = "resolving" /\ s \in expiring
  BY <1>1, <1>3 DEF InFlight
<1>b. InFlight(s.id)' <=> \/ worker[s.id] \in {"running", "stored"}
                          \/ worker[s.id] = "resolving" /\ s \in expiring'
  BY <1>1, <1>2, <1>3 DEF InFlight
<1>5. CASE ExpireStore(s)
  <2>1. \A i \in StepId : i # s.id => step_results'[i] = step_results[i]
    BY <1>5 DEF ExpireStore, TypeOK
  <2>2. step_results'[s.id] # "none" /\ CompletedIds' = CompletedIds
    BY <1>1, <1>5 DEF ExpireStore, TypeOK, CompletedIds
  <2>3. \A i \in StepId : i # s.id => Stage'[i] = Stage[i]
    BY <1>2, <1>4, <2>1, <2>2 DEF Stage
  <2>4. expiring = {} /\ expiring' = {s}
    BY <1>5 DEF ExpireStore
  <2>5. \/ Stage'[s.id] = Stage[s.id]
        \/ Stage[s.id] = "planned" /\ Stage'[s.id] \in {"running", "waiting"}
    <3>1. CASE s.id \in CompletedIds
      BY <1>1, <2>2, <3>1, StageIs, StageIsNext
    <3>2. CASE s.id \notin CompletedIds /\ worker[s.id] \in {"running", "stored"}
      BY <1>1, <1>a, <1>b, <2>2, <3>2, StageIs, StageIsNext
    <3>3. CASE s.id \notin CompletedIds /\ worker[s.id] \notin {"running", "stored"}
      <4>1. Stage[s.id] \in {"planned", "waiting"}
        BY <1>1, <1>a, <2>4, <3>3, StageIs
      <4>2. Stage'[s.id] \in {"running", "waiting"}
        BY <1>1, <2>2, <3>3, StageIsNext
      <4>3. worker[s.id] = "resolving" => Stage[s.id] = "planned"
        BY <1>1, <1>a, <2>4, <3>3, StageIs DEF LifeInv
      <4>4. worker[s.id] # "resolving" => Stage'[s.id] = "waiting"
        BY <1>1, <1>b, <2>2, <3>3, StageIsNext
      <4>. QED  BY <4>1, <4>2, <4>3, <4>4
    <3>. QED  BY <3>1, <3>2, <3>3
  <2>. QED  BY <1>1, <1>2, <2>3, <2>5, OneMoves
<1>6. CASE s \in expiring /\ ExpireRecord(s)
  <2>1. Complete(<<[step |-> s, result |-> "timed_out"]>>) /\ "timed_out" \in Results
    BY <1>6 DEF ExpireRecord, Results
  <2>2. CompletedIds' = CompletedIds \cup {s.id} /\ UNCHANGED step_results
    BY <1>1, <1>6, <2>1, CompleteOne DEF ExpireRecord
  <2>3. \A i \in StepId : i # s.id => Stage'[i] = Stage[i]
    BY <1>2, <1>4, <2>2 DEF Stage
  <2>4. Stage'[s.id] = "done"
    BY <1>1, <2>2, StageIsNext
  <2>5. step_results[s.id] # "none"
    BY <1>6 DEF WorkInv
  <2>6. Stage[s.id] \in {"running", "waiting", "done"}
    BY <1>1, <2>5, StageIs
  <2>. QED  BY <1>1, <1>2, <2>3, <2>4, <2>6, OneMoves
<1>. QED  BY <1>5, <1>6

\* Every step of the driver is a step of the lifecycle, or none.
LEMMA StepRefines == LInv /\ [Next]_vars => [Lifecycle!Next]_(Lifecycle!vars)
<1> SUFFICES ASSUME TypeOK, PlanInv, WorkInv, LifeInv, [Next]_vars
             PROVE  [Lifecycle!Next]_(Lifecycle!vars)
  BY DEF LInv, IInv
<1>1. CASE Quiet
  <2>1. Stage' = Stage
    BY <1>1, SameStage DEF Quiet, InFlight
  <2>2. CASE UNCHANGED status
    BY <2>1, <2>2 DEF Lifecycle!vars
  <2>3. CASE status' # status
    <3>1. status = "running"
      BY <2>3, StatusChanges
    <3>. QED  BY <2>1, <2>3, <3>1 DEF Lifecycle!Next, Lifecycle!End
  <2>. QED  BY <2>2, <2>3
<1>2. ASSUME NEW p \in Plans, NewPlan(p)
      PROVE  [Lifecycle!Next]_(Lifecycle!vars)
  BY <1>2, NewPlanRefines DEF NewPlan
<1>3. CASE ResolveCallback
  BY <1>3, ResolveRefines
<1>4. ASSUME NEW s \in ReadyBatch, DispatchAlone(s)
      PROVE  [Lifecycle!Next]_(Lifecycle!vars)
  BY <1>4, DispatchAloneRefines
<1>5. CASE DispatchBatch
  BY <1>5, DispatchBatchRefines
<1>6. ASSUME NEW s \in batch,
             \/ WorkerStart(s) \/ WorkerRaises(s) \/ WorkerStore(s)
             \/ WorkerRecord(s) \/ WorkerPark(s) \/ WorkerReturn(s)
      PROVE  [Lifecycle!Next]_(Lifecycle!vars)
  BY <1>6, WorkerRefines
<1>7. ASSUME NEW s \in late, ExpireStore(s)
      PROVE  [Lifecycle!Next]_(Lifecycle!vars)
  BY <1>7, ExpireRefines
<1>8. ASSUME NEW s \in expiring, ExpireRecord(s)
      PROVE  [Lifecycle!Next]_(Lifecycle!vars)
  <2>1. s \in late
    BY DEF TypeOK
  <2>. QED  BY <1>8, <2>1, ExpireRefines
<1>9. CASE WaitReturns
  BY <1>9, SameStage DEF WaitReturns, plan_state, InFlight, Lifecycle!vars
<1>10. CASE LeaveBatch
  <2>1. expiring = {} /\ expiring' = {}
    BY <1>10 DEF LeaveBatch, TypeOK, plan_state
  <2>2. \A id \in StepId : ~InFlight(id) /\ ~InFlight(id)'
    BY <1>10, <2>1 DEF LeaveBatch, AllReturned, InFlight
  <2>. QED  BY <1>10, <2>2, SameStage DEF LeaveBatch, plan_state, Lifecycle!vars
<1>. QED
  BY <1>1, <1>2, <1>3, <1>4, <1>5, <1>6, <1>7, <1>8, <1>9, <1>10, StepKinds

LEMMA InitRefines == Init => Lifecycle!Init
BY DEF Init, Lifecycle!Init, Stage, CompletedIds, InFlight, Ids

\* The driver keeps the promise of StepLifecycle: a running step is never
\* dropped, a done one never planned again, and nothing moves after the end.
THEOREM DriverImplementsLifecycle == Spec => ImplementsLifecycle
<1>1. Init => LInv
  BY InitIInv, InitLifeInv DEF LInv
<1>2. LInv /\ [Next]_vars => LInv'
  BY StepIInv, StepLifeInv DEF LInv
<1>. QED
  BY <1>1, <1>2, InitRefines, StepRefines, PTL DEF Spec, ImplementsLifecycle, Lifecycle!Spec
=============================================================================
