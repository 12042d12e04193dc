---------------------------- MODULE WorkflowRun ----------------------------
(***************************************************************************)
(* One run of a programmatic workflow: WorkflowAgent.run                   *)
(* (src/agent_framework/agents/workflow_agent.py),                         *)
(* Agent.execute_programmatic_workflow and its model phases                *)
(* (src/agent_framework/agents/agent.py), over the step types of           *)
(* src/agent_framework/agents/workflow.py.                                 *)
(*                                                                         *)
(* The workflow decides which step comes next, on_step_end may override    *)
(* it, a model is asked only inside a phase.  Tools, children, resolvers,  *)
(* hooks and the model are the environment: each may give a result of any  *)
(* kind or raise.  The conversation and the prompt fragments hold what a   *)
(* later phase will read; of an entry its kind and step matter, and how the  *)
(* prompt of a phase reads.                                                *)
(***************************************************************************)
EXTENDS Absent, Naturals, Sequences, SequencesExt

CONSTANTS
  StepId, Workflow,  \* step ids; names of ProgrammaticWorkflow objects
  Text,              \* how the prompt of a phase may read
  First,             \* the workflows agents are configured with
  Entry,             \* [Workflow -> StepId]: entry_step
  Steps,             \* [Workflow -> [StepId -> Step \cup {None}]]: None is not defined
  MaxSteps,          \* [Workflow -> Nat]: max_steps
  Mutations          \* [Workflow -> SUBSET Mutation]: what on_step_end may return

Kind == {"branch", "model", "transform", "call_subagent", "call_subagents", "call_tool", "return", "raise"}

\* next: what next_step, or the two steps of a branch, may resolve to.  The other fields
\* are those of a model step; texts: what its prompt, which may be a function of the state
\* or show a summary of it, may read; hidden: the events its history projection leaves out.
Step == [kind : Kind, next : SUBSET (StepId \cup {None}), max_turns : Nat,
         mode : {"conversation_only", "prompt_fragment_only", "both"},
         policy : {"durable", "ephemeral", "none"}, texts : SUBSET Text,
         hidden : SUBSET {"phase_result", "reply"}]

\* WorkflowContinue (or None), WorkflowAbort, WorkflowGoto, WorkflowReplace
Mutation == [do : {"continue", "abort"}, to : {None}] \cup [do : {"goto"}, to : StepId]
              \cup [do : {"replace"}, to : Workflow]

ASSUME WorkflowAssumption ==
  /\ First \subseteq Workflow /\ None \notin StepId
  /\ Entry \in [Workflow -> StepId]
  /\ \A w \in Workflow, s \in StepId : Steps[w][s] = None \/ Steps[w][s] \in Step
  /\ MaxSteps \in [Workflow -> Nat]
  /\ Mutations \in [Workflow -> SUBSET Mutation]

VARIABLES
  pc,                      \* "start", "step", "phase", "post", "returned" or "raised"
  workflow, step_id,       \* the active workflow and the step it is at
  steps_executed,
  turn,                    \* turns the current phase has taken
  phase_fragment,          \* the prompt of the current phase, or of the latest one
  step_results,            \* state.step_results: step -> what its last execution gave
  workflow_chat_history_enabled, workflow_initial_prompt_appended,
  conversation_messages, prompt_fragments,
  outcome,                 \* the result of the run
  left                     \* history: prompts of ephemeral phases that ran out of turns, until
                           \* a phase with the same prompt ended

vars == <<pc, workflow, step_id, steps_executed, turn, phase_fragment, step_results, workflow_chat_history_enabled,
          workflow_initial_prompt_appended, conversation_messages, prompt_fragments, outcome, left>>
context == <<workflow_initial_prompt_appended, conversation_messages, prompt_fragments>>
phase   == <<turn, phase_fragment, left>>
control == <<workflow, step_id, steps_executed, workflow_chat_history_enabled>>

-----------------------------------------------------------------------------
Note(kind, step) == [kind |-> kind, step |-> step, text |-> None]
InitialPrompt == Note("initial_prompt", None)
Phase(s, text) == [kind |-> "phase", step |-> s, text |-> text]
Current        == Steps[workflow][step_id]

\* A result: completed, failed, stopped, or blocked (in a parallel batch).
Results == {"completed", "failed", "stopped", "blocked"}

\* _workflow_uses_chat_history_context
UsesChat(w) == \E s \in StepId : Steps[w][s] # None
                 /\ Steps[w][s].kind = "model" /\ Steps[w][s].mode = "conversation_only"

Init ==
  /\ pc = "start" /\ outcome = None
  /\ workflow \in First /\ step_id = Entry[workflow]
  /\ steps_executed = 0 /\ turn = 0 /\ phase_fragment = None /\ left = {}
  /\ step_results = [s \in StepId |-> None]
  /\ workflow_chat_history_enabled = FALSE /\ workflow_initial_prompt_appended = FALSE
  /\ conversation_messages = <<>> /\ prompt_fragments = <<>>

Raises == pc' = "raised"

\* What the caller of the run gets.
Ends(result) == pc' = "post" /\ outcome' = result

-----------------------------------------------------------------------------
(* WorkflowAgent.run around the workflow *)

\* _append_workflow_initial_prompt: the rendered prompt, once per run.
WithInitialPrompt(messages) ==
  IF workflow_initial_prompt_appended THEN messages ELSE Append(messages, InitialPrompt)

\* The pre-agent hooks may give a result of their own or raise; missing or invalid
\* parameters raise; then the workflow begins.
Start ==
  /\ pc = "start"
  /\ \/ /\ \E r \in {"completed", "stopped"} : Ends(r)
        /\ UNCHANGED <<workflow_chat_history_enabled, context>>
     \/ Raises /\ UNCHANGED <<outcome, workflow_chat_history_enabled, context>>
     \/ /\ pc' = "step"
        /\ workflow_chat_history_enabled' = UsesChat(workflow)
        /\ IF UsesChat(workflow)
           THEN /\ conversation_messages' = WithInitialPrompt(conversation_messages)
                /\ workflow_initial_prompt_appended' = TRUE
                /\ UNCHANGED prompt_fragments
           ELSE UNCHANGED context
        /\ UNCHANGED outcome
  /\ UNCHANGED <<workflow, step_id, steps_executed, phase, step_results>>

\* The post-agent hooks may replace the result or raise; their wish for another turn is
\* ignored.
PostHooks ==
  /\ pc = "post"
  /\ \/ pc' = "returned" /\ \E r \in {outcome, "completed"} : outcome' = r
     \/ Raises /\ UNCHANGED outcome
  /\ UNCHANGED <<control, phase, step_results, context>>

-----------------------------------------------------------------------------
(* The loop over the steps *)

AtStep == pc = "step" /\ steps_executed' = steps_executed + 1

\* max_steps is exceeded, or the step is not defined.
NoSuchStep ==
  /\ AtStep
  /\ steps_executed' > MaxSteps[workflow] \/ Current = None
  /\ Raises
  /\ UNCHANGED <<workflow, step_id, workflow_chat_history_enabled, phase, step_results, context, outcome>>

Executes(kinds) ==
  /\ AtStep
  /\ steps_executed' <= MaxSteps[workflow] /\ Current # None
  /\ Current.kind \in kinds

\* _resolve_workflow_next_step: the next step must resolve to an id.
GoTo(next) ==
  /\ IF next = None THEN Raises /\ UNCHANGED step_id ELSE pc' = "step" /\ step_id' = next
  /\ UNCHANGED <<workflow, workflow_chat_history_enabled>>

\* _apply_workflow_step_end: on_step_end may jump, abort or swap the workflow, which
\* goes on counting steps; else the step's own next step.
StepEnd ==
  \E mutation \in Mutations[workflow] :
    \/ mutation.do = "continue" /\ \E next \in Current.next : GoTo(next)
    \/ mutation.do = "abort" /\ Raises /\ UNCHANGED <<workflow, step_id, workflow_chat_history_enabled>>
    \/ mutation.do = "goto" /\ GoTo(mutation.to)
    \/ /\ mutation.do = "replace"
       /\ workflow' = mutation.to
       /\ step_id' = Entry[mutation.to]
       /\ workflow_chat_history_enabled' = (workflow_chat_history_enabled \/ UsesChat(mutation.to))
       /\ pc' = "step"

Store(result) == step_results' = [step_results EXCEPT ![step_id] = result]

\* Any resolver, hook, tool or child may raise, which ends the run.
StepRaises ==
  /\ Executes(Kind)
  /\ Raises
  /\ UNCHANGED <<workflow, step_id, workflow_chat_history_enabled, phase, step_results, context, outcome>>

\* Mutant of Branch: branches do not count as steps.
Branch_Uncounted ==
  /\ pc = "step" /\ Current # None /\ Current.kind = "branch"
  /\ \E next \in Current.next : GoTo(next)
  /\ UNCHANGED <<steps_executed, phase, step_results, context, outcome>>

\* A branch is no step for on_step_end and has no result.
Branch ==
  /\ Executes({"branch"})
  /\ \E next \in Current.next : GoTo(next)
  /\ UNCHANGED <<phase, step_results, context, outcome>>

\* _workflow_uses_prompt_fragments outside of a phase.
Remember(entry) ==
  /\ conversation_messages' = Append(conversation_messages, entry)
  /\ prompt_fragments' = IF workflow_chat_history_enabled THEN prompt_fragments ELSE Append(prompt_fragments, entry)
  /\ UNCHANGED workflow_initial_prompt_appended

Transform ==
  /\ Executes({"transform"})
  /\ Store("completed") /\ Remember(Note("result", step_id))
  /\ StepEnd
  /\ UNCHANGED <<phase, outcome>>

\* _execute_single_subagent_flow and _execute_subagent_batch_flow: a refused call gives a
\* failed result; a result of the pre-subagent hooks leaves no trace in the conversation.
CallSubagents ==
  /\ Executes({"call_subagent", "call_subagents"})
  /\ \E r \in {"completed", "failed", "stopped"} : Store(r)
  /\ \/ Remember(Note("result", step_id))
     \/ Current.kind = "call_subagent" /\ UNCHANGED context
  /\ StepEnd
  /\ UNCHANGED <<phase, outcome>>

\* A tool's result is remembered only for a chat history; a hook may end the run instead.
CallTool ==
  /\ Executes({"call_tool"})
  /\ Store("completed")
  /\ IF workflow_chat_history_enabled THEN Remember(Note("result", step_id)) ELSE UNCHANGED context
  /\ StepEnd
  /\ UNCHANGED <<phase, outcome>>

ToolEndsRun ==
  /\ Executes({"call_tool"})
  /\ \E r \in {"completed", "stopped"} : Ends(r)
  /\ UNCHANGED <<workflow, step_id, workflow_chat_history_enabled, phase, step_results, context>>

\* coerce_workflow_result: a result made by the workflow, or one of a step.
ReturnStep ==
  /\ Executes({"return"})
  /\ \E r \in {"completed"} \cup ({step_results[s] : s \in StepId} \ {None}) : Ends(r)
  /\ UNCHANGED <<workflow, step_id, workflow_chat_history_enabled, phase, step_results, context>>

-----------------------------------------------------------------------------
(* Model phases: _execute_workflow_model_phase *)

InFragments(step) == step.mode \in {"prompt_fragment_only", "both"}
InMessages(step)  == step.mode \in {"conversation_only", "both"}

\* _append_workflow_phase_context: the prompt goes where mode and policy say.
Told(there) == IF Current.policy # "none" /\ there THEN <<phase_fragment'>> ELSE <<>>

\* Mutant of EnterPhase: the phase does not get its initial prompt.
EnterPhase_NoInitialPrompt ==
  /\ Executes({"model"}) /\ Current.max_turns >= 1
  /\ \E text \in Current.texts : phase_fragment' = Phase(step_id, text)
  /\ conversation_messages' = conversation_messages \o Told(InMessages(Current))
  /\ prompt_fragments' = prompt_fragments \o Told(InFragments(Current))
  /\ pc' = "phase" /\ turn' = 0
  /\ UNCHANGED <<workflow, step_id, workflow_chat_history_enabled, workflow_initial_prompt_appended, step_results,
                 outcome, left>>

\* The prompt is rendered once, on entry.  A phase that talks by the conversation alone
\* first makes sure that the task is in it.
EnterPhase ==
  /\ Executes({"model"}) /\ Current.max_turns >= 1
  /\ \E text \in Current.texts : phase_fragment' = Phase(step_id, text)
  /\ LET talks    == Current.mode = "conversation_only"
         messages == IF talks THEN WithInitialPrompt(conversation_messages) ELSE conversation_messages
     IN  /\ conversation_messages' = messages \o Told(InMessages(Current))
         /\ workflow_initial_prompt_appended' = (workflow_initial_prompt_appended \/ talks)
  /\ prompt_fragments' = prompt_fragments \o Told(InFragments(Current))
  /\ pc' = "phase" /\ turn' = 0
  /\ UNCHANGED <<workflow, step_id, workflow_chat_history_enabled, step_results, outcome, left>>

PhaseTurn ==
  /\ pc = "phase" /\ turn < Current.max_turns
  /\ turn' = turn + 1
  /\ UNCHANGED <<steps_executed, phase_fragment, outcome, workflow_initial_prompt_appended>>

StaysInPhase == UNCHANGED <<pc, workflow, step_id, workflow_chat_history_enabled, step_results, left>>

\* decide or a handler raises, or the final response does not fit the schema.
PhaseRaises ==
  /\ PhaseTurn /\ Raises
  /\ UNCHANGED <<workflow, step_id, workflow_chat_history_enabled, step_results, conversation_messages,
                 prompt_fragments, left>>

\* A decision of a kind the phase does not allow: the model is reminded.
NotAllowed ==
  /\ PhaseTurn /\ StaysInPhase
  /\ conversation_messages' = Append(conversation_messages, Note("reminder", step_id))
  /\ UNCHANGED prompt_fragments

\* _append_workflow_history_projection: the projection may leave an event out, or find
\* nothing in it to show.
Projected(kind) == IF kind \in Current.hidden THEN {<<>>} ELSE {<<>>, <<Note(kind, step_id)>>}

\* A tool, child, skill or callback that the loop goes on after.  Outside of a pure
\* conversation its outcome is a message and a prompt fragment.
DispatchInPhase ==
  /\ PhaseTurn /\ StaysInPhase
  /\ IF Current.mode = "conversation_only"
     THEN /\ \E shown \in Projected("reply") : conversation_messages' = conversation_messages \o shown
          /\ UNCHANGED prompt_fragments
     ELSE /\ conversation_messages' = Append(conversation_messages, Note("reply", step_id))
          /\ prompt_fragments' = Append(prompt_fragments, Note("reply", step_id))

\* The other entries, in their order.  (A recursive function instead of SelectSeq, whose
\* definition the proofs cannot expand.)
Without(entries, gone) ==
  LET rest[i \in 0..Len(entries)] ==
        IF i = 0 THEN <<>>
        ELSE IF entries[i] \in gone THEN rest[i - 1] ELSE Append(rest[i - 1], entries[i])
  IN  rest[Len(entries)]

\* _cleanup_ephemeral_workflow_phase_context: every entry that reads like the phase's
\* prompt goes, those of earlier visits too, from where the phase's mode had put it; the
\* prompt of an earlier visit that read differently does not.
WithoutPhase(entries, there) ==
  IF Current.policy = "ephemeral" /\ there THEN Without(entries, {phase_fragment}) ELSE entries

FinalMessage ==
  /\ PhaseTurn
  /\ \E shown \in Projected("phase_result") :
       conversation_messages' = WithoutPhase(conversation_messages \o shown, InMessages(Current))
  /\ prompt_fragments' = WithoutPhase(prompt_fragments, InFragments(Current))
  /\ left' = left \ {phase_fragment}
  /\ Store("completed") /\ StepEnd

\* Mutant of TerminalOutcome: the prompts of the phase are kept.
TerminalOutcome_Kept ==
  /\ PhaseTurn
  /\ \E r \in Results : Store(r)
  /\ left' = left \ {phase_fragment}
  /\ UNCHANGED <<conversation_messages, prompt_fragments>>
  /\ StepEnd

\* A terminal tool, a hook's result, a failed callback, or a callback in a parallel
\* batch: the outcome is the phase's result and the workflow goes on.
TerminalOutcome ==
  /\ PhaseTurn
  /\ \E r \in Results : Store(r)
  /\ conversation_messages' = WithoutPhase(conversation_messages, InMessages(Current))
  /\ prompt_fragments' = WithoutPhase(prompt_fragments, InFragments(Current))
  /\ left' = left \ {phase_fragment}
  /\ StepEnd

\* max_turns without a final message: a failed result, and the prompt stays.
TurnsExceeded ==
  /\ pc = "phase" /\ turn = Current.max_turns
  /\ left' = IF Current.policy = "ephemeral" THEN left \cup {phase_fragment} ELSE left
  /\ Store("failed") /\ StepEnd
  /\ UNCHANGED <<steps_executed, turn, phase_fragment, context, outcome>>

-----------------------------------------------------------------------------
PhaseStep == PhaseRaises \/ NotAllowed \/ DispatchInPhase \/ FinalMessage \/ TerminalOutcome \/ TurnsExceeded

Next == Start \/ NoSuchStep \/ StepRaises \/ Branch \/ Transform \/ CallSubagents \/ CallTool \/ ToolEndsRun
          \/ ReturnStep \/ EnterPhase \/ PhaseStep \/ PostHooks

\* One thread runs the workflow; tools, children and the model are assumed to come back.
Spec == Init /\ [][Next]_vars /\ WF_vars(Next)

-----------------------------------------------------------------------------
(* Correctness *)

Prompts == {Phase(s, text) : s \in StepId, text \in Text}
Kept(entries) == Without(entries, Prompts)
Seen == ToSet(conversation_messages) \cup ToSet(prompt_fragments)

\* Types: the control state is in the workflows, contexts hold entries.
TypeOK ==
  /\ pc \in {"start", "step", "phase", "post", "returned", "raised"}
  /\ workflow \in Workflow /\ step_id \in StepId /\ steps_executed \in Nat
  /\ step_results \in [StepId -> Results \cup {None}]

\* Whatever the workflow was before it was replaced and whichever way the phases talk:
\* a model that is asked reads the task, and the prompt of its phase unless the phase
\* asked for none; and the task is in the conversation no more than once.
ModelSeesTask ==
  /\ pc = "phase" /\ turn < Current.max_turns =>
       /\ Current.mode # "conversation_only" \/ InitialPrompt \in ToSet(conversation_messages)
       /\ Current.policy # "none" => phase_fragment \in Seen
  /\ \A i, j \in DOMAIN conversation_messages :
       conversation_messages[i] = InitialPrompt /\ conversation_messages[j] = InitialPrompt => i = j

\* A workflow whose phase has the step id and the prompt of another's, but puts it
\* elsewhere or keeps it, would not clean up what the other one left behind.
PhasesAgree ==
  \A v, w \in Workflow, s \in StepId :
    /\ Steps[v][s] # None /\ Steps[v][s].kind = "model"
    /\ Steps[w][s] # None /\ Steps[w][s].kind = "model"
    => Steps[w][s].mode = Steps[v][s].mode /\ Steps[w][s].policy = Steps[v][s].policy

\* The prompt of an ephemeral phase is read in that phase only, however the phase ended;
\* the one exception is the prompt of a phase that ran out of turns, until a phase with
\* that very prompt ends in another way.
EphemeralForgotten ==
  \A p \in Seen \cap Prompts :
    \/ \E w \in Workflow : Steps[w][p.step] # None /\ Steps[w][p.step].kind = "model" /\ Steps[w][p.step].policy = "durable"
    \/ p \in left
    \/ pc \in {"phase", "raised"} /\ p = phase_fragment

\* Forgetting a phase takes nothing else along: all other entries of the conversation
\* stay, in their order.
ContextKept ==
  [][IsPrefix(Kept(conversation_messages), Kept(conversation_messages'))
       /\ IsPrefix(Kept(prompt_fragments), Kept(prompt_fragments'))]_vars

\* A workflow ends, with a result or an exception, even one that jumps in circles,
\* replaces itself for ever or has a model that never decides: max_steps and max_turns.
WorkflowEnds == <>(pc \in {"returned", "raised"})
=============================================================================
