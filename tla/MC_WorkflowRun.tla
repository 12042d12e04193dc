--------------------------- MODULE MC_WorkflowRun ---------------------------
(***************************************************************************)
(* Instance of WorkflowRun for TLC: a workflow without a chat history that *)
(* may be replaced by one with two phases, and back; a branch that jumps   *)
(* back, a next step that is missing.                                      *)
(***************************************************************************)
EXTENDS WorkflowRun

CONSTANTS plain, chat, a, b, c, d, e, x, y

Blank == [kind |-> "transform", next |-> {}, max_turns |-> 0, mode |-> "both", policy |-> "durable",
          texts |-> {x}, hidden |-> {}]

\* a: look something up, b and e: think about it, c: choose, d: finish, or choose again.
PlainSteps == [s \in StepId |->
  CASE s = a -> [Blank EXCEPT !.kind = "call_tool", !.next = {e}]
    [] s = e -> [Blank EXCEPT !.kind = "model", !.max_turns = 2, !.policy = "ephemeral", !.next = {c}]
    [] s = c -> [Blank EXCEPT !.kind = "branch", !.next = {a, d}]
    [] s = d -> [Blank EXCEPT !.kind = "branch", !.next = {c}]
    [] OTHER -> None]
ChatSteps == [s \in StepId |->
  CASE s = a -> [Blank EXCEPT !.kind = "call_subagent", !.next = {b, None}]
    [] s = b -> [Blank EXCEPT !.kind = "model", !.max_turns = 2, !.mode = "conversation_only", !.policy = "ephemeral",
                   !.texts = {x, y}, !.hidden = {"reply"}, !.next = {c}]
    [] s = c -> [Blank EXCEPT !.next = {d}]
    [] s = d -> [Blank EXCEPT !.kind = "return"]
    [] OTHER -> None]

StepTable     == [w \in Workflow |-> IF w = plain THEN PlainSteps ELSE ChatSteps]
EntryTable    == [w \in Workflow |-> IF w = plain THEN a ELSE b]
MaxTable      == [w \in Workflow |-> IF w = plain THEN 4 ELSE 5]
Do(what, to)  == [do |-> what, to |-> to]
MutationTable == [w \in Workflow |->
  IF w = plain THEN {Do("continue", None), Do("replace", chat)}
  ELSE {Do("continue", None), Do("abort", None), Do("goto", a), Do("replace", plain)}]

(***************************************************************************)
(* What one might expect and TLC refutes.                                  *)
(***************************************************************************)

\* A run whose model was blocked on a callback reports it: the phase's "blocked" is a
\* result like any other and the workflow goes on to its own end.
BlockedIsReported == pc = "returned" /\ (\E s \in StepId : step_results[s] = "blocked") => outcome = "blocked"

\* The results of deterministic steps are there for the next phase to read: those of
\* tools are not, unless the workflow has a chat history by then.
ResultsAreSeen ==
  pc = "phase" => \A s \in StepId :
    step_results[s] # None /\ s # step_id /\ Steps[workflow][s] # None /\ Steps[workflow][s].kind = "call_tool"
      => Note("result", s) \in Seen

\* The prompt that a phase without an answer left behind goes when the phase is run again
\* and answers: only if it reads the same then.
NextAnswerCleans ==
  pc = "step" => \A p \in Seen \cap Prompts : step_results[p.step] = "failed"
=============================================================================
