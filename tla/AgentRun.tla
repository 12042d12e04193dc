------------------------------ MODULE AgentRun ------------------------------
(***************************************************************************)
(* Runs of agents on one thread: Agent.run with its hooks and handlers     *)
(* (src/agent_framework/agents/agent.py) and the host services they call   *)
(* back into (src/agent_framework/host.py): call_subagent, register_run,   *)
(* resolve_callback and request_user_input.                                *)
(*                                                                         *)
(* All of these calls are synchronous, so the runs form a stack: the top   *)
(* one executes, each other one waits inside call_subagent ("child") or    *)
(* resolve_callback ("caller").  A callback of a child may start a second  *)
(* run of its parent agent on top of it.  The model, the tools, the user   *)
(* and the hooks are the environment.                                      *)
(***************************************************************************)
EXTENDS Naturals, Sequences, FiniteSets

CONSTANTS
  Agent, Root,     \* agent ids; the one run_agent is called for
  Tool,            \* tool names
  None,            \* Python's None
  Children,        \* [Agent -> SUBSET Agent]: allowed_child_agents
  Tools,           \* [Agent -> SUBSET Tool]: _effective_allowed_tools
  TerminalTools,   \* terminal_tools
  Skill,           \* skills the agents may load
  QueriesCaller,   \* agents with can_query_caller
  AsksHost,        \* agents with can_use_host_interaction
  Policy,          \* [Agent -> RoutingPolicy]: callback_routing_policy
  Routes,          \* routing parameters a callback decision can carry
  HasUser,         \* the host has a user_comm
  MaxRuns,         \* bound: run ids in a behaviour
  MaxTurns         \* bound: [Agent -> Nat], model turns of one run

RoutingPolicy == [passthrough : BOOLEAN, max_hops : Nat \cup {None}, fallback : {"user", "fail"}]

\* The parameters handle_callback and resolve_callback look at; None is "not given".
Route == [passthrough : BOOLEAN \cup {None}, max_hops : Nat \cup {None},
          fallback : {"user", "fail", None}, hops : Nat, skip : SUBSET Agent, by : SUBSET Agent]

ASSUME AgentAssumption ==
  /\ Root \in Agent /\ Agent \cap {"host", "user", "nobody"} = {}
  /\ Agent \cap Tool = {} /\ None \notin Agent \cup Tool
  /\ Children \in [Agent -> SUBSET Agent]
  /\ Tools \in [Agent -> SUBSET Tool]
  /\ TerminalTools \subseteq Tool
  /\ Routes \subseteq Route
  /\ QueriesCaller \subseteq Agent /\ AsksHost \subseteq Agent
  /\ \A a \in Agent : Policy[a].passthrough \in BOOLEAN /\ Policy[a].fallback \in {"user", "fail"}
  /\ HasUser \in BOOLEAN /\ MaxRuns \in Nat \ {0} /\ MaxTurns \in [Agent -> Nat]

VARIABLES
  stack,          \* the runs under way, innermost last
  _run_registry,  \* run id -> the lineage register_run stored
  contexts,       \* run id -> call contexts opened and not yet "resolved"
  call_started,   \* run id -> audit_agent_call_started events
  call_finished,  \* run id -> audit_agent_call_finished events
  raised,         \* run ids of runs that ended with an exception
  answer,         \* the last answer a callback got, and who gave it
  executed        \* the last tool or child that was run, and for whom

vars == <<stack, _run_registry, contexts, call_started, call_finished, raised, answer, executed>>
audit == <<call_started, call_finished>>

-----------------------------------------------------------------------------
(* Runs *)

NoAsk    == [route |-> None, caller |-> None, parent |-> None, hops |-> 0]
NoResult == [status |-> "none", message |-> FALSE]

\* A new AgentRun: last is the kind of the last entry of its conversation_messages.
NewRun(id, agent, caller, parent) ==
  [id |-> id, agent |-> agent, caller |-> caller, parent |-> parent, pc |-> "bootstrap",
   turns |-> 0, last |-> "prompt", tool |-> None, skills |-> {}, ask |-> NoAsk, outcome |-> NoResult]

Running == stack # <<>>
Top     == stack[Len(stack)]
At(pc)  == Running /\ Top.pc = pc

\* The run of the stack with the id, if any.
OnStack(id) == {i \in 1..Len(stack) : stack[i].id = id}

SetTop(run)    == stack' = [stack EXCEPT ![Len(stack)] = run]
Goto(pc)       == SetTop([Top EXCEPT !.pc = pc])

\* A dict after table[id] = value.
With(table, id, value) == [x \in DOMAIN table \cup {id} |-> IF x = id THEN value ELSE table[x]]

Count(count, id) == IF id \in DOMAIN count THEN count[id] ELSE 0
Add(count, id)   == With(count, id, Count(count, id) + 1)

\* Root and nested caller runs get a fresh id; a child's id is its parent's id and the
\* agent's, so that two calls of one child by one run share it.
FreshId    == <<Cardinality({id \in DOMAIN _run_registry : Len(id) = 1}) + 1>>
ChildId(a) == Append(Top.id, a)

Push(waiting, run) ==
  /\ run.id \in DOMAIN _run_registry \/ Cardinality(DOMAIN _run_registry) < MaxRuns
  /\ stack' = Append(IF Running THEN [stack EXCEPT ![Len(stack)] = waiting] ELSE stack, run)
  /\ _run_registry' = With(_run_registry, run.id,
                           [agent |-> run.agent, caller |-> run.caller, parent |-> run.parent])

Init ==
  /\ stack = <<>>
  /\ _run_registry = <<>>
  /\ contexts = <<>>
  /\ call_started = <<>> /\ call_finished = <<>>
  /\ raised = {}
  /\ answer = None
  /\ executed = None

\* run_agent: the host calls the root agent.
RunAgent ==
  /\ ~Running /\ _run_registry = <<>>
  /\ Push(None, NewRun(FreshId, Root, "host", None))
  /\ UNCHANGED <<contexts, audit, raised, answer, executed>>

\* What happens in the run below when the top one leaves: r is its result, or None
\* when it raised.  handle_subagent_call swallows exceptions, resolve_callback does not.
Resumed(run, r) ==
  CASE run.pc = "child" /\ r = None  -> {[run EXCEPT !.pc = "turn", !.last = "subagent_error"]}
    [] run.pc = "child" /\ r # None  -> {[run EXCEPT !.pc = "turn", !.last = "subagent_result"],
                                         [run EXCEPT !.pc = "turn"]}  \* a post-subagent hook raised
    [] run.pc = "caller" /\ r = None -> {[run EXCEPT !.pc = "raising"]}
    [] run.pc = "caller" /\ r # None -> {[run EXCEPT !.pc = IF r.message THEN "answered" ELSE "ask_user"]}

Leave(r) ==
  LET n == Len(stack) - 1
  IN  IF n = 0 THEN stack' = <<>>
      ELSE \E run \in Resumed(stack[n], r) : stack' = [SubSeq(stack, 1, n) EXCEPT ![n] = run]

\* run() up to its try: register_run has been called; build_context may raise, which
\* nothing finishes.
Bootstrap ==
  /\ At("bootstrap")
  /\ call_started' = Add(call_started, Top.id)
  /\ Goto("pre")
  /\ UNCHANGED <<_run_registry, contexts, call_finished, raised, answer, executed>>

BootstrapFails ==
  /\ At("bootstrap")
  /\ raised' = raised \cup {Top.id}
  /\ Leave(None)
  /\ UNCHANGED <<_run_registry, contexts, audit, answer, executed>>

\* _run_pre_agent_hooks: before_run behaviours and on_pre_agent callbacks in order, the
\* first one that ends the run decides; an early result still passes the post hooks.
PreAgentHooks ==
  /\ At("pre")
  /\ \/ Goto("turn")
     \/ \E m \in BOOLEAN : SetTop([Top EXCEPT !.pc = "early", !.outcome = [status |-> "completed", message |-> m]])
     \/ SetTop([Top EXCEPT !.pc = "early", !.outcome = [status |-> "stopped", message |-> FALSE]])
     \/ Goto("raising")
  /\ UNCHANGED <<_run_registry, contexts, audit, raised, answer, executed>>

\* _run_post_agent_hooks: a hook may replace the result, or ask for another turn, which
\* is not granted to an early result.
PostAgentHooks ==
  /\ At("post") \/ At("early")
  /\ \/ \E r \in {Top.outcome, [status |-> "completed", message |-> TRUE]} :
          SetTop([Top EXCEPT !.pc = "returning", !.outcome = r])
     \/ /\ Top.pc = "post" /\ Top.turns < MaxTurns[Top.agent]
        /\ SetTop([Top EXCEPT !.pc = "turn", !.outcome = NoResult])
     \/ Goto("raising")
  /\ UNCHANGED <<_run_registry, contexts, audit, raised, answer, executed>>

\* The finally block: usage and the finished event, then back to the caller.
Return ==
  /\ At("returning")
  /\ call_finished' = Add(call_finished, Top.id)
  /\ Leave(Top.outcome)
  /\ UNCHANGED <<_run_registry, contexts, call_started, raised, answer, executed>>

Raise ==
  /\ At("raising")
  /\ call_finished' = Add(call_finished, Top.id)
  /\ raised' = raised \cup {Top.id}
  /\ Leave(None)
  /\ UNCHANGED <<_run_registry, contexts, call_started, answer, executed>>
-----------------------------------------------------------------------------
(* Model turns: StandardTurnDriver.run_turn, decide, dispatch_decision *)

CallbackKinds == {"callback", "callback_to_caller", "request_user_input", "request_resolution"}
Kinds == {"final_message", "call_tool", "call_subagent", "call_subagents", "invoke_skill", "unknown"} \cup CallbackKinds

\* A decision is a kind and two slots, which the model may fill the wrong way round.
Decision ==
  {d \in [kind : Kinds, subagent_id : Agent \cup Tool \cup {None}, tool_name : Agent \cup Tool \cup {None}, route : Routes] :
     d.kind \notin CallbackKinds => d.route = CHOOSE r \in Routes : TRUE}

Ambiguous(d) == d.subagent_id # None /\ d.tool_name # None
TheName(d)   == IF d.subagent_id # None THEN d.subagent_id ELSE d.tool_name

\* _normalize_decision_capabilities: names in the wrong slot, or with a callback, are
\* moved where the agent's declared capabilities say they belong.
NamesChild(a, d) ==
  \/ d.kind \in CallbackKinds /\ d.subagent_id \in Children[a]
  \/ d.kind = "call_tool" /\ (d.subagent_id \in Children[a] \/ d.tool_name \in Children[a] \ Tools[a])
NamesTool(a, d) ==
  \/ d.kind \in CallbackKinds /\ d.tool_name \in Tools[a]
  \/ d.kind = "call_subagent" /\ (d.tool_name \in Tools[a] \/ d.subagent_id \in Tools[a] \ Children[a])
Normalized(a, d) ==
  IF NamesChild(a, d)
  THEN [d EXCEPT !.kind = "call_subagent", !.subagent_id = TheName(d), !.tool_name = None]
  ELSE IF NamesTool(a, d)
  THEN [d EXCEPT !.kind = "call_tool", !.tool_name = TheName(d), !.subagent_id = None]
  ELSE d

\* decide raises: the model driver, a validator or a model hook did, or the response
\* is no decision.  The standard driver does not retry.
ModelFails ==
  /\ At("turn")
  /\ Goto("raising")
  /\ UNCHANGED <<_run_registry, contexts, audit, raised, answer, executed>>

\* What the handler of a kind reads: most look at no slot, the two others at one.
Read(d) == CASE d.kind = "call_tool"     -> [d EXCEPT !.subagent_id = None]
             [] d.kind = "call_subagent" -> [d EXCEPT !.tool_name = None]
             [] OTHER -> [d EXCEPT !.subagent_id = None, !.tool_name = None]

\* The decisions of an agent's model, as dispatch_decision hands them to the handlers.
Dispatched == [a \in Agent |-> {Read(Normalized(a, d)) : d \in {x \in Decision : ~Ambiguous(x)}}]

Turn == [Top EXCEPT !.turns = @ + 1, !.last = "decision"]
Decides(kinds, d) ==
  /\ At("turn") /\ d.kind \in kinds
  /\ Top.turns < MaxTurns[Top.agent] \/ d.kind = "final_message"

\* Both slots set, or a kind without a handler: ValueError.
Rejected(d) ==
  /\ Decides({"unknown"}, d)
  /\ SetTop([Turn EXCEPT !.pc = "raising", !.last = Top.last])
  /\ UNCHANGED <<_run_registry, contexts, audit, raised, answer, executed>>

HandleFinalMessage(d) ==
  /\ Decides({"final_message"}, d)
  /\ \E m \in BOOLEAN : SetTop([Turn EXCEPT !.pc = "post", !.outcome = [status |-> "completed", message |-> m]])
  /\ UNCHANGED <<_run_registry, contexts, audit, raised, answer, executed>>

-----------------------------------------------------------------------------
(* Tools, skills and batches *)

\* No name, or a tool the agent does not have: the model reads the error.  A terminal
\* tool ends the run and is not executed.
HandleToolCall(d) ==
  /\ Decides({"call_tool"}, d)
  /\ SetTop(IF d.tool_name \notin Tools[Top.agent]
            THEN [Turn EXCEPT !.last = "tool_validation_error"]
            ELSE IF d.tool_name \in TerminalTools
            THEN [Turn EXCEPT !.pc = "post", !.outcome = [status |-> "completed", message |-> TRUE]]
            ELSE [Turn EXCEPT !.pc = "tool", !.tool = d.tool_name])
  /\ UNCHANGED <<_run_registry, contexts, audit, raised, answer, executed>>

\* _execute_tool_step: the pre-tool hooks may end the run with a result of theirs or
\* "stopped"; an error of the tool is put to the model; a post-tool hook that raises is
\* not caught.
ToolHooksEndRun ==
  /\ At("tool")
  /\ \E r \in {[status |-> "completed", message |-> TRUE], [status |-> "stopped", message |-> FALSE]} :
        SetTop([Top EXCEPT !.pc = "post", !.outcome = r, !.tool = None])
  /\ UNCHANGED <<_run_registry, contexts, audit, raised, answer, executed>>

ExecuteTool ==
  /\ At("tool")
  /\ executed' = [agent |-> Top.agent, name |-> Top.tool]
  /\ \/ \E last \in {"tool_result", "tool_error"} : SetTop([Top EXCEPT !.pc = "turn", !.last = last, !.tool = None])
     \/ SetTop([Top EXCEPT !.pc = "raising", !.tool = None])
  /\ UNCHANGED <<_run_registry, contexts, audit, raised, answer>>

\* Unknown or not allowed: skill_error.  The body of a skill is injected once per run;
\* after that only resources that are new, or a marker.  Loading and the skill hooks may
\* raise, which nothing catches.
HandleSkillInvocation(d) ==
  /\ Decides({"invoke_skill"}, d)
  /\ \/ SetTop([Turn EXCEPT !.last = "skill_error"])
     \/ \E s \in Skill : \E last \in IF s \in Top.skills THEN {"resources_loaded", "already_loaded"} ELSE {"loaded"} :
          SetTop([Turn EXCEPT !.last = last, !.skills = @ \cup {s}])
     \/ SetTop([Turn EXCEPT !.pc = "raising"])
  /\ UNCHANGED <<_run_registry, contexts, audit, raised, answer, executed>>

\* The batch itself is SubagentBatch; seen from here it gives results, or is refused,
\* or fails without a trace.
HandleSubagentCalls(d) ==
  /\ Decides({"call_subagents"}, d)
  /\ \E last \in {"subagent_batch_results", "subagent_validation_error", "decision"} : SetTop([Turn EXCEPT !.last = last])
  /\ UNCHANGED <<_run_registry, contexts, audit, raised, answer, executed>>

-----------------------------------------------------------------------------
(* Subagents *)

\* handle_subagent_call: no id or no permission is an error for the model.
RefuseSubagent(d) ==
  /\ Decides({"call_subagent"}, d)
  /\ d.subagent_id \notin Children[Top.agent]
  /\ SetTop([Turn EXCEPT !.last = "subagent_validation_error"])
  /\ UNCHANGED <<_run_registry, contexts, audit, raised, answer, executed>>

\* The pre-subagent hooks may redirect the call, which is checked again, or end it; the
\* result they give, like any of _execute_single_subagent_flow, is dropped here.
HooksEndSubagentCall(d) ==
  /\ Decides({"call_subagent"}, d)
  /\ d.subagent_id \in Children[Top.agent]
  /\ \E last \in {"decision", "subagent_validation_error"} : SetTop([Turn EXCEPT !.last = last])
  /\ UNCHANGED <<_run_registry, contexts, audit, raised, answer, executed>>

\* Mutant of CallSubagent: a hook's updated_subagent_id is not checked again.
CallSubagent_HookUnchecked(d) ==
  /\ Decides({"call_subagent"}, d)
  /\ d.subagent_id \in Children[Top.agent]
  /\ \E callee \in Agent :
       /\ Push([Turn EXCEPT !.pc = "child", !.last = "subagent_call"],
               NewRun(ChildId(callee), callee, Top.agent, Top.id))
       /\ executed' = [agent |-> Top.agent, name |-> callee]
  /\ UNCHANGED <<contexts, audit, raised, answer>>

\* _execute_single_subagent_flow: the child runs on top of this run.
CallSubagent(d) ==
  /\ Decides({"call_subagent"}, d)
  /\ d.subagent_id \in Children[Top.agent]
  /\ \E callee \in Children[Top.agent] :   \* updated_subagent_id or the decision's
       \/ /\ Push([Turn EXCEPT !.pc = "child", !.last = "subagent_call"],
                  NewRun(ChildId(callee), callee, Top.agent, Top.id))
          /\ executed' = [agent |-> Top.agent, name |-> callee]
       \/ /\ SetTop([Turn EXCEPT !.last = "subagent_error"])   \* no such agent
          /\ UNCHANGED <<_run_registry, executed>>
  /\ UNCHANGED <<contexts, audit, raised, answer>>
-----------------------------------------------------------------------------
(* Callbacks *)

\* _merge_callback_routing_policy: what the decision says goes over the agent's policy.
Merged(base, route) ==
  [passthrough |-> IF route.passthrough = None THEN base.passthrough ELSE route.passthrough,
   max_hops    |-> IF route.max_hops = None THEN base.max_hops ELSE route.max_hops,
   fallback    |-> IF route.fallback = None THEN base.fallback ELSE route.fallback]

RoutesToCaller(d) ==
  /\ d.kind \in {"callback", "callback_to_caller"}
  /\ Top.caller # "host" /\ Top.agent \in QueriesCaller

\* Not to the caller at all: the agent is passed through, or no hop is left.  (That the
\* next hop is above 0 is always so.)
SkipsCaller(d) ==
  LET policy == Merged(Policy[Top.agent], d.route)
  IN  policy.passthrough \/ (policy.max_hops # None /\ d.route.hops + 1 > policy.max_hops)

FailsInsteadOfUser(d) ==
  IF RoutesToCaller(d)
  THEN SkipsCaller(d) /\ Merged(Policy[Top.agent], d.route).fallback = "fail"
  ELSE d.kind = "request_resolution"

Callback(d, run) ==
  /\ Decides(CallbackKinds, d)
  /\ SetTop(run)
  /\ UNCHANGED <<_run_registry, audit, raised, answer, executed>>

OpenContext == contexts' = Add(contexts, Top.id)

\* handle_callback through the caller: a context is opened and the host resolves.
CallbackToCaller(d) ==
  /\ Callback(d, [Turn EXCEPT !.pc = "resolving",
                    !.ask = [route |-> d.route, caller |-> Top.caller, parent |-> Top.parent, hops |-> d.route.hops + 1]])
  /\ RoutesToCaller(d) /\ ~SkipsCaller(d)
  /\ OpenContext

\* handle_callback that may not bother the user, or finds nobody to resolve it.
CallbackFails(d) ==
  /\ Callback(d, [Turn EXCEPT !.pc = "post", !.outcome = [status |-> "failed", message |-> TRUE]])
  /\ FailsInsteadOfUser(d)
  /\ UNCHANGED contexts

\* handle_callback to the user: passed through or asked directly.
CallbackToUser(d) ==
  /\ Decides(CallbackKinds, d)
  /\ ~FailsInsteadOfUser(d) /\ (RoutesToCaller(d) => SkipsCaller(d))
  /\ IF Top.agent \notin AsksHost
     THEN Callback(d, [Turn EXCEPT !.pc = "raising"]) /\ UNCHANGED contexts
     ELSE /\ Callback(d, [Turn EXCEPT !.pc = IF HasUser THEN "user" ELSE "raising",
                            !.ask = [NoAsk EXCEPT !.route = d.route, !.caller = "host"]])
          /\ OpenContext

\* Mutant of NotHere: resolvable_by is not looked at.
NotHere_SkipOnly == Top.ask.caller \in Top.ask.route.skip

\* resolve_callback: a caller that is to be skipped, or may not answer, hands on to its own
\* caller, which the run registry names.  (Whether the user may be asked is not looked at.)
NotHere == \/ Top.ask.caller \in Top.ask.route.skip
           \/ Top.ask.route.by # {} /\ Top.ask.caller \notin Top.ask.route.by

Asks(agent) == At("resolving") /\ Top.ask.caller = agent

\* Mutant of CallerPassesOn: the parent run stays the one before.
CallerPassesOn_SameParent ==
  /\ At("resolving") /\ Top.ask.caller # "host" /\ NotHere
  /\ LET known == Top.ask.parent \in DOMAIN _run_registry
     IN  SetTop([Top EXCEPT !.ask = IF known
                  THEN [@ EXCEPT !.caller = _run_registry[Top.ask.parent].caller, !.hops = @ + 1]
                  ELSE [@ EXCEPT !.caller = "host"]])
  /\ UNCHANGED <<_run_registry, contexts, audit, raised, answer, executed>>

CallerPassesOn ==
  /\ At("resolving") /\ Top.ask.caller # "host" /\ NotHere
  /\ LET known == Top.ask.parent \in DOMAIN _run_registry
         up    == _run_registry[Top.ask.parent]
         ask   == Top.ask
     IN  SetTop([Top EXCEPT !.ask = IF known
                  THEN [ask EXCEPT !.caller = up.caller, !.parent = up.parent, !.hops = ask.hops + 1]
                  ELSE [ask EXCEPT !.caller = "host"]])
  /\ UNCHANGED <<_run_registry, contexts, audit, raised, answer, executed>>

\* Nobody is left but the user; without a user_comm the answer is empty.
HostResolves ==
  /\ At("ask_user") \/ Asks("host")
  /\ SetTop(IF HasUser THEN [Top EXCEPT !.pc = "user"] ELSE [Top EXCEPT !.pc = "answered", !.ask.caller = "nobody"])
  /\ UNCHANGED <<_run_registry, contexts, audit, raised, answer, executed>>

\* A behaviour of the caller answers (Agent.respond_to_callback), or it raises, or loading
\* the caller does.
BehaviorResponds ==
  /\ At("resolving") /\ Top.ask.caller # "host" /\ ~NotHere
  /\ Goto("answered") \/ Goto("raising")
  /\ UNCHANGED <<_run_registry, contexts, audit, raised, answer, executed>>

\* Or the caller agent is run once more, with the prompt as its instruction and the host
\* as its caller; if it cannot be loaded by its id alone the user is asked.
CallerRunsAgain ==
  /\ At("resolving") /\ Top.ask.caller # "host" /\ ~NotHere
  /\ \/ Push([Top EXCEPT !.pc = "caller"], NewRun(FreshId, Top.ask.caller, "host", None))
     \/ Goto("ask_user") /\ UNCHANGED _run_registry
  /\ UNCHANGED <<contexts, audit, raised, answer, executed>>

\* read_user_input returns, or it raises.
UserAnswers ==
  /\ At("user")
  /\ SetTop([Top EXCEPT !.pc = "answered", !.ask.caller = "user"]) \/ Goto("raising")
  /\ UNCHANGED <<_run_registry, contexts, audit, raised, answer, executed>>

\* Mutant of CallbackAnswered: the context is not resolved.
CallbackAnswered_NotResolved ==
  /\ At("answered")
  /\ answer' = [run |-> Top.id, by |-> Top.ask.caller, hops |-> Top.ask.hops, route |-> Top.ask.route]
  /\ SetTop([Top EXCEPT !.pc = "turn", !.last = "callback_answer", !.ask = NoAsk])
  /\ UNCHANGED <<_run_registry, contexts, audit, raised, executed>>

\* The handler goes on: the context is resolved and the answer is in the conversation.
CallbackAnswered ==
  /\ At("answered")
  /\ contexts' = [contexts EXCEPT ![Top.id] = @ - 1]
  /\ answer' = [run |-> Top.id, by |-> Top.ask.caller, hops |-> Top.ask.hops, route |-> Top.ask.route]
  /\ SetTop([Top EXCEPT !.pc = "turn", !.last = "callback_answer", !.ask = NoAsk])
  /\ UNCHANGED <<_run_registry, audit, raised, executed>>

-----------------------------------------------------------------------------
HandleCallback(d) == CallbackToCaller(d) \/ CallbackFails(d) \/ CallbackToUser(d)
ResolveCallback   == CallerPassesOn \/ HostResolves \/ BehaviorResponds \/ CallerRunsAgain \/ UserAnswers \/ CallbackAnswered

Dispatch == At("turn") /\
  \E d \in Dispatched[Top.agent] :
    \/ Rejected(d) \/ HandleFinalMessage(d) \/ HandleToolCall(d) \/ HandleSkillInvocation(d)
    \/ HandleSubagentCalls(d) \/ RefuseSubagent(d) \/ HooksEndSubagentCall(d) \/ CallSubagent(d)
    \/ HandleCallback(d)

Lifecycle == RunAgent \/ Bootstrap \/ BootstrapFails \/ PreAgentHooks \/ PostAgentHooks \/ Return \/ Raise

Next == Lifecycle \/ ModelFails \/ Dispatch \/ ToolHooksEndRun \/ ExecuteTool \/ ResolveCallback

Spec == Init /\ [][Next]_vars

-----------------------------------------------------------------------------
(* Correctness *)

Asking == {"resolving", "caller", "ask_user", "user", "answered"}

\* Types: every run, record and counter has the shape Agent.run and the host give it.
TypeOK ==
  /\ \A i \in 1..Len(stack) :
       /\ stack[i].agent \in Agent /\ stack[i].caller \in Agent \cup {"host"}
       /\ stack[i].turns \in 0..(MaxTurns[stack[i].agent] + 1)
       /\ stack[i].pc \in {"bootstrap", "pre", "early", "turn", "tool", "child", "post", "returning", "raising"} \cup Asking
       /\ (i < Len(stack)) = (stack[i].pc \in {"child", "caller"})
  /\ DOMAIN call_finished \subseteq DOMAIN call_started /\ DOMAIN call_started \subseteq DOMAIN _run_registry
  /\ raised \subseteq DOMAIN _run_registry

\* However runs nest and whatever raises, each agent call that was announced to the
\* audit trace is finished exactly once, when it leaves the stack and not before, run
\* ids that are used again included (the finally block of Agent.run).
CallsFinishOnce ==
  \A id \in DOMAIN _run_registry :
    Count(call_started, id) - Count(call_finished, id)
      = Cardinality({i \in OnStack(id) : stack[i].pc # "bootstrap"})

\* A call context is open only while its run waits for the answer, or when the run was
\* ended by an exception (handle_callback has no finally).
OpenContextsAreWaiting ==
  \A id \in DOMAIN contexts : contexts[id] > 0 =>
    \/ id \in raised
    \/ \E i \in OnStack(id) : stack[i].pc \in Asking \cup {"raising"}

\* The caller resolve_callback has got to by way of the run registry is the agent that
\* stands as many calls below the asking run as bubble_hops says, with nothing but
\* call_subagent in between: the registry's lineage never leads astray, although run
\* ids are used again and callers are run anew in between.
CallbackClimbsCalls ==
  \A i \in 1..Len(stack) : stack[i].pc \in {"resolving", "caller"} /\ stack[i].ask.caller # "host" =>
    LET climbed == stack[i].ask.hops - stack[i].ask.route.hops
    IN  /\ climbed < i /\ stack[i - climbed].agent = stack[i].ask.caller
        /\ \A k \in (i - climbed)..(i - 1) : stack[k].pc = "child"

\* No agent that passthrough_agents names, or that resolvable_by does not, has answered
\* a callback, at whatever level it was reached.
AnswererIsEntitled ==
  answer # None /\ answer.by \in Agent =>
    answer.by \notin answer.route.skip /\ (answer.route.by = {} \/ answer.by \in answer.route.by)

\* Whatever the slots of a decision held and the hooks made of it, only declared tools
\* and child agents are executed, and no terminal tool.
OnlyDeclaredExecuted ==
  executed # None =>
    executed.name \in Children[executed.agent] \cup (Tools[executed.agent] \ TerminalTools)
=============================================================================
