----------------------------- MODULE MC_AgentRun ----------------------------
(***************************************************************************)
(* Instance of AgentRun for TLC: a chain root - mid - leaf, one tool and   *)
(* one terminal tool, and callbacks with every kind of routing parameter.  *)
(***************************************************************************)
EXTENDS AgentRun

CONSTANTS root, mid, leaf, search, stop, skill

Chain     == [x \in Agent |-> CASE x = root -> {mid} [] x = mid -> {leaf} [] OTHER -> {}]
ToolTable == [x \in Agent |-> IF x = leaf THEN {search} ELSE {stop}]

\* The middle agent may call its child twice, or call it and ask.
TurnBound == [x \in Agent |-> IF x = mid THEN 2 ELSE 1]

NoLimit   == [passthrough |-> FALSE, max_hops |-> None, fallback |-> "user"]
Policies  == [x \in Agent |-> IF x = mid THEN [NoLimit EXCEPT !.max_hops = 1] ELSE NoLimit]

Plain     == [passthrough |-> None, max_hops |-> None, fallback |-> None, hops |-> 0, skip |-> {}, by |-> {}]
RouteSet  == {Plain, [Plain EXCEPT !.by = {root}], [Plain EXCEPT !.by = {leaf}],
              [Plain EXCEPT !.skip = {mid}, !.max_hops = 1],
              [Plain EXCEPT !.hops = 1, !.max_hops = 1, !.fallback = "fail"],
              [Plain EXCEPT !.passthrough = TRUE]}

(***************************************************************************)
(* What else the documentation promises and TLC refutes.                   *)
(***************************************************************************)

\* max_bubble_hops, the "maximum number of upward caller hops before the request is
\* redirected": handle_callback checks it once, resolve_callback climbs on without.
HopsWithinLimit ==
  answer # None /\ answer.by \in Agent /\ answer.route.max_hops # None => answer.hops <= answer.route.max_hops

\* A tool or child agent call the model reads about is followed by its outcome: a
\* post-subagent hook that raises leaves the call of the child unanswered.
CallsHaveOutcomes == At("turn") => Top.last \notin {"tool_call", "subagent_call"}

\* Whatever the model decided, it reads something new before it is asked again: the
\* result of a pre-subagent hook is dropped.
DecisionsHaveOutcomes == At("turn") => Top.last # "decision"
=============================================================================
