--------------------------- MODULE MC_McpSession ---------------------------
(***************************************************************************)
(* Instance of McpSession for TLC: two calls at once, and the host that    *)
(* may close the session under them.                                       *)
(***************************************************************************)
EXTENDS McpSession

CONSTANTS c1, c2

(***************************************************************************)
(* What the documentation says and TLC refutes.                            *)
(***************************************************************************)

\* "Auto-reconnects once if the connection appears to have dropped": also when the tool
\* has answered with an error, or the answer is late.
ReconnectsIfDropped ==
  [][\A c \in Call : (pc[c] = "reconnecting" /\ pc'[c] = "stopping")
        => (_transport = None \/ process[_transport] # "up")]_vars

\* A tool is run once for a call: twice after any such reconnection, and always when the
\* host's loop is over, since nobody reads the first answer.
RunOnce == \A c \in Call : runs[c] <= 1

\* aclose shuts the session down: a call that reconnects meanwhile leaves its process.
ClosedIsClosed ==
  (pc[Home] = "closed" /\ \A c \in Call : pc[c] \in Ended) => \A t \in Loop : process[t] # "up"

\* The same process is left by two calls that reconnect at once.
OneProcess == Cardinality({t \in Loop : process[t] = "up" /\ stoppers[t] = {}}) <= 1
=============================================================================
