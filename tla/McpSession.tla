----------------------------- MODULE McpSession -----------------------------
(***************************************************************************)
(* The connection to one MCP server and the tool calls that share it:      *)
(* src/agent_framework/mcp/client.py, manager.py, tools.py and the host's  *)
(* start, aclose and _run_user_comm_coro (src/agent_framework/host.py).    *)
(*                                                                         *)
(* Every call runs its coroutine in an event loop of its own               *)
(* (asyncio.run), which ends with the call.  A connection belongs to the   *)
(* loop that opened it: the host's, or that of the call that reconnected.  *)
(* Its reader task dies with the loop, while its server process lives on.  *)
(***************************************************************************)
EXTENDS Naturals, FiniteSets

CONSTANTS
  Call,       \* tool calls, on threads of their own
  Home,       \* the host: its loop and the actor that starts and closes the session
  None,
  MaxTroubles \* bound: processes that die, do not start or do not end, error answers, aclose

ASSUME McpAssumption == MaxTroubles \in Nat /\ Home \notin Call /\ None \notin Call \cup {Home}

\* Loops, and the connections opened in them: no loop opens more than one.
Loop == Call \cup {Home}

VARIABLES
  homeRuns,     \* whether the host's loop still runs its tasks
  registered,   \* whether McpManager._clients has the client
  _transport,   \* McpClient._transport: a connection or None
  process,      \* server process of each connection: "none", "up" or "down"
  reading,      \* whether the connection's reader task was started and not cancelled
  _pending,     \* futures of each connection: id -> future, as records
  requests,     \* lines written to each process and not handled yet
  answers,      \* lines written by each process and not read yet
  _JSONRPC_ID,  \* the last id
  pc,           \* where each call, or the host, is
  retried,      \* calls that are past their first attempt
  target,       \* the connection an actor has read from _transport and works on
  future,       \* the future a call waits for: [id, state, answer]
  runs,         \* how often the tool was run for a call
  stoppers,     \* those who stopped a connection
  troubles      \* how many of these there have been

vars == <<homeRuns, registered, _transport, process, reading, _pending, requests, answers, _JSONRPC_ID, pc, retried, target, future, runs, stoppers, troubles>>
server == <<process, reading, requests, answers, runs, troubles>>

NoFuture == [id |-> 0, state |-> "none", answer |-> None]
Ended    == {"answered", "failed", "cancelled"}

\* start_all: the first connection is made, or it fails and there is no client.
\* Afterwards the host's loop may go on or, after asyncio.run(host.start()), be over.
Init ==
  /\ homeRuns \in BOOLEAN /\ registered \in BOOLEAN
  /\ _transport = IF registered THEN Home ELSE None
  /\ process = [t \in Loop |-> IF t = Home /\ registered THEN "up" ELSE "none"]
  /\ reading = [t \in Loop |-> t = Home /\ registered]
  /\ _pending = [t \in Loop |-> {}] /\ requests = [t \in Loop |-> {}] /\ answers = [t \in Loop |-> {}]
  /\ _JSONRPC_ID = 0
  /\ pc = [a \in Loop |-> "idle"] /\ retried = {}
  /\ target = [a \in Loop |-> None]
  /\ future = [c \in Call |-> NoFuture]
  /\ runs = [c \in Call |-> 0]
  /\ stoppers = [t \in Loop |-> {}] /\ troubles = 0

Trouble   == troubles < MaxTroubles /\ troubles' = troubles + 1
NoTrouble == UNCHANGED troubles

-----------------------------------------------------------------------------
(* A request: McpClient.call_tool, StdioTransport.request *)

\* Mutant of NextId: an id per transport and pending request.
NextId_Pending(t) == Cardinality(_pending[t]) + 1

\* One counter for all transports of the process.
NextId(t) == _JSONRPC_ID + 1

\* The id, the future, the line, and stdin.drain().  Too much that the server has not read
\* makes a call that opened the connection wait, before any timer runs; to another call,
\* whose loop is not the connection's, it is an exception.  So is a process that was never
\* started and, perhaps, one that is down.
Request(c, method, then, otherwise) ==
  LET t  == _transport
      id == NextId(t)
  IN  /\ _JSONRPC_ID' = _JSONRPC_ID + 1
      /\ _pending' = [_pending EXCEPT ![t] = {f \in @ : f.id # id} \cup {[id |-> id, call |-> c]}]
      /\ target' = [target EXCEPT ![c] = t]
      /\ requests' = IF process'[t] = "up" THEN [requests EXCEPT ![t] = @ \cup {[id |-> id, call |-> c, method |-> method]}] ELSE requests
      /\ \/ /\ process'[t] # "none"
            /\ future' = [future EXCEPT ![c] = [id |-> id, state |-> "waiting", answer |-> None]]
            /\ \/ pc' = [pc EXCEPT ![c] = then]
               \/ t = c /\ method = "tools/call" /\ process'[t] = "up" /\ pc' = [pc EXCEPT ![c] = "draining"]
         \/ /\ t # c \/ process'[t] # "up"
            /\ pc' = [pc EXCEPT ![c] = otherwise]
            /\ UNCHANGED future

\* An exception ends the second attempt and makes the first reconnect.
Failed(c) == IF c \in retried THEN "failed" ELSE "reconnecting"

GoTo(c, where) ==
  /\ pc' = [pc EXCEPT ![c] = where]
  /\ UNCHANGED <<_pending, _JSONRPC_ID, target, future, requests>>

\* McpManager.call_tool and, with the connection the client has by now, McpClient's: no
\* such server is an error, a client without a connection an exception.
SendCall(c) ==
  /\ pc[c] \in {"idle", "calling"}
  /\ UNCHANGED process
  /\ IF c \notin retried /\ ~registered THEN GoTo(c, "failed")
     ELSE IF _transport = None THEN GoTo(c, Failed(c))
     ELSE Request(c, "tools/call", "waiting", Failed(c))
  /\ UNCHANGED <<homeRuns, registered, _transport, reading, answers, retried, runs, stoppers, troubles>>

\* A call has a future, and its timer runs.
Waiting(c) == pc[c] \in {"draining", "waiting", "initializing"}
Timed(c)   == pc[c] \in {"waiting", "initializing"}

\* After initialize the client notifies whatever connection it has by now, and drains it.
Notified(c) ==
  CASE _transport = None -> {"failed"}
    [] _transport # c    -> {"calling", "failed"}
    [] OTHER -> {"calling"} \cup IF process[c] # "up" THEN {"failed"} ELSE {w \in {"notifying"} : requests[c] # {}}

\* The result; a cancelled future is no Exception, so call_tool does not catch it.
Resume(c) ==
  /\ Timed(c) /\ future[c].state # "waiting"
  /\ \E where \in CASE future[c].state = "cancelled" -> {"cancelled"}
                    [] future[c].state = "error"     -> {Failed(c)}
                    [] pc[c] = "waiting"             -> {"answered"}
                    [] OTHER                         -> Notified(c) :
       pc' = [pc EXCEPT ![c] = where]
  /\ future' = [future EXCEPT ![c] = NoFuture]
  /\ UNCHANGED <<homeRuns, registered, _transport, _pending, _JSONRPC_ID, retried, target, stoppers, server>>

\* Mutant of Timeout: a cancelled wait is not put back on its caller.
Timeout_Cancels(c) ==
  /\ Timed(c) /\ future[c].state = "waiting"
  /\ pc' = [pc EXCEPT ![c] = "cancelled"]
  /\ future' = [future EXCEPT ![c] = NoFuture]
  /\ UNCHANGED <<homeRuns, registered, _transport, _pending, _JSONRPC_ID, retried, target, stoppers, server>>

\* Mutant of Timeout: a request waits for ever.
Timeout_Never(c) == FALSE

\* The server has read enough of what was written, or is gone.
Drained(c) ==
  /\ pc[c] \in {"draining", "notifying"}
  /\ pc' = [pc EXCEPT ![c] = IF @ = "draining" THEN "waiting" ELSE "calling"]
  /\ UNCHANGED <<homeRuns, registered, _transport, _pending, _JSONRPC_ID, retried, target, future, stoppers, server>>

\* The process is gone: the second attempt has failed.
DrainRaises(c) ==
  /\ pc[c] \in {"draining", "notifying"} /\ process[c] # "up"
  /\ pc' = [pc EXCEPT ![c] = "failed"]
  /\ future' = [future EXCEPT ![c] = NoFuture]
  /\ UNCHANGED <<homeRuns, registered, _transport, _pending, _JSONRPC_ID, retried, target, stoppers, server>>

\* asyncio.wait_for gives up; the future stays in _pending.
Timeout(c) ==
  /\ Timed(c) /\ future[c].state = "waiting"
  /\ pc' = [pc EXCEPT ![c] = Failed(c)]
  /\ future' = [future EXCEPT ![c] = NoFuture]
  /\ UNCHANGED <<homeRuns, registered, _transport, _pending, _JSONRPC_ID, retried, target, stoppers, server>>

-----------------------------------------------------------------------------
(* Reading *)

LoopRuns(t) == IF t = Home THEN homeRuns ELSE pc[t] \notin Ended
Reads(t)    == reading[t] /\ LoopRuns(t)

\* The future with the id of an answer gets it, unless nobody waits for it any more.
ReadLine(t) ==
  /\ Reads(t)
  /\ \E a \in answers[t] :
       /\ answers' = [answers EXCEPT ![t] = @ \ {a}]
       /\ LET found == {f \in _pending[t] : f.id = a.id}
          IN  /\ _pending' = [_pending EXCEPT ![t] = @ \ found]
              /\ future' = [c \in Call |->
                   IF (\E f \in found : f.call = c) /\ future[c].id = a.id /\ target[c] = t /\ future[c].state = "waiting"
                   THEN [future[c] EXCEPT !.state = a.status, !.answer = a.call] ELSE future[c]]
  /\ UNCHANGED <<homeRuns, registered, _transport, process, reading, requests, _JSONRPC_ID, pc, retried, target, runs, stoppers, troubles>>

-----------------------------------------------------------------------------
(* disconnect, in a reconnecting call or by aclose *)

Down(t) ==
  /\ process' = [process EXCEPT ![t] = IF @ = "up" THEN "down" ELSE @]
  /\ requests' = [requests EXCEPT ![t] = {}]

Ignored == UNCHANGED <<process, requests>>

\* The reader is cancelled and the process asked to end, which it may not do in time.
BeginStop(a) ==
  /\ target' = [target EXCEPT ![a] = _transport]
  /\ IF _transport = None THEN UNCHANGED <<reading, answers, stoppers>>
     ELSE /\ reading' = [reading EXCEPT ![_transport] = FALSE]
          /\ answers' = [answers EXCEPT ![_transport] = {}]
          /\ stoppers' = [stoppers EXCEPT ![_transport] = @ \cup {a}]

\* All who wait for an answer of the stopped connection are cancelled.
EndStop(a) ==
  LET cancelled == {f.id : f \in UNION {_pending[t] : t \in {target[a]} \ {None}}}
  IN  /\ _pending' = [t \in Loop |-> IF t = target[a] THEN {} ELSE _pending[t]]
      /\ future' = [c \in Call |-> IF future[c].id \in cancelled /\ target[c] = target[a] /\ future[c].state = "waiting"
                                   THEN [future[c] EXCEPT !.state = "cancelled"] ELSE future[c]]

BeginReconnect(c) ==
  /\ pc[c] = "reconnecting" /\ BeginStop(c)
  /\ \/ NoTrouble /\ (IF _transport = None THEN Ignored ELSE Down(_transport))
     \/ Trouble /\ Ignored
  /\ pc' = [pc EXCEPT ![c] = "stopping"]
  /\ retried' = retried \cup {c}
  /\ UNCHANGED <<homeRuns, registered, _transport, _pending, _JSONRPC_ID, future, runs>>

\* Then the client's connection, whichever it has meanwhile, is replaced by a new one.
EndReconnect(c) ==
  /\ pc[c] = "stopping" /\ EndStop(c)
  /\ _transport' = c
  /\ pc' = [pc EXCEPT ![c] = "starting"]
  /\ UNCHANGED <<homeRuns, registered, _JSONRPC_ID, retried, target, stoppers, server>>

\* McpManager.stop_all: the client is forgotten when it has disconnected.
BeginClose ==
  /\ pc[Home] = "idle" /\ registered /\ Trouble /\ BeginStop(Home)
  /\ Ignored \/ (_transport # None /\ Down(_transport))
  /\ pc' = [pc EXCEPT ![Home] = "stopping"]
  /\ UNCHANGED <<homeRuns, registered, _transport, _pending, _JSONRPC_ID, retried, future, runs>>

EndClose ==
  /\ pc[Home] = "stopping" /\ EndStop(Home)
  /\ _transport' = None
  /\ registered' = FALSE
  /\ target' = [target EXCEPT ![Home] = None]
  /\ pc' = [pc EXCEPT ![Home] = "closed"]
  /\ UNCHANGED <<homeRuns, _JSONRPC_ID, retried, stoppers, server>>

-----------------------------------------------------------------------------
(* connect, in the loop of the call *)

\* The process starts, or it does not, and the handshake is sent on whatever connection
\* the client has by then.
Connect(c) ==
  /\ pc[c] = "starting"
  /\ \E started \in BOOLEAN :
       /\ process' = [process EXCEPT ![c] = IF started THEN "up" ELSE "none"]
       /\ reading' = [reading EXCEPT ![c] = started]
       /\ IF started THEN NoTrouble ELSE Trouble
       /\ IF started /\ _transport # None THEN Request(c, "initialize", "initializing", "failed")
          ELSE GoTo(c, "failed")
  /\ UNCHANGED <<homeRuns, registered, _transport, answers, retried, runs, stoppers>>

-----------------------------------------------------------------------------
(* The server *)

\* A request is handled: a tool is run; an answer is written, with a result or an error.
\* (What a process writes that nobody reads is left out.)
Handle(t) ==
  /\ process[t] = "up"
  /\ \E r \in requests[t] :
       /\ requests' = [requests EXCEPT ![t] = @ \ {r}]
       /\ runs' = [runs EXCEPT ![r.call] = IF r.method = "tools/call" THEN @ + 1 ELSE @]
       /\ \E status \in {"result", "error"} :
            /\ IF status = "result" THEN NoTrouble ELSE Trouble
            /\ answers' = IF Reads(t) THEN [answers EXCEPT ![t] = @ \cup {[id |-> r.id, call |-> r.call, status |-> status]}] ELSE answers
  /\ UNCHANGED <<homeRuns, registered, _transport, process, reading, _pending, _JSONRPC_ID, pc, retried, target, future, stoppers>>

\* The process ends: the reader comes to the end of its stream and nobody is told.
Die(t) ==
  /\ process[t] = "up" /\ Trouble /\ Down(t)
  /\ UNCHANGED <<homeRuns, registered, _transport, reading, _pending, answers, _JSONRPC_ID, pc, retried, target, future, runs, stoppers>>

-----------------------------------------------------------------------------
CallStep(c) ==
  SendCall(c) \/ Resume(c) \/ DrainRaises(c) \/ BeginReconnect(c) \/ EndReconnect(c) \/ Connect(c)

Next ==
  \/ \E c \in Call : CallStep(c) \/ Timeout(c) \/ Drained(c)
  \/ \E t \in Loop : ReadLine(t) \/ Handle(t) \/ Die(t)
  \/ BeginClose \/ EndClose

\* Threads go on and timers fire; a server need not read or answer, a reader not read.
Fairness == \A c \in Call : WF_vars(CallStep(c)) /\ WF_vars(Timeout(c))

Spec == Init /\ [][Next]_vars /\ Fairness

-----------------------------------------------------------------------------
(* Correctness *)

\* Types: where the host, the calls and their connections are, and what is on its way.
TypeOK ==
  /\ homeRuns \in BOOLEAN /\ registered \in BOOLEAN
  /\ _transport \in Loop \cup {None}
  /\ process \in [Loop -> {"none", "up", "down"}]
  /\ reading \in [Loop -> BOOLEAN]
  /\ _pending \in [Loop -> SUBSET [id : Nat, call : Call]]
  /\ requests \in [Loop -> SUBSET [id : Nat, call : Call, method : {"tools/call", "initialize"}]]
  /\ answers \in [Loop -> SUBSET [id : Nat, call : Call, status : {"result", "error"}]]
  /\ _JSONRPC_ID \in Nat
  /\ pc \in [Loop -> {"idle", "calling", "draining", "waiting", "reconnecting", "stopping", "starting",
                      "initializing", "notifying", "closed"} \cup Ended]
  /\ retried \subseteq Call
  /\ target \in [Loop -> Loop \cup {None}]
  /\ future \in [Call -> [id : Nat, state : {"none", "waiting", "result", "error", "cancelled"},
                          answer : Call \cup {None}]]
  /\ runs \in [Call -> Nat]
  /\ stoppers \in [Loop -> SUBSET Loop]
  /\ troubles \in 0..MaxTroubles

\* The answer a call returns, or the error it retries after, is the server's answer to
\* that call, although calls share connections, give up, come back, and reconnect.
AnswersAreOwn ==
  \A c \in Call : (Waiting(c) /\ future[c].state \in {"result", "error"}) => future[c].answer = c

\* A call is cancelled (which its agent cannot catch) only while it waits for a
\* connection that another call or the closing host stops; alone, it ends with a text.
CancelledByOthers ==
  \A c \in Call : pc[c] = "cancelled" => \E a \in stoppers[target[c]] : a # c

\* A call waits, under no timer, for the server of the connection it opened itself to read.
Blocked(c) == pc[c] \in {"draining", "notifying"} /\ process[c] = "up"

\* Every call ends, whatever the server answers and the other calls and the host do, but
\* for one: a call that has reconnected and whose server stays up without reading on.
CallsEnd == \A c \in Call : <>(pc[c] \in Ended \/ []Blocked(c))
=============================================================================
