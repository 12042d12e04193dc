------------------------- MODULE McpSession_proofs -------------------------
(***************************************************************************)
(* Proofs about McpSession, for every set of calls and any number of       *)
(* troubles: JSON-RPC ids keep the answers of concurrent, repeated and     *)
(* abandoned calls apart, and nobody cancels a call but another actor.     *)
(***************************************************************************)
EXTENDS McpSession, TLAPS

-----------------------------------------------------------------------------
(***************************************************************************)
(* The inductive invariant.                                                *)
(***************************************************************************)

\* No message has an id that was not given out yet.
IdsAreIssued ==
  /\ \A t \in Loop : \A r \in requests[t] : r.id <= _JSONRPC_ID
  /\ \A t \in Loop : \A a \in answers[t] : a.id <= _JSONRPC_ID
  /\ \A c \in Call : future[c].id <= _JSONRPC_ID

\* What carries the id a call waits for was written for that call.
IdsAreOwn ==
  \A c \in Call : future[c].state = "waiting" =>
    /\ \A t \in Loop : \A r \in requests[t] : r.id = future[c].id => r.call = c
    /\ \A t \in Loop : \A a \in answers[t] : a.id = future[c].id => a.call = c

\* Only a call that waits has a future, and it waits, or has waited, on a connection.
FuturesAreWaitedFor ==
  \A c \in Call :
    /\ future[c].state # "none" => Waiting(c) /\ target[c] # None
    /\ pc[c] = "cancelled" => target[c] # None

\* Who is stopping a connection is among those who stopped it.
StoppersAreKnown ==
  \A a \in Loop : pc[a] = "stopping" /\ target[a] # None => a \in stoppers[target[a]]

\* A future is cancelled by somebody else.
FuturesCancelledByOthers ==
  \A c \in Call : future[c].state = "cancelled" => \E a \in stoppers[target[c]] : a # c

IInv ==
  /\ TypeOK
  /\ IdsAreIssued
  /\ IdsAreOwn
  /\ FuturesAreWaitedFor
  /\ StoppersAreKnown
  /\ FuturesCancelledByOthers
  /\ AnswersAreOwn
  /\ CancelledByOthers

LEMMA InitIInv == Init => IInv
<1>. SUFFICES ASSUME Init PROVE IInv
  OBVIOUS
<1>. USE McpAssumption DEF Init, Loop, NoFuture
<1>1. TypeOK
  BY DEF TypeOK, Ended
<1>2. IdsAreIssued /\ IdsAreOwn /\ FuturesAreWaitedFor /\ StoppersAreKnown /\ FuturesCancelledByOthers
  BY DEF IdsAreIssued, IdsAreOwn, FuturesAreWaitedFor, StoppersAreKnown, FuturesCancelledByOthers
<1>3. AnswersAreOwn /\ CancelledByOthers
  BY DEF AnswersAreOwn, CancelledByOthers, Waiting
<1>. QED  BY <1>1, <1>2, <1>3 DEF IInv

-----------------------------------------------------------------------------
(***************************************************************************)
(* The steps.                                                              *)
(***************************************************************************)

\* Where a call goes that gives up its future.
LEMMA WhereFrom ==
  ASSUME NEW c \in Call, Resume(c) \/ Timeout(c) \/ DrainRaises(c)
  PROVE  \E where \in {"answered", "failed", "cancelled", "reconnecting", "calling", "notifying"} :
            /\ pc' = [pc EXCEPT ![c] = where]
            /\ where = "cancelled" => future[c].state = "cancelled"
<1>1. Notified(c) \subseteq {"failed", "calling", "notifying"}
  BY DEF Notified
<1>2. Failed(c) \in {"failed", "reconnecting"}
  BY DEF Failed
<1>3. CASE Resume(c)
  <2>1. CASE future[c].state = "cancelled"
    BY <1>3, <2>1 DEF Resume
  <2>2. CASE future[c].state # "cancelled"
    BY <1>1, <1>2, <1>3, <2>2 DEF Resume
  <2>. QED  BY <2>1, <2>2
<1>4. CASE Timeout(c) \/ DrainRaises(c)
  BY <1>2, <1>4 DEF Timeout, DrainRaises
<1>. QED  BY <1>3, <1>4

\* Every step keeps the types.
LEMMA TypeStep == TypeOK /\ [Next]_vars => TypeOK'
<1>. SUFFICES ASSUME TypeOK, [Next]_vars PROVE TypeOK'
  OBVIOUS
<1>. USE McpAssumption DEF Loop, NoFuture, Ended
<1>1. ASSUME NEW c \in Call, NEW method \in {"tools/call", "initialize"},
             NEW then \in {"waiting", "initializing"},
             NEW otherwise \in {"failed", "reconnecting"},
             Request(c, method, then, otherwise), _transport # None
      PROVE  /\ _pending' \in [Loop -> SUBSET [id : Nat, call : Call]]
             /\ requests' \in [Loop -> SUBSET [id : Nat, call : Call, method : {"tools/call", "initialize"}]]
             /\ _JSONRPC_ID' \in Nat
             /\ pc' \in [Loop -> {"idle", "calling", "draining", "waiting", "reconnecting", "stopping", "starting",
                                  "initializing", "notifying", "closed"} \cup Ended]
             /\ target' \in [Loop -> Loop \cup {None}]
             /\ future' \in [Call -> [id : Nat, state : {"none", "waiting", "result", "error", "cancelled"},
                                      answer : Call \cup {None}]]
  <2>. DEFINE id == _JSONRPC_ID + 1
  <2>1. id \in Nat /\ _transport \in Loop
    BY <1>1 DEF TypeOK
  <2>2. _pending' = [_pending EXCEPT ![_transport] = {f \in @ : f.id # id} \cup {[id |-> id, call |-> c]}]
    BY <1>1 DEF Request, NextId
  <2>3. \/ UNCHANGED requests
        \/ requests' = [requests EXCEPT ![_transport] = @ \cup {[id |-> id, call |-> c, method |-> method]}]
    BY <1>1 DEF Request, NextId
  <2>4. \/ UNCHANGED future
        \/ future' = [future EXCEPT ![c] = [id |-> id, state |-> "waiting", answer |-> None]]
    BY <1>1 DEF Request, NextId
  <2>5. _JSONRPC_ID' = id /\ target' = [target EXCEPT ![c] = _transport]
    BY <1>1 DEF Request
  <2>6. \E where \in {then, otherwise, "draining"} : pc' = [pc EXCEPT ![c] = where]
    BY <1>1 DEF Request
  <2>7. /\ _pending \in [Loop -> SUBSET [id : Nat, call : Call]]
        /\ requests \in [Loop -> SUBSET [id : Nat, call : Call, method : {"tools/call", "initialize"}]]
        /\ pc \in [Loop -> {"idle", "calling", "draining", "waiting", "reconnecting", "stopping", "starting",
                            "initializing", "notifying", "closed"} \cup Ended]
        /\ target \in [Loop -> Loop \cup {None}]
        /\ future \in [Call -> [id : Nat, state : {"none", "waiting", "result", "error", "cancelled"},
                                answer : Call \cup {None}]]
    BY DEF TypeOK
  <2>. HIDE DEF id
  <2>8. _pending' \in [Loop -> SUBSET [id : Nat, call : Call]]
    BY <2>1, <2>2, <2>7
  <2>9. requests' \in [Loop -> SUBSET [id : Nat, call : Call, method : {"tools/call", "initialize"}]]
    BY <2>1, <2>3, <2>7
  <2>10. pc' \in [Loop -> {"idle", "calling", "draining", "waiting", "reconnecting", "stopping", "starting",
                           "initializing", "notifying", "closed"} \cup Ended]
    BY <2>6, <2>7
  <2>11. future' \in [Call -> [id : Nat, state : {"none", "waiting", "result", "error", "cancelled"},
                              answer : Call \cup {None}]]
    BY <2>1, <2>4, <2>7
  <2>. QED  BY <2>1, <2>5, <2>7, <2>8, <2>9, <2>10, <2>11
<1>2. ASSUME NEW c \in Call, SendCall(c)
      PROVE  TypeOK'
  <2>1. CASE Request(c, "tools/call", "waiting", Failed(c)) /\ _transport # None
    <3>1. Failed(c) \in {"failed", "reconnecting"}
      BY DEF Failed
    <3>. QED  BY <1>1, <1>2, <2>1, <3>1 DEF SendCall, TypeOK
  <2>2. CASE \E where \in {"failed", Failed(c)} : GoTo(c, where)
    BY <1>2, <2>2 DEF SendCall, GoTo, Failed, TypeOK
  <2>. QED  BY <1>2, <2>1, <2>2 DEF SendCall
<1>3. ASSUME NEW c \in Call, Resume(c) \/ Timeout(c) \/ Drained(c) \/ DrainRaises(c)
      PROVE  TypeOK'
  <2>1. \E where \in {"answered", "failed", "cancelled", "reconnecting", "calling", "notifying", "waiting"} :
          pc' = [pc EXCEPT ![c] = where]
    BY <1>3, WhereFrom DEF Drained
  <2>2. future' = [future EXCEPT ![c] = NoFuture] \/ UNCHANGED future
    BY <1>3 DEF Resume, Timeout, Drained, DrainRaises
  <2>3. UNCHANGED <<homeRuns, registered, _transport, _pending, _JSONRPC_ID, retried, target, stoppers, server>>
    BY <1>3 DEF Resume, Timeout, Drained, DrainRaises
  <2>. QED  BY <2>1, <2>2, <2>3 DEF server, TypeOK
<1>4. ASSUME NEW t \in Loop, ReadLine(t)
      PROVE  TypeOK'
  <2>1. PICK a \in answers[t] :
          /\ answers' = [answers EXCEPT ![t] = @ \ {a}]
          /\ _pending' = [_pending EXCEPT ![t] = @ \ {f \in _pending[t] : f.id = a.id}]
          /\ future' = [c \in Call |->
               IF (\E f \in {g \in _pending[t] : g.id = a.id} : f.call = c) /\ future[c].id = a.id
                  /\ target[c] = t /\ future[c].state = "waiting"
               THEN [future[c] EXCEPT !.state = a.status, !.answer = a.call] ELSE future[c]]
    BY <1>4 DEF ReadLine
  <2>2. a.status \in {"result", "error"} /\ a.call \in Call
    <3>1. answers[t] \in SUBSET [id : Nat, call : Call, status : {"result", "error"}]
      BY DEF TypeOK
    <3>. QED  BY <2>1, <3>1
  <2>3. future' \in [Call -> [id : Nat, state : {"none", "waiting", "result", "error", "cancelled"},
                              answer : Call \cup {None}]]
    <3>1. ASSUME NEW f \in [id : Nat, state : {"none", "waiting", "result", "error", "cancelled"},
                            answer : Call \cup {None}]
          PROVE  [f EXCEPT !.state = a.status, !.answer = a.call]
                   \in [id : Nat, state : {"none", "waiting", "result", "error", "cancelled"},
                        answer : Call \cup {None}]
      BY <2>2
    <3>2. \A c \in Call : future[c] \in [id : Nat, state : {"none", "waiting", "result", "error", "cancelled"},
                                         answer : Call \cup {None}]
      BY DEF TypeOK
    <3>. QED  BY <2>1, <3>1, <3>2
  <2>. QED  BY <1>4, <2>1, <2>3 DEF ReadLine, TypeOK
<1>5. ASSUME NEW a \in Loop, BeginStop(a)
      PROVE  /\ target' \in [Loop -> Loop \cup {None}]
             /\ reading' \in [Loop -> BOOLEAN]
             /\ answers' \in [Loop -> SUBSET [id : Nat, call : Call, status : {"result", "error"}]]
             /\ stoppers' \in [Loop -> SUBSET Loop]
  <2>1. CASE _transport = None
    BY <1>5, <2>1 DEF BeginStop, TypeOK
  <2>2. CASE _transport \in Loop
    <3>1. target' = [target EXCEPT ![a] = _transport]
      BY <1>5 DEF BeginStop
    <3>2. /\ reading' = [reading EXCEPT ![_transport] = FALSE]
          /\ answers' = [answers EXCEPT ![_transport] = {}]
          /\ stoppers' = [stoppers EXCEPT ![_transport] = @ \cup {a}]
      BY <1>5, <2>2 DEF BeginStop
    <3>. QED  BY <2>2, <3>1, <3>2 DEF TypeOK
  <2>. QED  BY <2>1, <2>2 DEF TypeOK
<1>6. ASSUME NEW a \in Loop, EndStop(a)
      PROVE  /\ _pending' \in [Loop -> SUBSET [id : Nat, call : Call]]
             /\ future' \in [Call -> [id : Nat, state : {"none", "waiting", "result", "error", "cancelled"},
                                      answer : Call \cup {None}]]
  <2>1. _pending' \in [Loop -> SUBSET [id : Nat, call : Call]]
    BY <1>6 DEF EndStop, TypeOK
  <2>2. \A c \in Call : future[c] \in [id : Nat, state : {"none", "waiting", "result", "error", "cancelled"},
                                       answer : Call \cup {None}]
    BY DEF TypeOK
  <2>3. \A c \in Call : [future[c] EXCEPT !.state = "cancelled"]
          \in [id : Nat, state : {"none", "waiting", "result", "error", "cancelled"}, answer : Call \cup {None}]
    BY <2>2
  <2>4. \E S \in SUBSET Call :
          future' = [c \in Call |-> IF c \in S THEN [future[c] EXCEPT !.state = "cancelled"] ELSE future[c]]
    <3>. DEFINE S == {c \in Call : /\ future[c].id \in {f.id : f \in UNION {_pending[t] : t \in {target[a]} \ {None}}}
                                  /\ target[c] = target[a] /\ future[c].state = "waiting"}
    <3>. WITNESS S \in SUBSET Call
    <3>. QED  BY <1>6 DEF EndStop
  <2>. QED  BY <2>1, <2>2, <2>3, <2>4
<1>7. ASSUME NEW t \in Loop, Down(t)
      PROVE  /\ process' \in [Loop -> {"none", "up", "down"}]
             /\ requests' \in [Loop -> SUBSET [id : Nat, call : Call, method : {"tools/call", "initialize"}]]
  BY <1>7 DEF Down, TypeOK
<1>8. ASSUME Trouble \/ NoTrouble
      PROVE  troubles' \in 0..MaxTroubles
  BY <1>8 DEF Trouble, NoTrouble, TypeOK
<1>9. ASSUME NEW c \in Call, BeginReconnect(c)
      PROVE  TypeOK'
  BY <1>5, <1>7, <1>8, <1>9 DEF BeginReconnect, Ignored, TypeOK
<1>10. ASSUME NEW c \in Call, EndReconnect(c)
       PROVE  TypeOK'
  BY <1>6, <1>10 DEF EndReconnect, server, TypeOK
<1>11. CASE BeginClose
  BY <1>5, <1>7, <1>8, <1>11 DEF BeginClose, Ignored, TypeOK
<1>12. CASE EndClose
  BY <1>6, <1>12 DEF EndClose, server, TypeOK
<1>13. ASSUME NEW c \in Call, Connect(c)
       PROVE  TypeOK'
  <2>1. PICK started \in BOOLEAN :
          /\ process' = [process EXCEPT ![c] = IF started THEN "up" ELSE "none"]
          /\ reading' = [reading EXCEPT ![c] = started]
          /\ IF started THEN NoTrouble ELSE Trouble
          /\ IF started /\ _transport # None THEN Request(c, "initialize", "initializing", "failed")
             ELSE GoTo(c, "failed")
    BY <1>13 DEF Connect
  <2>2. process' \in [Loop -> {"none", "up", "down"}] /\ reading' \in [Loop -> BOOLEAN]
        /\ troubles' \in 0..MaxTroubles
    BY <1>8, <2>1 DEF TypeOK
  <2>3. CASE Request(c, "initialize", "initializing", "failed") /\ _transport # None
    BY <1>1, <1>13, <2>2, <2>3 DEF Connect, TypeOK
  <2>4. CASE GoTo(c, "failed")
    BY <1>13, <2>2, <2>4 DEF Connect, GoTo, TypeOK
  <2>. QED  BY <2>1, <2>3, <2>4
<1>14. ASSUME NEW t \in Loop, Handle(t)
       PROVE  TypeOK'
  <2>1. PICK r \in requests[t], status \in {"result", "error"} :
          /\ requests' = [requests EXCEPT ![t] = @ \ {r}]
          /\ runs' = [runs EXCEPT ![r.call] = IF r.method = "tools/call" THEN @ + 1 ELSE @]
          /\ IF status = "result" THEN NoTrouble ELSE Trouble
          /\ answers' = IF Reads(t) THEN [answers EXCEPT ![t] = @ \cup {[id |-> r.id, call |-> r.call, status |-> status]}] ELSE answers
    BY <1>14 DEF Handle
  <2>2. r.id \in Nat /\ r.call \in Call
    BY <2>1 DEF TypeOK
  <2>3. answers' \in [Loop -> SUBSET [id : Nat, call : Call, status : {"result", "error"}]]
    BY <2>1, <2>2 DEF TypeOK
  <2>4. requests' \in [Loop -> SUBSET [id : Nat, call : Call, method : {"tools/call", "initialize"}]]
    BY <2>1 DEF TypeOK
  <2>5. runs' \in [Call -> Nat] /\ troubles' \in 0..MaxTroubles
    BY <1>8, <2>1, <2>2 DEF TypeOK
  <2>. QED  BY <1>14, <2>3, <2>4, <2>5 DEF Handle, TypeOK
<1>15. ASSUME NEW t \in Loop, Die(t)
       PROVE  TypeOK'
  BY <1>7, <1>8, <1>15 DEF Die, TypeOK
<1>16. CASE UNCHANGED vars
  BY <1>16 DEF vars, TypeOK
<1>17. \A c \in Call : CallStep(c) \/ Timeout(c) \/ Drained(c) => TypeOK'
  BY <1>2, <1>3, <1>9, <1>10, <1>13 DEF CallStep
<1>. QED  BY <1>4, <1>11, <1>12, <1>14, <1>15, <1>16, <1>17 DEF Next

\* A request gets an id nothing else has, for a call nobody waits for yet.
LEMMA RequestStep ==
  ASSUME IInv, TypeOK', NEW c \in Call, NEW method, NEW then \in {"waiting", "initializing"},
         NEW otherwise \in {"failed", "reconnecting"},
         ~Waiting(c), pc[c] # "stopping", _transport # None,
         Request(c, method, then, otherwise),
         UNCHANGED <<answers, stoppers>>
  PROVE  IInv'
<1>. USE DEF Loop, NoFuture
<1>. DEFINE id == _JSONRPC_ID + 1
<1>0. TypeOK /\ _transport \in Loop /\ _JSONRPC_ID \in Nat /\ _JSONRPC_ID' = id
  BY DEF IInv, TypeOK, Request, NextId
<1>1. future[c].state = "none"
  BY DEF IInv, FuturesAreWaitedFor, TypeOK
<1>2. target' = [target EXCEPT ![c] = _transport]
  BY DEF Request
<1>3. \A d \in Loop : d # c => pc'[d] = pc[d] /\ target'[d] = target[d]
  BY <1>0, <1>2 DEF Request, TypeOK
<1>4. \A d \in Call : d # c => future'[d] = future[d]
  BY <1>0 DEF Request, TypeOK
<1>5. \/ /\ future'[c] = [id |-> id, state |-> "waiting", answer |-> None]
         /\ pc'[c] \in {then, "draining"}
      \/ future'[c] = future[c] /\ pc'[c] = otherwise
  <2>1. \/ /\ future' = [future EXCEPT ![c] = [id |-> id, state |-> "waiting", answer |-> None]]
           /\ \E where \in {then, "draining"} : pc' = [pc EXCEPT ![c] = where]
        \/ UNCHANGED future /\ pc' = [pc EXCEPT ![c] = otherwise]
    BY DEF Request, NextId
  <2>2. DOMAIN future = Call /\ DOMAIN pc = Loop
    BY <1>0 DEF TypeOK
  <2>. QED  BY <2>1, <2>2
<1>6. \A t \in Loop : \A r \in requests'[t] : r \in requests[t] \/ (r.id = id /\ r.call = c)
  <2>. DEFINE sent == [id |-> id, call |-> c, method |-> method]
  <2>1. UNCHANGED requests \/ requests' = [requests EXCEPT ![_transport] = @ \cup {sent}]
    BY DEF Request, NextId
  <2>2. sent.id = id /\ sent.call = c
    OBVIOUS
  <2>. HIDE DEF sent
  <2>3. DOMAIN requests = Loop
    BY <1>0 DEF TypeOK
  <2>4. CASE UNCHANGED requests
    BY <2>2, <2>4
  <2>5. CASE requests' = [requests EXCEPT ![_transport] = @ \cup {sent}]
    <3>1. ASSUME NEW t \in Loop PROVE requests'[t] = requests[t] \/ requests'[t] = requests[t] \cup {sent}
      BY <2>3, <2>5
    <3>. QED  BY <2>2, <3>1
  <2>. QED  BY <2>1, <2>4, <2>5
<1>7. IdsAreIssued'
  <2>1. \A t \in Loop : \A r \in requests'[t] : r.id <= id
    <3>1. \A t \in Loop : \A r \in requests[t] : r.id \in Nat
      BY <1>0 DEF TypeOK
    <3>2. \A t \in Loop : \A r \in requests[t] : r.id <= _JSONRPC_ID
      BY DEF IInv, IdsAreIssued
    <3>3. \A t \in Loop : \A r \in requests[t] : r.id <= id
      BY <1>0, <3>1, <3>2
    <3>. QED  BY <1>0, <1>6, <3>3
  <2>2. \A t \in Loop : \A a \in answers'[t] : a.id <= id
    BY <1>0 DEF IInv, IdsAreIssued, TypeOK
  <2>3. ASSUME NEW d \in Call PROVE future'[d].id <= id
    <3>1. future[d].id \in Nat /\ future[d].id <= _JSONRPC_ID
      BY <1>0 DEF IInv, IdsAreIssued, TypeOK
    <3>2. future'[d].id = future[d].id \/ future'[d].id = id
      BY <1>4, <1>5
    <3>. QED  BY <1>0, <3>1, <3>2
  <2>. QED  BY <1>0, <2>1, <2>2, <2>3 DEF IdsAreIssued
<1>8. IdsAreOwn'
  <2> SUFFICES ASSUME NEW d \in Call, future'[d].state = "waiting"
               PROVE  /\ \A t \in Loop : \A r \in requests'[t] : r.id = future'[d].id => r.call = d
                      /\ \A t \in Loop : \A a \in answers'[t] : a.id = future'[d].id => a.call = d
    BY DEF IdsAreOwn
  <2>1. CASE d = c
    <3>1. future'[d].id = id
      BY <2>1, <1>1, <1>5
    <3>2. \A t \in Loop : /\ \A r \in requests[t] : r.id # id
                          /\ \A a \in answers[t] : a.id # id
      BY <1>0 DEF IInv, IdsAreIssued, TypeOK
    <3>. QED  BY <2>1, <3>1, <3>2, <1>6
  <2>2. CASE d # c
    <3>1. future'[d] = future[d] /\ future[d].id # id
      BY <2>2, <1>0, <1>4 DEF IInv, IdsAreIssued, TypeOK
    <3>. QED  BY <3>1, <1>6 DEF IInv, IdsAreOwn
  <2>. QED  BY <2>1, <2>2
<1>9. FuturesAreWaitedFor' /\ CancelledByOthers' /\ FuturesCancelledByOthers' /\ AnswersAreOwn'
  <2>1. FuturesAreWaitedFor'
    BY <1>0, <1>1, <1>2, <1>3, <1>4, <1>5, McpAssumption
    DEF IInv, FuturesAreWaitedFor, Waiting, TypeOK
  <2>2. CancelledByOthers'
    BY <1>0, <1>3, <1>5 DEF IInv, CancelledByOthers
  <2>3. FuturesCancelledByOthers'
    BY <1>0, <1>1, <1>3, <1>4, <1>5 DEF IInv, FuturesCancelledByOthers
  <2>4. AnswersAreOwn'
    BY <1>0, <1>1, <1>3, <1>4, <1>5 DEF IInv, AnswersAreOwn, Waiting
  <2>. QED  BY <2>1, <2>2, <2>3, <2>4
<1>10. StoppersAreKnown'
  BY <1>0, <1>3, <1>5 DEF IInv, StoppersAreKnown, TypeOK
<1>. QED  BY <1>7, <1>8, <1>9, <1>10 DEF IInv

\* A call moves, or its future is dropped, without a word to anybody.
LEMMA QuietStep ==
  ASSUME IInv, TypeOK', NEW c \in Call,
         \A d \in Loop : d # c => pc'[d] = pc[d],
         \A d \in Call : d # c => future'[d] = future[d],
         \/ future'[c] = NoFuture
         \/ future'[c] = future[c] /\ (Waiting(c) => Waiting(c)'),
         pc'[c] # "stopping",
         pc'[c] = "cancelled" => pc[c] = "cancelled" \/ future[c].state = "cancelled",
         UNCHANGED <<_JSONRPC_ID, target, stoppers>>,
         \A t \in Loop : requests'[t] \subseteq requests[t] /\ answers'[t] \subseteq answers[t]
  PROVE  IInv'
<1>. USE DEF Loop, NoFuture
<1>0. TypeOK
  BY DEF IInv
<1>1. future'[c] = NoFuture \/ (future'[c] = future[c] /\ (future[c].state = "none" \/ (Waiting(c) /\ Waiting(c)')))
  BY DEF IInv, FuturesAreWaitedFor
<1>2. IdsAreIssued'
  <2>1. ASSUME NEW d \in Call PROVE future'[d].id <= _JSONRPC_ID
    <3>1. future[d].id <= _JSONRPC_ID /\ _JSONRPC_ID \in Nat
      BY <1>0 DEF IInv, IdsAreIssued, TypeOK
    <3>2. future'[d].id = future[d].id \/ future'[d].id = 0
      BY <1>1
    <3>. QED  BY <3>1, <3>2
  <2>2. /\ \A t \in Loop : \A r \in requests'[t] : r.id <= _JSONRPC_ID
        /\ \A t \in Loop : \A a \in answers'[t] : a.id <= _JSONRPC_ID
    BY DEF IInv, IdsAreIssued
  <2>. QED  BY <2>1, <2>2 DEF IdsAreIssued
<1>3. IdsAreOwn'
  <2>. SUFFICES ASSUME NEW d \in Call, future'[d].state = "waiting"
                PROVE  /\ \A t \in Loop : \A r \in requests'[t] : r.id = future'[d].id => r.call = d
                       /\ \A t \in Loop : \A a \in answers'[t] : a.id = future'[d].id => a.call = d
    BY DEF IdsAreOwn
  <2>1. future'[d] = future[d]
    BY <1>1
  <2>2. /\ \A t \in Loop : \A r \in requests[t] : r.id = future[d].id => r.call = d
        /\ \A t \in Loop : \A a \in answers[t] : a.id = future[d].id => a.call = d
    BY <2>1 DEF IInv, IdsAreOwn
  <2>. QED  BY <2>1, <2>2
<1>4. FuturesAreWaitedFor' /\ AnswersAreOwn'
  BY <1>0, <1>1 DEF IInv, FuturesAreWaitedFor, AnswersAreOwn, Waiting
<1>5. StoppersAreKnown'
  BY <1>0 DEF IInv, StoppersAreKnown
<1>6. FuturesCancelledByOthers' /\ CancelledByOthers'
  BY <1>0, <1>1 DEF IInv, FuturesCancelledByOthers, CancelledByOthers
<1>. QED  BY <1>2, <1>3, <1>4, <1>5, <1>6 DEF IInv

\* A line that is read goes to the call it was written for.
LEMMA ReadLineStep == ASSUME IInv, TypeOK', NEW t \in Loop, ReadLine(t) PROVE IInv'
<1>. PICK a \in answers[t] :
       /\ answers' = [answers EXCEPT ![t] = @ \ {a}]
       /\ future' = [c \in Call |->
            IF (\E f \in {g \in _pending[t] : g.id = a.id} : f.call = c) /\ future[c].id = a.id
               /\ target[c] = t /\ future[c].state = "waiting"
            THEN [future[c] EXCEPT !.state = a.status, !.answer = a.call] ELSE future[c]]
  BY DEF ReadLine
<1>0. UNCHANGED <<_transport, requests, _JSONRPC_ID, pc, target, stoppers>> /\ TypeOK
  BY DEF ReadLine, IInv
<1>1. a.status \in {"result", "error"}
  <2>1. answers[t] \in SUBSET [id : Nat, call : Call, status : {"result", "error"}]
    BY <1>0 DEF TypeOK
  <2>. QED  BY <2>1
<1>2. \A u \in Loop : answers'[u] \subseteq answers[u]
  BY <1>0 DEF TypeOK
<1>3. \A c \in Call :
        \/ future'[c] = future[c]
        \/ /\ future[c].state = "waiting" /\ future[c].id = a.id
           /\ future'[c] = [future[c] EXCEPT !.state = a.status, !.answer = a.call]
  OBVIOUS
<1>4. ASSUME NEW c \in Call
      PROVE  /\ future'[c].id = future[c].id
             /\ future'[c] = future[c]
                \/ /\ future[c].state = "waiting" /\ future'[c].state \in {"result", "error"}
                   /\ future'[c].answer = c
  <2>1. future[c] \in [id : Nat, state : {"none", "waiting", "result", "error", "cancelled"},
                       answer : Call \cup {None}]
    BY <1>0 DEF TypeOK
  <2>2. future[c].state = "waiting" /\ future[c].id = a.id => a.call = c
    BY DEF IInv, IdsAreOwn
  <2>. QED  BY <1>1, <1>3, <2>1, <2>2
<1>5. IdsAreIssued' /\ IdsAreOwn'
  <2>1. \A c \in Call : /\ future'[c].id = future[c].id
                        /\ future'[c].state = "waiting" => future[c].state = "waiting"
    BY <1>4
  <2>2. UNCHANGED requests /\ _JSONRPC_ID' = _JSONRPC_ID
    BY <1>0
  <2>3. IdsAreIssued /\ IdsAreOwn
    BY DEF IInv
  <2>4. IdsAreIssued'
    BY ONLY <1>2, <2>1, <2>2, <2>3 DEF IdsAreIssued
  <2>5. IdsAreOwn'
    BY ONLY <1>2, <2>1, <2>2, <2>3 DEF IdsAreOwn
  <2>. QED  BY <2>4, <2>5
<1>6. FuturesAreWaitedFor' /\ StoppersAreKnown'
  BY <1>0, <1>4 DEF IInv, FuturesAreWaitedFor, StoppersAreKnown, Waiting
<1>7. FuturesCancelledByOthers' /\ CancelledByOthers'
  BY <1>0, <1>4 DEF IInv, FuturesCancelledByOthers, CancelledByOthers
<1>8. AnswersAreOwn'
  BY <1>0, <1>4 DEF IInv, AnswersAreOwn, Waiting
<1>. QED  BY <1>5, <1>6, <1>7, <1>8 DEF IInv

\* Who begins to stop a connection is noted, and waits for nothing itself.
LEMMA BeginStopStep ==
  ASSUME IInv, TypeOK', NEW a \in Loop, BeginStop(a), a \in Call => ~Waiting(a), pc[a] # "cancelled",
         pc' = [pc EXCEPT ![a] = "stopping"],
         UNCHANGED <<_JSONRPC_ID, future>>,
         \A t \in Loop : requests'[t] \subseteq requests[t]
  PROVE  IInv'
<1>0. TypeOK
  BY DEF IInv
<1>1. \A b \in Loop : b # a => target'[b] = target[b] /\ pc'[b] = pc[b]
  BY <1>0 DEF BeginStop, TypeOK
<1>2. pc'[a] = "stopping" /\ target'[a] = _transport
  BY <1>0 DEF BeginStop, TypeOK
<1>3. \A t \in Loop : answers'[t] \subseteq answers[t] /\ stoppers[t] \subseteq stoppers'[t]
  BY <1>0 DEF BeginStop, TypeOK
<1>4. _transport # None => a \in stoppers'[_transport]
  BY <1>0 DEF BeginStop, TypeOK
<1>5. \A c \in Call : future[c].state # "none" =>
        /\ c # a /\ Waiting(c) /\ Waiting(c)' /\ target'[c] = target[c] /\ target[c] \in Loop
  BY <1>0, <1>1 DEF IInv, FuturesAreWaitedFor, Waiting, Loop, TypeOK
<1>6. IdsAreIssued' /\ IdsAreOwn'
  BY <1>3 DEF IInv, IdsAreIssued, IdsAreOwn
<1>7. FuturesAreWaitedFor'
  <2>1. \A c \in Call : pc'[c] = "cancelled" => c # a /\ pc[c] = "cancelled" /\ target'[c] = target[c]
    BY <1>1, <1>2 DEF Loop
  <2>. QED  BY <1>5, <2>1, McpAssumption DEF IInv, FuturesAreWaitedFor, Loop
<1>8. StoppersAreKnown'
  BY <1>0, <1>1, <1>2, <1>3, <1>4 DEF IInv, StoppersAreKnown, TypeOK
<1>9. FuturesCancelledByOthers'
  BY <1>3, <1>5 DEF IInv, FuturesCancelledByOthers
<1>10. CancelledByOthers'
  <2> SUFFICES ASSUME NEW c \in Call, pc'[c] = "cancelled"
               PROVE  \E b \in stoppers'[target'[c]] : b # c
    BY DEF CancelledByOthers
  <2>1. c # a /\ pc[c] = "cancelled" /\ target'[c] = target[c]
    BY <1>1, <1>2 DEF Loop
  <2>2. PICK b \in stoppers[target[c]] : b # c
    BY <2>1 DEF IInv, CancelledByOthers
  <2>3. target[c] \in Loop
    BY <1>0, <2>1 DEF IInv, FuturesAreWaitedFor, Loop, TypeOK
  <2>. QED  BY <1>3, <2>1, <2>2, <2>3
<1>11. AnswersAreOwn'
  BY <1>5 DEF IInv, AnswersAreOwn, Waiting
<1>. QED  BY <1>6, <1>7, <1>8, <1>9, <1>10, <1>11 DEF IInv

\* Whoever is cancelled at the end waits for the connection, and the one who stops it
\* does not wait.
LEMMA EndStopStep ==
  ASSUME IInv, TypeOK', NEW a \in Loop, EndStop(a), pc[a] = "stopping",
         \A b \in Loop : b # a => pc'[b] = pc[b] /\ target'[b] = target[b],
         pc'[a] \in {"starting", "closed"},
         UNCHANGED <<_JSONRPC_ID, requests, answers, stoppers>>
  PROVE  IInv'
<1>0. TypeOK
  BY DEF IInv
<1>1. \A c \in Call : future[c].state # "none" => c # a
  BY <1>0 DEF IInv, FuturesAreWaitedFor, Waiting
<1>2. ASSUME NEW c \in Call
      PROVE  /\ future'[c].id = future[c].id
             /\ future'[c].answer = future[c].answer
             /\ \/ future'[c] = future[c]
                \/ /\ future[c].state = "waiting" /\ future'[c].state = "cancelled"
                   /\ target[c] = target[a]
  <2>1. future[c] \in [id : Nat, state : {"none", "waiting", "result", "error", "cancelled"},
                       answer : Call \cup {None}]
    BY <1>0 DEF TypeOK
  <2>. QED  BY <2>1 DEF EndStop
<1>3. IdsAreIssued' /\ IdsAreOwn'
  BY <1>2 DEF IInv, IdsAreIssued, IdsAreOwn
<1>4. \A c \in Call : c # a => Waiting(c)' = Waiting(c) /\ target'[c] = target[c] /\ pc'[c] = pc[c]
  BY DEF Waiting, Loop
<1>5. FuturesAreWaitedFor'
  BY <1>1, <1>2, <1>4 DEF IInv, FuturesAreWaitedFor
<1>6. StoppersAreKnown'
  BY DEF IInv, StoppersAreKnown
<1>7. FuturesCancelledByOthers'
  <2> SUFFICES ASSUME NEW c \in Call, future'[c].state = "cancelled"
               PROVE  \E b \in stoppers[target[c]] : b # c /\ target'[c] = target[c]
    BY DEF FuturesCancelledByOthers
  <2>1. future[c].state \in {"cancelled", "waiting"} /\ c # a /\ target'[c] = target[c] /\ target[c] # None
    BY <1>1, <1>2, <1>4 DEF IInv, FuturesAreWaitedFor
  <2>2. CASE future[c].state = "cancelled"
    BY <2>1, <2>2 DEF IInv, FuturesCancelledByOthers
  <2>3. CASE future[c].state = "waiting"
    <3>1. target[c] = target[a]
      BY <1>2, <2>3
    <3>. QED  BY <2>1, <3>1 DEF IInv, StoppersAreKnown
  <2>. QED  BY <2>1, <2>2, <2>3
<1>8. CancelledByOthers' /\ AnswersAreOwn'
  BY <1>1, <1>2, <1>4 DEF IInv, CancelledByOthers, AnswersAreOwn, Waiting
<1>. QED  BY <1>3, <1>5, <1>6, <1>7, <1>8 DEF IInv

\* The server answers under the id of the request, once for each.
LEMMA HandleStep == ASSUME IInv, TypeOK', NEW t \in Loop, Handle(t) PROVE IInv'
<1>. PICK r \in requests[t], status \in {"result", "error"} :
       /\ requests' = [requests EXCEPT ![t] = @ \ {r}]
       /\ answers' = IF Reads(t)
                     THEN [answers EXCEPT ![t] = @ \cup {[id |-> r.id, call |-> r.call, status |-> status]}]
                     ELSE answers
  BY DEF Handle
<1>0. UNCHANGED <<_transport, _JSONRPC_ID, pc, target, future, stoppers>> /\ TypeOK
  BY DEF Handle, IInv
<1>1. \A u \in Loop : requests'[u] \subseteq requests[u]
  BY <1>0 DEF TypeOK
<1>2. \A u \in Loop : \A a \in answers'[u] : a \in answers[u] \/ (a.id = r.id /\ a.call = r.call)
  BY <1>0 DEF TypeOK
<1>3. IdsAreIssued'
  BY <1>0, <1>1, <1>2 DEF IInv, IdsAreIssued
<1>4. IdsAreOwn'
  BY <1>0, <1>1, <1>2 DEF IInv, IdsAreOwn
<1>5. /\ FuturesAreWaitedFor' /\ StoppersAreKnown' /\ FuturesCancelledByOthers'
      /\ CancelledByOthers' /\ AnswersAreOwn'
  BY <1>0 DEF IInv, FuturesAreWaitedFor, StoppersAreKnown, FuturesCancelledByOthers,
              CancelledByOthers, AnswersAreOwn, Waiting
<1>. QED  BY <1>3, <1>4, <1>5 DEF IInv

\* Every step keeps the inductive invariant.
LEMMA StepIInv == IInv /\ [Next]_vars => IInv'
<1>. SUFFICES ASSUME IInv, [Next]_vars PROVE IInv'
  OBVIOUS
<1>0. TypeOK /\ TypeOK'
  BY TypeStep DEF IInv
<1>1. ASSUME NEW c \in Call, SendCall(c)
      PROVE  IInv'
  <2>1. ~Waiting(c) /\ pc[c] # "stopping"
    BY <1>1 DEF SendCall, Waiting
  <2>2. CASE Request(c, "tools/call", "waiting", Failed(c)) /\ _transport # None
    BY <1>0, <1>1, <2>1, <2>2, RequestStep DEF SendCall, Failed
  <2>3. CASE \E where \in {"failed", Failed(c)} : GoTo(c, where)
    <3>1. PICK where \in {"failed", "reconnecting"} : GoTo(c, where)
      BY <2>3 DEF Failed
    <3>2. pc' = [pc EXCEPT ![c] = where]
      BY <3>1 DEF GoTo
    <3>. QED  BY <1>0, <1>1, <2>1, <3>1, <3>2, QuietStep DEF SendCall, GoTo, Loop, TypeOK
  <2>. QED  BY <1>1, <2>2, <2>3 DEF SendCall
<1>2. ASSUME NEW c \in Call, Resume(c) \/ Timeout(c) \/ DrainRaises(c)
      PROVE  IInv'
  <2>1. PICK where \in {"answered", "failed", "cancelled", "reconnecting", "calling", "notifying"} :
          /\ pc' = [pc EXCEPT ![c] = where]
          /\ where = "cancelled" => future[c].state = "cancelled"
    BY <1>2, WhereFrom
  <2>2. future' = [future EXCEPT ![c] = NoFuture]
    BY <1>2 DEF Resume, Timeout, DrainRaises
  <2>3. UNCHANGED <<_JSONRPC_ID, target, stoppers, requests, answers>>
    BY <1>2 DEF Resume, Timeout, DrainRaises, server
  <2>. QED  BY <1>0, <2>1, <2>2, <2>3, QuietStep DEF Loop, TypeOK
<1>10. ASSUME NEW c \in Call, Drained(c)
       PROVE  IInv'
  <2>1. PICK where \in {"waiting", "calling"} :
          /\ pc' = [pc EXCEPT ![c] = where]
          /\ where = "calling" => pc[c] = "notifying"
    BY <1>10 DEF Drained
  <2>2. pc'[c] = where /\ (Waiting(c) => Waiting(c)')
    BY <1>0, <2>1 DEF TypeOK, Loop, Waiting
  <2>3. UNCHANGED <<_JSONRPC_ID, target, stoppers, requests, answers, future>>
    BY <1>10 DEF Drained, server
  <2>. QED  BY <1>0, <2>1, <2>2, <2>3, QuietStep DEF Loop, TypeOK
<1>3. ASSUME NEW c \in Call, BeginReconnect(c)
      PROVE  IInv'
  <2>1. \A t \in Loop : requests'[t] \subseteq requests[t]
    BY <1>0, <1>3 DEF BeginReconnect, Ignored, Down, TypeOK
  <2>. QED  BY <1>0, <1>3, <2>1, BeginStopStep DEF BeginReconnect, Waiting, Loop
<1>4. ASSUME NEW c \in Call, EndReconnect(c)
      PROVE  IInv'
  BY <1>0, <1>4, EndStopStep DEF EndReconnect, server, Loop, TypeOK
<1>5. ASSUME NEW c \in Call, Connect(c)
      PROVE  IInv'
  <2>1. ~Waiting(c) /\ pc[c] = "starting"
    BY <1>5 DEF Connect, Waiting
  <2>2. CASE Request(c, "initialize", "initializing", "failed") /\ _transport # None
    BY <1>0, <1>5, <2>1, <2>2, RequestStep DEF Connect
  <2>3. CASE GoTo(c, "failed")
    <3>1. pc' = [pc EXCEPT ![c] = "failed"]
      BY <2>3 DEF GoTo
    <3>. QED  BY <1>0, <1>5, <2>1, <2>3, <3>1, QuietStep DEF Connect, GoTo, Loop, TypeOK
  <2>. QED  BY <1>5, <2>2, <2>3 DEF Connect
<1>6. CASE BeginClose
  <2>1. \A t \in Loop : requests'[t] \subseteq requests[t]
    BY <1>0, <1>6 DEF BeginClose, Ignored, Down, TypeOK
  <2>. QED  BY <1>0, <1>6, <2>1, BeginStopStep, McpAssumption DEF BeginClose, Loop
<1>7. CASE EndClose
  BY <1>0, <1>7, EndStopStep DEF EndClose, server, Loop, TypeOK
<1>8. ASSUME NEW t \in Loop, Die(t)
      PROVE  IInv'
  <2>1. \A u \in Loop : requests'[u] \subseteq requests[u]
    BY <1>0, <1>8 DEF Die, Down, TypeOK
  <2>2. UNCHANGED <<answers, _JSONRPC_ID, pc, target, future, stoppers>>
    BY <1>8 DEF Die
  <2>. QED  BY <1>0, <2>1, <2>2 DEF IInv, IdsAreIssued, IdsAreOwn, FuturesAreWaitedFor, StoppersAreKnown,
       FuturesCancelledByOthers, CancelledByOthers, AnswersAreOwn, Waiting
<1>9. CASE UNCHANGED vars
  BY <1>0, <1>9 DEF IInv, IdsAreIssued, IdsAreOwn, FuturesAreWaitedFor, StoppersAreKnown,
     FuturesCancelledByOthers, CancelledByOthers, AnswersAreOwn, Waiting, vars
<1>. QED  BY <1>0, <1>1, <1>2, <1>3, <1>4, <1>5, <1>6, <1>7, <1>8, <1>9, <1>10, ReadLineStep, HandleStep
     DEF Next, CallStep

-----------------------------------------------------------------------------
(***************************************************************************)
(* The theorems.                                                           *)
(***************************************************************************)

\* The inductive invariant holds in every reachable state, for any number of calls that
\* share the connection.
THEOREM Invariance == Spec => []IInv
<1>. QED  BY InitIInv, StepIInv, PTL DEF Spec

\* Every variable keeps its type.
THEOREM TypeCorrect == Spec => []TypeOK
<1>1. IInv => TypeOK  BY DEF IInv
<1>. QED  BY <1>1, Invariance, PTL

\* StdioTransport's ids and futures give each call the server's answer to itself,
\* across time-outs, retries and reconnections.
THEOREM AnswersReachTheirCalls == Spec => []AnswersAreOwn
<1>1. IInv => AnswersAreOwn  BY DEF IInv
<1>. QED  BY <1>1, Invariance, PTL

\* A tool call dies of a cancellation, which McpManager.call_tool does not catch, only
\* when another call reconnects or the host closes the session.
THEOREM NobodyCancelsItself == Spec => []CancelledByOthers
<1>1. IInv => CancelledByOthers  BY DEF IInv
<1>. QED  BY <1>1, Invariance, PTL
=============================================================================
