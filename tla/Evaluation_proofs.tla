-------------------------- MODULE Evaluation_proofs --------------------------
(***************************************************************************)
(* Proofs about what an evaluation rests on: the model drivers, for any    *)
(* number of concurrent calls, models and attempts; the evaluator's        *)
(* session, for any number of sockets, batches, requests and cases; what a *)
(* reference to a result is replaced by, for values of any size; and what  *)
(* a score says, for any number of answers and scenes.                     *)
(***************************************************************************)
EXTENDS
  ModelDrivers, EvaluatorSession, StepReferences, PromptEvaluation,
  Integers, FiniteSetTheorems, WellFoundedInduction, TLAPS

(***************************************************************************)
(* ModelDrivers: a call gives up a model only when it has tried all, and   *)
(* what the host remembers of models has happened.                         *)
(***************************************************************************)
\* The local variables of a call.
CallRecord ==
  [at : {"new", "try", "look", "make", "bind", "take", "send", "sleep", "done"},
   mode : ResponseModes \cup {"text"}, start : Model, i : Model, again : BOOLEAN,
   temperature : BOOLEAN, attempt : Nat, client : Call \cup {None},
   tried : SUBSET Model, posts : Nat, end : {None, "answered", "exhausted", "rejected"}]

DriverTypes ==
  /\ driver \in {"dial", "openai"}
  /\ _fallback_state \in Model
  /\ _client \in Call \cup {None}
  /\ call \in [Call -> CallRecord]
  /\ good \in SUBSET Model

\* The ring from a model on, n models of it.
Ring(start, n) == {(start + k) % Models : k \in 0..(n - 1)}

\* What a call has tried is the ring from where it started to where it is, whatever the
\* memory says by now.
TriedRing(c) ==
  /\ call[c].at \in {"new", "try"} => call[c].tried = Ring(call[c].start, call[c].i)
  /\ call[c].at \notin {"new", "try"} => call[c].tried = Ring(call[c].start, call[c].i + 1)
  /\ call[c].at = "new" => call[c].i = 0
  /\ call[c].end = "exhausted" => call[c].at = "done" /\ call[c].i + 1 = Models

DriverInv ==
  /\ DriverTypes
  /\ \A c \in Call : TriedRing(c)
  /\ RememberedAnswered

-----------------------------------------------------------------------------
(* Arithmetic of the ring *)

\* A sum modulo the number of models is a model.
LEMMA ModIsModel == ASSUME NEW n \in Nat PROVE n % Models \in Model
  BY DriverAssumption DEF Model

\* A model is its own remainder, also after a turn round the list.
LEMMA ModOfModel ==
  ASSUME NEW m \in Model PROVE m % Models = m /\ (m + Models) % Models = m
  BY DriverAssumption DEF Model

\* A ring of no models is empty; one more model is one more turn of the index.
LEMMA RingGrows ==
  ASSUME NEW s \in Model, NEW i \in Nat
  PROVE  Ring(s, 0) = {} /\ Ring(s, i + 1) = Ring(s, i) \cup {(s + i) % Models}
<1>1. 0..((i + 1) - 1) = 0..(i - 1) \cup {i} /\ 0..(0 - 1) = {}
  OBVIOUS
<1>2. ASSUME NEW x PROVE x \in Ring(s, i + 1) <=> x \in Ring(s, i) \cup {(s + i) % Models}
  <2>1. x \in Ring(s, i + 1) <=> \E k \in 0..(i - 1) \cup {i} : x = (s + k) % Models
    BY <1>1 DEF Ring
  <2>2. x \in Ring(s, i) <=> \E k \in 0..(i - 1) : x = (s + k) % Models
    BY DEF Ring
  <2> QED BY <2>1, <2>2
<1>3. Ring(s, 0) = {}
  BY <1>1 DEF Ring
<1> QED BY <1>2, <1>3

\* The whole ring has every model, wherever it starts.
LEMMA RingIsComplete == ASSUME NEW s \in Model PROVE Ring(s, Models) = Model
<1>1. Ring(s, Models) \subseteq Model
  BY ModIsModel, DriverAssumption DEF Ring, Model
<1>2. ASSUME NEW m \in Model PROVE m \in Ring(s, Models)
  <2>1. CASE m >= s
    <3>1. m - s \in 0..(Models - 1) /\ s + (m - s) = m
      BY <2>1, DriverAssumption DEF Model
    <3> QED BY <3>1, ModOfModel DEF Ring
  <2>2. CASE m < s
    <3>1. m - s + Models \in 0..(Models - 1) /\ s + (m - s + Models) = m + Models
      BY <2>2, DriverAssumption DEF Model
    <3> QED BY <3>1, ModOfModel DEF Ring
  <2> QED BY <2>1, <2>2, DriverAssumption DEF Model
<1> QED BY <1>1, <1>2

-----------------------------------------------------------------------------
(* The steps *)

LEMMA InitDriver == DriverInit => DriverInv
<1> SUFFICES ASSUME DriverInit PROVE DriverInv
  OBVIOUS
<1>1. DriverTypes
  BY DriverAssumption DEF DriverInit, DriverTypes, CallRecord, Model
<1>2. ASSUME NEW c \in Call PROVE TriedRing(c)
  <2>1. call[c].at = "new" /\ call[c].tried = {} /\ call[c].i = 0 /\ call[c].end = None /\ call[c].start \in Model
    BY DriverAssumption DEF DriverInit, Model
  <2>2. None # "exhausted"
    BY DriverAssumption
  <2> QED BY <2>1, <2>2, RingGrows DEF TriedRing
<1> QED BY <1>1, <1>2 DEF DriverInv, RememberedAnswered, DriverInit

\* The types of a call's variables, one by one.
LEMMA CallTypes ==
  ASSUME DriverTypes, NEW c \in Call
  PROVE  /\ call[c] \in CallRecord
         /\ call[c].start \in Nat /\ call[c].i \in Nat /\ call[c].start \in Model /\ call[c].i \in Model
         /\ call[c].attempt \in Nat /\ call[c].posts \in Nat /\ call[c].tried \in SUBSET Model
<1>1. call[c] \in CallRecord
  BY DEF DriverTypes
<1>2. Model \subseteq Nat
  BY DriverAssumption DEF Model
<1> QED BY <1>1, <1>2 DEF CallRecord

LEMMA IndexIsModel == ASSUME DriverTypes, NEW c \in Call PROVE Index(c) \in Model
<1>1. call[c].start + call[c].i \in Nat
  BY CallTypes
<1> QED BY <1>1, ModIsModel DEF Index

\* A step of one call keeps the invariant if it keeps that call's part of it.
LEMMA OneCall ==
  ASSUME DriverInv, NEW c \in Call, NEW r \in CallRecord,
         call' = [call EXCEPT ![c] = r], TriedRing(c)',
         driver' = driver, _client' \in Call \cup {None},
         \/ UNCHANGED <<_fallback_state, good>>
         \/ _fallback_state' = Index(c) /\ good' = good \cup {Index(c)}
  PROVE  DriverInv'
<1>1. DriverTypes /\ RememberedAnswered /\ Index(c) \in Model
  BY IndexIsModel DEF DriverInv
<1>2. call' \in [Call -> CallRecord]
  BY <1>1 DEF DriverTypes
<1>3. DriverTypes'
  BY <1>1, <1>2 DEF DriverTypes
<1>4. ASSUME NEW d \in Call, d # c PROVE TriedRing(d)'
  <2>1. call'[d] = call[d] /\ TriedRing(d)
    BY <1>1, <1>4 DEF DriverInv, DriverTypes
  <2> QED BY <2>1 DEF TriedRing, Ring
<1>5. RememberedAnswered'
  BY <1>1 DEF RememberedAnswered
<1> QED BY <1>3, <1>4, <1>5 DEF DriverInv

\* A step of a call that is between trying a model and its end keeps to its place.
LEMMA SamePlace ==
  ASSUME DriverInv, NEW c \in Call, NEW r \in CallRecord,
         call' = [call EXCEPT ![c] = r],
         r.tried = call[c].tried, r.start = call[c].start, r.i = call[c].i, 
         call[c].at \notin {"new", "try", "done"}, r.at \notin {"new", "try"},
         r.end = "exhausted" => r.at = "done" /\ r.i + 1 = Models
  PROVE  TriedRing(c)'
<1>1. call'[c] = r
  BY DEF DriverInv, DriverTypes
<1>2. TriedRing(c)
  BY DEF DriverInv
<1> QED BY <1>1, <1>2 DEF TriedRing, Ring

\* What an answer and an error do to a call that sends.
LEMMA AnswersKeeps ==
  ASSUME DriverInv, NEW c \in Call, call[c].at = "send",
         Answers(c), driver' = driver, _client' = _client
  PROVE  DriverInv'
<1> DEFINE r == [call[c] EXCEPT !.at = "done", !.end = "answered"]
<1>1. DriverTypes
  BY DEF DriverInv
<1>2. call' = [call EXCEPT ![c] = r]
  BY <1>1 DEF Answers, DriverTypes
<1>3. r \in CallRecord /\ r.tried = call[c].tried /\ r.start = call[c].start /\ r.i = call[c].i
        /\ r.at = "done" /\ r.end = "answered"
  BY <1>1, CallTypes DEF CallRecord
<1>4. TriedRing(c)'
  BY <1>2, <1>3, SamePlace
<1>5. _client' \in Call \cup {None}
  BY <1>1 DEF DriverTypes
<1> QED BY <1>2, <1>3, <1>4, <1>5, OneCall DEF Answers

LEMMA FallsBackKeeps ==
  ASSUME DriverInv, NEW c \in Call, call[c].at = "send",
         FallsBack(c), driver' = driver, _client' = _client
  PROVE  DriverInv'
<1>1. DriverTypes /\ TriedRing(c)
  BY DEF DriverInv
<1>2. _client' \in Call \cup {None} /\ UNCHANGED <<_fallback_state, good>>
  BY <1>1 DEF DriverTypes, FallsBack
<1>3. CASE call[c].i + 1 < Models
  <2> DEFINE r == [call[c] EXCEPT !.at = "try", !.i = @ + 1]
  <2>1. call' = [call EXCEPT ![c] = r]
    BY <1>1, <1>3 DEF FallsBack, DriverTypes
  <2>2. call[c].i + 1 \in Model
    BY <1>1, <1>3, CallTypes, DriverAssumption DEF Model
  <2>3. r \in CallRecord /\ r.tried = call[c].tried /\ r.start = call[c].start /\ r.i = call[c].i + 1
          /\ r.at = "try" /\ r.end = call[c].end
    BY <1>1, <2>2, CallTypes DEF CallRecord
  <2>4. call'[c] = r
    BY <1>1, <2>1 DEF DriverTypes
  <2>5. TriedRing(c)'
    BY <1>1, <2>3, <2>4 DEF TriedRing, Ring
  <2> QED BY <1>2, <2>1, <2>3, <2>5, OneCall
<1>4. CASE ~ (call[c].i + 1 < Models)
  <2> DEFINE r == [call[c] EXCEPT !.at = "done", !.end = "exhausted"]
  <2>1. call' = [call EXCEPT ![c] = r]
    BY <1>1, <1>4 DEF FallsBack, DriverTypes
  <2>2. call[c].i + 1 = Models
    BY <1>1, <1>4, CallTypes, DriverAssumption DEF Model
  <2>3. r \in CallRecord /\ r.tried = call[c].tried /\ r.start = call[c].start /\ r.i = call[c].i
          /\ r.at = "done" /\ r.end = "exhausted"
    BY <1>1, CallTypes DEF CallRecord
  <2>4. TriedRing(c)'
    BY <2>1, <2>2, <2>3, SamePlace
  <2> QED BY <1>2, <2>1, <2>3, <2>4, OneCall
<1> QED BY <1>3, <1>4

LEMMA FailsKeeps ==
  ASSUME DriverInv, NEW c \in Call, call[c].at = "send", NEW cause,
         CallFails(c, cause), driver' = driver, _client' = _client
  PROVE  DriverInv'
<1>1. CASE FallsBack(c)
  BY <1>1, FallsBackKeeps
<1>2. CASE Raises(c)
  <2> DEFINE r == [call[c] EXCEPT !.at = "done", !.end = "rejected"]
  <2>1. DriverTypes
    BY DEF DriverInv
  <2>2. call' = [call EXCEPT ![c] = r]
    BY <1>2, <2>1 DEF Raises, DriverTypes
  <2>3. r \in CallRecord /\ r.tried = call[c].tried /\ r.start = call[c].start /\ r.i = call[c].i
          /\ r.at = "done" /\ r.end = "rejected"
    BY <2>1, CallTypes DEF CallRecord
  <2>4. TriedRing(c)'
    BY <2>2, <2>3, SamePlace
  <2>5. _client' \in Call \cup {None}
    BY <2>1 DEF DriverTypes
  <2> QED BY <1>2, <2>2, <2>3, <2>4, <2>5, OneCall DEF Raises
<1> QED BY <1>1, <1>2 DEF CallFails

\* A step that moves a call between trying a model and its end.
LEMMA MovesKeep ==
  ASSUME DriverInv, NEW c \in Call, call[c].at \notin {"new", "try", "done"}, NEW r \in CallRecord,
         r.tried = call[c].tried, r.start = call[c].start, r.i = call[c].i, r.end = call[c].end,
         r.at \notin {"new", "try"},
         call' = [call EXCEPT ![c] = r],
         driver' = driver, _client' \in Call \cup {None}, UNCHANGED <<_fallback_state, good>>
  PROVE  DriverInv'
<1>1. TriedRing(c)
  BY DEF DriverInv
<1>2. r.end # "exhausted"
  BY <1>1 DEF TriedRing
<1>3. TriedRing(c)'
  BY <1>2, SamePlace
<1> QED BY <1>3, OneCall

LEMMA DecideKeeps == ASSUME DriverInv, NEW c \in Call, Decide(c) PROVE DriverInv'
<1>1. DriverTypes /\ TriedRing(c)
  BY DEF DriverInv
<1>2. PICK mode \in ResponseModes :
        call' = [call EXCEPT ![c].at = "try", ![c].start = _fallback_state, ![c].mode = mode]
  BY DEF Decide
<1> DEFINE r == [call[c] EXCEPT !.at = "try", !.start = _fallback_state, !.mode = mode]
<1>3. call' = [call EXCEPT ![c] = r]
  BY <1>1, <1>2 DEF DriverTypes
<1>4. r \in CallRecord /\ r.tried = call[c].tried /\ r.start = _fallback_state /\ r.i = call[c].i
        /\ r.at = "try" /\ r.end = call[c].end
  BY <1>1, CallTypes DEF CallRecord, DriverTypes
<1>5. call'[c] = r
  BY <1>1, <1>3 DEF DriverTypes
<1>6. call[c].at = "new" /\ call[c].i = 0 /\ call[c].end # "exhausted" /\ call[c].tried = {}
  BY <1>1, CallTypes, RingGrows DEF Decide, At, TriedRing
<1>7. TriedRing(c)'
  BY <1>1, <1>4, <1>5, <1>6, RingGrows DEF TriedRing, Ring, DriverTypes
<1>8. driver' = driver /\ _client' \in Call \cup {None} /\ UNCHANGED <<_fallback_state, good>>
  BY <1>1 DEF Decide, client, DriverTypes
<1> QED BY <1>3, <1>4, <1>7, <1>8, OneCall

LEMMA TryKeeps == ASSUME DriverInv, NEW c \in Call, Try(c) PROVE DriverInv'
<1>1. DriverTypes /\ TriedRing(c)
  BY DEF DriverInv
<1> DEFINE r == [call[c] EXCEPT !.at = IF driver = "dial" THEN "look" ELSE "send",
                                !.tried = @ \cup {Index(c)}, !.again = FALSE,
                                !.temperature = Index(c) \notin _no_temperature_models,
                                !.attempt = 0, !.posts = 0]
<1>2. call' = [call EXCEPT ![c] = r]
  BY <1>1 DEF Try, DriverTypes
<1>3. Index(c) \in Model
  BY <1>1, IndexIsModel
<1>4. /\ r \in CallRecord /\ r.tried = call[c].tried \cup {Index(c)} /\ r.start = call[c].start
      /\ r.i = call[c].i /\ r.at \in {"look", "send"} /\ r.end = call[c].end
  <2>1. (Index(c) \notin _no_temperature_models) \in BOOLEAN
    OBVIOUS
  <2> HIDE DEF Index
  <2> QED BY <1>1, <1>3, <2>1, CallTypes DEF CallRecord
<1>5. call'[c] = r
  BY <1>1, <1>2 DEF DriverTypes
<1>6. call[c].at = "try" /\ call[c].end # "exhausted" /\ call[c].tried = Ring(call[c].start, call[c].i)
  BY <1>1 DEF Try, At, TriedRing
<1>7. call[c].tried \cup {Index(c)} = Ring(call[c].start, call[c].i + 1)
  BY <1>1, <1>6, CallTypes, RingGrows DEF Index
<1>8. TriedRing(c)'
  <2> HIDE DEF r
  <2> QED BY <1>4, <1>5, <1>6, <1>7 DEF TriedRing, Ring
<1>9. driver' = driver /\ _client' \in Call \cup {None} /\ UNCHANGED <<_fallback_state, good>>
  BY <1>1 DEF Try, client, DriverTypes
<1> QED
  <2> HIDE DEF r
  <2> QED BY <1>2, <1>4, <1>8, <1>9, OneCall

\* _acquire_client and the wait between two posts.
LEMMA AcquireKeeps ==
  ASSUME DriverInv, NEW c \in Call, Look(c) \/ Make(c) \/ Bind(c) \/ Take(c) \/ Wake(c)
  PROVE  DriverInv'
<1>1. DriverTypes
  BY DEF DriverInv
<1>2. call[c].at \notin {"new", "try", "done"} /\ driver' = driver /\ UNCHANGED <<_fallback_state, good>>
        /\ _client' \in Call \cup {None}
  BY <1>1 DEF Look, Make, Bind, Take, Wake, At, client, DriverTypes
<1>3. CASE Take(c)
  <2> DEFINE r == [call[c] EXCEPT !.at = "send", !.client = _client]
  <2>1. call' = [call EXCEPT ![c] = r]
    BY <1>1, <1>3 DEF Take, DriverTypes
  <2>2. r \in CallRecord /\ r.tried = call[c].tried /\ r.start = call[c].start /\ r.i = call[c].i
          /\ r.at = "send" /\ r.end = call[c].end
    BY <1>1, CallTypes DEF CallRecord, DriverTypes
  <2> QED BY <1>2, <2>1, <2>2, MovesKeep
<1>4. CASE Look(c) \/ Make(c) \/ Bind(c) \/ Wake(c)
  <2>1. PICK at \in {"make", "bind", "take", "send"} : Goes(c, at)
    BY <1>4 DEF Look, Make, Bind, Wake
  <2> DEFINE r == [call[c] EXCEPT !.at = at]
  <2>2. call' = [call EXCEPT ![c] = r]
    BY <1>1, <2>1 DEF Goes, DriverTypes
  <2>3. r \in CallRecord /\ r.tried = call[c].tried /\ r.start = call[c].start /\ r.i = call[c].i
          /\ r.at = at /\ r.end = call[c].end
    BY <1>1, CallTypes DEF CallRecord
  <2> QED BY <1>2, <2>2, <2>3, MovesKeep
<1> QED BY <1>3, <1>4

\* The posts of the DIAL driver.
LEMMA PostKeeps ==
  ASSUME DriverInv, NEW c \in Call,
         PostAnswered(c) \/ PostFailed(c) \/ PostBroken(c) \/ PostBadRequest(c) \/ PostBusy(c)
  PROVE  DriverInv'
<1>1. DriverTypes
  BY DEF DriverInv
<1>2. call[c].at = "send" /\ driver' = driver /\ _client' = _client /\ _client' \in Call \cup {None}
  BY <1>1 DEF PostAnswered, PostFailed, PostBroken, PostBadRequest, PostBusy, Sends, At, client, DriverTypes
<1>3. CASE Answers(c)
  BY <1>2, <1>3, AnswersKeeps
<1>4. ASSUME NEW cause, CallFails(c, cause) PROVE DriverInv'
  BY <1>2, <1>4, FailsKeeps
<1>5. CASE UNCHANGED <<_fallback_state, good>>
             /\ call' = [call EXCEPT ![c].at = "look", ![c].again = TRUE, ![c].attempt = 0,
                                     ![c].posts = @ + call[c].attempt + 1]
  <2> DEFINE r == [call[c] EXCEPT !.at = "look", !.again = TRUE, !.attempt = 0,
                                  !.posts = @ + call[c].attempt + 1]
  <2>1. call' = [call EXCEPT ![c] = r]
    BY <1>1, <1>5 DEF DriverTypes
  <2>2. r \in CallRecord /\ r.tried = call[c].tried /\ r.start = call[c].start /\ r.i = call[c].i
          /\ r.at = "look" /\ r.end = call[c].end
    <3>1. call[c].posts + call[c].attempt + 1 \in Nat
      BY <1>1, CallTypes
    <3> QED BY <1>1, <3>1, CallTypes DEF CallRecord
  <2> QED BY <1>2, <1>5, <2>1, <2>2, MovesKeep
<1>6. CASE UNCHANGED <<_fallback_state, good>>
             /\ call' = [call EXCEPT ![c].at = "sleep", ![c].attempt = @ + 1]
  <2> DEFINE r == [call[c] EXCEPT !.at = "sleep", !.attempt = @ + 1]
  <2>1. call' = [call EXCEPT ![c] = r]
    BY <1>1, <1>6 DEF DriverTypes
  <2>2. r \in CallRecord /\ r.tried = call[c].tried /\ r.start = call[c].start /\ r.i = call[c].i
          /\ r.at = "sleep" /\ r.end = call[c].end
    <3>1. call[c].attempt + 1 \in Nat
      BY <1>1, CallTypes
    <3> QED BY <1>1, <3>1, CallTypes DEF CallRecord
  <2> QED BY <1>2, <1>6, <2>1, <2>2, MovesKeep
<1>7. CASE PostAnswered(c)
  BY <1>3, <1>4, <1>7 DEF PostAnswered
<1>8. CASE PostFailed(c)
  BY <1>4, <1>8 DEF PostFailed
<1>9. CASE PostBroken(c)
  BY <1>4, <1>9 DEF PostBroken
<1>10. CASE PostBadRequest(c)
  BY <1>4, <1>5, <1>10 DEF PostBadRequest
<1>11. CASE PostBusy(c)
  BY <1>4, <1>6, <1>11 DEF PostBusy
<1> QED BY <1>7, <1>8, <1>9, <1>10, <1>11

\* The requests of the OpenAI driver.
LEMMA CreateKeeps ==
  ASSUME DriverInv, NEW c \in Call, OpenAiStep(c)
  PROVE  DriverInv'
<1>1. DriverTypes
  BY DEF DriverInv
<1>2. call[c].at = "send" /\ driver' = driver /\ _client' = _client /\ _client' \in Call \cup {None}
  BY <1>1 DEF OpenAiStep, CreateAnswered, CreateFailed, CreateUnsupported, Creates, At, client, DriverTypes
<1>3. CASE CreateAnswered(c)
  BY <1>2, <1>3, AnswersKeeps DEF CreateAnswered
<1>4. CASE CreateFailed(c)
  BY <1>2, <1>4, FailsKeeps DEF CreateFailed
<1>5. CASE CreateUnsupported(c)
  <2> DEFINE r == [call[c] EXCEPT !.temperature = FALSE]
  <2>1. call' = [call EXCEPT ![c] = r] /\ UNCHANGED <<_fallback_state, good>>
    BY <1>1, <1>5 DEF CreateUnsupported, DriverTypes
  <2>2. r \in CallRecord /\ r.tried = call[c].tried /\ r.start = call[c].start /\ r.i = call[c].i
          /\ r.at = call[c].at /\ r.end = call[c].end
    BY <1>1, CallTypes DEF CallRecord
  <2> QED BY <1>2, <2>1, <2>2, MovesKeep
<1> QED BY <1>3, <1>4, <1>5 DEF OpenAiStep

LEMMA StepDriver == DriverInv /\ [DriverNext]_driver_vars => DriverInv'
<1> SUFFICES ASSUME DriverInv, [DriverNext]_driver_vars PROVE DriverInv'
  OBVIOUS
<1>1. CASE /\ UNCHANGED <<driver, _fallback_state, call, good>>
           /\ _client' = _client \/ _client' = None
  <2>1. DriverTypes'
    BY <1>1 DEF DriverInv, DriverTypes
  <2>2. RememberedAnswered'
    BY <1>1 DEF DriverInv, RememberedAnswered
  <2>3. ASSUME NEW c \in Call PROVE TriedRing(c)'
    <3>1. TriedRing(c)
      BY DEF DriverInv
    <3> QED BY <1>1, <3>1 DEF TriedRing, Ring
  <2> QED BY <2>1, <2>2, <2>3 DEF DriverInv
<1>2. CASE UNCHANGED driver_vars \/ CloseDriver
  BY <1>1, <1>2 DEF driver_vars, client, CloseDriver
<1>3. ASSUME NEW c \in Call, CallStep(c) PROVE DriverInv'
  BY <1>3, DecideKeeps, TryKeeps, AcquireKeeps, PostKeeps, CreateKeeps DEF CallStep, DialStep
<1> QED BY <1>2, <1>3 DEF DriverNext

\* What a call has tried is the ring of models from where it started, whatever other calls
\* have made of _fallback_state meanwhile; what is remembered has answered.
THEOREM DriverInvariance == DriverSpec => []DriverInv
<1>1. DriverInit => DriverInv
  BY InitDriver
<1>2. DriverInv /\ [DriverNext]_driver_vars => DriverInv'
  BY StepDriver
<1> QED BY <1>1, <1>2, PTL DEF DriverSpec

\* A call that gives up has tried every model of the list, for any number of calls
\* and models (_fallback_decide).
THEOREM GivesUpAfterAll == DriverSpec => []GaveUpAfterAll
<1>1. DriverInv => GaveUpAfterAll
  <2> SUFFICES ASSUME DriverInv, NEW c \in Call, call[c].end = "exhausted" PROVE call[c].tried = Model
    BY DEF GaveUpAfterAll
  <2>1. TriedRing(c) /\ call[c].start \in Model
    BY CallTypes DEF DriverInv
  <2>2. call[c].tried = Ring(call[c].start, Models)
    BY <2>1 DEF TriedRing
  <2> QED BY <2>1, <2>2, RingIsComplete
<1> QED BY <1>1, DriverInvariance, PTL

\* The remembered model is the first or one that has answered.
THEOREM RemembersAnswered == DriverSpec => []RememberedAnswered
<1>1. DriverInv => RememberedAnswered
  BY DEF DriverInv
<1> QED BY <1>1, DriverInvariance, PTL

-----------------------------------------------------------------------------
(***************************************************************************)
(* EvaluatorSession: what a run leaves in the shared session is its own,   *)
(* whoever else uses the session.                                          *)
(***************************************************************************)
RunMode == Modes \cup {"standard"}
RunRecord ==
  [by : Socket \cup Batch, mode : RunMode,
   at : {"queued", "loaded", "running", "asking", "taken", "answered", "resumed", "left", "over"},
   module : BOOLEAN, ok : BOOLEAN, called : BOOLEAN, suite : BOOLEAN, cleaned : BOOLEAN,
   torn : Nat, alone : BOOLEAN]
Prompts == [run : Nat, seen : BOOLEAN]
Line == [case : Nat, error : BOOLEAN, run : Nat \cup {None}, prompts : Prompts \cup {None}, result : Nat \cup {None}]
Usage == [seen : SUBSET Nat, calls : [Run -> Nat], final : BOOLEAN]

SessionTypes ==
  /\ runs \in Seq(RunRecord)
  /\ case_run_mode \in RunMode
  /\ usage_tracker \in Usage
  /\ socket \in [Socket -> [at : {"absent", "receiving", "running", "ended", "closed"}, run : Nat \cup {None}]]
  /\ batch \in [Batch -> [at : {"absent", "next", "running", "scoring", "ended"}, case : Nat,
                          run : Nat \cup {None}, mode : RunMode]]
  /\ lines \in [Batch -> Seq(Line)]

\* What awaits a run is its owner.
AwaitsOwn ==
  /\ \A s \in Socket : socket[s].at = "running" =>
       socket[s].run \in DOMAIN runs /\ runs[socket[s].run].by = s
  /\ \A b \in Batch : batch[b].at = "running" =>
       batch[b].run \in DOMAIN runs /\ runs[batch[b].run].by = b

\* A case is scored after its run.
ScoresOver ==
  \A b \in Batch : batch[b].at = "scoring" =>
    batch[b].run \in DOMAIN runs /\ runs[batch[b].run].at = "over"

\* A run in progress is awaited.
ProgressAwaited == \A r \in DOMAIN runs : InProgress(r) => r \in Awaited

\* Usage of one run only.
Clean(usage, r) == usage.seen \subseteq {r} /\ \A x \in Run \ {r} : usage.calls[x] = 0

\* A run that has been awaited alone so far is the only one awaited, and the tracker
\* holds nothing of others.
AloneOnly ==
  \A r \in Awaited : runs[r].alone => Awaited \subseteq {r} /\ Clean(usage_tracker, r)

\* The usage kept with the last result.
LastClean ==
  last_run_result # None =>
    /\ last_run_result \in DOMAIN runs
    /\ runs[last_run_result].alone => Clean(last_usage_summary, last_run_result)

\* While a socket awaits a run, a result that is kept came in the meantime.
SocketsForget ==
  (\E s \in Socket : socket[s].at = "running") /\ last_run_result # None =>
    ~runs[last_run_result].alone

\* A line of a batch, given the runs.
Scored(line, rs) ==
  ~line.error =>
    /\ line.run \in DOMAIN rs /\ rs[line.run].at = "over"
    /\ line.result = line.run
    /\ line.prompts # None => line.prompts.run = line.run
    /\ line.prompts = None => ~rs[line.run].called
LinesScored == \A b \in Batch : \A i \in DOMAIN lines[b] : Scored(lines[b][i], runs)

\* The prompts are those of a run that was submitted.
PromptsOfRun ==
  last_run_prompts # None => last_run_prompts \in Prompts /\ last_run_prompts.run \in DOMAIN runs

\* A run that has been awaited alone so far is the latest.
AloneLast == \A r \in Awaited : runs[r].alone => r = Len(runs)

\* The inductive invariant of the session.
SessionInv ==
  /\ SessionTypes /\ AwaitsOwn /\ ScoresOver /\ ProgressAwaited /\ AloneOnly
  /\ LastClean /\ SocketsForget /\ LinesScored /\ PromptsOfRun /\ AloneLast /\ ResultIsNotOlder

-----------------------------------------------------------------------------
(* Types *)

LEMMA RunTypes ==
  ASSUME SessionTypes, NEW r \in DOMAIN runs
  PROVE  r \in Nat /\ runs[r] \in RunRecord
  BY DEF SessionTypes

\* Setting one run's record.
LEMMA SetRun ==
  ASSUME SessionTypes, NEW r \in DOMAIN runs, NEW rec \in RunRecord, runs' = [runs EXCEPT ![r] = rec]
  PROVE  /\ runs' \in Seq(RunRecord) /\ DOMAIN runs' = DOMAIN runs
         /\ runs'[r] = rec /\ \A q \in DOMAIN runs \ {r} : runs'[q] = runs[q]
<1>1. runs \in Seq(RunRecord)
  BY DEF SessionTypes
<1> QED BY <1>1

\* What every step but a submission does to the runs there are.
Advances ==
  /\ runs' \in Seq(RunRecord) /\ DOMAIN runs' = DOMAIN runs
  /\ \A r \in DOMAIN runs :
       /\ runs'[r].by = runs[r].by /\ runs'[r].alone = runs[r].alone
       /\ runs[r].at = "over" => runs'[r].at = "over" /\ runs'[r].called = runs[r].called

LEMMA SameRunsAdvance == ASSUME SessionTypes, runs' = runs PROVE Advances
  BY DEF Advances, SessionTypes

LEMMA RunAdvances ==
  ASSUME SessionTypes, NEW r \in DOMAIN runs, NEW rec \in RunRecord, runs' = [runs EXCEPT ![r] = rec],
         rec.by = runs[r].by, rec.alone = runs[r].alone,
         runs[r].at = "over" => rec.at = "over" /\ rec.called = runs[r].called
  PROVE  Advances
  BY SetRun DEF Advances

LEMMA LinesStay ==
  ASSUME LinesScored, Advances, lines' = lines
  PROVE  LinesScored'
<1> SUFFICES ASSUME NEW b \in Batch, NEW i \in DOMAIN lines[b], Scored(lines[b][i], runs)
             PROVE  Scored(lines[b][i], runs')
  BY DEF LinesScored
<1> QED BY DEF Scored, Advances

-----------------------------------------------------------------------------
(* Who awaits what *)

\* No run is awaited that is not a run; and by one only.
LEMMA AwaitedRuns ==
  ASSUME AwaitsOwn
  PROVE  /\ Awaited \subseteq DOMAIN runs
         /\ \A s \in Socket : socket[s].at = "running" => socket[s].run \in Awaited
         /\ \A b \in Batch : batch[b].at = "running" => batch[b].run \in Awaited
         /\ \A r \in Awaited : runs[r].by \in Socket \cup Batch
         /\ \A r \in Awaited : runs[r].by \in Socket => socket[runs[r].by].at = "running" /\ socket[runs[r].by].run = r
         /\ \A r \in Awaited : runs[r].by \in Batch => batch[runs[r].by].at = "running" /\ batch[runs[r].by].run = r
  BY SessionAssumption DEF AwaitsOwn, Awaited

\* A step that leaves it to each who awaits what.
SameAwaiting ==
  /\ \A s \in Socket : /\ socket'[s].at = "running" <=> socket[s].at = "running"
                       /\ socket[s].at = "running" => socket'[s].run = socket[s].run
  /\ \A b \in Batch : /\ batch'[b].at = "running" <=> batch[b].at = "running"
                      /\ batch[b].at = "running" => batch'[b].run = batch[b].run
                      /\ batch'[b].at = "scoring" => batch[b].at = "scoring" /\ batch'[b].run = batch[b].run

LEMMA SameAwaited == ASSUME SameAwaiting PROVE Awaited' = Awaited
<1>1. {socket'[s].run : s \in {x \in Socket : socket'[x].at = "running"}}
        = {socket[s].run : s \in {x \in Socket : socket[x].at = "running"}}
  BY DEF SameAwaiting
<1>2. {batch'[b].run : b \in {x \in Batch : batch'[x].at = "running"}}
        = {batch[b].run : b \in {x \in Batch : batch[x].at = "running"}}
  BY DEF SameAwaiting
<1> QED BY <1>1, <1>2 DEF Awaited

\* A step that neither submits a run nor takes its result.
LEMMA QuietStep ==
  ASSUME SessionInv, SessionTypes', Advances, SameAwaiting,
         UNCHANGED <<last_run_result, last_usage_summary>>,
         \A r \in Awaited : Awaited \subseteq {r} /\ Clean(usage_tracker, r) => Clean(usage_tracker', r),
         \/ UNCHANGED last_run_prompts
         \/ \E s \in Socket : socket[s].at = "running" /\ last_run_prompts' = [run |-> socket[s].run, seen |-> TRUE],
         LinesScored'
  PROVE  SessionInv'
<1>1. Awaited' = Awaited /\ Awaited \subseteq DOMAIN runs
  BY SameAwaited, AwaitedRuns DEF SessionInv
<1>2. AwaitsOwn'
  BY DEF SessionInv, AwaitsOwn, SameAwaiting, Advances
<1>3. ScoresOver'
  BY DEF SessionInv, ScoresOver, SameAwaiting, Advances
<1>4. ProgressAwaited'
  BY <1>1 DEF SessionInv, ProgressAwaited, Advances, InProgress
<1>5. AloneOnly'
  <2> SUFFICES ASSUME NEW r \in Awaited, runs'[r].alone
               PROVE  Awaited \subseteq {r} /\ Clean(usage_tracker', r)
    BY <1>1 DEF AloneOnly, Clean
  <2>1. runs[r].alone
    BY <1>1 DEF Advances
  <2> QED BY <2>1 DEF SessionInv, AloneOnly
<1>6. LastClean'
  BY DEF SessionInv, LastClean, Advances, Clean
<1>7. SocketsForget'
  BY DEF SessionInv, SocketsForget, LastClean, Advances, SameAwaiting
<1>8. Len(runs') = Len(runs)
  BY DEF Advances, SessionInv, SessionTypes
<1>9. AloneLast'
  BY <1>1, <1>8 DEF SessionInv, AloneLast, Advances
<1>10. PromptsOfRun' /\ ResultIsNotOlder'
  <2>1. CASE UNCHANGED last_run_prompts
    BY <2>1 DEF SessionInv, PromptsOfRun, ResultIsNotOlder, LastClean, Advances
  <2>2. ASSUME NEW s \in Socket, socket[s].at = "running",
               last_run_prompts' = [run |-> socket[s].run, seen |-> TRUE]
        PROVE  PromptsOfRun' /\ ResultIsNotOlder'
    <3>1. socket[s].run \in DOMAIN runs /\ socket[s].run \in Nat
      BY <2>2, RunTypes DEF SessionInv, AwaitsOwn
    <3>2. PromptsOfRun'
      BY <2>2, <3>1 DEF PromptsOfRun, Prompts, Advances
    <3>3. last_run_result # None => ~runs[last_run_result].alone /\ last_run_result \in DOMAIN runs
      BY <2>2 DEF SessionInv, SocketsForget, LastClean
    <3>4. ResultIsNotOlder'
      BY <3>3 DEF ResultIsNotOlder, Advances
    <3> QED BY <3>2, <3>4
  <2> QED BY <2>1, <2>2
<1> QED BY <1>2, <1>3, <1>4, <1>5, <1>6, <1>7, <1>9, <1>10 DEF SessionInv

\* A run makes a step.
LEMMA RunGoesOn ==
  ASSUME SessionInv, NEW r \in DOMAIN runs, InProgress(r), NEW rec \in RunRecord,
         runs' = [runs EXCEPT ![r] = rec], rec.by = runs[r].by, rec.alone = runs[r].alone,
         UNCHANGED <<case_run_mode, socket, batch, lines, last_run_result, last_usage_summary>>,
         usage_tracker' \in Usage, Clean(usage_tracker, r) => Clean(usage_tracker', r),
         \/ UNCHANGED last_run_prompts
         \/ runs[r].by \in Socket /\ last_run_prompts' = [run |-> r, seen |-> TRUE]
  PROVE  SessionInv'
<1>1. SessionTypes
  BY DEF SessionInv
<1>2. Advances
  BY <1>1, RunAdvances DEF InProgress
<1>3. SessionTypes'
  BY <1>1, SetRun DEF SessionTypes
<1>4. SameAwaiting
  BY DEF SameAwaiting
<1>5. r \in Awaited
  BY DEF SessionInv, ProgressAwaited
<1>6. LinesScored'
  BY <1>2, LinesStay DEF SessionInv
<1>7. runs[r].by \in Socket => socket[runs[r].by].at = "running" /\ socket[runs[r].by].run = r
  BY <1>5, AwaitedRuns DEF SessionInv
<1> QED BY <1>2, <1>3, <1>4, <1>5, <1>6, <1>7, QuietStep

-----------------------------------------------------------------------------
(* The steps of a run *)

LEMMA LoadSetupKeeps == ASSUME SessionInv, NEW r \in DOMAIN runs, LoadSetup(r) PROVE SessionInv'
<1>1. SessionTypes /\ runs[r] \in RunRecord /\ r \in Nat /\ InProgress(r)
  BY RunTypes DEF SessionInv, LoadSetup, InProgress
<1>2. UNCHANGED <<case_run_mode, socket, batch, lines, last_run_result, last_usage_summary, usage_tracker,
                  last_run_prompts>>
  BY DEF LoadSetup, record
<1>3. ASSUME NEW has \in BOOLEAN, runs' = [runs EXCEPT ![r].at = "loaded", ![r].module = has]
      PROVE  SessionInv'
  <2> DEFINE rec == [runs[r] EXCEPT !.at = "loaded", !.module = has]
  <2>1. rec \in RunRecord /\ rec.by = runs[r].by /\ rec.alone = runs[r].alone
    BY <1>1 DEF RunRecord
  <2>2. runs' = [runs EXCEPT ![r] = rec]
    BY <1>3
  <2> QED BY <1>1, <1>2, <2>1, <2>2, RunGoesOn DEF SessionTypes
<1>4. CASE Fails(r)
  <2> DEFINE rec == [runs[r] EXCEPT !.at = "over"]
  <2>1. rec \in RunRecord /\ rec.by = runs[r].by /\ rec.alone = runs[r].alone
    BY <1>1 DEF RunRecord
  <2>2. runs' = [runs EXCEPT ![r] = rec]
    BY <1>4 DEF Fails
  <2> QED BY <1>1, <1>2, <2>1, <2>2, RunGoesOn DEF SessionTypes
<1>5. Fails(r) \/ \E has \in BOOLEAN : runs' = [runs EXCEPT ![r].at = "loaded", ![r].module = has]
  <2>1. (IF runs[r].by \in Socket THEN Initializers ELSE {TRUE}) \subseteq BOOLEAN
    BY SessionAssumption
  <2> QED BY <2>1 DEF LoadSetup
<1> QED BY <1>3, <1>4, <1>5

\* A step of a run that changes its record only.
LEMMA RecordStep ==
  ASSUME SessionInv, NEW r \in DOMAIN runs, InProgress(r), NEW rec \in RunRecord,
         runs' = [runs EXCEPT ![r] = rec], rec.by = runs[r].by, rec.alone = runs[r].alone,
         UNCHANGED <<registered, record, usage_tracker, runner, socket, batch, lines, request, closer>>
  PROVE  SessionInv'
<1>1. UNCHANGED <<case_run_mode, socket, batch, lines, last_run_result, last_usage_summary, usage_tracker,
                  last_run_prompts>>
  BY DEF record
<1> QED BY <1>1, RunGoesOn DEF SessionInv, SessionTypes

LEMMA SetUpKeeps == ASSUME SessionInv, NEW r \in DOMAIN runs, SetUp(r) PROVE SessionInv'
<1>1. SessionTypes /\ runs[r] \in RunRecord /\ InProgress(r)
  BY RunTypes DEF SessionInv, SetUp, InProgress
<1>2. UNCHANGED <<registered, record, usage_tracker, runner, socket, batch, lines, request, closer>>
  BY DEF SetUp
<1>3. PICK at \in {"running", "left", "over"}, suite \in BOOLEAN :
        runs' = [runs EXCEPT ![r] = [runs[r] EXCEPT !.at = at, !.suite = suite]]
  <2>1. CASE runs' = [runs EXCEPT ![r].at = "running", ![r].suite = runs[r].module]
    <3>1. runs[r].module \in BOOLEAN
      BY <1>1 DEF RunRecord
    <3> QED BY <2>1, <3>1
  <2>2. ASSUME NEW at \in {"left", "over"}, runs' = [runs EXCEPT ![r].at = at]
        PROVE  runs' = [runs EXCEPT ![r] = [runs[r] EXCEPT !.at = at, !.suite = runs[r].suite]]
                 /\ runs[r].suite \in BOOLEAN
    <3>1. [runs[r] EXCEPT !.at = at] = [runs[r] EXCEPT !.at = at, !.suite = runs[r].suite]
      BY <1>1 DEF RunRecord
    <3> QED BY <1>1, <2>2, <3>1 DEF RunRecord
  <2>3. \/ runs' = [runs EXCEPT ![r].at = "running", ![r].suite = runs[r].module]
        \/ \E at \in {"left", "over"} : runs' = [runs EXCEPT ![r].at = at]
    BY DEF SetUp, Fails
  <2> QED BY <2>1, <2>2, <2>3
<1> DEFINE rec == [runs[r] EXCEPT !.at = at, !.suite = suite]
<1>4. rec \in RunRecord /\ rec.by = runs[r].by /\ rec.alone = runs[r].alone
  BY <1>1 DEF RunRecord
<1> QED BY <1>1, <1>2, <1>3, <1>4, RecordStep

\* A run asks, or goes on after the answer.
LEMMA AskKeeps == ASSUME SessionInv, NEW r \in DOMAIN runs, Ask(r) \/ Resume(r) PROVE SessionInv'
<1>1. SessionTypes /\ runs[r] \in RunRecord /\ InProgress(r)
  BY RunTypes DEF SessionInv, Ask, Resume, InProgress
<1>2. UNCHANGED <<registered, record, usage_tracker, runner, socket, batch, lines, request, closer>>
  BY DEF Ask, Resume
<1>3. PICK at \in {"asking", "taken", "resumed"} : runs' = [runs EXCEPT ![r].at = at]
  BY DEF Ask, Resume
<1> DEFINE rec == [runs[r] EXCEPT !.at = at]
<1>4. rec \in RunRecord /\ rec.by = runs[r].by /\ rec.alone = runs[r].alone
  BY <1>1 DEF RunRecord
<1>5. runs' = [runs EXCEPT ![r] = rec]
  BY <1>3
<1> QED BY <1>1, <1>2, <1>4, <1>5, RecordStep

LEMMA LeaveKeeps == ASSUME SessionInv, NEW r \in DOMAIN runs, Leave(r) PROVE SessionInv'
<1>1. SessionTypes /\ runs[r] \in RunRecord /\ InProgress(r)
  BY RunTypes DEF SessionInv, Leave, InProgress
<1>2. UNCHANGED <<registered, record, usage_tracker, runner, socket, batch, lines, request, closer>>
  BY DEF Leave
<1>3. CASE \E ok \in BOOLEAN :
             runs' = [runs EXCEPT ![r].at = "left", ![r].ok = ok, ![r].cleaned = runs[r].module]
  <2>1. PICK ok \in BOOLEAN :
          runs' = [runs EXCEPT ![r].at = "left", ![r].ok = ok, ![r].cleaned = runs[r].module]
    BY <1>3
  <2> DEFINE rec == [runs[r] EXCEPT !.at = "left", !.ok = ok, !.cleaned = runs[r].module]
  <2>2. rec \in RunRecord /\ rec.by = runs[r].by /\ rec.alone = runs[r].alone
    BY <1>1 DEF RunRecord
  <2>3. runs' = [runs EXCEPT ![r] = rec]
    BY <2>1
  <2> QED BY <1>1, <1>2, <2>2, <2>3, RecordStep
<1>4. CASE runs' = [runs EXCEPT ![r].at = "left"]
  <2> DEFINE rec == [runs[r] EXCEPT !.at = "left"]
  <2>1. rec \in RunRecord /\ rec.by = runs[r].by /\ rec.alone = runs[r].alone
    BY <1>1 DEF RunRecord
  <2>2. runs' = [runs EXCEPT ![r] = rec]
    BY <1>4
  <2> QED BY <1>1, <1>2, <2>1, <2>2, RecordStep
<1>5. {TRUE, ~runs[r].module} \subseteq BOOLEAN
  OBVIOUS
<1> QED BY <1>3, <1>4, <1>5 DEF Leave

\* The number of bridges is a number.
LEMMA BridgesNat == ASSUME SessionTypes PROVE Bridges \in Nat
<1> DEFINE S == {s \in Socket : socket[s].at \in {"receiving", "running"}}
<1>1. S \in SUBSET Socket
  OBVIOUS
<1>2. IsFiniteSet(S)
  BY <1>1, FS_Subset, SessionAssumption
<1>3. Cardinality(S) \in Nat
  BY <1>2, FS_CardinalityType
<1> QED BY <1>3 DEF Bridges

\* What a run adds to a tracker that holds only its own usage leaves it so.
LEMMA CountedClean ==
  ASSUME SessionTypes, NEW r \in DOMAIN runs
  PROVE  Counted(r) \in Usage /\ (Clean(usage_tracker, r) => Clean(Counted(r), r))
<1>1. usage_tracker \in Usage /\ Bridges \in Nat /\ r \in Nat
  BY BridgesNat, RunTypes DEF SessionTypes
<1> DEFINE calls == IF usage_tracker.final THEN usage_tracker.calls
                    ELSE [usage_tracker.calls EXCEPT ![r] = @ + Bridges]
<1>2. calls \in [Run -> Nat] /\ \A x \in Run \ {r} : calls[x] = usage_tracker.calls[x]
  <2>1. usage_tracker.calls \in [Run -> Nat]
    BY <1>1 DEF Usage
  <2>2. CASE usage_tracker.final
    BY <2>1, <2>2
  <2>3. CASE ~usage_tracker.final
    <3>1. calls = [usage_tracker.calls EXCEPT ![r] = @ + Bridges]
      BY <2>3
    <3>2. ASSUME NEW x \in Run PROVE calls[x] \in Nat /\ (x # r => calls[x] = usage_tracker.calls[x])
      BY <1>1, <2>1, <3>1
    <3>3. calls \in [Run -> Nat]
      <4> HIDE DEF calls
      <4>1. DOMAIN calls = Run /\ calls = [x \in Run |-> calls[x]]
        BY <2>1, <3>1
      <4> QED BY <3>2, <4>1
    <3> QED BY <3>2, <3>3
  <2> QED BY <2>2, <2>3
<1>3. CASE Bridges # 0
  <2> DEFINE u == [usage_tracker EXCEPT !.seen = @ \cup {r}, !.calls = calls]
  <2>1. Counted(r) = u
    <3>1. CASE usage_tracker.final
      BY <1>1, <1>3, <3>1 DEF Counted, Usage
    <3>2. CASE ~usage_tracker.final
      BY <1>1, <1>3, <3>2 DEF Counted, Usage
    <3> QED BY <3>1, <3>2
  <2>2. u \in Usage /\ u.seen = usage_tracker.seen \cup {r} /\ u.calls = calls
    <3> HIDE DEF calls
    <3> QED BY <1>1, <1>2 DEF Usage
  <2> HIDE DEF u, calls
  <2> QED BY <1>2, <2>1, <2>2 DEF Clean
<1>4. CASE Bridges = 0
  BY <1>1, <1>4 DEF Counted
<1> QED BY <1>3, <1>4

LEMMA FinalizedClean ==
  ASSUME SessionTypes, NEW r \in DOMAIN runs
  PROVE  Finalized(r) \in Usage /\ (Clean(usage_tracker, r) => Clean(Finalized(r), r))
<1>1. usage_tracker \in Usage
  BY DEF SessionTypes
<1>2. Totals(r) \in [Run -> Nat] /\ \A x \in Run \ {r} : Totals(r)[x] = 0
  BY DEF Totals, NoCalls
<1>3. CASE Bridges # 0
  <2> DEFINE u == [usage_tracker EXCEPT !.calls = Totals(r), !.final = TRUE]
  <2>1. Finalized(r) = u
    BY <1>3 DEF Finalized
  <2>2. u \in Usage /\ u.seen = usage_tracker.seen /\ u.calls = Totals(r)
    <3> HIDE DEF Totals
    <3> QED BY <1>1, <1>2 DEF Usage
  <2> QED BY <1>2, <2>1, <2>2 DEF Clean
<1>4. CASE Bridges = 0
  BY <1>1, <1>4 DEF Finalized
<1> QED BY <1>3, <1>4

LEMMA CallModelKeeps == ASSUME SessionInv, NEW r \in DOMAIN runs, CallModel(r) PROVE SessionInv'
<1>1. SessionTypes /\ runs[r] \in RunRecord /\ InProgress(r)
  BY RunTypes DEF SessionInv, CallModel, InProgress
<1>2. UNCHANGED <<case_run_mode, socket, batch, lines, last_run_result, last_usage_summary>>
  BY DEF CallModel
<1> DEFINE rec == [runs[r] EXCEPT !.called = TRUE]
<1>3. rec \in RunRecord /\ rec.by = runs[r].by /\ rec.alone = runs[r].alone
  BY <1>1 DEF RunRecord
<1>4. runs' = [runs EXCEPT ![r] = rec] /\ usage_tracker' = Counted(r)
  BY DEF CallModel
<1>5. usage_tracker' \in Usage /\ (Clean(usage_tracker, r) => Clean(usage_tracker', r))
  BY <1>1, <1>4, CountedClean
<1>6. \/ UNCHANGED last_run_prompts
      \/ runs[r].by \in Socket /\ last_run_prompts' = [run |-> r, seen |-> TRUE]
  BY DEF CallModel
<1> QED BY <1>1, <1>2, <1>3, <1>4, <1>5, <1>6, RunGoesOn

LEMMA FinishKeeps == ASSUME SessionInv, NEW r \in DOMAIN runs, Finish(r) PROVE SessionInv'
<1>1. SessionTypes /\ runs[r] \in RunRecord /\ InProgress(r)
  BY RunTypes DEF SessionInv, Finish, InProgress
<1>2. UNCHANGED <<case_run_mode, socket, batch, lines, last_run_result, last_usage_summary, last_run_prompts>>
  BY DEF Finish, record
<1> DEFINE rec == [runs[r] EXCEPT !.at = "over"]
<1>3. rec \in RunRecord /\ rec.by = runs[r].by /\ rec.alone = runs[r].alone
  BY <1>1 DEF RunRecord
<1>4. runs' = [runs EXCEPT ![r] = rec] /\ usage_tracker' = Finalized(r)
  BY DEF Finish
<1>5. usage_tracker' \in Usage /\ (Clean(usage_tracker, r) => Clean(usage_tracker', r))
  BY <1>1, <1>4, FinalizedClean
<1> QED BY <1>1, <1>2, <1>3, <1>4, <1>5, RunGoesOn

-----------------------------------------------------------------------------
(* Submitting a run and taking its result *)

\* Runs of other owners stay awaited.
OthersWait(owner) ==
  /\ \A s \in Socket \ {owner} : socket'[s] = socket[s]
  /\ \A b \in Batch \ {owner} : batch'[b] = batch[b]

LEMMA Submitted ==
  ASSUME SessionTypes, NEW owner \in Socket \cup Batch, NEW mode \in RunMode, Submit(owner, mode)
  PROVE  /\ Len(runs) + 1 \notin DOMAIN runs /\ Len(runs) + 1 \in Nat
         /\ runs' \in Seq(RunRecord) /\ Len(runs') = Len(runs) + 1
         /\ DOMAIN runs' = DOMAIN runs \cup {Len(runs) + 1}
         /\ \A r \in DOMAIN runs :
              /\ runs'[r].by = runs[r].by /\ runs'[r].at = runs[r].at /\ runs'[r].called = runs[r].called
              /\ runs'[r].alone => runs[r].alone /\ r \notin Awaited
         /\ runs'[Len(runs) + 1].by = owner
         /\ runs'[Len(runs) + 1].alone => Awaited = {}
<1> DEFINE n   == Len(runs) + 1
           old == [r \in DOMAIN runs |-> [runs[r] EXCEPT !.alone = @ /\ r \notin Awaited]]
           new == NewRun(owner, mode)
<1>1. runs \in Seq(RunRecord) /\ n \in Nat /\ n \notin DOMAIN runs /\ DOMAIN runs = 1..Len(runs)
  BY DEF SessionTypes
<1>2. new \in RunRecord /\ new.by = owner /\ (new.alone <=> Awaited = {})
  <2>1. (Awaited = {}) \in BOOLEAN
    OBVIOUS
  <2> HIDE DEF Awaited
  <2> QED BY <2>1 DEF NewRun, RunRecord
<1>3. ASSUME NEW r \in DOMAIN runs
      PROVE  /\ old[r] \in RunRecord /\ old[r].by = runs[r].by /\ old[r].at = runs[r].at
             /\ old[r].called = runs[r].called
             /\ old[r].alone => runs[r].alone /\ r \notin Awaited
  <2>1. runs[r] \in RunRecord
    BY RunTypes
  <2>2. old[r] = [runs[r] EXCEPT !.alone = @ /\ r \notin Awaited]
    OBVIOUS
  <2>3. (runs[r].alone /\ r \notin Awaited) \in BOOLEAN
    OBVIOUS
  <2> HIDE DEF old
  <2> QED BY <2>1, <2>2, <2>3 DEF RunRecord
<1>4. old \in Seq(RunRecord) /\ Len(old) = Len(runs) /\ DOMAIN old = DOMAIN runs
  <2>1. old \in [1..Len(runs) -> RunRecord]
    BY <1>1, <1>3
  <2>2. Len(runs) \in Nat
    BY <1>1
  <2>3. DOMAIN old = 1..Len(runs)
    BY <1>1
  <2> HIDE DEF old
  <2> QED BY <1>1, <2>1, <2>2, <2>3
<1>5. runs' = Append(old, new)
  BY DEF Submit
<1>6. /\ runs' \in Seq(RunRecord) /\ DOMAIN runs' = DOMAIN runs \cup {n} /\ runs'[n] = new
      /\ Len(runs') = n
      /\ \A r \in DOMAIN runs : runs'[r] = old[r]
  <2> HIDE DEF old, new
  <2> QED BY <1>1, <1>2, <1>4, <1>5
<1> HIDE DEF old, new
<1> QED BY <1>1, <1>2, <1>3, <1>6

LEMMA SubmitStep ==
  ASSUME SessionInv, SessionTypes', NEW owner \in Socket \cup Batch, NEW mode \in RunMode,
         Submit(owner, mode), OthersWait(owner), usage_tracker' = NoUsage, lines' = lines,
         owner \in Socket => /\ socket[owner].at # "running"
                             /\ socket'[owner].at = "running" /\ socket'[owner].run = Len(runs) + 1,
         owner \in Batch => /\ batch[owner].at # "running"
                            /\ batch'[owner].at = "running" /\ batch'[owner].run = Len(runs) + 1,
         \/ last_run_result' = None /\ last_run_prompts' = [run |-> Len(runs) + 1, seen |-> FALSE]
         \/ owner \in Batch /\ UNCHANGED <<last_run_result, last_usage_summary, last_run_prompts>>
  PROVE  SessionInv'
<1> DEFINE n == Len(runs) + 1
<1>1. /\ n \notin DOMAIN runs /\ n \in Nat
      /\ DOMAIN runs' = DOMAIN runs \cup {n}
      /\ \A r \in DOMAIN runs :
           /\ runs'[r].by = runs[r].by /\ runs'[r].at = runs[r].at /\ runs'[r].called = runs[r].called
           /\ runs'[r].alone => runs[r].alone /\ r \notin Awaited
      /\ runs'[n].by = owner
      /\ runs'[n].alone => Awaited = {}
  BY Submitted DEF SessionInv
<1>2. Awaited' = Awaited \cup {n}
  <2>1. CASE owner \in Socket
    <3>1. owner \notin Batch
      BY <2>1, SessionAssumption
    <3> QED BY <2>1, <3>1 DEF Awaited, OthersWait
  <2>2. CASE owner \in Batch
    <3>1. owner \notin Socket
      BY <2>2, SessionAssumption
    <3> QED BY <2>2, <3>1 DEF Awaited, OthersWait
  <2> QED BY <2>1, <2>2
<1> HIDE DEF n
<1>3. Awaited \subseteq DOMAIN runs
  BY AwaitedRuns DEF SessionInv
<1>4. AwaitsOwn'
  BY <1>1, SessionAssumption DEF SessionInv, AwaitsOwn, OthersWait, n
<1>5. ScoresOver'
  BY <1>1 DEF SessionInv, ScoresOver, OthersWait
<1>6. ProgressAwaited'
  BY <1>1, <1>2 DEF SessionInv, ProgressAwaited, InProgress
<1>7. AloneOnly'
  <2> SUFFICES ASSUME NEW r \in Awaited \cup {n}, runs'[r].alone
               PROVE  Awaited \cup {n} \subseteq {r} /\ Clean(usage_tracker', r)
    BY <1>2 DEF AloneOnly, Clean
  <2>1. r = n /\ Awaited = {}
    BY <1>1, <1>3
  <2>2. Clean(NoUsage, r)
    BY DEF Clean, NoUsage, NoCalls
  <2> QED BY <2>1, <2>2
<1>8. LastClean' /\ SocketsForget'
  <2>1. CASE last_run_result' = None /\ last_run_prompts' = [run |-> n, seen |-> FALSE]
    BY <2>1 DEF LastClean, SocketsForget
  <2>2. CASE owner \in Batch /\ UNCHANGED <<last_run_result, last_usage_summary, last_run_prompts>>
    <3>1. owner \notin Socket
      BY <2>2, SessionAssumption
    <3> QED BY <1>1, <2>2, <3>1 DEF SessionInv, LastClean, SocketsForget, Clean, OthersWait
  <2> QED BY <2>1, <2>2 DEF n
<1>9. LinesScored'
  <2> SUFFICES ASSUME NEW b \in Batch, NEW i \in DOMAIN lines[b], Scored(lines[b][i], runs)
               PROVE  Scored(lines[b][i], runs')
    BY DEF SessionInv, LinesScored
  <2> QED BY <1>1 DEF Scored
<1>10. AloneLast'
  <2> SUFFICES ASSUME NEW r \in Awaited \cup {n}, runs'[r].alone PROVE r = Len(runs')
    BY <1>2 DEF AloneLast
  <2>1. r = n
    BY <1>1, <1>3
  <2>2. Len(runs') = n
    BY Submitted DEF SessionInv, n
  <2> QED BY <2>1, <2>2
<1>11. PromptsOfRun' /\ ResultIsNotOlder'
  <2>1. CASE last_run_result' = None /\ last_run_prompts' = [run |-> n, seen |-> FALSE]
    BY <1>1, <2>1 DEF PromptsOfRun, ResultIsNotOlder, Prompts
  <2>2. CASE UNCHANGED <<last_run_result, last_run_prompts>>
    BY <1>1, <2>2 DEF SessionInv, PromptsOfRun, ResultIsNotOlder, LastClean
  <2> QED BY <2>1, <2>2 DEF n
<1> QED BY <1>4, <1>5, <1>6, <1>7, <1>8, <1>9, <1>10, <1>11 DEF SessionInv

LEMMA TakeStep ==
  ASSUME SessionInv, SessionTypes', NEW owner \in Socket \cup Batch, NEW r \in DOMAIN runs,
         ~InProgress(r), UNCHANGED <<runs, usage_tracker, last_run_prompts>>, OthersWait(owner),
         owner \in Socket => /\ socket[owner].at = "running" /\ socket[owner].run = r
                             /\ socket'[owner].at # "running",
         owner \in Batch => /\ batch[owner].at = "running" /\ batch[owner].run = r
                            /\ batch'[owner].at # "running" /\ batch'[owner].run = r,
         \/ last_run_result' = r /\ last_usage_summary' = usage_tracker
         \/ owner \in Socket /\ UNCHANGED last_run_result
         \/ UNCHANGED <<last_run_result, last_usage_summary>>,
         LinesScored'
  PROVE  SessionInv'
<1>1. AwaitsOwn /\ Socket \cap Batch = {}
  BY SessionAssumption DEF SessionInv
<1>2. r \in Awaited /\ Awaited' \subseteq Awaited
  BY <1>1 DEF Awaited, OthersWait
<1>3. ASSUME NEW q \in Awaited, q # r PROVE q \in Awaited'
  <2>1. runs[q].by # owner
    BY <1>1, <1>3, AwaitedRuns
  <2>2. CASE runs[q].by \in Socket
    BY <1>1, <1>3, <2>1, <2>2, AwaitedRuns DEF OthersWait, Awaited
  <2>3. CASE runs[q].by \in Batch
    BY <1>1, <1>3, <2>1, <2>3, AwaitedRuns DEF OthersWait, Awaited
  <2> QED BY <1>1, <2>2, <2>3, AwaitedRuns
<1>4. AwaitsOwn'
  BY <1>1 DEF AwaitsOwn, OthersWait
<1>5. ScoresOver'
  BY DEF SessionInv, ScoresOver, OthersWait, InProgress
<1>6. ProgressAwaited'
  <2> SUFFICES ASSUME NEW q \in DOMAIN runs, InProgress(q) PROVE q \in Awaited'
    BY DEF ProgressAwaited, InProgress
  <2> QED BY <1>3 DEF SessionInv, ProgressAwaited
<1>7. AloneOnly'
  <2> SUFFICES ASSUME NEW q \in Awaited', runs[q].alone
               PROVE  Awaited' \subseteq {q} /\ Clean(usage_tracker, q)
    BY DEF AloneOnly, Clean
  <2> QED BY <1>2 DEF SessionInv, AloneOnly
<1>8. runs[r].alone => Awaited \subseteq {r} /\ Clean(usage_tracker, r)
  BY <1>2 DEF SessionInv, AloneOnly
<1>9. LastClean'
  <2>1. CASE last_run_result' = r /\ last_usage_summary' = usage_tracker
    BY <1>8, <2>1 DEF LastClean, Clean
  <2>2. CASE owner \in Socket /\ UNCHANGED last_run_result
    <3>1. last_run_result # None => last_run_result \in DOMAIN runs /\ ~runs[last_run_result].alone
      BY <2>2 DEF SessionInv, SocketsForget, LastClean
    <3> QED BY <2>2, <3>1 DEF LastClean
  <2>3. CASE UNCHANGED <<last_run_result, last_usage_summary>>
    BY <2>3 DEF SessionInv, LastClean, Clean
  <2> QED BY <2>1, <2>2, <2>3
<1>10. SocketsForget'
  <2> SUFFICES ASSUME NEW s \in Socket, socket'[s].at = "running", last_run_result' # None
               PROVE  ~runs[last_run_result'].alone
    BY DEF SocketsForget
  <2>1. s # owner /\ socket[s].at = "running" /\ socket[s].run # r
    BY <1>1 DEF OthersWait, AwaitsOwn
  <2>2. CASE last_run_result' = r
    <3>1. socket[s].run \in Awaited
      BY <2>1 DEF Awaited
    <3> QED BY <1>8, <2>1, <2>2, <3>1
  <2>3. CASE UNCHANGED last_run_result
    BY <2>1, <2>3 DEF SessionInv, SocketsForget
  <2> QED BY <2>2, <2>3
<1>11. AloneLast'
  BY <1>2 DEF SessionInv, AloneLast
<1>12. PromptsOfRun'
  BY DEF SessionInv, PromptsOfRun
<1>13. ResultIsNotOlder'
  <2>1. CASE last_run_result' = r
    <3>1. SUFFICES ASSUME last_run_prompts # None, r < last_run_prompts.run PROVE ~runs[r].alone
      BY <2>1 DEF ResultIsNotOlder
    <3>2. last_run_prompts.run \in 1..Len(runs) /\ r \in 1..Len(runs) /\ Len(runs) \in Nat
      BY <3>1 DEF SessionInv, PromptsOfRun, SessionTypes
    <3>3. runs[r].alone => r = Len(runs)
      BY <1>2 DEF SessionInv, AloneLast
    <3> QED BY <3>1, <3>2, <3>3
  <2>2. CASE UNCHANGED last_run_result
    BY <2>2 DEF SessionInv, ResultIsNotOlder
  <2> QED BY <2>1, <2>2
<1> QED BY <1>4, <1>5, <1>6, <1>7, <1>9, <1>10, <1>11, <1>12, <1>13 DEF SessionInv

-----------------------------------------------------------------------------
(* Sockets, those that finalize, batches and requests *)

LEMMA SocketTypes ==
  ASSUME SessionTypes, NEW s \in Socket
  PROVE  socket[s] \in [at : {"absent", "receiving", "running", "ended", "closed"}, run : Nat \cup {None}]
  BY DEF SessionTypes

LEMMA BatchTypes ==
  ASSUME SessionTypes, NEW b \in Batch
  PROVE  batch[b] \in [at : {"absent", "next", "running", "scoring", "ended"}, case : Nat,
                       run : Nat \cup {None}, mode : RunMode]
  BY DEF SessionTypes

\* A step that moves a socket that awaits nothing, and the runs no further than their records.
LEMMA SocketMoves ==
  ASSUME SessionInv, Advances, NEW s \in Socket, socket[s].at # "running",
         NEW at \in {"absent", "receiving", "ended", "closed"}, socket' = [socket EXCEPT ![s].at = at],
         UNCHANGED <<record, usage_tracker, batch, lines>>
  PROVE  SessionInv'
<1>1. SessionTypes
  BY DEF SessionInv
<1> DEFINE rec == [socket[s] EXCEPT !.at = at]
<1>2. rec \in [at : {"absent", "receiving", "running", "ended", "closed"}, run : Nat \cup {None}]
        /\ rec.at = at
  BY <1>1, SocketTypes
<1>3. socket' = [socket EXCEPT ![s] = rec]
  OBVIOUS
<1> HIDE DEF rec
<1>4. SessionTypes'
  BY <1>1, <1>2, <1>3 DEF SessionTypes, record, Advances
<1>5. SameAwaiting
  <2>1. socket'[s] = rec /\ \A t \in Socket \ {s} : socket'[t] = socket[t]
    BY <1>1, <1>3 DEF SessionTypes
  <2> QED BY <1>2, <2>1 DEF SameAwaiting
<1>6. LinesScored'
  BY LinesStay DEF SessionInv
<1> QED BY <1>4, <1>5, <1>6, QuietStep DEF record

\* A step that leaves all that matters alone but the records of runs.
LEMMA RunsMove ==
  ASSUME SessionInv, Advances, UNCHANGED <<record, usage_tracker, socket, batch, lines>>
  PROVE  SessionInv'
<1>1. SessionTypes'
  BY DEF SessionInv, SessionTypes, record, Advances
<1>2. SameAwaiting
  BY DEF SameAwaiting
<1>3. LinesScored'
  BY LinesStay DEF SessionInv
<1> QED BY <1>1, <1>2, <1>3, QuietStep DEF record

LEMMA PutAdvances == ASSUME SessionTypes, Put PROVE Advances
<1>1. CASE runs' = runs
  BY <1>1, SameRunsAdvance
<1>2. ASSUME NEW r \in DOMAIN runs, r \in Waiting, runs' = [runs EXCEPT ![r].at = "answered"]
      PROVE  Advances
  <2> DEFINE rec == [runs[r] EXCEPT !.at = "answered"]
  <2>1. runs[r] \in RunRecord /\ runs[r].at # "over"
    BY <1>2, RunTypes DEF Waiting
  <2>2. rec \in RunRecord /\ rec.by = runs[r].by /\ rec.alone = runs[r].alone
    BY <2>1 DEF RunRecord
  <2>3. runs' = [runs EXCEPT ![r] = rec]
    BY <1>2
  <2> QED BY <2>1, <2>2, <2>3, RunAdvances
<1> QED BY <1>1, <1>2 DEF Put, Waiting

\* The pump answers one that waits at most, and marks the prompts it took.
LEMMA DrainAdvances == ASSUME SessionTypes, NEW s \in Socket, Drain(s) PROVE Advances
<1>1. PICK replied \in Waiting \cup {None} :
        runs' = [r \in DOMAIN runs |->
                  IF r = replied THEN [runs[r] EXCEPT !.at = "answered"]
                  ELSE IF runs[r].at = "asking" THEN [runs[r] EXCEPT !.at = "taken"]
                  ELSE runs[r]]
  BY DEF Drain
<1>2. runs \in Seq(RunRecord) /\ None \notin DOMAIN runs
  BY SessionAssumption DEF SessionTypes
<1>3. ASSUME NEW r \in DOMAIN runs
      PROVE  /\ runs'[r] \in RunRecord /\ runs'[r].by = runs[r].by /\ runs'[r].alone = runs[r].alone
             /\ runs[r].at = "over" => runs'[r] = runs[r]
  <2>1. runs[r] \in RunRecord
    BY RunTypes
  <2>2. \A at \in {"answered", "taken"} :
          /\ [runs[r] EXCEPT !.at = at] \in RunRecord /\ [runs[r] EXCEPT !.at = at].by = runs[r].by
          /\ [runs[r] EXCEPT !.at = at].alone = runs[r].alone
    BY <2>1 DEF RunRecord
  <2>3. CASE r = replied
    <3>1. runs'[r] = [runs[r] EXCEPT !.at = "answered"] /\ runs[r].at # "over"
      BY <1>1, <1>2, <2>3 DEF Waiting
    <3> QED BY <2>2, <3>1
  <2>4. CASE r # replied /\ runs[r].at = "asking"
    <3>1. runs'[r] = [runs[r] EXCEPT !.at = "taken"]
      BY <1>1, <2>4
    <3> QED BY <2>2, <2>4, <3>1
  <2>5. CASE r # replied /\ runs[r].at # "asking"
    BY <1>1, <2>1, <2>5
  <2> QED BY <2>3, <2>4, <2>5
<1>4. runs' \in Seq(RunRecord) /\ DOMAIN runs' = DOMAIN runs
  <2>1. DOMAIN runs = 1..Len(runs) /\ Len(runs) \in Nat
    BY <1>2
  <2>2. DOMAIN runs' = DOMAIN runs /\ runs' = [r \in DOMAIN runs |-> runs'[r]]
    BY <1>1
  <2>3. runs' \in [1..Len(runs) -> RunRecord]
    BY <1>3, <2>1, <2>2
  <2> QED BY <2>1, <2>2, <2>3
<1> QED BY <1>3, <1>4 DEF Advances

LEMMA PumpKeeps ==
  ASSUME SessionInv, (\E s \in Socket : Drain(s) \/ PumpReturns(s)) \/ Answer
  PROVE  SessionInv'
<1>1. Advances
  BY PutAdvances, DrainAdvances, SameRunsAdvance DEF SessionInv, PumpReturns, Answer
<1>2. UNCHANGED <<record, usage_tracker, socket, batch, lines>>
  BY DEF Drain, PumpReturns, Answer
<1> QED BY <1>1, <1>2, RunsMove

LEMMA SocketKeeps ==
  ASSUME SessionInv, NEW s \in Socket, Connect(s) \/ Disconnect(s) \/ EndSocket(s)
  PROVE  SessionInv'
<1>1. SessionTypes
  BY DEF SessionInv
<1>2. PICK at \in {"receiving", "ended", "closed"} : socket' = [socket EXCEPT ![s].at = at]
  BY DEF Connect, Disconnect, EndSocket
<1>3. socket[s].at # "running" /\ UNCHANGED <<record, usage_tracker, batch, lines>>
  BY DEF Connect, Disconnect, EndSocket
<1>4. Advances
  BY <1>1, SameRunsAdvance, PutAdvances DEF Connect, Disconnect, EndSocket, CancelWait
<1> QED BY <1>2, <1>3, <1>4, SocketMoves

LEMMA CloseKeeps == ASSUME SessionInv, Close PROVE SessionInv'
<1>1. Advances
  BY PutAdvances DEF SessionInv, Close, CancelWait
<1> QED BY <1>1, RunsMove DEF Close

LEMMA TearDownKeeps == ASSUME SessionInv, NEW c \in Closer, TearDown(c) PROVE SessionInv'
<1> DEFINE m == closer[c].module
<1>1. SessionTypes /\ runs' = [runs EXCEPT ![m].torn = @ + 1]
  BY DEF SessionInv, TearDown
<1>2. UNCHANGED <<record, usage_tracker, socket, batch, lines>>
  BY DEF TearDown
<1> HIDE DEF m
<1>3. Advances
  <2>1. CASE m \in DOMAIN runs
    <3> DEFINE rec == [runs[m] EXCEPT !.torn = @ + 1]
    <3>1. runs[m] \in RunRecord
      BY <1>1, <2>1, RunTypes
    <3>2. rec \in RunRecord /\ rec.by = runs[m].by /\ rec.alone = runs[m].alone
            /\ rec.at = runs[m].at /\ rec.called = runs[m].called
      BY <3>1 DEF RunRecord
    <3>3. runs' = [runs EXCEPT ![m] = rec]
      BY <1>1
    <3> QED BY <1>1, <2>1, <3>2, <3>3, RunAdvances
  <2>2. CASE m \notin DOMAIN runs
    <3>1. runs' = runs
      BY <1>1, <2>2 DEF SessionTypes
    <3> QED BY <1>1, <3>1, SameRunsAdvance
  <2> QED BY <2>1, <2>2
<1> QED BY <1>2, <1>3, RunsMove

LEMMA RunMessageKeeps ==
  ASSUME SessionInv, NEW s \in Socket, NEW mode \in Modes, RunMessage(s, mode)
  PROVE  SessionInv'
<1>1. SessionTypes /\ mode \in RunMode /\ s \in Socket \cup Batch
  BY DEF SessionInv, RunMode
<1>2. Submit(s, mode) /\ usage_tracker' = NoUsage /\ last_run_result' = None /\ case_run_mode' = mode
        /\ last_run_prompts' = [run |-> Len(runs) + 1, seen |-> FALSE]
        /\ socket[s].at = "receiving" /\ UNCHANGED <<batch, lines>>
  BY DEF RunMessage, Seed
<1>3. socket' = [socket EXCEPT ![s] = [at |-> "running", run |-> Len(runs) + 1]]
  BY DEF RunMessage
<1>4. Len(runs) + 1 \in Nat /\ runs' \in Seq(RunRecord)
  BY <1>1, <1>2, Submitted
<1>5. NoUsage \in Usage
  BY DEF NoUsage, NoCalls, Usage
<1>6. SessionTypes'
  BY <1>1, <1>2, <1>3, <1>4, <1>5 DEF SessionTypes
<1>7. OthersWait(s) /\ socket'[s].at = "running" /\ socket'[s].run = Len(runs) + 1
  BY <1>1, <1>2, <1>3 DEF OthersWait, SessionTypes
<1>8. s \notin Batch
  BY SessionAssumption
<1> QED BY <1>1, <1>2, <1>6, <1>7, <1>8, SubmitStep

LEMMA StartCaseKeeps == ASSUME SessionInv, NEW b \in Batch, StartCase(b) PROVE SessionInv'
<1>1. SessionTypes /\ case_run_mode \in RunMode /\ b \in Socket \cup Batch
  BY DEF SessionInv, SessionTypes
<1>2. Submit(b, case_run_mode) /\ usage_tracker' = NoUsage /\ UNCHANGED <<record, socket, lines>>
        /\ batch[b].at = "next"
  BY DEF StartCase
<1> DEFINE rec == [batch[b] EXCEPT !.at = "running", !.run = Len(runs) + 1]
<1>3. batch' = [batch EXCEPT ![b] = rec]
  BY DEF StartCase
<1>4. Len(runs) + 1 \in Nat /\ runs' \in Seq(RunRecord)
  BY <1>1, <1>2, Submitted
<1>5. NoUsage \in Usage
  BY DEF NoUsage, NoCalls, Usage
<1>6. rec \in [at : {"absent", "next", "running", "scoring", "ended"}, case : Nat,
               run : Nat \cup {None}, mode : RunMode]
        /\ rec.at = "running" /\ rec.run = Len(runs) + 1
  BY <1>1, <1>4, BatchTypes
<1> HIDE DEF rec
<1>7. SessionTypes'
  BY <1>1, <1>2, <1>3, <1>4, <1>5, <1>6 DEF SessionTypes, record
<1>8. OthersWait(b) /\ batch'[b] = rec
  BY <1>1, <1>2, <1>3 DEF OthersWait, SessionTypes
<1>9. b \notin Socket /\ UNCHANGED <<last_run_result, last_usage_summary, last_run_prompts>>
  BY <1>2, SessionAssumption DEF record
<1> QED BY <1>1, <1>2, <1>6, <1>7, <1>8, <1>9, SubmitStep

LEMMA RunReturnsKeeps == ASSUME SessionInv, NEW s \in Socket, RunReturns(s) PROVE SessionInv'
<1> DEFINE r == socket[s].run
<1>1. SessionTypes /\ s \in Socket \cup Batch /\ s \notin Batch
  BY SessionAssumption DEF SessionInv
<1>2. socket[s].at = "running" /\ ~InProgress(r) /\ r \in DOMAIN runs /\ r \in Nat
        /\ UNCHANGED <<runs, usage_tracker, batch, lines, case_run_mode, last_run_prompts>>
  BY <1>1, RunTypes DEF RunReturns, SessionInv, AwaitsOwn
<1>3. \/ last_run_result' = r /\ last_usage_summary' = usage_tracker
      \/ UNCHANGED last_run_result
  BY DEF RunReturns, Snapshot
<1>4. PICK next \in {"receiving", "ended"} : socket' = [socket EXCEPT ![s].at = next]
  BY DEF RunReturns
<1> DEFINE rec == [socket[s] EXCEPT !.at = next]
<1>5. rec \in [at : {"absent", "receiving", "running", "ended", "closed"}, run : Nat \cup {None}]
        /\ rec.at = next
  BY <1>1, SocketTypes
<1>6. socket' = [socket EXCEPT ![s] = rec]
  BY <1>4
<1> HIDE DEF rec
<1>7. SessionTypes'
  BY <1>1, <1>2, <1>5, <1>6 DEF SessionTypes
<1>8. OthersWait(s) /\ socket'[s].at # "running"
  BY <1>1, <1>2, <1>5, <1>6 DEF OthersWait, SessionTypes
<1>9. LinesScored'
  BY <1>1, <1>2, LinesStay, SameRunsAdvance DEF SessionInv
<1> QED BY <1>1, <1>2, <1>3, <1>7, <1>8, <1>9, TakeStep

BatchRecord == [at : {"absent", "next", "running", "scoring", "ended"}, case : Nat,
                run : Nat \cup {None}, mode : RunMode]

\* A line more.
LEMMA LineAdded ==
  ASSUME SessionInv, Advances, NEW b \in Batch, NEW line \in Line, Scored(line, runs'),
         lines' = [lines EXCEPT ![b] = Append(@, line)]
  PROVE  LinesScored' /\ lines' \in [Batch -> Seq(Line)]
<1>1. lines \in [Batch -> Seq(Line)] /\ LinesScored
  BY DEF SessionInv, SessionTypes
<1>2. lines' \in [Batch -> Seq(Line)]
  BY <1>1
<1>3. ASSUME NEW c \in Batch, NEW i \in DOMAIN lines'[c] PROVE Scored(lines'[c][i], runs')
  <2>1. CASE c = b /\ i = Len(lines[b]) + 1
    <3>1. lines'[c][i] = line
      BY <1>1, <2>1
    <3> QED BY <3>1
  <2>2. CASE c # b \/ i # Len(lines[b]) + 1
    <3>1. i \in DOMAIN lines[c] /\ lines'[c][i] = lines[c][i]
      BY <1>1, <1>3, <2>2
    <3>2. Scored(lines[c][i], runs)
      BY <1>1, <3>1 DEF LinesScored
    <3> QED BY <3>1, <3>2 DEF Scored, Advances
  <2> QED BY <2>1, <2>2
<1> QED BY <1>2, <1>3 DEF LinesScored

LEMMA ErrorScored ==
  ASSUME SessionTypes, NEW b \in Batch, NEW rs
  PROVE  ErrorLine(b) \in Line /\ Scored(ErrorLine(b), rs)
  BY BatchTypes DEF ErrorLine, Line, Scored

LEMMA CaseScored ==
  ASSUME SessionInv, NEW b \in Batch, batch[b].at = "scoring"
  PROVE  CaseInput(b) \in Line /\ Scored(CaseInput(b), runs)
<1> DEFINE r == batch[b].run
<1>1. r \in DOMAIN runs /\ r \in Nat /\ runs[r].at = "over" /\ batch[b].case \in Nat
  BY RunTypes, BatchTypes DEF SessionInv, ScoresOver
<1>2. [run |-> r, seen |-> TRUE] \in Prompts /\ None \notin Prompts
  BY <1>1, SessionAssumption DEF Prompts
<1> DEFINE p == IF runs[r].called THEN [run |-> r, seen |-> TRUE] ELSE None
<1> HIDE DEF r
<1>3. p \in Prompts \cup {None} /\ (p # None => p.run = r) /\ (p = None => ~runs[r].called)
  BY <1>2
<1>4. CaseInput(b) = [case |-> batch[b].case, error |-> FALSE, run |-> r, result |-> r, prompts |-> p]
  BY DEF CaseInput, r
<1> HIDE DEF p
<1> QED BY <1>1, <1>3, <1>4 DEF Line, Scored

\* A step of a batch that awaits nothing.
LEMMA BatchMoves ==
  ASSUME SessionInv, NEW b \in Batch, batch[b].at # "running",
         NEW rec \in BatchRecord, rec.at \notin {"running", "scoring"}, batch' = [batch EXCEPT ![b] = rec],
         case_run_mode' \in RunMode, lines' \in [Batch -> Seq(Line)], LinesScored',
         UNCHANGED <<runs, socket, usage_tracker, last_run_result, last_usage_summary, last_run_prompts>>
  PROVE  SessionInv'
<1>1. SessionTypes /\ Advances
  BY SameRunsAdvance DEF SessionInv
<1>2. SessionTypes'
  BY <1>1 DEF SessionTypes, BatchRecord
<1>3. SameAwaiting
  <2>1. batch'[b] = rec /\ \A c \in Batch \ {b} : batch'[c] = batch[c]
    BY <1>1 DEF SessionTypes
  <2> QED BY <2>1 DEF SameAwaiting
<1> QED BY <1>1, <1>2, <1>3, QuietStep

LEMMA RequestBatchKeeps ==
  ASSUME SessionInv, NEW b \in Batch, NEW mode \in Modes, RequestBatch(b, mode)
  PROVE  SessionInv'
<1>1. SessionTypes /\ Advances /\ mode \in RunMode
  BY SameRunsAdvance DEF SessionInv, RunMode, RequestBatch
<1>2. UNCHANGED <<runs, socket, usage_tracker, last_run_result, last_usage_summary, last_run_prompts, lines>>
        /\ case_run_mode' = mode /\ batch[b].at = "absent"
  BY DEF RequestBatch
<1> DEFINE rec == [batch[b] EXCEPT !.at = "next", !.case = 1, !.mode = mode]
<1>3. rec \in BatchRecord /\ rec.at = "next"
  BY <1>1, BatchTypes DEF BatchRecord
<1>4. batch' = [batch EXCEPT ![b] = rec]
  BY DEF RequestBatch
<1> HIDE DEF rec
<1>5. LinesScored' /\ lines' \in [Batch -> Seq(Line)]
  BY <1>1, <1>2, LinesStay DEF SessionInv, SessionTypes
<1> QED BY <1>1, <1>2, <1>3, <1>4, <1>5, BatchMoves

\* What a batch is after it yielded a line.
LEMMA YieldsMoves ==
  ASSUME SessionTypes, NEW b \in Batch, NEW line, Yields(b, line)
  PROVE  \E rec \in BatchRecord : /\ rec.at \in {"next", "ended"} /\ rec.run = batch[b].run
                                  /\ batch' = [batch EXCEPT ![b] = rec]
<1> DEFINE at == IF batch[b].case < Cases THEN "next" ELSE "ended"
           rec == [batch[b] EXCEPT !.case = @ + 1, !.at = at]
<1>1. batch[b] \in BatchRecord /\ batch[b].case + 1 \in Nat
  BY BatchTypes DEF BatchRecord
<1>2. at \in {"next", "ended"}
  OBVIOUS
<1>3. batch' = [batch EXCEPT ![b] = rec]
  BY DEF Yields
<1> HIDE DEF at
<1>4. rec \in BatchRecord /\ rec.at = at /\ rec.run = batch[b].run
  BY <1>1, <1>2 DEF BatchRecord
<1> QED BY <1>2, <1>3, <1>4

LEMMA YieldsKeeps ==
  ASSUME SessionInv, NEW b \in Batch, batch[b].at # "running", NEW line \in Line, Scored(line, runs),
         Yields(b, line), UNCHANGED <<record, runs, socket, usage_tracker>>
  PROVE  SessionInv'
<1>1. SessionTypes /\ Advances
  BY SameRunsAdvance DEF SessionInv
<1>2. LinesScored' /\ lines' \in [Batch -> Seq(Line)]
  BY <1>1, LineAdded DEF Yields
<1>3. PICK rec \in BatchRecord : rec.at \in {"next", "ended"} /\ batch' = [batch EXCEPT ![b] = rec]
  BY <1>1, YieldsMoves
<1>4. case_run_mode' \in RunMode /\ UNCHANGED <<last_run_result, last_usage_summary, last_run_prompts>>
  BY <1>1 DEF SessionTypes, record
<1> QED BY <1>2, <1>3, <1>4, BatchMoves

LEMMA InvalidCaseKeeps == ASSUME SessionInv, NEW b \in Batch, InvalidCase(b) PROVE SessionInv'
<1>1. ErrorLine(b) \in Line /\ Scored(ErrorLine(b), runs)
  BY ErrorScored DEF SessionInv
<1> QED BY <1>1, YieldsKeeps DEF InvalidCase

LEMMA ScoreCaseKeeps == ASSUME SessionInv, NEW b \in Batch, ScoreCase(b) PROVE SessionInv'
<1>1. ErrorLine(b) \in Line /\ Scored(ErrorLine(b), runs)
  BY ErrorScored DEF SessionInv
<1>2. batch[b].at = "scoring" /\ UNCHANGED <<record, runs, socket, usage_tracker>>
  BY DEF ScoreCase
<1>3. CaseInput(b) \in Line /\ Scored(CaseInput(b), runs)
  BY <1>2, CaseScored
<1>4. Yields(b, CaseInput(b)) \/ Yields(b, ErrorLine(b))
  BY DEF ScoreCase
<1> QED BY <1>1, <1>2, <1>3, <1>4, YieldsKeeps

LEMMA CaseRunsKeeps == ASSUME SessionInv, NEW b \in Batch, CaseRuns(b) PROVE SessionInv'
<1> DEFINE r == batch[b].run
<1>1. SessionTypes /\ Advances /\ b \in Socket \cup Batch /\ b \notin Socket
  BY SameRunsAdvance, SessionAssumption DEF SessionInv, CaseRuns
<1>2. batch[b].at = "running" /\ ~InProgress(r) /\ r \in DOMAIN runs
        /\ UNCHANGED <<runs, usage_tracker, socket, case_run_mode, last_run_prompts>>
  BY DEF CaseRuns, SessionInv, AwaitsOwn
<1>3. \/ last_run_result' = r /\ last_usage_summary' = usage_tracker
      \/ UNCHANGED <<last_run_result, last_usage_summary>>
  BY DEF CaseRuns, Snapshot
<1>4. \/ batch' = [batch EXCEPT ![b].at = "scoring"] /\ UNCHANGED lines
      \/ Yields(b, ErrorLine(b))
  BY DEF CaseRuns
<1>5. /\ \E rec \in BatchRecord : /\ rec.at # "running" /\ rec.run = r
                                  /\ batch' = [batch EXCEPT ![b] = rec]
      /\ LinesScored' /\ lines' \in [Batch -> Seq(Line)]
  <2>1. CASE batch' = [batch EXCEPT ![b].at = "scoring"] /\ UNCHANGED lines
    <3> DEFINE rec == [batch[b] EXCEPT !.at = "scoring"]
    <3>1. rec \in BatchRecord /\ rec.at = "scoring" /\ rec.run = r
      BY <1>1, BatchTypes DEF BatchRecord
    <3>2. batch' = [batch EXCEPT ![b] = rec]
      BY <2>1
    <3>3. LinesScored' /\ lines' \in [Batch -> Seq(Line)]
      BY <1>1, <2>1, LinesStay DEF SessionInv, SessionTypes
    <3> QED BY <3>1, <3>2, <3>3
  <2>2. CASE Yields(b, ErrorLine(b))
    <3>1. ErrorLine(b) \in Line /\ Scored(ErrorLine(b), runs)
      BY <1>1, ErrorScored
    <3>2. LinesScored' /\ lines' \in [Batch -> Seq(Line)]
      BY <1>1, <1>2, <2>2, <3>1, LineAdded DEF Yields
    <3> QED BY <1>1, <2>2, <3>2, YieldsMoves
  <2> QED BY <1>4, <2>1, <2>2
<1>6. PICK rec \in BatchRecord : rec.at # "running" /\ rec.run = r /\ batch' = [batch EXCEPT ![b] = rec]
  BY <1>5
<1>7. SessionTypes'
  BY <1>1, <1>2, <1>5, <1>6 DEF SessionTypes, BatchRecord
<1>8. OthersWait(b) /\ batch'[b].at # "running" /\ batch'[b].run = r
  BY <1>1, <1>2, <1>6 DEF OthersWait, SessionTypes
<1> QED BY <1>1, <1>2, <1>3, <1>5, <1>7, <1>8, TakeStep

-----------------------------------------------------------------------------
(* The theorems *)

LEMMA RunKeeps ==
  ASSUME SessionInv, NEW r \in DOMAIN runs, RunStep(r)
  PROVE  SessionInv'
  BY LoadSetupKeeps, SetUpKeeps, CallModelKeeps, AskKeeps, LeaveKeeps, FinishKeeps
     DEF RunStep

LEMMA RequestKeeps ==
  ASSUME SessionInv, UNCHANGED <<record, runs, usage_tracker, socket, batch, lines>>
  PROVE  SessionInv'
<1>1. Advances
  BY SameRunsAdvance DEF SessionInv
<1> QED BY <1>1, RunsMove

LEMMA InitSession == Init => SessionInv
<1> SUFFICES ASSUME Init PROVE SessionInv
  OBVIOUS
<1>1. SessionTypes
  <2>1. NoUsage \in Usage
    BY DEF NoUsage, NoCalls, Usage
  <2> QED BY <2>1 DEF Init, SessionTypes, RunMode
<1>2. Awaited = {}
  BY DEF Init, Awaited
<1> QED BY <1>1, <1>2 DEF Init, SessionInv, AwaitsOwn, ScoresOver, ProgressAwaited, AloneOnly,
             LastClean, SocketsForget, LinesScored, PromptsOfRun, AloneLast, ResultIsNotOlder

LEMMA StepSession == SessionInv /\ [Next]_vars => SessionInv'
<1> SUFFICES ASSUME SessionInv, [Next]_vars PROVE SessionInv'
  OBVIOUS
<1>1. CASE UNCHANGED vars
  BY <1>1, RequestKeeps DEF vars
<1>2. ASSUME NEW r \in DOMAIN runs, RunStep(r) PROVE SessionInv'
  BY <1>2, RunKeeps
<1>3. ASSUME NEW s \in Socket,
             \/ Connect(s) \/ RunReturns(s) \/ Disconnect(s) \/ EndSocket(s)
             \/ \E mode \in Modes : RunMessage(s, mode)
      PROVE  SessionInv'
  BY <1>3, SocketKeeps, RunReturnsKeeps, RunMessageKeeps
<1>4. CASE Close
  BY <1>4, CloseKeeps
<1>8. CASE Answer \/ \E s \in Socket : Drain(s) \/ PumpReturns(s)
  BY <1>8, PumpKeeps
<1>5. ASSUME NEW c \in Closer, TearDown(c) PROVE SessionInv'
  BY <1>5, TearDownKeeps
<1>6. ASSUME NEW b \in Batch, BatchStep(b) \/ \E mode \in Modes : RequestBatch(b, mode)
      PROVE  SessionInv'
  BY <1>6, InvalidCaseKeeps, StartCaseKeeps, CaseRunsKeeps, ScoreCaseKeeps, RequestBatchKeeps DEF BatchStep
<1>7. ASSUME NEW e \in Request, CheckRequest(e) \/ ReadPrompts(e) \/ ReadResult(e)
      PROVE  SessionInv'
  BY <1>7, RequestKeeps DEF CheckRequest, ReadPrompts, ReadResult
<1> QED BY <1>1, <1>2, <1>3, <1>4, <1>5, <1>6, <1>7, <1>8 DEF Next

\* Everything the session, its runner, its sockets and its streams remember of runs is of
\* runs that were, in the order they were: the invariant of the next three theorems.
THEOREM SessionInvariance == Spec => []SessionInv
<1>1. Init => SessionInv
  BY InitSession
<1>2. SessionInv /\ [Next]_vars => SessionInv'
  BY StepSession
<1> QED BY <1>1, <1>2, PTL DEF Spec

\* A case that a stream scores is scored with the result and the prompts of its own run
\* (evaluate-batch), whoever else uses the session between the run and the scoring.
THEOREM ScoresOwnRun == Spec => []CasesScoreTheirRun
<1>1. SessionInv => CasesScoreTheirRun
  BY DEF SessionInv, LinesScored, Scored, CasesScoreTheirRun
<1> QED BY <1>1, SessionInvariance, PTL

\* The usage that is shown next to the last result counts the calls of that run and of no
\* other, if nothing else was under way while it ran (_run_with_usage_tracking).
THEOREM UsageIsOfOneRun == Spec => []UsageOfOneRun
<1>1. SessionInv => UsageOfOneRun
  BY DEF SessionInv, LastClean, Clean, UsageOfOneRun
<1> QED BY <1>1, SessionInvariance, PTL

\* A result older than the prompts next to it is of a run that was not alone.
THEOREM NoResultIsOlder == Spec => []ResultIsNotOlder
<1>1. SessionInv => ResultIsNotOlder
  BY DEF SessionInv
<1> QED BY <1>1, SessionInvariance, PTL

(***************************************************************************)
(* Sets of naturals, recursions and sequences, for what follows.           *)
(***************************************************************************)
LEMMA LeastNatural ==
  ASSUME NEW T, T \subseteq Nat, T # {}
  PROVE  \E x \in T : \A y \in T : x <= y
<1> DEFINE U == {0..(t - 1) : t \in T}
<1>1. U \subseteq FiniteSubsetsOf(Nat)
  <2> SUFFICES ASSUME NEW t \in T PROVE 0..(t - 1) \in FiniteSubsetsOf(Nat)
    OBVIOUS
  <2>1. IsFiniteSet(0..(t - 1))
    BY FS_Interval
  <2> QED BY <2>1 DEF FiniteSubsetsOf
<1>2. U # {}
  OBVIOUS
<1>3. \E u \in U : \A v \in U : ~ (<<v, u>> \in StrictSubsetOrdering(Nat))
  <2>1. IsWellFoundedOn(StrictSubsetOrdering(Nat), FiniteSubsetsOf(Nat))
    BY FS_StrictSubsetOrderingWellFounded
  <2> HIDE DEF U
  <2> QED BY <1>1, <1>2, <2>1, WFMin
<1>4. PICK x \in T : \A v \in U : ~ (<<v, 0..(x - 1)>> \in StrictSubsetOrdering(Nat))
  BY <1>3
<1>5. ASSUME NEW y \in T, y < x PROVE FALSE
  <2>1. 0..(y - 1) \subseteq 0..(x - 1)
    BY <1>5
  <2>2. y \in 0..(x - 1) /\ y \notin 0..(y - 1)
    BY <1>5
  <2>3. <<0..(y - 1), 0..(x - 1)>> \in (SUBSET Nat) \X (SUBSET Nat)
    OBVIOUS
  <2> QED BY <2>1, <2>2, <2>3, <1>4 DEF StrictSubsetOrdering
<1> QED BY <1>5

LEMMA Inductive ==
  ASSUME NEW B, 0 \in B, \A n \in Nat : n \in B => n + 1 \in B
  PROVE  Nat \subseteq B
<1> SUFFICES ASSUME Nat \ B # {} PROVE FALSE
  OBVIOUS
<1>1. PICK x \in Nat \ B : \A y \in Nat \ B : x <= y
  BY LeastNatural
<1>2. x - 1 \in Nat /\ x - 1 \in B
  BY <1>1
<1> QED BY <1>1, <1>2

\* A set of naturals that is bounded has a greatest element.
LEMMA Greatest ==
  ASSUME NEW S, S \subseteq Nat, S # {}, NEW n \in Nat, \A x \in S : x <= n
  PROVE  Max(S) \in S /\ \A x \in S : x <= Max(S)
<1> DEFINE T == {n - x : x \in S}
<1>1. PICK y \in T : \A z \in T : y <= z
  <2>1. \A x \in S : n - x \in Nat
    OBVIOUS
  <2>2. T \subseteq Nat /\ T # {}
    BY <2>1
  <2> HIDE DEF T
  <2> QED BY <2>2, LeastNatural
<1>2. PICK m \in S : y = n - m
  BY <1>1
<1>3. \A x \in S : m >= x
  <2> SUFFICES ASSUME NEW x \in S PROVE m >= x
    OBVIOUS
  <2>1. n - x \in T
    OBVIOUS
  <2>2. n - m <= n - x /\ m \in Nat /\ x \in Nat
    BY <2>1, <1>1, <1>2
  <2> QED BY <2>2
<1>4. \E x \in S : \A z \in S : x >= z
  BY <1>3
<1>5. /\ (CHOOSE x \in S : \A z \in S : x >= z) \in S
      /\ \A z \in S : (CHOOSE x \in S : \A w \in S : x >= w) >= z
  BY <1>4
<1> QED BY <1>5 DEF Max

\* A recursion over the numbers up to N has a value at every step if each stays in V.
Stays(G, V, N) == \A n \in 1..N, v \in V : G[n][v] \in V

Builds(f, V, x, N, G) ==
  /\ f \in [0..N -> V]
  /\ f[0] = x
  /\ \A n \in 1..N : f[n] = G[n][f[n - 1]]

LEMMA Recursion ==
  ASSUME NEW V, NEW x \in V, NEW N \in Nat, NEW G, Stays(G, V, N)
  PROVE  \E f : Builds(f, V, x, N, G)
<1>0. \A n \in 1..N, v \in V : G[n][v] \in V
  BY DEF Stays
<1> DEFINE Upto(f, m) == /\ f \in [0..m -> V]
                         /\ f[0] = x
                         /\ \A n \in 1..m : f[n] = G[n][f[n - 1]]
           B == {m \in Nat : m <= N => \E f : Upto(f, m)}
<1>1. 0 \in B
  <2>1. Upto([i \in 0..0 |-> x], 0)
    OBVIOUS
  <2> HIDE DEF Upto
  <2> QED BY <2>1
<1>2. ASSUME NEW m \in Nat, m \in B PROVE m + 1 \in B
  <2> SUFFICES ASSUME m + 1 <= N PROVE \E f : Upto(f, m + 1)
    OBVIOUS
  <2>1. PICK f : Upto(f, m)
    BY <1>2
  <2> DEFINE last == G[m + 1][f[m]]
             g    == [i \in 0..(m + 1) |-> IF i = m + 1 THEN last ELSE f[i]]
  <2>2. last \in V /\ \A i \in 0..m : f[i] \in V
    BY <2>1, <1>0
  <2>3. g \in [0..(m + 1) -> V] /\ g[0] = x
    <3> HIDE DEF last
    <3> QED BY <2>1, <2>2
  <2>4. ASSUME NEW n \in 1..(m + 1) PROVE g[n] = G[n][g[n - 1]]
    <3>1. CASE n = m + 1
      <4>1. g[n] = last /\ g[n - 1] = f[m]
        BY <3>1
      <4> HIDE DEF g
      <4> QED BY <3>1, <4>1
    <3>2. CASE n # m + 1
      <4>1. n \in 1..m /\ g[n] = f[n] /\ g[n - 1] = f[n - 1]
        BY <3>2
      <4>2. f[n] = G[n][f[n - 1]]
        BY <2>1, <4>1
      <4> HIDE DEF g
      <4> QED BY <4>1, <4>2
    <3> QED BY <3>1, <3>2
  <2> HIDE DEF g
  <2>5. Upto(g, m + 1)
    BY <2>3, <2>4
  <2> HIDE DEF Upto
  <2> QED BY <2>5
<1>3. N \in B
  <2> HIDE DEF B
  <2> QED BY <1>1, <1>2, Inductive
<1>4. PICK f : Upto(f, N)
  BY <1>3
<1> QED BY <1>4 DEF Builds

LEMMA Concatenated ==
  ASSUME NEW S, NEW s \in Seq(S), NEW t \in Seq(S)
  PROVE  /\ s \o t \in Seq(S) /\ Len(s \o t) = Len(s) + Len(t)
         /\ \A i \in 1..Len(s) : (s \o t)[i] = s[i]
         /\ \A i \in 1..Len(t) : (s \o t)[Len(s) + i] = t[i]
<1>1. s \o t \in Seq(S) /\ Len(s \o t) = Len(s) + Len(t) /\ Len(s) \in Nat /\ Len(t) \in Nat
  OBVIOUS
<1>2. ASSUME NEW i \in 1..Len(s) PROVE (s \o t)[i] = s[i]
  OBVIOUS
<1>3. ASSUME NEW i \in 1..Len(t) PROVE (s \o t)[Len(s) + i] = t[i]
  <2>1. Len(s) + i \in 1..(Len(s) + Len(t)) /\ ~(Len(s) + i <= Len(s)) /\ (Len(s) + i) - Len(s) = i
    BY <1>1
  <2> QED BY <2>1
<1> QED BY <1>1, <1>2, <1>3

LEMMA SamePath ==
  ASSUME NEW Key, NEW s \in Seq(Key), NEW t \in Seq(Key), Len(s) = Len(t), \A n \in 1..Len(s) : s[n] = t[n]
  PROVE  s = t
OBVIOUS

(***************************************************************************)
(* StepReferences: what is put into a step is data.                        *)
(***************************************************************************)
\* A piece of what a model, a tool or the user has written.
IsPiece(p, Key) ==
  \E token \in BOOLEAN, path \in Seq(Key) :
    /\ p = [token |-> token, path |-> path, shows |-> {}]
    /\ token => path # <<>>

\* A node of it; only a text is made of pieces.
IsNode(n, Key, Pieces) ==
  \E path \in Seq(Key), pieces \in Seq(Pieces) : \E type :
    /\ n = [path |-> path, type |-> type, pieces |-> pieces]
    /\ type # "text" => pieces = <<>>

\* A value has one node at a place.
IsValue(value, Key, Pieces) ==
  /\ \A n \in value : IsNode(n, Key, Pieces)
  /\ \A m, n \in value : m.path = n.path => m = n

\* A piece of raw data is struck by taking out its token.
LEMMA PieceStrikes ==
  ASSUME NEW Key, NEW p, IsPiece(p, Key)
  PROVE  /\ PieceStruck(p) = TokenStruck(p)
         /\ p.token => p.path \in Seq(Key) /\ p.path # <<>>
         /\ p.token \in BOOLEAN
         /\ ~p.token => PieceStruck(p) = p
<1>1. PICK token \in BOOLEAN, path \in Seq(Key) :
        /\ p = [token |-> token, path |-> path, shows |-> {}]
        /\ token => path # <<>>
  BY DEF IsPiece
<1>2. p.token = token /\ p.path = path /\ p.shows = {}
  BY <1>1
<1>3. [p EXCEPT !.shows = {ShownStruck(node) : node \in @}] = p
  <2>1. {ShownStruck(node) : node \in p.shows} = {}
    BY <1>2
  <2> QED BY <1>1, <2>1
<1> QED BY <1>1, <1>2, <1>3 DEF PieceStruck, TokenStruck

\* Nodes are changed in one field.
LEMMA NodeFields ==
  ASSUME NEW Key, NEW Pieces, NEW n, IsNode(n, Key, Pieces)
  PROVE  /\ n.path \in Seq(Key) /\ n.pieces \in Seq(Pieces)
         /\ n.type # "text" => n.pieces = <<>>
         /\ n = [path |-> n.path, type |-> n.type, pieces |-> n.pieces]
BY DEF IsNode

LEMMA NodeChanges ==
  ASSUME NEW path, NEW type, NEW pieces, NEW n, n = [path |-> path, type |-> type, pieces |-> pieces],
         NEW q, NEW s
  PROVE  /\ n.path = path /\ n.type = type /\ n.pieces = pieces
         /\ [n EXCEPT !.path = q] = [path |-> q, type |-> type, pieces |-> pieces]
         /\ [n EXCEPT !.pieces = s] = [path |-> path, type |-> type, pieces |-> s]
OBVIOUS

LEMMA PieceChanges ==
  ASSUME NEW token, NEW path, NEW shows, NEW s
  PROVE  [[token |-> token, path |-> path, shows |-> shows] EXCEPT !.shows = s]
           = [token |-> token, path |-> path, shows |-> s]
OBVIOUS

\* The pieces of a text with their tokens struck out.
StruckPieces(pieces) == [i \in DOMAIN pieces |-> PieceStruck(pieces[i])]

\* A node in another place is struck as it was.
Moved(n, q) == [n EXCEPT !.path = q]

IsRecord(n) == n = [path |-> n.path, type |-> n.type, pieces |-> n.pieces]

LEMMA StruckFields ==
  ASSUME NEW n, IsRecord(n)
  PROVE  /\ NodeStruck(n) = [path |-> n.path, type |-> n.type, pieces |-> StruckPieces(n.pieces)]
         /\ NodeStruck(n).path = n.path /\ NodeStruck(n).type = n.type
         /\ NodeStruck(n).pieces = StruckPieces(n.pieces)
<1>1. n = [path |-> n.path, type |-> n.type, pieces |-> n.pieces]
  BY DEF IsRecord
<1>2. NodeStruck(n) = [n EXCEPT !.pieces = StruckPieces(n.pieces)]
  BY DEF NodeStruck, StruckPieces
<1>3. NodeStruck(n) = [path |-> n.path, type |-> n.type, pieces |-> StruckPieces(n.pieces)]
  BY <1>1, <1>2, NodeChanges
<1> QED BY <1>3

LEMMA MovedStrikes ==
  ASSUME NEW n, IsRecord(n), NEW q
  PROVE  NodeStruck(Moved(n, q)) = Moved(NodeStruck(n), q)
<1> DEFINE m == [path |-> q, type |-> n.type, pieces |-> n.pieces]
<1>1. n = [path |-> n.path, type |-> n.type, pieces |-> n.pieces]
  BY DEF IsRecord
<1>2. Moved(n, q) = m
  BY <1>1, NodeChanges DEF Moved
<1>3. NodeStruck(n) = [path |-> n.path, type |-> n.type, pieces |-> StruckPieces(n.pieces)]
  BY StruckFields
<1>4. Moved(NodeStruck(n), q) = [path |-> q, type |-> n.type, pieces |-> StruckPieces(n.pieces)]
  BY <1>3, NodeChanges DEF Moved
<1>5. NodeStruck(m) = [path |-> q, type |-> n.type, pieces |-> StruckPieces(n.pieces)]
  <2>1. m.pieces = n.pieces
    OBVIOUS
  <2>2. NodeStruck(m) = [m EXCEPT !.pieces = StruckPieces(n.pieces)]
    BY <2>1 DEF NodeStruck, StruckPieces
  <2> QED BY <2>2, NodeChanges
<1> HIDE DEF m
<1> QED BY <1>2, <1>4, <1>5

LEMMA NodeStrikes ==
  ASSUME NEW Key, NEW Pieces, \A p \in Pieces : IsPiece(p, Key),
         NEW n, IsNode(n, Key, Pieces)
  PROVE  /\ IsRecord(n)
         /\ ShownStruck(n) = NodeStruck(n)
         /\ n.type # "text" => NodeStruck(n) = n
<1>1. /\ n.pieces \in Seq(Pieces)
      /\ n.type # "text" => n.pieces = <<>>
      /\ n = [path |-> n.path, type |-> n.type, pieces |-> n.pieces]
  BY NodeFields
<1>2. IsRecord(n) /\ NodeStruck(n) = [path |-> n.path, type |-> n.type, pieces |-> StruckPieces(n.pieces)]
  BY <1>1, StruckFields DEF IsRecord
<1> DEFINE struck == [i \in DOMAIN n.pieces |-> TokenStruck(n.pieces[i])]
<1>3. ShownStruck(n) = [path |-> n.path, type |-> n.type, pieces |-> struck]
  <2>1. ShownStruck(n) = [n EXCEPT !.pieces = struck]
    BY DEF ShownStruck
  <2> HIDE DEF struck
  <2> QED BY <1>1, <2>1, NodeChanges
<1>4. [i \in DOMAIN n.pieces |-> TokenStruck(n.pieces[i])] = StruckPieces(n.pieces)
  <2>1. \A i \in DOMAIN n.pieces : n.pieces[i] \in Pieces
    BY <1>1
  <2>2. ASSUME NEW i \in DOMAIN n.pieces PROVE TokenStruck(n.pieces[i]) = PieceStruck(n.pieces[i])
    BY <2>1, PieceStrikes
  <2> QED BY <2>2 DEF StruckPieces
<1>5. ASSUME n.type # "text" PROVE NodeStruck(n) = n
  <2>1. n.pieces = <<>>
    BY <1>1, <1>5
  <2>2. StruckPieces(n.pieces) = <<>>
    BY <2>1 DEF StruckPieces
  <2> QED BY <1>1, <1>2, <2>1, <2>2
<1> QED BY <1>2, <1>3, <1>4, <1>5

\* A value is shown with its tokens struck out as it is struck itself.
LEMMA PlainStrikes ==
  ASSUME NEW Key, NEW Pieces, \A p \in Pieces : IsPiece(p, Key),
         NEW value, IsValue(value, Key, Pieces)
  PROVE  PieceStruck(Plain(value)) = Plain(Struck(value))
<1>1. {ShownStruck(node) : node \in value} = Struck(value)
  <2>1. ASSUME NEW node \in value PROVE ShownStruck(node) = NodeStruck(node)
    BY NodeStrikes DEF IsValue
  <2> QED BY <2>1 DEF Struck
<1>2. Plain(value).token = FALSE
  BY DEF Plain
<1>3. Plain(value).shows = value
  BY DEF Plain
<1>4. [Plain(value) EXCEPT !.shows = Struck(value)] = Plain(Struck(value))
  BY PieceChanges DEF Plain
<1> QED BY <1>1, <1>2, <1>3, <1>4 DEF PieceStruck

LEMMA ValueAtStrikes ==
  ASSUME NEW value, \A n \in value : IsRecord(n), NEW q
  PROVE  ValueAt(Struck(value), q) = Struck(ValueAt(value, q))
<1> DEFINE place(n) == SubSeq(n.path, Len(q) + 1, Len(n.path))
           moved(n) == Moved(n, place(n))
           here     == {n \in value : IsPrefix(q, n.path)}
           struck   == {n \in Struck(value) : IsPrefix(q, n.path)}
<1>1. ASSUME NEW n \in value
      PROVE  /\ NodeStruck(moved(n)) = moved(NodeStruck(n))
             /\ NodeStruck(n).path = n.path
  <2>1. IsRecord(n)
    OBVIOUS
  <2>2. ASSUME NEW r PROVE NodeStruck(Moved(n, r)) = Moved(NodeStruck(n), r)
    BY <2>1, MovedStrikes
  <2>3. NodeStruck(n).path = n.path
    BY <2>1, StruckFields
  <2>4. place(NodeStruck(n)) = place(n)
    BY <2>3
  <2> QED BY <2>2, <2>3, <2>4
<1>2. struck = {NodeStruck(n) : n \in here}
  BY <1>1 DEF Struck
<1>3. ValueAt(Struck(value), q) = {moved(n) : n \in struck}
  BY DEF ValueAt, Moved
<1>4. Struck(ValueAt(value, q)) = {NodeStruck(m) : m \in {moved(n) : n \in here}}
  BY DEF ValueAt, Struck, Moved
<1>5. \A n \in here : NodeStruck(moved(n)) = moved(NodeStruck(n))
  BY <1>1
<1> HIDE DEF moved, struck, here
<1> QED BY <1>2, <1>3, <1>4, <1>5

LEMMA UnderStrikes ==
  ASSUME NEW value, \A n \in value : IsRecord(n), NEW q
  PROVE  Under(q, Struck(value)) = Struck(Under(q, value))
<1> DEFINE moved(n) == Moved(n, q \o n.path)
<1>1. ASSUME NEW n \in value PROVE NodeStruck(moved(n)) = moved(NodeStruck(n))
  <2>1. IsRecord(n)
    OBVIOUS
  <2>2. ASSUME NEW r PROVE NodeStruck(Moved(n, r)) = Moved(NodeStruck(n), r)
    BY <2>1, MovedStrikes
  <2>3. NodeStruck(n).path = n.path
    BY <2>1, StruckFields
  <2> QED BY <2>2, <2>3
<1>2. Under(q, Struck(value)) = {moved(m) : m \in {NodeStruck(n) : n \in value}}
  BY DEF Under, Struck, Moved
<1>3. Struck(Under(q, value)) = {NodeStruck(m) : m \in {moved(n) : n \in value}}
  BY DEF Under, Struck, Moved
<1> HIDE DEF moved
<1> QED BY <1>1, <1>2, <1>3

\* What stands at a path in a value is a value.
LEMMA ValueAtIsValue ==
  ASSUME NEW Key, NEW Pieces, NEW value, IsValue(value, Key, Pieces), NEW q \in Seq(Key)
  PROVE  IsValue(ValueAt(value, q), Key, Pieces)
<1> DEFINE place(n) == SubSeq(n.path, Len(q) + 1, Len(n.path))
           moved(n) == Moved(n, place(n))
           here     == {n \in value : IsPrefix(q, n.path)}
<1>1. ValueAt(value, q) = {moved(n) : n \in here}
  BY DEF ValueAt, Moved
<1>2. ASSUME NEW n \in here
      PROVE  /\ n.path \in Seq(Key) /\ place(n) \in Seq(Key)
             /\ Len(n.path) = Len(q) + Len(place(n))
             /\ \A i \in 1..Len(q) : n.path[i] = q[i]
             /\ \A i \in 1..Len(place(n)) : n.path[Len(q) + i] = place(n)[i]
             /\ IsNode(moved(n), Key, Pieces) /\ moved(n).path = place(n)
  <2>1. /\ n.path \in Seq(Key) /\ n.pieces \in Seq(Pieces)
        /\ n.type # "text" => n.pieces = <<>>
        /\ n = [path |-> n.path, type |-> n.type, pieces |-> n.pieces]
    BY NodeFields DEF IsValue
  <2>2. Len(q) \in Nat /\ Len(n.path) \in Nat /\ Len(q) <= Len(n.path)
        /\ SubSeq(q, 1, Len(q)) = SubSeq(n.path, 1, Len(q))
    BY <2>1 DEF IsPrefix
  <2>3. place(n) \in Seq(Key) /\ Len(place(n)) = Len(n.path) - Len(q)
    BY <2>1, <2>2
  <2>4. \A i \in 1..Len(q) : n.path[i] = q[i]
    <3>1. ASSUME NEW i \in 1..Len(q) PROVE n.path[i] = q[i]
      <4>1. SubSeq(q, 1, Len(q))[i] = q[i] /\ SubSeq(n.path, 1, Len(q))[i] = n.path[i]
        BY <2>1, <2>2
      <4> QED BY <4>1, <2>2
    <3> QED BY <3>1
  <2>5. \A i \in 1..Len(place(n)) : n.path[Len(q) + i] = place(n)[i]
    <3>1. ASSUME NEW i \in 1..Len(place(n)) PROVE place(n)[i] = n.path[Len(q) + i]
      <4>1. i \in 1..(Len(n.path) - Len(q)) /\ (Len(q) + 1) + i - 1 = Len(q) + i
        BY <2>2, <2>3
      <4> QED BY <2>1, <2>2, <4>1
    <3> QED BY <3>1
  <2>6. moved(n) = [path |-> place(n), type |-> n.type, pieces |-> n.pieces]
    <3> HIDE DEF place
    <3> QED BY <2>1, NodeChanges DEF Moved
  <2>7. IsNode(moved(n), Key, Pieces) /\ moved(n).path = place(n)
    <3> DEFINE r == place(n)
    <3>1. r \in Seq(Key) /\ moved(n) = [path |-> r, type |-> n.type, pieces |-> n.pieces]
      BY <2>3, <2>6
    <3> HIDE DEF r, moved
    <3>2. moved(n).path = r
      BY <3>1
    <3>3. IsNode(moved(n), Key, Pieces)
      BY <2>1, <3>1 DEF IsNode
    <3> QED BY <3>2, <3>3 DEF r
  <2> QED BY <2>1, <2>2, <2>3, <2>4, <2>5, <2>7
<1>3. ASSUME NEW m \in here, NEW n \in here, moved(m).path = moved(n).path PROVE m = n
  <2>1. place(m) = place(n)
    BY <1>2, <1>3
  <2> DEFINE r == place(n)
             N == Len(q)
  <2>2. /\ m.path \in Seq(Key) /\ n.path \in Seq(Key) /\ r \in Seq(Key) /\ N \in Nat /\ Len(r) \in Nat
        /\ Len(m.path) = N + Len(r) /\ Len(n.path) = N + Len(r)
        /\ \A i \in 1..N : m.path[i] = q[i] /\ n.path[i] = q[i]
        /\ \A i \in 1..Len(r) : m.path[N + i] = r[i] /\ n.path[N + i] = r[i]
    <3>1. /\ m.path \in Seq(Key) /\ place(m) \in Seq(Key)
          /\ Len(m.path) = Len(q) + Len(place(m))
          /\ \A i \in 1..Len(q) : m.path[i] = q[i]
          /\ \A i \in 1..Len(place(m)) : m.path[Len(q) + i] = place(m)[i]
      BY <1>2
    <3>2. /\ n.path \in Seq(Key) /\ place(n) \in Seq(Key)
          /\ Len(n.path) = Len(q) + Len(place(n))
          /\ \A i \in 1..Len(q) : n.path[i] = q[i]
          /\ \A i \in 1..Len(place(n)) : n.path[Len(q) + i] = place(n)[i]
      BY <1>2
    <3> HIDE DEF place
    <3> QED BY <3>1, <3>2, <2>1
  <2> HIDE DEF r, N
  <2>3. ASSUME NEW j \in 1..Len(m.path) PROVE m.path[j] = n.path[j]
    <3>1. CASE j <= N
      <4>1. j \in 1..N
        BY <2>2, <3>1
      <4> QED BY <4>1, <2>2
    <3>2. CASE ~(j <= N)
      <4>1. j - N \in 1..Len(r) /\ N + (j - N) = j
        BY <2>2, <3>2
      <4>2. m.path[N + (j - N)] = r[j - N] /\ n.path[N + (j - N)] = r[j - N]
        BY <4>1, <2>2
      <4> QED BY <4>1, <4>2
    <3> QED BY <3>1, <3>2
  <2>4. m.path = n.path
    BY <2>2, <2>3, SamePath
  <2> QED BY <2>4 DEF IsValue
<1>4. \A n \in here : IsNode(moved(n), Key, Pieces)
  BY <1>2
<1> HIDE DEF here, moved
<1> QED BY <1>1, <1>3, <1>4 DEF IsValue

LEMMA NodesAreRecords ==
  ASSUME NEW Key, NEW Pieces
  PROVE  /\ \A n : IsNode(n, Key, Pieces) => IsRecord(n)
         /\ \A value : IsValue(value, Key, Pieces) => \A n \in value : IsRecord(n)
BY NodeFields DEF IsRecord, IsValue

LEMMA EmptyTextIs ==
  ASSUME NEW Key, NEW Pieces
  PROVE  IsValue(EmptyText, Key, Pieces) /\ Struck(EmptyText) = EmptyText
<1> DEFINE n == [path |-> <<>>, type |-> "text", pieces |-> <<>>]
<1>1. EmptyText = {n}
  BY DEF EmptyText, Text, Node
<1>2. IsNode(n, Key, Pieces)
  <2>1. <<>> \in Seq(Key) /\ <<>> \in Seq(Pieces)
    OBVIOUS
  <2> QED BY <2>1 DEF IsNode
<1>3. NodeStruck(n) = n
  BY DEF NodeStruck
<1> HIDE DEF n
<1> QED BY <1>1, <1>2, <1>3 DEF IsValue, Struck

\* The results of steps and the parameters.
AreValues(values, Key, Pieces) == \A name \in DOMAIN values : IsValue(values[name], Key, Pieces)

\* Only nothing is struck to nothing.
LEMMA NothingStruck == \A value : Struck(value) = {} <=> value = {}
BY DEF Struck

LEMMA LookupStrikes ==
  ASSUME NEW Key, NEW Pieces, \A p \in Pieces : IsPiece(p, Key),
         NEW params, AreValues(params, Key, Pieces),
         NEW results, AreValues(results, Key, Pieces),
         NEW path \in Seq(Key), path # <<>>
  PROVE  /\ IsValue(Lookup(path, params, results), Key, Pieces)
         /\ Lookup(path, AllStruck(params), AllStruck(results)) = Struck(Lookup(path, params, results))
<1> DEFINE root == Head(path)
           rest == Tail(path)
           found == IF root \in DOMAIN results THEN ValueAt(results[root], rest)
                    ELSE IF root \in DOMAIN params THEN ValueAt(params[root], rest)
                    ELSE {}
           struck == IF root \in DOMAIN AllStruck(results) THEN ValueAt(AllStruck(results)[root], rest)
                     ELSE IF root \in DOMAIN AllStruck(params) THEN ValueAt(AllStruck(params)[root], rest)
                     ELSE {}
<1>1. /\ Lookup(path, params, results) = IF found = {} THEN EmptyText ELSE found
      /\ Lookup(path, AllStruck(params), AllStruck(results)) = IF struck = {} THEN EmptyText ELSE struck
  BY DEF Lookup
<1>2. rest \in Seq(Key)
  OBVIOUS
<1>3. \A v : /\ DOMAIN AllStruck(v) = DOMAIN v
             /\ \A name \in DOMAIN v : AllStruck(v)[name] = Struck(v[name])
  BY DEF AllStruck
<1> HIDE DEF root, rest
<1>4. IsValue(found, Key, Pieces) /\ struck = Struck(found)
  <2>1. CASE root \in DOMAIN results
    <3>1. IsValue(results[root], Key, Pieces)
      BY <2>1 DEF AreValues
    <3>2. /\ IsValue(ValueAt(results[root], rest), Key, Pieces)
          /\ ValueAt(Struck(results[root]), rest) = Struck(ValueAt(results[root], rest))
      BY <1>2, <3>1, ValueAtIsValue, ValueAtStrikes, NodesAreRecords
    <3> QED BY <1>3, <2>1, <3>2
  <2>2. CASE root \notin DOMAIN results /\ root \in DOMAIN params
    <3>1. IsValue(params[root], Key, Pieces)
      BY <2>2 DEF AreValues
    <3>2. /\ IsValue(ValueAt(params[root], rest), Key, Pieces)
          /\ ValueAt(Struck(params[root]), rest) = Struck(ValueAt(params[root], rest))
      BY <1>2, <3>1, ValueAtIsValue, ValueAtStrikes, NodesAreRecords
    <3> QED BY <1>3, <2>2, <3>2
  <2>3. CASE root \notin DOMAIN results /\ root \notin DOMAIN params
    <3>1. found = {} /\ struck = {}
      BY <1>3, <2>3
    <3> QED BY <3>1 DEF IsValue, Struck
  <2> QED BY <2>1, <2>2, <2>3
<1>5. struck = {} <=> found = {}
  BY <1>4, NothingStruck
<1> HIDE DEF found, struck
<1> QED BY <1>1, <1>4, <1>5, EmptyTextIs

\* The root of a value, of which there is one.
LEMMA RootIs ==
  ASSUME NEW Key, NEW Pieces, NEW value, IsValue(value, Key, Pieces),
         NEW n \in value, n.path = <<>>
  PROVE  Root(value) = n
<1>1. Root(value) \in value /\ Root(value).path = <<>>
  BY DEF Root
<1> QED BY <1>1 DEF IsValue

\* What a value shows, struck, is what the struck value shows.
LEMMA ShownStrikes ==
  ASSUME NEW Key, NEW Pieces, \A p \in Pieces : IsPiece(p, Key),
         NEW value, IsValue(value, Key, Pieces)
  PROVE  /\ Shown(value) \in Seq(Pieces \cup {Plain(value)})
         /\ StruckPieces(Shown(value)) = Shown(Struck(value))
<1>0. \A n \in value : IsNode(n, Key, Pieces)
  BY DEF IsValue
<1>1. CASE Is(value, "text")
  <2>1. PICK n \in value : n.path = <<>> /\ n.type = "text"
    BY <1>1 DEF Is
  <2>2. IsNode(n, Key, Pieces) /\ NodeStruck(n) \in Struck(value)
    BY <2>1, <1>0 DEF Struck
  <2>3. /\ NodeStruck(n).path = <<>> /\ NodeStruck(n).type = "text"
        /\ NodeStruck(n).pieces = StruckPieces(n.pieces)
    BY <2>1, <2>2, StruckFields, NodesAreRecords
  <2>4. Is(Struck(value), "text")
    BY <2>2, <2>3 DEF Is
  <2>5. Root(value) = n
    BY <2>1, RootIs
  <2>6. Root(Struck(value)) = NodeStruck(n)
    <3>1. Root(Struck(value)) \in Struck(value) /\ Root(Struck(value)).path = <<>>
      BY <2>2, <2>3 DEF Root
    <3>2. PICK m \in value : Root(Struck(value)) = NodeStruck(m)
      BY <3>1 DEF Struck
    <3>3. IsNode(m, Key, Pieces)
      BY <1>0
    <3>4. NodeStruck(m).path = m.path
      BY <3>3, StruckFields, NodesAreRecords
    <3>5. m.path = n.path
      BY <2>1, <3>1, <3>2, <3>4
    <3>6. m = n
      BY <3>5 DEF IsValue
    <3> QED BY <3>2, <3>6
  <2>7. Shown(value) = n.pieces /\ Shown(Struck(value)) = StruckPieces(n.pieces)
    BY <1>1, <2>3, <2>4, <2>5, <2>6 DEF Shown
  <2>8. n.pieces \in Seq(Pieces)
    BY <2>2, NodeFields
  <2>9. n.pieces \in Seq(Pieces \cup {Plain(value)})
    BY <2>8
  <2> QED BY <2>7, <2>9
<1>2. CASE ~Is(value, "text")
  <2>1. ~Is(Struck(value), "text")
    <3> SUFFICES ASSUME Is(Struck(value), "text") PROVE FALSE
      OBVIOUS
    <3>1. PICK m \in value : NodeStruck(m).path = <<>> /\ NodeStruck(m).type = "text"
      BY DEF Is, Struck
    <3>2. NodeStruck(m).path = m.path /\ NodeStruck(m).type = m.type
      BY <1>0, StruckFields, NodesAreRecords
    <3> QED BY <1>2, <3>1, <3>2 DEF Is
  <2>2. Shown(value) = <<Plain(value)>> /\ Shown(Struck(value)) = <<Plain(Struck(value))>>
    BY <1>2, <2>1 DEF Shown
  <2>3. PieceStruck(Plain(value)) = Plain(Struck(value))
    BY PlainStrikes
  <2> DEFINE p == Plain(value)
  <2> HIDE DEF p
  <2>4. StruckPieces(<<p>>) = <<PieceStruck(p)>> /\ <<p>> \in Seq(Pieces \cup {p})
    BY DEF StruckPieces
  <2> QED BY <2>2, <2>3, <2>4 DEF p
<1> QED BY <1>1, <1>2

\* Sequences put one behind another, one by one.
Flattens(f, seqs) ==
  f = [i \in 1..Len(seqs) |-> IF i = 1 THEN seqs[i] ELSE f[i - 1] \o seqs[i]]

\* The sequences of a sequence are sequences of pieces.
AllSequences(seqs, N, V) == seqs = [i \in 1..N |-> seqs[i]] /\ \A i \in 1..N : seqs[i] \in Seq(V)

Joins(f, seqs, N) ==
  /\ f[1] = seqs[1]
  /\ \A n \in 2..N : f[n] = f[n - 1] \o seqs[n]
  /\ FlattenSeq(seqs) = f[N]

LEMMA FlattenIs ==
  ASSUME NEW V, NEW N \in Nat, N # 0, NEW seqs, AllSequences(seqs, N, V)
  PROVE  \E f : Joins(f, seqs, N)
<1>1. Len(seqs) = N /\ \A i \in 1..N : seqs[i] \in Seq(V)
  BY DEF AllSequences
<1> DEFINE W == Seq(V)
           G == [n \in 1..N |-> [v \in W |-> v \o seqs[n]]]
<1>2. \A n \in 1..N, v \in W : G[n][v] = v \o seqs[n] /\ G[n][v] \in W
  BY <1>1
<1>3. <<>> \in W /\ \A v \in W : <<>> \o v = v
  OBVIOUS
<1>4. \A n \in 1..N : seqs[n] \in W
  BY <1>1
<1> HIDE DEF W, G
<1>5. PICK f : Builds(f, W, <<>>, N, G)
  <2>1. Stays(G, W, N)
    BY <1>2 DEF Stays
  <2> QED BY <1>3, <2>1, Recursion
<1> DEFINE g == [i \in 1..N |-> f[i]]
<1>6. Flattens(g, seqs)
  <2>1. ASSUME NEW i \in 1..N PROVE f[i] = IF i = 1 THEN seqs[i] ELSE g[i - 1] \o seqs[i]
    <3>1. i \in 0..N /\ i - 1 \in 0..N
      OBVIOUS
    <3>2. f[i - 1] \in W /\ f[i] = G[i][f[i - 1]]
      BY <3>1, <1>5 DEF Builds
    <3>3. f[i] = f[i - 1] \o seqs[i]
      BY <3>2, <1>2
    <3>4. CASE i = 1
      <4>1. f[i - 1] = <<>> /\ seqs[i] \in W
        BY <3>4, <1>4, <1>5 DEF Builds
      <4> QED BY <3>3, <3>4, <4>1, <1>3
    <3>5. CASE i # 1
      <4>1. i - 1 \in 1..N /\ g[i - 1] = f[i - 1]
        BY <3>5
      <4> QED BY <3>3, <3>5, <4>1
    <3> QED BY <3>4, <3>5
  <2>2. g = [i \in 1..N |-> IF i = 1 THEN seqs[i] ELSE g[i - 1] \o seqs[i]]
    BY <2>1
  <2> HIDE DEF g
  <2> QED BY <2>2, <1>1 DEF Flattens
<1> HIDE DEF g
<1> DEFINE h == CHOOSE e : Flattens(e, seqs)
<1>7. Flattens(h, seqs)
  BY <1>6
<1>8. FlattenSeq(seqs) = h[N]
  BY <1>1 DEF FlattenSeq, Flattens
<1> HIDE DEF h
<1>9. h = [i \in 1..N |-> IF i = 1 THEN seqs[i] ELSE h[i - 1] \o seqs[i]]
  BY <1>1, <1>7 DEF Flattens
<1>10. h[1] = seqs[1]
  <2>1. 1 \in 1..N
    OBVIOUS
  <2> QED BY <2>1, <1>9
<1>11. ASSUME NEW n \in 2..N PROVE h[n] = h[n - 1] \o seqs[n]
  <2>1. n \in 1..N /\ n # 1
    OBVIOUS
  <2> QED BY <2>1, <1>9
<1> QED BY <1>8, <1>10, <1>11 DEF Joins

LEMMA StruckIs ==
  ASSUME NEW V, NEW s \in Seq(V)
  PROVE  /\ StruckPieces(s) \in Seq({PieceStruck(v) : v \in V})
         /\ Len(StruckPieces(s)) = Len(s)
         /\ \A i \in 1..Len(s) : StruckPieces(s)[i] = PieceStruck(s[i])
BY DEF StruckPieces

LEMMA StruckBehind ==
  ASSUME NEW V, NEW s \in Seq(V), NEW t \in Seq(V)
  PROVE  StruckPieces(s \o t) = StruckPieces(s) \o StruckPieces(t)
<1> DEFINE W == {PieceStruck(v) : v \in V}
           a == StruckPieces(s)
           b == StruckPieces(t)
           both == StruckPieces(s \o t)
<1>1. /\ a \in Seq(W) /\ Len(a) = Len(s) /\ \A i \in 1..Len(s) : a[i] = PieceStruck(s[i])
      /\ b \in Seq(W) /\ Len(b) = Len(t) /\ \A i \in 1..Len(t) : b[i] = PieceStruck(t[i])
  BY StruckIs
<1>2. /\ s \o t \in Seq(V) /\ Len(s \o t) = Len(s) + Len(t)
      /\ \A i \in 1..Len(s) : (s \o t)[i] = s[i]
      /\ \A i \in 1..Len(t) : (s \o t)[Len(s) + i] = t[i]
  BY Concatenated
<1> DEFINE u == s \o t
<1> HIDE DEF u
<1>3. /\ both \in Seq(W) /\ Len(both) = Len(u) /\ \A i \in 1..Len(u) : both[i] = PieceStruck(u[i])
  <2>1. u \in Seq(V) /\ both = StruckPieces(u)
    BY <1>2 DEF u
  <2> HIDE DEF both
  <2> QED BY <2>1, StruckIs
<1> HIDE DEF a, b, both, W
<1>4. /\ a \o b \in Seq(W) /\ Len(a \o b) = Len(a) + Len(b)
      /\ \A i \in 1..Len(a) : (a \o b)[i] = a[i]
      /\ \A i \in 1..Len(b) : (a \o b)[Len(a) + i] = b[i]
  <2>1. a \in Seq(W) /\ b \in Seq(W)
    BY <1>1
  <2> QED BY <2>1, Concatenated
<1>5. Len(both) = Len(a \o b) /\ Len(s) \in Nat /\ Len(t) \in Nat /\ Len(both) = Len(s) + Len(t)
  BY <1>1, <1>2, <1>3, <1>4 DEF u
<1>6. ASSUME NEW i \in 1..Len(both) PROVE both[i] = (a \o b)[i]
  <2>0. both[i] = PieceStruck(u[i])
    BY <1>2, <1>3, <1>5 DEF u
  <2>1. CASE i <= Len(s)
    <3>1. i \in 1..Len(s)
      BY <2>1, <1>5
    <3>2. u[i] = s[i] /\ (a \o b)[i] = a[i] /\ a[i] = PieceStruck(s[i])
      BY <3>1, <1>1, <1>2, <1>4 DEF u
    <3> QED BY <2>0, <3>2
  <2>2. CASE ~(i <= Len(s))
    <3> DEFINE j == i - Len(s)
    <3>1. j \in 1..Len(t) /\ Len(s) + j = i
      BY <2>2, <1>5
    <3> HIDE DEF j
    <3>2. u[Len(s) + j] = t[j] /\ (a \o b)[Len(s) + j] = b[j] /\ b[j] = PieceStruck(t[j])
      BY <3>1, <1>1, <1>2, <1>4 DEF u
    <3> QED BY <2>0, <3>1, <3>2
  <2> QED BY <2>1, <2>2
<1>7. both = a \o b
  BY <1>3, <1>4, <1>5, <1>6, SamePath
<1> QED BY <1>7 DEF a, b, both

\* To put texts one behind another and to strike the tokens of the whole is to strike those
\* of each.
LEMMA FlattenStrikes ==
  ASSUME NEW V, NEW N \in Nat, N # 0, NEW seqs, AllSequences(seqs, N, V),
         NEW struck, struck = [i \in 1..N |-> StruckPieces(seqs[i])]
  PROVE  StruckPieces(FlattenSeq(seqs)) = FlattenSeq(struck)
<1> DEFINE W == {PieceStruck(v) : v \in V}
<1>0. \A i \in 1..N : seqs[i] \in Seq(V)
  BY DEF AllSequences
<1>1. AllSequences(struck, N, W)
  <2>1. ASSUME NEW i \in 1..N PROVE struck[i] \in Seq(W)
    <3> DEFINE s == seqs[i]
    <3>1. s \in Seq(V) /\ struck[i] = StruckPieces(s)
      BY <1>0
    <3> HIDE DEF s
    <3>2. StruckPieces(s) \in Seq(W)
      BY <3>1 DEF StruckPieces
    <3> QED BY <3>1, <3>2
  <2> HIDE DEF W
  <2> QED BY <2>1 DEF AllSequences
<1>2. PICK f : Joins(f, seqs, N)
  BY FlattenIs
<1> HIDE DEF W
<1>3. PICK g : Joins(g, struck, N)
  BY <1>1, FlattenIs
<1> USE DEF Joins
<1> DEFINE B == {n \in Nat : n + 1 <= N => f[n + 1] \in Seq(V) /\ StruckPieces(f[n + 1]) = g[n + 1]}
<1>4. 0 \in B
  <2>1. 1 \in 1..N
    OBVIOUS
  <2>2. f[1] \in Seq(V) /\ StruckPieces(f[1]) = g[1]
    BY <2>1, <1>0, <1>2, <1>3
  <2> QED BY <2>2
<1>5. ASSUME NEW n \in Nat, n \in B PROVE n + 1 \in B
  <2> DEFINE m == n + 1
             k == m + 1
  <2> SUFFICES ASSUME k <= N PROVE f[k] \in Seq(V) /\ StruckPieces(f[k]) = g[k]
    OBVIOUS
  <2>1. m \in Nat /\ k \in 2..N /\ k \in 1..N /\ k - 1 = m /\ m <= N
    OBVIOUS
  <2>2. f[m] \in Seq(V) /\ StruckPieces(f[m]) = g[m]
    BY <2>1, <1>5
  <2> HIDE DEF m, k
  <2>3. /\ f[k] = f[m] \o seqs[k] /\ g[k] = g[m] \o struck[k]
        /\ seqs[k] \in Seq(V) /\ struck[k] = StruckPieces(seqs[k])
    BY <2>1, <1>0, <1>2, <1>3
  <2>4. f[m] \o seqs[k] \in Seq(V)
    BY <2>2, <2>3, Concatenated
  <2>5. StruckPieces(f[m] \o seqs[k]) = StruckPieces(f[m]) \o StruckPieces(seqs[k])
    BY <2>2, <2>3, StruckBehind
  <2> QED BY <2>2, <2>3, <2>4, <2>5
<1>6. Nat \subseteq B
  <2> HIDE DEF B
  <2> QED BY <1>4, <1>5, Inductive
<1>7. N - 1 \in B /\ (N - 1) + 1 = N
  BY <1>6
<1>8. StruckPieces(f[N]) = g[N]
  BY <1>7
<1> QED BY <1>2, <1>3, <1>8

\* A text of one node at the root.
LEMMA TextStrikes ==
  ASSUME NEW pieces
  PROVE  Struck(Text(pieces)) = Text(StruckPieces(pieces))
<1> DEFINE n == [path |-> <<>>, type |-> "text", pieces |-> pieces]
<1>1. Text(pieces) = {n} /\ Text(StruckPieces(pieces)) = {[path |-> <<>>, type |-> "text", pieces |-> StruckPieces(pieces)]}
  BY DEF Text, Node
<1>2. NodeStruck(n) = [path |-> <<>>, type |-> "text", pieces |-> StruckPieces(pieces)]
  <2>1. n.pieces = pieces
    OBVIOUS
  <2>2. NodeStruck(n) = [n EXCEPT !.pieces = StruckPieces(pieces)]
    BY <2>1 DEF NodeStruck, StruckPieces
  <2> QED BY <2>2, NodeChanges
<1> HIDE DEF n
<1> QED BY <1>1, <1>2 DEF Struck

\* A text that is resolved and then struck is what it is resolved to among struck values.
LEMMA ResolveStringStrikes ==
  ASSUME NEW Key, NEW Pieces, \A p \in Pieces : IsPiece(p, Key),
         NEW params, AreValues(params, Key, Pieces),
         NEW results, AreValues(results, Key, Pieces),
         NEW pieces \in Seq(Pieces)
  PROVE  Struck(ResolveString(pieces, params, results))
           = ResolveString(pieces, AllStruck(params), AllStruck(results))
<1> DEFINE found(p) == Lookup(p.path, params, results)
           SP == AllStruck(params)
           SR == AllStruck(results)
           N  == Len(pieces)
<1>1. N \in Nat /\ DOMAIN pieces = 1..N /\ \A i \in 1..N : pieces[i] \in Pieces
  OBVIOUS
<1>2. ASSUME NEW p \in Pieces, p.token
      PROVE  IsValue(found(p), Key, Pieces) /\ Lookup(p.path, SP, SR) = Struck(found(p))
  <2>1. p.path \in Seq(Key) /\ p.path # <<>>
    BY <1>2, PieceStrikes
  <2> QED BY <2>1, LookupStrikes
<1> HIDE DEF found, SP, SR, N
<1>3. CASE N = 1 /\ pieces[1].token
  <2>1. pieces[1] \in Pieces
    BY <1>1, <1>3
  <2>2. Lookup(pieces[1].path, SP, SR) = Struck(found(pieces[1]))
    BY <1>2, <1>3, <2>1
  <2>3. ResolveString(pieces, params, results) = found(pieces[1])
    BY <1>3 DEF ResolveString, found, N
  <2>4. ResolveString(pieces, SP, SR) = Lookup(pieces[1].path, SP, SR)
    BY <1>3 DEF ResolveString, N
  <2> QED BY <2>2, <2>3, <2>4 DEF SP, SR
<1>4. CASE ~(N = 1 /\ pieces[1].token)
  <2> DEFINE seqs   == [i \in 1..N |-> PutIn(pieces[i], params, results)]
             struck == [i \in 1..N |-> PutIn(pieces[i], SP, SR)]
             V      == Pieces \cup {Plain(found(pieces[i])) : i \in 1..N}
  <2>1. ASSUME NEW i \in 1..N
        PROVE  seqs[i] \in Seq(V) /\ struck[i] = StruckPieces(seqs[i])
    <3> DEFINE p == pieces[i]
               a == PutIn(p, params, results)
               b == PutIn(p, SP, SR)
    <3>1. p \in Pieces /\ seqs[i] = a /\ struck[i] = b /\ Plain(found(p)) \in V
      BY <1>1
    <3> HIDE DEF p, V, seqs, struck
    <3>2. CASE p.token
      <4>1. /\ Shown(found(p)) \in Seq(Pieces \cup {Plain(found(p))})
            /\ StruckPieces(Shown(found(p))) = Shown(Struck(found(p)))
        BY <1>2, <3>1, <3>2, ShownStrikes
      <4>2. a = Shown(found(p)) /\ b = Shown(Struck(found(p)))
        BY <1>2, <3>1, <3>2 DEF PutIn, found
      <4>3. Pieces \cup {Plain(found(p))} \subseteq V
        BY <3>1 DEF V
      <4>4. Shown(found(p)) \in Seq(V)
        BY <4>1, <4>3
      <4> HIDE DEF a, b
      <4> QED BY <3>1, <4>1, <4>2, <4>4
    <3>3. CASE ~p.token
      <4>1. a = <<p>> /\ b = <<p>>
        BY <3>3 DEF PutIn
      <4>2. PieceStruck(p) = p /\ p \in V
        BY <3>1, <3>3, PieceStrikes DEF V
      <4>3. StruckPieces(<<p>>) = <<PieceStruck(p)>> /\ <<p>> \in Seq(V)
        BY <4>2 DEF StruckPieces
      <4> HIDE DEF a, b
      <4> QED BY <3>1, <4>1, <4>2, <4>3
    <3> QED BY <3>2, <3>3
  <2>2. /\ ResolveString(pieces, params, results) = Text(FlattenSeq(seqs))
        /\ ResolveString(pieces, SP, SR) = Text(FlattenSeq(struck))
    BY <1>1, <1>4 DEF ResolveString, N
  <2>3. seqs = [i \in 1..N |-> seqs[i]] /\ struck = [i \in 1..N |-> struck[i]]
    OBVIOUS
  <2> HIDE DEF seqs, struck, V
  <2>4. StruckPieces(FlattenSeq(seqs)) = FlattenSeq(struck)
    <3>1. CASE N = 0
      <4>1. \A i \in 1..N : FALSE
        BY <3>1
      <4>2. seqs = <<>> /\ struck = <<>>
        BY <2>3, <3>1
      <4>3. FlattenSeq(<<>>) = <<>> /\ StruckPieces(<<>>) = <<>>
        BY DEF FlattenSeq, StruckPieces
      <4> QED BY <4>2, <4>3
    <3>2. CASE N # 0
      <4>1. AllSequences(seqs, N, V)
        BY <2>1, <2>3 DEF AllSequences
      <4>2. struck = [i \in 1..N |-> StruckPieces(seqs[i])]
        BY <2>1, <2>3
      <4> QED BY <1>1, <3>2, <4>1, <4>2, FlattenStrikes
    <3> QED BY <3>1, <3>2
  <2> QED BY <2>2, <2>4, TextStrikes DEF SP, SR
<1> QED BY <1>3, <1>4

LEMMA ResolvedRecords ==
  ASSUME NEW Key, NEW Pieces, \A p \in Pieces : IsPiece(p, Key),
         NEW params, AreValues(params, Key, Pieces),
         NEW results, AreValues(results, Key, Pieces),
         NEW pieces \in Seq(Pieces)
  PROVE  \A m \in ResolveString(pieces, params, results) : IsRecord(m)
<1>1. CASE Len(pieces) = 1 /\ pieces[1].token
  <2>1. pieces[1] \in Pieces
    BY <1>1
  <2>2. pieces[1].path \in Seq(Key) /\ pieces[1].path # <<>>
    BY <1>1, <2>1, PieceStrikes
  <2>3. IsValue(Lookup(pieces[1].path, params, results), Key, Pieces)
    BY <2>2, LookupStrikes
  <2> QED BY <1>1, <2>3, NodesAreRecords DEF ResolveString
<1>2. CASE ~(Len(pieces) = 1 /\ pieces[1].token)
  <2> DEFINE s == FlattenSeq([i \in DOMAIN pieces |-> PutIn(pieces[i], params, results)])
  <2>1. ResolveString(pieces, params, results) = Text(s)
    BY <1>2 DEF ResolveString
  <2> HIDE DEF s
  <2> QED BY <2>1 DEF Text, Node, IsRecord
<1> QED BY <1>1, <1>2

LEMMA ResolveNodeStrikes ==
  ASSUME NEW Key, NEW Pieces, \A p \in Pieces : IsPiece(p, Key),
         NEW params, AreValues(params, Key, Pieces),
         NEW results, AreValues(results, Key, Pieces),
         NEW n, IsNode(n, Key, Pieces)
  PROVE  Struck(ResolveNode(n, params, results))
           = ResolveNode(n, AllStruck(params), AllStruck(results))
<1>1. CASE n.type = "text"
  <2> DEFINE text == ResolveString(n.pieces, params, results)
  <2>1. n.pieces \in Seq(Pieces)
    BY NodeFields
  <2>2. Struck(text) = ResolveString(n.pieces, AllStruck(params), AllStruck(results))
    BY <2>1, ResolveStringStrikes
  <2>3. Struck(Under(n.path, text)) = Under(n.path, Struck(text))
    <3>1. \A m \in text : IsRecord(m)
      BY <2>1, ResolvedRecords
    <3> HIDE DEF text
    <3> QED BY <3>1, UnderStrikes
  <2>4. /\ ResolveNode(n, params, results) = Under(n.path, text)
        /\ ResolveNode(n, AllStruck(params), AllStruck(results))
             = Under(n.path, ResolveString(n.pieces, AllStruck(params), AllStruck(results)))
    BY <1>1 DEF ResolveNode
  <2> QED BY <2>2, <2>3, <2>4
<1>2. CASE n.type # "text"
  <2>1. NodeStruck(n) = n
    BY <1>2, NodeStrikes
  <2>2. ResolveNode(n, params, results) = {n} /\ ResolveNode(n, AllStruck(params), AllStruck(results)) = {n}
    BY <1>2 DEF ResolveNode
  <2> QED BY <2>1, <2>2 DEF Struck
<1> QED BY <1>1, <1>2

\* What results and parameters have in braces is data, for any step, any parameters and any
\* results of earlier steps, of any size and depth.
THEOREM ResultsStayData ==
  ASSUME NEW Key, NEW Pieces, \A p \in Pieces : IsPiece(p, Key),
         asked = "steps" => /\ \A n \in given[1] : IsNode(n, Key, Pieces)
                            /\ AreValues(given[2], Key, Pieces)
                            /\ AreValues(given[3], Key, Pieces)
  PROVE  ResultsAreData
<1> SUFFICES ASSUME asked = "steps" PROVE DataIsNotResolved(given[1], given[2], given[3])
  BY DEF ResultsAreData
<1> DEFINE value == given[1]
           SP == AllStruck(given[2])
           SR == AllStruck(given[3])
<1>1. ASSUME NEW n \in value
      PROVE  Struck(ResolveNode(n, given[2], given[3])) = ResolveNode(n, SP, SR)
  BY ResolveNodeStrikes
<1>2. Struck(Resolve(value, given[2], given[3]))
        = UNION {Struck(ResolveNode(n, given[2], given[3])) : n \in value}
  BY DEF Resolve, Struck
<1>3. Resolve(value, SP, SR) = UNION {ResolveNode(n, SP, SR) : n \in value}
  BY DEF Resolve
<1> HIDE DEF value, SP, SR
<1>4. Struck(Resolve(value, given[2], given[3])) = Resolve(value, SP, SR)
  BY <1>1, <1>2, <1>3
<1> QED BY <1>4 DEF DataIsNotResolved, value, SP, SR

(***************************************************************************)
(* Scoring: an average of 0 is a failure.                                  *)
(***************************************************************************)
\* A sum over the scores, one by one.
Adds(total, scores) ==
  total = [n \in 0..Len(scores) |-> IF n = 0 THEN 0 ELSE total[n - 1] + scores[n]]

LEMMA TotalIs ==
  ASSUME NEW scores \in Seq(Int)
  PROVE  \E total : /\ total \in [0..Len(scores) -> Int]
                    /\ total[0] = 0
                    /\ \A n \in 1..Len(scores) : total[n] = total[n - 1] + scores[n]
                    /\ Total(scores) = total[Len(scores)]
<1> DEFINE N == Len(scores)
           G == [n \in 1..N |-> [v \in Int |-> v + scores[n]]]
<1>1. N \in Nat /\ \A n \in 1..N : scores[n] \in Int
  OBVIOUS
<1> HIDE DEF N
<1>2. \A n \in 1..N, v \in Int : G[n][v] = v + scores[n] /\ G[n][v] \in Int
  BY <1>1
<1> HIDE DEF G
<1>3. PICK f : Builds(f, Int, 0, N, G)
  <2>1. 0 \in Int /\ Stays(G, Int, N)
    BY <1>2 DEF Stays
  <2> QED BY <1>1, <2>1, Recursion
<1> USE DEF Builds
<1>4. f = [n \in 0..N |-> IF n = 0 THEN 0 ELSE f[n - 1] + scores[n]]
  <2>1. ASSUME NEW n \in 0..N PROVE f[n] = IF n = 0 THEN 0 ELSE f[n - 1] + scores[n]
    <3>1. CASE n = 0
      BY <3>1, <1>3
    <3>2. CASE n # 0
      <4>1. n \in 1..N /\ n - 1 \in 0..N
        BY <3>2, <1>1
      <4>2. f[n - 1] \in Int /\ f[n] = G[n][f[n - 1]]
        BY <4>1, <1>3
      <4> QED BY <3>2, <4>1, <4>2, <1>2
    <3> QED BY <3>1, <3>2
  <2>2. f = [n \in 0..N |-> f[n]]
    BY <1>3
  <2> QED BY <2>1, <2>2
<1>5. Adds(f, scores)
  BY <1>4 DEF Adds, N
<1> DEFINE total == CHOOSE g : Adds(g, scores)
<1>6. Adds(total, scores)
  BY <1>5
<1>7. Total(scores) = total[N]
  BY DEF Total, Adds, N
<1> HIDE DEF total
<1>8. total[0] = 0 /\ \A n \in 1..N : total[n] = total[n - 1] + scores[n]
  BY <1>1, <1>6 DEF Adds, N
<1>9. \A n \in 0..N : total[n] \in Int
  <2> DEFINE B == {n \in Nat : n <= N => total[n] \in Int}
  <2>1. 0 \in B
    BY <1>8
  <2>2. ASSUME NEW n \in Nat, n \in B PROVE n + 1 \in B
    <3> SUFFICES ASSUME n + 1 <= N PROVE total[n + 1] \in Int
      OBVIOUS
    <3>1. n + 1 \in 1..N /\ (n + 1) - 1 = n /\ total[n] \in Int
      BY <1>1, <2>2
    <3>2. total[n + 1] = total[n] + scores[n + 1]
      BY <3>1, <1>8
    <3> QED BY <3>1, <3>2, <1>1
  <2>3. Nat \subseteq B
    <3> HIDE DEF B
    <3> QED BY <2>1, <2>2, Inductive
  <2> QED BY <2>3, <1>1
<1>10. total \in [0..N -> Int]
  <2>1. total = [n \in 0..N |-> total[n]]
    BY <1>6 DEF Adds, N
  <2> QED BY <2>1, <1>9
<1> QED BY <1>7, <1>8, <1>10 DEF N

\* An evaluator's answer carries a number.
IsAnswer(a) == a.score \in Int

LEMMA ObjectScore ==
  ASSUME NEW a, IsAnswer(a)
  PROVE  ParseEvalResponse(a).score \in 1..10
<1>1. a.score \in Int
  BY DEF IsAnswer
<1>2. Clamp(1, 10, a.score) \in 1..10
  BY <1>1 DEF Clamp
<1> QED BY <1>2 DEF ParseEvalResponse

LEMMA ModelScore ==
  ASSUME NEW a, IsAnswer(a)
  PROVE  /\ RunEvaluation(a).score \in 0..10
         /\ RunEvaluation(a).score = 0 <=> a.kind # "object"
<1>1. ParseEvalResponse(a).score \in 1..10
  BY ObjectScore
<1> QED BY <1>1 DEF RunEvaluation, FailedResult

\* One more score, ten more points.
LEMMA TenEach ==
  ASSUME NEW sum \in Nat, NEW count \in Nat, NEW score \in 0..10, sum <= 10 * count
  PROVE  /\ sum + score \in Nat /\ count + 1 \in Nat
         /\ sum + score <= 10 * (count + 1)
         /\ (sum + score = 0) <=> (sum = 0 /\ score = 0)
OBVIOUS

\* The scores of code evaluators come to at most ten for each that answered, and to 0 only
\* if none did.
LEMMA CodeScores ==
  ASSUME NEW S, NEW code \in Seq(S), \A i \in DOMAIN code : IsAnswer(code[i]),
         RunCodeEvaluations(code) # Error
  PROVE  LET coded == RunCodeEvaluations(code)
         IN /\ coded.sum \in Nat /\ coded.count \in Nat
            /\ coded.sum <= 10 * coded.count
            /\ (coded.sum = 0) <=> ~ \E i \in DOMAIN code : code[i].kind = "object"
<1> DEFINE given_by == {i \in DOMAIN code : code[i].kind # "none"}
           score(i) == IF i \in given_by THEN ParseEvalResponse(code[i]).score ELSE 0
           scores   == [i \in DOMAIN code |-> score(i)]
           N        == Len(code)
<1>1. \A i \in given_by : code[i].kind = "object"
  BY DEF RunCodeEvaluations
<1>2. /\ RunCodeEvaluations(code).sum = Total(scores)
      /\ RunCodeEvaluations(code).count = Cardinality(given_by)
  BY <1>1 DEF RunCodeEvaluations
<1>3. N \in Nat /\ DOMAIN code = 1..N /\ given_by \subseteq 1..N
  OBVIOUS
<1>4. \A i \in 1..N : (i \in given_by) <=> (code[i].kind = "object")
  BY <1>1, <1>3
<1>5. \A i \in 1..N : /\ i \in given_by => scores[i] \in 1..10
                      /\ i \notin given_by => scores[i] = 0
  <2> SUFFICES ASSUME NEW i \in 1..N
               PROVE  /\ i \in given_by => scores[i] \in 1..10
                      /\ i \notin given_by => scores[i] = 0
    OBVIOUS
  <2>1. ParseEvalResponse(code[i]).score \in 1..10
    BY <1>3, ObjectScore
  <2>2. scores[i] = score(i)
    BY <1>3
  <2> QED BY <2>1, <2>2
<1>6. scores \in Seq(Int) /\ Len(scores) = N
  <2>1. \A i \in 1..N : score(i) \in Int
    <3> HIDE DEF given_by, N
    <3> QED BY <1>3, <1>5
  <2> HIDE DEF score
  <2>2. scores = [i \in 1..N |-> score(i)] /\ N \in Nat
    BY <1>3
  <2> HIDE DEF N
  <2> QED BY <2>1, <2>2
<1> HIDE DEF given_by, scores, N
<1>7. PICK total : /\ total \in [0..N -> Int]
                   /\ total[0] = 0
                   /\ \A n \in 1..N : total[n] = total[n - 1] + scores[n]
                   /\ Total(scores) = total[N]
  BY <1>6, TotalIs
<1> DEFINE upto(n) == given_by \cap (1..n)
           B == {n \in Nat : n <= N => /\ total[n] \in Nat
                                       /\ IsFiniteSet(upto(n))
                                       /\ total[n] <= 10 * Cardinality(upto(n))
                                       /\ total[n] = 0 <=> upto(n) = {}}
<1>8. 0 \in B
  <2>1. upto(0) = {}
    OBVIOUS
  <2>2. IsFiniteSet(upto(0)) /\ Cardinality(upto(0)) = 0
    BY <2>1, FS_EmptySet
  <2> QED BY <1>7, <2>1, <2>2
<1>9. ASSUME NEW n \in Nat, n \in B PROVE n + 1 \in B
  <2> SUFFICES ASSUME n + 1 <= N
               PROVE  /\ total[n + 1] \in Nat
                      /\ IsFiniteSet(upto(n + 1))
                      /\ total[n + 1] <= 10 * Cardinality(upto(n + 1))
                      /\ total[n + 1] = 0 <=> upto(n + 1) = {}
    OBVIOUS
  <2>1. n + 1 \in 1..N /\ (n + 1) - 1 = n /\ n + 1 \notin upto(n)
    BY <1>3
  <2>2. total[n + 1] = total[n] + scores[n + 1]
    BY <2>1, <1>7
  <2>3. /\ total[n] \in Nat /\ IsFiniteSet(upto(n)) /\ total[n] <= 10 * Cardinality(upto(n))
        /\ total[n] = 0 <=> upto(n) = {}
    BY <1>9, <1>3
  <2>4. Cardinality(upto(n)) \in Nat
    BY <2>3, FS_CardinalityType
  <2>5. CASE n + 1 \in given_by
    <3>1. upto(n + 1) = upto(n) \cup {n + 1}
      BY <2>5
    <3>2. scores[n + 1] \in 1..10 /\ upto(n + 1) # {}
      BY <2>1, <2>5, <1>5, <3>1
    <3> HIDE DEF upto, B
    <3>3. /\ IsFiniteSet(upto(n) \cup {n + 1})
          /\ Cardinality(upto(n) \cup {n + 1}) = Cardinality(upto(n)) + 1
      BY <2>1, <2>3, FS_AddElement
    <3>4. IsFiniteSet(upto(n + 1)) /\ Cardinality(upto(n + 1)) = Cardinality(upto(n)) + 1
      BY <3>1, <3>3
    <3>5. scores[n + 1] \in 0..10 /\ scores[n + 1] # 0
      BY <3>2
    <3>6. /\ total[n] + scores[n + 1] \in Nat /\ total[n] + scores[n + 1] # 0
          /\ total[n] + scores[n + 1] <= 10 * (Cardinality(upto(n)) + 1)
      <4> DEFINE sum == total[n]
                 count == Cardinality(upto(n))
                 score_n == scores[n + 1]
      <4>1. sum \in Nat /\ count \in Nat /\ sum <= 10 * count /\ score_n \in 0..10 /\ score_n # 0
        BY <2>3, <2>4, <3>5
      <4> HIDE DEF sum, count, score_n
      <4>2. sum + score_n \in Nat /\ sum + score_n # 0 /\ sum + score_n <= 10 * (count + 1)
        BY <4>1, TenEach
      <4> QED BY <4>2 DEF sum, count, score_n
    <3> QED BY <2>2, <3>2, <3>4, <3>6
  <2>6. CASE n + 1 \notin given_by
    <3>1. upto(n + 1) = upto(n)
      BY <2>6
    <3>2. scores[n + 1] = 0
      BY <2>1, <2>6, <1>5
    <3> HIDE DEF upto, B
    <3>3. total[n + 1] = total[n]
      BY <2>2, <2>3, <3>2
    <3> QED BY <2>3, <3>1, <3>3
  <2> QED BY <2>5, <2>6
<1>10. N \in B
  <2> HIDE DEF B
  <2> QED BY <1>3, <1>8, <1>9, Inductive
<1>11. upto(N) = given_by
  BY <1>3
<1>12. /\ total[N] \in Nat /\ Cardinality(given_by) \in Nat
       /\ total[N] <= 10 * Cardinality(given_by)
       /\ total[N] = 0 <=> given_by = {}
  <2>1. /\ total[N] \in Nat /\ IsFiniteSet(given_by) /\ total[N] <= 10 * Cardinality(given_by)
        /\ total[N] = 0 <=> given_by = {}
    <3>1. N <= N
      BY <1>3
    <3>2. /\ total[N] \in Nat /\ IsFiniteSet(upto(N)) /\ total[N] <= 10 * Cardinality(upto(N))
          /\ total[N] = 0 <=> upto(N) = {}
      BY <3>1, <1>10
    <3> HIDE DEF upto, B
    <3> QED BY <3>2, <1>11
  <2> QED BY <2>1, FS_CardinalityType
<1>13. given_by = {} <=> ~ \E i \in DOMAIN code : code[i].kind = "object"
  BY <1>3, <1>4
<1> HIDE DEF upto, B
<1> QED BY <1>2, <1>7, <1>12, <1>13

LEMMA ScoresOfCases ==
  ASSUME NEW S, NEW result, NEW field, NEW llm, NEW code \in Seq(S),
         IsAnswer(llm), \A i \in DOMAIN code : IsAnswer(code[i])
  PROVE  ZeroMeansFailure(result, field, llm, code)
<1> DEFINE case == EvaluateCase(result, field, llm, code)
           coded == RunCodeEvaluations(code)
<1> SUFFICES ASSUME case # Error
             PROVE  /\ (case.sum = 0) <=> (llm.kind # "object" /\ ~ \E i \in DOMAIN code : code[i].kind = "object")
                    /\ 10 * case.count >= case.sum
  BY DEF ZeroMeansFailure
<1>1. coded # Error /\ case.sum = RunEvaluation(llm).score + coded.sum /\ case.count = 1 + coded.count
  BY DEF EvaluateCase
<1> DEFINE scored == \E i \in DOMAIN code : code[i].kind = "object"
<1>2. /\ coded.sum \in Nat /\ coded.count \in Nat
      /\ coded.sum <= 10 * coded.count
      /\ (coded.sum = 0) <=> ~scored
  BY <1>1, CodeScores
<1>3. RunEvaluation(llm).score \in 0..10 /\ (RunEvaluation(llm).score = 0 <=> llm.kind # "object")
  BY ModelScore
<1> HIDE DEF case, coded, scored
<1>4. /\ case.sum = 0 <=> (RunEvaluation(llm).score = 0 /\ coded.sum = 0)
      /\ 10 * case.count >= case.sum
  <2> DEFINE sum == coded.sum + RunEvaluation(llm).score
             count == coded.count + 1
  <2>1. /\ sum \in Nat /\ count \in Nat /\ sum <= 10 * count
        /\ (sum = 0) <=> (coded.sum = 0 /\ RunEvaluation(llm).score = 0)
    BY <1>2, <1>3, TenEach
  <2>2. sum = case.sum /\ count = case.count
    BY <1>1, <1>2, <1>3
  <2> HIDE DEF sum, count
  <2>3. 10 * count >= sum
    BY <2>1
  <2> QED BY <2>1, <2>2, <2>3
<1> QED BY <1>2, <1>3, <1>4 DEF scored

(***************************************************************************)
(* PromptEvaluation: the summary of a file.                                *)
(***************************************************************************)
\* A scene of a file, as the parsers make it.
IsScene(scene) == scene.output \in {"object", "array", "prose", "raises"}

LEMMA RowIs ==
  ASSUME NEW judge, NEW format, Row(judge, format) # Error
  PROVE  /\ judge # Error /\ format # Error
         /\ Row(judge, format).judge = judge /\ Row(judge, format).format = format
         /\ Row(judge, format).sum = judge + format
BY DEF Row

\* A summary has all rows, and none of them is an exception.
LEMMA SummaryIs ==
  ASSUME NEW N \in Nat, NEW rows, rows = [i \in 1..N |-> rows[i]], Summary(rows) # Error
  PROVE  /\ Summary(rows).rows = rows /\ Len(rows) = N
         /\ \A i \in 1..N : rows[i] # Error
         /\ Summary(rows).sum = Total([i \in 1..N |-> rows[i].sum])
<1>1. Error \notin Range(rows)
  BY DEF Summary
<1>2. Summary(rows).rows = rows /\ Summary(rows).sum = Total([i \in DOMAIN rows |-> rows[i].sum])
  BY <1>1 DEF Summary
<1>3. DOMAIN rows = 1..N
  OBVIOUS
<1>4. \A i \in 1..N : rows[i] # Error
  BY <1>1, <1>3 DEF Range
<1>5. Len(rows) = N
  BY <1>3
<1> QED BY <1>2, <1>3, <1>4, <1>5

LEMMA JudgedAsWritten ==
  ASSUME NEW judge, JudgeScore(judge) # Error
  PROVE  JudgeScore(judge) = judge.score
BY DEF JudgeScore

LEMMA FormatAsWanted ==
  ASSUME NEW scene, IsScene(scene), scene.output # "raises",
         FormatScore(scene.format, scene.output) # Error
  PROVE  FormatScore(scene.format, scene.output) = IF scene.output \in Wanted(scene) THEN 10 ELSE 0
BY DEF IsScene, FormatScore, Wanted, Accepted, JsonOutput, JsonObjectOutput

LEMMA JsonFile ==
  ASSUME NEW S, NEW file, file.scenes \in Seq(S), \A i \in DOMAIN file.scenes : IsScene(file.scenes[i])
  PROVE  JsonIsAveraged(file)
<1> DEFINE scenes == file.scenes
           R == [i \in DOMAIN scenes |-> EvaluateScene(scenes[i])]
           summary == EvaluateJson(file)
<1> SUFFICES ASSUME summary # Error
             PROVE  /\ Len(summary.rows) = Len(scenes)
                    /\ \A i \in DOMAIN scenes :
                         /\ scenes[i].output # "raises"
                         /\ summary.rows[i].judge = scenes[i].judge.score
                         /\ summary.rows[i].format = IF scenes[i].output \in Wanted(scenes[i]) THEN 10 ELSE 0
                    /\ summary.sum = Total([i \in DOMAIN scenes |-> summary.rows[i].judge + summary.rows[i].format])
  BY DEF JsonIsAveraged, NothingAveragedAway
<1> DEFINE N == Len(scenes)
<1>1. N \in Nat /\ DOMAIN scenes = 1..N
  OBVIOUS
<1>2. summary = Summary(R)
  BY DEF EvaluateJson
<1>3. R = [i \in 1..N |-> R[i]]
  BY <1>1
<1> HIDE DEF summary, R, scenes, N
<1>4. /\ summary.rows = R /\ Len(R) = N
      /\ \A i \in 1..N : R[i] # Error
      /\ summary.sum = Total([i \in 1..N |-> R[i].sum])
  BY <1>1, <1>2, <1>3, SummaryIs
<1>5. ASSUME NEW i \in DOMAIN scenes
      PROVE  /\ scenes[i].output # "raises"
             /\ summary.rows[i].judge = scenes[i].judge.score
             /\ summary.rows[i].format = IF scenes[i].output \in Wanted(scenes[i]) THEN 10 ELSE 0
             /\ R[i].sum = summary.rows[i].judge + summary.rows[i].format
  <2> DEFINE scene == scenes[i]
             judge == JudgeScore(scene.judge)
             format == FormatScore(scene.format, scene.output)
  <2>1. R[i] = EvaluateScene(scene) /\ IsScene(scene)
    BY DEF R, scenes
  <2>2. R[i] # Error /\ summary.rows[i] = R[i]
    BY <1>1, <1>4
  <2>3. scene.output # "raises" /\ R[i] = Row(judge, format)
    BY <2>1, <2>2 DEF EvaluateScene
  <2> HIDE DEF judge, format, scene
  <2>4. /\ judge # Error /\ format # Error
        /\ R[i].judge = judge /\ R[i].format = format /\ R[i].sum = judge + format
    BY <2>2, <2>3, RowIs
  <2>5. judge = scene.judge.score
    BY <2>4, JudgedAsWritten DEF judge
  <2>6. format = IF scene.output \in Wanted(scene) THEN 10 ELSE 0
    BY <2>1, <2>3, <2>4, FormatAsWanted DEF format
  <2> QED BY <2>2, <2>3, <2>4, <2>5, <2>6 DEF scene
<1>6. [i \in 1..N |-> R[i].sum]
        = [i \in DOMAIN scenes |-> summary.rows[i].judge + summary.rows[i].format]
  BY <1>1, <1>5
<1> QED BY <1>4, <1>5, <1>6 DEF N

\* The scenes with a prompt, one by one.
Asks(taken, scenes) ==
  taken = [n \in 0..Len(scenes) |->
             IF n = 0 THEN <<>>
             ELSE IF scenes[n].has_input THEN Append(taken[n - 1], scenes[n])
             ELSE taken[n - 1]]

LEMMA XmlScenesAre ==
  ASSUME NEW S, NEW file, file.scenes \in Seq(S)
  PROVE  XmlScenes(file) \in Seq(S)
<1> DEFINE scenes == file.scenes
           N == Len(scenes)
           V == Seq(S)
           G == [n \in 1..N |-> [v \in V |-> IF scenes[n].has_input THEN Append(v, scenes[n]) ELSE v]]
<1>1. N \in Nat /\ (\A n \in 1..N : scenes[n] \in S) /\ <<>> \in V
  OBVIOUS
<1>2. \A n \in 1..N, v \in V : /\ G[n][v] = IF scenes[n].has_input THEN Append(v, scenes[n]) ELSE v
                               /\ G[n][v] \in V
  <2> HIDE DEF N
  <2> QED BY <1>1
<1> HIDE DEF N, scenes, G, V
<1>3. PICK f : Builds(f, V, <<>>, N, G)
  <2>1. Stays(G, V, N)
    BY <1>2 DEF Stays
  <2> QED BY <1>1, <2>1, Recursion
<1>4. Asks(f, scenes)
  <2>1. ASSUME NEW n \in 0..N
        PROVE  f[n] = IF n = 0 THEN <<>>
                      ELSE IF scenes[n].has_input THEN Append(f[n - 1], scenes[n])
                      ELSE f[n - 1]
    <3>1. CASE n = 0
      BY <3>1, <1>3 DEF Builds
    <3>2. CASE n # 0
      <4>1. n \in 1..N /\ n - 1 \in 0..N
        BY <3>2, <1>1
      <4>2. f[n - 1] \in V /\ f[n] = G[n][f[n - 1]]
        BY <4>1, <1>3 DEF Builds
      <4> QED BY <3>2, <4>1, <4>2, <1>2
    <3> QED BY <3>1, <3>2
  <2>2. f = [n \in 0..N |-> f[n]]
    BY <1>3 DEF Builds
  <2> QED BY <2>1, <2>2 DEF Asks, N
<1> DEFINE g == CHOOSE h : Asks(h, scenes)
<1>5. Asks(g, scenes)
  BY <1>4
<1>6. XmlScenes(file) = g[N]
  BY DEF XmlScenes, Asks, N, scenes
<1> HIDE DEF g
<1>7. g = [n \in 0..N |-> IF n = 0 THEN <<>>
                            ELSE IF scenes[n].has_input THEN Append(g[n - 1], scenes[n])
                            ELSE g[n - 1]]
  BY <1>5 DEF Asks, N
<1> DEFINE B == {n \in Nat : n <= N => g[n] \in Seq(S)}
<1>8. 0 \in B
  <2>1. 0 \in 0..N
    BY <1>1
  <2> QED BY <2>1, <1>7
<1>9. ASSUME NEW n \in Nat, n \in B PROVE n + 1 \in B
  <2> SUFFICES ASSUME n + 1 <= N PROVE g[n + 1] \in Seq(S)
    OBVIOUS
  <2>1. n + 1 \in 1..N /\ (n + 1) - 1 = n /\ g[n] \in Seq(S)
    BY <1>1, <1>9
  <2>2. g[n + 1] = IF scenes[n + 1].has_input THEN Append(g[n], scenes[n + 1]) ELSE g[n]
    <3>1. n + 1 \in 0..N /\ n + 1 # 0
      BY <2>1
    <3> QED BY <2>1, <3>1, <1>7
  <2> QED BY <2>1, <2>2, <1>1
<1>10. Nat \subseteq B
  <2> HIDE DEF B
  <2> QED BY <1>8, <1>9, Inductive
<1> QED BY <1>1, <1>6, <1>10

LEMMA XmlFile ==
  ASSUME NEW S, NEW host, NEW file, file.scenes \in Seq(S), \A scene \in S : IsScene(scene)
  PROVE  XmlIsAveraged(host, file)
<1> DEFINE scenes == XmlScenes(file)
           R == [i \in DOMAIN scenes |-> EvaluatePrompt(host, scenes[i])]
           summary == EvaluateXml(host, file)
<1>0. scenes \in Seq(S)
  BY XmlScenesAre
<1> SUFFICES ASSUME summary # Error
             PROVE  /\ Len(summary.rows) = Len(scenes)
                    /\ \A i \in DOMAIN scenes :
                         /\ scenes[i].output # "raises"
                         /\ summary.rows[i].judge = scenes[i].judge.score
                         /\ summary.rows[i].format = IF scenes[i].output \in {"object"} THEN 10 ELSE 0
                    /\ summary.sum = Total([i \in DOMAIN scenes |-> summary.rows[i].judge + summary.rows[i].format])
  BY DEF XmlIsAveraged, NothingAveragedAway
<1> DEFINE N == Len(scenes)
<1>1. N \in Nat /\ DOMAIN scenes = 1..N
  BY <1>0
<1>2. summary = Summary(R)
  BY DEF EvaluateXml
<1>3. R = [i \in 1..N |-> R[i]]
  BY <1>1
<1> HIDE DEF summary, R, scenes, N
<1>4. /\ summary.rows = R /\ Len(R) = N
      /\ \A i \in 1..N : R[i] # Error
      /\ summary.sum = Total([i \in 1..N |-> R[i].sum])
  BY <1>1, <1>2, <1>3, SummaryIs
<1>5. ASSUME NEW i \in DOMAIN scenes
      PROVE  /\ scenes[i].output # "raises"
             /\ summary.rows[i].judge = scenes[i].judge.score
             /\ summary.rows[i].format = IF scenes[i].output \in {"object"} THEN 10 ELSE 0
             /\ R[i].sum = summary.rows[i].judge + summary.rows[i].format
  <2> DEFINE scene == scenes[i]
             judge == JudgeScore(scene.judge)
             format == SchemaScore(AgentOutput(host, scene))
  <2>1. R[i] = EvaluatePrompt(host, scene) /\ R[i] # Error /\ summary.rows[i] = R[i] /\ IsScene(scene)
    <3>1. R[i] # Error /\ summary.rows[i] = R[i]
      BY <1>1, <1>4
    <3> QED BY <3>1, <1>0 DEF R
  <2>2. AgentOutput(host, scene) # "raises" /\ R[i] = Row(judge, format)
    BY <2>1 DEF EvaluatePrompt
  <2>3. scene.output # "raises" /\ AgentOutput(host, scene) = scene.output
    BY <2>2 DEF AgentOutput
  <2>4. format = IF scene.output \in {"object"} THEN 10 ELSE 0
    BY <2>3 DEF SchemaScore
  <2> HIDE DEF judge, format, scene
  <2>5. /\ judge # Error /\ format # Error
        /\ R[i].judge = judge /\ R[i].format = format /\ R[i].sum = judge + format
    BY <2>1, <2>2, RowIs
  <2>6. judge = scene.judge.score
    BY <2>5, JudgedAsWritten DEF judge
  <2> QED BY <2>1, <2>3, <2>4, <2>5, <2>6 DEF scene
<1>6. [i \in 1..N |-> R[i].sum]
        = [i \in DOMAIN scenes |-> summary.rows[i].judge + summary.rows[i].format]
  BY <1>1, <1>5
<1> QED BY <1>4, <1>5, <1>6 DEF N

\* The lowest and the highest of some places of a sequence.
LEMMA Outermost ==
  ASSUME NEW n \in Nat, NEW P, P \subseteq 1..n, P # {}
  PROVE  /\ Min(P) \in P /\ Max(P) \in P
         /\ \A i \in P : Min(P) <= i /\ i <= Max(P)
<1>1. Max(P) \in P /\ \A i \in P : i <= Max(P)
  <2>1. P \subseteq Nat /\ \A i \in P : i <= n
    OBVIOUS
  <2>2. P # {} /\ n \in Nat
    OBVIOUS
  <2> QED BY <2>1, <2>2, Greatest
<1>2. \E x \in P : \A y \in P : x <= y
  <2>1. P \subseteq Nat
    OBVIOUS
  <2> QED BY <2>1, LeastNatural
<1>3. /\ (CHOOSE x \in P : \A y \in P : x <= y) \in P
      /\ \A y \in P : (CHOOSE x \in P : \A z \in P : x <= z) <= y
  BY <1>2
<1> QED BY <1>1, <1>3 DEF Min

\* What a judge's text is made of.
JudgedLine == {"fence", "object", "word"}

\* A text is cut to one object only if it has one.
LEMMA OneObject ==
  ASSUME NEW text \in Seq(JudgedLine), NormalizeJsonText(text) = <<"object">>
  PROVE  Cardinality({i \in DOMAIN text : text[i] = "object"}) = 1
<1> DEFINE fenced  == text # <<>> /\ Head(text) = "fence"
           inner   == IF fenced THEN Tail(text) ELSE text
           closed  == fenced /\ inner # <<>> /\ Last(inner) = "fence"
           body    == IF closed THEN Front(inner) ELSE inner
           objects == {i \in DOMAIN body : body[i] = "object"}
           shift   == IF fenced THEN 1 ELSE 0
           all     == {i \in DOMAIN text : text[i] = "object"}
<1>1. NormalizeJsonText(text) = IF objects = {} \/ Head(body) = "object" THEN body
                                ELSE SubSeq(body, Min(objects), Max(objects))
  BY DEF NormalizeJsonText
<1>2. /\ inner \in Seq(JudgedLine) /\ Len(inner) = Len(text) - shift /\ shift \in {0, 1}
      /\ \A i \in 1..Len(inner) : inner[i] = text[i + shift]
      /\ shift = 1 => text[1] = "fence"
  <2>1. CASE fenced
    <3>1. text # <<>> /\ text[1] = "fence"
      BY <2>1
    <3>2. inner = Tail(text) /\ shift = 1
      BY <2>1
    <3> QED BY <3>1, <3>2
  <2>2. CASE ~fenced
    <3>1. inner = text /\ shift = 0
      BY <2>2
    <3> QED BY <3>1
  <2> QED BY <2>1, <2>2
<1> HIDE DEF fenced, shift
<1>3. /\ body \in Seq(JudgedLine) /\ Len(body) <= Len(inner)
      /\ \A i \in 1..Len(body) : body[i] = inner[i]
      /\ \A i \in 1..Len(inner) : i > Len(body) => inner[i] = "fence"
  <2> HIDE DEF inner
  <2>1. CASE closed
    <3>1. inner # <<>> /\ inner[Len(inner)] = "fence" /\ body = SubSeq(inner, 1, Len(inner) - 1)
      BY <2>1 DEF Last, Front
    <3> DEFINE N == Len(inner)
    <3>2. N \in Nat /\ N # 0 /\ N - 1 \in Nat
      BY <3>1, <1>2
    <3> HIDE DEF body, closed
    <3>3. body \in Seq(JudgedLine) /\ Len(body) = N - 1 /\ \A i \in 1..(N - 1) : body[i] = inner[i]
      BY <3>1, <3>2, <1>2
    <3>4. \A i \in 1..N : i > N - 1 => i = N
      BY <3>2
    <3> QED BY <3>1, <3>2, <3>3, <3>4
  <2>2. CASE ~closed
    <3>1. body = inner
      BY <2>2
    <3> QED BY <3>1, <1>2
  <2> QED BY <2>1, <2>2
<1> HIDE DEF inner, body, closed
<1>4. all = {i + shift : i \in objects}
  <2>1. ASSUME NEW i \in objects PROVE i + shift \in all
    <3>1. i \in 1..Len(body) /\ body[i] = "object" /\ i \in 1..Len(inner)
      BY <1>2, <1>3
    <3>2. text[i + shift] = "object" /\ i + shift \in 1..Len(text)
      BY <3>1, <1>2, <1>3
    <3> QED BY <3>2
  <2>2. ASSUME NEW j \in all PROVE \E i \in objects : j = i + shift
    <3>1. j \in 1..Len(text) /\ text[j] = "object"
      OBVIOUS
    <3>2. j - shift \in 1..Len(inner) /\ (j - shift) + shift = j
      BY <3>1, <1>2
    <3>3. inner[j - shift] = "object"
      BY <3>1, <3>2, <1>2
    <3>4. j - shift \in 1..Len(body)
      BY <3>2, <3>3, <1>3
    <3>5. j - shift \in objects
      BY <3>3, <3>4, <1>3
    <3> QED BY <3>2, <3>5
  <2> QED BY <2>1, <2>2
<1>5. \E k : objects = {k} /\ k \in Nat
  <2>1. CASE objects = {} \/ Head(body) = "object"
    <3>1. body = <<"object">>
      BY <1>1, <2>1
    <3>2. Len(body) = 1 /\ body[1] = "object"
      BY <3>1
    <3>3. objects = {1}
      BY <3>2, <1>3
    <3> QED BY <3>3
  <2>2. CASE objects # {} /\ Head(body) # "object"
    <3>1. SubSeq(body, Min(objects), Max(objects)) = <<"object">>
      BY <1>1, <2>2
    <3>2. objects \subseteq 1..Len(body) /\ Len(body) \in Nat
      BY <1>3
    <3>3. /\ Min(objects) \in objects /\ Max(objects) \in objects
          /\ \A i \in objects : Min(objects) <= i /\ i <= Max(objects)
      BY <2>2, <3>2, Outermost
    <3> DEFINE low == Min(objects)
               high == Max(objects)
    <3>4. low \in 1..Len(body) /\ high \in 1..Len(body) /\ low <= high
      BY <3>2, <3>3
    <3> HIDE DEF low, high
    <3>5. Len(SubSeq(body, low, high)) = high - low + 1
      BY <3>4, <1>3
    <3>6. SubSeq(body, low, high) = <<"object">>
      BY <3>1 DEF low, high
    <3>7. Len(<<"object">>) = 1
      OBVIOUS
    <3>8. high - low + 1 = 1
      BY <3>5, <3>6, <3>7
    <3>9. low = high
      BY <3>4, <3>8
    <3>10. low \in objects /\ \A i \in objects : low <= i /\ i <= high
      BY <3>3 DEF low, high
    <3> HIDE DEF objects
    <3>11. ASSUME NEW i \in objects PROVE i = low
      <4>1. i \in 1..Len(body) /\ low <= i /\ i <= low
        BY <3>2, <3>9, <3>10
      <4> QED BY <4>1, <3>4
    <3>12. objects = {low}
      BY <3>10, <3>11
    <3> QED BY <3>4, <3>12
  <2> QED BY <2>1, <2>2
<1>6. \E k : all = {k}
  <2>1. PICK k : objects = {k} /\ k \in Nat
    BY <1>5
  <2> HIDE DEF objects, all
  <2>2. all = {k + shift}
    BY <2>1, <1>4
  <2> QED BY <2>2
<1> QED BY <1>6, FS_Singleton

LEMMA Wrapped ==
  ASSUME NEW S, NEW a \in S, NEW t \in Seq(S)
  PROVE  LET w == <<a>> \o t \o <<a>>
         IN /\ w # <<>> /\ Head(w) = a
            /\ Tail(w) # <<>> /\ Last(Tail(w)) = a /\ Front(Tail(w)) = t
<1> DEFINE f == <<a>>
           N == Len(t)
           w == f \o t \o f
           inner == Tail(w)
<1>1. f \in Seq(S) /\ Len(f) = 1 /\ f[1] = a
  OBVIOUS
<1>2. N \in Nat /\ \A i \in 1..N : t[i] \in S
  OBVIOUS
<1> HIDE DEF f
<1>3. /\ w \in Seq(S) /\ Len(w) = N + 2 /\ w[1] = a /\ w[N + 2] = a
      /\ \A i \in 1..N : w[i + 1] = t[i]
  <2>1. /\ f \o t \in Seq(S) /\ Len(f \o t) = N + 1 /\ (f \o t)[1] = a
        /\ \A i \in 1..N : (f \o t)[1 + i] = t[i]
    BY <1>1, <1>2, Concatenated
  <2> DEFINE front == f \o t
  <2> HIDE DEF front
  <2>2. /\ front \o f \in Seq(S) /\ Len(front \o f) = N + 2
        /\ \A i \in 1..(N + 1) : (front \o f)[i] = front[i]
        /\ \A i \in 1..1 : (front \o f)[(N + 1) + i] = f[i]
    BY <1>1, <1>2, <2>1, Concatenated DEF front
  <2>3. ASSUME NEW i \in 1..N PROVE (front \o f)[i + 1] = t[i]
    <3>1. i + 1 \in 1..(N + 1) /\ i + 1 = 1 + i
      BY <1>2
    <3> QED BY <3>1, <2>1, <2>2 DEF front
  <2>4. (front \o f)[1] = a /\ (front \o f)[N + 2] = a
    <3>1. 1 \in 1..(N + 1) /\ (N + 1) + 1 = N + 2
      BY <1>2
    <3> QED BY <3>1, <1>1, <2>1, <2>2 DEF front
  <2> QED BY <2>2, <2>3, <2>4 DEF front
<1> HIDE DEF w
<1>4. /\ inner \in Seq(S) /\ Len(inner) = N + 1 /\ inner[N + 1] = a
      /\ \A i \in 1..N : inner[i] = t[i]
  BY <1>2, <1>3
<1> HIDE DEF inner
<1>5. w # <<>> /\ Head(w) = a /\ inner # <<>>
  BY <1>2, <1>3, <1>4
<1>6. Front(inner) = t
  <2>1. Front(inner) = SubSeq(inner, 1, N)
    BY <1>2, <1>4 DEF Front
  <2>2. Front(inner) \in Seq(S) /\ Len(Front(inner)) = N /\ \A i \in 1..N : Front(inner)[i] = inner[i]
    BY <1>2, <1>4, <2>1
  <2> QED BY <1>4, <2>2
<1>7. Last(inner) = a
  BY <1>4 DEF Last
<1> QED BY <1>5, <1>6, <1>7 DEF w, inner, f

LEMMA JudgeText ==
  ASSUME NEW text \in Seq(JudgedLine)
  PROVE  JudgeIsUnderstood(text)
<1>1. ASSUME text = <<"object">>
      PROVE  JudgeScore([text |-> <<"fence">> \o text \o <<"fence">>, score |-> 7]) = 7
  <2> DEFINE wrapped == <<"fence">> \o text \o <<"fence">>
  <2>1. /\ wrapped # <<>> /\ Head(wrapped) = "fence"
        /\ Tail(wrapped) # <<>> /\ Last(Tail(wrapped)) = "fence" /\ Front(Tail(wrapped)) = text
    <3>1. "fence" \in JudgedLine
      BY DEF JudgedLine
    <3> QED BY <3>1, Wrapped
  <2> HIDE DEF wrapped
  <2>2. Head(text) = "object"
    BY <1>1
  <2>3. NormalizeJsonText(wrapped) = <<"object">>
    BY <1>1, <2>1, <2>2 DEF NormalizeJsonText
  <2>4. 7 # None
    BY NoScoreAssumption
  <2> QED BY <2>3, <2>4 DEF JudgeScore, wrapped
<1>2. ASSUME Cardinality({i \in DOMAIN text : text[i] = "object"}) # 1
      PROVE  JudgeScore([text |-> text, score |-> 7]) = Error
  BY <1>2, OneObject DEF JudgeScore
<1> QED BY <1>1, <1>2 DEF JudgeIsUnderstood

\* No failure is averaged away or passed as a good score: neither by evaluate_case, for any
\* number of code evaluators and any scores, nor by the summary of a file of scenes, for any
\* number of scenes and any scores of judges; and a judge's text is understood if and only
\* if it has one object, of any length.
THEOREM FailuresNeverScore ==
  ASSUME NEW Results, NEW Fields, NEW Given, \A a \in Given : IsAnswer(a),
         NEW Scene, \A scene \in Scene : IsScene(scene),
         NEW Hosts, NEW Files, \A file \in Files : file.scenes \in Seq(Scene),
         asked = "scores" => given \in Results \X Fields \X Given \X Seq(Given),
         asked = "scenes" => given \in Files \X Hosts,
         asked = "judge"  => given \in Seq(JudgedLine)
  PROVE  FailuresAreNotScores
<1>1. ASSUME asked = "scores" PROVE ZeroMeansFailure(given[1], given[2], given[3], given[4])
  <2>1. given[3] \in Given /\ given[4] \in Seq(Given)
    BY <1>1
  <2>2. IsAnswer(given[3]) /\ \A i \in DOMAIN given[4] : IsAnswer(given[4][i])
    BY <2>1
  <2> QED BY <2>1, <2>2, ScoresOfCases
<1>2. ASSUME asked = "scenes" PROVE JsonIsAveraged(given[1]) /\ XmlIsAveraged(given[2], given[1])
  <2>1. given[1] \in Files
    BY <1>2
  <2>2. given[1].scenes \in Seq(Scene)
    BY <2>1
  <2>3. \A i \in DOMAIN given[1].scenes : IsScene(given[1].scenes[i])
    BY <2>2
  <2> QED BY <2>2, <2>3, JsonFile, XmlFile
<1>3. ASSUME asked = "judge" PROVE JudgeIsUnderstood(given)
  BY <1>3, JudgeText
<1> QED BY <1>1, <1>2, <1>3 DEF FailuresAreNotScores
=============================================================================
