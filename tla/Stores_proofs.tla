---------------------------- MODULE Stores_proofs ----------------------------
(***************************************************************************)
(* Proofs about the two stores a host keeps between calls, for any set of  *)
(* callers, conversations and notes: Conversation (a list of messages that *)
(* requests load and save) and MemoryStore (entries that calls put, read and *)
(* update).                                                                *)
(***************************************************************************)
EXTENDS Conversation, MemoryStore, TLAPS

(***************************************************************************)
(* Conversation.                                                           *)
(***************************************************************************)
(***************************************************************************)
(* The inductive invariant.                                                *)
(***************************************************************************)

Busy == {c \in Caller : at[c] # "idle"}

\* Requests under way have numbers of their own, and their transcripts hold only
\* their own rows; a call of complete has written nothing yet.
CallInv ==
  /\ \A c \in Busy :
       /\ request[c].number <= requests
       /\ \A i \in DOMAIN messages[c] :
            /\ messages[c][i].kind = request[c].kind
            /\ messages[c][i].request = request[c].number
       /\ at[c] = "ready" => request[c].calls < MaxIterations
       /\ request[c].kind = "complete" =>
            /\ at[c] # "tools"
            /\ Len(messages[c]) = 1
            /\ messages[c][1].role = "user"
            /\ \A i \in DOMAIN _store :
                 _store[i].kind = "complete" => _store[i].request # request[c].number
  /\ \A c, d \in Busy : request[c].number = request[d].number => c = d

\* The store holds rows of requests that were begun, and nothing once it is deleted.
StoreInv ==
  /\ \A i \in DOMAIN _store : _store[i].request <= requests
  /\ deleted => _store = <<>>

IInv == TypeOK /\ CallInv /\ StoreInv /\ AnswersFollowQuestions /\ StoredOnce

-----------------------------------------------------------------------------
\* Facts about sequences and about the rows that are stored.

\* The elements of a concatenation.
LEMMA ConcatFacts ==
  ASSUME NEW S, NEW s \in Seq(S), NEW t \in Seq(S)
  PROVE  /\ s \o t \in Seq(S)
         /\ Len(s \o t) = Len(s) + Len(t)
         /\ DOMAIN (s \o t) = 1..(Len(s) + Len(t))
         /\ \A i \in 1..Len(s) : (s \o t)[i] = s[i]
         /\ \A i \in 1..Len(t) : (s \o t)[Len(s) + i] = t[i]
OBVIOUS

\* A prefix stays one when the sequence grows.
LEMMA PrefixGrows ==
  ASSUME NEW S, NEW p \in Seq(S), NEW s \in Seq(S), NEW t \in Seq(S), IsPrefix(p, s)
  PROVE  IsPrefix(p, s \o t)
<1>1. Len(p) <= Len(s) /\ SubSeq(p, 1, Len(p)) = SubSeq(s, 1, Len(p))
  BY DEF IsPrefix
<1>2. SubSeq(s \o t, 1, Len(p)) = SubSeq(s, 1, Len(p))
  BY <1>1, ConcatFacts
<1>3. Len(p) <= Len(s \o t)
  BY <1>1, ConcatFacts
<1>. QED  BY <1>1, <1>2, <1>3 DEF IsPrefix

\* A row made for the current request of a caller.
LEMMA NewRowFacts ==
  ASSUME TypeOK, NEW c \in Caller,
         NEW role \in {"user", "assistant", "assistant_calls", "tool"}
  PROVE  /\ NewRow(c, role) \in Row
         /\ NewRow(c, role).kind = request[c].kind
         /\ NewRow(c, role).request = request[c].number
         /\ NewRow(c, role).role = role
BY DEF NewRow, Row, TypeOK

\* What an answer stores: rows of its own request, the answer last.
LEMMA PersistedFacts ==
  ASSUME TypeOK, CallInv, NEW c \in Busy
  PROVE  /\ Persisted(c) \in Seq(Row)
         /\ Len(Persisted(c)) = Len(messages[c]) + 1
         /\ \A i \in DOMAIN Persisted(c) :
              /\ Persisted(c)[i].kind = request[c].kind
              /\ Persisted(c)[i].request = request[c].number
         /\ \A i \in 1..Len(messages[c]) : Persisted(c)[i] = messages[c][i]
         /\ Persisted(c)[Len(messages[c]) + 1].role = "assistant"
<1>1. c \in Caller /\ messages[c] \in Seq(Row)
  BY DEF Busy, TypeOK
<1>2. NewRow(c, "assistant") \in Row /\ <<NewRow(c, "assistant")>> \in Seq(Row)
  BY <1>1, NewRowFacts
<1>3. /\ NewRow(c, "assistant").kind = request[c].kind
      /\ NewRow(c, "assistant").request = request[c].number
      /\ NewRow(c, "assistant").role = "assistant"
  BY <1>1, NewRowFacts
<1>4. \A i \in DOMAIN messages[c] : /\ messages[c][i].kind = request[c].kind
                                    /\ messages[c][i].request = request[c].number
  BY DEF CallInv
<1> DEFINE row == NewRow(c, "assistant")
<1> HIDE DEF row
<1>5. Persisted(c) = messages[c] \o <<row>> /\ row \in Row /\ <<row>> \in Seq(Row)
  BY <1>2 DEF Persisted, row
<1>6. /\ Persisted(c) \in Seq(Row)
      /\ Len(Persisted(c)) = Len(messages[c]) + 1
      /\ \A i \in 1..Len(messages[c]) : Persisted(c)[i] = messages[c][i]
      /\ Persisted(c)[Len(messages[c]) + 1] = row
  BY <1>1, <1>5
<1>7. row.kind = request[c].kind /\ row.request = request[c].number /\ row.role = "assistant"
  BY <1>3 DEF row
<1>8. \A i \in DOMAIN Persisted(c) : i \in 1..Len(messages[c]) \/ i = Len(messages[c]) + 1
  BY <1>1, <1>6
<1>. QED  BY <1>1, <1>4, <1>6, <1>7, <1>8

-----------------------------------------------------------------------------
\* The initial states.

LEMMA InitIInv == Init => IInv
<1> SUFFICES ASSUME Init PROVE IInv
  OBVIOUS
<1>1. TypeOK
  <2>1. /\ MaxRequests \in Nat \ {0} /\ MaxIterations \in Nat \ {0}
        /\ 1 \in 1..MaxRequests /\ 0 \in 0..MaxRequests /\ 0 \in 0..MaxIterations
    BY ConversationAssumption
  <2>2. [kind |-> "complete", number |-> 1, calls |-> 0]
          \in [kind : Kind, number : 1..MaxRequests, calls : 0..MaxIterations]
    BY <2>1 DEF Kind
  <2>3. <<>> \in Seq(Row)
    OBVIOUS
  <2>. QED  BY <2>1, <2>2, <2>3 DEF Init, TypeOK
<1>2. CallInv
  BY DEF Init, CallInv, Busy
<1>3. StoreInv
  BY DEF Init, StoreInv
<1>4. AnswersFollowQuestions /\ StoredOnce
  BY DEF Init, AnswersFollowQuestions, StoredOnce
<1>. QED  BY <1>1, <1>2, <1>3, <1>4 DEF IInv

-----------------------------------------------------------------------------
\* Steps that leave the store alone.

\* A caller that gives up changes nothing but its own place.
LEMMA GiveUp ==
  ASSUME IInv, NEW c \in Caller, at' = [at EXCEPT ![c] = "idle"],
         UNCHANGED <<store, requests, request, messages, prior>>
  PROVE  IInv'
<1> USE DEF IInv, store
<1>1. \A d \in Caller : at'[d] = IF d = c THEN "idle" ELSE at[d]
  BY DEF TypeOK
<1>2. Busy' = Busy \ {c}
  BY <1>1 DEF Busy
<1>3. TypeOK'
  BY DEF TypeOK
<1>4. CallInv'
  BY <1>1, <1>2 DEF CallInv, Busy
<1>5. StoreInv'
  BY DEF StoreInv
<1>6. AnswersFollowQuestions'
  BY <1>1 DEF AnswersFollowQuestions
<1>7. StoredOnce'
  BY DEF StoredOnce
<1>. QED  BY <1>3, <1>4, <1>5, <1>6, <1>7

LEMMA BeginStep ==
  ASSUME IInv, NEW c \in Caller, NEW kind \in Kind, Begin(c, kind)
  PROVE  IInv'
<1> USE DEF IInv, store
<1> DEFINE row == [kind |-> kind, request |-> requests + 1, call |-> 0, role |-> "user"]
<1>1. /\ requests \in Nat /\ requests' = requests + 1 /\ requests' \in 1..MaxRequests
      /\ MaxIterations \in Nat \ {0}
  BY ConversationAssumption DEF Begin, TypeOK
<1>2. row \in Row /\ row.kind = kind /\ row.request = requests + 1 /\ row.role = "user"
  BY <1>1 DEF Row
<1>3. /\ messages' = [messages EXCEPT ![c] = <<row>>]
      /\ request' = [request EXCEPT ![c] = [kind |-> kind, number |-> requests', calls |-> 0]]
      /\ at' = [at EXCEPT ![c] = "ready"]
      /\ UNCHANGED <<_store, deleted, prior>>
  BY <1>1 DEF Begin
<1> HIDE DEF row
<1>4. \A d \in Caller :
        /\ at'[d] = IF d = c THEN "ready" ELSE at[d]
        /\ d # c => request'[d] = request[d] /\ messages'[d] = messages[d]
  BY <1>3 DEF TypeOK
<1>5. /\ request'[c] = [kind |-> kind, number |-> requests + 1, calls |-> 0]
      /\ messages'[c] = <<row>>
  BY <1>1, <1>3 DEF TypeOK
<1>6. Busy' = Busy \cup {c} /\ c \notin Busy
  BY <1>4 DEF Busy, Begin
<1>7. TypeOK'
  <2>1. [kind |-> kind, number |-> requests', calls |-> 0]
          \in [kind : Kind, number : 1..MaxRequests, calls : 0..MaxIterations]
    BY <1>1
  <2>2. <<row>> \in Seq(Row)
    BY <1>2
  <2>. QED  BY <1>1, <1>3, <2>1, <2>2 DEF TypeOK
<1>8. CallInv'
  <2>1. /\ Len(<<row>>) = 1 /\ DOMAIN <<row>> = {1} /\ <<row>>[1] = row
    OBVIOUS
  <2>2. \A i \in DOMAIN _store : _store[i].request # requests + 1
    <3>1. \A i \in DOMAIN _store : _store[i] \in Row /\ _store[i].request <= requests
      BY DEF StoreInv, TypeOK
    <3>. QED  BY <1>1, <3>1 DEF Row
  <2>3. ASSUME NEW d \in Busy
        PROVE  /\ request[d].number <= requests
               /\ request[d].number \in Nat
    BY DEF CallInv, Busy, TypeOK
  <2>4. ASSUME NEW d \in Busy'
        PROVE  /\ request'[d].number <= requests'
               /\ \A i \in DOMAIN messages'[d] :
                    /\ messages'[d][i].kind = request'[d].kind
                    /\ messages'[d][i].request = request'[d].number
               /\ at'[d] = "ready" => request'[d].calls < MaxIterations
               /\ request'[d].kind = "complete" =>
                    /\ at'[d] # "tools"
                    /\ Len(messages'[d]) = 1
                    /\ messages'[d][1].role = "user"
                    /\ \A i \in DOMAIN _store' :
                         _store'[i].kind = "complete" =>
                           _store'[i].request # request'[d].number
    <3>1. CASE d = c
      BY <1>1, <1>2, <1>3, <1>4, <1>5, <2>1, <2>2, <3>1
    <3>2. CASE d # c
      <4>1. d \in Busy /\ d \in Caller
        BY <1>6, <3>2 DEF Busy
      <4>. QED  BY <1>1, <1>3, <1>4, <2>3, <3>2, <4>1 DEF CallInv
    <3>. QED  BY <3>1, <3>2
  <2>5. ASSUME NEW d \in Busy', NEW e \in Busy', request'[d].number = request'[e].number
        PROVE  d = e
    <3>1. \A b \in Busy' : b # c => b \in Busy /\ request'[b] = request[b]
      BY <1>4, <1>6 DEF Busy
    <3>2. \A b \in Busy' : b # c => request'[b].number # request'[c].number
      BY <1>1, <1>5, <2>3, <3>1
    <3>. QED  BY <2>5, <3>1, <3>2 DEF CallInv
  <2>. QED  BY <2>4, <2>5 DEF CallInv
<1>9. StoreInv'
  <2>1. \A i \in DOMAIN _store : _store[i] \in Row /\ _store[i].request <= requests
    BY DEF StoreInv, TypeOK
  <2>2. \A i \in DOMAIN _store : _store[i].request \in Nat
    BY <2>1 DEF Row
  <2>. QED  BY <1>1, <1>3, <2>1, <2>2 DEF StoreInv
<1>10. AnswersFollowQuestions'
  BY <1>3, <1>4 DEF AnswersFollowQuestions
<1>11. StoredOnce'
  BY <1>3 DEF StoredOnce
<1>. QED  BY <1>7, <1>8, <1>9, <1>10, <1>11

LEMMA LoadStep ==
  ASSUME IInv, NEW c \in Caller, Load(c)
  PROVE  IInv'
<1> USE DEF IInv, store
<1>1. /\ at[c] = "ready"
      /\ at' = [at EXCEPT ![c] = IF deleted THEN "idle" ELSE "asked"]
      /\ prior' = [prior EXCEPT ![c] = _store]
      /\ request' = [request EXCEPT ![c].calls = @ + 1]
      /\ UNCHANGED <<_store, deleted, requests, messages>>
  BY DEF Load
<1>2. /\ c \in Busy
      /\ request[c].calls < MaxIterations
      /\ request[c].calls \in Nat
      /\ MaxIterations \in Nat
  BY <1>1, ConversationAssumption DEF CallInv, Busy, TypeOK
<1>3. \A d \in Caller :
        /\ at'[d] = IF d = c THEN (IF deleted THEN "idle" ELSE "asked") ELSE at[d]
        /\ prior'[d] = IF d = c THEN _store ELSE prior[d]
        /\ request'[d].kind = request[d].kind
        /\ request'[d].number = request[d].number
        /\ d # c => request'[d] = request[d]
  BY <1>1 DEF TypeOK
<1>4. Busy' \subseteq Busy /\ \A d \in Busy' : d \in Caller
  BY <1>2, <1>3 DEF Busy
<1>5. TypeOK'
  <2>1. request[c].calls + 1 \in 0..MaxIterations
    BY <1>2
  <2>2. request' \in [Caller -> [kind : Kind, number : 1..MaxRequests,
                                 calls : 0..MaxIterations]]
    BY <1>1, <2>1 DEF TypeOK
  <2>. QED  BY <1>1, <2>2 DEF TypeOK
<1>6. CallInv'
  <2>1. ASSUME NEW d \in Busy'
        PROVE  /\ request'[d].number <= requests'
               /\ \A i \in DOMAIN messages'[d] :
                    /\ messages'[d][i].kind = request'[d].kind
                    /\ messages'[d][i].request = request'[d].number
               /\ at'[d] = "ready" => request'[d].calls < MaxIterations
               /\ request'[d].kind = "complete" =>
                    /\ at'[d] # "tools"
                    /\ Len(messages'[d]) = 1
                    /\ messages'[d][1].role = "user"
                    /\ \A i \in DOMAIN _store' :
                         _store'[i].kind = "complete" =>
                           _store'[i].request # request'[d].number
    BY <1>1, <1>3, <1>4 DEF CallInv
  <2>2. \A d, e \in Busy' : request'[d].number = request'[e].number => d = e
    BY <1>3, <1>4 DEF CallInv
  <2>. QED  BY <2>1, <2>2 DEF CallInv
<1>7. StoreInv'
  BY <1>1 DEF StoreInv
<1>8. AnswersFollowQuestions'
  <2>1. IsPrefix(_store, _store)
    BY DEF IsPrefix, TypeOK
  <2>2. \A d \in Caller : at'[d] = "asked" /\ ~deleted' => IsPrefix(prior'[d], _store')
    BY <1>1, <1>3, <2>1 DEF AnswersFollowQuestions
  <2>. QED  BY <1>1, <2>2 DEF AnswersFollowQuestions
<1>9. StoredOnce'
  BY <1>1 DEF StoredOnce
<1>. QED  BY <1>5, <1>6, <1>7, <1>8, <1>9

LEMMA RunToolsStep ==
  ASSUME IInv, NEW c \in Caller, RunTools(c)
  PROVE  IInv'
<1> USE DEF IInv, store
<1> DEFINE row == NewRow(c, "tool")
<1>1. /\ at[c] = "tools"
      /\ messages' = [messages EXCEPT ![c] = Append(@, row)]
      /\ at' = [at EXCEPT ![c] = IF IterationsLeft(c) THEN "ready" ELSE "idle"]
      /\ UNCHANGED <<_store, deleted, requests, request, prior>>
  BY DEF RunTools
<1>2. /\ row \in Row /\ row.kind = request[c].kind /\ row.request = request[c].number
  BY NewRowFacts
<1> HIDE DEF row
<1>3. c \in Busy /\ request[c].kind # "complete"
  BY <1>1 DEF Busy, CallInv
<1>4. \A d \in Caller :
        /\ at'[d] = IF d = c THEN (IF IterationsLeft(c) THEN "ready" ELSE "idle") ELSE at[d]
        /\ messages'[d] = IF d = c THEN Append(messages[c], row) ELSE messages[d]
  BY <1>1 DEF TypeOK
<1>5. Busy' \subseteq Busy /\ \A d \in Busy' : d \in Caller
  BY <1>3, <1>4 DEF Busy
<1>6. TypeOK'
  BY <1>1, <1>2 DEF TypeOK
<1>7. CallInv'
  <2>1. \A i \in DOMAIN messages'[c] :
           /\ messages'[c][i].kind = request[c].kind
           /\ messages'[c][i].request = request[c].number
    <3>1. messages[c] \in Seq(Row) /\ messages'[c] = Append(messages[c], row)
      BY <1>4 DEF TypeOK
    <3>2. \A i \in DOMAIN messages'[c] :
             \/ i \in DOMAIN messages[c] /\ messages'[c][i] = messages[c][i]
             \/ messages'[c][i] = row
      BY <3>1, <1>2
    <3>. QED  BY <1>2, <1>3, <3>2 DEF CallInv
  <2>2. at'[c] = "ready" => request[c].calls < MaxIterations
    BY <1>4 DEF IterationsLeft
  <2>. QED  BY <1>1, <1>3, <1>4, <1>5, <2>1, <2>2 DEF CallInv
<1>8. StoreInv'
  BY <1>1 DEF StoreInv
<1>9. AnswersFollowQuestions'
  BY <1>1, <1>4 DEF AnswersFollowQuestions
<1>10. StoredOnce'
  BY <1>1 DEF StoredOnce
<1>. QED  BY <1>6, <1>7, <1>8, <1>9, <1>10

-----------------------------------------------------------------------------
\* Steps that write the store.

LEMMA DeleteStep == IInv /\ Delete => IInv'
<1> SUFFICES ASSUME IInv, Delete PROVE IInv'
  OBVIOUS
<1> USE DEF IInv, store, caller
<1>1. deleted' = TRUE /\ _store' = <<>> /\ UNCHANGED <<requests, at, request, messages, prior>>
  BY DEF Delete
<1>2. TypeOK'
  BY <1>1 DEF TypeOK
<1>3. CallInv'
  BY <1>1 DEF CallInv, Busy
<1>4. StoreInv'
  BY <1>1 DEF StoreInv
<1>5. AnswersFollowQuestions' /\ StoredOnce'
  BY <1>1 DEF AnswersFollowQuestions, StoredOnce
<1>. QED  BY <1>2, <1>3, <1>4, <1>5

\* An answer for a conversation that is gone is lost, and its call ends.
LEMMA AnsweredGone ==
  ASSUME IInv, NEW c \in Caller, NEW next, NEW rows, Answered(c, next, rows), deleted
  PROVE  IInv'
<1>1. /\ _store' = _store /\ deleted' = deleted
      /\ at' = [at EXCEPT ![c] = "idle"]
      /\ messages' = [messages EXCEPT ![c] = messages[c]]
      /\ UNCHANGED <<requests, request, prior>>
  BY DEF Answered, AfterAppend
<1>2. messages' = messages
  BY <1>1 DEF IInv, TypeOK
<1>3. UNCHANGED <<store, requests, request, messages, prior>>
  BY <1>1, <1>2 DEF store
<1>. QED  BY <1>1, <1>3, GiveUp

\* An answer is stored with the messages it answers.
LEMMA AnsweredStored ==
  ASSUME IInv, NEW c \in Caller, NEW next \in {"idle", "tools"}, NEW rows \in Seq(Row),
         Answered(c, next, rows), ~deleted,
         next = "tools" => request[c].kind = "loop",
         \A i \in DOMAIN rows : /\ rows[i].kind = request[c].kind
                                /\ rows[i].request = request[c].number
  PROVE  IInv'
<1> USE DEF IInv
<1> DEFINE new == Persisted(c)
<1>1. /\ at[c] = "asked"
      /\ _store' = _store \o new
      /\ deleted' = FALSE
      /\ at' = [at EXCEPT ![c] = next]
      /\ messages' = [messages EXCEPT ![c] = messages[c] \o rows]
      /\ UNCHANGED <<requests, request, prior>>
  BY DEF Answered, AfterAppend, TypeOK
<1>2. c \in Busy
  BY <1>1 DEF Busy
<1>3. /\ new \in Seq(Row)
      /\ Len(new) = Len(messages[c]) + 1
      /\ \A i \in DOMAIN new : new[i].kind = request[c].kind
                               /\ new[i].request = request[c].number
      /\ \A i \in 1..Len(messages[c]) : new[i] = messages[c][i]
      /\ new[Len(messages[c]) + 1].role = "assistant"
  BY <1>2, PersistedFacts
<1> HIDE DEF new
<1>4. \A d \in Caller : /\ at'[d] = IF d = c THEN next ELSE at[d]
                        /\ d # c => messages'[d] = messages[d]
  BY <1>1 DEF TypeOK
<1>5. _store \in Seq(Row) /\ messages[c] \in Seq(Row) /\ messages'[c] = messages[c] \o rows
  BY <1>1 DEF TypeOK
<1>6. /\ _store' \in Seq(Row)
      /\ DOMAIN _store' = 1..(Len(_store) + Len(new))
      /\ \A i \in 1..Len(_store) : _store'[i] = _store[i]
      /\ \A i \in 1..Len(new) : _store'[Len(_store) + i] = new[i]
  <2>1. _store \in Seq(Row) /\ new \in Seq(Row)
    BY <1>3, <1>5
  <2>2. /\ _store \o new \in Seq(Row)
        /\ DOMAIN (_store \o new) = 1..(Len(_store) + Len(new))
        /\ \A i \in 1..Len(_store) : (_store \o new)[i] = _store[i]
        /\ \A i \in 1..Len(new) : (_store \o new)[Len(_store) + i] = new[i]
    BY ONLY <2>1, ConcatFacts
  <2>. QED  BY <1>1, <2>2
<1>7. Len(_store) \in Nat /\ Len(new) \in Nat /\ Len(messages[c]) \in Nat
  BY <1>3, <1>5
<1>8. \A i \in DOMAIN _store' :
        \/ i \in DOMAIN _store
        \/ \E j \in DOMAIN new : i = Len(_store) + j /\ _store'[i] = new[j]
  <2> SUFFICES ASSUME NEW i \in DOMAIN _store', i \notin DOMAIN _store
               PROVE  \E j \in DOMAIN new : i = Len(_store) + j /\ _store'[i] = new[j]
    OBVIOUS
  <2>1. i \in Nat /\ i > Len(_store) /\ i <= Len(_store) + Len(new)
    BY <1>5, <1>6, <1>7
  <2>2. i - Len(_store) \in 1..Len(new) /\ i = Len(_store) + (i - Len(_store))
    BY <2>1, <1>7
  <2>. QED  BY <2>2, <1>3, <1>6
<1>9. \A i \in DOMAIN _store : i \in DOMAIN _store' /\ _store'[i] = _store[i]
  BY <1>5, <1>6, <1>7
<1>10. TypeOK'
  <2>1. messages' \in [Caller -> Seq(Row)]
    BY <1>1, <1>5, ConcatFacts DEF TypeOK
  <2>. QED  BY <1>1, <1>6, <2>1 DEF TypeOK
<1>11. Busy' \subseteq Busy /\ \A d \in Busy' : d \in Caller
  BY <1>2, <1>4 DEF Busy
<1>12. \A i \in DOMAIN messages'[c] : /\ messages'[c][i].kind = request[c].kind
                                     /\ messages'[c][i].request = request[c].number
  <2>1. \A i \in DOMAIN messages'[c] :
          \/ i \in DOMAIN messages[c] /\ messages'[c][i] = messages[c][i]
          \/ \E j \in DOMAIN rows : messages'[c][i] = rows[j]
    BY <1>5
  <2>. QED  BY <1>2, <2>1 DEF CallInv
<1>13. CallInv'
  <2>1. ASSUME NEW d \in Busy'
        PROVE  /\ request'[d].number <= requests'
               /\ \A i \in DOMAIN messages'[d] :
                    /\ messages'[d][i].kind = request'[d].kind
                    /\ messages'[d][i].request = request'[d].number
               /\ at'[d] = "ready" => request'[d].calls < MaxIterations
    BY <1>1, <1>4, <1>11, <1>12 DEF CallInv
  <2>2. ASSUME NEW d \in Busy', request'[d].kind = "complete"
        PROVE  /\ at'[d] # "tools"
               /\ Len(messages'[d]) = 1
               /\ messages'[d][1].role = "user"
               /\ \A i \in DOMAIN _store' :
                    _store'[i].kind = "complete" => _store'[i].request # request'[d].number
    <3>1. d # c
      <4>1. request[c].kind = "complete" => next = "idle"
        OBVIOUS
      <4>. QED  BY <1>1, <1>4, <1>11, <2>2, <4>1 DEF Busy
    <3>2. \A j \in DOMAIN new : new[j].request # request[d].number
      BY <1>2, <1>3, <1>11, <3>1 DEF CallInv
    <3>3. \A i \in DOMAIN _store :
             _store[i].kind = "complete" => _store[i].request # request[d].number
      BY <1>1, <1>11, <2>2 DEF CallInv
    <3>. QED  BY <1>1, <1>4, <1>8, <1>9, <1>11, <2>2, <3>1, <3>2, <3>3 DEF CallInv
  <2>3. \A d, e \in Busy' : request'[d].number = request'[e].number => d = e
    BY <1>1, <1>11 DEF CallInv
  <2>. QED  BY <2>1, <2>2, <2>3 DEF CallInv
<1>14. StoreInv'
  <2>1. request[c].number <= requests
    BY <1>2 DEF CallInv
  <2>2. \A i \in DOMAIN _store' : _store'[i].request <= requests
    BY <1>3, <1>8, <1>9, <2>1 DEF StoreInv
  <2>. QED  BY <1>1, <2>2 DEF StoreInv
<1>15. AnswersFollowQuestions'
  <2>1. ASSUME NEW d \in Caller, at'[d] = "asked"
        PROVE  IsPrefix(prior'[d], _store')
    <3>1. d # c
      BY <1>4, <2>1
    <3>2. IsPrefix(prior[d], _store) /\ prior[d] \in Seq(Row)
      BY <1>4, <2>1, <3>1 DEF AnswersFollowQuestions, TypeOK
    <3>. QED  BY <1>1, <1>3, <1>5, <3>2, PrefixGrows
  <2>2. ASSUME NEW i \in DOMAIN _store',
               _store'[i].kind = "complete", _store'[i].role = "assistant"
        PROVE  /\ i > 1
               /\ _store'[i - 1].role = "user"
               /\ _store'[i - 1].request = _store'[i].request
    <3>1. CASE i \in DOMAIN _store
      <4>1. i > 1 /\ _store[i - 1].role = "user" /\ _store[i - 1].request = _store[i].request
        BY <1>9, <2>2, <3>1 DEF AnswersFollowQuestions
      <4>2. i - 1 \in DOMAIN _store
        BY <1>5, <3>1, <4>1
      <4>. QED  BY <1>9, <3>1, <4>1, <4>2
    <3>2. CASE i \notin DOMAIN _store
      <4>1. PICK j \in DOMAIN new : i = Len(_store) + j /\ _store'[i] = new[j]
        BY <1>8, <3>2
      <4>2. request[c].kind = "complete"
        BY <1>3, <2>2, <4>1
      <4>3. Len(messages[c]) = 1 /\ messages[c][1].role = "user"
        BY <1>2, <4>2 DEF CallInv
      <4>4. new[1] = messages[c][1] /\ Len(new) = 2 /\ j \in {1, 2}
        BY <1>3, <4>1, <4>3
      <4>5. j = 2
        BY <2>2, <4>1, <4>3, <4>4
      <4>6. i - 1 = Len(_store) + 1 /\ i > 1 /\ _store'[i - 1] = new[1]
        BY <1>6, <1>7, <4>1, <4>4, <4>5
      <4>7. new[1].request = new[2].request
        BY <1>3, <4>4
      <4>. QED  BY <4>1, <4>3, <4>4, <4>5, <4>6, <4>7
    <3>. QED  BY <3>1, <3>2
  <2>. QED  BY <2>1, <2>2 DEF AnswersFollowQuestions
<1>16. StoredOnce'
  <2> SUFFICES ASSUME NEW i \in DOMAIN _store', NEW j \in DOMAIN _store',
                      _store'[i].kind = "complete", _store'[i] = _store'[j]
               PROVE  i = j
    BY DEF StoredOnce
  <2>1. ASSUME NEW k \in DOMAIN _store', NEW l \in DOMAIN _store',
               k \in DOMAIN _store, l \notin DOMAIN _store, _store'[k] = _store'[l],
               _store'[k].kind = "complete"
        PROVE  FALSE
    <3>1. PICK m \in DOMAIN new : l = Len(_store) + m /\ _store'[l] = new[m]
      BY <1>8, <2>1
    <3>2. request[c].kind = "complete" /\ _store[k].request = request[c].number
      BY <1>3, <1>9, <2>1, <3>1
    <3>3. \A n \in DOMAIN _store :
             _store[n].kind = "complete" => _store[n].request # request[c].number
      BY <1>2, <3>2 DEF CallInv
    <3>. QED  BY <1>9, <2>1, <3>2, <3>3
  <2>2. CASE i \in DOMAIN _store /\ j \in DOMAIN _store
    BY <1>9, <2>2 DEF StoredOnce
  <2>3. CASE i \notin DOMAIN _store /\ j \notin DOMAIN _store
    <3>1. PICK m \in DOMAIN new : i = Len(_store) + m /\ _store'[i] = new[m]
      BY <1>8, <2>3
    <3>2. PICK n \in DOMAIN new : j = Len(_store) + n /\ _store'[j] = new[n]
      BY <1>8, <2>3
    <3>3. request[c].kind = "complete"
      BY <1>3, <3>1
    <3>4. Len(messages[c]) = 1 /\ messages[c][1].role = "user"
      BY <1>2, <3>3 DEF CallInv
    <3>5. new[1].role = "user" /\ new[2].role = "assistant" /\ m \in {1, 2} /\ n \in {1, 2}
      BY <1>3, <3>1, <3>2, <3>4
    <3>. QED  BY <3>1, <3>2, <3>5
  <2>. QED  BY <2>1, <2>2, <2>3
<1>. QED  BY <1>10, <1>13, <1>14, <1>15, <1>16

LEMMA AnsweredStep ==
  ASSUME IInv, NEW c \in Caller, NEW next \in {"idle", "tools"}, NEW rows \in Seq(Row),
         Answered(c, next, rows),
         next = "tools" => request[c].kind = "loop",
         \A i \in DOMAIN rows : /\ rows[i].kind = request[c].kind
                                /\ rows[i].request = request[c].number
  PROVE  IInv'
<1>1. CASE deleted   BY <1>1, AnsweredGone
<1>2. CASE ~deleted  BY <1>2, AnsweredStored
<1>. QED  BY <1>1, <1>2

-----------------------------------------------------------------------------
\* Every step.

LEMMA StepIInv == IInv /\ [Next]_vars => IInv'
<1> SUFFICES ASSUME IInv, [Next]_vars PROVE IInv'
  OBVIOUS
<1> USE DEF IInv
<1>1. ASSUME NEW c \in Caller, NEW role \in {"assistant", "assistant_calls"}
      PROVE  /\ <<NewRow(c, role)>> \in Seq(Row)
             /\ \A i \in DOMAIN <<NewRow(c, role)>> :
                  /\ <<NewRow(c, role)>>[i].kind = request[c].kind
                  /\ <<NewRow(c, role)>>[i].request = request[c].number
  <2>1. NewRow(c, role) \in Row /\ NewRow(c, role).kind = request[c].kind
        /\ NewRow(c, role).request = request[c].number
    BY NewRowFacts
  <2>. QED  BY <2>1
<1>2. CASE Delete
  BY <1>2, DeleteStep
<1>3. ASSUME NEW c \in Caller, NEW kind \in Kind, Begin(c, kind)
      PROVE  IInv'
  BY <1>3, BeginStep
<1>4. ASSUME NEW c \in Caller, Load(c)
      PROVE  IInv'
  BY <1>4, LoadStep
<1>5. ASSUME NEW c \in Caller, ModelFails(c) \/ ToolFails(c)
      PROVE  IInv'
  BY <1>5, GiveUp DEF ModelFails, ToolFails
<1>6. ASSUME NEW c \in Caller, AnswerComplete(c)
      PROVE  IInv'
  <2>1. <<>> \in Seq(Row) /\ DOMAIN <<>> = {}
    OBVIOUS
  <2>2. Answered(c, "idle", <<>>)
    BY <1>6 DEF AnswerComplete
  <2>. QED  BY <2>1, <2>2, AnsweredStep
<1>7. ASSUME NEW c \in Caller, AnswerFinal(c)
      PROVE  IInv'
  <2>1. Answered(c, "idle", <<NewRow(c, "assistant")>>)
    BY <1>7 DEF AnswerFinal
  <2>. QED  BY <1>1, <2>1, AnsweredStep
<1>8. ASSUME NEW c \in Caller, AnswerToolCalls(c)
      PROVE  IInv'
  <2>1. PICK next \in {"idle", "tools"} :
           Answered(c, next, <<NewRow(c, "assistant_calls")>>)
    BY <1>8 DEF AnswerToolCalls
  <2>2. request[c].kind = "loop"
    BY <1>8 DEF AnswerToolCalls
  <2>. QED  BY <1>1, <2>1, <2>2, AnsweredStep
<1>9. ASSUME NEW c \in Caller, RunTools(c)
      PROVE  IInv'
  BY <1>9, RunToolsStep
<1>10. CASE UNCHANGED vars
  BY <1>10 DEF vars, store, caller, TypeOK, CallInv, Busy, StoreInv,
               AnswersFollowQuestions, StoredOnce
<1>. QED  BY <1>2, <1>3, <1>4, <1>5, <1>6, <1>7, <1>8, <1>9, <1>10 DEF Next

-----------------------------------------------------------------------------
(***************************************************************************)
(* The theorems.                                                           *)
(***************************************************************************)

\* The inductive invariant holds in every reachable state of complete and
\* run_tool_loop, for any callers and bounds.
THEOREM Invariance == Spec => []IInv
<1>. QED  BY InitIInv, StepIInv, PTL DEF Spec

\* Every variable keeps its type; run_tool_loop calls the model at most
\* max_iterations times.
THEOREM TypeCorrect == Spec => []TypeOK
<1>1. IInv => TypeOK  BY DEF IInv
<1>. QED  BY <1>1, Invariance, PTL

\* What a call loaded stays the beginning of the conversation until its answer is
\* stored, and complete's answer directly follows the message it answers.
THEOREM AnswersInOrder == Spec => []AnswersFollowQuestions
<1>1. IInv => AnswersFollowQuestions  BY DEF IInv
<1>. QED  BY <1>1, Invariance, PTL

\* Nothing that complete stores is stored twice.
THEOREM StoredOnceAlways == Spec => []StoredOnce
<1>1. IInv => StoredOnce  BY DEF IInv
<1>. QED  BY <1>1, Invariance, PTL

\* An answer that arrives after delete or cleanup_expired does not bring the
\* conversation back.
THEOREM DeletedForGood == Spec => DeletedStaysDeleted
<1>1. IInv /\ [Next]_vars => [deleted => deleted' /\ _store' = <<>>]_vars
  <2> SUFFICES ASSUME IInv, Next, deleted PROVE deleted' /\ _store' = <<>>
    BY DEF vars, store
  <2> USE DEF store, caller
  <2>1. _store = <<>>
    BY DEF IInv, StoreInv
  <2>2. ASSUME NEW c \in Caller, NEW next, NEW rows, Answered(c, next, rows)
        PROVE  deleted' /\ _store' = <<>>
    BY <2>1, <2>2 DEF Answered, AfterAppend
  <2>. QED  BY <2>1, <2>2 DEF Next, Delete, Begin, Load, ModelFails, AnswerComplete,
                AnswerFinal, AnswerToolCalls, RunTools, ToolFails
<1>. QED  BY <1>1, Invariance, PTL DEF Spec, DeletedStaysDeleted

-----------------------------------------------------------------------------
(***************************************************************************)
(* MemoryStore: parameters arrive unless their place is written meanwhile, *)
(* and updates are lost only to an update that was put back over them.     *)
(***************************************************************************)
\* An entry is never Python's None.
EntriesAreNotNone == \A content, version, metadata : Entry(content, version, metadata) # None

-----------------------------------------------------------------------------
(***************************************************************************)
(* The inductive invariants.                                               *)
(***************************************************************************)

Big(c) == Parameter[c].size = "big"

Tables ==
  /\ DOMAIN _entries = Uri /\ DOMAIN kept = Uri
  /\ \A v \in {pc, parameter, seen, current, updates, overtaken} : DOMAIN v = Call
  /\ \A c \in Call : current[c] # None => current[c].uri \in Uri

\* A call that was made passes on the uri of its large parameter, or a small one itself,
\* and the entry is its own unless another call took its place meanwhile.
ParameterInv ==
  \A c \in Call :
    /\ Parameter[c].size = "small" => parameter[c] = None
    /\ Big(c) /\ pc[c] # "idle" => parameter[c] = Place(c)
    /\ Big(c) /\ UnderWay(c) => _entries[Place(c)].content = c \/ c \in crossed

ArrivalInv == Tables /\ ParameterInv /\ ParametersArrive

\* What an update has read holds the updates that were done then.
ReadInv ==
  \A c \in Call : current[c] # None =>
    \A d \in current[c].kept :
      d \in current[c].entry.metadata \/ current[c].uri \in overtaken[d]

NoteInv ==
  /\ Tables /\ ReadInv /\ UpdatesStay
  /\ \A u \in Uri : kept[u] \subseteq Call
  /\ \A c \in Call : current[c] # None => current[c].kept \subseteq Call

LEMMA Places == \A c \in Call : Place(c) \in Uri
BY MemoryAssumption DEF Place, Uri, PathName, Child

LEMMA InitInv == MemoryInit => ArrivalInv /\ NoteInv
<1>. SUFFICES ASSUME MemoryInit PROVE ArrivalInv /\ NoteInv
  OBVIOUS
<1>. USE DEF MemoryInit
<1>1. Tables
  BY DEF Tables
<1>2. ParameterInv /\ ParametersArrive
  BY MemoryAssumption DEF ParameterInv, ParametersArrive, UnderWay, Big
<1>3. ReadInv /\ UpdatesStay
  BY DEF ReadInv, UpdatesStay
<1>. QED  BY <1>1, <1>2, <1>3 DEF ArrivalInv, NoteInv

LEMMA StepTables ==
  ASSUME Tables, [MemoryNext]_memory_vars
  PROVE  Tables'
<1>. USE DEF Tables
<1>1. ASSUME NEW c \in Call, NormalizeParameter(c) PROVE Tables'
  BY <1>1 DEF NormalizeParameter
<1>2. ASSUME NEW c \in Call, StartChild(c) \/ EndChild(c) PROVE Tables'
  BY <1>2 DEF StartChild, EndChild
<1>3. ASSUME NEW c \in Call, BuildPrompt(c) PROVE Tables'
  BY <1>3 DEF BuildPrompt
<1>4. ASSUME NEW c \in Call, MemoryPut(c) PROVE Tables'
  BY <1>4 DEF MemoryPut, Writes
<1>5. ASSUME NEW c \in Call, BeginUpdate(c) PROVE Tables'
  <2>1. PICK uri \in Uri :
          IF _entries[uri] = None THEN UNCHANGED current
          ELSE current' = [current EXCEPT ![c] = [uri |-> uri, entry |-> _entries[uri],
                                                  kept |-> kept[uri]]]
    BY <1>5 DEF BeginUpdate
  <2>. QED  BY <1>5, <2>1 DEF BeginUpdate, Writes
<1>6. ASSUME NEW c \in Call, FinishUpdate(c) PROVE Tables'
  BY <1>6 DEF FinishUpdate
<1>7. ASSUME UNCHANGED memory_vars PROVE Tables'
  BY <1>7 DEF memory_vars
<1>. QED  BY <1>1, <1>2, <1>3, <1>4, <1>5, <1>6, <1>7 DEF MemoryNext

-----------------------------------------------------------------------------
(***************************************************************************)
(* Parameters.                                                             *)
(***************************************************************************)

\* Whatever is written, and wherever: the calls whose place it was are noted.
LEMMA StepWrite ==
  ASSUME Tables, NEW uri \in Uri, NEW e, _entries' = [_entries EXCEPT ![uri] = e],
         crossed' = crossed \cup Readers(uri),
         NEW c \in Call, Big(c), UnderWay(c), _entries[Place(c)].content = c \/ c \in crossed
  PROVE  _entries'[Place(c)].content = c \/ c \in crossed'
<1>1. CASE Place(c) = uri
  BY <1>1 DEF Readers, Big
<1>2. CASE Place(c) # uri
  BY <1>2, Places DEF Tables
<1>. QED  BY <1>1, <1>2

LEMMA StepNormalizeParameter ==
  ASSUME Tables, ParameterInv, ParametersArrive, NEW c \in Call, NormalizeParameter(c)
  PROVE  ParameterInv' /\ ParametersArrive'
<1>1. pc[c] = "idle" /\ pc' = [pc EXCEPT ![c] = "called"] /\ seen' = seen
  BY DEF NormalizeParameter
<1>2. Big(c) => /\ _entries' = [_entries EXCEPT ![Place(c)] = Entry(c, 1, {})]
                /\ parameter' = [parameter EXCEPT ![c] = Place(c)]
                /\ crossed' = crossed \cup Readers(Place(c))
  BY DEF NormalizeParameter, Big, Place, Path
<1>3. ~Big(c) => UNCHANGED <<_entries, parameter, crossed>>
  BY DEF NormalizeParameter, Big
<1>4. ASSUME NEW d \in Call, d # c
      PROVE  /\ pc'[d] = pc[d] /\ parameter'[d] = parameter[d]
             /\ Big(d) /\ UnderWay(d) => _entries'[Place(d)].content = d \/ d \in crossed'
  <2>1. pc'[d] = pc[d] /\ parameter'[d] = parameter[d]
    BY <1>1, <1>2, <1>3, <1>4 DEF Tables
  <2>2. Big(d) /\ UnderWay(d) => _entries'[Place(d)].content = d \/ d \in crossed'
    BY <1>2, <1>3, Places, StepWrite DEF ParameterInv
  <2>. QED  BY <2>1, <2>2
<1>5. Big(c) => parameter'[c] = Place(c) /\ _entries'[Place(c)].content = c
  BY <1>2, Places DEF Tables, Entry
<1>6. ParameterInv'
  BY <1>1, <1>3, <1>4, <1>5 DEF ParameterInv, UnderWay, Big
<1>7. ParametersArrive'
  BY <1>1, <1>2, <1>3 DEF ParametersArrive
<1>. QED  BY <1>6, <1>7

LEMMA StepBuildPrompt ==
  ASSUME Tables, ParameterInv, ParametersArrive, NEW c \in Call, BuildPrompt(c)
  PROVE  ParameterInv' /\ ParametersArrive'
<1>. DEFINE uri     == parameter[c]
            visible == uri # None /\ uri.scope \in VisibleScopes(Child(c))
            lost    == visible /\ _entries[uri] = None
<1>1. /\ pc[c] = "running" /\ UNCHANGED <<_entries, parameter, crossed>>
      /\ pc' = [pc EXCEPT ![c] = IF lost THEN "raised" ELSE "running"]
      /\ seen' = [seen EXCEPT ![c] = IF lost THEN None
                                     ELSE IF visible THEN _entries[uri].content
                                     ELSE IF uri # None THEN None ELSE c]
  BY DEF BuildPrompt
<1>2. ParameterInv'
  BY <1>1 DEF Tables, ParameterInv, UnderWay, Big
<1>3. ASSUME seen'[c] # None, Parameter[c].size # "uri"
      PROVE  seen'[c] = c \/ (Big(c) /\ c \in crossed)
  <2>1. CASE Big(c)
    <3>1. uri = Place(c) /\ (_entries[uri].content = c \/ c \in crossed)
      BY <1>1, <2>1 DEF ParameterInv, UnderWay
    <3>2. uri.scope \in VisibleScopes(Child(c))
      <4>1. Place(c).scope = Session
        BY DEF Place
      <4>2. Session \in VisibleScopes(Child(c))
        BY DEF VisibleScopes
      <4>. QED  BY <3>1, <4>1, <4>2
    <3>. QED  BY <1>1, <1>3, <2>1, <3>1, <3>2 DEF Tables
  <2>2. CASE ~Big(c)
    <3>1. uri = None
      BY <1>3, <2>2, MemoryAssumption DEF ParameterInv, Big
    <3>. QED  BY <1>1, <1>3, <3>1 DEF Tables
  <2>. QED  BY <2>1, <2>2
<1>4. ParametersArrive'
  BY <1>1, <1>3 DEF ParametersArrive, Tables, Big
<1>. QED  BY <1>2, <1>4

\* A model's put or update.
LEMMA StepPutBack ==
  ASSUME Tables, ParameterInv, ParametersArrive, UNCHANGED <<pc, parameter, seen>>,
         NEW uri \in Uri, NEW e, _entries' = [_entries EXCEPT ![uri] = e],
         crossed' = crossed \cup Readers(uri)
  PROVE  ParameterInv' /\ ParametersArrive'
<1>1. \A c \in Call : Big(c) /\ UnderWay(c) => _entries'[Place(c)].content = c \/ c \in crossed'
  BY StepWrite DEF ParameterInv
<1>. QED  BY <1>1 DEF ParameterInv, ParametersArrive, UnderWay

LEMMA StepArrival ==
  ASSUME ArrivalInv, [MemoryNext]_memory_vars
  PROVE  ArrivalInv'
<1>. USE DEF ArrivalInv
<1>1. Tables'
  BY StepTables
<1>2. ASSUME NEW c \in Call, StartChild(c) \/ EndChild(c) PROVE ParameterInv' /\ ParametersArrive'
  BY <1>2 DEF StartChild, EndChild, ParameterInv, ParametersArrive, UnderWay, Tables
<1>3. ASSUME NEW c \in Call, MemoryPut(c) PROVE ParameterInv' /\ ParametersArrive'
  <2>1. PICK path \in PathName :
          /\ _entries' = [_entries EXCEPT ![[scope |-> Session, path |-> path]] = Entry(c, 1, {c})]
          /\ crossed' = crossed \cup Readers([scope |-> Session, path |-> path])
    BY <1>3 DEF MemoryPut
  <2>2. [scope |-> Session, path |-> path] \in Uri
    BY MemoryAssumption DEF Uri
  <2>. QED  BY <1>3, <2>1, <2>2, StepPutBack DEF MemoryPut
<1>4. ASSUME NEW c \in Call, BeginUpdate(c) PROVE ParameterInv' /\ ParametersArrive'
  BY <1>4 DEF BeginUpdate, ParameterInv, ParametersArrive, UnderWay
<1>5. ASSUME NEW c \in Call, FinishUpdate(c) PROVE ParameterInv' /\ ParametersArrive'
  <2>1. current[c].uri \in Uri
    BY <1>5 DEF FinishUpdate, Tables
  <2>2. /\ _entries' = [_entries EXCEPT ![current[c].uri] = Updated(c)]
        /\ crossed' = crossed \cup Readers(current[c].uri)
    BY <1>5 DEF FinishUpdate
  <2>. QED  BY <1>5, <2>1, <2>2, StepPutBack DEF FinishUpdate
<1>6. ASSUME UNCHANGED memory_vars PROVE ParameterInv' /\ ParametersArrive'
  BY <1>6 DEF memory_vars, ParameterInv, ParametersArrive, UnderWay
<1>. QED  BY <1>1, <1>2, <1>3, <1>4, <1>5, <1>6, StepNormalizeParameter, StepBuildPrompt DEF MemoryNext

\* AgentHost's parameter normalisation: a child reads the parameter it was called with, or
\* its place was written meanwhile, by a call of the same run, child and parameter name or
\* by a model that put or updated something there.
THEOREM ParametersReachTheirChild == MemorySpec => []ParametersArrive
<1>1. ArrivalInv => ParametersArrive
  BY DEF ArrivalInv
<1>. QED  BY <1>1, InitInv, StepArrival, PTL DEF MemorySpec

-----------------------------------------------------------------------------
(***************************************************************************)
(* Updates.                                                                *)
(***************************************************************************)

\* A parameter that is stored makes its entry anew.
LEMMA StepParameter ==
  ASSUME EntriesAreNotNone, NoteInv, NEW c \in Call, NormalizeParameter(c)
  PROVE  ReadInv' /\ UpdatesStay' /\ \A u \in Uri : kept'[u] \subseteq kept[u]
<1>. DEFINE uri == [scope |-> Session, path |-> Path(c)]
<1>1. UNCHANGED <<current, overtaken>>
  BY DEF NormalizeParameter
<1>2. \/ UNCHANGED <<_entries, kept>>
      \/ /\ _entries' = [_entries EXCEPT ![uri] = Entry(c, 1, {})]
         /\ kept' = [kept EXCEPT ![uri] = {}]
  BY DEF NormalizeParameter
<1>. HIDE DEF uri
<1>3. \A u \in Uri : \/ _entries'[u] = _entries[u] /\ kept'[u] = kept[u]
                     \/ kept'[u] = {}
  BY <1>2 DEF NoteInv, Tables
<1>4. ReadInv'
  BY <1>1 DEF NoteInv, ReadInv
<1>5. UpdatesStay'
  BY <1>1, <1>3 DEF NoteInv, UpdatesStay
<1>. QED  BY <1>3, <1>4, <1>5

LEMMA StepMemoryPut ==
  ASSUME EntriesAreNotNone, NoteInv, NEW c \in Call, MemoryPut(c)
  PROVE  ReadInv' /\ UpdatesStay' /\ \A u \in Uri : kept'[u] \subseteq kept[u]
<1>1. PICK path \in PathName :
        /\ _entries' = [_entries EXCEPT ![[scope |-> Session, path |-> path]] = Entry(c, 1, {c})]
        /\ kept' = [kept EXCEPT ![[scope |-> Session, path |-> path]] = {}]
  BY DEF MemoryPut
<1>. DEFINE uri == [scope |-> Session, path |-> path]
<1>2. UNCHANGED <<current, overtaken>>
  BY DEF MemoryPut
<1>3. \A u \in Uri \ {uri} : _entries'[u] = _entries[u] /\ kept'[u] = kept[u]
  BY <1>1 DEF NoteInv, Tables
<1>4. uri \in Uri => kept'[uri] = {}
  BY <1>1 DEF NoteInv, Tables
<1>. HIDE DEF uri
<1>5. ReadInv'
  BY <1>2 DEF NoteInv, ReadInv
<1>6. UpdatesStay'
  BY <1>2, <1>3, <1>4 DEF NoteInv, UpdatesStay
<1>. QED  BY <1>3, <1>4, <1>5, <1>6

LEMMA StepBeginUpdate ==
  ASSUME NoteInv, NEW c \in Call, BeginUpdate(c)
  PROVE  /\ ReadInv' /\ UpdatesStay'
         /\ \A d \in Call : current'[d] # None => current'[d].kept \subseteq Call
<1>1. UNCHANGED <<_entries, kept, overtaken>>
  BY DEF BeginUpdate
<1>2. UpdatesStay'
  BY <1>1 DEF NoteInv, UpdatesStay
<1>3. PICK uri \in Uri :
        IF _entries[uri] = None THEN UNCHANGED current
        ELSE current' = [current EXCEPT ![c] = [uri |-> uri, entry |-> _entries[uri],
                                                kept |-> kept[uri]]]
  BY DEF BeginUpdate
<1>4. CASE UNCHANGED current
  BY <1>1, <1>2, <1>4 DEF NoteInv, ReadInv
<1>5. CASE current' = [current EXCEPT ![c] = [uri |-> uri, entry |-> _entries[uri],
                                              kept |-> kept[uri]]]
  <2>1. /\ current'[c].uri = uri /\ current'[c].entry = _entries[uri]
        /\ current'[c].kept = kept[uri]
        /\ \A d \in Call \ {c} : current'[d] = current[d]
    BY <1>5 DEF NoteInv, Tables
  <2>2. \A d \in kept[uri] : d \in _entries[uri].metadata \/ uri \in overtaken[d]
    BY <1>3 DEF NoteInv, UpdatesStay
  <2>. QED  BY <1>1, <1>2, <2>1, <2>2 DEF NoteInv, ReadInv
<1>. QED  BY <1>3, <1>4, <1>5

LEMMA StepFinishUpdate ==
  ASSUME EntriesAreNotNone, NoteInv, NEW c \in Call, FinishUpdate(c)
  PROVE  /\ ReadInv' /\ UpdatesStay'
         /\ \A u \in Uri : kept'[u] \subseteq Call
<1>. DEFINE uri == current[c].uri
<1>1. /\ current[c] # None /\ current' = [current EXCEPT ![c] = None]
      /\ _entries' = [_entries EXCEPT ![uri] = Updated(c)]
      /\ kept' = [kept EXCEPT ![uri] = @ \cup {c}]
      /\ overtaken' = [d \in Call |-> IF d \in kept[uri] \ current[c].kept
                                      THEN overtaken[d] \cup {uri} ELSE overtaken[d]]
  BY DEF FinishUpdate
<1>2. uri \in Uri
  BY <1>1 DEF NoteInv, Tables
<1>. HIDE DEF uri
<1>3. \A d \in Call : overtaken[d] \subseteq overtaken'[d]
  BY <1>1
<1>4. \A d \in Call : current'[d] # None => current'[d] = current[d]
  BY <1>1 DEF NoteInv, Tables
<1>5. ReadInv'
  BY <1>3, <1>4 DEF NoteInv, ReadInv
<1>6. \A u \in Uri \ {uri} : _entries'[u] = _entries[u] /\ kept'[u] = kept[u]
  BY <1>1 DEF NoteInv, Tables
<1>7. kept'[uri] = kept[uri] \cup {c} /\ kept[uri] \subseteq Call
  BY <1>1, <1>2 DEF NoteInv, Tables
<1>8. /\ _entries'[uri] # None
      /\ _entries'[uri].metadata = current[c].entry.metadata \cup {c}
  BY <1>1, <1>2 DEF NoteInv, Tables, EntriesAreNotNone, Updated, Entry
<1>9. \A d \in kept'[uri] : d \in _entries'[uri].metadata \/ uri \in overtaken'[d]
  <2>. SUFFICES ASSUME NEW d \in kept[uri], d # c
                PROVE  d \in _entries'[uri].metadata \/ uri \in overtaken'[d]
    BY <1>7, <1>8
  <2>1. CASE d \in current[c].kept
    <3>1. d \in current[c].entry.metadata \/ uri \in overtaken[d]
      BY <1>1, <2>1 DEF NoteInv, ReadInv, uri
    <3>. QED  BY <1>3, <1>7, <1>8, <3>1
  <2>2. CASE d \notin current[c].kept
    BY <1>1, <1>7, <2>2
  <2>. QED  BY <2>1, <2>2
<1>10. UpdatesStay'
  <2>. SUFFICES ASSUME NEW u \in Uri, NEW d \in kept'[u]
                PROVE  _entries'[u] # None /\ (d \in _entries'[u].metadata \/ u \in overtaken'[d])
    BY DEF UpdatesStay
  <2>1. CASE u = uri
    BY <1>8, <1>9, <2>1
  <2>2. CASE u # uri
    <3>1. d \in Call
      BY <1>6, <2>2 DEF NoteInv
    <3>. QED  BY <1>3, <1>6, <2>2, <3>1 DEF NoteInv, UpdatesStay
  <2>. QED  BY <2>1, <2>2
<1>11. \A u \in Uri : kept'[u] \subseteq Call
  BY <1>6, <1>7 DEF NoteInv
<1>. QED  BY <1>5, <1>10, <1>11

LEMMA StepNotes ==
  ASSUME EntriesAreNotNone, NoteInv, [MemoryNext]_memory_vars
  PROVE  NoteInv'
<1>1. Tables'
  BY StepTables DEF NoteInv
<1>2. ASSUME NEW c \in Call, StartChild(c) \/ BuildPrompt(c) \/ EndChild(c)
      PROVE  NoteInv'
  <2>1. UNCHANGED <<_entries, kept, current, overtaken>>
    BY <1>2 DEF StartChild, BuildPrompt, EndChild
  <2>. QED  BY <1>1, <2>1 DEF NoteInv, ReadInv, UpdatesStay
<1>3. ASSUME NEW c \in Call, NormalizeParameter(c) \/ MemoryPut(c) PROVE NoteInv'
  <2>1. UNCHANGED current
    BY <1>3 DEF NormalizeParameter, MemoryPut
  <2>. QED  BY <1>1, <1>3, <2>1, StepParameter, StepMemoryPut DEF NoteInv
<1>4. ASSUME NEW c \in Call, BeginUpdate(c) PROVE NoteInv'
  <2>1. UNCHANGED kept
    BY <1>4 DEF BeginUpdate
  <2>. QED  BY <1>1, <1>4, <2>1, StepBeginUpdate DEF NoteInv
<1>5. ASSUME NEW c \in Call, FinishUpdate(c) PROVE NoteInv'
  <2>1. \A d \in Call : current'[d] # None => current'[d] = current[d]
    BY <1>5 DEF FinishUpdate, NoteInv, Tables
  <2>. QED  BY <1>1, <1>5, <2>1, StepFinishUpdate DEF NoteInv
<1>6. ASSUME UNCHANGED memory_vars PROVE NoteInv'
  BY <1>1, <1>6 DEF memory_vars, NoteInv, ReadInv, UpdatesStay
<1>. QED  BY <1>2, <1>3, <1>4, <1>5, <1>6 DEF MemoryNext

\* update_memory: what an update added stays until the entry is created anew, or an update
\* that had read the entry before is put back after it.
THEOREM UpdatesAreLostToOvertakersOnly ==
  ASSUME EntriesAreNotNone
  PROVE  MemorySpec => []UpdatesStay
<1>1. NoteInv => UpdatesStay
  BY DEF NoteInv
<1>. QED  BY <1>1, InitInv, StepNotes, PTL DEF MemorySpec
=============================================================================
