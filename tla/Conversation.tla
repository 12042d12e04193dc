---------------------------- MODULE Conversation ----------------------------
(***************************************************************************)
(* A stored conversation: AgentHost.complete / complete_async and          *)
(* run_tool_loop (src/agent_framework/host.py) over an                     *)
(* InMemoryConversationStore (src/agent_framework/conversation.py), with   *)
(* several callers at work at the same time and the application deleting   *)
(* or expiring the conversation.                                           *)
(*                                                                         *)
(* Conversation ids are never used again and calls on different            *)
(* conversations do not touch each other, so one conversation is enough.   *)
(***************************************************************************)
EXTENDS Naturals, SequencesExt

CONSTANTS
  Caller,         \* threads or tasks that call the host
  MaxRequests,    \* bound: calls of complete and run_tool_loop
  MaxIterations,  \* max_iterations of run_tool_loop
  CanDelete       \* the application may delete or expire the conversation

ASSUME ConversationAssumption ==
  /\ {MaxRequests, MaxIterations} \subseteq Nat \ {0}
  /\ CanDelete \in BOOLEAN

\* A request and the model calls made for it are numbered.  A row of a transcript is
\* the caller's own message, the model's answer (with or without its tool calls) or
\* the results of the tools it called.
Kind == {"complete", "loop"}
Row  == [kind : Kind, request : 1..MaxRequests, call : 0..MaxIterations,
         role : {"user", "assistant", "assistant_calls", "tool"}]

VARIABLES
  _store,     \* the conversation's messages
  deleted,    \* the store has no entry for the conversation
  requests,   \* how many requests were begun
  at,         \* per caller: idle, ready (calls the model next), asked, tools
  request,    \* per caller: kind and number of its request, and its model calls so far
  messages,   \* per caller: the list given to complete_async, the loop's transcript
  prior       \* per caller: what _load_conversation got from the store

store  == <<_store, deleted>>
caller == <<at, request, messages, prior>>
vars   == <<store, requests, caller>>

NewRow(c, role) ==
  [kind |-> request[c].kind, request |-> request[c].number,
   call |-> request[c].calls, role |-> role]

Init ==
  /\ _store = <<>>
  /\ deleted = FALSE
  /\ requests = 0
  /\ at = [c \in Caller |-> "idle"]
  /\ request = [c \in Caller |-> [kind |-> "complete", number |-> 1, calls |-> 0]]
  /\ messages = [c \in Caller |-> <<>>]
  /\ prior = [c \in Caller |-> <<>>]

\* complete, complete_async or run_tool_loop is called with one new message.
Begin(c, kind) ==
  /\ at[c] = "idle"
  /\ requests < MaxRequests
  /\ requests' = requests + 1
  /\ request' = [request EXCEPT ![c] = [kind |-> kind, number |-> requests', calls |-> 0]]
  /\ messages' = [messages EXCEPT ![c] =
       <<[kind |-> kind, request |-> requests', call |-> 0, role |-> "user"]>>]
  /\ at' = [at EXCEPT ![c] = "ready"]
  /\ UNCHANGED <<store, prior>>

\* _load_conversation; a conversation that is gone raises ConversationNotFoundError.
Load(c) ==
  /\ at[c] = "ready"
  /\ at' = [at EXCEPT ![c] = IF deleted THEN "idle" ELSE "asked"]
  /\ prior' = [prior EXCEPT ![c] = _store]
  /\ request' = [request EXCEPT ![c].calls = @ + 1]
  /\ UNCHANGED <<store, requests, messages>>

\* driver.decide raised, to the caller of complete and out of run_tool_loop.
ModelFails(c) ==
  /\ at[c] = "asked"
  /\ at' = [at EXCEPT ![c] = "idle"]
  /\ UNCHANGED <<store, requests, request, messages, prior>>

\* Mutant of Persisted: the loaded history is stored once more.
Persisted_All(c) == prior[c] \o messages[c] \o <<NewRow(c, "assistant")>>

\* Mutant of Persisted: the caller's messages are not stored.
Persisted_AnswerOnly(c) == <<NewRow(c, "assistant")>>

\* _persist_response: the messages passed in and the answer without its tool calls.
Persisted(c) == messages[c] \o <<NewRow(c, "assistant")>>

\* Mutant of AfterAppend: an append creates the conversation when it is gone.
AfterAppend_Creates(rows) == [rows |-> _store \o rows, gone |-> FALSE]

\* store.append: extends the entry, and raises when there is none.
AfterAppend(rows) ==
  [rows |-> IF deleted THEN _store ELSE _store \o rows, gone |-> deleted]

\* The model answered and the store is extended; what the caller does next.
Answered(c, next, rows) ==
  /\ at[c] = "asked"
  /\ LET after == AfterAppend(Persisted(c))
     IN  /\ _store' = after.rows
         /\ deleted' = after.gone
         /\ at' = [at EXCEPT ![c] = IF after.gone THEN "idle" ELSE next]
         /\ messages' = [messages EXCEPT ![c] = IF after.gone THEN @ ELSE @ \o rows]
  /\ UNCHANGED <<requests, request, prior>>

\* complete returns its answer.
AnswerComplete(c) == request[c].kind = "complete" /\ Answered(c, "idle", <<>>)

\* run_tool_loop returns an answer without tool calls.
AnswerFinal(c) ==
  request[c].kind = "loop" /\ Answered(c, "idle", <<NewRow(c, "assistant")>>)

\* run_tool_loop returns on a terminal tool, or goes on with the tools.
AnswerToolCalls(c) ==
  /\ request[c].kind = "loop"
  /\ \E next \in {"idle", "tools"} : Answered(c, next, <<NewRow(c, "assistant_calls")>>)

\* The loop over range(max_iterations) goes on.
IterationsLeft(c) == request[c].calls < MaxIterations

\* The tools' results are appended; after the last iteration the loop returns or
\* raises.
RunTools(c) ==
  /\ at[c] = "tools"
  /\ messages' = [messages EXCEPT ![c] = Append(@, NewRow(c, "tool"))]
  /\ at' = [at EXCEPT ![c] = IF IterationsLeft(c) THEN "ready" ELSE "idle"]
  /\ UNCHANGED <<store, requests, request, prior>>

\* The arguments are no JSON, or tool_executor raised.
ToolFails(c) ==
  /\ at[c] = "tools"
  /\ at' = [at EXCEPT ![c] = "idle"]
  /\ UNCHANGED <<store, requests, request, messages, prior>>

\* delete, or cleanup_expired after ttl_seconds without a write.
Delete ==
  /\ CanDelete
  /\ ~deleted
  /\ deleted' = TRUE
  /\ _store' = <<>>
  /\ UNCHANGED <<requests, caller>>

Next ==
  \/ Delete
  \/ \E c \in Caller :
       \/ \E kind \in Kind : Begin(c, kind)
       \/ Load(c)
       \/ ModelFails(c)
       \/ AnswerComplete(c)
       \/ AnswerFinal(c)
       \/ AnswerToolCalls(c)
       \/ RunTools(c)
       \/ ToolFails(c)

Spec == Init /\ [][Next]_vars

(***************************************************************************)
(* Properties.                                                             *)
(***************************************************************************)

\* Every variable has its type; a loop makes no more than MaxIterations model calls.
TypeOK ==
  /\ _store \in Seq(Row)
  /\ deleted \in BOOLEAN
  /\ requests \in 0..MaxRequests
  /\ at \in [Caller -> {"idle", "ready", "asked", "tools"}]
  /\ request \in [Caller -> [kind : Kind, number : 1..MaxRequests,
                             calls : 0..MaxIterations]]
  /\ messages \in [Caller -> Seq(Row)]
  /\ prior \in [Caller -> Seq(Row)]

\* The model's answer is stored after everything the model saw and directly after the
\* message it answers, however the calls of several callers interleave: the history a
\* call loaded stays the beginning of the conversation, and no row of another caller
\* comes between a message of complete and its answer (_load_conversation,
\* _persist_response).
AnswersFollowQuestions ==
  /\ \A c \in Caller : at[c] = "asked" /\ ~deleted => IsPrefix(prior[c], _store)
  /\ \A i \in DOMAIN _store :
       _store[i].kind = "complete" /\ _store[i].role = "assistant" =>
         /\ i > 1
         /\ _store[i - 1].role = "user"
         /\ _store[i - 1].request = _store[i].request

\* What complete stored is stored once, and stays in its order as long as the
\* conversation exists, whatever else is written to it.
StoredOnce ==
  \A i, j \in DOMAIN _store :
    _store[i].kind = "complete" /\ _store[i] = _store[j] => i = j

\* A conversation that was deleted or expired while calls on it were under way does
\* not come back with the answer of one of them.
DeletedStaysDeleted == [][deleted => deleted' /\ _store' = <<>>]_vars
=============================================================================
