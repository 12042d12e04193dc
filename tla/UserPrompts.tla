----------------------------- MODULE UserPrompts ----------------------------
(***************************************************************************)
(* A prompt to the user of a web session and the way of its answer back:   *)
(* the host's pending interactions (src/agent_framework/host.py), the      *)
(* queue of WebUserCommunication (src/agent_framework/web_communication)   *)
(* and the evaluator's socket and HTTP endpoints that show prompts, submit *)
(* answers and close the session (src/agent_framework_evaluator/app.py).   *)
(*                                                                         *)
(* One behaviour is one session.  Its runs, started on the socket or by    *)
(* /evaluate-batch, ask at arbitrary moments, from one thread or from      *)
(* several (parallel plan steps, tools of parallel children).  The user    *)
(* may answer any prompt the browser was shown, on the socket or by POST,  *)
(* and reading an answer may raise.                                        *)
(***************************************************************************)
EXTENDS Naturals, Sequences, FiniteSets

CONSTANTS
  Thread,         \* threads of the session's runs that may ask the user
  None,           \* Python's None; as queue item: a cancellation
  Unanswered,     \* a prompt that has no answer yet
  MaxPrompts,     \* bound: prompts of the session
  MaxRuns,        \* bound: runs of the session
  Impatient,      \* the user may answer a prompt again while it is still asked
  Modes,          \* case_run_modes the browser may start a run with
  CanClose,       \* the browser may call the /close endpoint
  CanDisconnect   \* the web socket may break

\* Prompt ids (uuid4) are numbered in the order of their creation.
Prompt == 1..MaxPrompts
Item   == Prompt \cup {None}

ASSUME PromptAssumption ==
  /\ {MaxPrompts, MaxRuns} \subseteq Nat
  /\ {None, Unanswered} \cap Prompt = {}
  /\ None # Unanswered
  /\ Modes \subseteq {"standard", "no_callbacks"}
  /\ {Impatient, CanClose, CanDisconnect} \subseteq BOOLEAN

VARIABLES
  pending_interactions,  \* AgentHost: prompts of open interactions
  _pending_prompt_id,    \* WebUserCommunication: the prompt answers are taken for
  _pending_input,        \* its queue; an answer is named by the prompt it was given to
  _outbox,               \* prompts the pump has not drained yet
  draining,              \* the pump's copy of the outbox, not yet sent
  pump,                  \* the pump: idle, copied (clears next), sending
  asked,                 \* how many prompts were created
  at,                    \* per thread: where it is in asking
  prompt,                \* per thread: the prompt it asks
  by,                    \* per thread: whose run asks, the socket's or the batch's
  answer,                \* per prompt: the item its thread got
  shown,                 \* prompts the browser was sent
  sent,                  \* how often a prompt was answered, by the user or the pump
  putting,               \* per item: calls between their check and their put
  socket,                \* session_socket: receiving, running (awaits a run), closed
  connected,             \* the browser still holds the web socket
  registered,            \* SessionManager knows the session
  batch,                 \* a request of /evaluate-batch runs its cases
  runs,                  \* how many runs and batches were started
  case_run_mode,         \* no_callbacks: the pump answers the prompts it sends
  closed_on,             \* history: prompts being waited for when /close came
  cancelled,             \* history: cancel_wait found a pending prompt
  raised                 \* history: prompts whose read raised

comm    == <<_pending_prompt_id, _pending_input, _outbox>>
pumping == <<draining, pump>>
threads == <<at, prompt, by, asked, answer, raised>>
user    == <<shown, sent>>
session == <<socket, connected, registered, batch, runs, case_run_mode, closed_on, cancelled>>
vars    == <<pending_interactions, comm, pumping, threads, user, putting, session>>

Init ==
  /\ pending_interactions = {}
  /\ _pending_prompt_id = None
  /\ _pending_input = <<>>
  /\ _outbox = <<>>
  /\ draining = <<>>
  /\ pump = "idle"
  /\ asked = 0
  /\ at = [t \in Thread |-> "idle"]
  /\ prompt = [t \in Thread |-> None]
  /\ by = [t \in Thread |-> "socket"]
  /\ answer = [p \in Prompt |-> Unanswered]
  /\ shown = {}
  /\ sent = [p \in Prompt |-> 0]
  /\ putting = [i \in Item |-> 0]
  /\ socket = "receiving"
  /\ connected = TRUE
  /\ registered = TRUE
  /\ batch = FALSE
  /\ runs = 0
  /\ case_run_mode = "standard"
  /\ closed_on = {}
  /\ cancelled = FALSE
  /\ raised = {}

(***************************************************************************)
(* The threads of a run.                                                   *)
(***************************************************************************)

\* request_user_input and resolve_callback open an interaction first; permissions,
\* questions and confirmations go to the user communication directly.
Ask(t) ==
  /\ \/ socket = "running" /\ by' = [by EXCEPT ![t] = "socket"]
     \/ batch /\ by' = [by EXCEPT ![t] = "batch"]
  /\ at[t] = "idle"
  /\ asked < MaxPrompts
  /\ asked' = asked + 1
  /\ prompt' = [prompt EXCEPT ![t] = asked']
  /\ at' = [at EXCEPT ![t] = "asking"]
  /\ pending_interactions' \in {pending_interactions, pending_interactions \cup {asked'}}
  /\ UNCHANGED <<comm, pumping, answer, raised, user, putting, session>>

\* _read_input_after_enqueue: the prompt is the one answers are taken for ...
EnterWait(t) ==
  /\ at[t] = "asking"
  /\ _pending_prompt_id' = prompt[t]
  /\ at' = [at EXCEPT ![t] = "posting"]
  /\ UNCHANGED <<pending_interactions, _pending_input, _outbox, pumping, prompt, by, asked,
                 answer, raised, user, putting, session>>

\* ... goes to the outbox after its trace event, and the thread waits for the queue.
PostPrompt(t) ==
  /\ at[t] = "posting"
  /\ _outbox' = Append(_outbox, prompt[t])
  /\ at' = [at EXCEPT ![t] = "waiting"]
  /\ UNCHANGED <<pending_interactions, _pending_prompt_id, _pending_input, pumping,
                 prompt, by, asked, answer, raised, user, putting, session>>

\* Mutant of Received: the wait times out.
Received_TimesOut == IF _pending_input = <<>> THEN <<None>> ELSE _pending_input

\* What a waiting get of the queue is served from.
Received == _pending_input

\* _pending_input.get in an executor thread: whoever waits may be served.
TakeInput(t) ==
  /\ at[t] = "waiting"
  /\ Received # <<>>
  /\ answer' = [answer EXCEPT ![prompt[t]] = Head(Received)]
  /\ _pending_input' = Tail(Received)
  /\ at' = [at EXCEPT ![t] = "taken"]
  /\ UNCHANGED <<pending_interactions, _pending_prompt_id, _outbox, pumping, prompt, by,
                 asked, raised, user, putting, session>>

\* The finally clause, later and on the thread's own event loop.
AfterWait == None

LeaveWait(t) ==
  /\ at[t] = "taken"
  /\ _pending_prompt_id' = AfterWait
  /\ at' = [at EXCEPT ![t] = "answered"]
  /\ UNCHANGED <<pending_interactions, _pending_input, _outbox, pumping, prompt, by, asked,
                 answer, raised, user, putting, session>>

\* The thread asks no longer.
Leaves(t) ==
  /\ prompt' = [prompt EXCEPT ![t] = None]
  /\ by' = [by EXCEPT ![t] = "socket"]
  /\ at' = [at EXCEPT ![t] = "idle"]
  /\ UNCHANGED <<comm, pumping, asked, answer, user, putting, session>>

\* close_interaction, if there is one; the thread goes on with its answer.
Return(t) ==
  /\ at[t] = "answered"
  /\ pending_interactions' = pending_interactions \ {prompt[t]}
  /\ Leaves(t)
  /\ UNCHANGED raised

\* Reading raises: before the wait (the auditing wrapper of the user communication takes
\* no prompt_id) or in one of its trace events, whose subscribers may raise.  No finally
\* clause closes the interaction, and none before the wait resets _pending_prompt_id.
ReadRaises(t) ==
  /\ at[t] \in {"asking", "posting", "answered"}
  /\ raised' = raised \cup {prompt[t]}
  /\ Leaves(t)
  /\ UNCHANGED pending_interactions

Asking(t) ==
  EnterWait(t) \/ PostPrompt(t) \/ TakeInput(t) \/ LeaveWait(t) \/ Return(t)

(***************************************************************************)
(* Calls that put into the queue.  All look at _pending_prompt_id first    *)
(* and put afterwards, without a lock.                                     *)
(***************************************************************************)

\* Mutant of Accepts: any active wait takes the answer.
Accepts_AnyWait(p) == _pending_prompt_id # None

\* The guards of submit_user_input with a prompt_id.
Accepts(p) == _pending_prompt_id = p

\* Mutant of Cancels: only a prompt the browser has seen is cancelled.
Cancels_Shown == _pending_prompt_id \in shown

\* The guard of cancel_wait.
Cancels == _pending_prompt_id # None

\* Calls that have passed their check.
Begin(items) ==
  putting' = [i \in Item |-> IF i \in items THEN putting[i] + 1 ELSE putting[i]]

\* The user answers a prompt that the browser was shown; one that came with its reply
\* counts as answered.
Answers(p) ==
  /\ p \in shown
  /\ sent[p] < 2
  /\ sent' = [sent EXCEPT ![p] = @ + 1]
  /\ UNCHANGED <<pending_interactions, comm, pumping, threads, shown, session>>

\* A patient user answers a prompt again only after it is no longer asked.
MayAnswer(p) == sent[p] = 0 \/ Impatient \/ \A t \in Thread : prompt[t] # p

\* POST .../user-input, which always names its prompt.
Submit(p) ==
  /\ registered
  /\ MayAnswer(p)
  /\ Answers(p)
  /\ Begin({q \in {p} : Accepts(q)})

\* A user_input message on the socket, read while no run is awaited there: it may name its
\* prompt, or leave it to whatever wait is pending.
SocketInput(p) ==
  /\ socket = "receiving"
  /\ connected
  /\ Answers(p)
  /\ \/ MayAnswer(p) /\ Begin({q \in {p} : Accepts(q)})
     \/ (sent[p] = 0 \/ Impatient) /\ Begin({q \in {p} : _pending_prompt_id # None})

\* pump_outbox_and_traces, ten times a second: drain_outbox copies the outbox ...
CopyOutbox ==
  /\ connected
  /\ pump = "idle"
  /\ draining' = _outbox
  /\ pump' = "copied"
  /\ UNCHANGED <<pending_interactions, comm, threads, user, putting, session>>

\* ... and clears it, with whatever was appended in between.
ClearOutbox ==
  /\ pump = "copied"
  /\ _outbox' = <<>>
  /\ pump' = IF draining = <<>> THEN "idle" ELSE "sending"
  /\ UNCHANGED <<pending_interactions, _pending_prompt_id, _pending_input, draining,
                 threads, user, putting, session>>

\* reply_text_for_outbox_item: in no_callbacks mode every kind of prompt has a reply.
AutoAnswers(p) == case_run_mode = "no_callbacks"

\* The next drained prompt goes to the browser and may be answered at once.
SendPrompt ==
  /\ connected
  /\ pump = "sending"
  /\ LET p == Head(draining)
     IN  /\ shown' = shown \cup {p}
         /\ sent' = IF AutoAnswers(p) THEN [sent EXCEPT ![p] = 1] ELSE sent
         /\ Begin({q \in {p} : AutoAnswers(q) /\ Accepts(q)})
  /\ draining' = Tail(draining)
  /\ pump' = IF Tail(draining) = <<>> THEN "idle" ELSE "sending"
  /\ UNCHANGED <<pending_interactions, comm, threads, session>>

Pump == CopyOutbox \/ ClearOutbox \/ SendPrompt

\* The put of a call that passed its check.
Put(i) ==
  /\ putting[i] > 0
  /\ putting' = [putting EXCEPT ![i] = @ - 1]
  /\ _pending_input' = Append(_pending_input, i)
  /\ UNCHANGED <<pending_interactions, _pending_prompt_id, _outbox, pumping, threads, user,
                 session>>

(***************************************************************************)
(* The session.                                                            *)
(***************************************************************************)

\* A run message: the socket's loop awaits the run and receives nothing meanwhile.
StartRun ==
  /\ socket = "receiving"
  /\ connected
  /\ runs < MaxRuns
  /\ runs' = runs + 1
  /\ case_run_mode' \in Modes
  /\ socket' = "running"
  /\ UNCHANGED <<pending_interactions, comm, pumping, threads, user, putting, connected,
                 registered, batch, closed_on, cancelled>>

\* No thread of these runs asks the user.
Silent(who) == \A t \in Thread : by[t] = who => at[t] = "idle"

RunEnds ==
  /\ socket = "running"
  /\ Silent("socket")
  /\ socket' = "receiving"
  /\ UNCHANGED <<pending_interactions, comm, pumping, threads, user, putting, connected,
                 registered, batch, runs, case_run_mode, closed_on, cancelled>>

\* POST /evaluate-batch: cases run one after the other with the session's communication,
\* whatever its socket does meanwhile.  (Bound: one such request at a time.)
StartBatch ==
  /\ registered
  /\ ~batch
  /\ runs < MaxRuns
  /\ runs' = runs + 1
  /\ case_run_mode' \in Modes
  /\ batch' = TRUE
  /\ UNCHANGED <<pending_interactions, comm, pumping, threads, user, putting, socket, connected,
                 registered, closed_on, cancelled>>

BatchEnds ==
  /\ batch
  /\ Silent("batch")
  /\ batch' = FALSE
  /\ UNCHANGED <<pending_interactions, comm, pumping, threads, user, putting, socket, connected,
                 registered, runs, case_run_mode, closed_on, cancelled>>

\* cancel_wait.
CancelWait ==
  /\ Begin({i \in {None} : Cancels})
  /\ cancelled' = (cancelled \/ Cancels)

\* POST .../close, also on beforeunload; a run in progress goes on.
CloseSession ==
  /\ CanClose
  /\ registered
  /\ registered' = FALSE
  /\ closed_on' = {prompt[t] : t \in {u \in Thread : at[u] \in {"posting", "waiting"}}}
  /\ CancelWait
  /\ UNCHANGED <<pending_interactions, comm, pumping, threads, user, socket, connected, batch,
                 runs, case_run_mode>>

Disconnect ==
  /\ CanDisconnect
  /\ connected
  /\ connected' = FALSE
  /\ UNCHANGED <<pending_interactions, comm, pumping, threads, user, putting, socket,
                 registered, batch, runs, case_run_mode, closed_on, cancelled>>

\* The next receive raises WebSocketDisconnect: the finally clause of session_socket.  If
\* the pump died of another exception than those it expects, awaiting it raises before
\* cancel_wait is called.
SocketEnds ==
  /\ socket = "receiving"
  /\ ~connected
  /\ socket' = "closed"
  /\ CancelWait \/ UNCHANGED <<putting, cancelled>>
  /\ UNCHANGED <<pending_interactions, comm, pumping, threads, user, connected, registered,
                 batch, runs, case_run_mode, closed_on>>

Next ==
  \/ \E t \in Thread : Asking(t)
  \/ Pump
  \/ \E i \in Item : Put(i)
  \/ SocketEnds
  \/ \E t \in Thread : Ask(t) \/ ReadRaises(t)
  \/ \E p \in Prompt : Submit(p) \/ SocketInput(p)
  \/ StartRun \/ RunEnds
  \/ StartBatch \/ BatchEnds
  \/ CloseSession
  \/ Disconnect

Spec == Init /\ [][Next]_vars

\* No thread, event loop or call is suspended for good; nothing is assumed of the
\* user, of when a run asks or ends, or of the browser.
FairSpec ==
  /\ Spec
  /\ \A t \in Thread : WF_vars(Asking(t))
  /\ WF_vars(Pump)
  /\ \A i \in Item : WF_vars(Put(i))
  /\ WF_vars(SocketEnds)

(***************************************************************************)
(* Properties.                                                             *)
(***************************************************************************)

\* Every variable has its type; in particular no call of a kind puts more than twice.
TypeOK ==
  /\ pending_interactions \subseteq Prompt
  /\ _pending_prompt_id \in Prompt \cup {None}
  /\ _pending_input \in Seq(Item)
  /\ _outbox \in Seq(Prompt)
  /\ asked \in 0..MaxPrompts
  /\ draining \in Seq(Prompt)
  /\ pump \in {"idle", "copied", "sending"}
  /\ at \in [Thread -> {"idle", "asking", "posting", "waiting", "taken", "answered"}]
  /\ prompt \in [Thread -> Prompt \cup {None}]
  /\ by \in [Thread -> {"socket", "batch"}]
  /\ answer \in [Prompt -> Item \cup {Unanswered}]
  /\ shown \subseteq Prompt
  /\ sent \in [Prompt -> 0..2]
  /\ putting \in [Item -> 0..2]
  /\ socket \in {"receiving", "running", "closed"}
  /\ {connected, registered, batch, cancelled} \subseteq BOOLEAN
  /\ runs \in 0..MaxRuns
  /\ case_run_mode \in Modes \cup {"standard"}
  /\ closed_on \subseteq Prompt
  /\ raised \subseteq Prompt

\* As long as no wait is cancelled, the text a thread gets is the one the user gave to that
\* thread's prompt, across prompts, runs of the socket and of batches, answers that name no
\* prompt, and reads that raise.  (The queue carries no prompt ids: after cancel_wait an
\* item may be left over, and the next prompt gets it.)
OwnAnswer == ~cancelled => \A p \in Prompt : answer[p] \in {p, Unanswered}

\* Answers are taken for a prompt whose thread is in its wait, or, when reading raised
\* before the wait, for one the browser never gets; and only prompts that are asked, or
\* whose read raised, have an open interaction.
PromptsAreLive ==
  /\ _pending_prompt_id # None =>
       \/ \E t \in Thread : /\ prompt[t] = _pending_prompt_id
                            /\ at[t] \in {"posting", "waiting", "taken"}
       \/ _pending_prompt_id \in raised \ shown
  /\ pending_interactions \subseteq {prompt[t] : t \in Thread} \cup raised

\* An answer that submit_user_input accepted goes to the prompt it was given to; only
\* where a wait was cancelled may something else have ended that prompt's wait.
AcceptedAnswerArrives ==
  \A p \in Prompt :
    putting[p] > 0 ~> answer[p] = p \/ (cancelled /\ answer[p] # Unanswered)

\* Closing the session ends the waits it interrupts (cancel_wait).
CloseEndsWaits == \A p \in Prompt : p \in closed_on ~> \A t \in Thread : prompt[t] # p
=============================================================================
