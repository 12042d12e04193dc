--------------------------- MODULE EvaluatorSession -------------------------
(***************************************************************************)
(* One session of the evaluator's web application and all that shares its  *)
(* SessionRecord (src/agent_framework_evaluator/app.py, session_manager):  *)
(* web sockets that start runs, /evaluate-batch streams that run and score *)
(* the cases of an initializer, /evaluate-result and /evaluate-case        *)
(* requests that score the last run, and /close.  A run is a call of       *)
(* SessionRunner.run_once (runtime/session_runner.py) on a pool thread; its *)
(* hooks belong to the initializer's setup module.                         *)
(*                                                                         *)
(* Requests run on the event loop, handlers declared with def on threads   *)
(* of their own, so the steps below interleave freely.  What an agent does *)
(* in a run is abstract: it may call the model, ask the user, and end      *)
(* either way.                                                             *)
(***************************************************************************)
EXTENDS Absent, Naturals, Sequences, FiniteSets

CONSTANTS
  Socket,      \* connections to /ws/{session_id}
  Batch,       \* /evaluate-batch requests
  Request,     \* /evaluate-result and /evaluate-case requests
  Cases,       \* how many cases a batch selects
  Modes,       \* case_run_modes requests may ask for
  Initializers, \* whether runs of sockets may name an initializer, or none
  MaxMessages  \* bound: run messages of all sockets

Run    == 1..(MaxMessages + Cases * Cardinality(Batch))
Closer == Socket \cup {"close"}   \* those that finalize the session

ASSUME SessionAssumption ==
  /\ Cases \in Nat \ {0} /\ MaxMessages \in Nat
  /\ IsFiniteSet(Socket) /\ IsFiniteSet(Batch)
  /\ None \notin Nat /\ None \notin [run : Nat, seen : BOOLEAN]
  /\ Initializers \subseteq BOOLEAN
  /\ Modes \subseteq {"standard", "no_callbacks"}
  /\ "close" \notin Socket
  /\ Socket \cap Batch = {}

VARIABLES
  registered,            \* the session manager knows the session
  last_run_prompts,      \* SessionRecord: None, or whose prompts, and whether seen by the model
  last_run_result,       \* SessionRecord: None or the run whose result it is
  last_usage_summary,    \* SessionRecord: None or a snapshot of a tracker
  case_run_mode,         \* SessionRecord
  _pending_prompt_id,    \* WebUserCommunication: None or the run whose prompt is pending
  pumping,               \* sockets whose pump runs
  usage_tracker,         \* EvaluatorUsageTracker: runs seen, calls counted, totals taken from a run
  _last_setup_module,    \* SessionRunner: None or the run that loaded the module
  _suite_teardown_done,  \* SessionRunner
  _last_usage_summary,   \* SessionRunner: None or the last finished run's totals
  runs,                  \* run_once calls so far, as records
  socket,                \* per connection: where it is and the run it awaits
  batch,                 \* per stream: where it is, its case and the run it awaits
  lines,                 \* per stream: what it yielded
  request,               \* per scoring request: what it has read
  closer                 \* per finalizer: where it is in suite_teardown_if_any

comm    == <<_pending_prompt_id, pumping>>
record  == <<last_run_prompts, last_run_result, last_usage_summary, case_run_mode>>
runner  == <<_last_setup_module, _suite_teardown_done, _last_usage_summary>>
vars    == <<registered, comm, record, usage_tracker, runner, runs, socket, batch, lines,
             request, closer>>

NoCalls    == [r \in Run |-> 0]
NoUsage    == [seen |-> {}, calls |-> NoCalls, final |-> FALSE]

Init ==
  /\ registered = TRUE
  /\ last_run_prompts = None /\ last_run_result = None /\ last_usage_summary = None
  /\ case_run_mode = "standard"
  /\ _pending_prompt_id = None /\ pumping = {}
  /\ usage_tracker = NoUsage
  /\ _last_setup_module = None /\ _suite_teardown_done = FALSE
  /\ _last_usage_summary = None
  /\ runs = <<>>
  /\ socket  = [s \in Socket |-> [at |-> "absent", run |-> None]]
  /\ batch   = [b \in Batch |-> [at |-> "absent", case |-> 0, run |-> None, mode |-> "standard"]]
  /\ lines   = [b \in Batch |-> <<>>]
  /\ request = [e \in Request |-> [at |-> "absent", prompts |-> None, result |-> None]]
  /\ closer  = [c \in Closer |-> [at |-> "open", module |-> None]]

-----------------------------------------------------------------------------
(* A run: SessionRunner.run_once on a pool thread. *)

\* Runs a socket or a batch awaits.
Awaited == {socket[s].run : s \in {x \in Socket : socket[x].at = "running"}}
           \cup {batch[b].run : b \in {x \in Batch : batch[x].at = "running"}}

NewRun(by, mode) ==
  [by |-> by, mode |-> mode, at |-> "queued", module |-> FALSE, ok |-> FALSE,
   called |-> FALSE, suite |-> FALSE, cleaned |-> FALSE, torn |-> 0,
   alone |-> Awaited = {}]

\* Submits a run to the executor, as the next one; those awaited are no longer alone.
Submit(by, mode) ==
  runs' = Append([r \in DOMAIN runs |-> [runs[r] EXCEPT !.alone = @ /\ r \notin Awaited]],
                 NewRun(by, mode))

InProgress(r) == runs[r].at # "over"
Fails(r)      == runs' = [runs EXCEPT ![r].at = "over"]

\* Loading the setup module may raise, before anything but the flag is set; a
\* socket's run may have no initializer.
LoadSetup(r) ==
  /\ runs[r].at = "queued"
  /\ _suite_teardown_done' = FALSE
  /\ \/ \E has \in (IF runs[r].by \in Socket THEN Initializers ELSE {TRUE}) :
          /\ runs' = [runs EXCEPT ![r].at = "loaded", ![r].module = has]
          /\ _last_setup_module' = IF has THEN r ELSE None
     \/ /\ Fails(r)
        /\ UNCHANGED _last_setup_module
  /\ UNCHANGED <<registered, comm, record, usage_tracker, _last_usage_summary, socket, batch,
                 lines, request, closer>>

\* Host creation may raise, outside the try; register, suite_setup or test_setup
\* may raise inside it.
SetUp(r) ==
  /\ runs[r].at = "loaded"
  /\ \/ runs' = [runs EXCEPT ![r].at = "running", ![r].suite = runs[r].module]
     \/ /\ runs[r].module
        /\ runs' = [runs EXCEPT ![r].at = "left"]
     \/ Fails(r)
  /\ UNCHANGED <<registered, comm, record, usage_tracker, runner, socket, batch, lines, request,
                 closer>>

\* Bridges of the connected sockets, each of which feeds the tracker.
Bridges == Cardinality({s \in Socket : socket[s].at \in {"receiving", "running"}})

\* EvaluatorUsageTracker: an llm.response reaches it once per bridge.
Counted(r) ==
  IF Bridges = 0 THEN usage_tracker
  ELSE [usage_tracker EXCEPT
          !.seen = @ \cup {r},
          !.calls = IF usage_tracker.final THEN @
                    ELSE [usage_tracker.calls EXCEPT ![r] = @ + Bridges]]

\* ... and session_finished replaces the totals by those of the run's own host.
Totals(r) == [NoCalls EXCEPT ![r] = IF runs[r].called THEN 1 ELSE 0]
Finalized(r) ==
  IF Bridges = 0 THEN usage_tracker
  ELSE [usage_tracker EXCEPT !.calls = Totals(r), !.final = TRUE]

\* The first request to the model passes the one-shot capture: a socket's run
\* replaces the record's prompts, a batch's run fills its case's own.
CallModel(r) ==
  /\ runs[r].at = "running" /\ ~runs[r].called
  /\ runs' = [runs EXCEPT ![r].called = TRUE]
  /\ usage_tracker' = Counted(r)
  /\ IF runs[r].by \in Socket
     THEN last_run_prompts' = [run |-> r, seen |-> TRUE]
     ELSE UNCHANGED last_run_prompts
  /\ UNCHANGED <<registered, comm, last_run_result, last_usage_summary, case_run_mode, runner,
                 socket, batch, lines, request, closer>>

\* The waits for the user: the prompt is in the outbox, or was taken from it.
Waiting == {r \in DOMAIN runs : runs[r].at \in {"asking", "taken"}}

\* A callback of the agent reaches the user (bound: once in a run).  A pump that is between
\* the copying and the clearing of the outbox clears the prompt unseen.
Ask(r) ==
  /\ runs[r].at = "running" /\ runs[r].called
  /\ \E at \in {"asking"} \cup (IF pumping = {} THEN {} ELSE {"taken"}) :
       runs' = [runs EXCEPT ![r].at = at]
  /\ _pending_prompt_id' = r
  /\ UNCHANGED <<registered, pumping, record, usage_tracker, runner, socket, batch, lines,
                 request, closer>>

\* submit_user_input and cancel_wait put into the queue if some prompt is pending; any
\* thread that waits may take it.
Put ==
  \/ _pending_prompt_id # None /\ \E r \in Waiting : runs' = [runs EXCEPT ![r].at = "answered"]
  \/ (_pending_prompt_id = None \/ Waiting = {}) /\ UNCHANGED runs

\* The user answers, over a socket or by a request.
Answer ==
  /\ Put
  /\ UNCHANGED <<registered, comm, record, usage_tracker, runner, socket, batch, lines,
                 request, closer>>

\* The thread goes on, and no prompt is pending any more, its own or another's.
Resume(r) ==
  /\ runs[r].at = "answered"
  /\ runs' = [runs EXCEPT ![r].at = "resumed"]
  /\ _pending_prompt_id' = None
  /\ UNCHANGED <<registered, pumping, record, usage_tracker, runner, socket, batch, lines,
                 request, closer>>

\* The pump of a socket takes all prompts from the outbox and sends them, up to one whose
\* sending fails, which ends the pump.  In no_callbacks mode it then answers by itself, if
\* the prompt is still the pending one.
Drain(s) ==
  /\ s \in pumping
  /\ \E r \in DOMAIN runs : runs[r].at = "asking"
  /\ \E sent \in SUBSET {r \in DOMAIN runs : runs[r].at = "asking"} :
       \E replied \in IF case_run_mode = "no_callbacks" /\ _pending_prompt_id \in sent
                       THEN Waiting ELSE {None} :
         /\ runs' = [r \in DOMAIN runs |->
                       IF r = replied THEN [runs[r] EXCEPT !.at = "answered"]
                       ELSE IF runs[r].at = "asking" THEN [runs[r] EXCEPT !.at = "taken"]
                       ELSE runs[r]]
         /\ pumping' = IF \A r \in DOMAIN runs : runs[r].at = "asking" => r \in sent
                       THEN pumping ELSE pumping \ {s}
  /\ UNCHANGED <<registered, _pending_prompt_id, record, usage_tracker, runner, socket, batch,
                 lines, request, closer>>

\* Sending an event fails, which ends the pump too.
PumpReturns(s) ==
  /\ s \in pumping
  /\ pumping' = pumping \ {s}
  /\ UNCHANGED <<registered, _pending_prompt_id, record, usage_tracker, runner, runs, socket,
                 batch, lines, request, closer>>

\* run_agent returns, and test_teardown follows, which may raise; or run_agent raises.
Leave(r) ==
  /\ runs[r].at \in {"running", "resumed"}
  /\ \/ \E ok \in {TRUE, ~runs[r].module} :
          runs' = [runs EXCEPT ![r].at = "left", ![r].ok = ok, ![r].cleaned = runs[r].module]
     \/ runs' = [runs EXCEPT ![r].at = "left"]
  /\ UNCHANGED <<registered, comm, record, usage_tracker, runner, socket, batch, lines, request,
                 closer>>

\* The end of run_once: publish session_finished and return or raise.
Finish(r) ==
  /\ runs[r].at = "left"
  /\ runs' = [runs EXCEPT ![r].at = "over"]
  /\ usage_tracker' = Finalized(r)
  /\ _last_usage_summary' = [NoUsage EXCEPT !.calls = Totals(r)]
  /\ UNCHANGED <<registered, comm, record, _last_setup_module, _suite_teardown_done, socket, batch,
                 lines, request, closer>>

RunStep(r) ==
  \/ LoadSetup(r) \/ SetUp(r) \/ CallModel(r)
  \/ Ask(r) \/ Resume(r) \/ Leave(r) \/ Finish(r)

-----------------------------------------------------------------------------
(* A web socket: session_socket. *)

Connect(s) ==
  /\ socket[s].at = "absent"
  /\ socket' = [socket EXCEPT ![s].at = IF registered THEN "receiving" ELSE "closed"]
  /\ pumping' = IF registered THEN pumping \cup {s} ELSE pumping
  /\ UNCHANGED <<registered, _pending_prompt_id, record, usage_tracker, runner, runs, batch,
                 lines, request, closer>>

\* What a run message leaves in the record before the run is submitted.
Seed(mode) ==
  /\ case_run_mode' = mode
  /\ last_run_prompts' = [run |-> Len(runs) + 1, seen |-> FALSE]
  /\ last_run_result' = None
  /\ last_usage_summary' = None
  /\ usage_tracker' = NoUsage

RunMessage(s, mode) ==
  /\ socket[s].at = "receiving"
  /\ Cardinality({r \in DOMAIN runs : runs[r].by \in Socket}) < MaxMessages
  /\ Seed(mode)
  /\ Submit(s, mode)
  /\ socket' = [socket EXCEPT ![s] = [at |-> "running", run |-> Len(runs) + 1]]
  /\ UNCHANGED <<registered, comm, runner, batch, lines, request, closer>>

\* SessionRecord's tracker at the moment of a snapshot.
Snapshot == usage_tracker

\* _current_usage_summary: the runner's last summary, whichever run it is of.
CurrentUsageSummary == IF _last_usage_summary # None THEN _last_usage_summary ELSE Snapshot

\* The await of the run ends; sending the answer may fail, which ends the socket.
RunReturns(s) ==
  /\ socket[s].at = "running" /\ ~InProgress(socket[s].run)
  /\ IF runs[socket[s].run].ok
     THEN /\ last_run_result' = socket[s].run
          /\ last_usage_summary' = Snapshot
     ELSE /\ last_usage_summary' = CurrentUsageSummary
          /\ UNCHANGED last_run_result
  /\ \E next \in {"receiving", "ended"} : socket' = [socket EXCEPT ![s].at = next]
  /\ UNCHANGED <<registered, comm, last_run_prompts, case_run_mode, usage_tracker, runner, runs,
                 batch, lines, request, closer>>

\* The loop sees a disconnect only while it receives.
Disconnect(s) ==
  /\ socket[s].at = "receiving"
  /\ socket' = [socket EXCEPT ![s].at = "ended"]
  /\ UNCHANGED <<registered, comm, record, usage_tracker, runner, runs, batch, lines, request,
                 closer>>

-----------------------------------------------------------------------------
(* Finalizing: cancel_wait, then suite_teardown_if_any. *)

\* Cancels the wait for the user, of whichever run it is.
CancelWait == Put

\* Reads the flag and the module, then calls the module's suite_teardown.
CheckTeardown(c) ==
  closer' = [closer EXCEPT ![c] =
    IF _suite_teardown_done \/ _last_setup_module = None THEN [at |-> "done", module |-> None]
    ELSE [at |-> "tearing", module |-> _last_setup_module]]

Close ==
  /\ closer["close"].at = "open" /\ registered
  /\ registered' = FALSE
  /\ CancelWait
  /\ CheckTeardown("close")
  /\ UNCHANGED <<comm, record, usage_tracker, runner, socket, batch, lines, request>>

\* A pump that died of any other exception than the two it expects raises it again where
\* the handler awaits it, before the wait is cancelled.
EndSocket(s) ==
  /\ socket[s].at = "ended"
  /\ socket' = [socket EXCEPT ![s].at = "closed"]
  /\ \/ CancelWait /\ CheckTeardown(s)
     \/ s \notin pumping /\ UNCHANGED <<runs, closer>>
  /\ pumping' = pumping \ {s}
  /\ UNCHANGED <<registered, _pending_prompt_id, record, usage_tracker, runner, batch, lines,
                 request>>

\* The hook ran, or raised, and the flag is set.
TearDown(c) ==
  /\ closer[c].at = "tearing"
  /\ closer' = [closer EXCEPT ![c].at = "done"]
  /\ runs' = [runs EXCEPT ![closer[c].module].torn = @ + 1]
  /\ _suite_teardown_done' = TRUE
  /\ UNCHANGED <<registered, comm, record, usage_tracker, _last_setup_module, _last_usage_summary,
                 socket, batch, lines, request>>

-----------------------------------------------------------------------------
(* A batch: evaluate_batch and its stream. *)

RequestBatch(b, mode) ==
  /\ batch[b].at = "absent" /\ registered
  /\ case_run_mode' = mode
  /\ batch' = [batch EXCEPT ![b].at = "next", ![b].case = 1, ![b].mode = mode]
  /\ UNCHANGED <<registered, comm, last_run_prompts, last_run_result, last_usage_summary,
                 usage_tracker, runner, runs, socket, lines, request, closer>>

\* Yields a line for the case and goes on to the next.
Yields(b, line) ==
  /\ lines' = [lines EXCEPT ![b] = Append(@, line)]
  /\ batch' = [batch EXCEPT ![b].case = @ + 1,
                            ![b].at = IF batch[b].case < Cases THEN "next" ELSE "ended"]
ErrorLine(b) ==
  [case |-> batch[b].case, error |-> TRUE, run |-> None, prompts |-> None, result |-> None]

\* A selected index the initializer does not have.
InvalidCase(b) ==
  /\ batch[b].at = "next"
  /\ Yields(b, ErrorLine(b))
  /\ UNCHANGED <<registered, comm, record, usage_tracker, runner, runs, socket, request, closer>>

\* Mutant: the tracker is not reset between cases.
StartCase_Counting(b) ==
  /\ batch[b].at = "next"
  /\ Submit(b, case_run_mode)
  /\ batch' = [batch EXCEPT ![b].at = "running", ![b].run = Len(runs) + 1]
  /\ UNCHANGED <<registered, comm, record, usage_tracker, runner, socket, lines, request, closer>>

StartCase(b) ==
  /\ batch[b].at = "next"
  /\ Submit(b, case_run_mode)
  /\ usage_tracker' = NoUsage
  /\ batch' = [batch EXCEPT ![b].at = "running", ![b].run = Len(runs) + 1]
  /\ UNCHANGED <<registered, comm, record, runner, socket, lines, request, closer>>

\* The run's result becomes the record's; a result without the case's field is an error.
CaseRuns(b) ==
  LET r == batch[b].run IN
  /\ batch[b].at = "running" /\ ~InProgress(r)
  /\ \/ /\ runs[r].ok
        /\ last_run_result' = r
        /\ last_usage_summary' = Snapshot
        /\ \/ /\ batch' = [batch EXCEPT ![b].at = "scoring"]
              /\ UNCHANGED lines
           \/ Yields(b, ErrorLine(b))
     \/ /\ ~runs[r].ok
        /\ Yields(b, ErrorLine(b))
        /\ UNCHANGED <<last_run_result, last_usage_summary>>
  /\ UNCHANGED <<registered, comm, last_run_prompts, case_run_mode, usage_tracker, runner, runs,
                 socket, request, closer>>

\* Mutant: the case is scored on what the record holds, as scoring requests do.
CaseInput_Record(b) ==
  [case |-> batch[b].case, error |-> FALSE, run |-> batch[b].run, result |-> last_run_result,
   prompts |-> last_run_prompts]

\* What run_evaluation was given for the case: its own prompts and result.
CaseInput(b) ==
  [case |-> batch[b].case, error |-> FALSE, run |-> batch[b].run, result |-> batch[b].run,
   prompts |-> IF runs[batch[b].run].called THEN [run |-> batch[b].run, seen |-> TRUE]
               ELSE None]

\* Mutant: an evaluator that raises ends the stream.
ScoreCase_Raises(b) ==
  /\ batch[b].at = "scoring"
  /\ \/ Yields(b, CaseInput(b))
     \/ batch' = [batch EXCEPT ![b].at = "ended"] /\ UNCHANGED lines
  /\ UNCHANGED <<registered, comm, record, usage_tracker, runner, runs, socket, request, closer>>

\* Scored by the model and by the case's code, one of whose evaluators may raise.
ScoreCase(b) ==
  /\ batch[b].at = "scoring"
  /\ \/ Yields(b, CaseInput(b))
     \/ Yields(b, ErrorLine(b))
  /\ UNCHANGED <<registered, comm, record, usage_tracker, runner, runs, socket, request, closer>>

BatchStep(b) == InvalidCase(b) \/ StartCase(b) \/ CaseRuns(b) \/ ScoreCase(b)

-----------------------------------------------------------------------------
(* Scoring requests: evaluate_result and evaluate_case. *)

\* 400 without a session or a result.
CheckRequest(e) ==
  /\ request[e].at = "absent"
  /\ request' = [request EXCEPT ![e].at =
       IF registered /\ last_run_result # None THEN "checked" ELSE "refused"]
  /\ UNCHANGED <<registered, comm, record, usage_tracker, runner, runs, socket, batch, lines,
                 closer>>

ReadPrompts(e) ==
  /\ request[e].at = "checked"
  /\ request' = [request EXCEPT ![e].at = "prompted", ![e].prompts = last_run_prompts]
  /\ UNCHANGED <<registered, comm, record, usage_tracker, runner, runs, socket, batch, lines,
                 closer>>

\* The result is read again; None counts as an empty message.
ReadResult(e) ==
  /\ request[e].at = "prompted"
  /\ request' = [request EXCEPT ![e].at = "scored", ![e].result = last_run_result]
  /\ UNCHANGED <<registered, comm, record, usage_tracker, runner, runs, socket, batch, lines,
                 closer>>

-----------------------------------------------------------------------------
Next ==
  \/ Answer \/ \E r \in DOMAIN runs : RunStep(r)
  \/ \E s \in Socket : \/ Connect(s) \/ Drain(s) \/ PumpReturns(s) \/ RunReturns(s)
                       \/ Disconnect(s) \/ EndSocket(s)
                       \/ \E mode \in Modes : RunMessage(s, mode)
  \/ Close
  \/ \E c \in Closer : TearDown(c)
  \/ \E b \in Batch : BatchStep(b) \/ \E mode \in Modes : RequestBatch(b, mode)
  \/ \E e \in Request : CheckRequest(e) \/ ReadPrompts(e) \/ ReadResult(e)

\* Pool threads, the event loop and the pumps go on; nothing is assumed of users,
\* browsers and those who send requests.
Fairness ==
  /\ \A r \in Run : WF_vars(r \in DOMAIN runs /\ RunStep(r))
  /\ \A s \in Socket : WF_vars(Drain(s)) /\ WF_vars(RunReturns(s)) /\ WF_vars(EndSocket(s))
  /\ \A b \in Batch : WF_vars(BatchStep(b))

Spec == Init /\ [][Next]_vars /\ Fairness

-----------------------------------------------------------------------------
(* Properties *)

\* What a batch reports for a case was scored on the prompts and the result of the
\* very run of that case, whatever sockets and other batches do to the record
\* between the run and the scoring (evaluate_batch keeps both to itself).
CasesScoreTheirRun ==
  \A b \in Batch : \A i \in DOMAIN lines[b] :
    LET line == lines[b][i] IN
    ~line.error => /\ line.result = line.run
                   /\ line.prompts # None => line.prompts.run = line.run
                   /\ line.prompts = None => ~runs[line.run].called

\* A result is never kept beside the prompts of a newer run, which a scoring request
\* would pair, unless the two runs were under way together: a socket that starts a run
\* forgets the last result, whoever's it was (session_socket).
ResultIsNotOlder ==
  /\ last_run_result # None /\ last_run_prompts # None
  /\ last_run_result < last_run_prompts.run
  => ~runs[last_run_result].alone

\* The usage kept with the result of a run that was awaited alone counts the calls of
\* no other run: the tracker outlives runs and starts anew with each of them.
UsageOfOneRun ==
  last_run_result # None /\ runs[last_run_result].alone =>
    /\ last_usage_summary.seen \subseteq {last_run_result}
    /\ \A r \in Run \ {last_run_result} : last_usage_summary.calls[r] = 0

\* The run of the batch waits and no pump will answer: there is none, or the prompt was
\* taken from the outbox without a reply, to be shown to the user, in a sending that failed,
\* unseen, or while another run's prompt was the pending one.
Unattended(b) ==
  /\ batch[b].at = "running" /\ batch[b].run \in Waiting
  /\ pumping = {} \/ runs[batch[b].run].at = "taken"

\* Whatever fails in its cases, a batch reports every one of them and ends, unless the
\* user is asked, does not answer, and no pump did (evaluate_batch).
BatchEnds ==
  \A b \in Batch :
    <>[]~Unattended(b) => (batch[b].at # "absent" ~> Len(lines[b]) = Cases)
=============================================================================
