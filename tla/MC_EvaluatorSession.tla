------------------------- MODULE MC_EvaluatorSession ------------------------
(***************************************************************************)
(* Instances of EvaluatorSession, and what documentation or intuition says *)
(* of it that its code does not do; README, deviations.                    *)
(***************************************************************************)
EXTENDS EvaluatorSession

CONSTANTS s1, s2, b1, e1, none

OneSocket  == {s1}
TwoSockets == {s1, s2}
OneBatch   == {b1}
NoBatch    == {}
OneRequest == {e1}
NoRequest  == {}
Initialized == {TRUE}
BothModes  == {"standard", "no_callbacks"}
UnattendedMode == {"no_callbacks"}

\* A scoring request uses the prompts and the result of one run.
ScoredTogether ==
  \A e \in Request : request[e].at = "scored" /\ request[e].prompts # None =>
    request[e].prompts.run = request[e].result

\* "After each case (even on failure)": docs/guides/using-agent-evaluator.md:790.
CleanedUpAfterFailure ==
  \A r \in DOMAIN runs : runs[r].at = "over" /\ runs[r].suite => runs[r].cleaned

\* "Once, before the first test case": docs/guides/using-agent-evaluator.md:788.
SuiteSetUpOnce == Cardinality({r \in DOMAIN runs : runs[r].suite}) <= 1

\* "Suite hooks run once": docs/architecture/agent-evaluator-web-runtime.md:493.
TornDownOnce == \A r \in DOMAIN runs : runs[r].torn <= 1

NoTeardownInARun == \A r \in DOMAIN runs : runs[r].torn > 0 => ~InProgress(r)

\* The cases of a batch run in the mode the batch was requested with.
BatchModeKept ==
  \A r \in DOMAIN runs : runs[r].by \in Batch => runs[r].mode = batch[runs[r].by].mode

\* A call is counted once, however many sockets the session has.
CountedOnce == \A r \in Run : usage_tracker.calls[r] <= 1

\* "so the run completes without user interaction": auto_user_reply.py:23.
NoCallbacksEnds ==
  \A b \in Batch : [](batch[b].at # "absent" => case_run_mode = "no_callbacks") =>
    (batch[b].at # "absent" ~> Len(lines[b]) = Cases)
=============================================================================
