--------------------------- MODULE MC_UserPrompts ---------------------------
(***************************************************************************)
(* Instances of UserPrompts for TLC: runs of one thread, and of two.       *)
(***************************************************************************)
EXTENDS UserPrompts

CONSTANTS main, other

OneThread  == {main}
TwoThreads == {main, other}

(***************************************************************************)
(* What else the documentation promises and TLC refutes; the README names  *)
(* the constants under which.                                              *)
(***************************************************************************)

\* Losing the web socket ends the waits of the session (cancel_wait).
DisconnectEndsWaits == \A t \in Thread : ~connected /\ at[t] = "waiting" ~> at[t] # "waiting"

\* In no_callbacks mode no run waits for the user: every prompt is answered
\* (reply_text_for_outbox_item).
RunsWithoutUser ==
  \A t \in Thread :
    at[t] = "asking" /\ case_run_mode = "no_callbacks" ~> at[t] = "idle"

\* In no_callbacks mode a prompt that the browser was sent gets its answer: a batch may turn
\* the session to that mode when the prompt was sent already.
ShownIsAnswered ==
  \A p \in Prompt :
    p \in shown /\ case_run_mode = "no_callbacks" ~> answer[p] # Unanswered
=============================================================================
