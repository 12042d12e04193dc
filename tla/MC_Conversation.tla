-------------------------- MODULE MC_Conversation ---------------------------
(***************************************************************************)
(* Instances of Conversation for TLC: two callers on one conversation.     *)
(***************************************************************************)
EXTENDS Conversation

CONSTANTS alice, bob

(***************************************************************************)
(* What else the documentation promises and TLC refutes; the README names  *)
(* the constants under which.                                              *)
(***************************************************************************)

\* A conversation holds every row once, also those of run_tool_loop, which passes
\* conversation_id through to complete_async.
LoopsStoredOnce == \A i, j \in DOMAIN _store : _store[i] = _store[j] => i = j
=============================================================================
