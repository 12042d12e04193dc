-------------------------- MODULE MC_UsageTracking --------------------------
(***************************************************************************)
(* Instances of UsageTracking for TLC: a root with two children, one of    *)
(* which has a child of its own.                                           *)
(***************************************************************************)
EXTENDS UsageTracking

CONSTANTS root, left, right, leaf

Family  == {root, left, right, leaf}
Chain   == {root, left, leaf}
Parents == [r \in Run |-> IF r = root THEN None ELSE IF r = leaf THEN left ELSE root]

(***************************************************************************)
(* What else the documentation promises and TLC refutes; the README names  *)
(* the constants under which.                                              *)
(***************************************************************************)

\* When no addition is under way, the session's total is that of all runs
\* (RuntimeUsageTracker.session_totals).
SessionIsSum == (\A r \in Run : adding[r] = None) => _session_totals = Tokens(Run)

\* A report covers the subtree, whatever the responses say (using-agent-framework.md:1667).
AlwaysCovers == \A r \in Run : status[r] = "reported" => reported[r] >= due[r]
=============================================================================
