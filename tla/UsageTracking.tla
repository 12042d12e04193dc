---------------------------- MODULE UsageTracking ---------------------------
(***************************************************************************)
(* The token usage of a session's runs: RuntimeUsageTracker                *)
(* (src/agent_framework/usage_tracking.py), called by the host when a run  *)
(* starts, from the model driver's response callback, and when a run ends. *)
(*                                                                         *)
(* A child run's id is made of its parent's and its agent's, so a parent   *)
(* that calls an agent again starts the same run id again.  Every model    *)
(* response counts one token; the five counters of UsageTotals behave      *)
(* alike.                                                                  *)
(***************************************************************************)
EXTENDS Absent, Integers, Sequences, FiniteSetsExt

CONSTANTS
  Run,           \* run ids
  Parent,        \* the run a run id is derived from, None for the root
  Concurrent,    \* children of one parent may run at the same time (a batch)
  Orphans,       \* a batch may time out: its parent goes on before its children end
  MaxStarts,     \* bound: how often one run id is started
  MaxCalls       \* bound: model responses of the session

ASSUME UsageAssumption ==
  /\ Parent \in [Run -> Run \cup {None}]
  /\ None \notin Run \cup Nat
  /\ {Concurrent, Orphans} \subseteq BOOLEAN
  /\ {MaxStarts, MaxCalls} \subseteq Nat

VARIABLES
  status,            \* per run: idle, running, finishing (finish_run), reported, done
  starts,            \* per run: how often it was started
  child_run_ids,     \* per run: the list of the tracker's node
  self_totals,       \* per run: tokens of its own calls
  inclusive_totals,  \* per run: the cached total, or None
  _session_totals,
  adding,            \* per run: the session total its thread read and will add to
  stack,             \* per run: the frames of _compute_inclusive, outermost first
  cached_callers,    \* history: the runs that called a child with their own total cached
  used,              \* history, per run: tokens of the run and its descendants so far
  due,               \* history, per run: what it was at finish_run
  reported           \* per run: the last usage_inclusive, -1 before the first

nodes     == <<child_run_ids, self_totals, inclusive_totals>>
lifecycle == <<status, starts>>
reports   == <<used, due, reported>>
usage_vars == <<lifecycle, nodes, _session_totals, adding, stack, cached_callers, reports>>

\* The runs r is a descendant of, and r: whatever holds r and with a run its parent.
Lineage(r) ==
  {a \in Run : \A S \in SUBSET Run :
                 r \in S /\ (\A x \in S : Parent[x] # None => Parent[x] \in S) => a \in S}
Descendants(r) == {d \in Run : r \in Lineage(d)}
Tokens(runs) == MapThenSumSet(LAMBDA r : self_totals[r], runs)

Active(r) == status[r] \notin {"idle", "done"}
Children(r) == {c \in Run : Parent[c] = r}

\* A run waits for the children it called; a batch that times out waits no more.
Free(r) ==
  /\ status[r] = "running"
  /\ adding[r] = None
  /\ Orphans \/ \A c \in Children(r) : ~Active(c)

UsageInit ==
  /\ status = [r \in Run |-> "idle"]
  /\ starts = [r \in Run |-> 0]
  /\ child_run_ids = [r \in Run |-> <<>>]
  /\ self_totals = [r \in Run |-> 0]
  /\ inclusive_totals = [r \in Run |-> None]
  /\ _session_totals = 0
  /\ adding = [r \in Run |-> None]
  /\ stack = [r \in Run |-> <<>>]
  /\ cached_callers = {}
  /\ used = [r \in Run |-> 0]
  /\ due = [r \in Run |-> 0]
  /\ reported = [r \in Run |-> -1]

\* The parent's list after record_run_started.
WithChild(list, r) == IF \E i \in DOMAIN list : list[i] = r THEN list ELSE Append(list, r)

\* register_run of a root or of a child its parent calls.  Nothing is done to the total
\* cached for the parent: only a response with usage drops it.
StartRun(r) ==
  LET p == Parent[r]
  IN  /\ status[r] \in {"idle", "done"}
      /\ starts[r] < MaxStarts
      /\ p = None => starts[r] = 0
      /\ p # None =>
           /\ status[p] = "running"
           /\ adding[p] = None
           /\ Concurrent \/ \A c \in Children(p) : ~Active(c)
      /\ status' = [status EXCEPT ![r] = "running"]
      /\ starts' = [starts EXCEPT ![r] = @ + 1]
      /\ child_run_ids' =
           [q \in Run |-> IF q = p THEN WithChild(child_run_ids[q], r) ELSE child_run_ids[q]]
      /\ cached_callers' = cached_callers \cup {q \in Run : q = p /\ inclusive_totals[q] # None}
      /\ UNCHANGED <<self_totals, inclusive_totals, _session_totals, adding, stack, reports>>

\* Mutant of AfterUsage: the cache of the run is not dropped.
AfterUsage_Kept(cached) == cached

\* The node's cache after record_llm_usage.
AfterUsage(cached) == None

\* record_llm_usage of a response that says its usage, up to the read of the session's
\* counter; one that does not say it returns at once, which is no step ...
RecordUsage(r) ==
  /\ Free(r)
  /\ Tokens(Run) < MaxCalls
  /\ self_totals' = [self_totals EXCEPT ![r] = @ + 1]
  /\ inclusive_totals' = [inclusive_totals EXCEPT ![r] = AfterUsage(@)]
  /\ adding' = [adding EXCEPT ![r] = _session_totals]
  /\ used' = [q \in Run |-> IF q \in Lineage(r) THEN used[q] + 1 ELSE used[q]]
  /\ UNCHANGED <<status, starts, child_run_ids, _session_totals, stack, cached_callers, due, reported>>

\* The counter after the addition.
Added(total) == total + 1

\* ... and its write, with no lock in between.
AddToSession(r) ==
  /\ adding[r] # None
  /\ _session_totals' = Added(adding[r])
  /\ adding' = [adding EXCEPT ![r] = None]
  /\ UNCHANGED <<lifecycle, nodes, stack, cached_callers, reports>>

(***************************************************************************)
(* finish_run.  A frame holds the node, its sum so far and the index of    *)
(* the next child.                                                         *)
(***************************************************************************)

Frame(r) == [node |-> r, sum |-> self_totals[r], next |-> 1]
Top(r) == stack[r][Len(stack[r])]
Below(r) == SubSeq(stack[r], 1, Len(stack[r]) - 1)

Plus(frames, n) ==
  [frames EXCEPT ![Len(frames)] = [node |-> @.node, sum |-> @.sum + n, next |-> @.next + 1]]

\* A run ends, normally or by an exception, or after_run asks for its usage.
BeginFinish(r) ==
  /\ Free(r)
  /\ status' = [status EXCEPT ![r] = "finishing"]
  /\ due' = [due EXCEPT ![r] = used[r]]
  /\ stack' = [stack EXCEPT ![r] = IF inclusive_totals[r] = None THEN <<Frame(r)>> ELSE <<>>]
  /\ UNCHANGED <<starts, nodes, _session_totals, adding, cached_callers, used, reported>>

\* The next child of the innermost frame: its cache, or a frame of its own.
VisitChild(r) ==
  /\ stack[r] # <<>>
  /\ Top(r).next \in DOMAIN child_run_ids[Top(r).node]
  /\ LET c == child_run_ids[Top(r).node][Top(r).next]
     IN  stack' = [stack EXCEPT ![r] =
                     IF inclusive_totals[c] = None THEN Append(stack[r], Frame(c))
                                                   ELSE Plus(stack[r], inclusive_totals[c])]
  /\ UNCHANGED <<lifecycle, nodes, _session_totals, adding, cached_callers, reports>>

\* The innermost frame caches its sum and returns it to the one around it.
CloseFrame(r) ==
  /\ stack[r] # <<>>
  /\ Top(r).next \notin DOMAIN child_run_ids[Top(r).node]
  /\ inclusive_totals' = [inclusive_totals EXCEPT ![Top(r).node] = Top(r).sum]
  /\ stack' = [stack EXCEPT ![r] = IF Below(r) = <<>> THEN <<>> ELSE Plus(Below(r), Top(r).sum)]
  /\ reported' = [reported EXCEPT ![r] = IF Below(r) = <<>> THEN Top(r).sum ELSE @]
  /\ status' = [status EXCEPT ![r] = IF Below(r) = <<>> THEN "reported" ELSE @]
  /\ UNCHANGED <<starts, child_run_ids, self_totals, _session_totals, adding, cached_callers, used, due>>

\* The cache of the run itself answers.
ReportCached(r) ==
  /\ status[r] = "finishing"
  /\ stack[r] = <<>>
  /\ reported' = [reported EXCEPT ![r] = inclusive_totals[r]]
  /\ status' = [status EXCEPT ![r] = "reported"]
  /\ UNCHANGED <<starts, nodes, _session_totals, adding, stack, cached_callers, used, due>>

\* The run is over, or its post-agent hook makes it go on.
Leave(r) ==
  /\ status[r] = "reported"
  /\ \E s \in {"done", "running"} : status' = [status EXCEPT ![r] = s]
  /\ UNCHANGED <<starts, nodes, _session_totals, adding, stack, cached_callers, reports>>

UsageNext ==
  \E r \in Run :
    \/ StartRun(r)
    \/ RecordUsage(r)
    \/ AddToSession(r)
    \/ BeginFinish(r)
    \/ VisitChild(r)
    \/ CloseFrame(r)
    \/ ReportCached(r)
    \/ Leave(r)

UsageSpec == UsageInit /\ [][UsageNext]_usage_vars

(***************************************************************************)
(* Properties.                                                             *)
(***************************************************************************)

\* Every variable has its type, and a run computes only nodes of its own subtree.
UsageTypeOK ==
  /\ status \in [Run -> {"idle", "running", "finishing", "reported", "done"}]
  /\ starts \in [Run -> 0..MaxStarts]
  /\ \A r \in Run : \A i \in DOMAIN child_run_ids[r] : Parent[child_run_ids[r][i]] = r
  /\ self_totals \in [Run -> 0..MaxCalls]
  /\ inclusive_totals \in [Run -> 0..MaxCalls \cup {None}]
  /\ _session_totals \in 0..MaxCalls
  /\ adding \in [Run -> 0..MaxCalls \cup {None}]
  /\ cached_callers \subseteq Run
  /\ {used, due} \subseteq [Run -> 0..MaxCalls]
  /\ reported \in [Run -> -1..MaxCalls]
  /\ \A r \in Run : \A i \in DOMAIN stack[r] : stack[r][i].node \in Descendants(r)

\* usage_inclusive covers the run and all its descendants: everything they used before
\* finish_run was called, however often a run id was started, continued and reported
\* before.  Left out are runs with one in their subtree that called a child with its own
\* total still cached: it had reported, went on, and no response said its usage since.
InclusiveCoversDescendants ==
  \A r \in Run : status[r] = "reported" /\ Descendants(r) \cap cached_callers = {} => reported[r] >= due[r]

\* Nothing is counted twice, in a run's total or in the session's, however often a run
\* id is started or reported.
NothingCountedTwice ==
  /\ \A r \in Run : reported[r] <= used[r]
  /\ _session_totals <= Tokens(Run)
=============================================================================
