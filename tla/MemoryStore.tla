---------------------------- MODULE MemoryStore ----------------------------
(***************************************************************************)
(* Memory shared by the runs of one host: the in-memory backend            *)
(* (src/agent_framework/memory.py), the host's operations on it            *)
(* (src/agent_framework/host.py) and the memory tools                      *)
(* (src/agent_framework/memory_tools.py).                                  *)
(*                                                                         *)
(* Calls of child agents run on threads of their own.  A parameter that is *)
(* too large is stored when the call is made and replaced by its uri; the  *)
(* child reads it whenever a prompt is built.  Meanwhile the models put    *)
(* and update notes, at whatever uri they name.  The backend is a dict     *)
(* without a lock, so one of its operations is atomic and two are not.     *)
(***************************************************************************)
EXTENDS Naturals, FiniteSets

CONSTANTS
  Call,              \* calls of child agents
  None,              \* Python's None
  Parameter,         \* [Call -> [run, child, name, size, uri]]: the one parameter of the call,
                     \*   by whose run, for which agent; size is "big", "small" or "uri"
  Session,           \* the session's scope
  ConfiguredScopes,  \* global, group and use_case scopes of the HostConfig
  AgentScopes,       \* with memory_enable_agent_scope: [agents -> Scope], else no agents
  Scope, Note,       \* all scopes; paths that are no parameter's
  Stored,            \* entries there are from the beginning
  Writer,            \* bound: calls whose child puts or updates notes
  MaxUpdates         \* bound: how often it does

\* mem://<scope>/<path>; an auto-stored parameter's path is made of run, child and name.
PathName == Note \cup {<<Parameter[c].run, Parameter[c].child, Parameter[c].name>> : c \in Call}
Uri      == [scope : Scope, path : PathName]

ASSUME MemoryAssumption ==
  /\ Session \in Scope /\ ConfiguredScopes \subseteq Scope
  /\ \A c \in Call : Parameter[c].size \in {"big", "small"} \/ (Parameter[c].size = "uri" /\ Parameter[c].uri \in Uri)
  /\ Stored \subseteq Uri
  /\ Writer \subseteq Call /\ MaxUpdates \in Nat

VARIABLES
  _entries,    \* uri -> [content, version, metadata], or None
  pc,          \* the thread of each call: "idle", "called", "running", "ended" or "raised"
  parameter,   \* the uri that is passed on as the call's parameter, None for the value itself
  seen,        \* the parameter's content in the last prompt built for the child
  current,     \* what update_memory has read and not yet put back
  updates,     \* puts and updates the child has made
  kept,        \* uri -> calls whose updates of it since its creation are done
  overtaken,   \* updates of a call that another one was put back over: a set of uris
  crossed      \* calls under way when their parameter's place was written by others

memory_vars == <<_entries, pc, parameter, seen, current, updates, kept, overtaken, crossed>>

Entry(content, version, metadata) == [content |-> content, version |-> version, metadata |-> metadata]

MemoryInit ==
  /\ _entries = [u \in Uri |-> IF u \in Stored THEN Entry("host", 1, {}) ELSE None]
  /\ pc = [c \in Call |-> "idle"]
  /\ parameter = [c \in Call |-> IF Parameter[c].size = "uri" THEN Parameter[c].uri ELSE None]
  /\ seen = [c \in Call |-> None] /\ current = [c \in Call |-> None]
  /\ updates = [c \in Call |-> 0]
  /\ kept = [u \in Uri |-> {}]
  /\ overtaken = [c \in Call |-> {}] /\ crossed = {}

-----------------------------------------------------------------------------
(* Scopes: ConfiguredMemoryScopeResolver.visible_scopes *)

VisibleScopes(agent) ==
  {Session} \cup ConfiguredScopes \cup {AgentScopes[a] : a \in DOMAIN AgentScopes \cap {agent}}

Child(c) == Parameter[c].child

-----------------------------------------------------------------------------
(* Large parameters *)

\* Mutant of Path: the path does not name the child.
Path_NoTarget(c) == <<Parameter[c].run, CHOOSE x \in {Child(d) : d \in Call} : TRUE, Parameter[c].name>>

\* runs/<run_id>/agents/<target>/parameters/<name>
Path(c) == <<Parameter[c].run, Child(c), Parameter[c].name>>

UnderWay(c) == pc[c] \in {"called", "running"}

\* Where the large parameter of the call belongs, whatever Path is made of, and the calls
\* under way whose parameter belongs at the uri.
Place(c)     == [scope |-> Session, path |-> <<Parameter[c].run, Child(c), Parameter[c].name>>]
Readers(uri) == {d \in Call : UnderWay(d) /\ Parameter[d].size = "big" /\ Place(d) = uri}

\* _normalize_memory_parameter_value in the caller: a uri stays, a small value too, a
\* large one is stored over whatever the uri had.
NormalizeParameter(c) ==
  /\ pc[c] = "idle"
  /\ pc' = [pc EXCEPT ![c] = "called"]
  /\ IF Parameter[c].size = "big"
     THEN LET uri == [scope |-> Session, path |-> Path(c)]
          IN  /\ _entries' = [_entries EXCEPT ![uri] = Entry(c, 1, {})]
              /\ parameter' = [parameter EXCEPT ![c] = uri]
              /\ kept' = [kept EXCEPT ![uri] = {}]
              /\ crossed' = crossed \cup Readers(Place(c))
     ELSE UNCHANGED <<_entries, parameter, kept, crossed>>
  /\ UNCHANGED <<seen, current, updates, overtaken>>

\* call_subagent and the child's run normalise once more, under the child's run id:
\* what is stored already, or small, stays as it is.
StartChild(c) ==
  /\ pc[c] = "called"
  /\ pc' = [pc EXCEPT ![c] = "running"]
  /\ UNCHANGED <<_entries, parameter, seen, current, updates, kept, overtaken, crossed>>

\* build_memory_prompt, for each context of the child: a uri in the parameters or the
\* prompt is resolved if its scope is visible; when there is no such entry the run fails.
BuildPrompt(c) ==
  LET uri     == parameter[c]
      visible == uri # None /\ uri.scope \in VisibleScopes(Child(c))
      lost    == visible /\ _entries[uri] = None
  IN  /\ pc[c] = "running" /\ current[c] = None
      /\ pc' = [pc EXCEPT ![c] = IF lost THEN "raised" ELSE "running"]
      /\ seen' = [seen EXCEPT ![c] = IF lost THEN None
                                     ELSE IF visible THEN _entries[uri].content
                                     ELSE IF uri # None THEN None ELSE c]
      /\ UNCHANGED <<_entries, parameter, current, updates, kept, overtaken, crossed>>

EndChild(c) ==
  /\ pc[c] = "running" /\ current[c] = None
  /\ pc' = [pc EXCEPT ![c] = "ended"]
  /\ UNCHANGED <<_entries, parameter, seen, current, updates, kept, overtaken, crossed>>

-----------------------------------------------------------------------------
(* Notes of the models: memory_put, memory_update *)

Writes(c) ==
  /\ pc[c] = "running" /\ c \in Writer /\ updates[c] < MaxUpdates
  /\ updates' = [updates EXCEPT ![c] = @ + 1]

\* store_memory: an entry of the session's scope, over one that is there.
MemoryPut(c) ==
  /\ Writes(c) /\ current[c] = None
  /\ \E path \in PathName :
       LET uri == [scope |-> Session, path |-> path]
       IN  /\ _entries' = [_entries EXCEPT ![uri] = Entry(c, 1, {c})]
           /\ kept' = [kept EXCEPT ![uri] = {}]
           /\ crossed' = crossed \cup Readers(uri)
  /\ UNCHANGED <<pc, parameter, seen, current, overtaken>>

\* update_memory reads the entry.  An unknown uri is an error for the model.
BeginUpdate(c) ==
  /\ Writes(c) /\ current[c] = None
  /\ \E uri \in Uri :
       IF _entries[uri] = None THEN UNCHANGED current
       ELSE current' = [current EXCEPT ![c] = [uri |-> uri, entry |-> _entries[uri], kept |-> kept[uri]]]
  /\ UNCHANGED <<_entries, pc, parameter, seen, kept, overtaken, crossed>>

\* Mutant of Updated: the metadata is replaced.
Updated_NoMerge(c) == Entry(c, current[c].entry.version + 1, {c})

\* The content is replaced, the metadata merged, the version counted from what was read.
Updated(c) == Entry(c, current[c].entry.version + 1, current[c].entry.metadata \cup {c})

\* And writes it back, over what others have written meanwhile.
FinishUpdate(c) ==
  /\ pc[c] = "running" /\ current[c] # None
  /\ LET uri == current[c].uri
     IN  /\ _entries' = [_entries EXCEPT ![uri] = Updated(c)]
         /\ kept' = [kept EXCEPT ![uri] = @ \cup {c}]
         /\ overtaken' = [d \in Call |-> IF d \in kept[uri] \ current[c].kept
                                         THEN overtaken[d] \cup {uri} ELSE overtaken[d]]
         /\ crossed' = crossed \cup Readers(uri)
  /\ current' = [current EXCEPT ![c] = None]
  /\ UNCHANGED <<pc, parameter, seen, updates>>

-----------------------------------------------------------------------------
MemoryNext == \E c \in Call :
  \/ NormalizeParameter(c) \/ StartChild(c) \/ BuildPrompt(c) \/ EndChild(c)
  \/ MemoryPut(c) \/ BeginUpdate(c) \/ FinishUpdate(c)

MemorySpec == MemoryInit /\ [][MemoryNext]_memory_vars

-----------------------------------------------------------------------------
(* Correctness *)

\* Types: entries have the three parts, a parameter is a value or a uri.
MemoryTypeOK ==
  /\ \A u \in Uri : _entries[u] # None => (_entries[u].version \in Nat \ {0} /\ _entries[u].metadata \subseteq Call)
  /\ pc \in [Call -> {"idle", "called", "running", "ended", "raised"}]
  /\ \A c \in Call : parameter[c] \in Uri \cup {None}

\* A child reads the parameter it was called with, however often it was normalised on
\* the way and whatever else is stored meanwhile; the only thing that can get between is
\* what is written at the place of that very parameter before the call has ended: by a
\* call of the same child by the same run with that parameter, or by a model's put or
\* update there.
ParametersArrive ==
  \A c \in Call : (seen[c] # None /\ Parameter[c].size # "uri") =>
    (seen[c] = c \/ (Parameter[c].size = "big" /\ c \in crossed))

\* What an update adds to the metadata of an entry stays until the entry is created anew,
\* unless an update that had read the entry before was put back after it.
UpdatesStay ==
  \A u \in Uri : \A c \in kept[u] :
    _entries[u] # None /\ (c \in _entries[u].metadata \/ u \in overtaken[c])
=============================================================================
