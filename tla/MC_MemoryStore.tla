--------------------------- MODULE MC_MemoryStore ---------------------------
(***************************************************************************)
(* Instance of MemoryStore for TLC: one run that calls one child twice and *)
(* another one once, with large parameters of one name, and a last child   *)
(* with the uri of a note.                                                 *)
(***************************************************************************)
EXTENDS MemoryStore

CONSTANTS c1, c2, c3, c4, session, global, group, note

Large(child) == [run |-> "run", child |-> child, name |-> "deck", size |-> "big", uri |-> None]
Parameters   == [c \in Call |->
  CASE c = c1 -> Large("reader") [] c = c2 -> Large("writer") [] c = c3 -> Large("reader")
    [] OTHER -> [Large("critic") EXCEPT !.size = "uri", !.uri = [scope |-> session, path |-> note]]]

CriticScope == [a \in {"critic"} |-> group]

\* An entry of a scope that only the critic may see.
StoredEntries == {[scope |-> group, path |-> note]}

(***************************************************************************)
(* What the documentation says and TLC refutes.                            *)
(***************************************************************************)

\* A large parameter is "automatically moved into memory and replaced with a reference":
\* of two calls of one batch to the same child the first reads the second's.
AlwaysArrives == \A c \in Call : (seen[c] # None /\ Parameter[c].size = "big") => seen[c] = c

\* "bump its version": two updates at once may leave a version lower than one before.
VersionsGrow ==
  [][\A u \in Uri : (_entries[u] # None /\ _entries'[u] # None /\ kept[u] \subseteq kept'[u])
        => _entries'[u].version >= _entries[u].version]_memory_vars
=============================================================================
