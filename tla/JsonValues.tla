------------------------------ MODULE JsonValues ----------------------------
(***************************************************************************)
(* JSON values, as the code that resolves step references and the one that *)
(* scores results see them.  A value is the set of its nodes, [path, type, *)
(* pieces]: path holds the keys and list positions from the root to the    *)
(* node, and pieces is what a text is made of.  A piece is a {{token}} with*)
(* its dotted path, or plain; a plain piece may show what str() made of a  *)
(* value.  {} is no value at all.                                          *)
(***************************************************************************)
EXTENDS Naturals, Sequences, SequencesExt

Token(path)  == [token |-> TRUE, path |-> path, shows |-> {}]
Plain(shows) == [token |-> FALSE, path |-> <<>>, shows |-> shows]

\* A value in its place below another one.
Under(path, value) == {[node EXCEPT !.path = path \o @] : node \in value}

Node(type, pieces) == {[path |-> <<>>, type |-> type, pieces |-> pieces]}
Holding(type, items) ==
  Node(type, <<>>) \cup UNION {Under(<<key>>, items[key]) : key \in DOMAIN items}

Text(pieces) == Node("text", pieces)
Number       == Node("number", <<>>)
Dict(fields) == Holding("dict", fields)
List(items)  == Holding("list", items)   \* the keys are "0", "1", ...
EmptyText    == Text(<<>>)

Root(value) == CHOOSE node \in value : node.path = <<>>
Is(value, type) == \E node \in value : node.path = <<>> /\ node.type = type

\* What stands at a path.
ValueAt(value, path) ==
  {[node EXCEPT !.path = SubSeq(@, Len(path) + 1, Len(@))] :
     node \in {n \in value : IsPrefix(path, n.path)}}
=============================================================================
