---------------------------- MODULE StepReferences --------------------------
(***************************************************************************)
(* How the parameters of a plan step take up the results of earlier steps: *)
(* resolve, of src/agent_framework/planning/step_reference.py.  params and *)
(* results are functions from names to values.                             *)
(***************************************************************************)
EXTENDS Inputs, JsonValues

\* _lookup_token: results of steps come before parameters of the invocation; an empty
\* text stands for what is missing.
Lookup(path, params, results) ==
  LET root  == Head(path)
      found == IF root \in DOMAIN results THEN ValueAt(results[root], Tail(path))
               ELSE IF root \in DOMAIN params THEN ValueAt(params[root], Tail(path))
               ELSE {}
  IN IF found = {} THEN EmptyText ELSE found

\* str(value): a text as it is, pieces that look like tokens included.
Shown(value) == IF Is(value, "text") THEN Root(value).pieces ELSE <<Plain(value)>>

\* What stands for a piece in a longer text.
PutIn(piece, params, results) ==
  IF piece.token THEN Shown(Lookup(piece.path, params, results)) ELSE <<piece>>

\* _resolve_string: a text that is one token keeps the type of what it names; in any
\* other text tokens are replaced by text.  What is put in is not looked at again.
ResolveString(pieces, params, results) ==
  IF Len(pieces) = 1 /\ pieces[1].token THEN Lookup(pieces[1].path, params, results)
  ELSE Text(FlattenSeq([i \in DOMAIN pieces |-> PutIn(pieces[i], params, results)]))

ResolveNode(node, params, results) ==
  IF node.type = "text" THEN Under(node.path, ResolveString(node.pieces, params, results))
  ELSE {node}

\* Mutant: what was put in is resolved in its turn.
Resolve_Twice(value, params, results) ==
  LET once == UNION {ResolveNode(node, params, results) : node \in value}
  IN UNION {ResolveNode(node, params, results) : node \in once}

\* resolve: through dicts and lists to every text.
Resolve(value, params, results) == UNION {ResolveNode(node, params, results) : node \in value}

-----------------------------------------------------------------------------
(* Properties *)

\* A value in which no token is left: each is struck out, also out of what is shown.
TokenStruck(piece) == IF piece.token THEN Plain({}) ELSE piece
ShownStruck(node)  == [node EXCEPT !.pieces = [i \in DOMAIN @ |-> TokenStruck(@[i])]]
PieceStruck(piece) ==
  IF piece.token THEN Plain({}) ELSE [piece EXCEPT !.shows = {ShownStruck(node) : node \in @}]
NodeStruck(node)   == [node EXCEPT !.pieces = [i \in DOMAIN @ |-> PieceStruck(@[i])]]
Struck(value)      == {NodeStruck(node) : node \in value}

AllStruck(values) == [name \in DOMAIN values |-> Struck(values[name])]

\* What a tool, a child agent or the user has put in braces is data: to strike the tokens
\* out of all results and parameters before a step is resolved gives what striking them
\* out of the resolved step gives.  So a result can never make a later step read another
\* result, and every token the plan itself has written is replaced.
DataIsNotResolved(value, params, results) ==
  Struck(Resolve(value, params, results)) = Resolve(value, AllStruck(params), AllStruck(results))

ResultsAreData == asked = "steps" => DataIsNotResolved(given[1], given[2], given[3])
=============================================================================
