----------------------------- MODULE MC_Requests ----------------------------
(***************************************************************************)
(* What goes into a request to the model and what comes of it: the calls   *)
(* of the model drivers, and the functions that prepare requests and judge *)
(* results, which are evaluated on small inputs.  A state either has calls *)
(* or an input; the steps are those of the calls.                          *)
(***************************************************************************)
EXTENDS ModelDrivers, StepReferences, ModelMessages, PromptReferences, PromptEvaluation, Catalogs

CONSTANTS c1, c2

UpTo(n, S) == UNION {[1..k -> S] : k \in 0..n}

-----------------------------------------------------------------------------
(* Inputs *)

\* Step references: results and parameters may themselves contain tokens.
Pieces == <<Token(<<"s">>), Token(<<"p">>), Token(<<"s", "k">>), Token(<<"s", "0">>), Token(<<"x">>), Plain({})>>
Data   == <<Number, Text(<<Pieces[2]>>), Text(<<Pieces[1], Pieces[6]>>),
            Dict([k |-> Text(<<Pieces[2]>>)]), List([x \in {"0"} |-> Text(<<Pieces[2]>>)])>>
Template(n, m) == Dict([k |-> Text([i \in DOMAIN n |-> Pieces[n[i]]]),
                        l |-> List([x \in {"0", "1"} |-> IF x = "0" THEN Text(<<Pieces[m]>>) ELSE Number])])
Steps(n, m, p, s) == {<<Template(n, m), [p |-> Data[p]], results>> :
                        results \in {[s |-> Data[s]], [s |-> Data[s], p |-> Data[s]]}}

\* Prompt references: documents of up to four headings.
Headings == [level : 1..3, title : {"A", "B"}]
Specs    == {[path |-> <<"A">>, title |-> ""], [path |-> <<"A", "B">>, title |-> ""], [path |-> <<>>, title |-> "B"]}
Composes == [include : {{}} \cup {{s} : s \in Specs}, exclude : {{}} \cup {{s} : s \in Specs}]
Blocks   == [tag : {"loose", "workflow_system", "phase"}]

\* Conversations, results and evaluators' answers.
Messages == [role : {"system", "user", "assistant"}, text : {"", "t"}]
Results  == {EmptyText, Dict([message |-> EmptyText]), Dict([response |-> Dict([x |-> Number])])}
Answer(kind, score, numeric) ==
  [kind |-> kind, score |-> score, numeric |-> numeric, evaluation |-> <<>>, hits |-> 1, misses |-> 1]
LlmAnswers  == {Answer("error", 0, TRUE), Answer("object", 0, FALSE)} \cup {Answer("object", n, TRUE) : n \in {-1, 0, 1, 10, 12}}
CodeAnswers == {Answer("none", 0, TRUE), Answer("other", 0, TRUE), Answer("object", 0, TRUE), Answer("object", 5, FALSE)}

\* Files of scenes.
Judges == {[text |-> t, score |-> 10] : t \in {<<"object">>, <<"fence", "object", "fence">>, <<"object", "word">>}}
          \cup {[text |-> <<"word", "object", "word">>, score |-> 0], [text |-> <<"object">>, score |-> None]}
Scenes == [has_input : {TRUE}, output : {"object", "array", "prose", "raises"},
           format : {"", "json", "json_object", "validate_json_output"}, judge : Judges]
          \cup [has_input : {FALSE}, output : {"object"}, format : {""}, judge : {[text |-> <<"object">>, score |-> 10]}]
File(scenes, whole) == [scenes |-> scenes, evaluator |-> whole, schema |-> TRUE]

\* Memory entries by uri, files and tagged prompts.
Entries(f) == {[uri |-> n, scope |-> f[n].scope, rank |-> f[n].rank] : n \in DOMAIN f}
ServerFiles(on) == UNION {[S -> {"off", "broken", "no object", on}] : S \in SUBSET {"a", "b"}}
ParameterSpecs == {[name |-> "p", required |-> TRUE, default |-> None],
                   [name |-> "skill_name", required |-> TRUE, default |-> None]}
Said(skill) == {<<>>, [skill_name |-> skill]}
Tags  == [name : {"p", "skill_name"}, text : {"?", "unreadable", "invalid", "v"}, says : Said("Stealth")]
Seeds == {<<>>} \cup [{"p"} -> {"s", "invalid"}] \cup [{"p", "skill_name"} -> {"s"}]
NewTags == [name : {"p"}, text : {"w"}, says : Said("Arcana")]

-----------------------------------------------------------------------------
Idle == DriverInit /\ driver = "openai"

MCInit ==
  \/ asked = "model" /\ given = None /\ DriverInit
  \/ asked = "steps" /\ \E n \in UpTo(2, 1..6), m \in {1, 3}, p, s \in 1..5 : given \in Steps(n, m, p, s) /\ Idle
  \/ asked = "sections" /\ given \in UpTo(4, Headings) \X Composes /\ Idle
  \/ asked = "blocks" /\ given \in UpTo(3, Blocks) /\ Idle
  \/ asked = "messages" /\ given \in {"dial", "openai"} \X UpTo(3, Messages) /\ Idle
  \/ asked = "scores" /\ given \in Results \X {<<>>, <<"message">>, <<"x">>} \X LlmAnswers \X UpTo(2, CodeAnswers) /\ Idle
  \/ asked = "scenes" /\ given \in {File(f, b) : f \in UpTo(2, Scenes), b \in BOOLEAN} \X {"AgentHost", "other"} /\ Idle
  \/ asked = "judge" /\ given \in UpTo(3, {"fence", "object", "word"}) /\ Idle
  \/ asked = "memory" /\ given \in {Entries(f) : f \in UpTo(3, [scope : {"s", "t"}, rank : {0, 1, 3}])} \X {{}, {"s"}} \X (1..2) /\ Idle
  \/ asked = "skills" /\ given \in UpTo(3, [priority : 0..1, size : {1, 3}]) \X {1, 3, 5} /\ Idle
  \/ asked = "servers" /\ given \in ServerFiles("user") \X ServerFiles("project") \X ServerFiles("explicit") /\ Idle
  \/ asked = "answer" /\ given \in {ParameterSpecs} \X UpTo(3, Tags) \X Seeds \X NewTags /\ Idle

MCNext == asked = "model" /\ DriverNext /\ UNCHANGED <<asked, given>>

MCSpec ==
  /\ MCInit /\ [][MCNext]_<<driver_vars, asked, given>>
  /\ \A c \in Call : WF_driver_vars(asked = "model" /\ CallStep(c) /\ UNCHANGED <<asked, given>>)

-----------------------------------------------------------------------------
(* Claims that do not hold; the README lists them. *)

\* "tries gpt-4o first ... falls back to gpt-4o-mini for that request":
\* docs/guides/using-agent-framework.md:1265.
FirstModelFirst == \A c \in Call : call[c].at \in {"look", "send"} => 0 \in call[c].tried

\* "A cached client from a previous loop must not be reused": drivers/dial.py:423.
ClientOfOwnLoop == \A c \in Call : call[c].at = "send" /\ driver = "dial" => call[c].client = c

\* "HTTP 400 retry" is one more request: drivers/dial.py:12.
PostsBounded == \A c \in Call : call[c].posts + call[c].attempt <= MaxAttempts

\* "optionally narrowed to one explicit scope": host.py:1222.  A scope that is not
\* visible narrows to nothing, and no scopes mean all entries.
NarrowingNarrows ==
  asked = "memory" =>
    LET scopes == Narrowed({"s"}, "t")
    IN \A e \in ListRefs(given[1], scopes, given[3]) : e.scope = "t"

\* "Creates a recording host from an existing AgentHost, copying all fields":
\* docs/architecture/tracing-evaluation.md:305.  No scene of an XML file is ever run on
\* an AgentHost.
SceneIsRun ==
  asked = "scenes" /\ given[2] = "AgentHost" =>
    \A i \in DOMAIN given[1].scenes : AgentOutput(given[2], given[1].scenes[i]) = given[1].scenes[i].output

\* '"format_evaluation": "validate_json_output"': docs/architecture/tracing-evaluation.md:360.
DocumentedFormat == asked = "scenes" => FormatScore("validate_json_output", "object") = 10

\* An answer changes no other parameter: a phrase in it may.
OthersUnchanged ==
  asked = "answer" =>
    LET values(prompt) == {v \in ParameterState(given[1], prompt, given[3]).values : v[1] # given[4].name}
    IN ~ParameterState(given[1], given[2], given[3]).raises => values(Append(given[2], given[4])) = values(given[2])

\* A server that the most specific file sets to null is not offered.
NullTurnsOff ==
  asked = "servers" =>
    \A n \in DOMAIN given[3] : given[3][n] = "no object" => n \notin DOMAIN McpServers(given[1], given[2], given[3])
=============================================================================
