-------------------------- MODULE PromptEvaluation --------------------------
(***************************************************************************)
(* Evaluation of a file of scenes: AgentPromptEvaluator (XML) and          *)
(* OpenAiConversationEvaluator (JSON), src/agent_framework/evaluator.py.   *)
(*                                                                         *)
(* Scores are numbers; what Python divides by two is kept as a sum.  What  *)
(* an agent or a model has written is "object", "array" or "prose" as      *)
(* json.loads sees it, or "raises"; a judge's text is a sequence of lines, *)
(* each a "fence", an "object" with everything between its braces, or a    *)
(* "word".                                                                 *)
(***************************************************************************)
EXTENDS Absent, Scoring, FiniteSetsExt

\* None is no score.
ASSUME NoScoreAssumption == None \notin Int

\* _normalize_json_text: fences go, and a text that does not begin with an object is cut
\* to what lies between its first brace and its last.
NormalizeJsonText(text) ==
  LET fenced  == text # <<>> /\ Head(text) = "fence"
      inner   == IF fenced THEN Tail(text) ELSE text
      body    == IF fenced /\ inner # <<>> /\ Last(inner) = "fence" THEN Front(inner) ELSE inner
      objects == {i \in DOMAIN body : body[i] = "object"}
  IN IF objects = {} \/ Head(body) = "object" THEN body
     ELSE SubSeq(body, Min(objects), Max(objects))

\* OpenAiResultJudge.score: json.loads takes one object and nothing else, and the number
\* is taken as it is.
JudgeScore(judge) ==
  IF NormalizeJsonText(judge.text) = <<"object">> /\ judge.score # None THEN judge.score ELSE Error

JsonOutput       == {"object", "array"}   \* validate_json_output
JsonObjectOutput == {"object"}            \* validate_json_object_output
Accepted(name)   == IF name = "json" THEN JsonOutput ELSE JsonObjectOutput

\* _run_format_evaluator, over DEFAULT_FORMAT_EVALUATORS.
FormatScore(name, output) ==
  CASE name = "" -> 10
    [] name \in {"json", "json_object"} -> IF output \in Accepted(name) THEN 10 ELSE 0
    [] OTHER -> Error

\* _schema_score, over a schema that wants an object.
SchemaScore(output) == IF output = "object" THEN 10 ELSE 0

\* RecordingAgentHost.from_host: reads output_writer of the host, and passes it and an
\* input_reader to the constructor; an AgentHost has neither.
CanRecord(host) == host # "AgentHost"

\* _run_evaluation_agent: an AgentHost is run as a recording host, any other as it is.
AgentOutput(host, scene) ==
  IF host = "AgentHost" /\ ~CanRecord(host) THEN "raises" ELSE scene.output

\* One row of the summary; the agent answers before its answer is judged.
Row(judge, format) ==
  IF Error \in {judge, format} THEN Error
  ELSE [judge |-> judge, format |-> format, sum |-> judge + format]

\* _evaluate_prompt.
EvaluatePrompt(host, scene) ==
  LET output == AgentOutput(host, scene)
  IN IF output = "raises" THEN Error ELSE Row(JudgeScore(scene.judge), SchemaScore(output))

\* _evaluate_scene.
EvaluateScene(scene) ==
  IF scene.output = "raises" THEN Error
  ELSE Row(JudgeScore(scene.judge), FormatScore(scene.format, scene.output))

\* evaluate_input: an exception of one scene is one of all; the average is sum over twice
\* the number of rows.
Summary(rows) ==
  IF Error \in Range(rows) THEN Error
  ELSE [rows |-> rows, sum |-> Total([i \in DOMAIN rows |-> rows[i].sum])]

\* AgentPromptEvaluator.parse_input_file: scenes without a prompt are left out.
XmlScenes(file) ==
  LET scenes == file.scenes
      asked_of[n \in 0..Len(scenes)] ==
        IF n = 0 THEN <<>>
        ELSE IF scenes[n].has_input THEN Append(asked_of[n - 1], scenes[n])
        ELSE asked_of[n - 1]
  IN asked_of[Len(scenes)]

\* AgentPromptEvaluator.evaluate_file; no output is written when an exception comes first.
EvaluateXml(host, file) ==
  IF XmlScenes(file) = <<>> \/ ~file.evaluator \/ ~file.schema THEN Error
  ELSE Summary([i \in DOMAIN XmlScenes(file) |-> EvaluatePrompt(host, XmlScenes(file)[i])])

\* OpenAiConversationEvaluator.parse_input_file: a scene without an input is an error.
JsonIsLegal(file) == file.scenes # <<>> /\ \A i \in DOMAIN file.scenes : file.scenes[i].has_input

\* OpenAiConversationEvaluator.evaluate_file.
EvaluateJson(file) ==
  IF ~JsonIsLegal(file) THEN Error
  ELSE Summary([i \in DOMAIN file.scenes |-> EvaluateScene(file.scenes[i])])

-----------------------------------------------------------------------------
(* Properties *)

\* A summary is the average of every scene of the file that has a prompt, in its order:
\* no scene whose run, format or judge failed is averaged away or passed as good.
NothingAveragedAway(summary, scenes, Format(_)) ==
  summary # Error =>
    /\ Len(summary.rows) = Len(scenes)
    /\ \A i \in DOMAIN scenes :
         /\ scenes[i].output # "raises"
         /\ summary.rows[i].judge = scenes[i].judge.score
         /\ summary.rows[i].format = IF scenes[i].output \in Format(scenes[i]) THEN 10 ELSE 0
    /\ summary.sum = Total([i \in DOMAIN scenes |-> summary.rows[i].judge + summary.rows[i].format])

\* What a scene of a JSON file asks of the text: nothing, or what its name says.
Wanted(scene) ==
  CASE scene.format = "" -> {"object", "array", "prose"}
    [] scene.format = "json" -> {"object", "array"}
    [] scene.format = "json_object" -> {"object"}
    [] OTHER -> {}

JsonIsAveraged(file) == NothingAveragedAway(EvaluateJson(file), file.scenes, Wanted)

XmlIsAveraged(host, file) ==
  LET Schema(scene) == {"object"}
  IN NothingAveragedAway(EvaluateXml(host, file), XmlScenes(file), Schema)

\* A judge that answers with one object is understood, however it wraps the object.
JudgeIsUnderstood(text) ==
  LET wrapped == <<"fence">> \o text \o <<"fence">>
  IN /\ text = <<"object">> => JudgeScore([text |-> wrapped, score |-> 7]) = 7
     /\ Cardinality({i \in DOMAIN text : text[i] = "object"}) # 1
          => JudgeScore([text |-> text, score |-> 7]) = Error

\* A failure is neither averaged away nor passed as a good score, in the web application
\* (see Scoring) and in the evaluation of files.  (In the web application an evaluator's
\* object without a score is no failure: it counts as 7.)
FailuresAreNotScores ==
  /\ asked = "scores" => ZeroMeansFailure(given[1], given[2], given[3], given[4])
  /\ asked = "scenes" => JsonIsAveraged(given[1]) /\ XmlIsAveraged(given[2], given[1])
  /\ asked = "judge" => JudgeIsUnderstood(given)
=============================================================================
