------------------------------- MODULE Scoring ------------------------------
(***************************************************************************)
(* What the evaluator scores of a run: the text it takes from the result   *)
(* and the scores it makes of the answers of evaluators (src/agent_frame-  *)
(* work_evaluator/evaluation.py, evaluate_case in app.py).                 *)
(***************************************************************************)
EXTENDS Inputs, Integers, Sequences, FiniteSets, JsonValues

-----------------------------------------------------------------------------
(* The text that is scored: a field of the run's result. *)

\* _traverse_dict, through dicts only; {} is _MISSING.
TraverseDict(value, path) ==
  IF \A n \in 0..(Len(path) - 1) : Is(ValueAt(value, SubSeq(path, 1, n)), "dict") THEN ValueAt(value, path) ELSE {}

\* select_agent_result_field; the path <<>> stands for ".", the whole result.
SelectField(result, path) ==
  LET found  == TraverseDict(result, path)
      in(key) == TraverseDict(result, <<key>> \o path)
  IN IF ~Is(result, "dict") THEN result
     ELSE IF found # {} THEN found
     ELSE IF path[1] \in {"response", "parameters", "message", "status"} THEN {}
     ELSE IF in("response") # {} THEN in("response")
     ELSE in("parameters")

-----------------------------------------------------------------------------
(* Scores.  An evaluator's answer is [kind, score, numeric, evaluation, hits, misses]; *)
(* kind tells an object from an error, from None and from any other answer.            *)

Clamp(low, high, n) == IF n < low THEN low ELSE IF n > high THEN high ELSE n

\* Mutant: the clamp admits 0.
ParseEvalResponse_FromZero(payload) ==
  [score |-> IF payload.numeric THEN Clamp(0, 10, payload.score) ELSE 7,
   rows  |-> IF payload.evaluation # <<>> THEN payload.evaluation
             ELSE [i \in 1..(payload.hits + payload.misses) |-> i <= payload.hits]]

\* parse_eval_response: the score is 7 if there is none, and at least 1; rows are the
\* criteria, passed or not, in the present form or the older one.
ParseEvalResponse(payload) ==
  [score |-> IF payload.numeric THEN Clamp(1, 10, payload.score) ELSE 7,
   rows  |-> IF payload.evaluation # <<>> THEN payload.evaluation
             ELSE [i \in 1..(payload.hits + payload.misses) |-> i <= payload.hits]]

FailedResult == [score |-> 0, rows |-> <<FALSE>>]

\* run_evaluation: whatever goes wrong with the model is a result that failed.
RunEvaluation(answer) ==
  IF answer.kind = "object" THEN ParseEvalResponse(answer) ELSE FailedResult

Total(scores) ==
  LET total[n \in 0..Len(scores)] == IF n = 0 THEN 0 ELSE total[n - 1] + scores[n]
  IN total[Len(scores)]

\* run_code_evaluations: evaluators that answer None are left out; what is no dict is an
\* error of the whole request.
RunCodeEvaluations(answers) ==
  LET given_by == {i \in DOMAIN answers : answers[i].kind # "none"}
      score(i) == IF i \in given_by THEN ParseEvalResponse(answers[i]).score ELSE 0
  IN IF \E i \in given_by : answers[i].kind # "object" THEN Error
     ELSE [sum |-> Total([i \in DOMAIN answers |-> score(i)]), count |-> Cardinality(given_by)]

\* evaluate_case: the average of the model's score and those of code, as sum and count.
EvaluateCase(result, field, llm, code) ==
  LET message == SelectField(result, field)
      coded   == RunCodeEvaluations(code)
  IN IF message = {} \/ coded = Error THEN Error
     ELSE [message |-> message, sum |-> RunEvaluation(llm).score + coded.sum, count |-> 1 + coded.count]

-----------------------------------------------------------------------------
(* Properties *)

\* An average of 0 means that the evaluator failed and that nobody else gave a score; an
\* agent that did badly is never reported so, nor a failure as a good score if no code
\* evaluator was asked.
ZeroMeansFailure(result, field, llm, code) ==
  LET case   == EvaluateCase(result, field, llm, code)
      scored == \E i \in DOMAIN code : code[i].kind = "object"
  IN case # Error =>
       /\ (case.sum = 0) <=> (llm.kind # "object" /\ ~scored)
       /\ 10 * case.count >= case.sum
=============================================================================
