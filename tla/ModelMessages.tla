---------------------------- MODULE ModelMessages ---------------------------
(***************************************************************************)
(* The messages of a request to the model: how they are put together       *)
(* (merge_runtime_system_into_messages, src/agent_framework/model.py) and  *)
(* what the evaluator finds in the trace of the first request (extract_-   *)
(* first_llm_request_prompts, src/agent_framework_evaluator/evaluation.py).*)
(*                                                                         *)
(* A message is [role, text]; texts are names, "" is the empty text.       *)
(***************************************************************************)
EXTENDS Inputs, Naturals, Sequences

System(text) == [role |-> "system", text |-> text]
User(text)   == [role |-> "user", text |-> text]

\* Mutant: the runtime's system message goes to the end if the first message is no other.
MergeRuntimeSystem_AtEnd(context) ==
  CASE context.messages = <<>> -> <<System("combined"), User(context.user_prompt)>>
    [] Head(context.messages).role = "system" -> <<System("combined")>> \o Tail(context.messages)
    [] OTHER -> Append(context.messages, System("combined"))

\* merge_runtime_system_into_messages: the agent's system prompt and the runtime's are
\* one message, which takes the place of a first system message.
MergeRuntimeSystem(context) ==
  IF context.messages = <<>> THEN <<System("combined"), User(context.user_prompt)>>
  ELSE IF Head(context.messages).role = "system"
  THEN <<System("combined")>> \o Tail(context.messages)
  ELSE <<System("combined")>> \o context.messages

\* What the drivers trace as the request: OpenAI the input, alone or with a format, DIAL
\* a body with messages.
RequestTrace(driver, messages) ==
  IF driver = "openai" THEN [input |-> messages, messages |-> <<>>]
  ELSE [input |-> <<>>, messages |-> messages]

NormaliseToMessages(payload) == IF payload.input # <<>> THEN payload.input ELSE payload.messages

NothingFound == [system |-> "", users |-> <<>>]

\* One message more.
Read(found, m) ==
  IF m.role = "system" /\ found.system = "" THEN [found EXCEPT !.system = m.text]
  ELSE IF m.role = "user" THEN [found EXCEPT !.users = Append(@, m.text)]
  ELSE found

\* What is found in the first messages.
FoundPrompts(messages) ==
  LET found[i \in 0..Len(messages)] ==
        IF i = 0 THEN NothingFound ELSE Read(found[i - 1], messages[i])
  IN found

\* extract_first_llm_request_prompts: the first system text and all user texts.
ExtractPrompts(payload) ==
  LET messages == NormaliseToMessages(payload) IN FoundPrompts(messages)[Len(messages)]

-----------------------------------------------------------------------------
(* Properties *)

\* The texts of the user, in order.
UserTexts(messages) ==
  LET texts[i \in 0..Len(messages)] ==
        IF i = 0 THEN <<>>
        ELSE IF messages[i].role = "user" THEN Append(texts[i - 1], messages[i].text)
        ELSE texts[i - 1]
  IN texts[Len(messages)]

\* The prompts shown beside a result are those the model got: the assembled system
\* prompt, and every user message in order, whichever driver traced them and even if the
\* conversation has system messages of its own.
PromptsAreSent(driver, context) ==
  LET extracted == ExtractPrompts(RequestTrace(driver, MergeRuntimeSystem(context)))
      said == IF context.messages = <<>> THEN <<User(context.user_prompt)>> ELSE context.messages
  IN extracted = [system |-> "combined", users |-> UserTexts(said)]

PromptsAsSent ==
  asked = "messages" => PromptsAreSent(given[1], [messages |-> given[2], user_prompt |-> "t"])
=============================================================================
