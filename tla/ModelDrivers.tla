----------------------------- MODULE ModelDrivers ---------------------------
(***************************************************************************)
(* Calls to a model driver that threads of a host share: the memory of the *)
(* last good model (_FallbackMixin, src/agent_framework/model.py), the     *)
(* HTTP client, rate-limit retries and the second attempt without a        *)
(* response format of the DIAL driver (drivers/dial.py), and what the      *)
(* OpenAI driver learns about models (drivers/openai.py).                  *)
(*                                                                         *)
(* Each call runs on a thread and, for the async DIAL driver, on an event  *)
(* loop of its own (AsyncToSyncAdapter calls asyncio.run), so a loop is    *)
(* named by its call.  All calls use one list of models, numbered from 0.  *)
(* The provider answers every request as it likes.                         *)
(***************************************************************************)
EXTENDS Absent, Naturals, FiniteSets

CONSTANTS
  Call,          \* calls of decide()
  Models,        \* how many models the list names
  MaxAttempts,   \* rate_limit_max_attempts
  Drivers,       \* kinds of driver the host may be configured with
  ResponseModes  \* response modes callers use

ASSUME DriverAssumption ==
  /\ Models \in Nat \ {0} /\ MaxAttempts \in Nat \ {0}
  /\ Drivers \subseteq {"dial", "openai"}
  /\ ResponseModes \subseteq {"text", "json_object", "decision"}
  /\ None \notin Call \cup {"answered", "exhausted", "rejected"}

Model == 0..(Models - 1)

VARIABLES
  driver,                  \* the host's model_driver
  _fallback_state,         \* index of the last good model, 0 at first
  _client,                 \* DIAL: None or the httpx client, named by the call that made it
  _httpx_loop,             \* DIAL: None or the loop the client is for
  _no_temperature_models,  \* OpenAI: models that take no temperature
  call,                    \* per call: its local variables
  good                     \* history: models that have answered a call

client == <<_client, _httpx_loop>>
driver_vars   == <<driver, _fallback_state, client, _no_temperature_models, call, good>>

DriverInit ==
  /\ driver \in Drivers
  /\ _fallback_state = 0
  /\ _client = None /\ _httpx_loop = None
  /\ _no_temperature_models = {}
  /\ call = [c \in Call |->
       [at |-> "new", mode |-> "text", start |-> 0, i |-> 0, again |-> FALSE,
        temperature |-> TRUE, attempt |-> 0, client |-> None, tried |-> {}, posts |-> 0, end |-> None]]
  /\ good = {}

Goes(c, at)   == call' = [call EXCEPT ![c].at = at]
At(c, places) == call[c].at \in places

\* Mutant: the memory is read anew for each model.
Index_Current(c) == (_fallback_state + call[c].i) % Models

\* The model a call tries: the list is a ring that starts at the last good model.
Index(c) == (call[c].start + call[c].i) % Models

-----------------------------------------------------------------------------
(* The mixin: _fallback_decide and its asynchronous twin. *)

Decide(c) ==
  /\ At(c, {"new"})
  /\ \E mode \in ResponseModes :
       call' = [call EXCEPT ![c].at = "try", ![c].start = _fallback_state, ![c].mode = mode]
  /\ UNCHANGED <<driver, _fallback_state, client, _no_temperature_models, good>>

\* Builds the request for the model that is next.
Try(c) ==
  /\ At(c, {"try"})
  /\ call' = [call EXCEPT ![c].at = IF driver = "dial" THEN "look" ELSE "send",
                          ![c].tried = @ \cup {Index(c)}, ![c].again = FALSE,
                          ![c].temperature = Index(c) \notin _no_temperature_models,
                          ![c].attempt = 0, ![c].posts = 0]
  /\ UNCHANGED <<driver, _fallback_state, client, _no_temperature_models, good>>

\* An answer is returned, and its model remembered.
Answers(c) ==
  /\ _fallback_state' = Index(c)
  /\ good' = good \cup {Index(c)}
  /\ call' = [call EXCEPT ![c].at = "done", ![c].end = "answered"]

\* Mutant: the next model is remembered before it has answered.
FallsBack_Remembers(c) ==
  /\ call' = IF call[c].i + 1 < Models
             THEN [call EXCEPT ![c].at = "try", ![c].i = @ + 1]
             ELSE [call EXCEPT ![c].at = "done", ![c].end = "exhausted"]
  /\ _fallback_state' = (Index(c) + 1) % Models
  /\ UNCHANGED good

\* An error that permits it leads to the next model, if the ring has one more.
FallsBack(c) ==
  /\ call' = IF call[c].i + 1 < Models
             THEN [call EXCEPT ![c].at = "try", ![c].i = @ + 1]
             ELSE [call EXCEPT ![c].at = "done", ![c].end = "exhausted"]
  /\ UNCHANGED <<_fallback_state, good>>

\* Any other error is raised at once.
Raises(c) ==
  /\ call' = [call EXCEPT ![c].at = "done", ![c].end = "rejected"]
  /\ UNCHANGED <<_fallback_state, good>>

\* is_model_fallback_eligible: by the status code, and whatever is no ModelDriverError.
CallFails(c, cause) ==
  IF cause \in {"unavailable", "busy", "exception"} THEN FallsBack(c) ELSE Raises(c)

-----------------------------------------------------------------------------
(* DIAL: _acquire_client, line by line, for threads may switch between lines. *)

\* Keeps, adopts or drops the cached client.
Look(c) ==
  /\ At(c, {"look"})
  /\ IF _client = None THEN UNCHANGED client
     ELSE IF _httpx_loop = None THEN _httpx_loop' = c /\ UNCHANGED _client
     ELSE IF _httpx_loop # c THEN _client' = None /\ _httpx_loop' = None
     ELSE UNCHANGED client
  /\ Goes(c, "make")
  /\ UNCHANGED <<driver, _fallback_state, _no_temperature_models, good>>

Make(c) ==
  /\ At(c, {"make"})
  /\ IF _client = None THEN _client' = c /\ Goes(c, "bind")
     ELSE UNCHANGED _client /\ Goes(c, "take")
  /\ UNCHANGED <<driver, _fallback_state, _httpx_loop, _no_temperature_models, good>>

Bind(c) ==
  /\ At(c, {"bind"})
  /\ _httpx_loop' = c
  /\ Goes(c, "take")
  /\ UNCHANGED <<driver, _fallback_state, _client, _no_temperature_models, good>>

Take(c) ==
  /\ At(c, {"take"})
  /\ call' = [call EXCEPT ![c].at = "send", ![c].client = _client]
  /\ UNCHANGED <<driver, _fallback_state, client, _no_temperature_models, good>>

-----------------------------------------------------------------------------
(* DIAL: _post, and the second post without a response_format. *)

\* resolved_response_format_dict, for callers that give no format of their own.
HasFormat(c) == call[c].mode = "json_object"

\* A reply: has it a choice, how many tool calls, is the first one well formed (a name,
\* and a JSON object as arguments), is the text a JSON object.
Reply == [choices : BOOLEAN, tool_calls : 0..2, well_formed : BOOLEAN, object : BOOLEAN]

\* _parse_response yields a payload: of exactly one tool call, or of the text.
Parses(reply, mode) ==
  /\ reply.choices
  /\ IF reply.tool_calls > 0 THEN reply.tool_calls = 1 /\ reply.well_formed
     ELSE mode = "json_object" => reply.object

Sends(c) == At(c, {"send"}) /\ driver = "dial"

\* The client may be missing: another thread has dropped it since.
Usable(c) == call[c].client # None

\* Status 200 with JSON: a payload, or an error of its own.
PostAnswered(c) ==
  /\ Sends(c) /\ Usable(c)
  /\ \E reply \in Reply : IF Parses(reply, call[c].mode) THEN Answers(c) ELSE CallFails(c, "unparsable")
  /\ UNCHANGED <<driver, client, _no_temperature_models>>

\* Transport error, 403, 404, 408, 5xx; another 4xx; and what is no ModelDriverError:
\* a body that is no JSON, a client that was closed or belongs to another loop.
PostFailed(c) ==
  /\ Sends(c) /\ Usable(c)
  /\ \E cause \in {"unavailable", "rejected", "exception"} : CallFails(c, cause)
  /\ UNCHANGED <<driver, client, _no_temperature_models>>

PostBroken(c) ==
  /\ Sends(c) /\ ~Usable(c)
  /\ CallFails(c, "exception")
  /\ UNCHANGED <<driver, client, _no_temperature_models>>

\* 400 to a request with a response_format: once more without it, over a client
\* acquired anew and with attempts counted anew; any other 400 is an error.
PostBadRequest(c) ==
  /\ Sends(c) /\ Usable(c)
  /\ IF HasFormat(c) /\ ~call[c].again
     THEN /\ call' = [call EXCEPT ![c].at = "look", ![c].again = TRUE, ![c].attempt = 0,
                                  ![c].posts = @ + call[c].attempt + 1]
          /\ UNCHANGED <<_fallback_state, good>>
     ELSE CallFails(c, "rejected")
  /\ UNCHANGED <<driver, client, _no_temperature_models>>

\* Mutant: attempts are not counted.
PostBusy_Uncounted(c) ==
  /\ Sends(c) /\ Usable(c)
  /\ \/ Goes(c, "sleep") /\ UNCHANGED <<_fallback_state, good>>
     \/ CallFails(c, "busy")
  /\ UNCHANGED <<driver, client, _no_temperature_models>>

\* 429: waits and posts again, unless the attempts are used up or a daily, weekly or
\* monthly limit is named.
PostBusy(c) ==
  /\ Sends(c) /\ Usable(c)
  /\ \/ /\ call[c].attempt + 1 < MaxAttempts
        /\ call' = [call EXCEPT ![c].at = "sleep", ![c].attempt = @ + 1]
        /\ UNCHANGED <<_fallback_state, good>>
     \/ CallFails(c, "busy")
  /\ UNCHANGED <<driver, client, _no_temperature_models>>

Wake(c) ==
  /\ At(c, {"sleep"})
  /\ Goes(c, "send")
  /\ UNCHANGED <<driver, _fallback_state, client, _no_temperature_models, good>>

DialStep(c) ==
  \/ Look(c) \/ Make(c) \/ Bind(c) \/ Take(c) \/ Wake(c)
  \/ PostAnswered(c) \/ PostFailed(c) \/ PostBroken(c) \/ PostBadRequest(c) \/ PostBusy(c)

\* Host.aclose may run while calls are under way: it drops the client.
CloseDriver ==
  /\ driver = "dial" /\ _client # None
  /\ _client' = None /\ _httpx_loop' = None
  /\ UNCHANGED <<driver, _fallback_state, _no_temperature_models, call, good>>

-----------------------------------------------------------------------------
(* OpenAI: one thread-safe client; models that take no temperature are learned. *)

Creates(c) == At(c, {"send"}) /\ driver = "openai"

CreateAnswered(c) ==
  /\ Creates(c)
  /\ Answers(c)
  /\ UNCHANGED <<driver, client, _no_temperature_models>>

\* A text that is no JSON object is an error of its own, except in text mode; all errors
\* of the SDK lead to the next model.
CreateFailed(c) ==
  /\ Creates(c)
  /\ \/ CallFails(c, "exception")
     \/ call[c].mode # "text" /\ CallFails(c, "unparsable")
  /\ UNCHANGED <<driver, client, _no_temperature_models>>

\* The model refuses a temperature that this request carries: once more without.
CreateUnsupported(c) ==
  /\ Creates(c) /\ call[c].temperature
  /\ _no_temperature_models' = _no_temperature_models \cup {Index(c)}
  /\ call' = [call EXCEPT ![c].temperature = FALSE]
  /\ UNCHANGED <<driver, _fallback_state, client, good>>

OpenAiStep(c) == CreateAnswered(c) \/ CreateFailed(c) \/ CreateUnsupported(c)

-----------------------------------------------------------------------------
CallStep(c) == Decide(c) \/ Try(c) \/ DialStep(c) \/ OpenAiStep(c)

DriverNext == CloseDriver \/ \E c \in Call : CallStep(c)

\* A thread that called decide goes on; requests time out.
DriverFairness == \A c \in Call : WF_driver_vars(CallStep(c))

DriverSpec == DriverInit /\ [][DriverNext]_driver_vars /\ DriverFairness

-----------------------------------------------------------------------------
(* Properties *)

\* A call that gives up has tried every model, whatever other calls make the shared
\* driver remember in the meantime (_fallback_decide reads the memory once).
GaveUpAfterAll == \A c \in Call : call[c].end = "exhausted" => call[c].tried = Model

\* The remembered model is the first one or has answered some call, also when calls
\* that fail and calls that succeed finish in any order.
RememberedAnswered == _fallback_state = 0 \/ _fallback_state \in good

\* Every call ends, however often the provider pleads its limits or rejects formats.
CallsEnd == \A c \in Call : call[c].at # "new" ~> call[c].at = "done"
====
