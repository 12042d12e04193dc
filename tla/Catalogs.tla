------------------------------- MODULE Catalogs -----------------------------
(***************************************************************************)
(* What an agent is offered: hits of a memory query (CatalogMemoryQuery-   *)
(* Provider and the in-memory backend, src/agent_framework/memory.py), the *)
(* skills that fit into a prompt (build_skills_catalog, model.py), the MCP *)
(* servers the configuration files name (mcp/config.py) and the values of  *)
(* an agent's parameters (refresh_parameter_state, agents/agent.py).       *)
(***************************************************************************)
EXTENDS Absent, Inputs, Integers, Sequences, FiniteSets, FiniteSetsExt, SequencesExt

\* None is no text.
ASSUME NoneAssumption == None \notin STRING

\* What is left of a list that is sorted and then cut after its n-th element: order holds
\* the pairs of elements of which the first stands before the second.
FirstOf(n, set, order) == {e \in set : Cardinality({d \in set : <<d, e>> \in order}) < n}

-----------------------------------------------------------------------------
(* Memory: an entry is [uri, scope, rank]; rank is the weight of the best field that *)
(* contains the text, 4 to 1, or 0.  Uris are numbers in their order.                *)

ByUri(entries) == {p \in entries \X entries : p[1].uri < p[2].uri}

ByRank(entries) ==
  {p \in entries \X entries :
     p[1].rank > p[2].rank \/ (p[1].rank = p[2].rank /\ p[1].uri < p[2].uri)}

\* No scopes at all mean all entries.
Visible(entries, scopes) == {e \in entries : scopes = {} \/ e.scope \in scopes}

\* InMemoryMemoryBackend.list: in the order of uris; the limit is looked at after an entry
\* is taken.
ListRefs(entries, scopes, limit) ==
  FirstOf(Max({limit, 1}), Visible(entries, scopes), ByUri(entries))

ListedPerHit == 10

Matching(entries) == {e \in entries : e.rank > 0}

\* Mutant: the limit is applied before the hits are ranked.
Query_LimitFirst(entries, scopes, limit) == Matching(ListRefs(entries, scopes, limit))

\* CatalogMemoryQueryProvider.query: the best of the first entries.
Query(entries, scopes, limit) ==
  FirstOf(limit, Matching(ListRefs(entries, scopes, limit * ListedPerHit)), ByRank(entries))

\* Host._filter_visible_memory_scopes.
Narrowed(visible, scope) == IF scope = None THEN visible ELSE visible \cap {scope}

-----------------------------------------------------------------------------
(* Skills: a sequence of [priority, size]; a set of them is a set of their places. *)

\* Sorting keeps the order of skills of one priority.
ByPriority(skills) ==
  {p \in (DOMAIN skills) \X (DOMAIN skills) :
     \/ skills[p[1]].priority > skills[p[2]].priority
     \/ skills[p[1]].priority = skills[p[2]].priority /\ p[1] < p[2]}

Size(skills, places) == FoldSet(LAMBDA i, sum : skills[i].size + sum, 0, places)

\* build_skills_catalog: by priority; the last is dropped until the rest fits or is one.
SkillsCatalog(skills, room) ==
  LET working(n) == FirstOf(n, DOMAIN skills, ByPriority(skills))
  IN IF skills = <<>> THEN {}
     ELSE working(Max({n \in DOMAIN skills : Size(skills, working(n)) <= room} \cup {1}))

-----------------------------------------------------------------------------
(* MCP servers: a file is a function from names to "off", "broken", "no object" or what  *)
(* the server is.                                                                        *)

\* The servers a file says something of.
Described(file) == {name \in DOMAIN file : file[name] # "no object"}

\* _merge_configs: an entry that is no JSON object is passed over.
Updated(servers, file) ==
  [name \in DOMAIN servers \cup Described(file) |-> IF name \in Described(file) THEN file[name] ELSE servers[name]]

\* load_mcp_configs: the user's file, the project's, then the one that is named; a later
\* one replaces what an earlier one says of a server.  A file that is missing says nothing.
McpServers(user, project, explicit) ==
  LET raw == Updated(Updated(Updated(<<>>, user), project), explicit)
  IN [name \in {n \in DOMAIN raw : raw[n] \notin {"off", "broken"}} |-> raw[name]]

-----------------------------------------------------------------------------
(* Parameters: a spec is [name, required, default].  A prompt is the sequence of its     *)
(* tagged texts, [name, text, says]; "?" is a placeholder, "unreadable" is no value of   *)
(* the type, "invalid" is a value that the type or the schema rejects.  says: what       *)
(* phrases in or before the text say of the parameters that are also looked for untagged *)
(* ("DC 15", "make a stealth check").                                                    *)

Guessed == {"difficulty_class", "skill_name"}

Tagged(spec, prompt) ==
  {i \in DOMAIN prompt : prompt[i].name = spec.name /\ prompt[i].text # "?"}
Phrases(spec, prompt) ==
  {i \in DOMAIN prompt : spec.name \in Guessed /\ spec.name \in DOMAIN prompt[i].says}

FirstPhrase(spec, prompt) ==
  IF Phrases(spec, prompt) = {} THEN None ELSE prompt[Min(Phrases(spec, prompt))].says[spec.name]

\* Mutant: the first tag counts.
ExtractPromptValue_First(spec, prompt) ==
  IF Tagged(spec, prompt) = {} THEN FirstPhrase(spec, prompt) ELSE prompt[Min(Tagged(spec, prompt))].text

\* extract_prompt_value: the last tag counts; without one the first phrase.
ExtractPromptValue(spec, prompt) ==
  IF Tagged(spec, prompt) = {} THEN FirstPhrase(spec, prompt) ELSE prompt[Max(Tagged(spec, prompt))].text

\* The prompt speaks first, then the caller, then the default.
ParameterValue(spec, prompt, seed) ==
  IF ExtractPromptValue(spec, prompt) # None THEN ExtractPromptValue(spec, prompt)
  ELSE IF spec.name \in DOMAIN seed THEN seed[spec.name]
  ELSE spec.default

\* refresh_parameter_state: a text that is no value of its type raises, and then there are
\* no values.
ParameterState(specs, prompt, seed) ==
  LET state(s) == ParameterValue(s, prompt, seed)
  IN [raises  |-> \E s \in specs : ExtractPromptValue(s, prompt) = "unreadable",
      values  |-> {<<s.name, state(s)>> : s \in {t \in specs : state(t) \notin {None, "invalid"}}},
      missing |-> {s.name : s \in {t \in specs : state(t) = None /\ t.required}},
      invalid |-> {s.name : s \in {t \in specs : state(t) = "invalid"}}]

-----------------------------------------------------------------------------
(* Properties *)

\* As long as no more than ten entries per hit are visible, no visible entry that is left
\* out matches better than a hit, and there are as many hits as the limit admits.
BestHits(entries, scopes, limit) ==
  LET hits    == Query(entries, scopes, limit)
      visible == Visible(entries, scopes)
  IN Cardinality(visible) <= ListedPerHit * limit =>
       /\ \A h \in hits, e \in visible \ hits : e.rank <= h.rank
       /\ Cardinality(hits) = Min({limit, Cardinality(Matching(visible))})

\* No skill that is left out has a higher priority than one that is offered, and one is
\* left out only if not all fit; what is offered fits, or is a single skill.
BestSkills(skills, room) ==
  LET offered == SkillsCatalog(skills, room)
  IN /\ \A kept \in offered, dropped \in DOMAIN skills \ offered :
          skills[dropped].priority <= skills[kept].priority
     /\ Size(skills, DOMAIN skills) <= room => offered = DOMAIN skills
     /\ skills # <<>> => Size(skills, offered) <= room \/ Cardinality(offered) = 1

\* Limits cut what matters least, whatever order entries were stored or skills declared in.
BestAreOffered ==
  /\ asked = "memory" => BestHits(given[1], given[2], given[3])
  /\ asked = "skills" => BestSkills(given[1], given[2])

\* The most specific file with an object for a server has the last word on it, also when
\* it says that the server is off, or says it in a way that cannot be read.  A file whose
\* entry is no object (null, a string) says nothing: the server of a less specific file
\* stays on.
LaterFileDecides(user, project, explicit) ==
  LET said(n) == IF n \in Described(explicit) THEN explicit[n]
                 ELSE IF n \in Described(project) THEN project[n] ELSE user[n]
      servers == McpServers(user, project, explicit)
  IN /\ DOMAIN servers \subseteq Described(user) \cup Described(project) \cup Described(explicit)
     /\ \A n \in Described(user) \cup Described(project) \cup Described(explicit) :
          IF said(n) \in {"off", "broken"} THEN n \notin DOMAIN servers
          ELSE n \in DOMAIN servers /\ servers[n] = said(n)

\* An answer that is added to the prompt takes effect: the parameter it is for has that
\* value afterwards, whatever earlier tags, the caller or the default said.  Another one
\* changes only if the prompt had said nothing of it and a phrase of the answer does.
AnswerTakesEffect(specs, prompt, seed, answer) ==
  LET before == ParameterState(specs, prompt, seed)
      after  == ParameterState(specs, Append(prompt, answer), seed)
      told   == {answer.name} \cup {s.name : s \in {t \in specs : /\ t.name \in Guessed /\ t.name \in DOMAIN answer.says
                                                                  /\ ExtractPromptValue(t, prompt) = None}}
      others(pairs) == {p \in pairs : p[1] \notin told}
  IN (~before.raises /\ \E s \in specs : s.name = answer.name) =>
       /\ ~after.raises
       /\ <<answer.name, answer.text>> \in after.values
       /\ answer.name \notin after.missing \cup after.invalid
       /\ others(after.values) = others(before.values)
       /\ after.missing \ told = before.missing \ told
       /\ after.invalid \ told = before.invalid \ told

\* The last that speaks decides, the most specific file about a server and the newest
\* answer about a parameter.
LastWordCounts ==
  /\ asked = "servers" => LaterFileDecides(given[1], given[2], given[3])
  /\ asked = "answer" => AnswerTakesEffect(given[1], given[2], given[3], given[4])
=============================================================================
