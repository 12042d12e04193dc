--------------------------- MODULE PromptReferences -------------------------
(***************************************************************************)
(* What a workflow takes over from the prompts of agents: the sections a   *)
(* reference agent:<id>#workflow selects (AgentPromptReferenceResolver,    *)
(* src/agent_framework/prompt_reference.py) and the XML sections of a      *)
(* workflow agent's own prompt (agents/workflow_agent.py).                 *)
(*                                                                         *)
(* A document is the sequence of its headings, each with a level and a     *)
(* title; one without headings is one section whose title is empty.  A     *)
(* path is the sequence of titles from the outermost heading.  Titles      *)
(* compare as they do after normalisation, and contain no slash.           *)
(***************************************************************************)
EXTENDS Inputs, Naturals, Sequences, FiniteSets, FiniteSetsExt, SequencesExt

\* Mutant: a heading of the same level does not close the one before.
Above_Equal(stack, heading) == Max({0} \cup {n \in DOMAIN stack : stack[n].level <= heading.level})

\* How many headings of the stack are above a heading: they are popped from its top until
\* one of a lower level is found.
Above(stack, heading) == Max({0} \cup {n \in DOMAIN stack : stack[n].level < heading.level})

Push(stack, heading) == Append(SubSeq(stack, 1, Above(stack, heading)), heading)

\* The stack after each heading.
Stacks(doc) ==
  LET stack[i \in 0..Len(doc)] == IF i = 0 THEN <<>> ELSE Push(stack[i - 1], doc[i])
  IN stack

Titles(stack) == [k \in DOMAIN stack |-> stack[k].title]

\* The path of the i-th section.
Path(doc, i) == Titles(Stacks(doc)[i])

Paths(doc) == {Path(doc, i) : i \in DOMAIN doc}

Titled(spec, doc) == {i \in DOMAIN doc : doc[i].title = spec.title}

\* The paths a spec names: a path, or those of the sections that have its title.
Candidates(spec, doc) ==
  IF spec.path # <<>> THEN {spec.path} \cap Paths(doc) ELSE {Path(doc, i) : i \in Titled(spec, doc)}

Ambiguous(spec, doc) == spec.path = <<>> /\ Cardinality(Titled(spec, doc)) > 1

\* _resolve_section_specs: missing sections are an error where they are required, and
\* a title of two sections always is.
ResolveSpecs(specs, doc, required) ==
  IF \E s \in specs : Ambiguous(s, doc) \/ (required /\ Candidates(s, doc) = {})
  THEN Error
  ELSE UNION {Candidates(s, doc) : s \in specs}

PathIsSelected(path, selected) == \E s \in selected : IsPrefix(s, path)

\* AgentPromptReferenceResolver.resolve: the sections that are kept, in their order.
\* compose is what the agent's sidecar says: sets of specs, or Error if it says nothing
\* or has entries of another type.
Project(ref, doc, compose) ==
  IF ref.scheme # "agent" \/ ref.projection \notin {"", "workflow"} \/ compose = Error THEN Error
  ELSE LET include == ResolveSpecs(compose.include, doc, TRUE)
           exclude == ResolveSpecs(compose.exclude, doc, FALSE)
           selected(i) == /\ include # {} => PathIsSelected(Path(doc, i), include)
                          /\ ~PathIsSelected(Path(doc, i), exclude)
       IN IF Error \in {include, exclude} THEN Error ELSE {i \in DOMAIN doc : selected(i)}

-----------------------------------------------------------------------------
(* A workflow agent's prompt is a sequence of top-level blocks and of loose text. *)

\* _parse_workflow_prompt_sections and _configure_workflow_prompt_sections: the blocks
\* that are the system prompt, and the section of each other tag.  A prompt without tags
\* is one part; with tags there is no other text, no tag twice, and a workflow_system.
PromptSections(blocks) ==
  LET tags == {blocks[i].tag : i \in DOMAIN blocks} \ {"loose"}
      tagged(t) == {i \in DOMAIN blocks : blocks[i].tag = t}
  IN IF tags = {} THEN [system_prompt |-> DOMAIN blocks, sections |-> <<>>]
     ELSE IF \/ tagged("loose") # {}
             \/ \E i, j \in DOMAIN blocks : i # j /\ blocks[i].tag = blocks[j].tag
             \/ "workflow_system" \notin tags
     THEN Error
     ELSE [system_prompt |-> tagged("workflow_system"),
           sections |-> [t \in tags \ {"workflow_system"} |-> CHOOSE i \in tagged(t) : TRUE]]

-----------------------------------------------------------------------------
(* Properties *)

\* The sections below a heading: those up to the next one that is not deeper.
Subtree(doc, i) ==
  {j \in i..Len(doc) : \A k \in (i + 1)..j : doc[k].level > doc[i].level}

\* Selecting by paths keeps and drops whole parts of the document, however levels are
\* skipped and titles repeated: what is kept is the included headings with all that is
\* below them, without the excluded ones and all that is below those.
WholePartsSelected(ref, doc, compose) ==
  LET chosen == Project(ref, doc, compose)
      below(paths) == UNION {Subtree(doc, i) : i \in {k \in DOMAIN doc : Path(doc, k) \in paths}}
      include == ResolveSpecs(compose.include, doc, TRUE)
      exclude == ResolveSpecs(compose.exclude, doc, FALSE)
  IN chosen # Error =>
       chosen = (IF compose.include = {} THEN DOMAIN doc ELSE below(include)) \ below(exclude)

\* A prompt that is accepted is used as a whole: every block of it is the workflow's
\* system prompt or the section that a phase gets by its tag, and none is both.
PromptIsPartitioned(blocks) ==
  LET parts == PromptSections(blocks)
      section(i) == blocks[i].tag \in DOMAIN parts.sections /\ parts.sections[blocks[i].tag] = i
  IN parts # Error => \A i \in DOMAIN blocks : (i \in parts.system_prompt) # section(i)

\* Prompts that are taken over are taken over in whole parts, and a workflow's own prompt
\* is used as a whole.
PromptsTakenWhole ==
  /\ asked = "sections" =>
       WholePartsSelected([scheme |-> "agent", projection |-> "workflow"], given[1], given[2])
  /\ asked = "blocks" => PromptIsPartitioned(given)
=============================================================================
