--------------------------- MODULE WorkflowPolicy ---------------------------
(***************************************************************************)
(* What the Workflow Lab accepts: the stages of WorkflowLab._validate on   *)
(* the files of a draft (adapters/adk/workflow_lab.py), the last of them   *)
(* the isolated probe (_workflow_contract_probe.py).  The stages that look *)
(* at each file for itself are operators; the probe, which follows the     *)
(* references of a draft from agent to agent, is a machine.                *)
(*                                                                         *)
(* A path is the sequence of its parts; parts, fields, names and classes   *)
(* stand for themselves.  YAML is read already: a document says whether it *)
(* was one plain mapping, and a list whether it has the expected shape.    *)
(* Nothing depends on the order in which an agent lists its references.    *)
(***************************************************************************)
EXTENDS Naturals, Sequences, FiniteSets, SequencesExt

CONSTANTS
    Submitted,      \* the drafts examined
    Fold(_),        \* casefold of a path
    Portable(_),    \* a part matches _PORTABLE_BASENAME
    Reserved(_),    \* it ends in a dot, or its stem is reserved by Windows
    IsYaml(_),      \* the suffix of a part is .yaml
    MaxFiles,       \* _MAX_FILE_COUNT
    None            \* no draft

VARIABLES
    examined,       \* the draft
    verdict,        \* what has refused it, "visiting", "accepted"
    branch,         \* the calls of visit under way, the first is the root's
    visited         \* agents whose visit is over

policyVars == <<examined, verdict, branch, visited>>

Root == <<"root_agent.yaml">>
PolicyFile == <<"workflow_policy.yaml">>
AppRoot == <<"temp", "app">>        \* where the probe has its copy

-----------------------------------------------------------------------------
(* preflight *)

Declarative(path) ==
    \/ path \in {Root, PolicyFile}
    \/ Len(path) = 2 /\ path[1] = "sub_agents" /\ IsYaml(path[2])

(* _scan_entries and _read_pinned_file: what is no file of its own. *)
Plain(draft) ==
    /\ draft.directories \subseteq {<<"sub_agents">>}
    /\ draft.odd = {}               \* links, second names, devices
    /\ Cardinality(draft.files) <= MaxFiles

(* _validate_relative_names *)
SafeNames(draft) ==
    /\ \A path \in draft.files :
          /\ Declarative(path)
          /\ \A i \in DOMAIN path : Portable(path[i]) /\ ~Reserved(path[i])
    /\ \A p, q \in draft.files : Fold(p) = Fold(q) => p = q
    /\ {Root, PolicyFile} \subseteq draft.files

Preflight(draft) == Plain(draft) /\ SafeNames(draft)

-----------------------------------------------------------------------------
(* safe_yaml and code_references *)

(* Every file but the policy is read as an agent. *)
Agents(draft) == draft.files \ {PolicyFile}

SafeYaml(draft) ==
    /\ draft.policy.plain
    /\ \A f \in Agents(draft) : draft.agents[f].plain

AgentClasses == {"LlmAgent", "LoopAgent", "ParallelAgent", "SequentialAgent"}

CodeFields ==
    {"model_code", "input_schema", "output_schema", "generate_content_config",
     "before_agent_callbacks", "after_agent_callbacks",
     "before_model_callbacks", "after_model_callbacks",
     "before_tool_callbacks", "after_tool_callbacks"}

FaultWalk(base, at, part) ==
    CASE ~at.safe -> at
      [] at.safe /\ part = ".." ->
            IF at.parts = <<>> THEN [at EXCEPT !.safe = FALSE]
            ELSE [at EXCEPT !.parts = Front(@)]
      [] at.safe /\ part # ".." ->
            IF ~Portable(part) THEN [at EXCEPT !.safe = FALSE]
            ELSE [at EXCEPT !.parts = Append(@, part)]

(* The directory a reference leads to, part by part: ".." may take back    *)
(* what the reference itself has added, and nothing else.                  *)
Walk(base, at, part) ==
    CASE ~at.safe -> at
      [] at.safe /\ part = ".." ->
            IF Len(at.parts) <= Len(base) THEN [at EXCEPT !.safe = FALSE]
            ELSE [at EXCEPT !.parts = Front(@)]
      [] at.safe /\ part # ".." ->
            IF ~Portable(part) THEN [at EXCEPT !.safe = FALSE]
            ELSE [at EXCEPT !.parts = Append(@, part)]

(* Where a reference has led to after each of its parts. *)
Walked(base, reference) ==
    LET at[i \in 0 .. Len(reference)] ==
            IF i = 0 THEN [parts |-> base, safe |-> TRUE]
            ELSE Walk(base, at[i - 1], reference[i])
    IN  at

(* _validate_config_path *)
SafeConfigPath(file, reference) ==
    LET base == Front(file)
        end == Walked(base, reference)[Len(reference)]
    IN  /\ end.safe
        /\ IsYaml(Last(reference))
        /\ Len(end.parts) > Len(base)

(* What the draft uses of Python, over all of its agents. *)
Used(draft) == UNION {draft.agents[f].tools : f \in Agents(draft)}

ApprovedFqns == {"read_run_status"}

CodeReferences(draft) ==
    /\ "args" \notin draft.policy.keys
    /\ \A f \in Agents(draft) :
          LET agent == draft.agents[f] IN
          /\ "args" \notin agent.keys
          /\ agent.class \in AgentClasses
          /\ agent.keys \cap CodeFields = {}
          /\ \A r \in agent.refs :
                /\ "code" \notin r.keys
                /\ "config_path" \in r.keys => SafeConfigPath(f, r.path)
    /\ Used(draft) \subseteq ApprovedFqns

-----------------------------------------------------------------------------
(* adk_schema and project_policy *)

CommonKeys == {"agent_class", "name", "description", "sub_agents"}

\* Of the frozen schema: what a class takes beyond what is named here.
SchemaKeys(class) ==
    CommonKeys \cup CodeFields \cup
    CASE class = "LlmAgent" -> {"model", "instruction", "tools", "output_key"}
      [] class = "LoopAgent" -> {"max_iterations"}
      [] OTHER -> {}

AdkSchema(draft) ==
    \A f \in Agents(draft) :
        LET agent == draft.agents[f] IN
        /\ agent.keys \subseteq SchemaKeys(agent.class)
        /\ {"agent_class", "name"} \subseteq agent.keys

ApprovedKeys(class) ==
    CommonKeys \cup
    CASE class = "LlmAgent" -> {"model", "instruction", "tools"}
      [] class = "LoopAgent" -> {"max_iterations"}
      [] OTHER -> {}

(* _validate_project_agent_config *)
ProjectAgent(agent) ==
    /\ agent.keys \subseteq ApprovedKeys(agent.class)
    /\ \A r \in agent.refs : r.keys = {"config_path"}
    /\ agent.class = "LlmAgent" =>
          /\ agent.model = "gemini-2.5-flash"
          /\ "instruction" \in agent.keys
          /\ agent.nameOnlyTools
    /\ agent.class = "LoopAgent" /\ "max_iterations" \in agent.keys
       => agent.iterations >= 1

PolicyKeys ==
    {"schema_version", "capability", "workspace_id", "confirmation_required",
     "publishing", "tool_ids", "workflow_ids", "python_fqns",
     "write_tool_ids"}

(* _string_set *)
StringList(list) == IsInjective(list)

ProjectPolicy(draft) ==
    LET policy == draft.policy IN
    /\ policy.keys = PolicyKeys
    /\ policy.confirmation = "true"
    /\ policy.scope = "adk-developer, git-review-only"
    /\ \A f \in Agents(draft) : ProjectAgent(draft.agents[f])
    /\ \A list \in {policy.tools, policy.workflows, policy.fqns,
                    policy.writes} : StringList(list)
    /\ ToSet(policy.tools) \subseteq {"chainladder"}
    /\ ToSet(policy.workflows)
       \subseteq {"chainladder-basic", "chainladder-validated"}
    /\ ToSet(policy.fqns) \subseteq ApprovedFqns
    /\ policy.writes = <<>>
    /\ ToSet(policy.fqns) = Used(draft)

-----------------------------------------------------------------------------
(* isolated_contract *)

(* The agents of the probe: it leaves out every file of the policy's name, *)
(* so one under sub_agents is an agent to all stages before, not to this.  *)
Configs(draft) == {f \in Agents(draft) : Last(f) # Last(PolicyFile)}

(* Path.resolve in the probe's copy: any ".." goes up. *)
Up(at, part) ==
    IF part # ".." THEN Append(at, part)
    ELSE IF at = <<>> THEN at ELSE Front(at)

Traced(start, reference) ==
    LET at[i \in 0 .. Len(reference)] ==
            IF i = 0 THEN start ELSE Up(at[i - 1], reference[i])
    IN  at

Resolved(file, reference) ==
    Traced(AppRoot \o Front(file), reference)[Len(reference)]

(* The file a reference is about, and <<>> if the probe refuses it. *)
Target(draft, file, reference) ==
    LET resolved == Resolved(file, reference)
        target == SubSeq(resolved, Len(AppRoot) + 1, Len(resolved))
    IN  IF /\ IsPrefix(AppRoot \o Front(file), resolved)
           /\ target \in Configs(draft)
        THEN target ELSE <<>>

(* _validate_declarative_graph, before it visits *)
NamesApart(draft) ==
    \A f, g \in Configs(draft) :
        /\ draft.agents[f].name # ""
        /\ f # g => draft.agents[f].name # draft.agents[g].name

(* _validate: the stages in their order; a later one relies on what an     *)
(* earlier one has established, and the error names the first that fails.  *)
Stage(draft) ==
    IF ~Preflight(draft) THEN "preflight"
    ELSE IF ~SafeYaml(draft) THEN "safe_yaml"
    ELSE IF ~CodeReferences(draft) THEN "code_references"
    ELSE IF ~AdkSchema(draft) THEN "adk_schema"
    ELSE IF ~ProjectPolicy(draft) THEN "project_policy"
    ELSE IF ~NamesApart(draft) THEN "isolated_contract"
    ELSE "visiting"

-----------------------------------------------------------------------------

PolicyInit ==
    examined = None /\ verdict = "none" /\ branch = <<>> /\ visited = {}

(* A call of visit, with the references it has yet to follow. *)
Call(draft, file) == [file |-> file, refs |-> draft.agents[file].refs]

(* A draft that gets as far as the probe may be refused there for what is  *)
(* no matter of its graph: ADK's own classes do not take one of its agents *)
(* (model_validate), or the probe does not start or end in time.           *)
Outcomes(draft) ==
    IF Stage(draft) \in {"isolated_contract", "visiting"}
    THEN {Stage(draft), "model_invalid", "validation_failed"}
    ELSE {Stage(draft)}

Examine(draft) ==
    /\ examined' = draft
    /\ verdict' \in Outcomes(draft)
    /\ branch' = IF verdict' = "visiting" THEN <<Call(draft, Root)>> ELSE <<>>
    /\ UNCHANGED visited

Visiting == {branch[i].file : i \in DOMAIN branch}

(* What the innermost call has to follow, and where that leads. *)
References == IF branch = <<>> THEN {} ELSE Last(branch).refs
Reached(r) == Target(examined, Last(branch).file, r.path)
Rest(r) == [branch EXCEPT ![Len(branch)].refs = @ \ {r}]

(* An escape, a file that is not there, or a cycle. *)
Refuse(r) ==
    /\ Reached(r) = <<>> \/ Reached(r) \in Visiting
    /\ verdict' = "isolated_contract"
    /\ UNCHANGED <<examined, branch, visited>>

Pass(r) ==
    /\ Reached(r) \in visited
    /\ branch' = Rest(r)
    /\ UNCHANGED <<examined, verdict, visited>>

Descend(r) ==
    /\ Reached(r) \notin {<<>>} \cup Visiting \cup visited
    /\ branch' = Append(Rest(r), Call(examined, Reached(r)))
    /\ UNCHANGED <<examined, verdict, visited>>

Return ==
    /\ branch # <<>> /\ References = {}
    /\ visited' = visited \cup {Last(branch).file}
    /\ branch' = Front(branch)
    /\ UNCHANGED <<examined, verdict>>

(* The visit of the root is over: is every agent a part of its tree? *)
Conclude ==
    /\ branch = <<>>
    /\ verdict' = IF visited = Configs(examined) THEN "accepted"
                  ELSE "isolated_contract"
    /\ UNCHANGED <<examined, branch, visited>>

(* The ten seconds of the probe are over. *)
TimeOut ==
    /\ verdict' = "validation_failed"
    /\ UNCHANGED <<examined, branch, visited>>

Visit ==
    /\ verdict = "visiting"
    /\ \/ \E r \in References : Refuse(r) \/ Pass(r) \/ Descend(r)
       \/ Return
       \/ Conclude
       \/ TimeOut

PolicyNext ==
    \/ verdict = "none" /\ \E draft \in Submitted : Examine(draft)
    \/ Visit

PolicySpec == PolicyInit /\ [][PolicyNext]_policyVars

-----------------------------------------------------------------------------
(* Properties *)

(* Which file leads to which: the graph that ADK will compose. *)
Leads(draft) ==
    {e \in Configs(draft) \X Configs(draft) :
        \E r \in draft.agents[e[1]].refs :
            AppRoot \o e[2] = Resolved(e[1], r.path)}

Acyclic(draft) ==
    \E rank \in [Configs(draft) -> 1 .. Cardinality(Configs(draft))] :
        \A e \in Leads(draft) : rank[e[1]] < rank[e[2]]

Rooted(draft) ==
    \A S \in SUBSET Configs(draft) :
        /\ Root \in S
        /\ \A e \in Leads(draft) : e[1] \in S => e[2] \in S
        => S = Configs(draft)

Inside(file, reference) ==
    IsPrefix(AppRoot \o Front(file), Resolved(file, reference))

Composable(draft) ==
    /\ Acyclic(draft) /\ Rooted(draft)
    /\ \A f \in Configs(draft) : \A r \in draft.agents[f].refs :
          Inside(f, r.path) /\ \E e \in Leads(draft) :
             e[1] = f /\ AppRoot \o e[2] = Resolved(f, r.path)
    /\ NamesApart(draft)

(* What is accepted is one tree of agents: every agent of the probe hangs  *)
(* from the root, none contains itself or shares its name, and a reference *)
(* of one leads to another, in its own directory.  Every tool that a file  *)
(* of the draft uses is declared by the policy and approved; that holds of *)
(* the files too that the probe leaves out for their name, to which no     *)
(* agent refers.  What the probe refuses for its graph is no such tree;    *)
(* and a path that the check of the text lets through is never one that    *)
(* the probe calls an escape.                                              *)
AcceptsComposable ==
    verdict # "none" =>
    /\ verdict = "accepted" =>
          /\ Composable(examined)
          /\ \A f \in Agents(examined) :
                examined.agents[f].tools
                \subseteq ToSet(examined.policy.fqns) \cap ApprovedFqns
    /\ verdict = "isolated_contract" => ~Composable(examined)
    /\ \A f \in examined.files \ {PolicyFile} :
          f \in DOMAIN examined.agents =>
          \A r \in examined.agents[f].refs :
             "config_path" \in r.keys /\ SafeConfigPath(f, r.path)
             => Inside(f, r.path)

(* The visit ends.  It is never deeper in agents than there are files of   *)
(* them, and each of its steps comes upon an agent that no call was for    *)
(* before, or takes a call off, or a reference off the innermost call: a   *)
(* draft of finitely many references does not keep the probe busy.         *)
Seen == visited \cup Visiting

VisitIsShallow ==
    verdict = "visiting" => Len(branch) <= Cardinality(Configs(examined))

Advances ==
    \/ Seen \subseteq Seen' /\ Seen # Seen'
    \/ Seen = Seen' /\ Len(branch') < Len(branch)
    \/ /\ Seen = Seen' /\ Len(branch') = Len(branch)
       /\ References' \subseteq References /\ References # References'

VisitAdvances ==
    [][verdict = "visiting" /\ verdict' = "visiting" => Advances]_policyVars
=============================================================================
