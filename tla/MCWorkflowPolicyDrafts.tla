----------------------- MODULE MCWorkflowPolicyDrafts -----------------------
(* The drafts that the policy is checked on.  One family for each thing    *)
(* that can be wrong: the graph of the agents, the fields of an agent and  *)
(* of the policy, the names of the files.                                  *)
EXTENDS Naturals, FiniteSets

Root == <<"root_agent.yaml">>
PolicyFile == <<"workflow_policy.yaml">>
A == <<"sub_agents", "a.yaml">>
B == <<"sub_agents", "b.yaml">>

C == <<"sub_agents", "workflow_policy.yaml">>

MCPortable(part) == part \notin {"..", "/"}
MCReserved(part) == part \in {"con.yaml", "aux"}
MCIsYaml(part) == part \notin {"..", "/", "x.py", "sub_agents"}
MCFold(path) ==
    [i \in DOMAIN path |-> IF path[i] = "B.yaml" THEN "b.yaml" ELSE path[i]]

PolicyKeys ==
    {"schema_version", "capability", "workspace_id", "confirmation_required",
     "publishing", "tool_ids", "workflow_ids", "python_fqns",
     "write_tool_ids"}

GoodPolicy ==
    [plain |-> TRUE, keys |-> PolicyKeys, confirmation |-> "true",
     scope |-> "adk-developer, git-review-only", tools |-> <<"chainladder">>,
     workflows |-> <<>>, fqns |-> <<>>, writes |-> <<>>]

DraftOf(agents, policy) ==
    [files |-> DOMAIN agents \cup {PolicyFile}, directories |-> {},
     odd |-> {}, agents |-> agents, policy |-> policy]

Ref(path) == [keys |-> {"config_path"}, path |-> path]
AtMostTwo(S) == {T \in SUBSET S : Cardinality(T) <= 2}

Sequential(name, refs) ==
    [plain |-> TRUE, class |-> "SequentialAgent",
     keys |-> {"agent_class", "name", "sub_agents"}, name |-> name,
     model |-> "", tools |-> {}, nameOnlyTools |-> TRUE, iterations |-> 0,
     refs |-> refs]

RootRefs ==
    {Ref(A), Ref(B), Ref(<<"sub_agents", "..", "root_agent.yaml">>),
     Ref(<<"aux", "..", "sub_agents", "a.yaml">>),
     Ref(<<"..", "app", "sub_agents", "a.yaml">>)}
SubRefs ==
    {Ref(<<"a.yaml">>), Ref(<<"b.yaml">>), Ref(<<"..", "root_agent.yaml">>),
     Ref(<<"x", "..", "..", "lib", "b.yaml">>)}

Graphs ==
    {DraftOf([f \in {Root, A, B} |->
                 CASE f = Root -> Sequential("r", refsR)
                   [] f = A -> Sequential("a", refsA)
                   [] f = B -> Sequential(name, refsB)], GoodPolicy) :
        name \in {"b", "r"}, refsR \in AtMostTwo(RootRefs),
        refsA \in AtMostTwo(SubRefs), refsB \in AtMostTwo(SubRefs)}

(* An agent with the file name of the policy. *)
Namesakes ==
    {DraftOf([f \in {Root, A, C} |->
                 CASE f = Root -> Sequential("r", refsR)
                   [] f = A -> Sequential("a", refsA)
                   [] f = C -> Sequential(name, refsC)], GoodPolicy) :
        name \in {"c", "r", ""}, refsR \in SUBSET {Ref(A), Ref(C)},
        refsA \in SUBSET {Ref(<<"workflow_policy.yaml">>)},
        refsC \in SUBSET {Ref(<<"a.yaml">>)}}

Llm ==
    [plain |-> TRUE, class |-> "LlmAgent",
     keys |-> {"agent_class", "name", "model", "instruction"}, name |-> "r",
     model |-> "gemini-2.5-flash", tools |-> {}, nameOnlyTools |-> TRUE,
     iterations |-> 0, refs |-> {}]

RootAgents ==
    {[Llm EXCEPT !.tools = tools, !.model = model] :
        tools \in SUBSET {"read_run_status", "os.system"},
        model \in {"gemini-2.5-flash", "other"}}
    \cup {[Llm EXCEPT !.keys = @ \cup {key}] :
        key \in {"args", "model_code", "output_key", "extra", "max_iterations"}}
    \cup {[Llm EXCEPT !.keys = @ \ {key}] : key \in Llm.keys}
    \cup {[Llm EXCEPT !.class = "LoopAgent", !.iterations = i,
              !.keys = {"agent_class", "name", "max_iterations"}] : i \in 0 .. 1}
    \cup {[Llm EXCEPT !.class = "Custom"], [Llm EXCEPT !.plain = FALSE],
          [Llm EXCEPT !.nameOnlyTools = FALSE], [Llm EXCEPT !.name = ""],
          [Llm EXCEPT !.refs = {[keys |-> {"code"}, path |-> <<>>]}]}
    \cup {Sequential("r", refs) : refs \in AtMostTwo(RootRefs)}

Policies ==
    {[GoodPolicy EXCEPT !.fqns = fqns, !.confirmation = confirmation,
                        !.workflows = workflows] :
        fqns \in {<<>>, <<"read_run_status">>, <<"os.system">>,
                  <<"read_run_status", "read_run_status">>},
        confirmation \in {"true", "1"},
        workflows \in {<<>>, <<"chainladder-basic">>, <<"x">>}}
    \cup {[GoodPolicy EXCEPT !.keys = @ \ {"publishing"}],
          [GoodPolicy EXCEPT !.keys = @ \cup {"args"}],
          [GoodPolicy EXCEPT !.writes = <<"w">>],
          [GoodPolicy EXCEPT !.tools = <<"y">>],
          [GoodPolicy EXCEPT !.scope = "x"],
          [GoodPolicy EXCEPT !.plain = FALSE]}

Fields ==
    {DraftOf([f \in {Root} |-> agent], policy) :
        agent \in RootAgents, policy \in Policies}

FileSets ==
    {[files |-> files, directories |-> directories, odd |-> odd,
      agents |-> [f \in files \ {PolicyFile} |-> Llm], policy |-> GoodPolicy] :
        files \in {({Root, PolicyFile} \ missing) \cup more :
            missing \in {{}, {Root}, {PolicyFile}},
            more \in SUBSET {B, <<"sub_agents", "B.yaml">>, <<"x.py">>,
                             <<"sub_agents", "con.yaml">>,
                             <<"sub_agents", "c", "d.yaml">>}},
        directories \in {{}, {<<"sub_agents">>}, {<<"lib">>}},
        odd \in {{}, {Root}}}

MCSubmitted == Graphs \cup Namesakes \cup Fields \cup FileSets
=============================================================================
