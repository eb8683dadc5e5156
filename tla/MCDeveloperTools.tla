-------------------------- MODULE MCDeveloperTools --------------------------
(* The tools beside the control plane, each by itself: `tool` says which   *)
(* one a behaviour is about.                                               *)
EXTENDS WorkflowLab, DebugOperations, DeveloperTools, MCWorkflowPolicyDrafts,
        TLC

VARIABLE tool

\* A step reads the case input or the output of a step before it; its
\* condition is about a step before it, itself or a step after it.
MCPipelines ==
    {p \in [1 .. 3 -> [reads : 0 .. 2, when : 0 .. 3]] :
        \A i \in 1 .. 3 : p[i].reads < i}

MCPinnedFiles == <<"submission", "policy">>

MCCases ==
    [input : {1, 2}, output : {1, 2}, raises : {"nothing"}]
    \cup [input : {2}, output : {1}, raises : {"payload", "calculate"}]

MCPacks == [1 .. 2 -> MCCases] \cup {<<>>}

MCRequests ==
    {<<>>, [cases |-> 1, temp |-> 5], [input |-> 1, total |-> 4],
     [output |-> 1, temp |-> 3], [wall |-> 0], [total |-> 6]}

MCCeilings ==
    [cases |-> 2, input |-> 2, output |-> 2, total |-> 5, temp |-> 6,
     wall |-> 1]

MCStores == <<"registry", "artifacts">>

Asks(action, object, detail, invocation) ==
    [action |-> action, object |-> object, detail |-> detail,
     invocation |-> invocation]

MCAgendas ==
    {{Asks("start_workflow_run", "case", 1, 1),
      Asks("start_workflow_run", "case", 2, 1)},
     {Asks("start_workflow_run", "case", 1, 1),
      Asks("rerun_run", "run", None, 1)},
     {Asks("run_bounded_benchmark", "pack", 1, 1),
      Asks("run_bounded_benchmark", "pack", 1, 2)},
     {Asks("export_run_report", "run", None, 1)}}

policyVars == <<examined, verdict, branch, visited>>
filesVars ==
    <<root, folder, name, temp, empty, writer, reader, stood, bounds>>
integrityVars ==
    <<tree, links, phase, at, taken, entered, integrity, made, kept, found>>
deskVars ==
    <<launcher, smoke, child, told, alone, next, waiting, signalled, ending,
      other, others, raises, drill, asked, released, logs, passed>>
caseVars ==
    <<flow, route, caseRoot, status, checked, last, calls, brokeOff, result,
      evidence, manifest, packet, failures>>
pipeVars ==
    <<pipeline, stale, step, stage, outcome, reviews, written, listed,
      recorded, returned>>
importVars ==
    <<bench, snapshot, entry, record, importer, desk, answered, refused,
      changes, tries, faults>>
clientVars == <<events, call, attempts, late, reply, asks>>
evidenceVars ==
    <<disk, runManifest, runStatus, worker, replay, altered, early, crafted,
      replayed>>
benchmarkVars ==
    <<pack, lane, budget, place, index, overtime, results, used, spent,
      business, before, changed, filed, benchmark, missed>>
confirmVars ==
    <<agenda, slots, dialogs, accepted, withdrawn, credential>>
vars ==
    <<tool, labVars, debugVars, policyVars, filesVars, integrityVars,
      deskVars, caseVars, pipeVars, importVars, clientVars, evidenceVars,
      benchmarkVars, confirmVars>>

(* The variables of a tool that a behaviour is not about are not used. *)
Init ==
    /\ tool \in {"lab", "debug", "policy", "files", "integrity", "workbench",
                 "case", "pipeline", "import", "client", "evidence",
                 "benchmark", "confirm"}
    /\ LabInit /\ DebugInit
    /\ \/ tool = "policy" /\ Policy!PolicyInit
       \/ /\ tool # "policy"
          /\ examined = None /\ verdict = "none"
          /\ branch = None /\ visited = None
    /\ \/ tool = "files" /\ Files!FilesInit
       \/ /\ tool # "files"
          /\ writer = [w \in Writers |-> [answer |-> "none"]]
          /\ reader = [r \in Readers |-> [answer |-> Nothing, failed |-> {}]]
          /\ root = None /\ folder = None /\ name = None /\ temp = None
          /\ empty = {} /\ stood = {} /\ bounds = None
    /\ \/ tool = "integrity" /\ Integrity!IntegrityInit
       \/ /\ tool # "integrity"
          /\ tree = None /\ links = None /\ phase = None /\ at = None
          /\ taken = None /\ entered = None /\ integrity = None /\ made = None
          /\ kept = None /\ found = None
    /\ \/ tool = "workbench" /\ Desk!WorkbenchInit
       \/ /\ tool # "workbench"
          /\ launcher = "idle" /\ drill = "off" /\ smoke = None
          /\ child = None /\ told = None /\ alone = None /\ next = None
          /\ waiting = None /\ signalled = None /\ ending = None
          /\ other = None /\ others = None /\ raises = None
          /\ asked = None /\ released = None /\ logs = None
          /\ passed = None
    /\ Case!CaseInit
    /\ \/ tool = "pipeline" /\ Pipe!PipelineInit
       \/ /\ tool # "pipeline"
          /\ pipeline = None /\ stale = None /\ step = None /\ stage = None
          /\ outcome = None /\ reviews = None /\ written = None
          /\ listed = None /\ recorded = None /\ returned = None
    /\ \/ tool = "import" /\ Import!ImportInit
       \/ /\ tool # "import"
          /\ answered = {} /\ bench = None /\ snapshot = None
          /\ entry = None /\ record = None /\ importer = None
          /\ desk = None /\ refused = None /\ changes = None
          /\ tries = None /\ faults = None
    /\ Client!ClientInit
    /\ \/ tool = "evidence" /\ Evidence!EvidenceInit
       \/ /\ tool # "evidence"
          /\ replayed = Nothing /\ disk = None /\ runManifest = None
          /\ runStatus = None /\ worker = None /\ replay = None
          /\ altered = None /\ early = None /\ crafted = None
    /\ \/ tool = "benchmark" /\ Benchmark!BenchmarkInit
       \/ /\ tool # "benchmark"
          /\ pack = None /\ lane = None /\ budget = None /\ place = None
          /\ index = None /\ overtime = None /\ results = None
          /\ used = None /\ spent = None /\ business = None
          /\ before = None /\ changed = None /\ filed = None
          /\ benchmark = Nothing /\ missed = None
    /\ \/ tool = "confirm" /\ Confirm!ConfirmInit
       \/ /\ tool # "confirm"
          /\ agenda = {} /\ slots = <<>>
          /\ dialogs = [c \in Confirm!Calls |-> Confirm!Unused]
          /\ accepted = {} /\ withdrawn = {} /\ credential = None

LabStep ==
    /\ tool = "lab" /\ LabNext
    /\ UNCHANGED <<tool, debugVars, policyVars, filesVars, integrityVars,
                   deskVars, caseVars, pipeVars, importVars, clientVars,
                   evidenceVars, benchmarkVars, confirmVars>>

DebugStep ==
    /\ tool = "debug" /\ DebugNext
    /\ UNCHANGED <<tool, labVars, policyVars, filesVars, integrityVars,
                   deskVars, caseVars, pipeVars, importVars, clientVars,
                   evidenceVars, benchmarkVars, confirmVars>>

PolicyStep ==
    /\ tool = "policy" /\ Policy!PolicyNext
    /\ UNCHANGED <<tool, labVars, debugVars, filesVars, integrityVars,
                   deskVars, caseVars, pipeVars, importVars, clientVars,
                   evidenceVars, benchmarkVars, confirmVars>>

FilesStep ==
    /\ tool = "files" /\ Files!FilesNext
    /\ UNCHANGED <<tool, labVars, debugVars, policyVars, integrityVars,
                   deskVars, caseVars, pipeVars, importVars, clientVars,
                   evidenceVars, benchmarkVars, confirmVars>>

IntegrityStep ==
    /\ tool = "integrity" /\ Integrity!IntegrityNext
    /\ UNCHANGED <<tool, labVars, debugVars, policyVars, filesVars,
                   deskVars, caseVars, pipeVars, importVars, clientVars,
                   evidenceVars, benchmarkVars, confirmVars>>

DeskStep ==
    /\ tool = "workbench" /\ Desk!WorkbenchNext
    /\ UNCHANGED <<tool, labVars, debugVars, policyVars, filesVars,
                   integrityVars, caseVars, pipeVars, importVars, clientVars,
                   evidenceVars, benchmarkVars, confirmVars>>

CaseStep ==
    /\ tool = "case" /\ Case!CaseNext
    /\ UNCHANGED <<tool, labVars, debugVars, policyVars, filesVars,
                   integrityVars, deskVars, pipeVars, importVars, clientVars,
                   evidenceVars, benchmarkVars, confirmVars>>

PipeStep ==
    /\ tool = "pipeline" /\ Pipe!PipelineNext
    /\ UNCHANGED <<tool, labVars, debugVars, policyVars, filesVars,
                   integrityVars, deskVars, caseVars, importVars, clientVars,
                   evidenceVars, benchmarkVars, confirmVars>>

ImportStep ==
    /\ tool = "import" /\ Import!ImportNext
    /\ UNCHANGED <<tool, labVars, debugVars, policyVars, filesVars,
                   integrityVars, deskVars, caseVars, pipeVars, clientVars,
                   evidenceVars, benchmarkVars, confirmVars>>

ClientStep ==
    /\ tool = "client" /\ Client!ClientNext
    /\ UNCHANGED <<tool, labVars, debugVars, policyVars, filesVars,
                   integrityVars, deskVars, caseVars, pipeVars, importVars,
                   evidenceVars, benchmarkVars, confirmVars>>

EvidenceStep ==
    /\ tool = "evidence" /\ Evidence!EvidenceNext
    /\ UNCHANGED <<tool, labVars, debugVars, policyVars, filesVars,
                   integrityVars, deskVars, caseVars, pipeVars, importVars,
                   clientVars, benchmarkVars, confirmVars>>

BenchmarkStep ==
    /\ tool = "benchmark" /\ Benchmark!BenchmarkNext
    /\ UNCHANGED <<tool, labVars, debugVars, policyVars, filesVars,
                   integrityVars, deskVars, caseVars, pipeVars, importVars,
                   clientVars, evidenceVars, confirmVars>>

ConfirmStep ==
    /\ tool = "confirm" /\ Confirm!ConfirmNext
    /\ UNCHANGED <<tool, labVars, debugVars, policyVars, filesVars,
                   integrityVars, deskVars, caseVars, pipeVars, importVars,
                   clientVars, evidenceVars, benchmarkVars>>

Next ==
    \/ LabStep \/ DebugStep \/ PolicyStep \/ FilesStep \/ IntegrityStep
    \/ DeskStep \/ CaseStep \/ PipeStep \/ ImportStep \/ ClientStep
    \/ EvidenceStep \/ BenchmarkStep \/ ConfirmStep

Spec == Init /\ [][Next]_vars

Symmetry == Permutations(Writers) \cup Permutations(Versions)
=============================================================================
