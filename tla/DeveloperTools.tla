--------------------------- MODULE DeveloperTools ---------------------------
(***************************************************************************)
(* Eleven tools beside the control plane, each as an instance with state   *)
(* of its own: the single-case operator flow, the pipeline runner, the     *)
(* control-plane client, the confirmed actions of the agent, guarded file  *)
(* access, the workbench, the benchmark import, the replay of a run, the   *)
(* proof that a checkout is unchanged, the bounded benchmark and the       *)
(* policy a draft is examined by.                                          *)
(***************************************************************************)
EXTENDS Naturals, Sequences, FiniteSets

CONSTANTS
    Nothing,        \* no file, record, status, answer or key
    MaxWorkerCalls, MaxFailures,                        \* SingleCase
    NSteps, Pipelines,                                  \* ToolPipeline
    MaxAttempts, MaxPolls, MaxEvents, MaxClientCalls,   \* ControlPlaneClient
    Agendas, MaxDialogs,                                \* ConfirmedActions
    Writers, Readers, Old, MaxMoves, MaxFaults, MaxDeaths,  \* SafeFiles
    Ports, MaxOthers, MaxRaises,                        \* Workbench
    Importers, PinnedFiles, Versions, ImportCases, MaxSnapshotEdits,
    MaxImports, MaxImportFaults,                        \* BenchmarkImport
    Inputs, Given, MaxChanges,                          \* RunEvidence
    Paths, Index, Catalog, Tracked, Source, Published, Skipped, Parent,
    Types, MaxTreeEdits,                                \* SourceIntegrity
    Packs, Ceilings, Requests, Stores, MaxWrites,       \* BoundedBenchmark
    Submitted, Fold(_), Portable(_), Reserved(_), IsYaml(_),
    MaxFiles                                            \* WorkflowPolicy

VARIABLES
    flow, route, caseRoot, status, checked, last, calls, brokeOff, result,
    evidence, manifest, packet, failures,               \* SingleCase
    pipeline, stale, step, stage, outcome, reviews, written, listed,
    recorded, returned,                                 \* ToolPipeline
    events, call, attempts, late, reply, asks,          \* ControlPlaneClient
    agenda, slots, dialogs, accepted, withdrawn, credential,
                                                        \* ConfirmedActions
    root, folder, name, temp, empty, writer, reader, stood, bounds,
                                                        \* SafeFiles
    launcher, smoke, child, told, alone, next, waiting, signalled, ending,
    other, others, raises, drill, asked, released, logs, passed,
                                                        \* Workbench
    bench, snapshot, entry, record, importer, desk, answered, refused,
    changes, tries, faults,                             \* BenchmarkImport
    disk, runManifest, runStatus, worker, replay, altered, early, crafted,
    replayed,                                           \* RunEvidence
    tree, links, phase, at, taken, entered, integrity, made, kept, found,
                                                        \* SourceIntegrity
    pack, lane, budget, place, index, overtime, results, used, spent,
    business, before, changed, filed, benchmark, missed,
                                                        \* BoundedBenchmark
    examined, verdict, branch, visited                  \* WorkflowPolicy

Case ==
    INSTANCE SingleCase WITH MaxCalls <- MaxWorkerCalls, root <- caseRoot

Pipe ==
    INSTANCE ToolPipeline WITH
        None <- Nothing, asked <- reviews, answer <- returned

Client ==
    INSTANCE ControlPlaneClient WITH MaxCalls <- MaxClientCalls, calls <- asks

Confirm == INSTANCE ConfirmedActions WITH None <- Nothing

Files == INSTANCE SafeFiles WITH None <- Nothing

Desk == INSTANCE Workbench

Import ==
    INSTANCE BenchmarkImport WITH
        Order <- PinnedFiles, Cases <- ImportCases, None <- Nothing,
        MaxEdits <- MaxSnapshotEdits, MaxTries <- MaxImports,
        MaxFaults <- MaxImportFaults, told <- answered, edits <- changes

Evidence ==
    INSTANCE RunEvidence WITH
        Absent <- Nothing, root <- runManifest, status <- runStatus,
        changes <- altered, answer <- replayed

Integrity ==
    INSTANCE SourceIntegrity WITH
        MaxEdits <- MaxTreeEdits, answer <- integrity, edits <- made

Benchmark ==
    INSTANCE BoundedBenchmark WITH
        None <- Nothing, stage <- place, at <- index, late <- overtime,
        evidence <- filed, answer <- benchmark

Policy == INSTANCE WorkflowPolicy WITH None <- Nothing

BenchmarkCases ==
    [input : Nat, output : Nat, raises : {"nothing", "payload", "calculate"}]

(* What is not there is no file, entry or snapshot.  A guarded write       *)
(* promises what it answers while one system call fails, not two.          *)
ASSUME DeveloperToolsAssumption ==
    /\ NSteps \in Nat
    /\ \A p \in Pipelines : p \in [1 .. NSteps -> [reads : Nat, when : Nat]]
    /\ MaxDialogs \in Nat
    /\ \A requests \in Agendas : \A q \in requests :
          q = [action |-> q.action, object |-> q.object, detail |-> q.detail,
               invocation |-> q.invocation]
    /\ Old \notin Writers /\ Nothing \notin Writers
    /\ MaxMoves \in Nat /\ MaxFaults \in {0, 1}
    /\ Ports \in Nat \ {0}
    /\ Nothing \notin Import!Snapshots
    /\ Nothing \notin [sha : Versions, case : ImportCases]

(* The sources are no paths under .git, and not allowlisted. *)
ASSUME IntegrityAssumption ==
    /\ IsFiniteSet(Paths)
    /\ {Index, Catalog} \cup Tracked \subseteq Paths
    /\ Source \cup Published \subseteq Paths \ (Skipped \cup {Parent})

(* The registry, the artifacts and the reviews are in directories of       *)
(* different names.                                                        *)
ASSUME BenchmarkAssumption ==
    /\ Packs \subseteq Seq(BenchmarkCases)
    /\ Ceilings \in [cases : Nat, input : Nat, output : Nat, total : Nat,
                     temp : Nat, wall : Nat]
    /\ \A request \in Requests :
          /\ DOMAIN request \subseteq DOMAIN Ceilings
          /\ \A f \in DOMAIN request : request[f] \in Nat
    /\ Stores \in Seq(STRING) /\ Stores # <<>>
    /\ \A i, k \in DOMAIN Stores : Stores[i] = Stores[k] => i = k
    /\ Nothing \notin Nat

(* Paths are not empty, and have parts; agents have references.            *)
ASSUME PolicyAssumption ==
    \A draft \in Submitted :
        /\ IsFiniteSet(draft.files)
        /\ draft.files \subseteq Seq(STRING) \ {<<>>}
        /\ \A f \in Policy!Agents(draft) : \A r \in draft.agents[f].refs :
              r.path \in Seq(STRING)

-----------------------------------------------------------------------------
(* The properties of the tools, by name. *)

\* What a single-case run returns is on record and backed by its directory.
CaseIsBacked == Case!CaseIsBacked

\* What a pipeline returns is what its registry says and its steps did.
PipelineIsTold == Pipe!PipelineIsTold

\* What the client returns was so during the call, and is of one piece.
AnswersAreOfTheRun == Client!AnswersAreOfTheRun

\* A confirmed action is carried out as often as it was approved, or less.
ApprovedOnce == Confirm!ApprovedOnce

\* What a guarded write answers is what has happened to the file.
WritesAreHonest == Files!WritesAreHonest

\* A launcher and a browser smoke clean up after themselves.
WorkbenchLeavesNothing == Desk!WorkbenchLeavesNothing

\* An import that was answered has the evidence it has checked on record.
ImportIsBacked == Import!ImportIsBacked

\* A replay that is available tells what the run has calculated.
ReplayIsOfTheRun == Evidence!ReplayIsOfTheRun

\* "Unchanged" means that the protected checkout is the same.
IntegrityIsTold == Integrity!IntegrityIsTold

\* A benchmark stays within its limits and says how it went.
BenchmarkIsTold == Benchmark!BenchmarkIsTold

\* What _validate accepts is a tree of agents with approved tools only.
AcceptsComposable == Policy!AcceptsComposable
=============================================================================
