SPECIFICATION Spec
CONSTANTS
    Exporters = {p1}
    N = 2
    Gateway = Gateway
    None = None
    MaxEdits = 2
    MaxCrashes = 1
    Servers = {w1, w2}
    Keys = {k1, k2}
    Fingerprints = {f1, f2}
    Ids = {o1, o2}
    NoId = NoId
    MaxRestarts = 2
    Nothing = Nothing
    MaxWorkerCalls = 2
    MaxFailures = 1
    NSteps = 3
    Pipelines <- MCPipelines
    MaxAttempts = 2
    MaxPolls = 2
    MaxEvents = 8
    MaxClientCalls = 1
    Agendas <- MCAgendas
    MaxDialogs = 3
    Writers = {w1, w2}
    Readers = {r1}
    Old = Old
    MaxMoves = 1
    MaxFaults = 1
    MaxDeaths = 1
    Ports = 2
    MaxOthers = 1
    MaxRaises = 1
    Importers = {w1, w2}
    PinnedFiles <- MCPinnedFiles
    Versions = {v1, v2}
    ImportCases = {"c1", "c2"}
    MaxSnapshotEdits = 1
    MaxImports = 2
    MaxImportFaults = 1
    Inputs = {"x1", "x2"}
    Given = "x1"
    MaxChanges = 3
    Paths = {"catalog", "draft", "index", "note", "tmp"}
    Index = "index"
    Catalog = "catalog"
    Tracked = {"catalog"}
    Source = {"catalog"}
    Published = {}
    Skipped = {"index", "draft"}
    Parent = "tmp"
    Types = {"regular", "missing"}
    MaxTreeEdits = 2
    Packs <- MCPacks
    Ceilings <- MCCeilings
    Requests <- MCRequests
    Stores <- MCStores
    MaxWrites = 1
    Submitted <- MCSubmitted
    Fold <- MCFold
    Portable <- MCPortable
    Reserved <- MCReserved
    IsYaml <- MCIsYaml
    MaxFiles = 6
INVARIANTS
    CandidateExisted AnswerMatchesExport BaseIsIntact
    ExecutedOnce AnswersAgree
    AcceptsComposable WritesAreHonest IntegrityIsTold
    WorkbenchLeavesNothing CaseIsBacked PipelineIsTold
    ImportIsBacked AnswersAreOfTheRun ReplayIsOfTheRun BenchmarkIsTold
    ApprovedOnce
CHECK_DEADLOCK FALSE
SYMMETRY Symmetry
