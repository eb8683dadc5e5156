# AI Actuary in TLA+

AI Actuary runs deterministic reserving workflows, records every run in a local
JSON registry and keeps its evidence on disk; a FastAPI control plane accepts
the work of two kinds of client, the operator console and the ADK developer
agent, and a set of command line tools works beside it. This directory models
the parts of it that concurrency, failure and restarts make hard. TLC checks the
models on small instances; TLAPS proves the main results about the registry, the
runs, the capabilities, the reviews, the Workflow Lab and most of the tools for
every value of the constants.

Source paths below are relative to `src/src/reserving_workflow/`; `docs/`,
`tests/`, `scripts/`, `workflows/`, `developer_workflows/` and `README.md` of
the repository are under `src/`.

## 1. The system

### Components, their state and their operations

| Component | Source | State | Operations |
| --- | --- | --- | --- |
| Run registry | `runtime/run_registry.py`, `storage/local.py` | `run_registry.json`: run entries with status history, ADK operations, debug operations | `accept_adk_run`, `record_run_event` (update, then create), audit, `mark_incomplete_adk_runs_stale`, listings |
| Registry transactions | `storage/registry_transactions.py` | a thread lock per path, a file lock, a temporary file | lock, read, change, replace, unlock |
| Workflow runs | `api/app.py` | background workers; per run an artifact root with manifest, packet, summary, step artifacts and their digests | start and rerun of ADK runs, start and rerun of console runs, the sequential workflow, its exception handler, start-up recovery, replay |
| Capability authority | `api/capabilities.py` | two bearer credentials with generations, a bootstrap token, a handoff table, sessions (in memory) | exchange, request / approve / claim a handoff, authenticate, rotate |
| Reviews and exports | `review/store.py`, `reports/export.py`, `storage/local.py`, `api/app.py` | review record, decision copies, the run's manifest | create a review, submit a decision, export a report (console and ADK) |
| ADK debug operations | `runtime/run_registry.py`, `api/app.py` | operations with key, fingerprint and result | record, replay, execute, complete, poll |
| Confirmed actions | `developer_workflows/ai_actuary_developer/tools.py`, `adapters/control_plane/client.py`, `api/capabilities.py` | pending actions in the agent's session, dialogs, grants | ask the user, post with a signed grant, check the grant |
| Operator flow | `operator_entrypoint.py`, the case workers under `workflows/` | best-effort registry records, files of a run, a result | run a single case, rerun |
| Tool pipeline | `tool_runner/` | steps and their results, a manifest | run, retry or skip a step, derive a status |
| Workflow Lab | `adapters/adk/workflow_lab.py`, `_workflow_contract_probe.py` | drafts, a lock per app, exports, a lease | edit, validate, export, revoke, clean up |
| Source integrity | `adapters/adk/source_integrity.py` | none | capture a checkout, compare two captures |
| Guarded file access | `storage/safe_json.py` | pinned directory descriptors | bounded reads, exclusive and atomic writes |
| Control-plane client | `adapters/control_plane/` | none | requests with retries, summaries, waiting with a deadline |
| Workbench | `cli/workbench_launcher.py`, `scripts/browser_smoke_local_workbench.py` | child processes, ports, logs | start, watch, stop; the smoke around it |
| Benchmark import | `review/benchmark_import.py` | a snapshot, a registry entry, a review record | verify, materialise, register, create the review |
| Evaluation lanes | `evaluation/adk_lanes.py` | budgets, evidence, snapshots of the business storage | run a bounded benchmark |
| Core and wording | `calculators/`, `validation.py`, `constitution/`, `narrative.py`, `review/ai_reviewer.py` | none | pure computations, optional model calls |

### How they interact

All writers of the registry, in any process, go through
`locked_registry_transaction`; readers of the store do not. A request for an ADK
run is a chain of steps on three resources (registry entry, artifact root,
manifest) before a worker is scheduled; the worker reports every step through
`record_run_event` and writes its evidence in between. Handlers are mostly
coroutines that never await, so one control plane handles them one at a time,
while workers run in threads next to them. Review handlers and exports change
the same manifest the worker writes, without a lock; so does the benchmark
import, from a process of its own. The capability authority is in memory and
behind the same event loop; a restart re-creates it. At start-up `create_app`
marks ADK runs that were in flight as stale, before it serves anything.

The agent reaches the control plane through the client only. What changes
something is asked of the user first, and posted with a grant that the authority
checks against the request. The Workflow Lab's scripts and the draft gateway
share a lock per app; an editor, and the cleanup command, take none. The
launcher owns the control plane and the agent's web server as child processes,
and the browser smoke owns the launcher.

### What is hard

- two nested locks around a file that is replaced by rename, with processes
  that die inside; readers without the lock;
- an audited writer and an unaudited one on the same file, where one bad record
  makes the audit refuse everything afterwards;
- idempotent retries across restarts, with a run that may be half accepted;
- a status that is published before the evidence for it is complete;
- files written in place by handlers, next to a worker that replaces them;
- decisions written to five files one after the other;
- rotation of credentials against handoffs and sessions under way, with a
  half-failed rotation;
- operations that are recorded, carried out and completed in three steps, with
  no recovery;
- a user's answer that belongs to another call of the same tool, or whose post
  arrives after the client gave it up;
- trees that are read file by file, for an export or for the proof that the
  export changed nothing, while others edit them;
- directories that are swapped between the check of their identity and the
  write in them;
- child processes, ports and logs on every way out of the launcher;
- an import that breaks off half way and is repeated, or runs twice at once;
- answers put together from several requests while the run goes on;
- digests that lie beside the files they are about;
- budgets that are charged at different moments of a case.

`PROJECT.json` lists each of these at its line, with the properties that would
catch it going wrong.

### What makes each component correct

- registry: a key stands for one run; the audit always passes; entries and
  histories only grow; the status is the last word of the history;
- transactions: mutual exclusion, no lost or half-written change, nobody is
  told of success too early, nobody waits for ever;
- workflow runs: one worker per run; a completed run has its evidence and its
  inputs; outcomes are not reopened; incomplete ADK runs end; a replay that is
  available is one of this run's calculation;
- capability authority: single-use grants, rotation reaches everything, a
  bounded table that does not push out what is recent;
- reviews: the first decision stands; copies agree with the record; an answer is
  backed by the files it speaks of; the manifest keeps what was added to it;
- debug operations: carried out once, one outcome for all clients;
- confirmed actions: what is carried out was approved as it is, and no more
  often than it was approved;
- operator flow and pipeline: what is returned and what the registry says follow
  from what is on disk;
- Workflow Lab: a candidate is a draft that existed, made against the published
  tree of that time; an export's answer is what its directory says; what the
  policy accepts is one tree of agents with approved tools;
- source integrity: "unchanged" is true, and a change is not blamed on somebody
  who made none;
- guarded files: a write that is answered happened where the path leads, a
  refused one left nothing;
- client: an answer is of one state the run had during the call;
- workbench: nothing is left running, taken or readable afterwards;
- import: what is answered for was checked, copied and registered as one piece;
- benchmark: it stays within its limits and tells how it went.

## 2. Modules

| Module | Models | Proofs | TLC |
| --- | --- | --- | --- |
| `RunRegistry` | the registry file as a set of entries and operations, one action per transaction | `RunRegistryProofs` | `MCRunRegistry` |
| `RegistryLog` | what a registry transaction promises: a log | | |
| `RegistryTransactions` | the transaction opened up into its steps | `RegistryTransactionsProofs` | `MCRegistryTransactions` |
| `WorkflowRun` | requests, workers, disk and restarts, on an instance of `RunRegistry` | `WorkflowRunProofs` | `MCWorkflowRun` |
| `CapabilityAuthority` | credentials, bootstrap, handoffs, sessions, time | `CapabilityAuthorityProofs` | `MCCapabilityAuthority` |
| `ReviewDecisions` | one run's review, its copies and its manifest, next to the run's worker | `ReviewDecisionsProofs` | `MCReviewDecisions` |
| `DebugOperations` | export and benchmark operations on one or more servers | `DebugOperationsProofs` | `MCDeveloperTools` |
| `ConfirmedActions` | the agent's confirmed tools, posts and grants | `DeveloperToolsProofs` | `MCDeveloperTools` |
| `RunEvidence` | what a worker publishes and digests, and its replay | `DeveloperToolsProofs` | `MCDeveloperTools` |
| `SingleCase` | the operator flow, and its rerun in the same directory | `DeveloperToolsProofs` | `MCDeveloperTools` |
| `ToolPipeline` | a pipeline of steps, of every shape | `DeveloperToolsProofs` | `MCDeveloperTools` |
| `WorkflowLab` | drafts, validation, export, revocation, cleanup | `WorkflowLabProofs` | `MCDeveloperTools` |
| `WorkflowPolicy` | what a draft is accepted by, with the isolated probe's visit | `DebugOperationsProofs` | `MCWorkflowPolicyDrafts` (the drafts), `MCDeveloperTools` |
| `SourceIntegrity` | the capture of a checkout while it is edited | `DebugOperationsProofs` | `MCDeveloperTools` |
| `SafeFiles` | guarded writes and reads next to moves and failing calls | `DeveloperToolsProofs` | `MCDeveloperTools` |
| `ControlPlaneClient` | the client that follows a run | `DeveloperToolsProofs` | `MCControlPlaneClient`, `MCDeveloperTools` |
| `Workbench` | the launcher and the browser smoke | `DeveloperToolsProofs` | `MCDeveloperTools` |
| `BenchmarkImport` | the import of an evaluation, next to the control plane | `DeveloperToolsProofs` | `MCBenchmarkImport`, `MCDeveloperTools` |
| `BoundedBenchmark` | one benchmark under its budgets | `DebugOperationsProofs` | `MCDeveloperTools` |
| `DeveloperTools` | instances of eleven of these tools, side by side | `DeveloperToolsProofs`, `DebugOperationsProofs` | `MCDeveloperTools` |

How they fit together: `RegistryTransactions` justifies that every call of the
registry is one atomic step, so the modules that use the registry take it as
one. `WorkflowRun` composes `RunRegistry`
(`Registry == INSTANCE RunRegistry WITH Callers <- Jobs`) with the handlers and
the workers that call it; its property `KeepsRegistry` says that every step of a
run is a step of the registry or leaves it alone, so what is proved about the
registry holds of every workflow. `ReviewDecisions` takes over where the worker
of `WorkflowRun` reports its last step, and opens up the file operations that
`WorkflowRun` takes as one; `RunEvidence` opens up what one worker publishes
step by step, file by file. `ConfirmedActions` is how the agent's requests of
`WorkflowRun` and `DebugOperations` come about; `BoundedBenchmark` is what a
benchmark operation of `DebugOperations` does inside. `BenchmarkImport` is a
second writer of the review store of `ReviewDecisions`. `WorkflowPolicy`
computes the verdict that is a choice in `WorkflowLab`, and `SourceIntegrity`
opens up the captures that `WorkflowLab` takes as one step each.

`DeveloperTools` gives eleven tools that share nothing (operator flow,
pipelines, client, confirmed actions, guarded files, workbench, import, replay,
source integrity, bounded benchmarks, policy) a state of their own each, names
their properties and states what is assumed of their constants; the theorems
about them are about these instances, one specification per tool.
`MCDeveloperTools` adds the other two (debug operations, Workflow Lab) and is a
sum: a variable `tool`, chosen at the start, says which of thirteen machines a
behaviour is about, and the variables of the others have no value. The machines
share no state, so this checks each by itself.

Operators named `Fault...` are slips a maintainer could make in the definition
that follows them: a dropped check, a swapped order, a missing reset. No action
uses them. Each property of each passing run is known to be violated when one of
them takes the place of the definition it imitates (`mutants` in
`PROJECT.json`).

Line numbers count line feeds. It matters for `api/app.py`, whose lines end in
CR CR LF: an editor that takes a lone CR for a line end shows every number
doubled.

### RunRegistry

Entries are records of the fields that decide something: id, status, source,
provenance, operation, recorded inputs, review flag, stale flag and status
history. `AcceptNew` and `AcceptReplay` are the two ways `accept_adk_run` can
end; the conflicts it can report are guards, in the order of the code, and a
call that raises changes nothing. `RecordUpdate`, `RecordMissing` and
`RecordCreate` are `record_run_event`: an update that finds the run, an update
that does not, and the create that follows in a second transaction. `Restart` is
the recovery. `Audit` is `_audit_adk_payload`. Run ids, invocation ids and
correlation ids are drawn from small sets, so that collisions happen.

What callers hand over is restricted to what the callers in the code hand over
(`Callable`): a provenance is only ever passed for the run it belongs to, and
progress records pass none.

### RegistryTransactions and RegistryLog

A payload is the sequence of changes that led to it. One action per step: thread
lock, file lock, read, temporary file, rename, unlock, return; `Refuse` is a
transaction that raises; `Crash` takes a process with all its threads, and its
file lock with it. `Peek` is a reader without the lock. `KeepsLog` states that
all this implements `RegistryLog`, where a commit appends one change and an
acknowledgement is for a change the log holds.

### WorkflowRun

A job is one request and the work it leads to. Its stages follow
`start_adk_workflow_run` or `create_run` up to the scheduling, then
`_run_sequential_workflow_impl` step by step: queued, running,
workflow.started, then per workflow step its start record, the work and its
finish record, then packet, summary, manifest, the workflow's finish record and
the result. `Raise` may come before every one of them; `RecordRunFailure` is the
exception handler of background runs. `Restart` drops all jobs and runs the
registry's recovery. `disk` says what is in a run's artifact root.

### CapabilityAuthority

One action per method. Secrets and claim tokens are model values (`Short` is one
that fails the length check); handoffs are numbered in the order of their
requests, which stands for their random ids; `Tick` is the monotonic clock,
cleaning is done where the code does it and nowhere else. The history variables
`asked` and `grants` remember the credential generation each handoff was
requested in and the grant behind every session. `RotateOperator` includes the
rotation that raises on a short new bootstrap token after everything else was
changed.

### ReviewDecisions

One run, from the moment its worker's last step is under way, ADK or console;
also a run of an earlier version whose record lacks the run's identity. A file
written in place is first torn, then filled, in two steps, and anything may
happen in between; the ADK worker's manifest is replaced at once. A handler that
fails leaves what it had begun. `handler.settled` marks requests that began when
the worker was through, which are the only ones that may rely on the manifest
(see the finding below).

### DebugOperations and BoundedBenchmark

Servers that share one store each handle one request at a time. A request that
finds its key bound answers with the operation as it stands; otherwise it
records, executes and completes. A crash, or a store that cannot be written at
the end, leaves the operation running: the recovery is for runs only.

`BoundedBenchmark` is one execution: a case is the sizes of its input and output
and the place where its evaluation raises, if it does; the budgets are charged
in the order of `run_offline_benchmark` and of the real-model lane; a business
root is told apart by how often it was written, and the walk reads one root
after the other. `used` is the code's running total; the history variable
`spent` keeps what it was before each case, for the property and its proof. An
exception anywhere is the route's `benchmark_execution_failed`.

### ConfirmedActions

A call of a confirmed tool draws an idempotency key, puts it in the tool's slot
of the session state and asks; the framework calls the tool again, with the same
arguments and the user's answer, which the user interface may have taken from
another dialog. The post carries a grant over the request's fingerprint; the
client may give it up, and it may still arrive. The slot of a start is per
invocation, so a second start replaces the first one's pending key; the
fingerprint of a benchmark has no session in it. Session state is taken to
persist, and the run or pack that is asked about to exist.

### RunEvidence

The worker publishes the files of the calculation step one by one, reads them
back for the digests of the step's manifest, and lists both step manifests in
the run's; others change a file, a manifest or the whole root at any time. A
replay reads manifests and artifacts against these digests, one after the other,
and calculates again. Contents are told apart by the input they are about;
digests collide never, and results of different inputs differ. Step events and
narrative artifacts are left out.

### SingleCase and ToolPipeline

`SingleCase` follows `run_operator_flow` from the planner, which may call the
worker several times, never, or break off, through the case worker's files, the
manifest, the packet and the delivery to the last registry record, which is on a
best-effort basis like the others. Two flows share a directory only when a rerun
is given its source's (`rerun_case.py` without `--artifact-dir`).

`ToolPipeline` runs pipelines of every shape and length, the empty one included
(`steps` defaults to an empty list): each step reads the case input or an
earlier output, and may have a condition on an earlier step, on itself or on a
later one. The directory may hold the outputs of an earlier run. TLC takes all
pipelines of three steps.

### WorkflowLab, WorkflowPolicy and SourceIntegrity

`WorkflowLab` has exporters (the scripts that validate or export), the draft
gateway as the competing holder of the app's lock, an editor who knows no lock,
the cleanup command and deaths. The draft is read file by file, in passes; a
file is the number of its edit, and an edit never brings back an earlier
content; the published tree is one object. The passes see to it that a
candidate was the draft at one instant, and not that it was meant: what a
gateway that died left half written is the draft from then on.

An export is a directory with the candidate's files in a directory of their own,
the patch and, last, the manifest that marks it as committed; each of these
objects is there or not and writable or not (`objects`, `locked`). The steps are
those of `_write_export_bundle`: the directories, the files, the name of the
manifest (`Link`, the `os.link`) and the handle of it (`Mark`, what follows in
`_write_exclusive_guarded`), the modes (`Harden`: files, then directories from
the inside), the proofs and the lease. Any call may fail at any of them
(`Break`), and the failure path discards the manifest it has a handle of; one
that fails between `Link` and `Mark` leaves the manifest behind, and
`AnswerMatchesExport` says so. A discard is one step, which succeeds, has no
effect, leaves the directory writable or removes the manifest and fails after
that (`Disturbed`); the lock of a revocation, too, may not be had. The pending
name of a file that is being written is left out.

The cleanup follows `_remove_path_no_follow` entry by entry: it lists, makes an
entry writable (`MakeWritable`) and only then finds out whether the entry can be
removed (`RemoveEntry`). It is an ordinary user, who cannot remove an entry of a
directory of mode 0555: of a finished export it changes the mode of one file and
stops there, and the last verification of a lease refuses that export (`Whole`
is about modes of files and directories alike). One command is modelled, which
is why at most one object is made writable.

`WorkflowPolicy` has the stages of `_validate` as operators over a draft whose
YAML is already read (`Stage`): which files, which documents, which references,
which tools, in the order in which the code reports. The last stage, the
probe's `visit`, is a machine over the agents the probe takes (`Configs`: it
leaves out every file whose name is `workflow_policy.yaml`, wherever it lies,
so that one under `sub_agents` is an agent to the earlier stages and none to
this one, which may hang from nothing, share its name, and be no target):
`branch` is the stack of its calls, each with the references it has yet to
follow, `visited` the agents whose call is over, and a step follows one
reference (`Refuse`, `Pass`, `Descend`), ends a call (`Return`) or looks for
agents that were not reached (`Conclude`). The same reference is resolved
twice, by different rules: part by part against the directory of its file, as
text (`SafeConfigPath`, which wants portable names and does not look at the
names Windows reserves, as the check of the files' own names does), and as
`Path.resolve` does in the copy the probe works on (`Resolved`). Before its
visit the probe may refuse a document that is no agent to the runtime, and at
any time it may not start or not end in its ten seconds (`model_invalid`,
`validation_failed`); neither says anything about the graph. The references of
an agent are a set, since the verdict does not depend on their order.
`MCWorkflowPolicyDrafts` is the set of drafts: chains, diamonds, cycles, shared
and unreached files, escapes, other spellings with portable or reserved names,
a second `workflow_policy.yaml` under `sub_agents` (alone, with another agent's
name, referenced), missing and unknown fields, tools that are approved,
undeclared or code.

`SourceIntegrity` captures a checkout entry by entry; several parts of a capture
cover one object, and links are followed as the code follows them. The order of
the paths within a part is any fixed one: nothing depends on it. A path that is
missing, or that is no file, at both of the readings the code takes of it may
have been a file in between; `IntegrityIsTold` says which changes "unchanged"
excludes and leaves this one out.

### SafeFiles

Roots and folders are numbered by the move that brought them (a directory that
was moved away does not come back); an inode is named after the writer that
made it. The steps are those of the POSIX half: pin the root, open the folder,
temporary file, link or rename, check of the identity, unlink. A name has one
atomic writer at a time, as in the control plane. What can go wrong in the code
without breaking the promise is in the model too: an error after `linkat` leaves
an empty file, an error after `os.replace` unlinks the new file, a death leaves
a temporary name.

### ControlPlaneClient

`summarize_run`, `wait_for_terminal_run` and `wait_run`; a GET is tried again
when its answer is lost, and an answer may be of an earlier state than its
arrival. The run is what its registry entry tells: the events of its history.
The contract checks on status, events and review are there; the content of
artifacts is not.

### Workbench

The launcher checks ports and gives them back before its children take them,
starts children, waits for their endpoints, watches them, and ends them on every
way out: a child's death, a signal, a readiness timeout, an error while writing.
The browser smoke around it starts a launcher, looks at every port, stops it
(kills it in the end), waits for the ports and cleans its raw logs. A process
that is killed is taken to end within the wait; a child told to end never opens
its port; the smoke kills only a launcher that still waits for children.

### BenchmarkImport

Importers (two may run at once) verify the evaluation, stage a snapshot,
rename it, register the run and create the review; a repeated import starts from
what is there. Versions stand for digests: a file matches the manifest when it
has the manifest's version. The control plane's decision and export change the
snapshot's manifest meanwhile.

## 3. Runs

| Run | Config | What it shows |
| --- | --- | --- |
| `run_registry` | `MCRunRegistry.cfg` | two run ids, keys, invocations, correlation ids and callers, two records per run: all collisions, retries, and the interleaving of two callers in update-then-create |
| `registry_transactions` | `MCRegistryTransactions.cfg` | two threads of one process and one of another, three changes, two crashes, one reader: exclusion, refinement of the log, growing snapshots and, under fairness, an end to every transaction |
| `workflow_adk` | `MCWorkflowRun.cfg` | three ADK requests, two runs, one key, one restart, exceptions anywhere |
| `workflow_live` | `MCWorkflowRunLive.cfg` | under fairness, two requests of either kind, reruns included, and one restart: an accepted ADK run ends, and all of it is a behaviour of `RunRegistry` |
| `capability_authority` | `MCCapabilityAuthority.cfg` | two slots, three requests, two sessions, two rotations, times to live of two ticks |
| `review_decisions` | `MCReviewDecisions.cfg` | four requests, two payloads, one restart |
| `developer_tools` | `MCDeveloperTools.cfg` | debug operations and the twelve other tools, each by itself |
| `rerun_inputs` | `MCWorkflowRunInputs.cfg` | violated: see below |
| `stale_needs_review` | `MCWorkflowRunStale.cfg` | violated: see below |
| `export_manifest` | `MCReviewDecisionsManifest.cfg` | violated: see below |
| `import_repeated` | `MCBenchmarkImport.cfg` | violated: see below |
| `client_contract` | `MCControlPlaneClient.cfg` | violated: see below |

What `developer_tools` shows, tool by tool: `ExecutedOnce`, `AnswersAgree`
(debug operations on two servers); `CandidateExisted`, `AnswerMatchesExport`,
`BaseIsIntact` (Workflow Lab); `AcceptsComposable` (policy); `WritesAreHonest`
(guarded files); `IntegrityIsTold` (source integrity); `WorkbenchLeavesNothing`
(launcher and smoke); `CaseIsBacked` (operator flow); `PipelineIsTold` (tool
pipelines); `ImportIsBacked` (benchmark import); `AnswersAreOfTheRun` (client);
`ReplayIsOfTheRun` (replay); `BenchmarkIsTold` (bounded benchmark);
`ApprovedOnce` (confirmed actions). Each is stated, with the code or test it is
about, in the module of its tool. `ReplayIsOfTheRun` says where it ends: three
changed files, some of them before the run completed, or a run manifest made by
hand, can make another calculation pass.

### Bounds

Every bound is a constant of its module, marked "bound:" where it is declared.
They are chosen so that each hazard can happen at least once and meet another
one: two contenders for each id and key, a retry after the crash, a third
handoff for two slots, a decision that conflicts with one that was retried, a
third change while two transactions are under way. In the sum of the tools:

| Tool | Instance |
| --- | --- |
| debug operations | two servers, two keys, two requests, two crashes |
| Workflow Lab | one exporter with the gateway as competitor, trees of two files, two edits, one death, one cleanup; any call on the export may fail |
| policy | the drafts of `MCWorkflowPolicyDrafts` (graphs, a policy file under `sub_agents`, fields, sets of files), at most six files |
| guarded files | two writers, one reader, one move, one failing call, one death |
| source integrity | five paths (the catalog, which is tracked; an untracked one; the index and a draft, which are skipped; their parent), two edits |
| workbench | two ports, one other program, one write error |
| operator flow | a run and its rerun, two worker calls, one failing operation |
| pipelines | all of three steps, fresh and used directories |
| import | two importers, two cases, two versions, one edit, two tries, one failure |
| client | one call, eight events, two polls, two attempts |
| replay | two inputs, three changes |
| benchmark | packs of two cases of sizes 1 and 2, or none; six requests; two roots, written once each |
| confirmed actions | four agendas of up to two requests, three dialogs, one rotation |

Two is where most of these hazards begin: two contenders, two edits around one
read, two files in one tree, a retry after one failure. Three changed files are
what it takes to make a replay of another result.

Symmetry is used only for sets of interchangeable model values and never in a
run with a liveness property. In the registry's run the events are one status,
since statuses are told apart by `HistoryTellsStatus` only through the recovery;
`workflow_adk` and `workflow_live` use all six. `workflow_live` runs workflows
of one step; `workflow_adk` has the built-in two. `CHECK_DEADLOCK FALSE` is set
where the bounded requests run out; the registry and its transactions with a
reader are checked for deadlock.

### Fairness

`RegistryTransactions` assumes weak fairness of each thread's steps: the
operating system runs every thread that can move, and a lock that is free is
given to somebody who waits. (With finitely many changes this is enough; with
unboundedly many a waiting thread could in principle be overtaken for ever,
`flock` makes no promise of order.) `WorkflowRun` assumes weak fairness of each
job's own next step: calculations return and registry calls come back. Nobody
owes a request, an exception, a crash or a restart. The other modules state no
liveness property, and no fairness.

### Where code and documents disagree

- `rerun_inputs`: `docs/contracts/control-plane.md:291` says the recorded
  `operator_params` are the base of a rerun. Progress records replace them by
  the case and workflow ids (`api/app.py:3727`) and only the last record brings
  the inputs back, so a console rerun of a run that failed, was left behind or
  is still under way starts with the default inputs. An ADK rerun is refused
  instead (`LineageKeepsInputs` holds of it).
- `stale_needs_review`: `docs/contracts/control-plane.md:58` and `README.md:386`
  say that an incomplete ADK run found after a restart is recorded as failed. A
  run that died after the step event that says needs_review (`api/app.py:3240`)
  and before its final manifest stays needs_review. What does hold is
  `AbandonedIsNotInferred`: it is not in flight, and never completed.
- `export_manifest`: `docs/contracts/control-plane.md:233` says the manifest of
  a workflow run references its summary and its steps. A report export that
  began before the worker wrote the final manifest writes the initial one back
  (`reports/export.py:27`), and the completed run is left with it.
  `SettledListed` states what holds of requests that begin after the worker.
- `import_repeated`: `tests/test_benchmark_review_import.py:186` expects a
  second import of the same evidence to be found. Decisions and exports add
  names to the snapshot's `artifact_paths` without digests, and the next import
  demands a digest for each (`review/benchmark_import.py:258`): it refuses the
  run. `ImportIsBacked` states what holds of imports that are answered.
- `client_contract`: `adapters/control_plane/client.py:356` promises to poll
  until a terminal summary is observed. The check of event types (`:919`)
  refuses `workflow.step.completed` with the status "running", which is what the
  control plane records (`api/app.py:3239`), so the client takes every workflow
  run with a completed step for a broken contract. `AnswersAreOfTheRun` states
  what holds of the answers it gives.

## 4. Proofs

All proofs are for every value of the constants under the named assumptions of
the modules (`NoneAssumption`, `BoundsAssumption`, `ThreadsAssumption`,
`WorkflowAssumption`, `AuthorityAssumption`, `OperationsAssumption`,
`ReviewAssumption`, `LabAssumption`, `DeveloperToolsAssumption`,
`IntegrityAssumption`, `BenchmarkAssumption`, `PolicyAssumption`), which TLC
evaluates.
They say that bounds are naturals, that tables, ports and trees are not empty,
that "no value" is not a value, and that a run's inputs are not one of the two
words by which a record says that it keeps or drops them; that a checkout has
finitely many paths, of which the catalog and the index are two and no source is
under `.git` or allowlisted; and that sizes and limits are naturals and the
business roots have distinct names (section 5 says what happens otherwise); that
a draft has finitely many files, and that its paths and references are sequences
of names, those of files not empty. One
assumption bounds the world rather than its names: a guarded write is promised
to be honest while at most one of its system calls fails (`MaxFaults \in {0,
1}`); with two, the code may fail to remove what it wrote and say that it was
refused.

In each module the invariant is a conjunction of named parts; one lemma per
action, or group of actions, shows that it is kept, and the theorems follow from
it. The type invariants are proved in the same way, and not run where a proof
has them.

**RunRegistryProofs.** `TypeCorrect`; `AuditCorrect`: the audit never refuses;
`ChecksAreComplete`: the named conflicts are all there are; `AcceptedOnce`: one
run per key; `HistoryCorrect`; `EntriesCorrect` (an action property). The audit
is not inductive by itself: it compares entries with operations, while
`record_run_event` creates and changes entries without looking at operations.
The invariant adds that a waiting caller's event, when it carries a provenance,
carries one that belongs to its run, that entry ids and operation keys are
unique, and that an entry with an operation agrees with it field by field.
`AcceptedOnce` needs that every answer is backed by an operation, which is never
removed. Lemmas say which fields `Updated`, `Created` and `Recovered` keep.

**RegistryTransactionsProofs.** `MutualExclusion`, `Implements` (the refinement
of `RegistryLog`), `ReadersSeeGrowth`. The inductive invariant: between LOCK_EX
and LOCK_UN the file lock is the thread's own (`Locked`); what a thread has read
is still the file, what it has staged is the file and its change (`Current`);
a change that is about to be answered is in the file; what readers saw is a
prefix of the file. `Current` is what the locks are for, and it is inductive
only with `Locked`.

**WorkflowRunProofs.** `OneWorker`: a run has at most one worker, for every
number of requests, retries and restarts; `Implements`: every step of a
handler, a worker or the recovery is a transaction of `RunRegistry` or leaves
the registry alone. Neither is inductive by itself. The invariant adds that a
job at work has a run whose inputs are on record (`Placed`), that a worker has
an outcome from the work of a step to its result (`Decided`), and that what an
ADK job says of its run is on record (`Owned`). `Implements` needs `Owned`:
`RunRegistry` lets a caller pass only a provenance that an entry has.
`OneWorker` needs it too: an id that no entry has is not the id of an ADK job
either. `RecordingStep`, `LocalStep` and `OpeningKeepsInv` keep the invariant,
one lemma per kind of step.

On top of it, `EvidenceBacksStatus` (what a status says is on disk),
`OutcomesStand` (an action property), `LineageHolds` (the inputs of ADK reruns,
through chains of any length and next to console runs) and `AbandonedRunsEnd`.
Registry and disk are changed in different steps, so `EvidenceInv` says for
each stage of a worker which status its run has on record (`StatusesFit`) and
what its root holds by then (`DisksFit`); when the worker is gone, the last
thing it did is what the two are compared by. The rest says whose an entry is
(`EntriesFit`), that only the first record of a console run creates one
(`CreatesFit`), that a run without a job has nothing on disk
(`UntouchedAreEmpty`), that an ADK run in flight has a job that is still at it
until the recovery (`InFlightIsInHand`), and that the run a rerun started from
is still registered (`SourcesKnown`).

**CapabilityAuthorityProofs.** `TypeCorrect`, `CredentialsStayIndependent`,
`RevocationCloses`, `RotationReachesAll`, `GrantsAreSingleUse`,
`ExchangeIsSpent`, `RecentHandoffsAreKept`. The invariant adds that handoff ids
are known and unique, that an unused handoff has led to no session, and that a
session or an approval of the present generation has spent the exchange. The
last theorem is an action property about a table of any size: the entry a full
table gives up is the one that expires first, which is the one requested
first. `LaterExpireLater` says so (approvals and claims keep the time an entry
was given, the clock only rises); then the entries of a full table are as many
different requests since that one, and at least `MaxHandoffs` of them.

**ReviewDecisionsProofs.** `Stands` (an acknowledged decision is the record's,
and every readable copy is its copy), `AnswersAreBacked` (an action property),
`EntriesStay` (`SettledListed`). Five files change one after the other, each
torn in between, while exports, restarts and the run's worker interfere. The
invariant says what a handler has in hand at each stage
(`RequestFits`), what the record may be while it is at it (`RecordFits`), that
copies are absent, torn or of the decision on record (`CopiesFit`), that what
was acknowledged is the record's (`AckedFits`), which of the run's copies are
written by the time a request answers (`BackingFits`), and that from the
worker's end on the manifest changes only in a handler's hands, which has read
what it writes back (`ListingFits`).

**DebugOperationsProofs.** `TypeCorrect`, `AtMostOnce`, `OneOutcome`. The
invariant adds `InHand`: the server that is at an operation is the only one, the
operation is still recorded as running and has been begun as often as its stage
says; and that only recorded operations were ever begun. The module also has
three tools of the same adapter, with an invariant each:

- `CheckoutsAreTold`: edits have growing numbers (`TreeFits`), so of the four
  looks at a path, the first reading, the tree after the first capture, the tree
  before the second and the second reading, each is no newer than the next
  (`BeforeFits`, `BetweenFits`, `AfterFits`); if the first and the last are the
  same, so is what lies between. `CaptureReads` shows that a capture reads every
  protected path, whatever the layout, from the range of a concatenation. For
  the other direction, `QuietFits`: while nothing protected was edited, every
  reading is of the original.
- `BenchmarksAreTold`: `ResultsFit` relates each result to its case and to the
  totals before and after it, `EvaluationFits` says how many cases were looked
  at, `SnapshotFits` that a root which was written after its first reading
  counts more writes than were read, so that the second reading finds it, and
  `AnswerFits` that the answer is the evidence on record. `EvaluatedCase` is the
  lemma about the order of the checks: a case that none of them refuses fits,
  and one that is refused for the sum does not.
- `DraftsAreComposable` (`AcceptsComposable`), for drafts of any number of
  files and any references between them. An accepted draft is a tree of the
  agents the probe takes, and what all its files name as tools is approved; one
  that is refused for its graph is no such tree. The text and the resolution of
  a reference agree, one part at a time, for as long as the text is allowed
  (`StepsAgree`, `TextIsInside`); so the target of a reference is the agent it
  is resolved to, or none (`TargetIsLed`, `GraphIs`). `BranchFits` says that
  the branch starts at the root, and that its agents are different and not
  visited; `FollowedFit`, that whatever a call has followed is visited or is
  the next call; `HangingFits`, that every set that has the root and all that
  its members lead to has what was visited; `OrderFits`, that what is visited
  has heights that fall along the references, and that every order of the
  agents that the references respect rises along the branch. From these, both
  directions (`ConcludedIsRight`, `RefusedIsNone`): if the visit ends with
  every agent visited, the heights, turned over, are the rank that shows there
  is no cycle; if it ends with fewer, what it has visited is a closed set
  without the rest; and if it meets an agent of its branch, an order would have
  to rise from that agent to the end of the branch and back to it, so there is
  none.
- `VisitsEnd`, that the visit of a draft ends, as far as that is safety:
  `VisitIsShallow` (it is never in more calls at once than the probe has taken
  agents, which are finitely many) and `VisitAdvances` (each step sees an agent
  for the first time; or, with as much seen, takes a call off; or, with as many
  calls, takes references off the innermost one). The three measures are finite
  for a draft whose agents have finitely many references, so no visit goes on
  for ever. No run lists the two.

What the functions `Walked` and `Traced` compute for references of any length is
shown without the induction theorems of the library, which the provers cannot
instantiate: among the parts where a statement fails there would be a first one
(`Least`, from the well-foundedness of the naturals).

**WorkflowLabProofs.** `TypeCorrect`, `CandidateExists`, `AnswersMatchExports`,
`BasesAreIntact`, for trees of any number of files, any number of scripts,
edits and deaths. A tree that is read file by file was never necessarily there
at once; it was, when reading it a second time finds the same: edits have
growing numbers (`EditsFit`), so a file whose number is the same twice did not
change in between, and `SnapshotFits` follows the two passes up to the point at
which the draft they have seen is one that existed. `BaseFits` does the same
for the published tree, whose number only rises. `LocksFit` ties the app's lock
to stages, `LeaseFits` the answer to the lease, and `OutputsFit` says of each
export that an object goes before what lies in it (`Tree`), what the directory
holds at each stage as long as the cleanup is not at it (`CleanerFits`), that
no manifest comes back once it was removed, and that an export answered with
success is whole and read-only but for the object the cleanup has made writable
(`Opened`). The lemmas about the cleanup show why it gets no further: the first
entry it could remove is in a directory without write permission, and the
directory itself is not empty.

**DeveloperToolsProofs.** One theorem, and one invariant, for each of the other
eight tools:

- `PipelinesAreTold`, for pipelines of any length and shape: failed exactly
  when a step failed, to be reviewed exactly when none did and a completed step
  asked for it, and each step run exactly when its condition was met and none
  before it had failed. What is decided about a step is tied to the results of
  the steps before it (`StepFits`, `SkipsFit`), to the files there are
  (`ArtifactsFit`) and, at the end, to the answer (`EndFits`).
- `AnswersAreOfRuns`: the run's events only grow, so what a request has read at
  a position is still there; `CallFits` keeps the positions the call has seen.
- `CasesAreBacked`: every file carries the flow that wrote it, so a flow that
  works alone in its directory finds only its own; `ResultFits` and `RecordFits`
  follow what a flow has in hand and on record.
- `ActionsAreApproved` is a count: each accepted operation of a payload belongs
  to an approving call of it whose answer was handled, and no two to the same
  one (`CountFits`). It needs that a key is in a slot, in a post or withdrawn
  and always of the request it was drawn for (`SlotsFit`, `PostFits`).
- `WorkbenchesLeaveNothing`: which children may still run at each stage of the
  launcher (`ChildrenFit`), what it will answer (`EndingFits`), and what the
  smoke has found so far (`DrillFits`).
- `ImportsAreBacked`: snapshot and entry are set once and, when an importer goes
  on, are what it has checked (`ImporterFits`, `EntryFits`).
- `ReplaysAreOfTheRun`: while nobody has changed a file before the run's end,
  what is listed are the digests of what the worker wrote (`Undisturbed`,
  `RootFits`), and a replay reads only what matches (`ReplayFits`). Otherwise
  the digests are of whatever was there, and `ChangesCount` counts: every file
  that is not the worker's took a change of its own. A result of other inputs
  needs three such files, one more than the property allows.
- `GuardedWritesAreHonest`: `WriterFits` says which names a writer's inode has,
  in the folder it opened, at each stage and after a failed call; `AtomicAlone`
  that an atomic writer has its name to itself; `ReaderFits` that a reader that
  began after a write had failed finds nothing of it, or an empty file.

### Only model-checked

Liveness (`EveryTransactionEnds`, `AdkRunsEnd`): fairness and ENABLED are beyond
the prover. Every other property of a passing run is stated by a theorem.

## 5. Not modelled, and why

- What steps compute (reserves, validation, constitution rules, wording,
  the numbers of an evaluation): numeric and sequential. A step is an outcome
  chosen among those its code can return. The model tools are a subprocess
  around such a model.
- The Windows halves of `storage/safe_json.py`, `workflow_lab.py`,
  `source_integrity.py` and the launcher: the same promises with other system
  calls, which would double each model without a new interleaving.
- The materialization of published workflows by the agent's runtime: it reads a
  tree that was published, writes into a fresh directory of its own, and nobody
  else knows that directory.
- Scope checks, route tables and projections: comparisons and filters without
  state.
- The content of artifacts, narratives and event details; the pages the browser
  smoke visits; the operator console.
- Repeatability checks, the replay of console runs, rollback plans and
  diagnostics: they read finished artifacts and change nothing.
- The batch runner: one operator flow per case, one after the other.
- Two control planes on one registry for workflow runs: the recovery of the
  second marks the runs of the first as stale. `WorkflowRun` has one, as the
  workbench starts one; `RegistryTransactions` and `DebugOperations` have many.

Some things a reader may look for are in the models and in no property, because
no document or test promises otherwise:

- the window between the acceptance of an ADK run and its initial manifest, in
  which ADK routes answer 409 (`StatusIsBacked` starts with "queued");
- a review record that is torn by a death stays unreadable, and console runs in
  the background have no recovery;
- a synchronous single-case run that raises stays "running", and a rerun without
  a directory of its own writes over its source's files;
- a pipeline is recorded as completed, or as to be reviewed, after each step
  while others remain, and one that raises stays running; outputs of an earlier
  run in the same directory can stand in for its own;
- ports are checked and given back before the children take them, so that
  another program may come in between; a child that exits while a signal arrives
  may be told as either;
- an empty pack is a completed benchmark, and business roots with the same last
  name hide each other in the snapshot (the instance has distinct names);
- a cleanup stops at an export it cannot empty, and leaves a writable file in
  it;
- an export that fails while its manifest gets its name can leave the manifest,
  and the success of an export is printed before its lease is at an end.

## 6. What could follow

- `ConfirmedActions` on an instance of `DebugOperations` and `RunRegistry`
  rather than on a set of accepted operations.
- Two control planes on one registry, once a document says who owns the runs.
