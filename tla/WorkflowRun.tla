---------------------------- MODULE WorkflowRun ----------------------------
(***************************************************************************)
(* A workflow run from its request to its end (api/app.py): the handlers   *)
(* that accept it, the background worker that carries it out, and a        *)
(* control plane that dies and starts again between any two of their       *)
(* steps.  The registry is the one of RunRegistry, used through its        *)
(* transactions only; what the run leaves on disk is modelled here.        *)
(*                                                                         *)
(* A job is one request and the work it leads to: the handler's part up to *)
(* "scheduled", then the worker's.  Jobs run concurrently; the calls of    *)
(* one job come one after the other.  ADK jobs are accepted through        *)
(* accept_adk_run, get an isolated root and a manifest before any work,    *)
(* and are recovered at start-up.  Operator-console jobs have none of      *)
(* this: their first record_run_event creates the entry, and their rerun   *)
(* takes whatever inputs the source entry happens to hold.                 *)
(*                                                                         *)
(* The registry file and the artifact directories are taken to be          *)
(* writable when an exception has to be recorded; any other step may raise.*)
(***************************************************************************)
EXTENDS Naturals, Sequences, FiniteSets

CONSTANTS
    RunIds, Keys, Invocations, Tickets, Inputs, None,   \* as in RunRegistry
    MaxEvents,      \* bound: at least the records one run can get
    Jobs,           \* bound: the requests that are ever made
    Kinds,          \* bound: the kinds of request, of {"adk", "console"}
    StepKinds,      \* the steps of the workflow: "validate" or "operator"
    DefaultInputs,  \* the inputs of a request that gives none
    MaxCrashes      \* bound: restarts of the control plane

ASSUME WorkflowAssumption ==
    /\ Kinds \subseteq {"adk", "console"}
    /\ StepKinds \in Seq({"validate", "operator"})
    /\ StepKinds # <<>>
    /\ DefaultInputs \in Inputs
    /\ MaxCrashes \in Nat
    /\ None \notin Jobs \cup RunIds \cup Inputs
    /\ None # "adk-developer"
    /\ None \notin [run : RunIds, inv : Invocations, ticket : Tickets,
                    parent : RunIds \cup {None}]
    /\ {"keep", "drop"} \cap Inputs = {}

VARIABLES
    runs, ops, pending, replies,    \* the registry, as in RunRegistry
    job,            \* per job: where it is and what it works on
    disk,           \* per run: what its artifact root holds
    given,          \* history: the inputs each run was started with
    source,         \* history: the run each run is a rerun of
    crashes         \* bound: restarts so far

registry == <<runs, ops, pending, replies>>

vars == <<registry, job, disk, given, source, crashes>>

EventStatuses == {"accepted", "queued", "running",
                  "completed", "needs_review", "failed"}

Registry == INSTANCE RunRegistry WITH Callers <- Jobs

-----------------------------------------------------------------------------

Outcomes == {"completed", "needs_review", "failed"}

(* The stages of a job, in the order of the code.  "failing" is the        *)
(* exception handler _record_run_failure; "over" is the end.               *)
Handling == {"accepted", "rooted"}
Working == {"scheduled", "queued", "running", "between", "working", "worked",
            "packing", "summing", "publishing", "finishing", "closing",
            "verifying"}
Stages == {"free", "recording", "failing", "over"} \cup Handling \cup Working

Active(j) == job[j].stage \notin {"free", "over"}

JobRecords ==
    [stage : Stages, run : RunIds \cup {None},
     prov : Registry!Provenances \cup {None},
     background : BOOLEAN,
     step : 0 .. Len(StepKinds),
     outcome : Outcomes \cup {None}]

Disks ==
    [root : BOOLEAN, manifest : {"none", "initial", "final"},
     packet : BOOLEAN, summary : BOOLEAN,
     steps : SUBSET (1 .. Len(StepKinds))]

EmptyDisk ==
    [root |-> FALSE, manifest |-> "none", packet |-> FALSE,
     summary |-> FALSE, steps |-> {}]

JobAt(stage, id, prov, background) ==
    [stage |-> stage, run |-> id, prov |-> prov, background |-> background,
     step |-> 0, outcome |-> None]

FreeJob == JobAt("free", None, None, FALSE)

IsAdk(j) == job[j].prov # None

To(j, stage) == job' = [job EXCEPT ![j].stage = stage]

Writes(j, field, value) == disk' = [disk EXCEPT ![job[j].run][field] = value]

-----------------------------------------------------------------------------
(* record_run_event on behalf of a job *)

Event(j, status, inputs, prov) ==
    [id |-> job[j].run, status |-> status, inputs |-> inputs, prov |-> prov,
     review |-> status = "needs_review" /\ inputs \in Inputs]

(* The call returns in the update, or in the create after a missed update; *)
(* then the job becomes next.                                              *)
Records(j, ev, next) ==
    /\ \/ Registry!RecordUpdate(j, ev) /\ job' = [job EXCEPT ![j] = next]
       \/ Registry!RecordMissing(j, ev) /\ UNCHANGED job
       \/ Registry!RecordCreate(j) /\ job' = [job EXCEPT ![j] = next]
    /\ UNCHANGED <<disk, given, source, crashes>>

(* _record_workflow_event passes operator_params without workflow_inputs. *)
RecordsProgress(j, status, next) ==
    Records(j, Event(j, status, Registry!Drop, None), next)

Reported(outcome) == IF outcome = "completed" THEN "running" ELSE outcome

-----------------------------------------------------------------------------
(* Handlers *)

(* _get_scoped_entry: an ADK run another request refers to must have a     *)
(* manifest with its provenance.                                           *)
Readable(id) == id # None => disk[id].manifest # "none"

(* start_adk_workflow_run and rerun_adk_run, up to accept_adk_run.  The    *)
(* prefixes of the two kinds of run id keep them apart.                    *)
AcceptAdk(j) ==
    /\ "adk" \in Kinds
    /\ job[j].stage = "free"
    /\ \E key \in Keys, req \in Registry!Requests, id \in RunIds,
          ticket \in Tickets, in \in Inputs :
          /\ \A k \in Jobs : job[k].run = id => IsAdk(k)
          /\ Readable(req.parent)
          /\ Registry!AcceptNew(key, req, id, ticket, in)
          /\ job' = [job EXCEPT ![j] =
                JobAt("accepted", id,
                      Registry!NewProvenance(req, id, ticket), TRUE)]
          /\ given' = [given EXCEPT ![id] = in]
          /\ source' = [source EXCEPT ![id] =
                IF req.action = "rerun_run" THEN req.parent ELSE None]
    /\ UNCHANGED <<disk, crashes>>

(* Definitions named Fault... are slips a maintainer could make in the     *)
(* definition that follows them; no action uses one.                       *)
FaultReplayRunsAgain(j) ==
    /\ "adk" \in Kinds
    /\ job[j].stage = "free"
    /\ \E key \in Keys, req \in Registry!Requests :
          /\ Registry!AcceptReplay(key, req)
          /\ \E o \in Registry!Bound(key, req.action), e \in runs :
                /\ e.id = o.run
                /\ job' = [job EXCEPT ![j] =
                      JobAt("scheduled", e.id, e.prov, TRUE)]
    /\ UNCHANGED <<disk, given, source, crashes>>

(* The same handlers when the key is already bound to the same request:    *)
(* they answer and schedule nothing.                                       *)
ReplayAdk(j) ==
    /\ "adk" \in Kinds
    /\ job[j].stage = "free"
    /\ \E key \in Keys, req \in Registry!Requests :
          Registry!AcceptReplay(key, req) /\ Readable(req.parent)
    /\ To(j, "over")
    /\ UNCHANGED <<disk, given, source, crashes>>

(* prepare_isolated_run_root: mkdir with exist_ok=False. *)
PrepareRoot(j) ==
    /\ job[j].stage = "accepted"
    /\ ~disk[job[j].run].root
    /\ Writes(j, "root", TRUE)
    /\ To(j, "rooted")
    /\ UNCHANGED <<registry, given, source, crashes>>

(* _write_initial_adk_manifest; then the worker is scheduled. *)
WriteInitialManifest(j) ==
    /\ job[j].stage = "rooted"
    /\ Writes(j, "manifest", "initial")
    /\ To(j, "scheduled")
    /\ UNCHANGED <<registry, given, source, crashes>>

(* The timestamp in a console run id makes it new. *)
NewConsoleJob(j, id, in, from, background) ==
    /\ "console" \in Kinds
    /\ job[j].stage = "free"
    /\ ~Registry!Known(runs, id)
    /\ \A k \in Jobs : job[k].run # id
    /\ job' = [job EXCEPT ![j] =
          JobAt(IF background THEN "recording" ELSE "scheduled",
                id, None, background)]
    /\ given' = [given EXCEPT ![id] = in]
    /\ source' = [source EXCEPT ![id] = from]
    /\ UNCHANGED <<registry, disk, crashes>>

(* create_run with a workflow_id, in the background or not. *)
CreateRun(j) ==
    \E id \in RunIds, in \in Inputs, background \in BOOLEAN :
        NewConsoleJob(j, id, in, None, background)

(* _record_background_acceptance *)
RecordAcceptance(j) ==
    /\ job[j].stage = "recording"
    /\ Records(j, Event(j, "accepted", given[job[j].run], None),
               [job[j] EXCEPT !.stage = "scheduled"])

(* Whether the recorded operator_params are keyword arguments of the       *)
(* workflow.  Those of a console acceptance and of an ADK rerun's hold     *)
(* others, and "queued" is the first record to replace them; otherwise the *)
(* handler raises before anything is recorded.                             *)
Rerunnable(e) ==
    \/ e.source # None /\ source[e.id] = None
    \/ \E i \in 1 .. Len(e.history) : e.history[i] = "queued"

(* rerun, the workflow branch, of a console run or of a readable ADK run:  *)
(* the recorded operator_params are the base, and missing workflow_inputs  *)
(* mean none were given.                                                   *)
RerunConsole(j) ==
    \E e \in runs, id \in RunIds :
        /\ e.source # None => Readable(e.id)
        /\ Rerunnable(e)
        /\ NewConsoleJob(j, id,
              IF e.inputs = None THEN DefaultInputs ELSE e.inputs,
              e.id, FALSE)

-----------------------------------------------------------------------------
(* _run_sequential_workflow *)

(* A console run makes its root on the way. *)
Queue(j) ==
    /\ job[j].stage = "scheduled"
    /\ Records(j, Event(j, "queued", given[job[j].run], None),
               [job[j] EXCEPT !.stage = "queued"])

Run(j) ==
    /\ job[j].stage = "queued"
    /\ Records(j, Event(j, "running", given[job[j].run], None),
               [job[j] EXCEPT !.stage = "running"])

(* workflow.started *)
StartWorkflow(j) ==
    /\ job[j].stage = "running"
    /\ RecordsProgress(j, "running",
                       [job[j] EXCEPT !.stage = "between", !.step = 1])

(* workflow.step.started *)
StartStep(j) ==
    /\ job[j].stage = "between"
    /\ RecordsProgress(j, "running", [job[j] EXCEPT !.stage = "working"])

(* _run_validation_step, _run_adk_operator_step_staged, run_operator_flow: *)
(* the step's artifacts are on disk and it has a status.  A validation     *)
(* completes or fails; only a calculation can need review.                 *)
DoStep(j) ==
    /\ job[j].stage = "working"
    /\ \E outcome \in Outcomes :
          /\ StepKinds[job[j].step] = "validate" => outcome # "needs_review"
          /\ job' = [job EXCEPT ![j].stage = "worked",
                                ![j].outcome = outcome]
    /\ Writes(j, "steps", disk[job[j].run].steps \cup {job[j].step})
    /\ UNCHANGED <<registry, given, source, crashes>>

(* workflow.step.completed, .needs_review or .failed *)
FinishStep(j) ==
    /\ job[j].stage = "worked"
    /\ RecordsProgress(j, Reported(job[j].outcome),
          IF job[j].outcome = "completed" /\ job[j].step < Len(StepKinds)
          THEN [job[j] EXCEPT !.stage = "between", !.step = @ + 1]
          ELSE [job[j] EXCEPT !.stage = "packing"])

WritePacket(j) ==
    /\ job[j].stage = "packing"
    /\ IF job[j].outcome = "needs_review"
       THEN Writes(j, "packet", TRUE)
       ELSE UNCHANGED disk
    /\ To(j, "summing")
    /\ UNCHANGED <<registry, given, source, crashes>>

WriteSummary(j) ==
    /\ job[j].stage = "summing"
    /\ Writes(j, "summary", TRUE)
    /\ To(j, "publishing")
    /\ UNCHANGED <<registry, given, source, crashes>>

FaultManifestForgotten(j) ==
    /\ job[j].stage = "publishing"
    /\ IF IsAdk(j) THEN UNCHANGED disk ELSE Writes(j, "manifest", "final")
    /\ To(j, "finishing")
    /\ UNCHANGED <<registry, given, source, crashes>>

WriteManifest(j) ==
    /\ job[j].stage = "publishing"
    /\ Writes(j, "manifest", "final")
    /\ To(j, "finishing")
    /\ UNCHANGED <<registry, given, source, crashes>>

FaultFinishReportsRunning(j) ==
    /\ job[j].stage = "finishing"
    /\ RecordsProgress(j, "running", [job[j] EXCEPT !.stage = "closing"])

(* workflow.completed, .needs_review or .failed *)
FinishWorkflow(j) ==
    /\ job[j].stage = "finishing"
    /\ RecordsProgress(j, Reported(job[j].outcome),
                       [job[j] EXCEPT !.stage = "closing"])

(* The last record brings the status and the workflow_inputs. *)
RecordResult(j) ==
    /\ job[j].stage = "closing"
    /\ Records(j, Event(j, job[j].outcome, given[job[j].run], None),
               [job[j] EXCEPT !.stage = IF IsAdk(j) THEN "verifying"
                                        ELSE "over"])

(* verify_configured_root_identity, after the result is recorded. *)
VerifyRoot(j) ==
    /\ job[j].stage = "verifying"
    /\ To(j, "over")
    /\ UNCHANGED <<registry, disk, given, source, crashes>>

(* An exception.  The synchronous console paths have no handler for it. *)
Raise(j) ==
    /\ pending[j] = None
    /\ job[j].stage \in Handling \cup Working
    /\ To(j, IF job[j].background THEN "failing" ELSE "over")
    /\ UNCHANGED <<registry, disk, given, source, crashes>>

(* _record_run_failure passes the provenance and no operator_params. *)
RecordRunFailure(j) ==
    /\ job[j].stage = "failing"
    /\ Records(j, Event(j, "failed", Registry!Keep, job[j].prov),
               [job[j] EXCEPT !.stage = "over"])

-----------------------------------------------------------------------------
(* The control plane dies; create_app of the next one marks incomplete ADK *)
(* runs stale before it serves a request.                                  *)

FaultRecoverEveryRun ==
    /\ crashes < MaxCrashes
    /\ crashes' = crashes + 1
    /\ runs' = {IF e.status \in Registry!InFlight
                THEN [e EXCEPT !.status = "failed", !.stale = TRUE,
                               !.history = Append(@, "failed")]
                ELSE e : e \in runs}
    /\ pending' = [j \in Jobs |-> None]
    /\ job' = [j \in Jobs |->
                  IF Active(j) THEN [job[j] EXCEPT !.stage = "over"]
                  ELSE job[j]]
    /\ UNCHANGED <<ops, replies, disk, given, source>>

FaultNoRecovery ==
    /\ crashes < MaxCrashes
    /\ crashes' = crashes + 1
    /\ pending' = [j \in Jobs |-> None]
    /\ job' = [j \in Jobs |->
                  IF Active(j) THEN [job[j] EXCEPT !.stage = "over"]
                  ELSE job[j]]
    /\ UNCHANGED <<runs, ops, replies, disk, given, source>>

Restart ==
    /\ crashes < MaxCrashes
    /\ crashes' = crashes + 1
    /\ Registry!Restart
    /\ job' = [j \in Jobs |->
                  IF Active(j) THEN [job[j] EXCEPT !.stage = "over"]
                  ELSE job[j]]
    /\ UNCHANGED <<disk, given, source>>

-----------------------------------------------------------------------------

Init ==
    /\ Registry!Init
    /\ job = [j \in Jobs |-> FreeJob]
    /\ disk = [r \in RunIds |-> EmptyDisk]
    /\ given = [r \in RunIds |-> None]
    /\ source = [r \in RunIds |-> None]
    /\ crashes = 0

Request(j) == AcceptAdk(j) \/ ReplayAdk(j) \/ CreateRun(j) \/ RerunConsole(j)

Advance(j) ==
    \/ PrepareRoot(j)
    \/ WriteInitialManifest(j)
    \/ RecordAcceptance(j)
    \/ Queue(j)
    \/ Run(j)
    \/ StartWorkflow(j)
    \/ StartStep(j)
    \/ DoStep(j)
    \/ FinishStep(j)
    \/ WritePacket(j)
    \/ WriteSummary(j)
    \/ WriteManifest(j)
    \/ FinishWorkflow(j)
    \/ RecordResult(j)
    \/ VerifyRoot(j)
    \/ RecordRunFailure(j)

Next ==
    \/ \E j \in Jobs : Request(j) \/ Advance(j) \/ Raise(j)
    \/ Restart

(* The server's threads run every job that can move: calculations return,  *)
(* and the registry lock is granted (RegistryTransactions).  Nobody owes a *)
(* request, an exception or a restart.                                     *)
Fairness == \A j \in Jobs : WF_vars(Advance(j))

Spec == Init /\ [][Next]_vars

FairSpec == Spec /\ Fairness

-----------------------------------------------------------------------------
(* Properties *)

(* The shape of jobs, disks and history, on top of the registry's. *)
TypeOK ==
    /\ Registry!TypeOK
    /\ job \in [Jobs -> JobRecords]
    /\ disk \in [RunIds -> Disks]
    /\ given \in [RunIds -> Inputs \cup {None}]
    /\ source \in [RunIds -> RunIds \cup {None}]
    /\ crashes \in 0 .. MaxCrashes

AdkRuns == {e \in runs : e.source = "adk-developer"}

Abandoned(id) == \A j \in Jobs : job[j].run = id => ~Active(j)

(* However often a request is retried, and wherever the control plane      *)
(* died, at most one worker carries out a run.                             *)
OneWorkerPerRun ==
    \A j, k \in Jobs : job[j].run # None /\ job[j].run = job[k].run => j = k

(* A run recorded as completed has everything its manifest will be asked   *)
(* for: the final manifest, the summary and every step, and its entry has  *)
(* its inputs back, so that it can be rerun.                               *)
CompletedIsBacked ==
    \A e \in runs : e.status = "completed" =>
        /\ disk[e.id].manifest = "final"
        /\ disk[e.id].summary
        /\ disk[e.id].steps = 1 .. Len(StepKinds)
        /\ e.inputs = given[e.id]

(* An ADK run that shows any sign of work can be read: its isolated root   *)
(* and its manifest were there before.  (Before "queued" there is a window *)
(* in which the run is accepted and every ADK listing answers 409.)        *)
WorkIsReadable ==
    \A e \in AdkRuns :
        /\ e.status \in {"queued", "running", "completed", "needs_review"}
        => disk[e.id].root /\ disk[e.id].manifest # "none"

(* What the registry says of a run is backed by what is on disk.           *)
StatusIsBacked == CompletedIsBacked /\ WorkIsReadable

(* No step of a worker, of its failure handler or of the recovery reopens  *)
(* a run, and the only outcome that replaces another one is "failed".      *)
NeverReopens ==
    [][\A e \in runs, f \in runs' :
          /\ f.id = e.id
          /\ e.status \in Outcomes
          => f.status \in {e.status, "failed"}]_vars

(* A rerun through the ADK gets the inputs its source was started with, or *)
(* is refused; so does everything rerun from it.                           *)
LineageKeepsInputs ==
    \A e \in AdkRuns :
        source[e.id] # None => given[e.id] = given[source[e.id]]

(* An ADK run nobody works on any more is neither in flight nor completed  *)
(* unless the worker got to write the final manifest.                      *)
AbandonedIsNotInferred ==
    \A e \in AdkRuns : Abandoned(e.id) =>
        /\ e.status \in Outcomes
        /\ disk[e.id].manifest # "final" => e.status # "completed"

(* README.md:386 and docs/contracts/control-plane.md:58: an ADK run found  *)
(* incomplete after a restart is recorded as failed.  The step event has   *)
(* already recorded "needs_review" when the packet, the summary and the    *)
(* manifest are still to be written, and recovery looks at in-flight       *)
(* statuses only.                                                          *)
IncompleteIsFailed ==
    \A e \in AdkRuns :
        Abandoned(e.id) /\ disk[e.id].manifest # "final"
        => e.status = "failed"

(* docs/contracts/control-plane.md:291: the recorded operator_params are   *)
(* the base of a rerun, here for the console's rerun route.                *)
RerunUsesRecordedInputs ==
    \A r \in RunIds : source[r] # None => given[r] = given[source[r]]

(* Every step of a run is a transaction of the registry or none of its     *)
(* business, so what is proved of the registry holds under every workflow. *)
(* (Registry!Spec, told to look for a step that changes nothing first.)    *)
KeepsRegistry ==
    Registry!Init /\ [][UNCHANGED registry \/ Registry!Next]_registry

(* An accepted ADK run comes to an end, restart or not. *)
AdkRunsEnd ==
    \A id \in RunIds :
        (\E e \in AdkRuns : e.id = id /\ e.status \in Registry!InFlight)
        ~> (\E e \in AdkRuns : e.id = id /\ e.status \in Outcomes)
=============================================================================
