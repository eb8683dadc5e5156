-------------------------- MODULE ReviewDecisions --------------------------
(***************************************************************************)
(* The review of one workflow run: the decision route and the report       *)
(* exports (api/app.py, reports/export.py) on the review store             *)
(* (storage/local.py) and on the run's artifact root, next to the worker   *)
(* that still closes the run.  The step event makes the run needs_review   *)
(* and reviewable before the worker has written packet and manifest.       *)
(*                                                                         *)
(* The handlers are coroutines that never await, so the event loop has at  *)
(* most one under way; the worker is another thread, and every file is     *)
(* read and written without a lock.  Handlers write in place: the file is  *)
(* truncated, then filled.  The worker of an ADK run replaces its manifest *)
(* atomically, that of a console run writes in place too.  Exceptions and  *)
(* the death of the control plane may come between any two steps.          *)
(***************************************************************************)
EXTENDS Naturals

CONSTANTS
    Decisions,      \* what a client can decide: decision, comment, by whom
    None,           \* no decision
    Absent, Torn,   \* no file; a file that is no JSON object
    MaxRequests,    \* bound: decisions and exports asked for
    MaxCrashes      \* bound: restarts of the control plane

VARIABLES
    run,        \* the registry entry's status, and the run's worker
    files,      \* the review store's and the artifact root's files
    handler,    \* the handler on the event loop
    acked,      \* history: the decisions answered with 200
    listed,     \* history: the names answered requests that began after
                \* the worker have put in the manifest
    clock,      \* the timestamp of the last decision recorded
    requests,   \* bound: requests so far
    crashes     \* bound: restarts so far

vars == <<run, files, handler, acked, listed, clock, requests, crashes>>

Stamped == [payload : Decisions, at : 0 .. MaxRequests]

Records == [decision : Stamped \cup {None}, bound : BOOLEAN]

(* Of a manifest: whether it has the run's results, and which of the       *)
(* artifacts written here it lists.                                        *)
Manifests == [final : BOOLEAN, names : SUBSET {"decision", "export"}]

Unreadable == {Absent, Torn}

ASSUME ReviewAssumption ==
    /\ MaxRequests \in Nat /\ MaxCrashes \in Nat
    /\ None \notin Decisions \cup Stamped \cup Manifests
    /\ Absent # Torn
    /\ Unreadable \cap (Stamped \cup Records \cup Manifests) = {}

Files ==
    [record : Records \cup Unreadable,
     storeJson : Stamped \cup Unreadable,
     storeMd : Stamped \cup Unreadable,
     runJson : Stamped \cup Unreadable,
     runMd : Stamped \cup Unreadable,
     manifest : Manifests \cup Unreadable,
     packet : BOOLEAN]

Runs ==
    [adk : BOOLEAN,
     status : {"running", "completed", "needs_review", "failed"},
     outcome : {"completed", "needs_review", "failed"},
     stage : {"working", "packing", "publishing", "filling", "closing",
              "over"}]

Handlers ==
    [stage : {"idle", "submitting", "creating", "recording", "binding",
              "storeJson", "storeMd", "runJson", "runMd", "reading",
              "listing", "answering"},
     name : {"decision", "export"},     \* what is added to the manifest
     asked : Decisions \cup {None},     \* the payload of the request
     decision : Stamped \cup {None},    \* decision_record
     seen : Manifests \cup {None},      \* the manifest as read
     again : BOOLEAN,                   \* an ADK export lists twice
     open : BOOLEAN,                    \* truncated, not filled yet
     settled : BOOLEAN]                 \* history: began after the worker

Idle ==
    [stage |-> "idle", name |-> "decision", asked |-> None,
     decision |-> None, seen |-> None, again |-> FALSE, open |-> FALSE,
     settled |-> FALSE]

-----------------------------------------------------------------------------
(* Writing in place *)

(* What a file holds once filled.  If it is not empty any more the worker  *)
(* was there in between: it has replaced the file this handler has open,   *)
(* or has filled the same one, and the longer text shows through.          *)
Filled(file, content) ==
    IF files[file] = Torn THEN {content}
    ELSE IF run.adk THEN {files[file]}
    ELSE {content, Torn}

Writes(file, content, next) ==
    \/ /\ ~handler.open
       /\ files' = [files EXCEPT ![file] = Torn]
       /\ handler' = [handler EXCEPT !.open = TRUE]
    \/ /\ handler.open
       /\ \E c \in Filled(file, content) :
             files' = [files EXCEPT ![file] = c]
       /\ handler' = [next EXCEPT !.open = FALSE]

To(stage) == [handler EXCEPT !.stage = stage]

-----------------------------------------------------------------------------
(* submit_review_decision *)

(* _run_needs_review *)
NeedsReview == run.status = "needs_review" \/ files.packet

Begin(name, asked, seen, again) ==
    /\ handler.stage = "idle"
    /\ requests < MaxRequests
    /\ requests' = requests + 1
    /\ files.record # Torn
    /\ handler' = [Idle EXCEPT
          !.stage = IF files.record = Absent /\ NeedsReview THEN "creating"
                    ELSE IF name = "decision" THEN "submitting"
                    ELSE "listing",
          !.name = name, !.asked = asked, !.seen = seen, !.again = again,
          !.settled = run.stage = "over"]
    /\ UNCHANGED <<run, files, acked, listed, clock, crashes>>

(* _get_scoped_entry lets requests for an ADK run through while its        *)
(* manifest can be read.                                                   *)
Decide(payload) ==
    /\ run.adk => files.manifest \notin Unreadable
    /\ files.record # Absent \/ NeedsReview
    /\ Begin("decision", payload, None, FALSE)

(* ensure_review_record, for a decision or for an export. *)
CreateReview ==
    /\ handler.stage = "creating"
    /\ Writes("record", [decision |-> None, bound |-> TRUE],
              To(IF handler.name = "decision" THEN "submitting"
                 ELSE "listing"))
    /\ UNCHANGED <<run, acked, listed, clock, requests, crashes>>

FaultDecideAgain ==
    /\ handler.stage = "submitting"
    /\ clock' = clock + 1
    /\ handler' = [To("recording") EXCEPT
          !.decision = [payload |-> handler.asked, at |-> clock + 1]]
    /\ UNCHANGED <<run, files, acked, listed, requests, crashes>>

(* submit_decision on the record bound to the run: the first decision is   *)
(* recorded, the same one again is found, another one is a conflict.  A    *)
(* record from before the run's identity was stored is completed.          *)
Submit ==
    LET found == files.record.decision IN
    /\ handler.stage = "submitting"
    /\ \/ /\ found = None
          /\ clock' = clock + 1
          /\ handler' = [To("recording") EXCEPT
                !.decision = [payload |-> handler.asked, at |-> clock + 1]]
       \/ /\ found # None
          /\ found.payload = handler.asked
          /\ handler' = [To(IF files.record.bound THEN "runJson"
                            ELSE "binding") EXCEPT !.decision = found]
          /\ UNCHANGED clock
       \/ /\ found # None
          /\ found.payload # handler.asked
          /\ handler' = Idle
          /\ UNCHANGED clock
    /\ UNCHANGED <<run, files, acked, listed, requests, crashes>>

WriteRecord ==
    /\ handler.stage \in {"recording", "binding"}
    /\ Writes("record", [decision |-> handler.decision, bound |-> TRUE],
              To(IF handler.stage = "recording" THEN "storeJson"
                 ELSE "runJson"))
    /\ UNCHANGED <<run, acked, listed, clock, requests, crashes>>

(* The copies beside the record, only with the record itself. *)
WriteStoreCopies ==
    /\ \/ /\ handler.stage = "storeJson"
          /\ Writes("storeJson", handler.decision, To("storeMd"))
       \/ /\ handler.stage = "storeMd"
          /\ Writes("storeMd", handler.decision, To("runJson"))
    /\ UNCHANGED <<run, acked, listed, clock, requests, crashes>>

FaultCopiesOnce ==
    /\ \/ /\ handler.stage = "runJson"
          /\ IF files.runJson = Absent \/ handler.open
             THEN Writes("runJson", handler.decision, To("runMd"))
             ELSE handler' = To("runMd") /\ UNCHANGED files
       \/ /\ handler.stage = "runMd"
          /\ Writes("runMd", handler.decision, To("reading"))
    /\ UNCHANGED <<run, acked, listed, clock, requests, crashes>>

(* write_run_review_decision_artifacts, on every accepted request. *)
WriteRunCopies ==
    /\ \/ /\ handler.stage = "runJson"
          /\ Writes("runJson", handler.decision, To("runMd"))
       \/ /\ handler.stage = "runMd"
          /\ Writes("runMd", handler.decision, To("reading"))
    /\ UNCHANGED <<run, acked, listed, clock, requests, crashes>>

(* A manifest that is no JSON object ends the request with an exception.   *)
ReadManifest ==
    /\ handler.stage = "reading"
    /\ handler' =
          IF files.manifest = Torn
             \/ (handler.name = "export" /\ files.manifest = Absent)
          THEN Idle
          ELSE [To("listing") EXCEPT
                  !.seen = IF files.manifest = Absent
                           THEN [final |-> FALSE, names |-> {}]
                           ELSE files.manifest]
    /\ UNCHANGED <<run, files, acked, listed, clock, requests, crashes>>

FaultListAnew ==
    /\ handler.stage = "listing"
    /\ Writes("manifest", [handler.seen EXCEPT !.names = {handler.name}],
              IF handler.again THEN [To("reading") EXCEPT !.again = FALSE]
              ELSE To("answering"))
    /\ UNCHANGED <<run, acked, listed, clock, requests, crashes>>

(* The manifest as it was read, with the new names. *)
ListArtifacts ==
    /\ handler.stage = "listing"
    /\ Writes("manifest", [handler.seen EXCEPT !.names = @ \cup {handler.name}],
              IF handler.again THEN [To("reading") EXCEPT !.again = FALSE]
              ELSE To("answering"))
    /\ UNCHANGED <<run, acked, listed, clock, requests, crashes>>

Answer ==
    /\ handler.stage = "answering"
    /\ acked' = IF handler.name = "decision" THEN acked \cup {handler.decision}
                ELSE acked
    /\ listed' = IF handler.settled THEN listed \cup {handler.name} ELSE listed
    /\ handler' = Idle
    /\ UNCHANGED <<run, files, clock, requests, crashes>>

(* create_run_report_export and _export_adk_report_artifacts: the manifest *)
(* is read first of all, and an ADK export reads and lists once more.      *)
Export ==
    /\ files.manifest \notin Unreadable
    /\ \E again \in {FALSE, run.adk} :
          Begin("export", None, files.manifest, again)

(* An exception in a handler: what it had begun to write stays as it is. *)
Fail ==
    /\ handler.stage # "idle"
    /\ handler' = Idle
    /\ UNCHANGED <<run, files, acked, listed, clock, requests, crashes>>

-----------------------------------------------------------------------------
(* The run's worker, from its last step's result on *)

Advance(stage, status) ==
    /\ run' = [run EXCEPT !.stage = stage, !.status = status]
    /\ UNCHANGED <<handler, acked, listed, clock, requests, crashes>>

(* The step event publishes the outcome. *)
FinishStep ==
    /\ run.stage = "working"
    /\ Advance("packing",
               IF run.outcome = "completed" THEN "running" ELSE run.outcome)
    /\ UNCHANGED files

WritePacket ==
    /\ run.stage = "packing"
    /\ files' = [files EXCEPT !.packet = run.outcome = "needs_review"]
    /\ Advance("publishing", run.status)

FinalManifest == [final |-> TRUE, names |-> {}]

(* Replaced at once, or truncated first. *)
WriteManifest ==
    \/ /\ run.stage = "publishing"
       /\ files' = [files EXCEPT
             !.manifest = IF run.adk THEN FinalManifest ELSE Torn]
       /\ Advance(IF run.adk THEN "closing" ELSE "filling", run.status)
    \/ /\ run.stage = "filling"
       /\ \E c \in Filled("manifest", FinalManifest) :
             files' = [files EXCEPT !.manifest = c]
       /\ Advance("closing", run.status)

RecordResult ==
    /\ run.stage = "closing"
    /\ Advance("over", run.outcome)
    /\ UNCHANGED files

(* The worker raises and its run is recorded as failed. *)
Raise ==
    /\ run.stage # "over"
    /\ Advance("over", "failed")
    /\ UNCHANGED files

(* The control plane dies and starts again: an ADK run under way is stale. *)
Crash ==
    /\ crashes < MaxCrashes
    /\ crashes' = crashes + 1
    /\ handler' = Idle
    /\ run' = [run EXCEPT
          !.stage = "over",
          !.status = IF run.adk /\ @ = "running" THEN "failed" ELSE @]
    /\ UNCHANGED <<files, acked, listed, clock, requests>>

-----------------------------------------------------------------------------

Initial == [final |-> FALSE, names |-> {}]

NoFiles ==
    [record |-> Absent, storeJson |-> Absent, storeMd |-> Absent,
     runJson |-> Absent, runMd |-> Absent, manifest |-> Absent,
     packet |-> FALSE]

(* A run whose last step is under way, an ADK run with its first manifest; *)
(* or one from an earlier version, whose record does not have the identity *)
(* of its run and may be decided.                                          *)
Init ==
    /\ \/ \E adk \in BOOLEAN, outcome \in {"completed", "needs_review"} :
             /\ run = [adk |-> adk, status |-> "running",
                       outcome |-> outcome, stage |-> "working"]
             /\ files = [NoFiles EXCEPT
                   !.manifest = IF adk THEN Initial ELSE Absent]
       \/ \E decision \in [payload : Decisions, at : {0}] \cup {None} :
             /\ run = [adk |-> FALSE, status |-> "needs_review",
                       outcome |-> "needs_review", stage |-> "over"]
             /\ files = [NoFiles EXCEPT
                   !.record = [decision |-> decision, bound |-> FALSE],
                   !.manifest = FinalManifest, !.packet = TRUE]
    /\ handler = Idle
    /\ acked = {}
    /\ listed = {}
    /\ clock = 0
    /\ requests = 0
    /\ crashes = 0

Handle ==
    \/ CreateReview
    \/ Submit
    \/ WriteRecord
    \/ WriteStoreCopies
    \/ WriteRunCopies
    \/ ReadManifest
    \/ ListArtifacts
    \/ Answer

Work ==
    \/ FinishStep
    \/ WritePacket
    \/ WriteManifest
    \/ RecordResult

Next ==
    \/ \E payload \in Decisions : Decide(payload)
    \/ Export
    \/ Handle
    \/ Fail
    \/ Work
    \/ Raise
    \/ Crash

Spec == Init /\ [][Next]_vars

-----------------------------------------------------------------------------
(* Properties *)

(* The shape of the run, its files and the request under way. *)
TypeOK ==
    /\ run \in Runs
    /\ files \in Files
    /\ handler \in Handlers
    /\ acked \subseteq Stamped
    /\ listed \subseteq {"decision", "export"}
    /\ clock \in 0 .. MaxRequests
    /\ requests \in 0 .. MaxRequests
    /\ crashes \in 0 .. MaxCrashes

(* docs/contracts/control-plane.md:189-191: the first accepted decision    *)
(* stands, with its timestamp, through retries, conflicts, exports,        *)
(* exceptions and restarts.                                                *)
AckedStands ==
    \A d \in acked : files.record \notin Unreadable /\ files.record.decision = d

(* Wherever a request broke off, a copy of a decision is a copy of what    *)
(* the record says.                                                        *)
CopiesAgree ==
    \A f \in {"storeJson", "storeMd", "runJson", "runMd"} :
        files.record \notin Unreadable /\ files[f] \notin Unreadable
        => files.record.decision = files[f]

(* An acknowledged decision is the record's, and every copy is its copy.   *)
DecisionStands == AckedStands /\ CopiesAgree

(* control-plane.md:184: a decision is answered only when the run has it   *)
(* on disk, also when it is the retry of a request that broke off.         *)
AnsweredIsBacked ==
    [][\A d \in acked' : d \notin acked
          => files.runJson = d /\ files.runMd = d]_vars

(* Requests that began when the worker was through keep each other's       *)
(* entries in the manifest, whatever becomes of those that follow.         *)
SettledListed ==
    files.manifest \notin Unreadable => listed \subseteq files.manifest.names

(* control-plane.md:233: the manifest a completed workflow run ends with   *)
(* refers to its summary and its steps.  A report export of a run that is  *)
(* still under way reads the initial manifest and writes it back.          *)
CompletedHasFinalManifest ==
    run.status = "completed" /\ files.manifest \notin Unreadable
    => files.manifest.final
=============================================================================
