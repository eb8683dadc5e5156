-------------------------- MODULE BenchmarkImport --------------------------
(***************************************************************************)
(* The import of one benchmark evaluation into the review queue            *)
(* (review/benchmark_import.py), a program of its own that an operator     *)
(* runs, and may run twice at once, next to the control plane.  It checks  *)
(* the evaluation's manifest and every file the manifest pins, publishes   *)
(* a snapshot of the bytes it has checked by renaming a staging directory, *)
(* registers the run and creates the review; a repeated import finds what  *)
(* an earlier one has left and goes on from there.                         *)
(*                                                                         *)
(* The evaluation, its files and the snapshots are told apart by versions: *)
(* a file matches the manifest's digest when it has the manifest's         *)
(* version.  The control plane's requests are those of ReviewDecisions,    *)
(* each of their writes one step here.                                     *)
(***************************************************************************)
EXTENDS Naturals, Sequences

CONSTANTS
    Importers,      \* processes that import the evaluation
    Order,          \* the pinned files, in the order they are checked
    Versions,       \* contents of the evaluation
    Cases,          \* case ids an operator may give
    None,           \* no entry, no snapshot
    MaxEdits,       \* bound: changes of the evaluation and of a snapshot
    MaxTries,       \* bound: imports started
    MaxFaults       \* bound: exceptions and deaths

VARIABLES
    bench,          \* the benchmark repository: the manifest, the files
    snapshot,       \* by case: the published directory
    entry,          \* the registry's entry of the evaluation's run
    record,         \* its review_record.json
    importer,       \* the processes
    desk,           \* the control plane's request on that run
    told,           \* history: the evaluations an import was answered for
    refused,        \* history: those among them that were then refused
    edits,          \* bound: changes so far
    tries,          \* bound: imports started so far
    faults          \* bound: exceptions and deaths so far

importVars ==
    <<bench, snapshot, entry, record, importer, desk, told, refused, edits,
      tries, faults>>

Files == {Order[n] : n \in DOMAIN Order}

(* `names`: the artifacts that run_manifest.json lists beyond the digests  *)
(* it was written with.                                                    *)
Snapshots == [sha : Versions, files : [Files -> Versions],
              names : SUBSET {"decision", "export"}]

Idle ==
    [stage |-> "idle", case |-> None, sha |-> None, next |-> 1,
     known |-> FALSE]

ImportInit ==
    /\ \E v \in Versions :
          bench = [manifest |-> v, files |-> [f \in Files |-> v]]
    /\ snapshot = [c \in Cases |-> None]
    /\ entry = None
    /\ record = "absent"
    /\ importer = [i \in Importers |-> Idle]
    /\ desk = [stage |-> "idle", name |-> "decision"]
    /\ told = {} /\ refused = {}
    /\ edits = 0 /\ tries = 0 /\ faults = 0

At(i, stage) == importer[i].stage = stage

Sets(i, state) == importer' = [importer EXCEPT ![i] = state]

Goes(i, stage) == Sets(i, [importer[i] EXCEPT !.stage = stage])

(* An error: nothing of what was done before is taken back. *)
Ends(i) == Sets(i, Idle)

Rest == <<desk, told, edits, tries, faults>>

-----------------------------------------------------------------------------
(* import_benchmark_review *)

ReadManifest(i, c) ==
    /\ At(i, "idle")
    /\ tries < MaxTries
    /\ tries' = tries + 1
    /\ Sets(i, [Idle EXCEPT !.stage = "verifying", !.case = c,
                            !.sha = bench.manifest])
    /\ UNCHANGED <<bench, snapshot, entry, record, desk, told, refused, edits,
                   faults>>

(* _verified_repo_file: every file is read once, and what was read is what *)
(* is compared and kept.                                                   *)
Verified(f, sha) == bench.files[f] = sha

(* _verify_evaluation_manifest *)
VerifyFile(i) ==
    LET me == importer[i] IN
    /\ At(i, "verifying")
    /\ IF ~Verified(Order[me.next], me.sha) THEN Ends(i)
       ELSE IF me.next < Len(Order)
       THEN Sets(i, [me EXCEPT !.next = @ + 1])
       ELSE Goes(i, "looking")
    /\ UNCHANGED <<bench, snapshot, entry, record, refused, Rest>>

(* The run id is the evaluation's id: a run of another manifest refuses. *)
FindRun(i) ==
    /\ At(i, "looking")
    /\ \/ entry = None /\ Goes(i, "placing")
       \/ /\ entry # None /\ entry.sha # importer[i].sha
          /\ Ends(i)
       \/ /\ entry # None /\ entry.sha = importer[i].sha
          /\ Sets(i, [importer[i] EXCEPT !.stage = "checking",
                        !.case = entry.case, !.known = TRUE])
    /\ UNCHANGED <<bench, snapshot, entry, record, refused, Rest>>

FindDestination(i) ==
    /\ At(i, "placing")
    /\ Goes(i, IF snapshot[importer[i].case] = None THEN "staging"
               ELSE "checking")
    /\ UNCHANGED <<bench, snapshot, entry, record, refused, Rest>>

(* _write_snapshot: the bytes that were checked, and what is derived from  *)
(* them, with the digests of all of it.                                    *)
Written(sha) ==
    [sha |-> sha, files |-> [f \in Files |-> sha], names |-> {}]

(* The snapshot is staged, then renamed, which fails where a directory is. *)
Publish(i) ==
    LET me == importer[i] IN
    /\ At(i, "staging")
    /\ IF snapshot[me.case] # None THEN Ends(i) /\ UNCHANGED snapshot
       ELSE /\ snapshot' = [snapshot EXCEPT ![me.case] = Written(me.sha)]
            /\ Goes(i, "registering")
    /\ UNCHANGED <<bench, entry, record, refused, Rest>>

FaultIntact(s, sha) == s.sha = sha

(* The digests cover every artifact the snapshot's manifest lists, and     *)
(* every file has its digest.                                              *)
Intact(s, sha) == s.sha = sha /\ \A f \in Files : s.files[f] = sha

Covered(s) == s.names = {}

VerifySnapshot(i) ==
    LET me == importer[i]
        s == snapshot[me.case]
    IN
    /\ At(i, "checking")
    /\ IF s # None /\ Intact(s, me.sha) /\ Covered(s)
       THEN /\ Goes(i, IF me.known THEN "ensuring" ELSE "registering")
            /\ UNCHANGED refused
       ELSE /\ Ends(i)
            /\ refused' = IF me.known /\ me.sha \in told
                          THEN refused \cup {me.sha} ELSE refused
    /\ UNCHANGED <<bench, snapshot, entry, record, Rest>>

(* create_run, one transaction: a run that is there is not replaced. *)
Register(i) ==
    /\ At(i, "registering")
    /\ IF entry = None
       THEN /\ entry' = [sha |-> importer[i].sha, case |-> importer[i].case]
            /\ Goes(i, "ensuring")
       ELSE Ends(i) /\ UNCHANGED entry
    /\ UNCHANGED <<bench, snapshot, record, refused, Rest>>

(* _ensure_import_review: list_reviews raises at a record it cannot read. *)
FindReview(i) ==
    /\ At(i, "ensuring")
    /\ \/ record = "torn" /\ Ends(i)
       \/ record = "absent" /\ Goes(i, "creating")
       \/ record \in {"open", "decided"} /\ Goes(i, "answering")
    /\ UNCHANGED <<bench, snapshot, entry, record, refused, Rest>>

(* create_review looks for the file, then truncates and fills it: another  *)
(* writer in between is overwritten, or shows through.                     *)
CreateReview(i) ==
    /\ \/ /\ At(i, "creating")
          /\ IF record = "absent" THEN Goes(i, "truncating") ELSE Ends(i)
          /\ UNCHANGED record
       \/ /\ At(i, "truncating")
          /\ record' = "torn"
          /\ Goes(i, "filling")
       \/ /\ At(i, "filling")
          /\ record' \in IF record = "torn" THEN {"open"} ELSE {"open", "torn"}
          /\ Goes(i, "answering")
    /\ UNCHANGED <<bench, snapshot, entry, refused, Rest>>

Answer(i) ==
    /\ At(i, "answering")
    /\ told' = told \cup {importer[i].sha}
    /\ Ends(i)
    /\ UNCHANGED <<bench, snapshot, entry, record, refused, desk, edits,
                   tries, faults>>

(* An exception or a death.  What it leaves in its staging directory is    *)
(* under a name of its own, which nobody looks at.                         *)
Break(i) ==
    /\ ~At(i, "idle")
    /\ faults < MaxFaults
    /\ faults' = faults + 1
    /\ Ends(i)
    /\ UNCHANGED <<bench, snapshot, entry, record, refused, desk, told, edits,
                   tries>>

-----------------------------------------------------------------------------
(* The control plane *)

(* A decision or a report export for the registered run. *)
Ask(name) ==
    /\ desk.stage = "idle"
    /\ entry # None /\ record # "torn"
    /\ desk' = [name |-> name,
                stage |-> IF record = "absent" THEN "creating" ELSE "deciding"]
    /\ UNCHANGED <<bench, snapshot, entry, record, importer, told, refused,
                   edits, tries, faults>>

(* ensure_review_record: a record that has appeared ends the request. *)
EnsureReview ==
    /\ desk.stage = "creating"
    /\ IF record = "absent"
       THEN record' = "open" /\ desk' = [desk EXCEPT !.stage = "deciding"]
       ELSE desk' = [desk EXCEPT !.stage = "idle"] /\ UNCHANGED record
    /\ UNCHANGED <<bench, snapshot, entry, importer, told, refused, edits,
                   tries, faults>>

(* submit_decision, and an export records nothing. *)
RecordDecision ==
    /\ desk.stage = "deciding"
    /\ desk.name = "decision" => record # "torn"
    /\ record' = IF desk.name = "decision" THEN "decided" ELSE record
    /\ desk' = [desk EXCEPT !.stage = "listing"]
    /\ UNCHANGED <<bench, snapshot, entry, importer, told, refused, edits,
                   tries, faults>>

(* The run's manifest gets the new artifacts, and no digests for them. *)
ListArtifacts ==
    /\ desk.stage = "listing"
    /\ snapshot' = [snapshot EXCEPT ![entry.case].names = @ \cup {desk.name}]
    /\ desk' = [desk EXCEPT !.stage = "idle"]
    /\ UNCHANGED <<bench, entry, record, importer, told, refused, edits,
                   tries, faults>>

-----------------------------------------------------------------------------
(* Others *)

(* The evaluation is repeated, or one of its files is changed. *)
Edit(v) ==
    /\ edits < MaxEdits
    /\ edits' = edits + 1
    /\ \/ bench' = [bench EXCEPT !.manifest = v]
       \/ \E f \in Files : bench' = [bench EXCEPT !.files[f] = v]
    /\ UNCHANGED <<snapshot, entry, record, importer, desk, told, refused,
                   tries, faults>>

(* A snapshot that an import has left behind is changed between imports. *)
Tamper(c, f, v) ==
    /\ edits < MaxEdits
    /\ edits' = edits + 1
    /\ entry = None
    /\ \A i \in Importers : At(i, "idle")
    /\ snapshot[c] # None
    /\ snapshot' = [snapshot EXCEPT ![c].files[f] = v]
    /\ UNCHANGED <<bench, entry, record, importer, desk, told, refused,
                   tries, faults>>

ImportNext ==
    \/ \E i \in Importers :
          \/ \E c \in Cases : ReadManifest(i, c)
          \/ VerifyFile(i) \/ FindRun(i) \/ FindDestination(i)
          \/ Publish(i) \/ VerifySnapshot(i) \/ Register(i)
          \/ FindReview(i) \/ CreateReview(i) \/ Answer(i) \/ Break(i)
    \/ \E name \in {"decision", "export"} : Ask(name)
    \/ EnsureReview \/ RecordDecision \/ ListArtifacts
    \/ \E v \in Versions :
          Edit(v) \/ \E c \in Cases, f \in Files : Tamper(c, f, v)

ImportSpec == ImportInit /\ [][ImportNext]_importVars

-----------------------------------------------------------------------------
(* Properties *)

(* tests/test_benchmark_review_import.py: an import that was answered, at  *)
(* the first try or on the remains of earlier ones, has its evaluation in  *)
(* the registry, a review record, and a snapshot of exactly the files that *)
(* were checked, whatever happened to the evaluation meanwhile.            *)
ImportIsBacked ==
    \A v \in told :
        /\ entry # None /\ entry.sha = v
        /\ record # "absent"
        /\ snapshot[entry.case] # None
        /\ snapshot[entry.case].sha = v
        /\ \A f \in Files : snapshot[entry.case].files[f] = v

(* The import is idempotent for identical evidence                         *)
(* (test_import_is_idempotent_for_identical_evidence): it does not refuse  *)
(* evidence that an import has already been answered for.                  *)
RepeatedImportIsFound == refused = {}
=============================================================================
