---------------------------- MODULE WorkflowLab ----------------------------
(***************************************************************************)
(* The Workflow Lab (adapters/adk/workflow_lab.py) as its command line     *)
(* scripts use it: validation and export of one app's draft, by processes  *)
(* that share the app's lock with the draft gateway, next to writers that  *)
(* know no lock: a developer who edits the draft or the published tree,    *)
(* and the cleanup command (runtime/cleanup.py), which removes drafts and  *)
(* exports.  POSIX build, run by an ordinary user.                         *)
(*                                                                         *)
(* A file is the number of its edit: an edit never brings back an earlier  *)
(* content.  The published tree is one object.  An export is the objects   *)
(* 1 .. Export: the candidate's files, their directory, the patch, the     *)
(* manifest, written last, that marks the export as committed, and the     *)
(* directory of it all.  Below the candidate is no directory of its own.   *)
(* A name is taken in one step: the pending file before it is left out.    *)
(* Any system call on an export, or on the lock of its revocation, may     *)
(* fail, whatever its state.                                               *)
(***************************************************************************)
EXTENDS Naturals, Sequences

CONSTANTS
    Exporters,      \* processes that run a script of the lab
    N,              \* the number of files of the draft
    Gateway, None,  \* the other holder of the lock; nobody
    MaxEdits,       \* bound: edits without the lock
    MaxCrashes      \* bound: processes that die

ASSUME LabAssumption ==
    /\ N \in Nat \ {0} /\ MaxEdits \in Nat /\ MaxCrashes \in Nat
    /\ Gateway \notin Exporters /\ None \notin Exporters \cup {Gateway}

VARIABLES
    draft,      \* the draft's files
    published,  \* the published tree of the app
    lock,       \* who holds the app's lock
    exporter,   \* the scripts' processes
    out,        \* the export directory of each
    gateway,    \* the gateway's session: the file it writes next, its edit
    cleaner,    \* the cleanup command
    edits,      \* bound: edits so far
    crashes     \* bound: deaths so far

labVars ==
    <<draft, published, lock, exporter, out, gateway, cleaner, edits,
      crashes>>

Names == 1 .. N
Candidate == N + 1
Patch == N + 2
Marker == N + 3
Export == N + 4

\* The directory an object is in; that of the export is never read-only.
Holder(object) ==
    CASE object \in Names -> Candidate
      [] object \in Candidate .. Marker -> Export
      [] object = Export -> 0

\* A draft file that the cleanup has removed.
Gone == MaxEdits + N + 1

Drafts == [Names -> 0 .. Gone]

(* The checks of the draft, each a loop over its files, in their order. *)
Passes == <<"collecting", "rescanning", "pinning", "confirming", "settling">>

FaultProofs == <<"output", "published", "output">>

(* The checks that follow the hardening of the output, in their order. *)
Proofs == <<"output", "published", "output", "published", "output">>

Bundling ==
    {"guarding", "opening", "staging", "writing", "preparing", "marking",
     "linking", "hardening", "closing", "sealing", "proving"}

Stages ==
    {"idle", "locking", "validating", "failing", "releasing", "checking",
     "comparing", "revoking", "finalizing", "over", "dead"}
    \cup {Passes[i] : i \in 1 .. 5} \cup Bundling

ExporterRecords ==
    [kind : {"validate", "export"},
     stage : Stages,
     at : 1 .. N + 5,               \* index in the loop of the stage
     seen : [Names -> 0 .. Gone],   \* the snapshot of the draft
     before : 0 .. MaxEdits,        \* the integrity capture before
     base : 0 .. MaxEdits,          \* the published tree in the patch
     bound : 0 .. MaxEdits,         \* history: the one when the binding of
                                    \* the receipt was captured
     marked : BOOLEAN,              \* has a handle of the manifest
     lease : {"none", "active", "finalized", "revoked", "failed"},
     answer : {"none", "ok", "failed", "unrevoked", "unclosed"},
     revocation : {"none", "done", "failed"},   \* history: by RevokeReceipt
     during : SUBSET Drafts]        \* history: the drafts since the lock

Outputs ==
    [objects : SUBSET (1 .. Export),
     locked : SUBSET (1 .. Export)]     \* those without write permission

CleanerRecords ==
    [stage : {"idle", "drafts", "exports", "listing", "removing",
              "unlinking", "done", "raised"},
     target : Exporters \cup {None},    \* the export it is in
     targets : SUBSET Exporters,        \* those it goes to next
     left : SUBSET (1 .. Export)]       \* what it has listed, not removed

-----------------------------------------------------------------------------
(* The draft and those who write it *)

NoSession == [at |-> 0, edit |-> 0]

Snapshotting(p) ==
    exporter[p].stage \in {Passes[i] : i \in 1 .. 5} \cup {"validating"}

(* While the gateway writes a draft there is no draft. *)
NoteDraft ==
    exporter' = [p \in Exporters |->
        IF Snapshotting(p) /\ gateway' = NoSession
        THEN [exporter[p] EXCEPT !.during = @ \cup {draft'}]
        ELSE exporter[p]]

(* draft_write_session *)
OpenSession ==
    /\ lock = None
    /\ edits < MaxEdits
    /\ edits' = edits + 1
    /\ lock' = Gateway
    /\ gateway' = [at |-> 1, edit |-> edits + 1]
    /\ UNCHANGED <<draft, published, exporter, out, cleaner, crashes>>

WriteDraft ==
    /\ gateway.at > 0
    /\ draft' = [draft EXCEPT ![gateway.at] = gateway.edit]
    /\ gateway' = IF gateway.at = N THEN NoSession
                  ELSE [gateway EXCEPT !.at = @ + 1]
    /\ lock' = IF gateway.at = N THEN None ELSE lock
    /\ NoteDraft
    /\ UNCHANGED <<published, out, cleaner, edits, crashes>>

(* A developer's editor or git, outside of the lock. *)
EditDraft(f) ==
    /\ edits < MaxEdits
    /\ draft[f] # Gone
    /\ edits' = edits + 1
    /\ draft' = [draft EXCEPT ![f] = edits + 1]
    /\ UNCHANGED gateway
    /\ NoteDraft
    /\ UNCHANGED <<published, lock, out, cleaner, crashes>>

EditPublished ==
    /\ edits < MaxEdits
    /\ edits' = edits + 1
    /\ published' = edits + 1
    /\ UNCHANGED <<draft, lock, exporter, out, gateway, cleaner, crashes>>

-----------------------------------------------------------------------------
(* A script: integrity, lock, snapshot and validation *)

At(p, stage) == exporter[p].stage = stage

Goes(p, stage) ==
    exporter' = [exporter EXCEPT ![p].stage = stage, ![p].at = 1]

(* The next round of a loop of n rounds, or the stage after it. *)
Loops(p, n, stage) ==
    IF exporter[p].at < n
    THEN exporter' = [exporter EXCEPT ![p].at = @ + 1]
    ELSE Goes(p, stage)

(* The snapshot is gone with the call of the lab that took it. *)
Forget(r) == [r EXCEPT !.seen = [f \in Names |-> 0], !.during = {}]

Begin(p, kind) ==
    /\ At(p, "idle")
    /\ exporter' = [exporter EXCEPT ![p].stage = "locking", ![p].kind = kind,
                                    ![p].before = published]
    /\ UNCHANGED <<draft, published, lock, out, gateway, cleaner, edits,
                   crashes>>

Lock(p) ==
    /\ At(p, "locking") /\ lock = None
    /\ lock' = p
    /\ exporter' = [exporter EXCEPT ![p].stage = "collecting",
                                    ![p].during = {draft}]
    /\ UNCHANGED <<draft, published, out, gateway, cleaner, edits, crashes>>

AfterPass(p) ==
    CASE At(p, "collecting") -> "rescanning"
      [] At(p, "rescanning") -> "pinning"
      [] At(p, "pinning") -> "validating"
      [] At(p, "confirming") -> "settling"
      [] At(p, "settling") ->
            IF exporter[p].kind = "export" THEN "guarding" ELSE "releasing"

Reading(p) == draft[exporter[p].at]

(* _read_pinned_file: one file of the snapshot. *)
Collect(p) ==
    /\ At(p, "collecting")
    /\ Reading(p) # Gone
    /\ LET next == [exporter[p] EXCEPT !.seen[exporter[p].at] = Reading(p)]
       IN  exporter' = [exporter EXCEPT ![p] =
               IF next.at < N THEN [next EXCEPT !.at = @ + 1]
               ELSE [next EXCEPT !.stage = "rescanning", !.at = 1]]
    /\ UNCHANGED <<draft, published, lock, out, gateway, cleaner, edits,
                   crashes>>

Unchanged(p) == Reading(p) = exporter[p].seen[exporter[p].at]

FaultCompareNothing(p) ==
    /\ exporter[p].stage \in {Passes[i] : i \in 2 .. 5}
    /\ Loops(p, N, AfterPass(p))
    /\ UNCHANGED <<draft, published, lock, out, gateway, cleaner, edits,
                   crashes>>

(* The later passes of the snapshot and of _verify_pinned_snapshot: the    *)
(* file still is the one that was read.                                    *)
Compare(p) ==
    /\ exporter[p].stage \in {Passes[i] : i \in 2 .. 5}
    /\ Unchanged(p)
    /\ Loops(p, N, AfterPass(p))
    /\ UNCHANGED <<draft, published, lock, out, gateway, cleaner, edits,
                   crashes>>

(* The stages of _validate on the snapshot (WorkflowPolicy). *)
Validate(p) ==
    /\ At(p, "validating")
    /\ Goes(p, "confirming")
    /\ UNCHANGED <<draft, published, lock, out, gateway, cleaner, edits,
                   crashes>>

(* What ends the handling of the draft with an error: a file that is not   *)
(* the one before, or is gone; a candidate that is not valid.              *)
Refuse(p) ==
    /\ \/ At(p, "validating")
       \/ At(p, "collecting") /\ Reading(p) = Gone
       \/ exporter[p].stage \in {Passes[i] : i \in 2 .. 5} /\ ~Unchanged(p)
    /\ Goes(p, "failing")
    /\ UNCHANGED <<draft, published, lock, out, gateway, cleaner, edits,
                   crashes>>

(* The end of a validation. *)
Release(p) ==
    /\ At(p, "releasing")
    /\ exporter' = [exporter EXCEPT ![p] =
          Forget([@ EXCEPT !.stage = "comparing", !.at = 1])]
    /\ lock' = None
    /\ UNCHANGED <<draft, published, out, gateway, cleaner, edits, crashes>>
-----------------------------------------------------------------------------
(* A script: the export *)

Held(p) == published = exporter[p].base

(* _verify_terminal_export: nothing is missing, and nothing is writable. *)
Whole(p) == out[p].objects = 1 .. Export /\ out[p].locked = 1 .. Export

(* The published tree is snapshotted and guarded from here on. *)
Guard(p) ==
    /\ At(p, "guarding")
    /\ exporter' = [exporter EXCEPT ![p].stage = "opening",
                                    ![p].base = published]
    /\ UNCHANGED <<draft, published, lock, out, gateway, cleaner, edits,
                   crashes>>

(* A guarded step of _write_export_bundle: the published tree is the one   *)
(* of the patch.  The two directories are made in turn.                    *)
Open(p) ==
    /\ At(p, "opening") /\ Held(p)
    /\ out' = [out EXCEPT ![p].objects = {Export}]
    /\ Goes(p, "staging")
    /\ UNCHANGED <<draft, published, lock, gateway, cleaner, edits, crashes>>

(* An object can be made only in a directory that is still there. *)
Makes(p, object) ==
    /\ Holder(object) \in out[p].objects
    /\ out' = [out EXCEPT ![p].objects = @ \cup {object}]

Stage(p) ==
    /\ At(p, "staging")
    /\ Makes(p, Candidate)
    /\ Goes(p, "writing")
    /\ UNCHANGED <<draft, published, lock, gateway, cleaner, edits, crashes>>

(* The candidate's files, then the patch. *)
Write(p) ==
    /\ At(p, "writing")
    /\ LET i == exporter[p].at
       IN  Makes(p, IF i \in Names THEN i ELSE Patch)
    /\ Loops(p, N + 1, "preparing")
    /\ UNCHANGED <<draft, published, lock, gateway, cleaner, edits, crashes>>

Prepare(p) ==
    /\ At(p, "preparing") /\ Held(p)
    /\ Goes(p, "marking")
    /\ UNCHANGED <<draft, published, lock, out, gateway, cleaner, edits,
                   crashes>>

(* _write_exclusive_guarded of the manifest: from its os.link on it is     *)
(* there, but the bundle has a handle of it only if all that follows goes  *)
(* well too (the pending name, fstat, verify).                             *)
Link(p) ==
    /\ At(p, "marking")
    /\ Makes(p, Marker)
    /\ Goes(p, "linking")
    /\ UNCHANGED <<draft, published, lock, gateway, cleaner, edits, crashes>>

Mark(p) ==
    /\ At(p, "linking") /\ Marker \in out[p].objects
    /\ exporter' = [exporter EXCEPT ![p].stage = "hardening",
                                    ![p].marked = TRUE]
    /\ UNCHANGED <<draft, published, lock, out, gateway, cleaner, edits,
                   crashes>>

Locks(p, objects) ==
    out' = [out EXCEPT ![p].locked = @ \cup (objects \cap out[p].objects)]

(* The files lose their write permission first, each by its handle; then,  *)
(* from the inside out, the directories, which are verified to be there.   *)
Harden(p) ==
    /\ \/ /\ At(p, "hardening") /\ Held(p)
          /\ Locks(p, Names \cup {Patch, Marker})
          /\ Goes(p, "closing")
       \/ /\ At(p, "closing") /\ Candidate \in out[p].objects
          /\ Locks(p, {Candidate})
          /\ Goes(p, "sealing")
       \/ /\ At(p, "sealing") /\ Export \in out[p].objects
          /\ Locks(p, {Export})
          /\ Goes(p, "proving")
    /\ UNCHANGED <<draft, published, lock, gateway, cleaner, edits, crashes>>

Proved(p) == IF Proofs[exporter[p].at] = "output" THEN Whole(p) ELSE Held(p)

(* The third proof is followed by _capture_export_commit_binding, the last *)
(* one by the lease and the end of the lock.                               *)
Prove(p) ==
    /\ At(p, "proving") /\ Proved(p)
    /\ IF exporter[p].at < Len(Proofs)
       THEN /\ exporter' = [exporter EXCEPT ![p].at = @ + 1, ![p].bound =
                  IF exporter[p].at = 3 THEN published ELSE @]
            /\ UNCHANGED lock
       ELSE /\ exporter' = [exporter EXCEPT ![p] =
                  Forget([@ EXCEPT !.stage = "checking", !.at = 1,
                                   !.lease = "active"])]
            /\ lock' = None
    /\ UNCHANGED <<draft, published, out, gateway, cleaner, edits, crashes>>

(* A check of the export that does not hold, or a call that fails. *)
Break(p) ==
    /\ exporter[p].stage \in Bundling
    /\ exporter' = [exporter EXCEPT ![p].stage = "failing"]
    /\ UNCHANGED <<draft, published, lock, out, gateway, cleaner, edits,
                   crashes>>

Discardable(p) == Marker \in out[p].objects

(* _PinnedOutputFile.discard leaves the export directory read-only. *)
Discarded(p) ==
    IF Discardable(p)
    THEN [out EXCEPT ![p].objects = @ \ {Marker},
                     ![p].locked = (@ \ {Marker}) \cup {Export}]
    ELSE out

(* One that fails may have made the directory writable, and no more, or    *)
(* have removed the manifest all the same (the fsync after it).            *)
Disturbed(p) ==
    IF Discardable(p)
    THEN {out, [out EXCEPT ![p].locked = @ \ {Export}], Discarded(p)}
    ELSE {out}

Fails(p, answer) ==
    exporter' = [exporter EXCEPT ![p] =
        Forget([@ EXCEPT !.stage = "over", !.answer = answer])]

FaultFailKeepsManifest(p) ==
    /\ At(p, "failing")
    /\ Fails(p, "failed")
    /\ lock' = None
    /\ UNCHANGED <<draft, published, out, gateway, cleaner, edits, crashes>>

(* The error leaves the lab's lock; a manifest of which the bundle has a   *)
(* handle goes with it, or the error is that it could not be removed.      *)
Fail(p) ==
    /\ At(p, "failing")
    /\ \/ /\ ~exporter[p].marked
          /\ UNCHANGED out /\ Fails(p, "failed")
       \/ /\ exporter[p].marked /\ Discardable(p)
          /\ out' = Discarded(p) /\ Fails(p, "failed")
       \/ /\ exporter[p].marked
          /\ out' \in Disturbed(p) /\ Fails(p, "unrevoked")
    /\ lock' = None
    /\ UNCHANGED <<draft, published, gateway, cleaner, edits, crashes>>

-----------------------------------------------------------------------------
(* A script: the lease of the receipt *)

(* git apply --check *)
CheckPatch(p) ==
    /\ At(p, "checking")
    /\ \E stage \in {"comparing", "revoking"} : Goes(p, stage)
    /\ UNCHANGED <<draft, published, lock, out, gateway, cleaner, edits,
                   crashes>>

Answers(p, answer) ==
    exporter' = [exporter EXCEPT ![p].stage = "over", ![p].answer = answer]

(* The integrity capture after, compared with the one before; a success is *)
(* printed here.  What fails in it is the same to the caller.              *)
CompareIntegrity(p) ==
    /\ At(p, "comparing")
    /\ \E intact \in BOOLEAN :
          /\ intact => published = exporter[p].before
          /\ IF exporter[p].kind = "export"
             THEN Goes(p, IF intact THEN "finalizing" ELSE "revoking")
             ELSE Answers(p, IF intact THEN "ok" ELSE "failed")
    /\ UNCHANGED <<draft, published, lock, out, gateway, cleaner, edits,
                   crashes>>

Consumes(p, lease, answer) ==
    exporter' = [exporter EXCEPT ![p].stage = "over", ![p].lease = lease,
                                 ![p].answer = answer]

(* _ExportProofLease._revoke_active: the manifest is removed, or the lease *)
(* has failed and can do no more; an error may also come of closing the    *)
(* handles of a lease that has removed it.                                 *)
RevokeActive(p, answer) ==
    \/ /\ Discardable(p) /\ out' = Discarded(p)
       /\ \E told \in {answer, "unrevoked"} : Consumes(p, "revoked", told)
    \/ /\ out' \in Disturbed(p)
       /\ Consumes(p, "failed", "unrevoked")

(* __exit__ without an exception: the last verification, which revokes     *)
(* when it fails, and the end of the handles, which may fail too.  Without *)
(* the lock of the revocation the lease stays as it is.                    *)
Finalize(p) ==
    /\ At(p, "finalizing")
    /\ \/ /\ exporter[p].lease = "active" /\ Whole(p) /\ UNCHANGED out
          /\ \/ Consumes(p, "finalized", "ok")
             \/ Consumes(p, "failed", "unclosed")
       \/ exporter[p].lease = "active" /\ RevokeActive(p, "failed")
       \/ exporter[p].lease = "revoked" /\ UNCHANGED out /\ Answers(p, "ok")
       \/ /\ exporter[p].lease = "failed"
          /\ UNCHANGED out /\ Answers(p, "unrevoked")
       \/ UNCHANGED out /\ Answers(p, "unclosed")
    /\ UNCHANGED <<draft, published, lock, gateway, cleaner, edits, crashes>>

(* revoke_export_commit once the lease is over: the directory has to be    *)
(* the receipt's, and a manifest that is missing is as good as removed.    *)
RevokeByPath(p) == Export \in out[p].objects /\ out' = Discarded(p)

(* __exit__ with one. *)
Revoke(p) ==
    /\ At(p, "revoking")
    /\ \/ exporter[p].lease = "active" /\ RevokeActive(p, "failed")
       \/ /\ exporter[p].lease = "revoked"
          /\ UNCHANGED out /\ Answers(p, "failed")
       \/ /\ exporter[p].lease = "failed"
          /\ \/ RevokeByPath(p) /\ Answers(p, "failed")
             \/ out' \in Disturbed(p) /\ Answers(p, "unrevoked")
       \/ UNCHANGED out /\ Answers(p, "unrevoked")
    /\ UNCHANGED <<draft, published, lock, gateway, cleaner, edits, crashes>>

Revokes(p, lease, revocation) ==
    exporter' = [exporter EXCEPT ![p].lease = lease,
                                 ![p].revocation = revocation]

(* Another holder of the receipt, in the same process, revokes it, at any  *)
(* time and also when the export is over; here, once with success.         *)
RevokeReceipt(p) ==
    /\ exporter[p].stage \notin {"idle", "dead"}
    /\ exporter[p].revocation # "done"
    /\ exporter[p].lease # "none"
    /\ \/ /\ exporter[p].lease = "active"
          /\ \/ /\ Discardable(p) /\ out' = Discarded(p)
                /\ \E told \in {"done", "failed"} :
                      Revokes(p, "revoked", told)
             \/ out' \in Disturbed(p) /\ Revokes(p, "failed", "failed")
       \/ /\ exporter[p].lease = "revoked"
          /\ UNCHANGED out /\ Revokes(p, "revoked", "done")
       \/ /\ exporter[p].lease \in {"finalized", "failed"}
          /\ \/ RevokeByPath(p) /\ Revokes(p, exporter[p].lease, "done")
             \/ /\ out' \in Disturbed(p)
                /\ Revokes(p, exporter[p].lease, "failed")
       \/ UNCHANGED out /\ Revokes(p, exporter[p].lease, "failed")
    /\ UNCHANGED <<draft, published, lock, gateway, cleaner, edits, crashes>>

-----------------------------------------------------------------------------
(* Deaths, and the cleanup *)

(* The lock goes with its holder; the lease goes without a trace, and the  *)
(* directory stays as it is.                                               *)
Crash(p) ==
    /\ crashes < MaxCrashes
    /\ exporter[p].stage \notin {"idle", "over", "dead"}
    /\ crashes' = crashes + 1
    /\ exporter' = [exporter EXCEPT ![p] = Forget([@ EXCEPT !.stage = "dead"])]
    /\ lock' = IF lock = p THEN None ELSE lock
    /\ UNCHANGED <<draft, published, out, gateway, cleaner, edits>>

CrashGateway ==
    /\ crashes < MaxCrashes
    /\ gateway # NoSession
    /\ crashes' = crashes + 1
    /\ gateway' = NoSession
    /\ lock' = None
    /\ UNCHANGED <<draft, published, exporter, out, cleaner, edits>>

(* execute_cleanup_plan: the drafts go first, then the exports. *)
StartCleanup ==
    /\ cleaner.stage = "idle"
    /\ cleaner' = [cleaner EXCEPT !.stage = "drafts", !.left = Names]
    /\ UNCHANGED <<draft, published, lock, exporter, out, gateway, edits,
                   crashes>>

First(S) == CHOOSE x \in S : \A y \in S : x <= y

RemoveDraft ==
    /\ cleaner.stage = "drafts" /\ cleaner.left # {}
    /\ draft' = [draft EXCEPT ![First(cleaner.left)] = Gone]
    /\ cleaner' = [cleaner EXCEPT !.left = @ \ {First(@)}]
    /\ UNCHANGED gateway
    /\ NoteDraft
    /\ UNCHANGED <<published, lock, out, edits, crashes>>

(* os.scandir of the exports, listed before the first is removed. *)
ListExports ==
    /\ cleaner.stage = "drafts" /\ cleaner.left = {}
    /\ cleaner' = [cleaner EXCEPT !.stage = "exports",
          !.targets = {p \in Exporters : Export \in out[p].objects}]
    /\ UNCHANGED <<draft, published, lock, exporter, out, gateway, edits,
                   crashes>>

(* _remove_path_no_follow: a directory is listed, its entries are removed  *)
(* in the order of their names, and it goes itself.  The candidate is the  *)
(* first entry of an export, and is listed in its turn.                    *)
EnterExport(p) ==
    /\ cleaner.stage = "exports" /\ p \in cleaner.targets
    /\ cleaner' = [cleaner EXCEPT !.target = p, !.targets = @ \ {p},
          !.stage = IF Candidate \in out[p].objects THEN "listing"
                    ELSE "removing",
          !.left = {Export} \cup (out[p].objects \ Names)]
    /\ UNCHANGED <<draft, published, lock, exporter, out, gateway, edits,
                   crashes>>

ListCandidate ==
    /\ cleaner.stage = "listing"
    /\ cleaner' = [cleaner EXCEPT !.stage = "removing",
          !.left = @ \cup (Names \cap out[cleaner.target].objects)]
    /\ UNCHANGED <<draft, published, lock, exporter, out, gateway, edits,
                   crashes>>

(* _make_writable, whether or not the entry can be removed after it.  An   *)
(* entry that is gone ends the command.                                    *)
MakeWritable ==
    /\ cleaner.stage = "removing"
    /\ LET p == cleaner.target
           object == First(cleaner.left)
       IN  IF object \in out[p].objects
           THEN /\ out' = [out EXCEPT ![p].locked = @ \ {object}]
                /\ cleaner' = [cleaner EXCEPT !.stage = "unlinking"]
           ELSE /\ cleaner' = [cleaner EXCEPT !.stage = "raised"]
                /\ UNCHANGED out
    /\ UNCHANGED <<draft, published, lock, exporter, gateway, edits, crashes>>

(* An entry of a read-only directory cannot be removed, nor can a          *)
(* directory that is not empty.                                            *)
Removable(p, object) ==
    /\ object \in out[p].objects
    /\ Holder(object) \notin out[p].locked
    /\ \A x \in out[p].objects : Holder(x) # object

RemoveEntry ==
    /\ cleaner.stage = "unlinking"
    /\ LET p == cleaner.target
           object == First(cleaner.left)
           rest == cleaner.left \ {object}
       IN  IF Removable(p, object)
           THEN /\ out' = [out EXCEPT ![p].objects = @ \ {object},
                                      ![p].locked = @ \ {object}]
                /\ cleaner' = [cleaner EXCEPT !.left = rest,
                      !.stage = IF rest = {} THEN "exports" ELSE "removing"]
           ELSE /\ cleaner' = [cleaner EXCEPT !.stage = "raised"]
                /\ UNCHANGED out
    /\ UNCHANGED <<draft, published, lock, exporter, gateway, edits, crashes>>

EndCleanup ==
    /\ cleaner.stage = "exports" /\ cleaner.targets = {}
    /\ cleaner' = [cleaner EXCEPT !.stage = "done"]
    /\ UNCHANGED <<draft, published, lock, exporter, out, gateway, edits,
                   crashes>>

-----------------------------------------------------------------------------

LabInit ==
    /\ draft = [f \in Names |-> 0]
    /\ published = 0
    /\ lock = None
    /\ exporter = [p \in Exporters |->
          [kind |-> "export", stage |-> "idle", at |-> 1,
           seen |-> [f \in Names |-> 0], before |-> 0, base |-> 0, bound |-> 0,
           marked |-> FALSE, lease |-> "none", answer |-> "none",
           revocation |-> "none", during |-> {}]]
    /\ out = [p \in Exporters |-> [objects |-> {}, locked |-> {}]]
    /\ gateway = NoSession
    /\ cleaner = [stage |-> "idle", target |-> None, targets |-> {},
                  left |-> {}]
    /\ edits = 0 /\ crashes = 0

Script(p) ==
    \/ \E kind \in {"validate", "export"} : Begin(p, kind)
    \/ Lock(p) \/ Collect(p) \/ Compare(p) \/ Validate(p) \/ Refuse(p)
    \/ Release(p) \/ Guard(p) \/ Open(p) \/ Stage(p) \/ Write(p) \/ Prepare(p)
    \/ Link(p) \/ Mark(p) \/ Harden(p) \/ Prove(p) \/ Break(p) \/ Fail(p)
    \/ CheckPatch(p) \/ CompareIntegrity(p) \/ Finalize(p) \/ Revoke(p)

Cleanup ==
    \/ StartCleanup \/ RemoveDraft \/ ListExports
    \/ \E p \in Exporters : EnterExport(p)
    \/ ListCandidate \/ MakeWritable \/ RemoveEntry \/ EndCleanup

LabNext ==
    \/ \E p \in Exporters : Script(p) \/ RevokeReceipt(p) \/ Crash(p)
    \/ \E f \in Names : EditDraft(f)
    \/ OpenSession \/ WriteDraft \/ CrashGateway \/ EditPublished
    \/ Cleanup

LabSpec == LabInit /\ [][LabNext]_labVars

-----------------------------------------------------------------------------
(* Properties *)

LabTypeOK ==
    /\ draft \in Drafts
    /\ published \in 0 .. MaxEdits
    /\ lock \in Exporters \cup {Gateway, None}
    /\ exporter \in [Exporters -> ExporterRecords]
    /\ out \in [Exporters -> Outputs]
    /\ gateway \in [at : 0 .. N, edit : 0 .. MaxEdits]
    /\ cleaner \in CleanerRecords
    /\ edits \in 0 .. MaxEdits /\ crashes \in 0 .. MaxCrashes

Accepted(p) == exporter[p].stage \in Bundling \cup {"releasing"}

(* A candidate is a draft that was there, as a whole, at one instant since *)
(* the script took the lock, and never the half of one that a gateway is   *)
(* about to write, although the files are read one by one and editors know *)
(* no lock.  (A gateway that died may have left half a draft: that is the  *)
(* draft from then on.)                                                    *)
CandidateExisted ==
    \A p \in Exporters : Accepted(p) => exporter[p].seen \in exporter[p].during

(* What an export has been answered is what its directory says, whoever    *)
(* edits, cleans up, revokes or dies, and whatever call fails.  Success    *)
(* leaves the whole bundle with its manifest: read-only, except that a     *)
(* cleanup may have made one of its objects writable, and no more, before  *)
(* it found that it cannot remove it.  There is no manifest once a         *)
(* revocation has returned, or after a failure, but for two kinds: one of  *)
(* the lease itself (of revoking, closing or locking it), and one within   *)
(* the writing of the manifest, which may leave one that no receipt is     *)
(* about.  And a manifest that no cleanup has come near marks a whole      *)
(* bundle, also in the directory of a script that failed or died.          *)
AnswerMatchesExport ==
    \A p \in Exporters :
        /\ Marker \in out[p].objects /\ cleaner.target # p
           => out[p].objects = 1 .. Export
        /\ /\ exporter[p].kind = "export" /\ exporter[p].answer = "ok"
           /\ exporter[p].lease # "revoked" /\ exporter[p].revocation = "none"
           => /\ out[p].objects = 1 .. Export
              /\ cleaner.target # p => out[p].locked = 1 .. Export
              /\ \E x \in 1 .. Export :
                    (1 .. Export) \ {x} \subseteq out[p].locked
        /\ \/ exporter[p].revocation = "done"
           \/ exporter[p].answer = "failed" /\ exporter[p].marked
           => Marker \notin out[p].objects

(* A receipt is bound to an export made against the published tree of that *)
(* moment, and the patch of an export that is answered with success was    *)
(* made against the published tree that was there from before it began     *)
(* until the integrity check after it.                                     *)
BaseIsIntact ==
    \A p \in Exporters :
        /\ exporter[p].lease # "none" => exporter[p].bound = exporter[p].base
        /\ exporter[p].kind = "export" /\ exporter[p].answer = "ok"
           => exporter[p].base = exporter[p].before
=============================================================================
