------------------------- MODULE WorkflowLabProofs -------------------------
(***************************************************************************)
(* Proofs about WorkflowLab: a candidate that is accepted was a draft at   *)
(* one instant under the lock, an export is what its answer says, and its  *)
(* patch was made against the published tree that was there throughout.    *)
(*                                                                         *)
(* The files of a draft are read one after the other while editors change  *)
(* them.  The invariant for this says that an edit only raises a file's    *)
(* number while a script has the lock: what the first pass has seen is not *)
(* above the draft at the end of that pass, and what the second pass finds *)
(* unchanged is not below it.  The same holds of the published tree and    *)
(* the proofs of an export.  For the export directory the invariant says   *)
(* that what lies in a directory goes before it (Tree), how far it is      *)
(* written at each stage for as long as the cleanup is not in it, that     *)
(* nothing brings back a manifest that was removed, and that the cleanup   *)
(* has at most one object of it writable that it has not removed (Opened). *)
(***************************************************************************)
EXTENDS WorkflowLab, NaturalsInduction, WellFoundedInduction, TLAPS

-----------------------------------------------------------------------------
(* The inductive invariant *)

PassStages ==
    {"collecting", "rescanning", "pinning", "confirming", "settling"}

(* The stages under the lock. *)
Holding == PassStages \cup Bundling \cup {"validating", "failing", "releasing"}

(* The stages with a lease, of an export. *)
Leasing == {"checking", "revoking", "finalizing"}

(* The stages before the output directory is made. *)
Dirless ==
    PassStages \cup {"idle", "locking", "validating", "releasing", "guarding",
                     "opening"}

(* The stages that know that the candidate existed. *)
Sealed ==
    Bundling \cup {"pinning", "validating", "confirming", "settling",
                   "releasing"}

(* The lock is with the script that needs it, or with the open session. *)
LocksFit ==
    /\ \A p \in Exporters : exporter[p].stage \in Holding => lock = p
    /\ gateway = NoSession \/ (gateway.at > 0 /\ lock = Gateway)

EditsFit ==
    /\ gateway.edit <= edits
    /\ published <= edits
    /\ \A f \in Names : draft[f] = Gone \/ draft[f] <= edits

LoopFits(x) ==
    /\ x.stage \in {"idle", "locking"} => x.at = 1
    /\ x.stage \in PassStages => x.at <= N
    /\ x.stage = "writing" => x.at <= N + 1
    /\ x.stage = "proving" => x.at <= Len(Proofs)

(* The draft d was there after the first pass, and is there as far as the  *)
(* second one has got.                                                     *)
Existed(x, d) ==
    \A f \in Names :
        /\ x.seen[f] <= d[f] /\ d[f] <= draft[f]
        /\ f < x.at => d[f] = x.seen[f]

SnapshotFits(x) ==
    /\ x.stage \in PassStages \cup {"validating"} => draft \in x.during
    /\ x.stage = "collecting" =>
          \A f \in Names : f < x.at => x.seen[f] <= draft[f]
    /\ x.stage = "rescanning" => \E d \in x.during : Existed(x, d)
    /\ x.stage \in Sealed => x.seen \in x.during

(* Exports have bases and leases, and published trees only get newer.      *)
KindFits(x) ==
    /\ x.stage \in Bundling \cup Leasing => x.kind = "export"
    /\ x.stage = "releasing" => x.kind = "validate"
    /\ x.kind = "validate" \/ x.stage \in Dirless => ~x.marked

Compared(x) ==
    x.stage \in Leasing \/ (x.stage = "comparing" /\ x.kind = "export")

BaseFits(x) ==
    /\ x.before <= published /\ x.base <= published
    /\ x.stage \in Bundling \ {"guarding"} \/ Compared(x)
       => x.before <= x.base
    /\ x.stage = "proving" /\ x.at = 4 =>
          x.base <= x.bound /\ x.bound <= published
    /\ x.stage = "proving" /\ x.at = 5 => x.bound = x.base
    /\ x.lease # "none" => x.bound = x.base
    /\ x.stage = "finalizing" \/ (x.kind = "export" /\ x.answer = "ok")
       => x.base = x.before

LeaseFits(x) ==
    /\ x.stage \in Holding \cup {"idle", "locking"} => x.lease = "none"
    /\ Compared(x) => x.lease \in {"active", "revoked", "failed"}
    /\ x.answer # "none" => x.stage = "over"
    /\ x.revocation # "none" => x.lease # "none"

ScriptsFit ==
    \A p \in Exporters :
        /\ LoopFits(exporter[p]) /\ SnapshotFits(exporter[p])
        /\ KindFits(exporter[p]) /\ BaseFits(exporter[p])
        /\ LeaseFits(exporter[p])

(* What lies in a directory goes before it. *)
Tree(objects) == \A y \in objects \ {Export} : Holder(y) \in objects

(* What the cleanup has made writable and not removed, if it is in p. *)
Opened(p) ==
    IF cleaner.target = p /\ cleaner.stage \in {"unlinking", "raised"}
    THEN {First(cleaner.left)}
    ELSE {}

(* An export that was answered with success, and not revoked since. *)
Good(x) ==
    /\ x.kind = "export" /\ x.answer = "ok"
    /\ x.lease # "revoked" /\ x.revocation = "none"

(* One of which the manifest has been removed. *)
Unmarked(x) ==
    \/ x.lease = "revoked" \/ x.revocation = "done"
    \/ x.answer = "failed" /\ x.marked

(* The export directory o of the script x, near is whether the cleanup is  *)
(* in it or has been there last.                                           *)
OutputFits(x, o, near, opened) ==
    /\ x.stage \in Dirless => o.objects = {}
    /\ Tree(o.objects)
    /\ ~near /\ Export \in o.objects =>
          /\ x.stage = "writing" =>
                1 .. (x.at - 1) \cup {Candidate} \subseteq o.objects
          /\ x.stage \in {"preparing", "marking"} =>
                (1 .. Export) \ {Marker} \subseteq o.objects
          /\ Marker \in o.objects => o.objects = 1 .. Export
    /\ Unmarked(x) => Marker \notin o.objects
    /\ Good(x) => /\ o.objects = 1 .. Export
                  /\ (1 .. Export) \ opened \subseteq o.locked

OutputsFit ==
    \A p \in Exporters :
        OutputFits(exporter[p], out[p], cleaner.target = p, Opened(p))

(* The cleanup goes from one directory to the next when it is empty. *)
CleanerFits ==
    /\ cleaner.stage \in {"idle", "drafts"} =>
          cleaner.target = None /\ cleaner.targets = {}
    /\ \A p \in Exporters :
          p = cleaner.target \/ p \in cleaner.targets
          => exporter[p].stage \notin Dirless
    /\ cleaner.stage = "exports" /\ cleaner.target # None =>
          out[cleaner.target].objects = {}
    /\ cleaner.stage \in {"listing", "removing", "unlinking"} =>
          cleaner.target # None /\ Export \in cleaner.left

Inv ==
    /\ LabTypeOK
    /\ LocksFit
    /\ EditsFit
    /\ ScriptsFit
    /\ OutputsFit
    /\ CleanerFits

-----------------------------------------------------------------------------
(* Records and stages *)

LEMMA PassesAre ==
    /\ {Passes[i] : i \in 1 .. 5} = PassStages
    /\ PassStages \cup {"validating"} \subseteq Stages
    /\ Holding \cup Leasing \cup Dirless \subseteq Stages
<1>1. {Passes[i] : i \in 1 .. 5} = PassStages
  BY DEF Passes, PassStages
<1> QED
  BY <1>1 DEF Stages, Holding, Leasing, Dirless, PassStages, Bundling

LEMMA LaterPasses ==
    {Passes[i] : i \in 2 .. 5} = PassStages \ {"collecting"}
BY DEF Passes, PassStages

LEMMA Snapshots ==
    ASSUME NEW p
    PROVE  Snapshotting(p)
           <=> exporter[p].stage \in PassStages \cup {"validating"}
BY PassesAre DEF Snapshotting

LEMMA ProofsAre ==
    /\ Len(Proofs) = 5
    /\ \A i \in 1 .. 5 : Proofs[i] = IF i \in {2, 4} THEN "published"
                                     ELSE "output"
BY DEF Proofs

(* The fields of a script's record. *)
LEMMA RecordFields ==
    ASSUME NEW x \in ExporterRecords
    PROVE  /\ x.kind \in {"validate", "export"}
           /\ x.stage \in Stages
           /\ x.at \in 1 .. N + 5
           /\ x.seen \in Drafts
           /\ x.before \in 0 .. MaxEdits
           /\ x.base \in 0 .. MaxEdits
           /\ x.bound \in 0 .. MaxEdits
           /\ x.marked \in BOOLEAN
           /\ x.lease \in {"none", "active", "finalized", "revoked", "failed"}
           /\ x.answer \in {"none", "ok", "failed", "unrevoked", "unclosed"}
           /\ x.revocation \in {"none", "done", "failed"}
           /\ x.during \subseteq Drafts
BY DEF ExporterRecords, Drafts

(* x is r at another place in the script. *)
Moved(x, r, stage, at) ==
    /\ x \in ExporterRecords
    /\ x.stage = stage /\ x.at = at
    /\ x.kind = r.kind /\ x.seen = r.seen /\ x.before = r.before
    /\ x.base = r.base /\ x.bound = r.bound /\ x.marked = r.marked
    /\ x.lease = r.lease /\ x.answer = r.answer /\ x.revocation = r.revocation
    /\ x.during = r.during

LEMMA ForgetFields ==
    ASSUME NEW r \in ExporterRecords
    PROVE  LET x == Forget(r) IN
           /\ x \in ExporterRecords
           /\ x.kind = r.kind /\ x.stage = r.stage /\ x.at = r.at
           /\ x.before = r.before /\ x.base = r.base /\ x.bound = r.bound
           /\ x.marked = r.marked /\ x.lease = r.lease
           /\ x.answer = r.answer /\ x.revocation = r.revocation
<1>1. [f \in Names |-> 0] \in [Names -> 0 .. Gone]
  BY LabAssumption DEF Gone
<1> QED
  BY <1>1 DEF Forget, ExporterRecords

(* The objects of an export, and the directories they are in. *)
LEMMA ObjectsAre ==
    /\ Names \cup {Candidate, Patch, Marker, Export} = 1 .. Export
    /\ Candidate \notin Names /\ Patch \notin Names /\ Marker \notin Names
    /\ Export \notin Names /\ Export \notin {Candidate, Patch, Marker}
    /\ Candidate # Patch /\ Candidate # Marker /\ Patch # Marker
    /\ Export \in Nat /\ N \in Nat /\ 1 \in Names
<1>1. N \in Nat \ {0}
  BY LabAssumption
<1>2. ASSUME NEW y
      PROVE  y \in 1 .. N + 4
             <=> y \in 1 .. N \cup {N + 1, N + 2, N + 3, N + 4}
  BY <1>1
<1> QED
  BY <1>1, <1>2 DEF Names, Candidate, Patch, Marker, Export

LEMMA HoldersAre ==
    /\ \A y \in Names : Holder(y) = Candidate
    /\ \A y \in {Candidate, Patch, Marker} : Holder(y) = Export
    /\ Holder(Export) = 0
<1>1. N \in Nat \ {0}
  BY LabAssumption
<1>2. Candidate .. Marker = {Candidate, Patch, Marker}
  BY <1>1 DEF Candidate, Patch, Marker
<1> QED
  BY <1>2, ObjectsAre DEF Holder

(* No object has its own directory in it, and nothing is in a manifest. *)
LEMMA HolderFacts ==
    /\ \A y \in (1 .. Export) \ {Export} :
          Holder(y) \in 1 .. Export /\ Holder(y) # y /\ Holder(y) # Marker
    /\ \A y \in 1 .. Export : Holder(y) # Marker
<1> QED
  BY HoldersAre, ObjectsAre, LabAssumption DEF Marker

LEMMA TreeFacts ==
    ASSUME NEW S \in SUBSET (1 .. Export), Tree(S)
    PROVE  /\ Tree(S \ {Marker})
           /\ Export \notin S => S = {}
<1>1. Tree(S \ {Marker})
  BY HolderFacts DEF Tree
<1>2. ASSUME Export \notin S
      PROVE  S = {}
  <2>1. Candidate \notin S /\ Patch \notin S /\ Marker \notin S
    BY <1>2, HoldersAre, ObjectsAre DEF Tree
  <2>2. \A y \in Names : y \notin S
    BY <2>1, HoldersAre, ObjectsAre DEF Tree
  <2> QED
    BY <1>2, <2>1, <2>2, ObjectsAre
<1> QED
  BY <1>1, <1>2

LEMMA FirstIs ==
    ASSUME NEW S \in SUBSET Nat, S # {}
    PROVE  First(S) \in S /\ \A y \in S : First(S) <= y
<1>1. PICK x \in S : \A y \in S : ~(<<y, x>> \in OpToRel(<, Nat))
  BY NatLessThanWellFounded, WFMin, Zenon
<1>2. \A y \in S : ~(y < x)
  BY <1>1 DEF OpToRel
<1>3. \E z \in S : \A y \in S : z <= y
  BY <1>2
<1> QED
  BY <1>3 DEF First

LEMMA MoveFields ==
    ASSUME NEW r \in ExporterRecords, NEW stage \in Stages,
           NEW at \in 1 .. N + 5
    PROVE  Moved([r EXCEPT !.stage = stage, !.at = at], r, stage, at)
BY DEF Moved, ExporterRecords

LEMMA GoesFields ==
    ASSUME LabTypeOK, NEW p \in Exporters, NEW stage \in Stages,
           Goes(p, stage)
    PROVE  /\ Moved(exporter'[p], exporter[p], stage, 1)
           /\ exporter' = [exporter EXCEPT ![p] = exporter'[p]]
<1>1. exporter[p] \in ExporterRecords /\ 1 \in 1 .. N + 5
  BY LabAssumption DEF LabTypeOK, Marker
<1> DEFINE x == [exporter[p] EXCEPT !.stage = stage, !.at = 1]
<1>2. Moved(x, exporter[p], stage, 1)
  BY <1>1, MoveFields
<1>3. exporter' = [exporter EXCEPT ![p] = x]
  BY DEF Goes
<1> HIDE DEF x
<1> QED
  BY <1>2, <1>3 DEF LabTypeOK

LEMMA ScriptFacts ==
    ASSUME Inv, NEW p \in Exporters
    PROVE  /\ exporter[p] \in ExporterRecords /\ out[p] \in Outputs
           /\ LoopFits(exporter[p]) /\ SnapshotFits(exporter[p])
           /\ KindFits(exporter[p]) /\ BaseFits(exporter[p])
           /\ LeaseFits(exporter[p])
           /\ OutputFits(exporter[p], out[p], cleaner.target = p, Opened(p))
BY DEF Inv, LabTypeOK, ScriptsFit, OutputsFit

(* One script takes a step, others and the draft stay as they are. *)
LEMMA ScriptKeepsInv ==
    ASSUME Inv, NEW p \in Exporters, NEW x \in ExporterRecords,
           NEW o \in Outputs,
           exporter' = [exporter EXCEPT ![p] = x],
           out' = [out EXCEPT ![p] = o],
           UNCHANGED <<draft, published, gateway, cleaner, edits>>,
           crashes' \in 0 .. MaxCrashes,
           \/ lock' = lock
           \/ lock = None /\ lock' = p
           \/ lock = p /\ lock' = None,
           x.stage \in Holding => lock' = p,
           LoopFits(x), SnapshotFits(x), KindFits(x), BaseFits(x),
           LeaseFits(x), OutputFits(x, o, cleaner.target = p, Opened(p)),
           x.stage \in Dirless => exporter[p].stage \in Dirless,
           \/ exporter[p].stage \in Dirless
           \/ out[p].objects = {} => o.objects = {}
    PROVE  Inv'
<1> USE DEF Inv
<1>1. /\ exporter \in [Exporters -> ExporterRecords]
      /\ out \in [Exporters -> Outputs]
  BY DEF LabTypeOK
<1>2. /\ exporter'[p] = x
      /\ \A q \in Exporters \ {p} : exporter'[q] = exporter[q]
      /\ out'[p] = o /\ \A q \in Exporters \ {p} : out'[q] = out[q]
  BY <1>1
<1>3. LabTypeOK'
  BY <1>1 DEF LabTypeOK
<1>4. LocksFit'
  BY <1>2, LabAssumption DEF LocksFit
<1>5. EditsFit'
  BY DEF EditsFit
<1>6. ScriptsFit'
  <2> SUFFICES ASSUME NEW q \in Exporters
               PROVE  (/\ LoopFits(exporter[q]) /\ SnapshotFits(exporter[q])
                       /\ KindFits(exporter[q]) /\ BaseFits(exporter[q])
                       /\ LeaseFits(exporter[q]))'
    BY DEF ScriptsFit
  <2>1. CASE q = p
    BY <1>2, <2>1 DEF LoopFits, SnapshotFits, Existed, KindFits, BaseFits,
       LeaseFits, Compared
  <2>2. CASE q # p
    BY <1>2, <2>2 DEF ScriptsFit, LoopFits, SnapshotFits, Existed, KindFits,
       BaseFits, LeaseFits, Compared
  <2> QED
    BY <2>1, <2>2
<1>7. OutputsFit'
  <2> SUFFICES ASSUME NEW q \in Exporters
               PROVE  OutputFits(exporter[q], out[q], cleaner.target = q,
                                 Opened(q))'
    BY DEF OutputsFit
  <2>1. Opened(q)' = Opened(q)
    BY DEF Opened
  <2>2. OutputFits(exporter'[q], out'[q], cleaner'.target = q, Opened(q)')
    BY <1>2, <2>1 DEF OutputsFit
  <2> HIDE DEF Inv
  <2> QED
    BY <2>2 DEF OutputFits, Unmarked, Good
<1>8. CleanerFits'
  <2>1. cleaner.target \in Exporters \cup {None}
    BY DEF LabTypeOK, CleanerRecords
  <2>2. \A q \in Exporters :
           exporter[q].stage \notin Dirless =>
              /\ exporter'[q].stage \notin Dirless
              /\ out[q].objects = {} => out'[q].objects = {}
    BY <1>2
  <2> QED
    BY <2>1, <2>2 DEF CleanerFits
<1> QED
  BY <1>3, <1>4, <1>5, <1>6, <1>7, <1>8

-----------------------------------------------------------------------------
(* A script: the snapshot *)

LEMMA BeginKeepsInv ==
    ASSUME Inv, NEW p \in Exporters, NEW kind \in {"validate", "export"},
           Begin(p, kind)
    PROVE  Inv'
<1> DEFINE r == exporter[p]
           x == [r EXCEPT !.stage = "locking", !.kind = kind,
                          !.before = published]
<1>1. /\ r \in ExporterRecords /\ out[p] \in Outputs
      /\ published \in 0 .. MaxEdits /\ crashes \in 0 .. MaxCrashes
  BY DEF Inv, LabTypeOK
<1>2. /\ LoopFits(r) /\ KindFits(r) /\ BaseFits(r) /\ LeaseFits(r)
      /\ OutputFits(r, out[p], cleaner.target = p, Opened(p)) /\ r.stage = "idle"
  BY ScriptFacts DEF Begin, At
<1>3. /\ exporter' = [exporter EXCEPT ![p] = x]
      /\ out' = [out EXCEPT ![p] = out[p]]
      /\ UNCHANGED <<draft, published, gateway, cleaner, edits, lock, crashes>>
  BY DEF Begin, Inv, LabTypeOK
<1>4. x \in ExporterRecords
  BY <1>1, PassesAre DEF ExporterRecords, Dirless
<1>5. /\ x.stage = "locking" /\ x.at = r.at /\ x.kind = kind
      /\ x.before = published /\ x.base = r.base /\ x.bound = r.bound
      /\ x.marked = r.marked /\ x.lease = r.lease /\ x.answer = r.answer
      /\ x.revocation = r.revocation
  BY <1>1 DEF ExporterRecords
<1> HIDE DEF x, r
<1>6. LoopFits(x) /\ KindFits(x) /\ LeaseFits(x)
  BY <1>2, <1>5 DEF LoopFits, KindFits, Dirless, LeaseFits, PassStages,
     Bundling,
     Leasing, Holding, Compared
<1>7. BaseFits(x)
  BY <1>1, <1>2, <1>5 DEF BaseFits, LeaseFits, Bundling, Leasing, Compared
<1>8. SnapshotFits(x)
  BY <1>5 DEF SnapshotFits, PassStages, Sealed, Bundling
<1>9. OutputFits(x, out[p], cleaner.target = p, Opened(p))
  BY <1>2, <1>5 DEF OutputFits, Unmarked, Good, LeaseFits, Dirless
<1>10. x.stage \notin Holding
  BY <1>5 DEF Holding, PassStages, Bundling
<1>11. r.stage \in Dirless
  BY <1>2 DEF Dirless
<1> QED
  BY <1>1, <1>3, <1>4, <1>6, <1>7, <1>8, <1>9, <1>10, <1>11, ScriptKeepsInv
     DEF r

LEMMA LockKeepsInv ==
    ASSUME Inv, NEW p \in Exporters, Lock(p)
    PROVE  Inv'
<1> DEFINE r == exporter[p]
           x == [r EXCEPT !.stage = "collecting", !.during = {draft}]
<1>1. /\ r \in ExporterRecords /\ out[p] \in Outputs /\ draft \in Drafts
      /\ crashes \in 0 .. MaxCrashes
  BY DEF Inv, LabTypeOK
<1>2. /\ LoopFits(r) /\ KindFits(r) /\ BaseFits(r) /\ LeaseFits(r)
      /\ OutputFits(r, out[p], cleaner.target = p, Opened(p)) /\ r.stage = "locking"
  BY ScriptFacts DEF Lock, At
<1>3. /\ exporter' = [exporter EXCEPT ![p] = x]
      /\ out' = [out EXCEPT ![p] = out[p]]
      /\ UNCHANGED <<draft, published, gateway, cleaner, edits, crashes>>
      /\ lock = None /\ lock' = p
  BY DEF Lock, Inv, LabTypeOK
<1>4. x \in ExporterRecords
  BY <1>1, PassesAre DEF ExporterRecords, PassStages
<1>5. /\ x.stage = "collecting" /\ x.at = r.at /\ x.kind = r.kind
      /\ x.before = r.before /\ x.base = r.base /\ x.bound = r.bound
      /\ x.marked = r.marked /\ x.lease = r.lease /\ x.answer = r.answer
      /\ x.revocation = r.revocation /\ x.during = {draft}
  BY <1>1 DEF ExporterRecords
<1> HIDE DEF x, r
<1>6. LoopFits(x) /\ KindFits(x) /\ LeaseFits(x)
  BY <1>2, <1>5, LabAssumption DEF LoopFits, KindFits, Dirless, LeaseFits,
     PassStages,
     Bundling, Leasing, Holding, Compared
<1>7. BaseFits(x)
  BY <1>2, <1>5 DEF BaseFits, LeaseFits, Bundling, Leasing, Compared
<1>8. SnapshotFits(x)
  BY <1>2, <1>5 DEF SnapshotFits, LoopFits, PassStages, Sealed, Bundling,
     Names
<1>9. OutputFits(x, out[p], cleaner.target = p, Opened(p))
  BY <1>2, <1>5 DEF OutputFits, Unmarked, Good, LeaseFits, Dirless,
     PassStages
<1>10. r.stage \in Dirless
  BY <1>2 DEF Dirless
<1> QED
  BY <1>1, <1>3, <1>4, <1>6, <1>7, <1>8, <1>9, <1>10, ScriptKeepsInv DEF r

(* A step within the snapshot, the validation or the export, which knows   *)
(* of bases, leases and outputs what it knew before.                       *)
LEMMA MoveKeepsInv ==
    ASSUME Inv, NEW p \in Exporters, NEW x \in ExporterRecords,
           exporter' = [exporter EXCEPT ![p] = x],
           UNCHANGED <<draft, published, out, gateway, cleaner, edits, lock,
                       crashes>>,
           x.kind = exporter[p].kind, x.before = exporter[p].before,
           x.base = exporter[p].base, x.bound = exporter[p].bound,
           x.marked = exporter[p].marked, x.lease = exporter[p].lease,
           x.answer = exporter[p].answer, x.revocation = exporter[p].revocation,
           exporter[p].stage \in Holding, x.stage \in Holding,
           x.stage \notin {"proving", "writing"},
           x.stage \in Dirless => exporter[p].stage \in Dirless,
           x.stage \in Bundling \ {"guarding"} =>
               exporter[p].stage \in Bundling \ {"guarding"},
           x.stage = "guarding" => x.kind = "export",
           x.stage = "releasing" => x.kind = "validate",
           x.stage \in {"preparing", "marking"} =>
               exporter[p].stage \in {"preparing", "marking"},
           x.stage \in PassStages => x.at <= N,
           SnapshotFits(x)
    PROVE  Inv'
<1> DEFINE r == exporter[p]
<1>1. /\ out[p] \in Outputs /\ crashes \in 0 .. MaxCrashes
      /\ out' = [out EXCEPT ![p] = out[p]] /\ lock = p
  BY DEF Inv, LabTypeOK, LocksFit
<1>2. /\ LoopFits(r) /\ KindFits(r) /\ BaseFits(r) /\ LeaseFits(r)
      /\ OutputFits(r, out[p], cleaner.target = p, Opened(p))
  BY ScriptFacts
<1> HIDE DEF r
<1>3. LoopFits(x) /\ KindFits(x) /\ LeaseFits(x)
  BY <1>2 DEF r, LoopFits, KindFits, Dirless, LeaseFits, PassStages, Bundling,
     Leasing,
     Holding, Compared
<1>4. BaseFits(x)
  BY <1>2, <1>3 DEF r, BaseFits, LeaseFits, Leasing, Holding, PassStages,
     Bundling, Compared
<1>5. OutputFits(x, out[p], cleaner.target = p, Opened(p))
  BY <1>2 DEF r, OutputFits, Unmarked, Good
<1> QED
  BY <1>1, <1>3, <1>4, <1>5, ScriptKeepsInv

LEMMA CollectKeepsInv ==
    ASSUME Inv, NEW p \in Exporters, Collect(p)
    PROVE  Inv'
<1> DEFINE r == exporter[p]
           i == r.at
           seen == [r.seen EXCEPT ![i] = draft[i]]
           stage == IF i < N THEN "collecting" ELSE "rescanning"
           at == IF i < N THEN i + 1 ELSE 1
           x == [r EXCEPT !.seen = seen, !.stage = stage, !.at = at]
<1>1. /\ r \in ExporterRecords /\ draft \in Drafts
      /\ exporter \in [Exporters -> ExporterRecords]
  BY DEF Inv, LabTypeOK
<1>2. /\ r.stage = "collecting" /\ LoopFits(r) /\ SnapshotFits(r)
      /\ UNCHANGED <<draft, published, lock, out, gateway, cleaner, edits,
                     crashes>>
  BY ScriptFacts DEF Collect, At
<1>3. i \in Names /\ N \in Nat /\ at \in Names
  BY <1>1, <1>2, RecordFields, LabAssumption
     DEF LoopFits, PassStages, Names
<1>4. seen \in Drafts /\ seen[i] = draft[i]
      /\ \A f \in Names : f # i => seen[f] = r.seen[f]
  BY <1>1, <1>3, RecordFields DEF Drafts
<1>5. exporter' = [exporter EXCEPT ![p] = x]
  <2>1. [r EXCEPT !.seen[i] = draft[i]] = [r EXCEPT !.seen = seen]
    BY <1>1 DEF ExporterRecords
  <2>2. LET next == [r EXCEPT !.seen = seen]
        IN  exporter' = [exporter EXCEPT ![p] =
               IF next.at < N THEN [next EXCEPT !.at = @ + 1]
               ELSE [next EXCEPT !.stage = "rescanning", !.at = 1]]
    BY <2>1 DEF Collect, Reading
  <2>3. [r EXCEPT !.seen = seen].at = i
    BY <1>1 DEF ExporterRecords
  <2>4. CASE i < N
    <3>1. [[r EXCEPT !.seen = seen] EXCEPT !.at = @ + 1] = x
      BY <1>1, <1>2, <2>3, <2>4 DEF ExporterRecords
    <3> QED
      BY <2>2, <2>3, <2>4, <3>1
  <2>5. CASE ~(i < N)
    <3>1. [[r EXCEPT !.seen = seen] EXCEPT !.stage = "rescanning", !.at = 1] = x
      BY <1>1, <2>5 DEF ExporterRecords
    <3> QED
      BY <2>2, <2>3, <2>5, <3>1
  <2> QED
    BY <2>4, <2>5
<1>6. stage \in Stages /\ at \in 1 .. N + 5
  BY <1>3, PassesAre DEF PassStages, Names, Marker
<1> HIDE DEF seen, stage, at
<1>7. x \in ExporterRecords
  BY <1>1, <1>4, <1>6 DEF ExporterRecords, Drafts
<1>8. /\ x.stage = stage /\ x.at = at /\ x.seen = seen
      /\ x.kind = r.kind /\ x.before = r.before /\ x.base = r.base
      /\ x.bound = r.bound /\ x.marked = r.marked /\ x.lease = r.lease
      /\ x.answer = r.answer /\ x.revocation = r.revocation
      /\ x.during = r.during
  BY <1>1 DEF ExporterRecords
<1> HIDE DEF x, r
<1>9. \A f \in Names : f < i => r.seen[f] <= draft[f]
  BY <1>2 DEF SnapshotFits, i
<1>10. \A f \in Names : draft[f] \in Nat
  BY <1>1, LabAssumption DEF Drafts, Gone
<1> HIDE DEF i
<1>11. SnapshotFits(x)
  <2>1. draft \in x.during
    BY <1>2, <1>8 DEF SnapshotFits, PassStages
  <2>2. CASE i < N
    <3>1. stage = "collecting" /\ at = i + 1
      BY <2>2 DEF stage, at
    <3>2. \A f \in Names : f < i + 1 => f < i \/ f = i
      BY <1>3 DEF Names
    <3>3. \A f \in Names : f < at => seen[f] <= draft[f]
      BY <1>3, <1>4, <1>9, <1>10, <3>1, <3>2 DEF Names
    <3> QED
      BY <1>8, <2>1, <3>1, <3>3 DEF SnapshotFits, Sealed, Bundling
  <2>3. CASE ~(i < N)
    <3>1. stage = "rescanning" /\ at = 1
      BY <2>3 DEF stage, at
    <3>2. \A f \in Names : ~(f < 1) /\ (f < i \/ f = i)
      BY <1>3, <2>3 DEF Names
    <3>3. \A f \in Names : seen[f] <= draft[f] /\ draft[f] <= draft[f]
      BY <1>4, <1>9, <1>10, <3>2
    <3>4. Existed(x, draft)
      BY <1>8, <3>1, <3>2, <3>3 DEF Existed
    <3> QED
      BY <1>8, <2>1, <3>1, <3>4 DEF SnapshotFits, Sealed, Bundling
  <2> QED
    BY <2>2, <2>3
<1>12. stage \in {"collecting", "rescanning"} /\ at <= N
  BY <1>3 DEF stage, Names
<1>13. /\ r.stage \in Holding /\ r.stage \in Dirless
       /\ x.stage \in Holding /\ x.stage \notin Bundling
  BY <1>2, <1>8, <1>12 DEF Holding, Dirless, PassStages, Bundling
<1> QED
  BY <1>2, <1>5, <1>7, <1>8, <1>11, <1>12, <1>13, MoveKeepsInv DEF r, Bundling

(* A later pass over the draft goes on, or finds the whole of it unchanged. *)
LEMMA CompareKeepsInv ==
    ASSUME Inv, NEW p \in Exporters, Compare(p)
    PROVE  Inv'
<1> DEFINE r == exporter[p]
           x == exporter'[p]
<1>1. /\ r \in ExporterRecords /\ draft \in Drafts
      /\ exporter \in [Exporters -> ExporterRecords]
  BY DEF Inv, LabTypeOK
<1>2. /\ r.stage \in PassStages \ {"collecting"}
      /\ LoopFits(r) /\ SnapshotFits(r)
      /\ UNCHANGED <<draft, published, lock, out, gateway, cleaner, edits,
                     crashes>>
      /\ Loops(p, N, AfterPass(p)) /\ draft[r.at] = r.seen[r.at]
  BY ScriptFacts, LaterPasses DEF Compare, Unchanged, Reading
<1>3. r.at \in Names /\ N \in Nat
  BY <1>1, <1>2, RecordFields, LabAssumption DEF LoopFits, Names
<1>4. PICK stage \in Stages, at \in 1 .. N + 5 :
         /\ Moved(x, r, stage, at)
         /\ exporter' = [exporter EXCEPT ![p] = x]
         /\ IF r.at < N THEN stage = r.stage /\ at = r.at + 1
            ELSE stage = AfterPass(p) /\ at = 1
  <2>1. CASE r.at < N
    <3>1. exporter' = [exporter EXCEPT ![p] = [r EXCEPT !.at = r.at + 1]]
      BY <1>1, <1>2, <2>1 DEF Loops
    <3>2. r.stage \in Stages /\ r.at + 1 \in 1 .. N + 5
      BY <1>1, <1>3, <2>1, RecordFields DEF Names, Marker
    <3>3. [r EXCEPT !.at = r.at + 1] = [r EXCEPT !.stage = r.stage,
                                                 !.at = r.at + 1]
      BY <1>1 DEF ExporterRecords
    <3>4. Moved([r EXCEPT !.at = r.at + 1], r, r.stage, r.at + 1)
      BY <1>1, <3>2, <3>3, MoveFields
    <3> QED
      BY <1>1, <2>1, <3>1, <3>2, <3>4
  <2>2. CASE ~(r.at < N)
    <3>1. Goes(p, AfterPass(p))
      BY <1>2, <2>2 DEF Loops
    <3>2. AfterPass(p) \in Stages
      BY <1>1, <1>2, RecordFields DEF AfterPass, At, PassStages, Stages, Passes,
         Bundling
    <3>3. 1 \in 1 .. N + 5
      BY <1>3 DEF Marker
    <3> QED
      BY <2>2, <3>1, <3>2, <3>3, GoesFields DEF Inv
  <2> QED
    BY <2>1, <2>2
<1>5. AfterPass(p) = IF r.stage = "rescanning" THEN "pinning"
                     ELSE IF r.stage = "pinning" THEN "validating"
                     ELSE IF r.stage = "confirming" THEN "settling"
                     ELSE IF r.kind = "export" THEN "guarding" ELSE "releasing"
  BY <1>2 DEF AfterPass, At, PassStages
<1> HIDE DEF x, r
<1>6. CASE r.stage = "rescanning"
  <2>1. draft \in x.during /\ x.seen = r.seen /\ x.seen \in Drafts
        /\ x.during \subseteq Drafts
    BY <1>2, <1>4, <1>6, RecordFields DEF SnapshotFits, Moved
  <2>2. PICK d \in x.during : Existed(r, d)
    BY <1>2, <1>4, <1>6 DEF SnapshotFits, Moved
  <2>3. d \in Drafts /\ \A f \in Names : d[f] \in Nat /\ x.seen[f] \in Nat
    BY <2>1, LabAssumption DEF Drafts, Gone
  <2>4. \A f \in Names : f < r.at \/ f = r.at => d[f] = r.seen[f]
    <3>1. d[r.at] = r.seen[r.at]
      BY <1>1, <1>2, <1>3, <2>1, <2>2, <2>3 DEF Existed
    <3> QED
      BY <2>2, <3>1 DEF Existed
  <2>5. CASE r.at < N
    <3>1. x.stage = "rescanning" /\ x.at = r.at + 1
      BY <1>4, <1>6, <2>5 DEF Moved
    <3>2. \A f \in Names : f < r.at + 1 => f < r.at \/ f = r.at
      BY <1>3 DEF Names
    <3>3. Existed(x, d)
      BY <2>1, <2>2, <2>4, <3>1, <3>2 DEF Existed
    <3>4. SnapshotFits(x)
      BY <2>1, <3>1, <3>3 DEF SnapshotFits, Sealed, Bundling
    <3>5. /\ r.stage \in Holding /\ r.stage \in Dirless
          /\ x.stage \in Holding /\ x.stage \notin Bundling /\ x.at <= N
      BY <1>3, <1>6, <2>5, <3>1 DEF Holding, Dirless, PassStages, Bundling,
         Names
    <3> QED
      BY <1>2, <1>4, <3>1, <3>4, <3>5, MoveKeepsInv DEF r, Moved, Bundling
  <2>6. CASE ~(r.at < N)
    <3>1. x.stage = "pinning" /\ x.at = 1
      BY <1>4, <1>5, <1>6, <2>6 DEF Moved
    <3>2. \A f \in Names : f < r.at \/ f = r.at
      BY <1>3, <2>6 DEF Names
    <3>3. x.seen = d
      BY <2>1, <2>3, <2>4, <3>2 DEF Drafts
    <3>4. SnapshotFits(x)
      BY <2>1, <3>1, <3>3 DEF SnapshotFits
    <3>5. /\ r.stage \in Holding /\ r.stage \in Dirless
          /\ x.stage \in Holding /\ x.stage \notin Bundling /\ x.at <= N
      BY <1>3, <1>6, <3>1 DEF Holding, Dirless, PassStages, Bundling, Names
    <3> QED
      BY <1>2, <1>4, <3>1, <3>4, <3>5, MoveKeepsInv DEF r, Moved, Bundling
  <2> QED
    BY <2>5, <2>6
<1>7. CASE r.stage # "rescanning"
  <2>1. r.stage \in {"pinning", "confirming", "settling"}
    BY <1>2, <1>7 DEF PassStages
  <2>2. draft \in x.during /\ x.seen \in x.during
    BY <1>2, <1>4, <2>1 DEF SnapshotFits, Moved, Sealed
  <2>3. /\ x.stage \in {"pinning", "confirming", "settling", "validating",
                        "guarding", "releasing"}
        /\ x.stage = "guarding" => x.kind = "export"
        /\ x.stage = "releasing" => x.kind = "validate"
        /\ x.at <= N
    BY <1>1, <1>3, <1>4, <1>5, <2>1, RecordFields DEF r, Moved, Names
  <2>4. SnapshotFits(x)
    BY <2>2, <2>3 DEF SnapshotFits
  <2>5. /\ r.stage \in Holding /\ r.stage \in Dirless
        /\ x.stage \in Holding
        /\ x.stage \in Bundling => x.stage = "guarding"
    BY <2>1, <2>3 DEF Holding, Dirless, PassStages, Bundling
  <2> QED
    BY <1>2, <1>4, <2>3, <2>4, <2>5, MoveKeepsInv DEF r, Moved
<1> QED
  BY <1>6, <1>7

(* Steps that only go to another stage, with the lock. *)
LEMMA PassingKeepsInv ==
    ASSUME Inv, NEW p \in Exporters,
           Validate(p) \/ Refuse(p) \/ Prepare(p) \/ Break(p)
    PROVE  Inv'
<1> DEFINE r == exporter[p]
           x == exporter'[p]
<1>1. /\ r \in ExporterRecords
      /\ exporter \in [Exporters -> ExporterRecords]
      /\ SnapshotFits(r)
  BY ScriptFacts DEF Inv, LabTypeOK
<1>2. UNCHANGED <<draft, published, lock, out, gateway, cleaner, edits,
                  crashes>>
  BY DEF Validate, Refuse, Prepare, Break
<1>3. CASE Validate(p)
  <2>1. r.stage = "validating" /\ Goes(p, "confirming")
    BY <1>3 DEF Validate, At
  <2>2. /\ Moved(x, r, "confirming", 1)
        /\ exporter' = [exporter EXCEPT ![p] = x]
    BY <2>1, PassesAre, GoesFields DEF Inv, PassStages
  <2> HIDE DEF x
  <2>3. SnapshotFits(x)
    BY <1>1, <2>1, <2>2 DEF SnapshotFits, Moved, Sealed
  <2>4. r.stage \in Holding \cap Dirless
    BY <2>1 DEF Holding, Dirless
  <2>5. 1 <= N
    BY LabAssumption
  <2> QED
    BY <1>2, <2>2, <2>3, <2>4, <2>5, MoveKeepsInv
       DEF Moved, Holding, Dirless, PassStages, Bundling
<1>4. CASE Refuse(p)
  <2>1. r.stage \in PassStages \cup {"validating"} /\ Goes(p, "failing")
    BY <1>4, LaterPasses DEF Refuse, At, PassStages
  <2>2. /\ Moved(x, r, "failing", 1)
        /\ exporter' = [exporter EXCEPT ![p] = x]
    BY <2>1, PassesAre, GoesFields DEF Inv, Holding
  <2> HIDE DEF x
  <2>3. SnapshotFits(x)
    BY <2>2 DEF SnapshotFits, Moved, Sealed, PassStages, Bundling
  <2>4. r.stage \in Holding
    BY <2>1 DEF Holding
  <2> QED
    BY <1>2, <2>2, <2>3, <2>4, MoveKeepsInv
       DEF Moved, Holding, Dirless, PassStages, Bundling
<1>5. CASE Prepare(p)
  <2>1. r.stage = "preparing" /\ Goes(p, "marking")
    BY <1>5 DEF Prepare, At
  <2>2. /\ Moved(x, r, "marking", 1)
        /\ exporter' = [exporter EXCEPT ![p] = x]
    BY <2>1, PassesAre, GoesFields DEF Inv, Holding, Bundling
  <2> HIDE DEF x
  <2>3. SnapshotFits(x)
    BY <1>1, <2>1, <2>2
       DEF SnapshotFits, Moved, Sealed, PassStages, Bundling
  <2> QED
    BY <1>2, <2>1, <2>2, <2>3, MoveKeepsInv
       DEF Moved, Holding, Dirless, PassStages, Bundling
<1>6. CASE Break(p)
  <2>1. r.stage \in Bundling
        /\ exporter' = [exporter EXCEPT ![p].stage = "failing"]
    BY <1>6 DEF Break, At, Bundling
  <2>2. /\ Moved(x, r, "failing", r.at)
        /\ exporter' = [exporter EXCEPT ![p] = x]
    <3>1. [r EXCEPT !.stage = "failing"]
          = [r EXCEPT !.stage = "failing", !.at = r.at]
      BY <1>1 DEF ExporterRecords
    <3>2. r.at \in 1 .. N + 5 /\ "failing" \in Stages
      BY <1>1, RecordFields, PassesAre DEF Holding
    <3>3. Moved([r EXCEPT !.stage = "failing"], r, "failing", r.at)
      BY <1>1, <3>1, <3>2, MoveFields
    <3> QED
      BY <1>1, <2>1, <3>3
  <2> HIDE DEF x
  <2>3. SnapshotFits(x)
    BY <2>2 DEF SnapshotFits, Moved, Sealed, PassStages, Bundling
  <2>4. r.stage \in Holding
    BY <2>1 DEF Holding
  <2> QED
    BY <1>2, <2>2, <2>3, <2>4, MoveKeepsInv
       DEF Moved, Holding, Dirless, PassStages, Bundling
<1> QED
  BY <1>3, <1>4, <1>5, <1>6

LEMMA ReleaseKeepsInv ==
    ASSUME Inv, NEW p \in Exporters, Release(p)
    PROVE  Inv'
<1> DEFINE r == exporter[p]
           x == Forget([r EXCEPT !.stage = "comparing", !.at = 1])
<1>1. /\ r \in ExporterRecords /\ r.stage = "releasing"
      /\ out[p] \in Outputs /\ crashes \in 0 .. MaxCrashes
      /\ out' = [out EXCEPT ![p] = out[p]] /\ lock = p /\ lock' = None
      /\ UNCHANGED <<draft, published, gateway, cleaner, edits, crashes>>
      /\ exporter' = [exporter EXCEPT ![p] = x]
  BY DEF Inv, LabTypeOK, LocksFit, Release, At, Holding
<1>2. /\ KindFits(r) /\ BaseFits(r) /\ LeaseFits(r)
      /\ OutputFits(r, out[p], cleaner.target = p, Opened(p))
  BY ScriptFacts
<1>3. /\ x \in ExporterRecords /\ x.stage = "comparing"
      /\ x.kind = r.kind /\ x.before = r.before /\ x.base = r.base
      /\ x.bound = r.bound /\ x.marked = r.marked /\ x.lease = r.lease
      /\ x.answer = r.answer /\ x.revocation = r.revocation
  <2> DEFINE y == [r EXCEPT !.stage = "comparing", !.at = 1]
  <2>1. 1 \in 1 .. N + 5 /\ "comparing" \in Stages
    BY LabAssumption DEF Stages
  <2>2. Moved(y, r, "comparing", 1)
    BY <1>1, <2>1, MoveFields
  <2>3. x = Forget(y)
    OBVIOUS
  <2> HIDE DEF x, y, r
  <2> QED
    BY <2>2, <2>3, ForgetFields DEF Moved
<1> HIDE DEF x, r
<1>4. LoopFits(x) /\ SnapshotFits(x)
  BY <1>3 DEF LoopFits, SnapshotFits, PassStages, Sealed, Bundling
<1>5. KindFits(x) /\ BaseFits(x) /\ LeaseFits(x)
  BY <1>1, <1>2, <1>3 DEF KindFits, Dirless, BaseFits, LeaseFits,
     Holding, PassStages, Bundling, Leasing, Compared
<1>6. OutputFits(x, out[p], cleaner.target = p, Opened(p))
  BY <1>2, <1>3 DEF OutputFits, Unmarked, Good, Dirless, PassStages
<1>7. x.stage \notin Holding /\ x.stage \notin Dirless
  BY <1>3 DEF Holding, Dirless, PassStages, Bundling
<1> QED
  BY <1>1, <1>3, <1>4, <1>5, <1>6, <1>7, ScriptKeepsInv

-----------------------------------------------------------------------------
(* A script: the export *)

LEMMA GuardKeepsInv ==
    ASSUME Inv, NEW p \in Exporters, Guard(p)
    PROVE  Inv'
<1> DEFINE r == exporter[p]
           x == [r EXCEPT !.stage = "opening", !.base = published]
<1>1. /\ r \in ExporterRecords /\ r.stage = "guarding"
      /\ out[p] \in Outputs /\ crashes \in 0 .. MaxCrashes
      /\ published \in 0 .. MaxEdits
      /\ out' = [out EXCEPT ![p] = out[p]]
      /\ exporter' = [exporter EXCEPT ![p] = x] /\ lock = p
      /\ UNCHANGED <<draft, published, gateway, cleaner, edits, lock, crashes>>
  BY DEF Inv, LabTypeOK, LocksFit, Guard, At, Holding, Bundling
<1>2. /\ KindFits(r) /\ BaseFits(r) /\ LeaseFits(r) /\ SnapshotFits(r)
      /\ OutputFits(r, out[p], cleaner.target = p, Opened(p))
  BY ScriptFacts
<1>3. x \in ExporterRecords
  BY <1>1, PassesAre DEF ExporterRecords, Dirless
<1>4. /\ x.stage = "opening" /\ x.kind = r.kind /\ x.seen = r.seen
      /\ x.before = r.before /\ x.base = published /\ x.bound = r.bound
      /\ x.marked = r.marked /\ x.lease = r.lease /\ x.answer = r.answer
      /\ x.revocation = r.revocation /\ x.during = r.during
  BY <1>1 DEF ExporterRecords
<1> HIDE DEF x, r
<1>5. LoopFits(x) /\ SnapshotFits(x)
  BY <1>1, <1>2, <1>4 DEF LoopFits, SnapshotFits, PassStages, Sealed, Bundling
<1>6. KindFits(x) /\ LeaseFits(x)
  BY <1>1, <1>2, <1>4 DEF KindFits, Dirless, LeaseFits, Holding, PassStages,
     Bundling,
     Leasing, Compared
<1>7. BaseFits(x)
  BY <1>1, <1>2, <1>4 DEF BaseFits, LeaseFits, Holding, Bundling, Leasing,
     Compared
<1>8. OutputFits(x, out[p], cleaner.target = p, Opened(p))
  BY <1>1, <1>2, <1>4 DEF OutputFits, Unmarked, Good, Dirless
<1>9. r.stage \in Dirless
  BY <1>1 DEF Dirless
<1> QED
  BY <1>1, <1>3, <1>5, <1>6, <1>7, <1>8, <1>9, ScriptKeepsInv DEF r

(* A step of the bundle, which writes o. *)
LEMMA BundleKeepsInv ==
    ASSUME Inv, NEW p \in Exporters, NEW x \in ExporterRecords,
           NEW o \in Outputs,
           exporter' = [exporter EXCEPT ![p] = x],
           out' = [out EXCEPT ![p] = o],
           UNCHANGED <<draft, published, gateway, cleaner, edits, lock,
                       crashes>>,
           x.kind = exporter[p].kind, x.before = exporter[p].before,
           x.base = exporter[p].base, x.bound = exporter[p].bound,
           x.lease = exporter[p].lease, x.answer = exporter[p].answer,
           x.revocation = exporter[p].revocation, x.seen = exporter[p].seen,
           x.during = exporter[p].during,
           exporter[p].stage \in Bundling \ {"guarding", "proving"},
           x.stage \in Bundling \ {"guarding", "opening"},
           x.stage = "writing" => x.at <= N + 1,
           x.stage = "proving" => x.at = 1,
           \/ exporter[p].stage \in Dirless
           \/ out[p].objects = {} => o.objects = {},
           OutputFits(x, o, cleaner.target = p, Opened(p))
    PROVE  Inv'
<1> DEFINE r == exporter[p]
<1>1. r \in ExporterRecords /\ crashes \in 0 .. MaxCrashes /\ lock = p
  BY DEF Inv, LabTypeOK, LocksFit, Holding, Bundling
<1>2. /\ KindFits(r) /\ BaseFits(r) /\ LeaseFits(r) /\ SnapshotFits(r)
  BY ScriptFacts
<1> HIDE DEF r
<1>3. LoopFits(x)
  BY ProofsAre DEF LoopFits, PassStages, Bundling
<1>4. SnapshotFits(x)
  BY <1>2 DEF r, SnapshotFits, PassStages, Sealed, Bundling
<1>5. KindFits(x) /\ LeaseFits(x)
  BY <1>2 DEF r, KindFits, Dirless, LeaseFits, Holding, PassStages, Bundling,
     Leasing, Compared
<1>6. BaseFits(x)
  BY <1>2, <1>5 DEF r, BaseFits, LeaseFits, Holding, Bundling, Leasing,
     Compared
<1>7. x.stage \notin Dirless
  BY DEF Dirless, PassStages, Bundling
<1> QED
  BY <1>1, <1>3, <1>4, <1>5, <1>6, <1>7, ScriptKeepsInv

LEMMA OpenKeepsInv ==
    ASSUME Inv, NEW p \in Exporters, Open(p)
    PROVE  Inv'
<1> DEFINE r == exporter[p]
           x == exporter'[p]
           o == [out[p] EXCEPT !.objects = {Export}]
<1>1. /\ r.stage = "opening" /\ out[p] \in Outputs
      /\ out' = [out EXCEPT ![p] = o]
      /\ UNCHANGED <<draft, published, gateway, cleaner, edits, lock, crashes>>
  BY DEF Inv, LabTypeOK, Open, At
<1>2. LeaseFits(r)
  BY ScriptFacts
<1>3. o \in Outputs /\ o.objects = {Export}
  BY <1>1, ObjectsAre DEF Outputs
<1>4. /\ Moved(x, r, "staging", 1)
      /\ exporter' = [exporter EXCEPT ![p] = x]
  BY GoesFields, PassesAre DEF Inv, Open, Holding, Bundling
<1> HIDE DEF x, r, o
<1>5. x.lease = "none" /\ x.revocation = "none" /\ x.answer = "none"
  BY <1>1, <1>2, <1>4 DEF Moved, LeaseFits, Holding, Bundling
<1>6. OutputFits(x, o, cleaner.target = p, Opened(p))
  BY <1>3, <1>4, <1>5, ObjectsAre DEF OutputFits, Tree, Unmarked, Good, Moved,
     Dirless, PassStages
<1>7. r.stage \in Dirless
  BY <1>1 DEF Dirless
<1> QED
  BY <1>1, <1>3, <1>4, <1>6, <1>7, BundleKeepsInv
     DEF r, Moved, Bundling

(* An object is made in its directory. *)
LEMMA MakesFields ==
    ASSUME Inv, NEW p \in Exporters, NEW object \in 1 .. Export,
           Makes(p, object)
    PROVE  \E o \in Outputs :
              /\ out' = [out EXCEPT ![p] = o]
              /\ o.objects = out[p].objects \cup {object}
              /\ Holder(object) \in out[p].objects
              /\ out[p].objects # {}
              /\ Tree(out[p].objects) => Tree(o.objects)
<1> DEFINE o == [out[p] EXCEPT !.objects = @ \cup {object}]
<1>1. out[p] \in Outputs /\ out' = [out EXCEPT ![p] = o]
      /\ Holder(object) \in out[p].objects
  BY DEF Inv, LabTypeOK, Makes
<1>2. o \in Outputs /\ o.objects = out[p].objects \cup {object}
  BY <1>1 DEF Outputs
<1> HIDE DEF o
<1>3. Tree(out[p].objects) => Tree(o.objects)
  BY <1>1, <1>2 DEF Tree
<1> QED
  BY <1>1, <1>2, <1>3

LEMMA StageKeepsInv ==
    ASSUME Inv, NEW p \in Exporters, Stage(p)
    PROVE  Inv'
<1> DEFINE r == exporter[p]
           x == exporter'[p]
<1>1. /\ r.stage = "staging" /\ Makes(p, Candidate)
      /\ UNCHANGED <<draft, published, gateway, cleaner, edits, lock, crashes>>
  BY DEF Stage, At
<1>2. /\ LeaseFits(r) /\ OutputFits(r, out[p], cleaner.target = p, Opened(p))
      /\ N \in Nat \ {0}
  BY ScriptFacts, LabAssumption
<1>3. PICK o \in Outputs :
         /\ out' = [out EXCEPT ![p] = o]
         /\ o.objects = out[p].objects \cup {Candidate}
         /\ out[p].objects # {}
         /\ Tree(out[p].objects) => Tree(o.objects)
  BY <1>1, ObjectsAre, MakesFields
<1>4. /\ Moved(x, r, "writing", 1)
      /\ exporter' = [exporter EXCEPT ![p] = x]
  BY GoesFields, PassesAre DEF Inv, Stage, Holding, Bundling
<1> HIDE DEF x, r
<1>5. x.lease = "none" /\ x.revocation = "none" /\ x.answer = "none"
  BY <1>1, <1>2, <1>4 DEF Moved, LeaseFits, Holding, Bundling
<1>6. OutputFits(x, o, cleaner.target = p, Opened(p))
  <2>1. 1 .. (1 - 1) = {}
    OBVIOUS
  <2>2. ~(cleaner.target = p) /\ Export \in o.objects =>
           (Marker \in o.objects => o.objects = 1 .. Export)
    BY <1>2, <1>3, ObjectsAre DEF OutputFits
  <2> QED
    BY <1>2, <1>3, <1>4, <1>5, <2>1, <2>2 DEF OutputFits, Unmarked, Good,
       Moved, Dirless, PassStages
<1>7. x.stage = "writing" => x.at <= N + 1
  BY <1>2, <1>4 DEF Moved
<1> QED
  BY <1>1, <1>3, <1>4, <1>6, <1>7, BundleKeepsInv DEF r, Moved, Bundling

LEMMA WriteKeepsInv ==
    ASSUME Inv, NEW p \in Exporters, Write(p)
    PROVE  Inv'
<1> DEFINE r == exporter[p]
           x == exporter'[p]
           object == IF r.at \in Names THEN r.at ELSE Patch
<1>1. /\ r.stage = "writing" /\ Makes(p, object)
      /\ r \in ExporterRecords /\ exporter \in [Exporters -> ExporterRecords]
      /\ Loops(p, N + 1, "preparing")
      /\ UNCHANGED <<draft, published, gateway, cleaner, edits, lock, crashes>>
  BY DEF Inv, LabTypeOK, Write, At
<1>2. /\ LoopFits(r) /\ LeaseFits(r)
      /\ OutputFits(r, out[p], cleaner.target = p, Opened(p))
  BY ScriptFacts
<1>3. /\ r.at \in 1 .. N + 1 /\ N \in Nat \ {0}
      /\ r.at < N + 1 => r.at \in Names
      /\ object \in Names \cup {Patch}
      /\ ~(r.at < N + 1) => object = Patch /\ r.at - 1 = N
  <2>1. r.at \in 1 .. N + 5 /\ r.at <= N + 1 /\ N \in Nat \ {0}
    BY <1>1, <1>2, RecordFields, LabAssumption DEF LoopFits
  <2>2. /\ r.at \in 1 .. N + 1 /\ r.at < N + 1 => r.at \in Names
        /\ ~(r.at < N + 1) => r.at \notin Names /\ r.at - 1 = N
    BY <2>1 DEF Names
  <2> QED
    BY <2>1, <2>2
<1>4. PICK o \in Outputs :
         /\ out' = [out EXCEPT ![p] = o]
         /\ o.objects = out[p].objects \cup {object}
         /\ Holder(object) \in out[p].objects
         /\ out[p].objects # {}
         /\ Tree(out[p].objects) => Tree(o.objects)
  BY <1>1, <1>3, ObjectsAre, MakesFields
<1>5. PICK stage \in Stages, at \in 1 .. N + 5 :
         /\ Moved(x, r, stage, at)
         /\ exporter' = [exporter EXCEPT ![p] = x]
         /\ IF r.at < N + 1 THEN stage = "writing" /\ at = r.at + 1
            ELSE stage = "preparing" /\ at = 1
  <2>1. CASE r.at < N + 1
    <3>1. exporter' = [exporter EXCEPT ![p] = [r EXCEPT !.at = r.at + 1]]
      BY <1>1, <2>1 DEF Loops
    <3>2. r.stage \in Stages /\ r.at + 1 \in 1 .. N + 5
      BY <1>1, <1>3, <2>1, RecordFields
    <3>3. [r EXCEPT !.at = r.at + 1] = [r EXCEPT !.stage = r.stage,
                                                 !.at = r.at + 1]
      BY <1>1 DEF ExporterRecords
    <3>4. Moved([r EXCEPT !.at = r.at + 1], r, r.stage, r.at + 1)
      BY <1>1, <3>2, <3>3, MoveFields
    <3> HIDE DEF object
    <3> QED
      BY <1>1, <2>1, <3>1, <3>2, <3>4
  <2>2. CASE ~(r.at < N + 1)
    <3>1. Goes(p, "preparing")
      BY <1>1, <2>2 DEF Loops
    <3>2. "preparing" \in Stages
      BY PassesAre DEF Holding, Bundling
    <3>3. 1 \in 1 .. N + 5
      BY <1>3
    <3> HIDE DEF object
    <3> QED
      BY <2>2, <3>1, <3>2, <3>3, GoesFields DEF Inv
  <2> QED
    BY <2>1, <2>2
<1>6. r.at < N + 1 => object = r.at
  BY <1>3
<1> HIDE DEF x, r, object
<1>7. x.lease = "none" /\ x.revocation = "none" /\ x.answer = "none"
  BY <1>1, <1>2, <1>5 DEF Moved, LeaseFits, Holding, Bundling
<1>8. /\ x.stage = "writing" \/ x.stage = "preparing"
      /\ x.stage = "writing" => x.at = r.at + 1 /\ r.at < N + 1
      /\ x.stage = "preparing" => ~(r.at < N + 1)
  BY <1>5 DEF Moved
<1>9. ASSUME cleaner.target # p, Export \in o.objects
      PROVE  /\ x.stage = "writing" =>
                   1 .. (x.at - 1) \cup {Candidate} \subseteq o.objects
             /\ x.stage = "preparing" =>
                   (1 .. Export) \ {Marker} \subseteq o.objects
             /\ Marker \in o.objects => o.objects = 1 .. Export
  <2>1. Export \in out[p].objects /\ object # Marker
    BY <1>3, <1>4, <1>9, ObjectsAre
  <2>2. 1 .. (r.at - 1) \cup {Candidate} \subseteq out[p].objects
    BY <1>1, <1>2, <1>9, <2>1 DEF OutputFits
  <2>3. Marker \in o.objects => o.objects = 1 .. Export
    BY <1>2, <1>3, <1>4, <1>9, <2>1, ObjectsAre DEF OutputFits
  <2>4. CASE x.stage = "writing"
    <3>1. 1 .. (x.at - 1) = 1 .. (r.at - 1) \cup {r.at}
      BY <1>3, <1>8, <2>4
    <3> QED
      BY <1>4, <1>6, <1>8, <2>2, <2>3, <2>4, <3>1
  <2>5. CASE x.stage = "preparing"
    <3>1. 1 .. (r.at - 1) = Names /\ object = Patch
      BY <1>3, <1>8, <2>5 DEF Names
    <3> QED
      BY <1>4, <2>1, <2>2, <2>3, <2>5, <3>1, ObjectsAre
  <2> QED
    BY <1>8, <2>4, <2>5
<1>10. OutputFits(x, o, cleaner.target = p, Opened(p))
  BY <1>2, <1>4, <1>7, <1>8, <1>9 DEF OutputFits, Unmarked, Good, Dirless,
     PassStages
<1>11. x.stage = "writing" => x.at <= N + 1
  BY <1>3, <1>8
<1> QED
  BY <1>1, <1>4, <1>5, <1>8, <1>10, <1>11, BundleKeepsInv
     DEF r, Moved, Bundling

LEMMA LinkKeepsInv ==
    ASSUME Inv, NEW p \in Exporters, Link(p)
    PROVE  Inv'
<1> DEFINE r == exporter[p]
           x == exporter'[p]
<1>1. /\ r.stage = "marking" /\ Makes(p, Marker)
      /\ UNCHANGED <<draft, published, gateway, cleaner, edits, lock, crashes>>
  BY DEF Link, At
<1>2. /\ LeaseFits(r) /\ OutputFits(r, out[p], cleaner.target = p, Opened(p))
  BY ScriptFacts
<1>3. PICK o \in Outputs :
         /\ out' = [out EXCEPT ![p] = o]
         /\ o.objects = out[p].objects \cup {Marker}
         /\ out[p].objects # {}
         /\ Tree(out[p].objects) => Tree(o.objects)
  BY <1>1, ObjectsAre, MakesFields
<1>4. /\ Moved(x, r, "linking", 1)
      /\ exporter' = [exporter EXCEPT ![p] = x]
  BY GoesFields, PassesAre DEF Inv, Link, Holding, Bundling
<1> HIDE DEF x, r
<1>5. x.lease = "none" /\ x.revocation = "none" /\ x.answer = "none"
  BY <1>1, <1>2, <1>4 DEF Moved, LeaseFits, Holding, Bundling
<1>6. OutputFits(x, o, cleaner.target = p, Opened(p))
  <2>1. ~(cleaner.target = p) /\ Export \in o.objects =>
           o.objects = 1 .. Export
    <3>1. o.objects \subseteq 1 .. Export /\ Marker \in 1 .. Export
      BY ObjectsAre DEF Outputs
    <3> QED
      BY <1>1, <1>2, <1>3, <3>1, ObjectsAre DEF OutputFits
  <2> QED
    BY <1>2, <1>3, <1>4, <1>5, <2>1 DEF OutputFits, Unmarked, Good,
       Moved, Dirless, PassStages
<1> QED
  BY <1>1, <1>3, <1>4, <1>6, BundleKeepsInv DEF r, Moved, Bundling

LEMMA MarkKeepsInv ==
    ASSUME Inv, NEW p \in Exporters, Mark(p)
    PROVE  Inv'
<1> DEFINE r == exporter[p]
           x == [r EXCEPT !.stage = "hardening", !.marked = TRUE]
<1>1. /\ r.stage = "linking" /\ out[p] \in Outputs
      /\ r \in ExporterRecords
      /\ exporter' = [exporter EXCEPT ![p] = x]
      /\ out' = [out EXCEPT ![p] = out[p]]
      /\ UNCHANGED <<draft, published, gateway, cleaner, edits, lock, crashes>>
  BY DEF Inv, LabTypeOK, Mark, At
<1>2. /\ LeaseFits(r) /\ OutputFits(r, out[p], cleaner.target = p, Opened(p))
  BY ScriptFacts
<1>3. /\ x \in ExporterRecords /\ x.stage = "hardening" /\ x.marked
      /\ x.kind = r.kind /\ x.seen = r.seen /\ x.before = r.before
      /\ x.base = r.base /\ x.bound = r.bound /\ x.lease = r.lease
      /\ x.answer = r.answer /\ x.revocation = r.revocation
      /\ x.during = r.during
  BY <1>1, PassesAre DEF ExporterRecords, Holding, Bundling
<1> HIDE DEF x, r
<1>4. r.lease = "none" /\ r.revocation = "none" /\ r.answer = "none"
  BY <1>1, <1>2 DEF LeaseFits, Holding, Bundling
<1>5. OutputFits(x, out[p], cleaner.target = p, Opened(p))
  BY <1>2, <1>3, <1>4 DEF OutputFits, Unmarked, Good, Dirless, PassStages
<1> QED
  BY <1>1, <1>3, <1>5, BundleKeepsInv DEF r, Bundling

LEMMA HardenKeepsInv ==
    ASSUME Inv, NEW p \in Exporters, Harden(p)
    PROVE  Inv'
<1> DEFINE r == exporter[p]
           x == exporter'[p]
<1>1. /\ r.stage \in {"hardening", "closing", "sealing"}
      /\ out[p] \in Outputs
      /\ UNCHANGED <<draft, published, gateway, cleaner, edits, lock, crashes>>
  BY DEF Inv, LabTypeOK, Harden, At
<1>2. /\ LeaseFits(r) /\ OutputFits(r, out[p], cleaner.target = p, Opened(p))
  BY ScriptFacts
<1>3. PICK stage \in {"closing", "sealing", "proving"},
           objects \in {Names \cup {Patch, Marker}, {Candidate}, {Export}} :
         Goes(p, stage) /\ Locks(p, objects)
  BY DEF Harden
<1> DEFINE o == [out[p] EXCEPT !.locked =
                    @ \cup (objects \cap out[p].objects)]
<1>4. /\ o \in Outputs /\ o.objects = out[p].objects
      /\ out' = [out EXCEPT ![p] = o]
  BY <1>1, <1>3 DEF Outputs, Inv, LabTypeOK, Locks
<1>5. stage \in Stages
  BY PassesAre DEF Holding, Bundling
<1>6. /\ Moved(x, r, stage, 1)
      /\ exporter' = [exporter EXCEPT ![p] = x]
  BY <1>3, <1>5, GoesFields DEF Inv
<1> HIDE DEF x, r, o
<1>7. x.lease = "none" /\ x.revocation = "none" /\ x.answer = "none"
  BY <1>1, <1>2, <1>6 DEF Moved, LeaseFits, Holding, Bundling
<1>8. OutputFits(x, o, cleaner.target = p, Opened(p))
  BY <1>2, <1>4, <1>6, <1>7 DEF OutputFits, Unmarked, Good, Moved, Dirless,
     PassStages
<1> QED
  BY <1>1, <1>4, <1>6, <1>8, BundleKeepsInv DEF r, Moved, Bundling

LEMMA ProveKeepsInv ==
    ASSUME Inv, NEW p \in Exporters, Prove(p)
    PROVE  Inv'
<1> DEFINE r == exporter[p]
           i == r.at
<1>1. /\ r.stage = "proving" /\ out[p] \in Outputs /\ r \in ExporterRecords
      /\ published \in 0 .. MaxEdits /\ crashes \in 0 .. MaxCrashes
      /\ out' = [out EXCEPT ![p] = out[p]] /\ lock = p
      /\ UNCHANGED <<draft, published, gateway, cleaner, edits, crashes>>
  BY DEF Inv, LabTypeOK, LocksFit, Prove, At, Holding, Bundling
<1>2. /\ LoopFits(r) /\ SnapshotFits(r) /\ KindFits(r) /\ BaseFits(r)
      /\ LeaseFits(r) /\ OutputFits(r, out[p], cleaner.target = p, Opened(p))
  BY ScriptFacts
<1>3. i \in 1 .. 5
  BY <1>1, <1>2, RecordFields, ProofsAre DEF LoopFits
<1>4. i \in {2, 4} => published = r.base
  BY <1>3, ProofsAre DEF Prove, Proved, Held
<1>5. r.lease = "none" /\ r.revocation = "none" /\ r.answer = "none"
      /\ r.kind = "export"
  BY <1>1, <1>2 DEF LeaseFits, KindFits, Holding, Bundling
<1>6. CASE i < 5
  <2> DEFINE bound == IF i = 3 THEN published ELSE r.bound
             x == [r EXCEPT !.at = i + 1, !.bound = bound]
  <2>1. exporter' = [exporter EXCEPT ![p] = x] /\ lock' = lock
    BY <1>6, ProofsAre DEF Prove
  <2>2. bound \in 0 .. MaxEdits /\ i + 1 \in 1 .. N + 5
    BY <1>1, <1>3, <1>6, RecordFields, LabAssumption
  <2> HIDE DEF bound, i
  <2>3. /\ x \in ExporterRecords /\ x.stage = r.stage /\ x.at = i + 1
        /\ x.marked = r.marked
        /\ x.kind = r.kind /\ x.seen = r.seen /\ x.before = r.before
        /\ x.base = r.base /\ x.bound = bound /\ x.lease = r.lease
        /\ x.answer = r.answer /\ x.revocation = r.revocation /\ x.during = r.during
    BY <1>1, <2>2 DEF ExporterRecords
  <2> HIDE DEF x, r
  <2>4. LoopFits(x)
    BY <1>1, <1>3, <1>6, <2>3, ProofsAre DEF LoopFits, PassStages
  <2>5. SnapshotFits(x) /\ KindFits(x) /\ LeaseFits(x)
    BY <1>1, <1>2, <2>3 DEF SnapshotFits, KindFits, Dirless, LeaseFits,
       PassStages,
       Holding, Sealed, Bundling, Leasing, Compared
  <2>6. BaseFits(x)
    <3>1. r.base \in Nat /\ published \in Nat /\ r.base <= published
      BY <1>1, <1>2, RecordFields DEF BaseFits
    <3>2. i + 1 = 4 => bound = published
      BY <1>3 DEF bound
    <3>3. i + 1 = 5 => bound = r.base
      <4>1. i + 1 = 5 => i = 4 /\ bound = r.bound /\ published = r.base
        BY <1>3, <1>4 DEF bound
      <4>2. i = 4 => r.base <= r.bound /\ r.bound <= published
        BY <1>1, <1>2 DEF BaseFits, i, r
      <4>3. r.bound \in Nat
        BY <1>1, RecordFields
      <4> QED
        BY <3>1, <4>1, <4>2, <4>3
    <3> QED
      BY <1>1, <1>2, <1>5, <2>3, <3>1, <3>2, <3>3
         DEF BaseFits, Bundling, Leasing, Compared
  <2>7. OutputFits(x, out[p], cleaner.target = p, Opened(p))
    BY <1>1, <1>2, <2>3 DEF OutputFits, Unmarked, Good, Dirless, PassStages
  <2>8. x.stage \notin Dirless
    BY <1>1, <2>3 DEF Dirless, PassStages
  <2> QED
    BY <1>1, <2>1, <2>3, <2>4, <2>5, <2>6, <2>7, <2>8, ScriptKeepsInv
<1>7. CASE i = 5
  <2> DEFINE y == [r EXCEPT !.stage = "checking", !.at = 1, !.lease = "active"]
             x == Forget(y)
  <2>1. exporter' = [exporter EXCEPT ![p] = x] /\ lock' = None
    <3>1. ~(exporter[p].at < Len(Proofs))
      BY <1>7, ProofsAre
    <3> QED
      BY <3>1 DEF Prove
  <2>2. r.bound = r.base
    BY <1>1, <1>2, <1>7 DEF BaseFits
  <2>3. /\ y \in ExporterRecords /\ y.stage = "checking"
        /\ y.marked = r.marked
        /\ y.kind = r.kind /\ y.before = r.before
        /\ y.base = r.base /\ y.bound = r.bound /\ y.lease = "active"
        /\ y.answer = r.answer /\ y.revocation = r.revocation
    <3>1. 1 \in 1 .. N + 5 /\ "checking" \in Stages
      BY LabAssumption, PassesAre DEF Leasing
    <3> QED
      BY <1>1, <3>1 DEF ExporterRecords
  <2> HIDE DEF y
  <2>4. /\ x \in ExporterRecords /\ x.stage = "checking"
        /\ x.marked = r.marked
        /\ x.kind = r.kind /\ x.before = r.before
        /\ x.base = r.base /\ x.bound = r.bound /\ x.lease = "active"
        /\ x.answer = r.answer /\ x.revocation = r.revocation
    BY <2>3, ForgetFields
  <2> HIDE DEF x, r, i
  <2>5. LoopFits(x) /\ SnapshotFits(x)
    BY <2>4 DEF LoopFits, SnapshotFits, PassStages, Sealed, Bundling
  <2>6. KindFits(x) /\ LeaseFits(x)
    BY <1>2, <1>5, <2>4 DEF KindFits, Dirless, LeaseFits, PassStages,
       Holding, Bundling, Leasing, Compared
  <2>7. BaseFits(x)
    BY <1>1, <1>2, <1>5, <2>2, <2>4
       DEF BaseFits, Bundling, Leasing, Compared
  <2>8. OutputFits(x, out[p], cleaner.target = p, Opened(p))
    BY <1>2, <1>5, <2>4 DEF OutputFits, Unmarked, Good, Dirless, PassStages
  <2>9. x.stage \notin Holding \cup Dirless
    BY <2>4 DEF Holding, Dirless, PassStages, Bundling
  <2> QED
    BY <1>1, <2>1, <2>4, <2>5, <2>6, <2>7, <2>8, <2>9, ScriptKeepsInv
<1> QED
  BY <1>3, <1>6, <1>7

(* What a removal of the manifest, or one that fails, does to the export. *)
LEMMA DiscardFields ==
    ASSUME Inv, NEW p \in Exporters,
           out' \in Disturbed(p) \/ out' = Discarded(p)
    PROVE  \E o \in Outputs :
              /\ out' = [out EXCEPT ![p] = o]
              /\ o.objects \in {out[p].objects, out[p].objects \ {Marker}}
              /\ out' = Discarded(p) => Marker \notin o.objects
<1>1. out[p] \in Outputs /\ out = [out EXCEPT ![p] = out[p]]
  BY DEF Inv, LabTypeOK
<1> DEFINE o == [out[p] EXCEPT !.objects = @ \ {Marker},
                               !.locked = (@ \ {Marker}) \cup {Export}]
           w == [out[p] EXCEPT !.locked = @ \ {Export}]
<1>2. /\ o \in Outputs /\ o.objects = out[p].objects \ {Marker}
      /\ w \in Outputs /\ w.objects = out[p].objects
  BY <1>1, ObjectsAre DEF Outputs
<1>3. CASE out' = Discarded(p)
  <2>1. CASE Discardable(p)
    <3>1. out' = [out EXCEPT ![p] = o]
      BY <1>3, <2>1 DEF Discarded
    <3> HIDE DEF o, w
    <3> QED
      BY <1>2, <3>1
  <2>2. CASE ~Discardable(p)
    <3>1. out' = [out EXCEPT ![p] = out[p]] /\ Marker \notin out[p].objects
      BY <1>1, <1>3, <2>2 DEF Discarded, Discardable
    <3> HIDE DEF o, w
    <3> QED
      BY <1>1, <3>1
  <2> QED
    BY <2>1, <2>2
<1>4. CASE out' # Discarded(p)
  <2>1. \/ out' = [out EXCEPT ![p] = out[p]]
        \/ out' = [out EXCEPT ![p] = w]
    BY <1>1, <1>4 DEF Disturbed
  <2> HIDE DEF o, w
  <2> QED
    BY <1>1, <1>2, <1>4, <2>1
<1> QED
  BY <1>3, <1>4

(* What is known of the objects stays when there is no manifest any more.  *)
LEMMA ShrunkFits ==
    ASSUME NEW x, NEW r, NEW near, NEW opened, NEW o \in Outputs,
           NEW q \in Outputs, OutputFits(r, q, near, opened),
           o.objects \in {q.objects, q.objects \ {Marker}},
           x.stage \notin Dirless \cup Bundling,
           Unmarked(x) => Marker \notin o.objects,
           Good(x) => /\ o.objects = 1 .. Export
                      /\ (1 .. Export) \ opened \subseteq o.locked
    PROVE  OutputFits(x, o, near, opened)
<1>1. Tree(o.objects)
  BY TreeFacts DEF OutputFits, Outputs
<1>2. ~near /\ Export \in o.objects /\ Marker \in o.objects
      => o.objects = 1 .. Export
  BY DEF OutputFits
<1> QED
  BY <1>1, <1>2 DEF OutputFits, Bundling

LEMMA FailKeepsInv ==
    ASSUME Inv, NEW p \in Exporters, Fail(p)
    PROVE  Inv'
<1> DEFINE r == exporter[p]
<1>1. /\ r \in ExporterRecords /\ r.stage = "failing"
      /\ out[p] \in Outputs /\ out = [out EXCEPT ![p] = out[p]]
      /\ crashes \in 0 .. MaxCrashes /\ lock = p /\ lock' = None
      /\ UNCHANGED <<draft, published, gateway, cleaner, edits, crashes>>
  BY DEF Inv, LabTypeOK, LocksFit, Fail, At, Holding
<1>2. /\ KindFits(r) /\ BaseFits(r) /\ LeaseFits(r)
      /\ OutputFits(r, out[p], cleaner.target = p, Opened(p))
  BY ScriptFacts
<1>3. PICK answer \in {"failed", "unrevoked"}, o \in Outputs :
         /\ Fails(p, answer)
         /\ out' = [out EXCEPT ![p] = o]
         /\ o.objects \in {out[p].objects, out[p].objects \ {Marker}}
         /\ answer = "failed" /\ r.marked => Marker \notin o.objects
  <2>1. CASE ~r.marked /\ out' = out /\ Fails(p, "failed")
    BY <1>1, <2>1
  <2>2. CASE out' = Discarded(p) /\ Fails(p, "failed")
    BY <2>2, DiscardFields
  <2>3. CASE out' \in Disturbed(p) /\ Fails(p, "unrevoked")
    BY <2>3, DiscardFields
  <2> QED
    BY <2>1, <2>2, <2>3 DEF Fail
<1> DEFINE y == [r EXCEPT !.stage = "over", !.answer = answer]
           x == Forget(y)
<1>4. exporter' = [exporter EXCEPT ![p] = x]
  BY <1>3 DEF Fails
<1>5. /\ y \in ExporterRecords /\ y.stage = "over" /\ y.marked = r.marked
      /\ y.kind = r.kind /\ y.before = r.before /\ y.base = r.base
      /\ y.bound = r.bound /\ y.lease = r.lease /\ y.answer = answer
      /\ y.revocation = r.revocation
  BY <1>1 DEF ExporterRecords, Stages
<1> HIDE DEF y
<1>6. /\ x \in ExporterRecords /\ x.stage = "over" /\ x.marked = r.marked
      /\ x.kind = r.kind /\ x.before = r.before /\ x.base = r.base
      /\ x.bound = r.bound /\ x.lease = r.lease /\ x.answer = answer
      /\ x.revocation = r.revocation
  BY <1>5, ForgetFields
<1> HIDE DEF x, r
<1>7. LoopFits(x) /\ SnapshotFits(x)
  BY <1>6 DEF LoopFits, SnapshotFits, PassStages, Sealed, Bundling
<1>8. KindFits(x) /\ LeaseFits(x)
  BY <1>1, <1>2, <1>6 DEF KindFits, Dirless, LeaseFits, PassStages, Holding,
     Bundling, Leasing, Compared
<1>9. BaseFits(x)
  BY <1>1, <1>2, <1>3, <1>6 DEF BaseFits, Bundling, Leasing, Compared
<1>10. x.stage \notin Holding \cup Dirless \cup Bundling
  BY <1>6 DEF Holding, Dirless, PassStages, Bundling
<1>11. OutputFits(x, o, cleaner.target = p, Opened(p))
  <2>1. Unmarked(x) => Marker \notin o.objects
    BY <1>1, <1>2, <1>3, <1>6 DEF Unmarked, LeaseFits, Holding
  <2>2. ~Good(x)
    BY <1>3, <1>6 DEF Good
  <2> QED
    BY <1>1, <1>2, <1>3, <1>10, <2>1, <2>2, ShrunkFits
<1>12. out[p].objects = {} => o.objects = {}
  BY <1>3
<1> QED
  BY <1>1, <1>3, <1>4, <1>6, <1>7, <1>8, <1>9, <1>10, <1>11, <1>12,
     ScriptKeepsInv

-----------------------------------------------------------------------------
(* A script: the lease of the receipt *)

(* A step without the lock, which writes o. *)
LEMMA LeaseKeepsInv ==
    ASSUME Inv, NEW p \in Exporters, NEW x \in ExporterRecords,
           NEW o \in Outputs,
           exporter' = [exporter EXCEPT ![p] = x],
           out' = [out EXCEPT ![p] = o],
           UNCHANGED <<draft, published, gateway, cleaner, edits, lock,
                       crashes>>,
           x.kind = exporter[p].kind, x.before = exporter[p].before,
           x.base = exporter[p].base, x.bound = exporter[p].bound,
           x.marked = exporter[p].marked,
           exporter[p].stage \notin Dirless,
           x.stage \notin Holding \cup Dirless,
           x.lease # "none" => exporter[p].lease # "none",
           Compared(x) =>
               /\ Compared(exporter[p])
               /\ x.lease \in {"active", "revoked", "failed"},
           x.stage = "revoking" \/ x.stage = "finalizing" => x.kind = "export",
           x.stage = "finalizing" => x.base = x.before,
           x.answer # "none" => x.stage = "over",
           x.kind = "export" /\ x.answer = "ok" => x.base = x.before,
           x.revocation # "none" => x.lease # "none",
           o.objects \in {out[p].objects, out[p].objects \ {Marker}},
           Unmarked(x) => Marker \notin o.objects,
           Good(x) => /\ o.objects = 1 .. Export
                      /\ (1 .. Export) \ Opened(p) \subseteq o.locked
    PROVE  Inv'
<1> DEFINE r == exporter[p]
<1>1. /\ r \in ExporterRecords /\ crashes \in 0 .. MaxCrashes
      /\ out[p] \in Outputs
  BY DEF Inv, LabTypeOK
<1>2. /\ KindFits(r) /\ BaseFits(r) /\ LeaseFits(r)
      /\ OutputFits(r, out[p], cleaner.target = p, Opened(p))
  BY ScriptFacts
<1> HIDE DEF r
<1>3. LoopFits(x) /\ SnapshotFits(x)
  BY DEF LoopFits, SnapshotFits, Holding, Dirless, PassStages, Sealed, Bundling
<1>4. KindFits(x)
  BY <1>2 DEF r, KindFits, Holding, Leasing, Compared
<1>5. LeaseFits(x)
  BY <1>2 DEF r, LeaseFits, Dirless, Compared, Leasing
<1>6. BaseFits(x)
  BY <1>2 DEF r, BaseFits, Holding, Bundling, Compared
<1>7. OutputFits(x, o, cleaner.target = p, Opened(p))
  BY <1>1, <1>2, ShrunkFits DEF Holding
<1> QED
  BY <1>1, <1>3, <1>4, <1>5, <1>6, <1>7, ScriptKeepsInv

LEMMA CheckPatchKeepsInv ==
    ASSUME Inv, NEW p \in Exporters, CheckPatch(p)
    PROVE  Inv'
<1> DEFINE r == exporter[p]
           x == exporter'[p]
<1>1. /\ r.stage = "checking" /\ out[p] \in Outputs
      /\ out' = [out EXCEPT ![p] = out[p]]
      /\ UNCHANGED <<draft, published, gateway, cleaner, edits, lock, crashes>>
  BY DEF Inv, LabTypeOK, CheckPatch, At
<1>2. /\ KindFits(r) /\ LeaseFits(r)
      /\ OutputFits(r, out[p], cleaner.target = p, Opened(p))
  BY ScriptFacts
<1>3. PICK stage \in {"comparing", "revoking"} : Goes(p, stage)
  BY DEF CheckPatch
<1>4. /\ Moved(x, r, stage, 1)
      /\ exporter' = [exporter EXCEPT ![p] = x]
  BY <1>3, GoesFields DEF Inv, Stages
<1> HIDE DEF x, r
<1>5. /\ Compared(r) /\ r.kind = "export" /\ r.answer = "none"
      /\ r.lease \in {"active", "revoked", "failed"}
  BY <1>1, <1>2 DEF Compared, KindFits, LeaseFits, Leasing
<1>6. /\ r.stage \notin Dirless /\ x.stage \notin Holding \cup Dirless
      /\ x.stage # "finalizing"
  BY <1>1, <1>4 DEF Moved, Holding, Dirless, PassStages, Bundling
<1>7. (Unmarked(x) => Marker \notin out[p].objects) /\ ~Good(x)
  BY <1>2, <1>4, <1>5 DEF OutputFits, Unmarked, Good, Moved
<1> QED
  BY <1>1, <1>4, <1>5, <1>6, <1>7, LeaseKeepsInv DEF r, Moved

LEMMA CompareIntegrityKeepsInv ==
    ASSUME Inv, NEW p \in Exporters, CompareIntegrity(p)
    PROVE  Inv'
<1> DEFINE r == exporter[p]
<1>1. /\ r.stage = "comparing" /\ out[p] \in Outputs /\ r \in ExporterRecords
      /\ out' = [out EXCEPT ![p] = out[p]] /\ published \in 0 .. MaxEdits
      /\ UNCHANGED <<draft, published, gateway, cleaner, edits, lock, crashes>>
  BY DEF Inv, LabTypeOK, CompareIntegrity, At
<1>2. /\ KindFits(r) /\ LeaseFits(r) /\ BaseFits(r)
      /\ OutputFits(r, out[p], cleaner.target = p, Opened(p))
  BY ScriptFacts
<1>3. r.answer = "none" /\ r.stage \notin Dirless
  BY <1>1, <1>2 DEF LeaseFits, Dirless, PassStages
<1>4. r.revocation # "none" => r.lease # "none"
  BY <1>2 DEF LeaseFits
<1>5. PICK intact \in BOOLEAN :
         /\ intact => published = r.before
         /\ IF r.kind = "export"
            THEN Goes(p, IF intact THEN "finalizing" ELSE "revoking")
            ELSE Answers(p, IF intact THEN "ok" ELSE "failed")
  BY DEF CompareIntegrity
<1>6. CASE r.kind = "export"
  <2> DEFINE x == exporter'[p]
             stage == IF intact THEN "finalizing" ELSE "revoking"
  <2>1. Goes(p, stage)
    BY <1>5, <1>6
  <2>2. /\ Moved(x, r, stage, 1)
        /\ exporter' = [exporter EXCEPT ![p] = x]
    BY <2>1, GoesFields DEF Inv, Stages
  <2>3. Compared(r) /\ r.lease \in {"active", "revoked", "failed"}
    BY <1>1, <1>2, <1>6 DEF Compared, LeaseFits
  <2>4. published = r.before => r.base = r.before
    BY <1>1, <1>2, <2>3, RecordFields DEF BaseFits
  <2>5. stage \in {"finalizing", "revoking"}
        /\ (stage = "finalizing" => published = r.before)
    BY <1>5
  <2> HIDE DEF x, r, stage
  <2>6. x.stage \notin Holding \cup Dirless
    BY <2>2, <2>5 DEF Moved, Holding, Dirless, PassStages, Bundling
  <2>7. (Unmarked(x) => Marker \notin out[p].objects) /\ ~Good(x)
    BY <1>2, <1>3, <2>2 DEF OutputFits, Unmarked, Good, Moved
  <2> QED
    BY <1>1, <1>3, <1>4, <1>6, <2>2, <2>3, <2>4, <2>5, <2>6, <2>7,
       LeaseKeepsInv DEF r, Moved
<1>7. CASE r.kind # "export"
  <2> DEFINE answer == IF intact THEN "ok" ELSE "failed"
             x == [r EXCEPT !.stage = "over", !.answer = answer]
  <2>1. exporter' = [exporter EXCEPT ![p] = x]
    BY <1>5, <1>7 DEF Answers
  <2>2. answer \in {"ok", "failed"}
    OBVIOUS
  <2> HIDE DEF answer
  <2>3. /\ x \in ExporterRecords /\ x.stage = "over" /\ x.answer = answer
        /\ x.kind = r.kind /\ x.before = r.before /\ x.base = r.base
        /\ x.bound = r.bound /\ x.marked = r.marked /\ x.lease = r.lease
        /\ x.revocation = r.revocation
    BY <1>1, <2>2 DEF ExporterRecords, Stages
  <2>4. ~r.marked
    BY <1>1, <1>2, <1>7, RecordFields DEF KindFits
  <2> HIDE DEF x, r
  <2>5. x.stage \notin Holding \cup Dirless /\ ~Compared(x)
    BY <2>3 DEF Holding, Dirless, PassStages, Bundling, Compared, Leasing
  <2>6. (Unmarked(x) => Marker \notin out[p].objects) /\ ~Good(x)
    BY <1>2, <1>7, <2>3, <2>4 DEF OutputFits, Unmarked, Good
  <2> QED
    BY <1>1, <1>3, <1>4, <1>7, <2>1, <2>3, <2>5, <2>6, LeaseKeepsInv DEF r
<1> QED
  BY <1>6, <1>7

Ended(r, lease, answer) ==
    [r EXCEPT !.stage = "over", !.lease = lease, !.answer = answer]

LEMMA EndFields ==
    ASSUME NEW r \in ExporterRecords,
           NEW lease \in {"active", "finalized", "revoked", "failed"},
           NEW answer \in {"ok", "failed", "unrevoked", "unclosed"},
           NEW x,
           x = Ended(r, lease, answer)
    PROVE  /\ x \in ExporterRecords /\ x.stage = "over" /\ x.answer = answer
           /\ x.kind = r.kind /\ x.before = r.before /\ x.base = r.base
           /\ x.bound = r.bound /\ x.marked = r.marked /\ x.lease = lease
           /\ x.revocation = r.revocation
<1>1. "over" \in Stages
  BY DEF Stages
<1> QED
  BY <1>1 DEF Ended, ExporterRecords

(* The end of an export: its lease, its answer and its directory agree. *)
LEMMA OverKeepsInv ==
    ASSUME Inv, NEW p \in Exporters, NEW o \in Outputs,
           NEW lease \in {"active", "finalized", "revoked", "failed"},
           NEW answer \in {"ok", "failed", "unrevoked", "unclosed"},
           exporter[p].stage \in {"finalizing", "revoking"},
           NEW x \in ExporterRecords,
           x.stage = "over", x.lease = lease, x.answer = answer,
           x.kind = exporter[p].kind, x.before = exporter[p].before,
           x.base = exporter[p].base, x.bound = exporter[p].bound,
           x.marked = exporter[p].marked,
           x.revocation = exporter[p].revocation,
           exporter' = [exporter EXCEPT ![p] = x],
           out' = [out EXCEPT ![p] = o],
           UNCHANGED <<draft, published, gateway, cleaner, edits, lock,
                       crashes>>,
           o.objects \in {out[p].objects, out[p].objects \ {Marker}},
           lease = "revoked" \/ answer = "failed" => Marker \notin o.objects,
           answer = "ok" =>
               /\ exporter[p].stage = "finalizing"
               /\ \/ lease = "revoked"
                  \/ o.objects = 1 .. Export /\ o.locked = 1 .. Export
    PROVE  Inv'
<1> DEFINE r == exporter[p]
<1>1. /\ KindFits(r) /\ LeaseFits(r) /\ BaseFits(r)
      /\ OutputFits(r, out[p], cleaner.target = p, Opened(p))
  BY ScriptFacts
<1> HIDE DEF r
<1>2. r.stage \notin Dirless /\ r.lease # "none"
  BY <1>1 DEF r, Dirless, PassStages, LeaseFits, Compared, Leasing
<1>3. Unmarked(x) => Marker \notin o.objects
  BY <1>1 DEF r, OutputFits, Unmarked
<1>4. answer = "ok" => r.base = r.before
  BY <1>1 DEF r, BaseFits
<1>5. Good(x) => /\ o.objects = 1 .. Export
                 /\ (1 .. Export) \ Opened(p) \subseteq o.locked
  BY DEF Good
<1>6. x.stage \notin Holding \cup Dirless /\ ~Compared(x)
  BY DEF Holding, Dirless, PassStages, Bundling, Compared, Leasing
<1> QED
  BY <1>2, <1>3, <1>4, <1>5, <1>6, LeaseKeepsInv DEF r

LEMMA EndKeepsInv ==
    ASSUME Inv, NEW p \in Exporters, Finalize(p) \/ Revoke(p)
    PROVE  Inv'
<1> DEFINE r == exporter[p]
<1>1. /\ r \in ExporterRecords /\ out[p] \in Outputs
      /\ out = [out EXCEPT ![p] = out[p]]
  BY DEF Inv, LabTypeOK
<1>2. /\ r.stage \in {"finalizing", "revoking"}
      /\ Finalize(p) => r.stage = "finalizing"
      /\ UNCHANGED <<draft, published, gateway, cleaner, edits, lock, crashes>>
  BY DEF Finalize, Revoke, At
<1>3. r.lease = "revoked" => Marker \notin out[p].objects
  BY ScriptFacts DEF OutputFits, Unmarked
<1>4. r.lease \in {"active", "finalized", "revoked", "failed"}
  BY <1>1, <1>2, ScriptFacts, RecordFields DEF LeaseFits, Compared, Leasing
<1>5. ASSUME NEW answer, Answers(p, answer)
      PROVE  Consumes(p, r.lease, answer)
  <2>1. [r EXCEPT !.stage = "over", !.answer = answer]
        = [r EXCEPT !.stage = "over", !.lease = r.lease, !.answer = answer]
    BY <1>1 DEF ExporterRecords
  <2> QED
    BY <1>5, <2>1 DEF Answers, Consumes
<1>6. PICK lease \in {"active", "finalized", "revoked", "failed"},
           answer \in {"ok", "failed", "unrevoked", "unclosed"},
           o \in Outputs :
         /\ Consumes(p, lease, answer)
         /\ out' = [out EXCEPT ![p] = o]
         /\ o.objects \in {out[p].objects, out[p].objects \ {Marker}}
         /\ lease = "revoked" \/ answer = "failed" => Marker \notin o.objects
         /\ answer = "ok" =>
               /\ r.stage = "finalizing"
               /\ \/ lease = "revoked"
                  \/ o.objects = 1 .. Export /\ o.locked = 1 .. Export
  <2>1. CASE RevokeActive(p, "failed")
    <3>1. CASE /\ out' = Discarded(p)
               /\ \E told \in {"failed", "unrevoked"} :
                     Consumes(p, "revoked", told)
      BY <3>1, DiscardFields
    <3>2. CASE out' \in Disturbed(p) /\ Consumes(p, "failed", "unrevoked")
      BY <3>2, DiscardFields
    <3> QED
      BY <2>1, <3>1, <3>2 DEF RevokeActive
  <2>2. CASE UNCHANGED out /\ \E told \in {"unclosed", "unrevoked"} :
                                 Answers(p, told)
    <3>1. PICK told \in {"unclosed", "unrevoked"} : Consumes(p, r.lease, told)
      BY <1>5, <2>2
    <3> QED
      BY <1>1, <1>3, <1>4, <2>2, <3>1
  <2>3. CASE Finalize(p) /\ ~RevokeActive(p, "failed")
    <3>1. CASE /\ Whole(p) /\ out' = out
               /\ \/ Consumes(p, "finalized", "ok")
                  \/ Consumes(p, "failed", "unclosed")
      BY <1>1, <1>2, <2>3, <3>1 DEF Whole
    <3>2. CASE r.lease = "revoked" /\ out' = out /\ Answers(p, "ok")
      BY <1>1, <1>2, <1>3, <1>5, <2>3, <3>2
    <3>3. CASE r.lease = "failed" /\ out' = out /\ Answers(p, "unrevoked")
      BY <1>1, <1>5, <3>3
    <3> QED
      BY <2>2, <2>3, <3>1, <3>2, <3>3 DEF Finalize
  <2>4. CASE Revoke(p) /\ ~RevokeActive(p, "failed")
    <3>1. CASE r.lease = "revoked" /\ out' = out /\ Answers(p, "failed")
      BY <1>1, <1>3, <1>5, <3>1
    <3>2. CASE /\ r.lease = "failed" /\ out' = Discarded(p)
               /\ Answers(p, "failed")
      BY <1>5, <3>2, DiscardFields
    <3>3. CASE /\ r.lease = "failed" /\ out' \in Disturbed(p)
               /\ Answers(p, "unrevoked")
      BY <1>5, <3>3, DiscardFields
    <3> QED
      BY <2>2, <2>4, <3>1, <3>2, <3>3 DEF Revoke, RevokeByPath
  <2> QED
    BY <2>1, <2>3, <2>4
<1> DEFINE x == Ended(r, lease, answer)
<1>7. exporter' = [exporter EXCEPT ![p] = x]
  BY <1>6 DEF Consumes, Ended
<1>8. /\ x \in ExporterRecords /\ x.stage = "over" /\ x.answer = answer
      /\ x.kind = r.kind /\ x.before = r.before /\ x.base = r.base
      /\ x.bound = r.bound /\ x.marked = r.marked /\ x.lease = lease
      /\ x.revocation = r.revocation
  <2> HIDE DEF r
  <2>1. x = Ended(r, lease, answer)
    OBVIOUS
  <2> HIDE DEF x
  <2> QED
    BY <1>1, <2>1, EndFields
<1> HIDE DEF x
<1> QED
  BY <1>2, <1>6, <1>7, <1>8, OverKeepsInv

LEMMA RevokeReceiptKeepsInv ==
    ASSUME Inv, NEW p \in Exporters, RevokeReceipt(p)
    PROVE  Inv'
<1> DEFINE r == exporter[p]
           NoLock == UNCHANGED out /\ Revokes(p, r.lease, "failed")
<1>1. /\ r \in ExporterRecords /\ out[p] \in Outputs
      /\ out = [out EXCEPT ![p] = out[p]]
      /\ r.lease # "none"
      /\ UNCHANGED <<draft, published, gateway, cleaner, edits, lock, crashes>>
  BY DEF Inv, LabTypeOK, RevokeReceipt
<1>2. /\ KindFits(r) /\ LeaseFits(r) /\ BaseFits(r)
      /\ OutputFits(r, out[p], cleaner.target = p, Opened(p))
  BY ScriptFacts
<1>3. r.stage \notin Holding \cup Dirless
  BY <1>1, <1>2 DEF LeaseFits, Holding, Dirless, Bundling
<1>4. r.lease \in {"active", "finalized", "revoked", "failed"}
  BY <1>1, RecordFields
<1>5. PICK lease \in {"active", "finalized", "revoked", "failed"},
           revocation \in {"done", "failed"}, o \in Outputs :
         /\ Revokes(p, lease, revocation)
         /\ out' = [out EXCEPT ![p] = o]
         /\ o.objects \in {out[p].objects, out[p].objects \ {Marker}}
         /\ r.lease # "finalized" => lease # "finalized"
         /\ lease = "revoked" \/ revocation = "done"
            => Marker \notin o.objects
  <2>1. CASE NoLock
    <3>1. r.lease = "revoked" => Marker \notin out[p].objects
      BY <1>2 DEF OutputFits, Unmarked
    <3> QED
      BY <1>1, <1>4, <2>1, <3>1
  <2>2. CASE r.lease = "active" /\ ~NoLock
    <3>1. CASE /\ out' = Discarded(p)
               /\ \E told \in {"done", "failed"} :
                     Revokes(p, "revoked", told)
      BY <3>1, DiscardFields
    <3>2. CASE out' \in Disturbed(p) /\ Revokes(p, "failed", "failed")
      BY <3>2, DiscardFields
    <3> QED
      BY <2>2, <3>1, <3>2 DEF RevokeReceipt
  <2>3. CASE r.lease = "revoked" /\ ~NoLock
    <3>1. out' = out /\ Revokes(p, "revoked", "done")
      BY <2>3 DEF RevokeReceipt
    <3>2. Marker \notin out[p].objects
      BY <1>2, <2>3 DEF OutputFits, Unmarked
    <3> QED
      BY <1>1, <3>1, <3>2
  <2>4. CASE r.lease \in {"finalized", "failed"} /\ ~NoLock
    <3>1. CASE out' = Discarded(p) /\ Revokes(p, r.lease, "done")
      BY <2>4, <3>1, DiscardFields
    <3>2. CASE out' \in Disturbed(p) /\ Revokes(p, r.lease, "failed")
      BY <2>4, <3>2, DiscardFields
    <3> QED
      BY <2>4, <3>1, <3>2 DEF RevokeReceipt, RevokeByPath
  <2> QED
    BY <1>4, <2>1, <2>2, <2>3, <2>4
<1> DEFINE x == [r EXCEPT !.lease = lease, !.revocation = revocation]
<1>6. /\ x \in ExporterRecords /\ x.stage = r.stage /\ x.answer = r.answer
      /\ x.kind = r.kind /\ x.before = r.before /\ x.base = r.base
      /\ x.bound = r.bound /\ x.marked = r.marked /\ x.lease = lease
      /\ x.revocation = revocation
  BY <1>1 DEF ExporterRecords
<1>7. exporter' = [exporter EXCEPT ![p] = x]
  BY <1>5 DEF Revokes
<1> HIDE DEF x, r
<1>8. Compared(x) => Compared(r) /\ x.lease \in {"active", "revoked", "failed"}
  BY <1>2, <1>5, <1>6 DEF Compared, LeaseFits
<1>9. (Unmarked(x) => Marker \notin o.objects) /\ ~Good(x)
  BY <1>2, <1>5, <1>6 DEF OutputFits, Unmarked, Good
<1>10. /\ x.stage = "revoking" \/ x.stage = "finalizing" => x.kind = "export"
       /\ x.stage = "finalizing" => x.base = x.before
       /\ x.answer # "none" => x.stage = "over"
       /\ x.kind = "export" /\ x.answer = "ok" => x.base = x.before
  BY <1>2, <1>6 DEF KindFits, Leasing, BaseFits, LeaseFits
<1>11. r.stage \notin Dirless /\ x.stage \notin Holding \cup Dirless
       /\ x.lease # "none"
  BY <1>3, <1>5, <1>6
<1> QED
  BY <1>1, <1>5, <1>6, <1>7, <1>8, <1>9, <1>10, <1>11, LeaseKeepsInv DEF r

-----------------------------------------------------------------------------
(* Deaths *)

LEMMA CrashKeepsInv ==
    ASSUME Inv, NEW p \in Exporters, Crash(p)
    PROVE  Inv'
<1> DEFINE r == exporter[p]
           y == [r EXCEPT !.stage = "dead"]
           x == Forget(y)
<1>1. /\ r \in ExporterRecords /\ out[p] \in Outputs
      /\ out' = [out EXCEPT ![p] = out[p]]
      /\ exporter' = [exporter EXCEPT ![p] = x]
      /\ r.stage # "over"
      /\ \/ lock' = lock
         \/ lock = p /\ lock' = None
      /\ UNCHANGED <<draft, published, gateway, cleaner, edits>>
  BY DEF Inv, LabTypeOK, Crash
<1>2. crashes' \in 0 .. MaxCrashes
  BY LabAssumption DEF Inv, LabTypeOK, Crash
<1>3. /\ KindFits(r) /\ LeaseFits(r) /\ BaseFits(r)
      /\ OutputFits(r, out[p], cleaner.target = p, Opened(p))
  BY ScriptFacts
<1>4. /\ y \in ExporterRecords /\ y.stage = "dead" /\ y.answer = r.answer
      /\ y.kind = r.kind /\ y.before = r.before /\ y.base = r.base
      /\ y.bound = r.bound /\ y.marked = r.marked /\ y.lease = r.lease
      /\ y.revocation = r.revocation
  BY <1>1 DEF ExporterRecords, Stages
<1> HIDE DEF y
<1>5. /\ x \in ExporterRecords /\ x.stage = "dead" /\ x.answer = r.answer
      /\ x.kind = r.kind /\ x.before = r.before /\ x.base = r.base
      /\ x.bound = r.bound /\ x.marked = r.marked /\ x.lease = r.lease
      /\ x.revocation = r.revocation
  BY <1>4, ForgetFields
<1> HIDE DEF x, r
<1>6. /\ LoopFits(x) /\ SnapshotFits(x)
      /\ x.stage \notin Holding \cup Dirless \cup Bundling
  BY <1>5 DEF LoopFits, SnapshotFits, Holding, PassStages, Sealed, Bundling,
     Dirless
<1>7. KindFits(x) /\ LeaseFits(x)
  BY <1>1, <1>3, <1>5 DEF KindFits, Dirless, LeaseFits, PassStages, Holding,
     Bundling, Leasing, Compared
<1>8. BaseFits(x)
  BY <1>1, <1>3, <1>5 DEF BaseFits, LeaseFits, Bundling, Leasing, Compared
<1>9. OutputFits(x, out[p], cleaner.target = p, Opened(p))
  <2>1. Unmarked(x) => Marker \notin out[p].objects
    BY <1>3, <1>5 DEF OutputFits, Unmarked
  <2>2. ~Good(x)
    BY <1>1, <1>3, <1>5 DEF LeaseFits, Good
  <2> QED
    BY <1>1, <1>3, <1>6, <2>1, <2>2, ShrunkFits
<1> QED
  BY <1>1, <1>2, <1>5, <1>6, <1>7, <1>8, <1>9, ScriptKeepsInv

(* A death of the gateway, an edit of the published tree and the steps of  *)
(* the cleanup that only list leave the scripts and their outputs alone.   *)
LEMMA CrashGatewayKeepsInv ==
    ASSUME Inv, CrashGateway
    PROVE  Inv'
<1> USE DEF Inv
<1>1. /\ lock = Gateway /\ lock' = None /\ gateway' = NoSession
      /\ UNCHANGED <<draft, published, exporter, out, cleaner, edits>>
  BY DEF CrashGateway, LocksFit
<1>2. crashes' \in 0 .. MaxCrashes
  BY LabAssumption DEF CrashGateway, LabTypeOK
<1>3. NoSession \in [at : 0 .. N, edit : 0 .. MaxEdits]
  BY LabAssumption DEF NoSession
<1>4. LabTypeOK'
  BY <1>1, <1>2, <1>3 DEF LabTypeOK
<1>5. LocksFit'
  BY <1>1, LabAssumption DEF LocksFit
<1>6. EditsFit'
  <2>1. NoSession.edit <= edits
    BY LabAssumption DEF NoSession, LabTypeOK
  <2> QED
    BY <1>1, <2>1 DEF EditsFit
<1>7. ScriptsFit' /\ OutputsFit' /\ CleanerFits'
  BY <1>1 DEF ScriptsFit, LoopFits, SnapshotFits, Existed, KindFits, BaseFits,
     LeaseFits, Compared, OutputsFit, OutputFits, Opened,
     CleanerFits
<1> QED
  BY <1>4, <1>5, <1>6, <1>7

LEMMA EditPublishedKeepsInv ==
    ASSUME Inv, EditPublished
    PROVE  Inv'
<1> USE DEF Inv
<1>1. /\ edits' = edits + 1 /\ published' = edits + 1
      /\ UNCHANGED <<draft, lock, exporter, out, gateway, cleaner, crashes>>
  BY DEF EditPublished
<1>2. /\ edits \in Nat /\ edits' \in 0 .. MaxEdits /\ published \in Nat
      /\ published <= published' /\ published' \in 0 .. MaxEdits
  BY <1>1, LabAssumption DEF EditPublished, LabTypeOK, EditsFit
<1>3. LabTypeOK'
  BY <1>1, <1>2 DEF LabTypeOK
<1>4. LocksFit' /\ CleanerFits' /\ OutputsFit'
  BY <1>1 DEF LocksFit, CleanerFits, OutputsFit, OutputFits, Opened
<1>5. EditsFit'
  <2>1. /\ gateway.edit \in Nat
        /\ \A f \in Names : draft[f] \in Nat
    BY LabAssumption DEF LabTypeOK, Drafts, Gone
  <2> QED
    BY <1>1, <1>2, <2>1 DEF EditsFit
<1>6. ScriptsFit'
  <2> SUFFICES ASSUME NEW p \in Exporters
               PROVE  (/\ LoopFits(exporter[p]) /\ SnapshotFits(exporter[p])
                       /\ KindFits(exporter[p]) /\ BaseFits(exporter[p])
                       /\ LeaseFits(exporter[p]))'
    BY DEF ScriptsFit
  <2>1. exporter[p] \in ExporterRecords
    BY DEF LabTypeOK
  <2>2. /\ exporter[p].before \in Nat /\ exporter[p].base \in Nat
        /\ exporter[p].bound \in Nat
    BY <2>1, RecordFields
  <2>3. BaseFits(exporter[p])'
    <3>1. BaseFits(exporter[p])
      BY DEF ScriptsFit
    <3> QED
      BY <1>1, <1>2, <2>2, <3>1 DEF BaseFits, Compared
  <2> QED
    BY <1>1, <2>3 DEF ScriptsFit, LoopFits, SnapshotFits, Existed, KindFits,
       LeaseFits, Compared
<1> QED
  BY <1>3, <1>4, <1>5, <1>6

-----------------------------------------------------------------------------
(* Those who write the draft *)

(* A change of the draft which a script with the lock would notice: it     *)
(* only raises files, and no session is open.                              *)
LEMMA NoteKeepsInv ==
    ASSUME Inv, NoteDraft, draft' \in Drafts,
           gateway' \in [at : 0 .. N, edit : 0 .. MaxEdits],
           lock' \in Exporters \cup {Gateway, None},
           edits' \in 0 .. MaxEdits, EditsFit',
           cleaner' \in CleanerRecords,
           cleaner'.target = cleaner.target, cleaner'.stage = cleaner.stage,
           cleaner'.targets = cleaner.targets,
           cleaner.stage = "drafts" \/ cleaner'.left = cleaner.left,
           UNCHANGED <<published, out, crashes>>,
           gateway' = NoSession \/ (gateway'.at > 0 /\ lock' = Gateway),
           \A p \in Exporters : exporter[p].stage \in Holding =>
               /\ lock' = lock /\ gateway' = NoSession
               /\ \A f \in Names : draft[f] <= draft'[f]
    PROVE  Inv'
<1> USE DEF Inv
<1>1. exporter \in [Exporters -> ExporterRecords]
  BY DEF LabTypeOK
<1>2. ASSUME NEW p \in Exporters
      PROVE  \E during \in SUBSET Drafts :
                /\ exporter'[p] = [exporter[p] EXCEPT !.during = during]
                /\ exporter[p].during \subseteq during
                /\ exporter[p].stage \in PassStages \cup {"validating"}
                   => draft' \in during
  <2>1. CASE Snapshotting(p) /\ gateway' = NoSession
    <3> DEFINE during == exporter[p].during \cup {draft'}
    <3>1. exporter'[p] = [exporter[p] EXCEPT !.during = during]
      BY <1>1, <2>1 DEF NoteDraft
    <3>2. during \in SUBSET Drafts
      BY <1>1, RecordFields
    <3> HIDE DEF during, Inv
    <3> QED
      BY <3>1, <3>2 DEF during
  <2>2. CASE ~(Snapshotting(p) /\ gateway' = NoSession)
    <3>1. exporter'[p] = exporter[p]
      BY <2>2 DEF NoteDraft
    <3>2. exporter[p] = [exporter[p] EXCEPT !.during = exporter[p].during]
      BY <1>1 DEF ExporterRecords
    <3>3. exporter[p].stage \notin PassStages \cup {"validating"}
      BY <2>2, Snapshots DEF Holding
    <3> QED
      BY <1>1, <3>1, <3>2, <3>3, RecordFields
  <2> QED
    BY <2>1, <2>2
<1>3. ASSUME NEW p \in Exporters
      PROVE  LET x == exporter'[p]  r == exporter[p] IN
             /\ x \in ExporterRecords
             /\ x.stage = r.stage /\ x.at = r.at /\ x.kind = r.kind
             /\ x.seen = r.seen /\ x.before = r.before /\ x.base = r.base
             /\ x.bound = r.bound /\ x.marked = r.marked
             /\ x.lease = r.lease /\ x.answer = r.answer
             /\ x.revocation = r.revocation /\ r.during \subseteq x.during
             /\ r.stage \in PassStages \cup {"validating"}
                => draft' \in x.during
  <2>1. PICK during \in SUBSET Drafts :
           /\ exporter'[p] = [exporter[p] EXCEPT !.during = during]
           /\ exporter[p].during \subseteq during
           /\ exporter[p].stage \in PassStages \cup {"validating"}
              => draft' \in during
    BY <1>2
  <2>2. exporter[p] \in ExporterRecords
    BY <1>1
  <2> QED
    BY <2>1, <2>2 DEF ExporterRecords
<1>4. exporter' \in [Exporters -> ExporterRecords]
  BY <1>3 DEF NoteDraft
<1>5. LabTypeOK'
  BY <1>4 DEF LabTypeOK
<1>6. LocksFit'
  BY <1>3 DEF LocksFit
<1>7. OutputsFit'
  <2>1. ASSUME NEW p \in Exporters
        PROVE  OutputFits(exporter[p], out[p], cleaner.target = p,
                          Opened(p))'
    <3>1. OutputFits(exporter[p], out[p], cleaner.target = p, Opened(p))
      BY DEF OutputsFit
    <3>2. /\ Opened(p)' = Opened(p) /\ out'[p] = out[p]
          /\ (cleaner.target = p)' <=> cleaner.target = p
      BY DEF Opened
    <3> QED
      BY <1>3, <3>1, <3>2 DEF OutputFits, Unmarked, Good
  <2> QED
    BY <2>1 DEF OutputsFit
<1>8. ScriptsFit'
  <2> SUFFICES ASSUME NEW p \in Exporters
               PROVE  (/\ LoopFits(exporter[p]) /\ SnapshotFits(exporter[p])
                       /\ KindFits(exporter[p]) /\ BaseFits(exporter[p])
                       /\ LeaseFits(exporter[p]))'
    BY DEF ScriptsFit
  <2> DEFINE x == exporter'[p]
             r == exporter[p]
  <2>1. /\ LoopFits(r) /\ SnapshotFits(r) /\ KindFits(r) /\ BaseFits(r)
        /\ LeaseFits(r)
    BY DEF ScriptsFit
  <2>2. (/\ LoopFits(exporter[p]) /\ KindFits(exporter[p])
         /\ BaseFits(exporter[p]) /\ LeaseFits(exporter[p]))'
    BY <1>3, <2>1 DEF LoopFits, KindFits, BaseFits, LeaseFits, Compared
  <2>3. SnapshotFits(exporter[p])'
    <3>1. x.stage = r.stage /\ x.at = r.at /\ x.seen = r.seen
          /\ r.during \subseteq x.during
          /\ r.seen \in Drafts /\ r.during \subseteq Drafts
      BY <1>1, <1>3, RecordFields
    <3>2. r.stage \in PassStages \cup {"validating"} => draft' \in x.during
      BY <1>3
    <3>3. r.stage \in PassStages => \A f \in Names : draft[f] <= draft'[f]
      BY DEF Holding
    <3>4. \A d \in Drafts : \A f \in Names : d[f] \in Nat
      BY LabAssumption DEF Drafts, Gone
    <3>5. draft \in Drafts
      BY DEF LabTypeOK
    <3>6. r.stage = "collecting" =>
             \A f \in Names : f < r.at => r.seen[f] <= draft'[f]
      BY <2>1, <3>1, <3>3, <3>4, <3>5 DEF SnapshotFits, PassStages
    <3>7. ASSUME r.stage = "rescanning"
          PROVE  \E d \in x.during :
                    \A f \in Names :
                       /\ r.seen[f] <= d[f] /\ d[f] <= draft'[f]
                       /\ f < r.at => d[f] = r.seen[f]
      <4>1. PICK d \in r.during : Existed(r, d)
        BY <2>1, <3>7 DEF SnapshotFits
      <4>2. d \in Drafts /\ d \in x.during
        BY <3>1
      <4>3. ASSUME NEW f \in Names
            PROVE  /\ r.seen[f] <= d[f] /\ d[f] <= draft'[f]
                   /\ f < r.at => d[f] = r.seen[f]
        BY <3>3, <3>4, <3>5, <3>7, <4>1, <4>2 DEF Existed, PassStages
      <4> QED
        BY <4>2, <4>3
    <3> HIDE DEF x, r
    <3>8. x.stage = "rescanning" =>
             \E d \in x.during :
                \A f \in Names :
                   /\ x.seen[f] <= d[f] /\ d[f] <= draft'[f]
                   /\ f < x.at => d[f] = x.seen[f]
      BY <3>1, <3>7
    <3>9. x.stage \in Sealed => x.seen \in x.during
      BY <2>1, <3>1 DEF SnapshotFits
    <3>10. x.stage = "collecting" =>
              \A f \in Names : f < x.at => x.seen[f] <= draft'[f]
      BY <3>1, <3>6
    <3> QED
      BY <3>1, <3>2, <3>8, <3>9, <3>10 DEF SnapshotFits, Existed, x
  <2> QED
    BY <2>2, <2>3
<1>9. CleanerFits'
  BY <1>3 DEF CleanerFits
<1> QED
  BY <1>5, <1>6, <1>7, <1>8, <1>9

LEMMA OpenSessionKeepsInv ==
    ASSUME Inv, OpenSession
    PROVE  Inv'
<1> USE DEF Inv
<1>1. /\ lock = None /\ lock' = Gateway /\ edits < MaxEdits
      /\ edits' = edits + 1 /\ gateway' = [at |-> 1, edit |-> edits + 1]
      /\ UNCHANGED <<draft, published, exporter, out, cleaner, crashes>>
  BY DEF OpenSession
<1>2. /\ edits \in Nat /\ edits' \in 0 .. MaxEdits /\ published \in Nat
      /\ 1 \in 0 .. N /\ \A f \in Names : draft[f] \in Nat
  BY <1>1, LabAssumption DEF LabTypeOK, Drafts, Gone
<1>3. /\ gateway' \in [at : 0 .. N, edit : 0 .. MaxEdits]
      /\ gateway'.at = 1 /\ gateway'.edit = edits'
  BY <1>1, <1>2
<1>4. LabTypeOK'
  BY <1>1, <1>2, <1>3 DEF LabTypeOK
<1>5. LocksFit'
  <2>1. \A p \in Exporters : exporter[p].stage \notin Holding
    BY <1>1, LabAssumption DEF LocksFit
  <2> QED
    BY <1>1, <1>3, <2>1 DEF LocksFit
<1>6. EditsFit'
  <2>1. /\ published <= edits
        /\ \A f \in Names : draft[f] = Gone \/ draft[f] <= edits
    BY DEF EditsFit
  <2>2. gateway'.edit <= edits' /\ published' <= edits'
    BY <1>1, <1>2, <1>3, <2>1
  <2>3. \A f \in Names : draft'[f] = Gone \/ draft'[f] <= edits'
    BY <1>1, <1>2, <2>1
  <2> QED
    BY <2>2, <2>3 DEF EditsFit
<1>7. ScriptsFit' /\ OutputsFit' /\ CleanerFits'
  BY <1>1 DEF ScriptsFit, LoopFits, SnapshotFits, Existed, KindFits, BaseFits,
     LeaseFits, Compared, OutputsFit, OutputFits, Opened,
     CleanerFits
<1> QED
  BY <1>4, <1>5, <1>6, <1>7

LEMMA WriteDraftKeepsInv ==
    ASSUME Inv, WriteDraft
    PROVE  Inv'
<1> USE DEF Inv
<1> DEFINE i == gateway.at
<1>1. /\ i > 0 /\ draft' = [draft EXCEPT ![i] = gateway.edit]
      /\ gateway' = IF i = N THEN NoSession ELSE [gateway EXCEPT !.at = @ + 1]
      /\ lock' = IF i = N THEN None ELSE lock
      /\ NoteDraft
      /\ UNCHANGED <<published, out, cleaner, edits, crashes>>
  BY DEF WriteDraft
<1>2. /\ gateway \in [at : 0 .. N, edit : 0 .. MaxEdits]
      /\ i \in 1 .. N /\ draft \in Drafts /\ edits \in 0 .. MaxEdits
      /\ lock \in Exporters \cup {Gateway, None}
      /\ cleaner \in CleanerRecords
  BY <1>1, LabAssumption DEF LabTypeOK
<1>3. lock = Gateway
  BY <1>1 DEF LocksFit, NoSession
<1>4. \A p \in Exporters : exporter[p].stage \notin Holding
  BY <1>3, LabAssumption DEF LocksFit
<1>5. draft' \in Drafts
  <2>1. gateway.edit \in 0 .. Gone
    BY <1>2, LabAssumption DEF Gone
  <2> QED
    BY <1>1, <1>2, <2>1 DEF Drafts
<1>6. /\ gateway' \in [at : 0 .. N, edit : 0 .. MaxEdits]
      /\ gateway' = NoSession \/ (gateway'.at > 0 /\ lock' = Gateway)
      /\ gateway'.edit \in {0, gateway.edit}
  <2>1. CASE i = N
    BY <1>1, <2>1, LabAssumption DEF NoSession
  <2>2. CASE i # N
    <3>1. gateway' = [gateway EXCEPT !.at = i + 1] /\ lock' = Gateway
      BY <1>1, <1>3, <2>2
    <3>2. i + 1 \in 0 .. N /\ i + 1 > 0
      BY <1>2, <2>2, LabAssumption
    <3>3. gateway'.at = i + 1 /\ gateway'.edit = gateway.edit
      BY <1>2, <3>1
    <3> HIDE DEF i
    <3> QED
      BY <1>2, <3>1, <3>2, <3>3
  <2> QED
    BY <2>1, <2>2
<1>7. EditsFit'
  <2>1. gateway'.edit <= edits'
    BY <1>1, <1>2, <1>6 DEF EditsFit
  <2>2. \A f \in Names : draft'[f] = Gone \/ draft'[f] <= edits'
    BY <1>1, <1>2 DEF EditsFit, Drafts
  <2> QED
    BY <1>1, <2>1, <2>2 DEF EditsFit
<1>8. lock' \in Exporters \cup {Gateway, None}
  BY <1>1, <1>2
<1> HIDE DEF i
<1> QED
  BY <1>1, <1>2, <1>4, <1>5, <1>6, <1>7, <1>8, NoteKeepsInv

LEMMA EditDraftKeepsInv ==
    ASSUME Inv, NEW f \in Names, EditDraft(f)
    PROVE  Inv'
<1> USE DEF Inv
<1>1. /\ edits < MaxEdits /\ edits' = edits + 1 /\ draft[f] # Gone
      /\ draft' = [draft EXCEPT ![f] = edits + 1]
      /\ NoteDraft
      /\ UNCHANGED <<gateway, published, lock, out, cleaner, crashes>>
  BY DEF EditDraft
<1>2. /\ gateway \in [at : 0 .. N, edit : 0 .. MaxEdits]
      /\ draft \in Drafts /\ edits \in Nat /\ edits' \in 0 .. MaxEdits
      /\ published \in Nat
      /\ lock \in Exporters \cup {Gateway, None}
      /\ cleaner \in CleanerRecords
  BY <1>1, LabAssumption DEF LabTypeOK
<1>3. draft' \in Drafts
  BY <1>1, <1>2, LabAssumption DEF Drafts, Gone
<1>4. \A g \in Names : draft[g] \in Nat
  BY <1>2, LabAssumption DEF Drafts, Gone
<1>5. \A g \in Names : draft[g] <= draft'[g]
  BY <1>1, <1>2, <1>4 DEF EditsFit, Drafts
<1>6. EditsFit'
  <2>1. gateway'.edit <= edits' /\ published' <= edits'
    BY <1>1, <1>2 DEF EditsFit
  <2>2. \A g \in Names : draft'[g] = Gone \/ draft'[g] <= edits'
    BY <1>1, <1>2, <1>4 DEF EditsFit, Drafts
  <2> QED
    BY <2>1, <2>2 DEF EditsFit
<1>7. /\ gateway' = NoSession \/ (gateway'.at > 0 /\ lock' = Gateway)
      /\ \A p \in Exporters : exporter[p].stage \in Holding =>
            gateway' = NoSession
  BY <1>1, LabAssumption DEF LocksFit
<1> QED
  BY <1>1, <1>2, <1>3, <1>5, <1>6, <1>7, NoteKeepsInv

LEMMA RemoveDraftKeepsInv ==
    ASSUME Inv, RemoveDraft
    PROVE  Inv'
<1> USE DEF Inv
<1> DEFINE f == First(cleaner.left)
           left == cleaner.left \ {f}
<1>1. /\ cleaner.stage = "drafts"
      /\ draft' = [draft EXCEPT ![f] = Gone]
      /\ cleaner' = [cleaner EXCEPT !.left = left]
      /\ NoteDraft
      /\ UNCHANGED <<gateway, published, lock, out, edits, crashes>>
  BY DEF RemoveDraft
<1>2. /\ gateway \in [at : 0 .. N, edit : 0 .. MaxEdits]
      /\ draft \in Drafts /\ edits \in 0 .. MaxEdits
      /\ lock \in Exporters \cup {Gateway, None}
      /\ cleaner \in CleanerRecords
  BY DEF LabTypeOK
<1>3. left \in SUBSET (1 .. Export)
  BY <1>2 DEF CleanerRecords
<1> HIDE DEF f, left
<1>4. /\ draft' \in Drafts /\ \A g \in Names : draft[g] <= draft'[g]
      /\ \A g \in Names : draft'[g] = Gone \/ draft'[g] = draft[g]
  <2>1. Gone \in Nat
    BY LabAssumption DEF Gone
  <2>2. /\ draft' \in Drafts
        /\ \A g \in Names : draft'[g] = Gone \/ draft'[g] = draft[g]
    <3>1. draft' = [draft EXCEPT ![f] = Gone]
      BY <1>1
    <3>2. draft \in [Names -> 0 .. Gone] /\ Gone \in 0 .. Gone
      BY <1>2, <2>1 DEF Drafts
    <3> HIDE DEF Inv
    <3> QED
      BY <3>1, <3>2 DEF Drafts
  <2> QED
    BY <1>2, <2>1, <2>2 DEF Drafts
<1>5. EditsFit'
  BY <1>1, <1>4 DEF EditsFit
<1>6. /\ cleaner' \in CleanerRecords
      /\ cleaner'.stage = "drafts" /\ cleaner'.target = cleaner.target
      /\ cleaner'.targets = cleaner.targets
  BY <1>1, <1>2, <1>3 DEF CleanerRecords
<1>7. /\ gateway' = NoSession \/ (gateway'.at > 0 /\ lock' = Gateway)
      /\ \A p \in Exporters : exporter[p].stage \in Holding =>
            gateway' = NoSession
  BY <1>1, LabAssumption DEF LocksFit
<1> QED
  BY <1>1, <1>2, <1>4, <1>5, <1>6, <1>7, NoteKeepsInv

-----------------------------------------------------------------------------
(* The cleanup *)

(* A step of the cleanup that leaves the directories alone. *)
LEMMA ListingKeepsInv ==
    ASSUME Inv, NEW c \in CleanerRecords, cleaner' = c,
           UNCHANGED <<draft, published, lock, exporter, out, gateway, edits,
                       crashes>>,
           \A p \in Exporters : c.target # p => out[p].objects = {}
                                             \/ cleaner.target # p,
           \A p \in Exporters :
               out[p].objects # {} => Opened(p) \subseteq Opened(p)',
           CleanerFits'
    PROVE  Inv'
<1> USE DEF Inv
<1>1. LabTypeOK'
  BY DEF LabTypeOK
<1>2. LocksFit' /\ EditsFit' /\ ScriptsFit'
  BY DEF LocksFit, EditsFit, ScriptsFit, LoopFits, SnapshotFits, Existed,
     KindFits, BaseFits, LeaseFits, Compared
<1>3. ASSUME NEW p \in Exporters
      PROVE  OutputFits(exporter[p], out[p], cleaner.target = p, Opened(p))'
  <2>1. OutputFits(exporter[p], out[p], cleaner.target = p, Opened(p))
    BY DEF OutputsFit
  <2>2. Good(exporter[p]) => out[p].objects # {}
    BY <2>1, ObjectsAre DEF OutputFits
  <2>3. OutputFits(exporter[p], out[p], c.target = p, Opened(p)')
    BY <2>1, <2>2 DEF OutputFits
  <2> QED
    BY <2>3 DEF OutputFits, Unmarked, Good
<1> QED
  BY <1>1, <1>2, <1>3 DEF OutputsFit

LEMMA StartCleanupKeepsInv ==
    ASSUME Inv, StartCleanup
    PROVE  Inv'
<1> DEFINE c == [cleaner EXCEPT !.stage = "drafts", !.left = Names]
<1>1. /\ cleaner \in CleanerRecords /\ cleaner.stage = "idle" /\ cleaner' = c
      /\ cleaner.target = None /\ cleaner.targets = {}
      /\ UNCHANGED <<draft, published, lock, exporter, out, gateway, edits,
                     crashes>>
  BY DEF Inv, LabTypeOK, StartCleanup, CleanerFits
<1>2. /\ c \in CleanerRecords /\ c.stage = "drafts" /\ c.target = None
      /\ c.targets = {}
  BY <1>1, ObjectsAre DEF CleanerRecords
<1> HIDE DEF c
<1>3. CleanerFits'
  BY <1>1, <1>2, LabAssumption DEF CleanerFits
<1>4. \A p \in Exporters : Opened(p) = {}
  BY <1>1 DEF Opened
<1>5. \A p \in Exporters : cleaner.target # p
  BY <1>1, LabAssumption
<1> QED
  BY <1>1, <1>2, <1>3, <1>4, <1>5, ListingKeepsInv

LEMMA ListExportsKeepsInv ==
    ASSUME Inv, ListExports
    PROVE  Inv'
<1> DEFINE targets == {p \in Exporters : Export \in out[p].objects}
           c == [cleaner EXCEPT !.stage = "exports", !.targets = targets]
<1>1. /\ cleaner \in CleanerRecords /\ cleaner.stage = "drafts"
      /\ cleaner' = c /\ cleaner.target = None
      /\ UNCHANGED <<draft, published, lock, exporter, out, gateway, edits,
                     crashes>>
  BY DEF Inv, LabTypeOK, ListExports, CleanerFits
<1>2. /\ c \in CleanerRecords /\ c.stage = "exports" /\ c.target = None
      /\ c.targets = targets
  BY <1>1 DEF CleanerRecords
<1>3. \A p \in targets : exporter[p].stage \notin Dirless
  BY ScriptFacts DEF OutputFits
<1> HIDE DEF c, targets
<1>4. CleanerFits'
  BY <1>1, <1>2, <1>3, LabAssumption DEF CleanerFits
<1>5. \A p \in Exporters : Opened(p) = {}
  BY <1>1 DEF Opened
<1>6. \A p \in Exporters : cleaner.target # p
  BY <1>1, LabAssumption
<1> QED
  BY <1>1, <1>2, <1>4, <1>5, <1>6, ListingKeepsInv

LEMMA EnterExportKeepsInv ==
    ASSUME Inv, NEW p \in Exporters, EnterExport(p)
    PROVE  Inv'
<1> DEFINE targets == cleaner.targets \ {p}
           left == {Export} \cup (out[p].objects \ Names)
           stage == IF Candidate \in out[p].objects THEN "listing"
                    ELSE "removing"
           c == [cleaner EXCEPT !.target = p, !.targets = targets,
                                !.stage = stage, !.left = left]
<1>1. /\ cleaner \in CleanerRecords /\ cleaner.stage = "exports"
      /\ p \in cleaner.targets /\ cleaner' = c /\ out[p] \in Outputs
      /\ UNCHANGED <<draft, published, lock, exporter, out, gateway, edits,
                     crashes>>
  BY DEF Inv, LabTypeOK, EnterExport
<1>2. /\ left \in SUBSET (1 .. Export) /\ Export \in left
      /\ stage \in {"listing", "removing"}
      /\ targets \in SUBSET cleaner.targets
  BY <1>1, ObjectsAre DEF Outputs
<1> HIDE DEF targets, left, stage
<1>3. /\ c \in CleanerRecords /\ c.stage = stage /\ c.target = p
      /\ c.targets = targets /\ c.left = left
  BY <1>1, <1>2 DEF CleanerRecords
<1> HIDE DEF c
<1>4. CleanerFits'
  BY <1>1, <1>2, <1>3, LabAssumption DEF Inv, CleanerFits
<1>5. \A q \in Exporters : Opened(q) = {}
  BY <1>1 DEF Opened
<1>6. \A q \in Exporters : cleaner.target = q => out[q].objects = {}
  BY <1>1, LabAssumption DEF Inv, CleanerFits
<1> QED
  BY <1>1, <1>3, <1>4, <1>5, <1>6, ListingKeepsInv

LEMMA ListCandidateKeepsInv ==
    ASSUME Inv, ListCandidate
    PROVE  Inv'
<1> DEFINE p == cleaner.target
           left == cleaner.left \cup (Names \cap out[p].objects)
           c == [cleaner EXCEPT !.stage = "removing", !.left = left]
<1>1. /\ cleaner \in CleanerRecords /\ cleaner.stage = "listing"
      /\ cleaner' = c
      /\ UNCHANGED <<draft, published, lock, exporter, out, gateway, edits,
                     crashes>>
  BY DEF Inv, LabTypeOK, ListCandidate
<1>2. left \in SUBSET (1 .. Export) /\ cleaner.left \subseteq left
  BY <1>1, ObjectsAre DEF CleanerRecords
<1> HIDE DEF left
<1>3. /\ c \in CleanerRecords /\ c.stage = "removing" /\ c.target = p
      /\ c.targets = cleaner.targets /\ c.left = left
  BY <1>1, <1>2 DEF CleanerRecords
<1> HIDE DEF c
<1>4. CleanerFits'
  BY <1>1, <1>2, <1>3 DEF Inv, CleanerFits
<1>5. \A q \in Exporters : Opened(q) = {}
  BY <1>1 DEF Opened
<1> QED
  BY <1>1, <1>3, <1>4, <1>5, ListingKeepsInv

LEMMA EndCleanupKeepsInv ==
    ASSUME Inv, EndCleanup
    PROVE  Inv'
<1> DEFINE c == [cleaner EXCEPT !.stage = "done"]
<1>1. /\ cleaner \in CleanerRecords /\ cleaner.stage = "exports"
      /\ cleaner' = c
      /\ UNCHANGED <<draft, published, lock, exporter, out, gateway, edits,
                     crashes>>
  BY DEF Inv, LabTypeOK, EndCleanup
<1>2. /\ c \in CleanerRecords /\ c.stage = "done"
      /\ c.target = cleaner.target /\ c.targets = cleaner.targets
  BY <1>1 DEF CleanerRecords
<1> HIDE DEF c
<1>3. CleanerFits'
  BY <1>1, <1>2 DEF Inv, CleanerFits
<1>4. \A q \in Exporters : Opened(q) = {}
  BY <1>1 DEF Opened
<1> QED
  BY <1>1, <1>2, <1>3, <1>4, ListingKeepsInv

(* A step of the cleanup in the directory of p. *)
LEMMA RemovingKeepsInv ==
    ASSUME Inv, NEW c \in CleanerRecords, NEW o \in Outputs,
           NEW p \in Exporters, p = cleaner.target, cleaner' = c,
           out' = [out EXCEPT ![p] = o],
           UNCHANGED <<draft, published, lock, exporter, gateway, edits,
                       crashes>>,
           c.target = p, c.targets = cleaner.targets,
           c.stage \in {"removing", "unlinking", "exports", "raised"},
           c.stage \in {"removing", "unlinking"} => Export \in c.left,
           c.stage = "exports" => o.objects = {},
           o.objects \subseteq out[p].objects, Tree(o.objects),
           Good(exporter[p]) =>
               /\ o.objects = 1 .. Export
               /\ (1 .. Export) \ Opened(p)' \subseteq o.locked
    PROVE  Inv'
<1> USE DEF Inv
<1>1. out \in [Exporters -> Outputs]
  BY DEF LabTypeOK
<1>2. out'[p] = o /\ \A q \in Exporters \ {p} : out'[q] = out[q]
  BY <1>1
<1>3. LabTypeOK'
  BY <1>1 DEF LabTypeOK
<1>4. LocksFit' /\ EditsFit' /\ ScriptsFit'
  BY DEF LocksFit, EditsFit, ScriptsFit, LoopFits, SnapshotFits, Existed,
     KindFits, BaseFits, LeaseFits, Compared
<1>5. OutputsFit'
  <2>1. ASSUME NEW q \in Exporters, q # p
        PROVE  OutputFits(exporter[q], out[q], cleaner.target = q, Opened(q))'
    <3>1. OutputFits(exporter[q], out[q], cleaner.target = q, Opened(q))
      BY DEF OutputsFit
    <3>2. Opened(q) = {} /\ Opened(q)' = {} /\ out'[q] = out[q]
          /\ cleaner.target # q /\ cleaner'.target # q
      BY <1>2, <2>1 DEF Opened
    <3>3. OutputFits(exporter[q], out'[q], cleaner'.target = q, Opened(q)')
      BY <3>1, <3>2 DEF OutputFits
    <3> QED
      BY <3>3 DEF OutputFits, Unmarked, Good
  <2>2. OutputFits(exporter[p], out[p], cleaner.target = p, Opened(p))'
    <3>1. OutputFits(exporter[p], out[p], TRUE, Opened(p))
      BY DEF OutputsFit
    <3>2. OutputFits(exporter[p], o, TRUE, Opened(p)')
      BY <3>1 DEF OutputFits
    <3> QED
      BY <1>2, <3>2 DEF OutputFits, Unmarked, Good
  <2> QED
    BY <2>1, <2>2 DEF OutputsFit
<1>6. CleanerFits'
  BY <1>2, LabAssumption DEF CleanerFits
<1> QED
  BY <1>3, <1>4, <1>5, <1>6

(* What the cleanup knows of the directory it is in. *)
LEMMA EnteredFacts ==
    ASSUME Inv, cleaner.stage \in {"removing", "unlinking"}
    PROVE  LET p == cleaner.target  object == First(cleaner.left) IN
           /\ cleaner \in CleanerRecords
           /\ p \in Exporters /\ out[p] \in Outputs
           /\ out = [out EXCEPT ![p] = out[p]]
           /\ Export \in cleaner.left /\ object \in cleaner.left
           /\ object \in 1 .. Export
           /\ \A y \in cleaner.left : object <= y
           /\ OutputFits(exporter[p], out[p], TRUE, Opened(p))
<1>1. /\ cleaner \in CleanerRecords /\ cleaner.target # None
      /\ Export \in cleaner.left
  BY DEF Inv, LabTypeOK, CleanerFits
<1>2. cleaner.target \in Exporters /\ cleaner.left \in SUBSET (1 .. Export)
  BY <1>1 DEF CleanerRecords
<1>3. /\ First(cleaner.left) \in cleaner.left
      /\ \A y \in cleaner.left : First(cleaner.left) <= y
  BY <1>1, <1>2, FirstIs
<1> QED
  BY <1>1, <1>2, <1>3 DEF Inv, LabTypeOK, OutputsFit

LEMMA MakeWritableKeepsInv ==
    ASSUME Inv, MakeWritable
    PROVE  Inv'
<1> DEFINE p == cleaner.target
           object == First(cleaner.left)
<1>1. /\ cleaner.stage = "removing"
      /\ UNCHANGED <<draft, published, lock, exporter, gateway, edits,
                     crashes>>
  BY DEF MakeWritable
<1>2. /\ cleaner \in CleanerRecords
      /\ p \in Exporters /\ out[p] \in Outputs
      /\ out = [out EXCEPT ![p] = out[p]]
      /\ Export \in cleaner.left /\ object \in 1 .. Export
      /\ OutputFits(exporter[p], out[p], TRUE, Opened(p))
  BY <1>1, EnteredFacts
<1>3. Opened(p) = {}
  BY <1>1 DEF Opened
<1>4. CASE object \in out[p].objects
  <2> DEFINE o == [out[p] EXCEPT !.locked = @ \ {object}]
             c == [cleaner EXCEPT !.stage = "unlinking"]
  <2>1. out' = [out EXCEPT ![p] = o] /\ cleaner' = c
    BY <1>4 DEF MakeWritable
  <2>2. /\ o \in Outputs /\ o.objects = out[p].objects
        /\ o.locked = out[p].locked \ {object}
    BY <1>2 DEF Outputs
  <2>3. /\ c \in CleanerRecords /\ c.stage = "unlinking" /\ c.target = p
        /\ c.targets = cleaner.targets /\ c.left = cleaner.left
    BY <1>2 DEF CleanerRecords
  <2> HIDE DEF o, c
  <2>4. Opened(p)' = {object}
    BY <2>1, <2>3 DEF Opened
  <2> HIDE DEF object
  <2>5. /\ Tree(o.objects)
        /\ Good(exporter[p]) =>
               /\ o.objects = 1 .. Export
               /\ (1 .. Export) \ Opened(p)' \subseteq o.locked
    BY <1>2, <1>3, <2>2, <2>4 DEF OutputFits
  <2> HIDE DEF p
  <2> QED
    BY <1>1, <1>2, <2>1, <2>2, <2>3, <2>5, RemovingKeepsInv DEF p
<1>5. CASE object \notin out[p].objects
  <2> DEFINE c == [cleaner EXCEPT !.stage = "raised"]
  <2>1. out' = [out EXCEPT ![p] = out[p]] /\ cleaner' = c
    BY <1>2, <1>5 DEF MakeWritable
  <2>2. /\ c \in CleanerRecords /\ c.stage = "raised" /\ c.target = p
        /\ c.targets = cleaner.targets
    BY <1>2 DEF CleanerRecords
  <2> HIDE DEF c
  <2>3. /\ Tree(out[p].objects)
        /\ Good(exporter[p]) =>
               /\ out[p].objects = 1 .. Export
               /\ (1 .. Export) \ Opened(p)' \subseteq out[p].locked
    BY <1>2, <1>3 DEF OutputFits
  <2> HIDE DEF p, object
  <2> QED
    BY <1>1, <1>2, <2>1, <2>2, <2>3, RemovingKeepsInv DEF p
<1> QED
  BY <1>4, <1>5

(* An entry is removed only of a bundle that was not answered with         *)
(* success: the directory of every other entry is still read-only, and     *)
(* that of the bundle itself is not empty.                                 *)
LEMMA RemoveEntryKeepsInv ==
    ASSUME Inv, RemoveEntry
    PROVE  Inv'
<1> DEFINE p == cleaner.target
           object == First(cleaner.left)
           rest == cleaner.left \ {object}
<1>1. /\ cleaner.stage = "unlinking"
      /\ UNCHANGED <<draft, published, lock, exporter, gateway, edits,
                     crashes>>
  BY DEF RemoveEntry
<1>2. /\ cleaner \in CleanerRecords
      /\ p \in Exporters /\ out[p] \in Outputs
      /\ out = [out EXCEPT ![p] = out[p]]
      /\ Export \in cleaner.left /\ object \in 1 .. Export
      /\ \A y \in cleaner.left : object <= y
      /\ OutputFits(exporter[p], out[p], TRUE, Opened(p))
  BY <1>1, EnteredFacts
<1>3. Opened(p) = {object}
  BY <1>1 DEF Opened
<1>4. CASE Removable(p, object)
  <2> DEFINE o == [out[p] EXCEPT !.objects = @ \ {object},
                                 !.locked = @ \ {object}]
             stage == IF rest = {} THEN "exports" ELSE "removing"
             c == [cleaner EXCEPT !.left = rest, !.stage = stage]
  <2>1. out' = [out EXCEPT ![p] = o] /\ cleaner' = c
    BY <1>4 DEF RemoveEntry
  <2>2. o \in Outputs /\ o.objects = out[p].objects \ {object}
    BY <1>2 DEF Outputs
  <2>3. /\ c \in CleanerRecords /\ c.stage = stage /\ c.target = p
        /\ c.targets = cleaner.targets /\ c.left = rest
    BY <1>2 DEF CleanerRecords
  <2>4. stage = "removing" => Export \in rest
    <3>1. ASSUME object = Export
          PROVE  rest = {}
      <4>1. \A y \in cleaner.left : y \in 1 .. Export /\ Export <= y
        BY <1>2, <3>1 DEF CleanerRecords
      <4>2. \A y \in cleaner.left : y = Export
        BY <4>1, ObjectsAre
      <4> QED
        BY <3>1, <4>2
    <3> QED
      BY <1>2, <3>1
  <2>5. stage = "exports" => object = Export
    BY <1>2
  <2>6. stage \in {"exports", "removing"}
    OBVIOUS
  <2> HIDE DEF o, c, stage, rest, object
  <2>7. /\ Holder(object) \notin out[p].locked
        /\ \A x \in out[p].objects : Holder(x) # object
    BY <1>4 DEF Removable
  <2>8. Tree(o.objects)
    BY <1>2, <2>2, <2>7 DEF OutputFits, Tree
  <2>9. object = Export => o.objects = {}
    BY <2>2, <2>8, TreeFacts DEF Outputs
  <2>10. ~Good(exporter[p])
    <3>1. ASSUME Good(exporter[p])
          PROVE  FALSE
      <4>1. /\ out[p].objects = 1 .. Export
            /\ (1 .. Export) \ {object} \subseteq out[p].locked
        BY <1>2, <1>3, <3>1 DEF OutputFits
      <4>2. CASE object = Export
        BY <2>2, <2>9, <4>1, <4>2, ObjectsAre
      <4>3. CASE object # Export
        BY <1>2, <2>7, <4>1, <4>3, HolderFacts
      <4> QED
        BY <4>2, <4>3
    <3> QED
      BY <3>1
  <2> HIDE DEF p
  <2> QED
    BY <1>1, <1>2, <2>1, <2>2, <2>3, <2>4, <2>5, <2>6, <2>8, <2>9, <2>10,
       RemovingKeepsInv DEF p
<1>5. CASE ~Removable(p, object)
  <2> DEFINE c == [cleaner EXCEPT !.stage = "raised"]
  <2>1. out' = [out EXCEPT ![p] = out[p]] /\ cleaner' = c
    BY <1>2, <1>5 DEF RemoveEntry
  <2>2. /\ c \in CleanerRecords /\ c.stage = "raised" /\ c.target = p
        /\ c.targets = cleaner.targets /\ c.left = cleaner.left
    BY <1>2 DEF CleanerRecords
  <2> HIDE DEF c
  <2>3. Opened(p)' = {object}
    BY <2>1, <2>2 DEF Opened
  <2> HIDE DEF object
  <2>4. /\ Tree(out[p].objects)
        /\ Good(exporter[p]) =>
               /\ out[p].objects = 1 .. Export
               /\ (1 .. Export) \ Opened(p)' \subseteq out[p].locked
    BY <1>2, <1>3, <2>3 DEF OutputFits
  <2> HIDE DEF p
  <2> QED
    BY <1>1, <1>2, <2>1, <2>2, <2>4, RemovingKeepsInv DEF p
<1> QED
  BY <1>4, <1>5

-----------------------------------------------------------------------------
(* The invariant *)

LEMMA InitInv == LabInit => Inv
<1> SUFFICES ASSUME LabInit PROVE Inv
  OBVIOUS
<1> DEFINE x == [kind |-> "export", stage |-> "idle", at |-> 1,
                 seen |-> [f \in Names |-> 0], before |-> 0, base |-> 0,
                 bound |-> 0, marked |-> FALSE, lease |-> "none",
                 answer |-> "none", revocation |-> "none", during |-> {}]
           o == [objects |-> {}, locked |-> {}]
<1>1. /\ \A p \in Exporters : exporter[p] = x /\ out[p] = o
      /\ exporter = [p \in Exporters |-> x] /\ out = [p \in Exporters |-> o]
      /\ draft = [f \in Names |-> 0] /\ published = 0 /\ lock = None
      /\ gateway = [at |-> 0, edit |-> 0] /\ gateway = NoSession
      /\ cleaner = [stage |-> "idle", target |-> None, targets |-> {},
                    left |-> {}]
      /\ edits = 0 /\ crashes = 0
  BY DEF LabInit, NoSession
<1>2. /\ 0 \in 0 .. Gone /\ 0 \in 0 .. MaxEdits /\ 0 \in 0 .. N
      /\ 0 \in 0 .. MaxCrashes /\ 1 \in 1 .. N + 5
  BY LabAssumption DEF Gone
<1>3. x \in ExporterRecords
  <2>1. "idle" \in Stages /\ [f \in Names |-> 0] \in [Names -> 0 .. Gone]
    BY <1>2 DEF Stages
  <2> QED
    BY <1>2, <2>1 DEF ExporterRecords
<1>4. o \in Outputs
  BY DEF Outputs
<1>5. /\ x.kind = "export" /\ x.stage = "idle" /\ x.at = 1 /\ x.before = 0
      /\ x.base = 0 /\ ~x.marked /\ x.lease = "none" /\ x.answer = "none"
      /\ x.revocation = "none" /\ o.objects = {}
  OBVIOUS
<1> HIDE DEF x, o
<1>6. LabTypeOK
  BY <1>1, <1>2, <1>3, <1>4 DEF LabTypeOK, Drafts, CleanerRecords
<1>7. LocksFit
  BY <1>1, <1>5 DEF LocksFit, Holding, PassStages, Bundling
<1>8. EditsFit
  BY <1>1 DEF EditsFit
<1>9. LoopFits(x) /\ SnapshotFits(x) /\ KindFits(x)
  BY <1>5 DEF LoopFits, SnapshotFits, KindFits, PassStages, Bundling, Sealed,
     Leasing
<1>10. BaseFits(x) /\ LeaseFits(x)
  BY <1>1, <1>5 DEF BaseFits, LeaseFits, Bundling, Leasing, Compared
<1>11. ScriptsFit
  BY <1>1, <1>9, <1>10 DEF ScriptsFit
<1>12. OutputsFit
  BY <1>1, <1>5 DEF OutputsFit, OutputFits, Tree, Unmarked, Good
<1>13. CleanerFits
  BY <1>1, LabAssumption DEF CleanerFits
<1> QED
  BY <1>6, <1>7, <1>8, <1>11, <1>12, <1>13 DEF Inv

LEMMA NextKeepsInv == Inv /\ [LabNext]_labVars => Inv'
<1> SUFFICES ASSUME Inv, [LabNext]_labVars PROVE Inv'
  OBVIOUS
<1>1. CASE UNCHANGED labVars
  BY <1>1 DEF labVars, Inv, LabTypeOK, LocksFit, EditsFit, ScriptsFit, LoopFits,
     SnapshotFits, Existed, KindFits, BaseFits, LeaseFits, Compared,
     OutputsFit, OutputFits, Unmarked, Good, Opened, CleanerFits
<1>2. ASSUME NEW p \in Exporters, Script(p)
      PROVE  Inv'
  <2>1. CASE \/ \E kind \in {"validate", "export"} : Begin(p, kind)
             \/ Lock(p) \/ Collect(p) \/ Compare(p) \/ Validate(p)
             \/ Refuse(p) \/ Release(p) \/ Prepare(p) \/ Break(p)
    BY <2>1, BeginKeepsInv, LockKeepsInv, CollectKeepsInv, CompareKeepsInv,
       PassingKeepsInv, ReleaseKeepsInv
  <2>2. CASE \/ Guard(p) \/ Open(p) \/ Stage(p) \/ Write(p) \/ Link(p)
             \/ Mark(p) \/ Harden(p) \/ Prove(p) \/ Fail(p)
    BY <2>2, GuardKeepsInv, OpenKeepsInv, StageKeepsInv, WriteKeepsInv,
       LinkKeepsInv, MarkKeepsInv, HardenKeepsInv, ProveKeepsInv,
       FailKeepsInv
  <2>3. CASE CheckPatch(p) \/ CompareIntegrity(p) \/ Finalize(p) \/ Revoke(p)
    BY <2>3, CheckPatchKeepsInv, CompareIntegrityKeepsInv, EndKeepsInv
  <2> QED
    BY <1>2, <2>1, <2>2, <2>3 DEF Script
<1>3. CASE Cleanup
  <2>1. CASE RemoveDraft
    BY <2>1, RemoveDraftKeepsInv
  <2>2. CASE \/ StartCleanup \/ ListExports
             \/ \E p \in Exporters : EnterExport(p)
             \/ ListCandidate \/ EndCleanup
    BY <2>2, StartCleanupKeepsInv, ListExportsKeepsInv, EnterExportKeepsInv,
       ListCandidateKeepsInv, EndCleanupKeepsInv
  <2>3. CASE MakeWritable \/ RemoveEntry
    BY <2>3, MakeWritableKeepsInv, RemoveEntryKeepsInv
  <2> QED
    BY <1>3, <2>1, <2>2, <2>3 DEF Cleanup
<1>4. CASE \E p \in Exporters : RevokeReceipt(p) \/ Crash(p)
  BY <1>4, RevokeReceiptKeepsInv, CrashKeepsInv
<1>5. CASE \E f \in Names : EditDraft(f)
  BY <1>5, EditDraftKeepsInv
<1>6. CASE OpenSession \/ WriteDraft \/ CrashGateway \/ EditPublished
  BY <1>6, OpenSessionKeepsInv, WriteDraftKeepsInv, CrashGatewayKeepsInv,
     EditPublishedKeepsInv
<1> QED
  BY <1>1, <1>2, <1>3, <1>4, <1>5, <1>6 DEF LabNext

LEMMA Invariance == LabSpec => []Inv
<1> QED
  BY InitInv, NextKeepsInv, PTL DEF LabSpec

-----------------------------------------------------------------------------
(* What the lab promises *)

(* Draft, lock, scripts, directories and cleanup keep their shape. *)
THEOREM TypeCorrect == LabSpec => []LabTypeOK
<1>1. Inv => LabTypeOK
  BY DEF Inv
<1> QED
  BY <1>1, Invariance, PTL

(* A candidate that validate or export_workflow_lab_app accepts is a draft *)
(* that was there, as a whole, at one instant since the script took the    *)
(* lock, and not the half of one that a gateway is about to write, though  *)
(* editors and the cleanup know no lock: the second pass of the snapshot   *)
(* finds it.                                                               *)
THEOREM CandidateExists == LabSpec => []CandidateExisted
<1>1. Inv => CandidateExisted
  BY DEF Inv, ScriptsFit, SnapshotFits, CandidateExisted, Accepted, Sealed
<1> QED
  BY <1>1, Invariance, PTL

(* The answer of an export and its directory agree, whoever edits, cleans  *)
(* up, revokes or dies, and whatever call fails: after a success all of    *)
(* the bundle is there, and read-only up to the one object that a cleanup  *)
(* made writable before it could not remove it; a manifest has gone when a *)
(* revocation has returned, and when an export failed without another word *)
(* that had a handle of its manifest; and a manifest that no cleanup has   *)
(* come near marks a whole bundle (_write_export_bundle,                   *)
(* _ExportProofLease, revoke_export_commit and the cleanup of exports).    *)
THEOREM AnswersMatchExports == LabSpec => []AnswerMatchesExport
<1>1. ASSUME Inv, NEW p \in Exporters
      PROVE  /\ Marker \in out[p].objects /\ cleaner.target # p
                => out[p].objects = 1 .. Export
             /\ Good(exporter[p])
                => /\ out[p].objects = 1 .. Export
                   /\ cleaner.target # p => out[p].locked = 1 .. Export
                   /\ \E x \in 1 .. Export :
                         (1 .. Export) \ {x} \subseteq out[p].locked
             /\ \/ exporter[p].revocation = "done"
                \/ exporter[p].answer = "failed" /\ exporter[p].marked
                => Marker \notin out[p].objects
  <2>1. /\ OutputFits(exporter[p], out[p], cleaner.target = p, Opened(p))
        /\ out[p] \in Outputs
    BY <1>1, ScriptFacts
  <2>2. Marker \in out[p].objects => Export \in out[p].objects
    BY <2>1, TreeFacts DEF OutputFits, Outputs
  <2>3. \E x \in 1 .. Export : Opened(p) \cap (1 .. Export) \subseteq {x}
    BY ObjectsAre DEF Opened
  <2>4. cleaner.target # p => Opened(p) = {}
    BY DEF Opened
  <2> QED
    BY <2>1, <2>2, <2>3, <2>4 DEF OutputFits, Unmarked, Outputs
<1>2. Inv => AnswerMatchesExport
  BY <1>1 DEF AnswerMatchesExport, Good
<1> QED
  BY <1>2, Invariance, PTL

(* A receipt is bound to the published tree its patch was made against     *)
(* (_capture_export_commit_binding between the proofs), and an export that *)
(* succeeded has the base that the integrity captures before and after     *)
(* both saw.                                                               *)
THEOREM BasesAreIntact == LabSpec => []BaseIsIntact
<1>1. Inv => BaseIsIntact
  BY DEF Inv, ScriptsFit, BaseFits, BaseIsIntact
<1> QED
  BY <1>1, Invariance, PTL
=============================================================================
