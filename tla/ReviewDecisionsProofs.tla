----------------------- MODULE ReviewDecisionsProofs -----------------------
(***************************************************************************)
(* Proofs about ReviewDecisions: the first accepted decision stands and    *)
(* its copies agree with it, an answered decision is on disk with the run, *)
(* and requests that find the worker through keep each other's entries in  *)
(* the manifest.                                                           *)
(*                                                                         *)
(* None of this is inductive as it stands.  A decision is recorded, copied *)
(* and listed in a dozen steps, any of which may be the last, so the       *)
(* invariant says for every stage of the request under way which files are *)
(* torn, which hold the decision and which are untouched; and of the       *)
(* manifest, what the request has read of it and whether the worker may    *)
(* still replace it.                                                       *)
(***************************************************************************)
EXTENDS ReviewDecisions, TLAPS

-----------------------------------------------------------------------------
(* The inductive invariant *)

Copies == {"storeJson", "storeMd", "runJson", "runMd"}

FileNames == {"record", "manifest"} \cup Copies

(* The stages with a write in place. *)
Writing == {"creating", "recording", "binding", "listing"} \cup Copies

(* The stages after the copies, of decisions and exports. *)
Ending == {"reading", "listing", "answering"}

(* The request decides, and its decision is in the record or on its way.   *)
Copying ==
    handler.stage \in Copies
    \/ (handler.stage \in Ending /\ handler.name = "decision")

(* What the handler has in hand, by stage. *)
RequestFits ==
    /\ handler.open => handler.stage \in Writing
    /\ handler.stage \in {"submitting", "recording", "binding"} \cup Copies
       => handler.name = "decision"
    /\ handler.stage = "submitting" => handler.asked # None
    /\ handler.stage \in {"recording", "binding"} \/ Copying
       => handler.decision # None
    /\ handler.stage = "creating" /\ handler.name = "decision"
       => handler.asked # None
    /\ handler.stage = "creating" /\ handler.name = "export"
       => handler.seen # None
    /\ handler.stage = "listing" => handler.seen # None

(* Timestamps are taken once per request. *)
ClockFits ==
    /\ clock <= requests
    /\ handler.stage \in {"creating", "submitting"} => clock < requests

NoCopies == \A f \in Copies : files[f] = Absent

CopiesOf(d) == \A f \in Copies : files[f] \in {Absent, Torn, d}

Bound(d) == [decision |-> d, bound |-> TRUE]

(* The record, while a request is at it and for as long as none is. *)
RecordFits ==
    /\ handler.stage = "creating" =>
          /\ NoCopies
          /\ files.record = IF handler.open THEN Torn ELSE Absent
    /\ handler.stage = "submitting" => files.record \in Records
    /\ handler.stage = "recording" =>
          /\ NoCopies
          /\ IF handler.open THEN files.record = Torn
             ELSE files.record \in Records /\ files.record.decision = None
    /\ handler.stage = "binding" =>
          /\ CopiesOf(handler.decision)
          /\ IF handler.open THEN files.record = Torn
             ELSE /\ files.record \in Records
                  /\ files.record.decision = handler.decision
                  /\ ~files.record.bound
    /\ Copying => files.record = Bound(handler.decision)

(* The copies follow the record. *)
CopiesFit ==
    /\ files.record = Absent => NoCopies
    /\ files.record \in Records =>
          IF files.record.decision = None THEN NoCopies
          ELSE CopiesOf(files.record.decision)

(* What is answered has been recorded with its run. *)
AckedFits == \A d \in acked : files.record = Bound(d)

(* The run's copies, once the request has passed them. *)
BackingFits ==
    /\ handler.stage \in Copies /\ handler.open => files[handler.stage] = Torn
    /\ handler.stage = "runMd" => files.runJson = handler.decision
    /\ handler.stage \in Ending /\ handler.name = "decision" =>
          files.runJson = handler.decision /\ files.runMd = handler.decision

(* The manifest belongs to the handlers once the worker is through; before *)
(* that nothing is listed yet.                                             *)
ListingFits ==
    /\ handler.settled => run.stage = "over"
    /\ handler.stage # "idle" /\ ~handler.settled => listed = {}
    /\ listed # {} => run.stage = "over" /\ files.manifest # Absent
    /\ files.manifest \in Manifests => listed \subseteq files.manifest.names
    /\ handler.seen # None => listed \subseteq handler.seen.names
    /\ handler.settled /\ handler.stage = "listing" /\ handler.open
       => files.manifest = Torn
    /\ handler.settled /\ handler.stage = "answering"
       => files.manifest \in Manifests /\ handler.name \in files.manifest.names

Inv ==
    /\ TypeOK
    /\ RequestFits
    /\ ClockFits
    /\ RecordFits
    /\ CopiesFit
    /\ AckedFits
    /\ BackingFits
    /\ ListingFits

-----------------------------------------------------------------------------
(* Records and files *)

LEMMA IdleFields ==
    /\ Idle \in Handlers
    /\ Idle.stage = "idle" /\ ~Idle.open /\ ~Idle.settled /\ Idle.seen = None
    /\ Idle.name = "decision" /\ Idle.decision = None /\ Idle.asked = None
BY DEF Idle, Handlers

LEMMA FileFields ==
    ASSUME TypeOK
    PROVE  /\ files.record \in Records \cup Unreadable
           /\ files.manifest \in Manifests \cup Unreadable
           /\ \A f \in Copies : files[f] \in Stamped \cup Unreadable
           /\ files.packet \in BOOLEAN
BY DEF TypeOK, Files, Copies

LEMMA HandlerFields ==
    ASSUME TypeOK
    PROVE  /\ handler.stage \in {"idle", "creating", "submitting", "recording",
                                 "binding"} \cup Copies \cup Ending
           /\ handler.name \in {"decision", "export"}
           /\ handler.asked \in Decisions \cup {None}
           /\ handler.decision \in Stamped \cup {None}
           /\ handler.seen \in Manifests \cup {None}
           /\ handler.again \in BOOLEAN /\ handler.open \in BOOLEAN
           /\ handler.settled \in BOOLEAN
BY DEF TypeOK, Handlers, Copies, Ending

LEMMA BoundFields ==
    ASSUME NEW d \in Stamped
    PROVE  /\ Bound(d) \in Records /\ Bound(d) \notin Unreadable
           /\ Bound(d).decision = d /\ Bound(d).bound /\ d # None
<1>1. Bound(d) \in Records /\ Bound(d).decision = d /\ Bound(d).bound
  BY DEF Bound, Records
<1> HIDE DEF Bound
<1> QED
  BY <1>1, ReviewAssumption

(* A write in place touches one file, and truncates it or fills it. *)
LEMMA WriteInPlace ==
    ASSUME TypeOK, NEW file \in FileNames, NEW content, NEW next \in Handlers,
           Writes(file, content, next)
    PROVE  /\ \A f \in FileNames \ {file} : files'[f] = files[f]
           /\ files'.packet = files.packet
           /\ \/ /\ ~handler.open /\ files'[file] = Torn
                 /\ handler' = [handler EXCEPT !.open = TRUE]
              \/ /\ handler.open /\ files'[file] \in Filled(file, content)
                 /\ handler' = [next EXCEPT !.open = FALSE]
BY DEF TypeOK, Writes, Files, FileNames, Copies

LEMMA SameFiles ==
    ASSUME TypeOK, files' \in Files, NEW file \in FileNames,
           \A f \in FileNames \ {file} : files'[f] = files[f]
    PROVE  /\ file # "record" => files'.record = files.record
           /\ file # "manifest" => files'.manifest = files.manifest
           /\ \A f \in Copies \ {file} : files'[f] = files[f]
BY DEF FileNames, Copies

(* The handler goes on with next, which is its old value but for the stage *)
LEMMA NextFields ==
    ASSUME TypeOK, NEW stage \in Writing \cup Ending \cup {"submitting"}
    PROVE  /\ To(stage) \in Handlers /\ To(stage).stage = stage
           /\ To(stage).name = handler.name
           /\ To(stage).asked = handler.asked
           /\ To(stage).decision = handler.decision
           /\ To(stage).seen = handler.seen
           /\ To(stage).again = handler.again
           /\ To(stage).settled = handler.settled
BY DEF TypeOK, To, Handlers, Writing, Ending, Copies

(* A request that ends. *)
LEMMA EndingKeepsInv ==
    ASSUME Inv, handler' = Idle, UNCHANGED <<files, acked, listed, clock>>,
           requests' = requests, crashes' \in 0 .. MaxCrashes,
           run' \in Runs, run.stage = "over" => run'.stage = "over"
    PROVE  Inv'
<1> USE DEF Inv
<1>1. TypeOK'
  BY IdleFields DEF TypeOK
<1>2. RequestFits' /\ ClockFits' /\ RecordFits' /\ CopiesFit'
  BY IdleFields DEF RequestFits, ClockFits, RecordFits, CopiesFit, Copying,
     Copies, Ending, NoCopies, CopiesOf
<1>3. AckedFits' /\ BackingFits' /\ ListingFits'
  BY IdleFields DEF AckedFits, BackingFits, ListingFits, Copies, Ending
<1> QED
  BY <1>1, <1>2, <1>3

(* A step of the worker, which has only the packet and the manifest. *)
LEMMA WorkKeepsInv ==
    ASSUME Inv, run' \in Runs, run.stage # "over", files' \in Files,
           UNCHANGED <<handler, acked, listed, clock, requests, crashes>>,
           \A f \in {"record"} \cup Copies : files'[f] = files[f]
    PROVE  Inv'
<1> USE DEF Inv
<1>1. TypeOK'
  BY DEF TypeOK
<1>2. files'.record = files.record /\ \A f \in Copies : files'[f] = files[f]
  OBVIOUS
<1>3. RequestFits' /\ ClockFits'
  BY DEF RequestFits, ClockFits, Copying
<1>4. RecordFits' /\ CopiesFit'
  BY <1>2 DEF RecordFits, CopiesFit, Copying, NoCopies, CopiesOf
<1>5. AckedFits' /\ BackingFits'
  BY <1>2 DEF AckedFits, BackingFits, Copies
<1>6. ListingFits'
  BY DEF ListingFits
<1> QED
  BY <1>1, <1>3, <1>4, <1>5, <1>6

-----------------------------------------------------------------------------
(* The worker, exceptions and restarts *)

LEMMA WorkerKeepsInv ==
    ASSUME Inv, Work \/ Raise
    PROVE  Inv'
<1> USE DEF Inv
<1>1. run \in Runs /\ files \in Files
  BY DEF TypeOK
<1>2. FinalManifest \in Manifests
  BY DEF FinalManifest, Manifests
<1>3. CASE FinishStep
  BY <1>1, <1>3, WorkKeepsInv DEF FinishStep, Advance, Runs
<1>4. CASE WritePacket
  <2>1. /\ files' \in Files
        /\ \A f \in {"record"} \cup Copies : files'[f] = files[f]
    BY <1>1, <1>4 DEF WritePacket, Files, Copies
  <2> QED
    BY <1>1, <1>4, <2>1, WorkKeepsInv DEF WritePacket, Advance, Runs
<1>5. CASE WriteManifest
  <2>1. PICK c \in Manifests \cup Unreadable :
           files' = [files EXCEPT !.manifest = c]
    <3>1. Filled("manifest", FinalManifest) \subseteq Manifests \cup Unreadable
      BY <1>2, FileFields DEF Filled, Unreadable
    <3> QED
      BY <1>2, <1>5, <3>1 DEF WriteManifest, Unreadable
  <2>2. /\ files' \in Files
        /\ \A f \in {"record"} \cup Copies : files'[f] = files[f]
    BY <1>1, <2>1 DEF Files, Unreadable, Copies
  <2> QED
    BY <1>1, <1>5, <2>2, WorkKeepsInv DEF WriteManifest, Advance, Runs
<1>6. CASE RecordResult
  BY <1>1, <1>6, WorkKeepsInv DEF RecordResult, Advance, Runs
<1>7. CASE Raise
  BY <1>1, <1>7, WorkKeepsInv DEF Raise, Advance, Runs
<1> QED
  BY <1>3, <1>4, <1>5, <1>6, <1>7 DEF Work

LEMMA BreakKeepsInv ==
    ASSUME Inv, Fail \/ Crash
    PROVE  Inv'
<1>1. TypeOK
  BY DEF Inv
<1>2. run' \in Runs /\ (run.stage = "over" => run'.stage = "over")
  BY <1>1 DEF TypeOK, Runs, Fail, Crash
<1>3. crashes' \in 0 .. MaxCrashes
  BY <1>1, ReviewAssumption DEF TypeOK, Fail, Crash
<1> QED
  BY <1>2, <1>3, EndingKeepsInv DEF Fail, Crash

-----------------------------------------------------------------------------
(* Requests *)

LEMMA BeginKeepsInv ==
    ASSUME Inv, NEW name \in {"decision", "export"},
           NEW asked \in Decisions \cup {None},
           NEW seen \in Manifests \cup {None}, NEW again \in BOOLEAN,
           name = "decision" => /\ asked # None /\ seen = None
                                /\ files.record # Absent \/ NeedsReview,
           name = "export" => seen # None /\ seen = files.manifest,
           Begin(name, asked, seen, again)
    PROVE  Inv'
<1> USE DEF Inv
<1> DEFINE stage == IF files.record = Absent /\ NeedsReview THEN "creating"
                    ELSE IF name = "decision" THEN "submitting"
                    ELSE "listing"
<1>1. /\ handler.stage = "idle" /\ files.record # Torn
      /\ requests' = requests + 1 /\ requests < MaxRequests
      /\ UNCHANGED <<run, files, acked, listed, clock, crashes>>
  BY DEF Begin
<1>2. /\ handler' \in Handlers /\ handler'.stage = stage
      /\ handler'.name = name /\ handler'.asked = asked
      /\ handler'.seen = seen /\ ~handler'.open
      /\ handler'.settled \in BOOLEAN
      /\ handler'.settled <=> run.stage = "over"
  <2>1. stage \in {"creating", "submitting", "listing"}
    OBVIOUS
  <2>2. PICK settled \in BOOLEAN : settled = (run.stage = "over")
    OBVIOUS
  <2>3. handler' = [Idle EXCEPT !.stage = stage, !.name = name,
                       !.asked = asked, !.seen = seen, !.again = again,
                       !.settled = settled]
    BY <2>2 DEF Begin
  <2>4. settled <=> run.stage = "over"
    BY <2>2
  <2> HIDE DEF stage
  <2>5. handler' = [stage |-> stage, name |-> name, asked |-> asked,
                    decision |-> None, seen |-> seen, again |-> again,
                    open |-> FALSE, settled |-> settled]
    BY <2>3 DEF Idle
  <2>6. /\ handler'.stage = stage /\ handler'.name = name
        /\ handler'.asked = asked /\ handler'.seen = seen
        /\ ~handler'.open /\ handler'.settled = settled
    BY <2>5
  <2>7. handler' \in Handlers
    BY <2>1, <2>5 DEF Handlers
  <2> QED
    BY <2>4, <2>6, <2>7
<1>3. /\ stage \in {"creating", "submitting", "listing"}
      /\ stage = "creating" => files.record = Absent
      /\ stage = "submitting" => name = "decision" /\ files.record # Absent
      /\ stage = "listing" => name = "export"
  BY <1>1
<1> HIDE DEF stage
<1>4. TypeOK'
  BY <1>1, <1>2, ReviewAssumption DEF TypeOK
<1>5. RequestFits' /\ ClockFits'
  BY <1>1, <1>2, <1>3 DEF RequestFits, ClockFits, Copying, Copies, Ending,
     TypeOK
<1>6. RecordFits' /\ CopiesFit'
  <2>1. files.record \in Records \cup Unreadable
    BY FileFields
  <2> QED
    BY <1>1, <1>2, <1>3, <2>1 DEF RecordFits, CopiesFit, Copying, Copies,
       Ending, NoCopies, CopiesOf, Unreadable
<1>7. AckedFits' /\ BackingFits'
  BY <1>1, <1>2, <1>3 DEF AckedFits, BackingFits, Copies, Ending
<1>8. ListingFits'
  BY <1>1, <1>2, <1>3 DEF ListingFits
<1> QED
  BY <1>4, <1>5, <1>6, <1>7, <1>8

LEMMA RequestKeepsInv ==
    ASSUME Inv, (\E payload \in Decisions : Decide(payload)) \/ Export
    PROVE  Inv'
<1>1. files.manifest \in Manifests \cup Unreadable
  BY FileFields DEF Inv
<1>2. ASSUME NEW payload \in Decisions, Decide(payload)
      PROVE  Inv'
  <2>1. payload # None
    BY ReviewAssumption
  <2> QED
    BY <1>2, <2>1, BeginKeepsInv DEF Decide
<1>3. ASSUME Export
      PROVE  Inv'
  <2>1. PICK again \in {FALSE, run.adk} :
           Begin("export", None, files.manifest, again)
    BY <1>3 DEF Export
  <2>2. again \in BOOLEAN
    BY DEF Inv, TypeOK, Runs
  <2>3. files.manifest \in Manifests /\ files.manifest # None
    BY <1>1, <1>3, ReviewAssumption DEF Export
  <2> QED
    BY <2>1, <2>2, <2>3, BeginKeepsInv
<1> QED
  BY <1>2, <1>3

LEMMA SubmitKeepsInv ==
    ASSUME Inv, Submit
    PROVE  Inv'
<1> USE DEF Inv
<1> DEFINE found == files.record.decision
<1>1. /\ handler.stage = "submitting" /\ handler.name = "decision"
      /\ handler.asked \in Decisions /\ ~handler.open
      /\ files.record \in Records /\ found \in Stamped \cup {None}
  BY HandlerFields DEF Submit, RequestFits, RecordFits, Records, Writing,
     Copies
<1>2. UNCHANGED <<run, files, acked, listed, requests, crashes>>
  BY DEF Submit
<1>3. CASE handler' = Idle /\ clock' = clock
  BY <1>2, <1>3, EndingKeepsInv DEF TypeOK
<1>4. ASSUME NEW stage \in {"recording", "binding", "runJson"},
             NEW d \in Stamped, d # None,
             handler' = [To(stage) EXCEPT !.decision = d],
             clock' \in 0 .. MaxRequests, clock' <= requests,
             stage = "recording" => found = None,
             stage # "recording" =>
                 found = d /\ (files.record.bound <=> stage = "runJson")
      PROVE  Inv'
  <2>1. /\ handler' \in Handlers /\ handler'.stage = stage
        /\ handler'.name = "decision" /\ handler'.decision = d
        /\ handler'.seen = handler.seen /\ ~handler'.open
        /\ handler'.settled = handler.settled
    BY <1>1, <1>4 DEF TypeOK, Handlers, To
  <2>2. TypeOK'
    BY <1>2, <1>4, <2>1 DEF TypeOK
  <2>3. RequestFits' /\ ClockFits'
    BY <1>2, <1>4, <2>1 DEF RequestFits, ClockFits, Copying, Copies, Ending
  <2>4. stage = "runJson" => files.record = Bound(d)
    BY <1>1, <1>4 DEF Records, Bound
  <2>5. RecordFits' /\ CopiesFit'
    BY <1>1, <1>2, <1>4, <2>1, <2>4 DEF RecordFits, CopiesFit, Copying,
       Copies, Ending, NoCopies, CopiesOf
  <2>6. AckedFits' /\ BackingFits'
    BY <1>2, <1>4, <2>1 DEF AckedFits, BackingFits, Copies, Ending
  <2>7. ListingFits'
    BY <1>1, <1>2, <1>4, <2>1 DEF ListingFits
  <2> QED
    BY <2>2, <2>3, <2>5, <2>6, <2>7
<1>5. CASE /\ found = None /\ clock' = clock + 1
           /\ handler' = [To("recording") EXCEPT
                 !.decision = [payload |-> handler.asked, at |-> clock + 1]]
  <2> DEFINE d == [payload |-> handler.asked, at |-> clock + 1]
  <2>1. clock + 1 \in 0 .. MaxRequests /\ clock + 1 <= requests
    BY <1>1, ReviewAssumption DEF ClockFits, TypeOK
  <2>2. d \in Stamped /\ d # None
    BY <1>1, <2>1, ReviewAssumption DEF Stamped
  <2> HIDE DEF d
  <2>3. handler' = [To("recording") EXCEPT !.decision = d]
    BY <1>5 DEF d
  <2> QED
    BY <1>4, <1>5, <2>1, <2>2, <2>3
<1>6. CASE /\ found # None /\ clock' = clock
           /\ handler' = [To(IF files.record.bound THEN "runJson"
                             ELSE "binding") EXCEPT !.decision = found]
  <2>1. clock \in 0 .. MaxRequests /\ clock <= requests
    BY DEF TypeOK, ClockFits
  <2>2. found \in Stamped /\ found # None
    BY <1>1, <1>6
  <2> HIDE DEF found
  <2>3. CASE files.record.bound
    BY <1>4, <1>6, <2>1, <2>2, <2>3
  <2>4. CASE ~files.record.bound
    BY <1>4, <1>6, <2>1, <2>2, <2>4
  <2> QED
    BY <2>3, <2>4
<1> QED
  BY <1>3, <1>5, <1>6 DEF Submit

LEMMA ReadManifestKeepsInv ==
    ASSUME Inv, ReadManifest
    PROVE  Inv'
<1> USE DEF Inv
<1>1. /\ handler.stage = "reading" /\ ~handler.open
      /\ UNCHANGED <<run, files, acked, listed, clock, requests, crashes>>
  BY HandlerFields DEF ReadManifest, RequestFits, Writing, Copies
<1>2. CASE handler' = Idle
  BY <1>1, <1>2, EndingKeepsInv DEF TypeOK
<1>3. ASSUME NEW seen \in Manifests, listed \subseteq seen.names,
             handler' = [To("listing") EXCEPT !.seen = seen]
      PROVE  Inv'
  <2>1. /\ handler' \in Handlers /\ handler'.stage = "listing"
        /\ handler'.name = handler.name
        /\ handler'.decision = handler.decision
        /\ handler'.seen = seen /\ ~handler'.open
        /\ handler'.settled = handler.settled
    BY <1>1, <1>3 DEF TypeOK, Handlers, To
  <2>2. TypeOK'
    BY <1>1, <2>1 DEF TypeOK
  <2>3. RequestFits' /\ ClockFits'
    BY <1>1, <1>3, <2>1, ReviewAssumption
       DEF RequestFits, ClockFits, Copying, Copies, Ending
  <2>4. RecordFits' /\ CopiesFit'
    BY <1>1, <2>1 DEF RecordFits, CopiesFit, Copying,
       Copies, Ending, NoCopies, CopiesOf
  <2>5. AckedFits' /\ BackingFits'
    BY <1>1, <2>1 DEF AckedFits, BackingFits, Copies, Ending
  <2>6. ListingFits'
    BY <1>1, <1>3, <2>1 DEF ListingFits
  <2> QED
    BY <2>2, <2>3, <2>4, <2>5, <2>6
<1>4. CASE /\ files.manifest = Absent
           /\ handler' = [To("listing") EXCEPT
                 !.seen = [final |-> FALSE, names |-> {}]]
  <2>1. [final |-> FALSE, names |-> {}] \in Manifests /\ listed = {}
    BY <1>4 DEF Manifests, ListingFits
  <2> QED
    BY <1>3, <1>4, <2>1
<1>5. CASE /\ files.manifest \notin Unreadable
           /\ handler' = [To("listing") EXCEPT !.seen = files.manifest]
  <2>1. files.manifest \in Manifests /\ listed \subseteq files.manifest.names
    BY <1>5, FileFields DEF ListingFits
  <2> QED
    BY <1>3, <1>5, <2>1
<1> QED
  BY <1>2, <1>4, <1>5 DEF ReadManifest, Unreadable

LEMMA AnswerKeepsInv ==
    ASSUME Inv, Answer
    PROVE  Inv'
<1> USE DEF Inv
<1>1. /\ handler.stage = "answering" /\ handler' = Idle
      /\ acked' = IF handler.name = "decision"
                  THEN acked \cup {handler.decision} ELSE acked
      /\ listed' = IF handler.settled THEN listed \cup {handler.name}
                   ELSE listed
      /\ UNCHANGED <<run, files, clock, requests, crashes>>
  BY DEF Answer
<1>2. handler.name = "decision" =>
         /\ handler.decision \in Stamped
         /\ files.record = Bound(handler.decision)
  BY <1>1, HandlerFields DEF RequestFits, RecordFits, Copying, Ending
<1>3. handler.settled =>
         /\ run.stage = "over" /\ files.manifest \in Manifests
         /\ handler.name \in files.manifest.names
  BY <1>1 DEF ListingFits
<1>4. TypeOK'
  BY <1>1, <1>2, IdleFields, HandlerFields DEF TypeOK
<1>5. RequestFits' /\ ClockFits' /\ RecordFits' /\ CopiesFit'
  BY <1>1, IdleFields DEF RequestFits, ClockFits, RecordFits, CopiesFit,
     Copying, Copies, Ending, NoCopies, CopiesOf
<1>6. AckedFits' /\ BackingFits'
  BY <1>1, <1>2, IdleFields DEF AckedFits, BackingFits, Copies, Ending
<1>7. ListingFits'
  BY <1>1, <1>3, IdleFields, ReviewAssumption DEF ListingFits, Unreadable
<1> QED
  BY <1>4, <1>5, <1>6, <1>7

-----------------------------------------------------------------------------
(* Writes in place *)

FileOf(stage) ==
    IF stage \in {"creating", "recording", "binding"} THEN "record"
    ELSE IF stage = "listing" THEN "manifest"
    ELSE stage

(* The file of the stage is truncated. *)
LEMMA TruncatingKeepsInv ==
    ASSUME Inv, handler.stage \in Writing, ~handler.open,
           files' = [files EXCEPT ![FileOf(handler.stage)] = Torn],
           handler' = [handler EXCEPT !.open = TRUE],
           UNCHANGED <<run, acked, listed, clock, requests, crashes>>
    PROVE  Inv'
<1> USE DEF Inv
<1> DEFINE file == FileOf(handler.stage)
<1>1. file \in FileNames
  BY DEF FileOf, FileNames, Writing
<1>2. files' \in Files /\ files'[file] = Torn
      /\ \A f \in FileNames \ {file} : files'[f] = files[f]
  <2> HIDE DEF file
  <2>1. files' = [files EXCEPT ![file] = Torn]
    BY DEF file
  <2> QED
    BY <1>1, <2>1 DEF TypeOK, Files, FileNames, Copies, Unreadable
<1>3. /\ handler' \in Handlers /\ handler'.stage = handler.stage
      /\ handler'.name = handler.name /\ handler'.asked = handler.asked
      /\ handler'.decision = handler.decision
      /\ handler'.seen = handler.seen /\ handler'.open
      /\ handler'.settled = handler.settled
  BY DEF TypeOK, Handlers
<1>4. TypeOK'
  BY <1>2, <1>3 DEF TypeOK
<1>5. RequestFits' /\ ClockFits'
  BY <1>3 DEF RequestFits, ClockFits, Copying
<1>6. ~Copying \/ file # "record"
  BY DEF Copying, Copies, Ending, FileOf
<1>7. CASE file = "record"
  <2>1. /\ files'.record = Torn /\ files'.manifest = files.manifest
        /\ \A f \in Copies : files'[f] = files[f]
    BY <1>2, <1>7 DEF FileNames, Copies
  <2>2. handler.stage \in {"creating", "recording", "binding"}
    BY <1>7 DEF FileOf, Writing, Copies
  <2>3. RecordFits'
    BY <1>3, <2>1, <2>2 DEF RecordFits, Copying, Copies, Ending,
       NoCopies, CopiesOf
  <2>4. CopiesFit'
    BY <2>1, ReviewAssumption DEF CopiesFit, Unreadable
  <2>5. acked = {}
    <3> SUFFICES ASSUME NEW d \in acked
                 PROVE  FALSE
      OBVIOUS
    <3>1. files.record = Bound(d) /\ d \in Stamped
      BY DEF AckedFits, TypeOK
    <3> QED
      BY <2>2, <3>1, BoundFields DEF RecordFits, Unreadable
  <2>6. AckedFits' /\ BackingFits'
    BY <1>3, <2>1, <2>2, <2>5 DEF AckedFits, BackingFits, Copies, Ending
  <2>7. ListingFits'
    BY <1>3, <2>1, <2>2 DEF ListingFits
  <2> QED
    BY <1>4, <1>5, <2>3, <2>4, <2>6, <2>7
<1>8. CASE file = "manifest"
  <2>1. /\ files'.record = files.record /\ files'.manifest = Torn
        /\ \A f \in Copies : files'[f] = files[f]
    BY <1>2, <1>8 DEF FileNames, Copies
  <2>2. handler.stage = "listing"
    BY <1>8 DEF FileOf, Writing, Copies
  <2>3. RecordFits' /\ CopiesFit'
    BY <1>3, <2>1, <2>2 DEF RecordFits, CopiesFit, Copying, Copies, Ending,
       NoCopies, CopiesOf
  <2>4. AckedFits' /\ BackingFits'
    BY <1>3, <2>1, <2>2 DEF AckedFits, BackingFits, Copies, Ending
  <2>5. ListingFits'
    BY <1>3, <2>1, <2>2, ReviewAssumption DEF ListingFits, Unreadable
  <2> QED
    BY <1>4, <1>5, <2>3, <2>4, <2>5
<1>9. CASE file \in Copies
  <2>1. /\ files'.record = files.record /\ files'.manifest = files.manifest
        /\ \A f \in Copies : files'[f] \in {files[f], Torn}
        /\ files'[file] = Torn
        /\ \A f \in Copies \ {file} : files'[f] = files[f]
    BY <1>2, <1>9 DEF FileNames, Copies
  <2>2. handler.stage = file
    BY <1>9 DEF FileOf, Copies
  <2>3. files.record = Bound(handler.decision) /\ handler.decision \in Stamped
    BY <1>9, <2>2, HandlerFields DEF RecordFits, RequestFits, Copying
  <2>4. /\ files.record \in Records /\ files.record.decision # None
        /\ files.record # Absent
    BY <2>3, BoundFields DEF Unreadable
  <2>5. CopiesFit' /\ RecordFits'
    BY <1>3, <1>9, <2>1, <2>2, <2>3, <2>4 DEF RecordFits, CopiesFit, Copying,
       Copies, Ending, NoCopies, CopiesOf
  <2>6. AckedFits' /\ BackingFits'
    BY <1>3, <1>9, <2>1, <2>2 DEF AckedFits, BackingFits, Copies, Ending
  <2>7. ListingFits'
    BY <1>3, <1>9, <2>1, <2>2 DEF ListingFits, Copies
  <2> QED
    BY <1>4, <1>5, <2>5, <2>6, <2>7
<1> QED
  BY <1>1, <1>7, <1>8, <1>9 DEF FileNames

(* The record is filled. *)
LEMMA RecordingKeepsInv ==
    ASSUME Inv, NEW stage \in {"submitting", "listing", "storeJson", "runJson"},
           NEW rec \in Records,
           handler.stage \in {"creating", "recording", "binding"},
           handler.open, handler' = [To(stage) EXCEPT !.open = FALSE],
           files' = [files EXCEPT !.record = rec],
           UNCHANGED <<run, acked, listed, clock, requests, crashes>>,
           IF handler.stage = "creating"
           THEN rec.decision = None /\ stage =
                   IF handler.name = "decision" THEN "submitting" ELSE "listing"
           ELSE stage \in Copies /\ rec = Bound(handler.decision)
    PROVE  Inv'
<1> USE DEF Inv
<1>1. /\ files' \in Files /\ files'.record = rec
      /\ files'.manifest = files.manifest
      /\ \A f \in Copies : files'[f] = files[f]
  BY DEF TypeOK, Files, Copies
<1>2. /\ handler' \in Handlers /\ handler'.stage = stage
      /\ handler'.name = handler.name /\ handler'.asked = handler.asked
      /\ handler'.decision = handler.decision
      /\ handler'.seen = handler.seen /\ ~handler'.open
      /\ handler'.settled = handler.settled
  BY DEF TypeOK, Handlers, To
<1>3. files.record = Torn
  BY DEF RecordFits
<1>4. TypeOK'
  BY <1>1, <1>2 DEF TypeOK
<1>5. RequestFits' /\ ClockFits'
  BY <1>2, HandlerFields DEF RequestFits, ClockFits, Copying, Copies, Ending
<1>6. acked = {}
  BY <1>3, BoundFields DEF AckedFits, TypeOK, Unreadable
<1>7. /\ handler.stage = "creating" => NoCopies
      /\ handler.stage # "creating" =>
            /\ handler.name = "decision" /\ handler.decision \in Stamped
            /\ CopiesOf(handler.decision)
            /\ rec.decision = handler.decision /\ rec.decision # None
  BY HandlerFields, BoundFields DEF RecordFits, RequestFits, NoCopies, CopiesOf
<1>8. RecordFits'
  BY <1>1, <1>2, <1>7 DEF RecordFits, Copying, Copies, Ending
<1>9. CopiesFit'
  <2>1. rec # Absent
    BY ReviewAssumption DEF Unreadable
  <2> QED
    BY <1>1, <1>7, <2>1 DEF CopiesFit, NoCopies, CopiesOf
<1>10. AckedFits' /\ BackingFits'
  BY <1>1, <1>2, <1>6 DEF AckedFits, BackingFits, Copies, Ending
<1>11. ListingFits'
  BY <1>1, <1>2 DEF ListingFits, Copies
<1> QED
  BY <1>4, <1>5, <1>8, <1>9, <1>10, <1>11

(* A copy of the decision is filled. *)
LEMMA CopyingKeepsInv ==
    ASSUME Inv, NEW stage \in (Copies \ {"storeJson"}) \cup {"reading"},
           handler.stage \in Copies, handler.open,
           stage = "runMd" <=> handler.stage = "runJson",
           stage = "reading" <=> handler.stage = "runMd",
           handler' = [To(stage) EXCEPT !.open = FALSE],
           files' = [files EXCEPT ![handler.stage] = handler.decision],
           UNCHANGED <<run, acked, listed, clock, requests, crashes>>
    PROVE  Inv'
<1> USE DEF Inv
<1> DEFINE file == handler.stage
           d == handler.decision
<1>1. /\ handler.name = "decision" /\ d \in Stamped
      /\ files.record = Bound(d)
  BY HandlerFields DEF RequestFits, RecordFits, Copying
<1>2. /\ files' \in Files /\ files'.record = files.record
      /\ files'.manifest = files.manifest
      /\ files'[file] = d
      /\ \A f \in Copies \ {file} : files'[f] = files[f]
  BY <1>1 DEF TypeOK, Files, Copies
<1>3. /\ handler' \in Handlers /\ handler'.stage = stage
      /\ handler'.name = handler.name /\ handler'.asked = handler.asked
      /\ handler'.decision = d
      /\ handler'.seen = handler.seen /\ ~handler'.open
      /\ handler'.settled = handler.settled
  BY DEF TypeOK, Handlers, To, Copies
<1>4. TypeOK'
  BY <1>2, <1>3 DEF TypeOK
<1>5. RequestFits' /\ ClockFits'
  BY <1>1, <1>3, ReviewAssumption
     DEF RequestFits, ClockFits, Copying, Copies, Ending
<1>6. /\ files.record \in Records /\ files.record.decision = d
      /\ d # None /\ files.record # Absent
  BY <1>1, BoundFields DEF Unreadable
<1>7. RecordFits' /\ CopiesFit'
  <2>1. CopiesOf(d)
    BY <1>6 DEF CopiesFit
  <2>2. CopiesOf(d)'
    BY <1>2, <1>3, <2>1 DEF CopiesOf
  <2> QED
    BY <1>1, <1>2, <1>3, <1>6, <2>2 DEF RecordFits, CopiesFit, Copying,
       Copies, Ending, CopiesOf
<1>8. AckedFits'
  BY <1>2 DEF AckedFits
<1>9. BackingFits'
  BY <1>1, <1>2, <1>3 DEF BackingFits, Copies, Ending
<1>10. ListingFits'
  BY <1>2, <1>3 DEF ListingFits, Copies
<1> QED
  BY <1>4, <1>5, <1>7, <1>8, <1>9, <1>10

(* The manifest is filled, or the worker's stays. *)
LEMMA ListingKeepsInv ==
    ASSUME Inv, NEW next \in Handlers,
           next.stage \in {"reading", "answering"},
           next.name = handler.name, next.decision = handler.decision,
           next.seen = handler.seen, next.settled = handler.settled,
           handler.stage = "listing", handler.open,
           handler' = [next EXCEPT !.open = FALSE],
           NEW c \in Filled("manifest",
                       [handler.seen EXCEPT !.names = @ \cup {handler.name}]),
           files' = [files EXCEPT !.manifest = c],
           UNCHANGED <<run, acked, listed, clock, requests, crashes>>
    PROVE  Inv'
<1> USE DEF Inv
<1> DEFINE content == [handler.seen EXCEPT !.names = @ \cup {handler.name}]
<1>1. /\ content \in Manifests
      /\ content.names = handler.seen.names \cup {handler.name}
      /\ listed \subseteq content.names
  <2>1. handler.seen \in Manifests /\ handler.name \in {"decision", "export"}
    BY HandlerFields DEF RequestFits
  <2>2. listed \subseteq handler.seen.names
    BY <2>1, ReviewAssumption DEF ListingFits
  <2> QED
    BY <2>1, <2>2 DEF Manifests
<1> HIDE DEF content
<1>2. c \in Filled("manifest", content)
  BY DEF content
<1>3. /\ c \in Manifests \cup Unreadable
      /\ handler.settled => c = content
  BY <1>1, <1>2, FileFields, ReviewAssumption
     DEF Filled, ListingFits, Unreadable
<1>4. /\ files' \in Files /\ files'.record = files.record
      /\ files'.manifest = c
      /\ \A f \in Copies : files'[f] = files[f]
  BY <1>3 DEF TypeOK, Files, Copies
<1>5. /\ handler' \in Handlers /\ handler'.stage = next.stage
      /\ handler'.name = handler.name
      /\ handler'.decision = handler.decision
      /\ handler'.seen = handler.seen /\ ~handler'.open
      /\ handler'.settled = handler.settled
  BY DEF Handlers
<1>6. TypeOK'
  BY <1>4, <1>5 DEF TypeOK
<1>7. RequestFits' /\ ClockFits'
  BY <1>5 DEF RequestFits, ClockFits, Copying, Copies, Ending
<1>8. RecordFits' /\ CopiesFit'
  BY <1>4, <1>5 DEF RecordFits, CopiesFit, Copying, Copies, Ending,
     NoCopies, CopiesOf
<1>9. AckedFits' /\ BackingFits'
  BY <1>4, <1>5 DEF AckedFits, BackingFits, Copies, Ending
<1>10. ListingFits'
  <2>1. CASE handler.settled
    BY <1>1, <1>3, <1>4, <1>5, <2>1, ReviewAssumption
       DEF ListingFits, Unreadable
  <2>2. CASE ~handler.settled
    BY <1>4, <1>5, <2>2 DEF ListingFits
  <2> QED
    BY <2>1, <2>2
<1> QED
  BY <1>6, <1>7, <1>8, <1>9, <1>10

LEMMA CreateReviewKeepsInv ==
    ASSUME Inv, CreateReview
    PROVE  Inv'
<1> DEFINE stage == IF handler.name = "decision" THEN "submitting"
                    ELSE "listing"
           rec == [decision |-> None, bound |-> TRUE]
<1>1. /\ handler.stage = "creating" /\ Writes("record", rec, To(stage))
      /\ UNCHANGED <<run, acked, listed, clock, requests, crashes>>
  BY DEF CreateReview
<1>2. rec \in Records /\ rec.decision = None
  BY DEF Records
<1>3. stage \in {"submitting", "listing"}
  OBVIOUS
<1> HIDE DEF rec
<1>4. CASE ~handler.open
  BY <1>1, <1>4, TruncatingKeepsInv DEF Writes, FileOf, Writing
<1>5. CASE handler.open
  <2>1. files.record = Torn
    BY <1>1, <1>5 DEF Inv, RecordFits
  <2>2. files' = [files EXCEPT !.record = rec]
        /\ handler' = [To(stage) EXCEPT !.open = FALSE]
    BY <1>1, <1>5, <2>1 DEF Writes, Filled
  <2> QED
    BY <1>1, <1>2, <1>3, <1>5, <2>2, RecordingKeepsInv
<1> QED
  BY <1>4, <1>5

LEMMA WriteRecordKeepsInv ==
    ASSUME Inv, WriteRecord
    PROVE  Inv'
<1> DEFINE stage == IF handler.stage = "recording" THEN "storeJson"
                    ELSE "runJson"
           rec == Bound(handler.decision)
<1>1. /\ handler.stage \in {"recording", "binding"}
      /\ Writes("record", rec, To(stage))
      /\ UNCHANGED <<run, acked, listed, clock, requests, crashes>>
  BY DEF WriteRecord, Bound
<1>2. rec \in Records
  BY <1>1, HandlerFields, BoundFields DEF Inv, RequestFits
<1>3. stage \in {"storeJson", "runJson"}
  OBVIOUS
<1>4. CASE ~handler.open
  BY <1>1, <1>4, TruncatingKeepsInv DEF Writes, FileOf, Writing
<1>5. CASE handler.open
  <2>1. files.record = Torn
    BY <1>1, <1>5 DEF Inv, RecordFits
  <2>2. files' = [files EXCEPT !.record = rec]
        /\ handler' = [To(stage) EXCEPT !.open = FALSE]
    BY <1>1, <1>5, <2>1 DEF Writes, Filled
  <2>3. stage \in Copies
    BY DEF Copies
  <2> HIDE DEF stage
  <2> QED
    BY <1>1, <1>2, <1>3, <1>5, <2>2, <2>3, RecordingKeepsInv
<1> QED
  BY <1>4, <1>5

LEMMA WriteCopyKeepsInv ==
    ASSUME Inv, WriteStoreCopies \/ WriteRunCopies
    PROVE  Inv'
<1>1. /\ handler.stage \in Copies
      /\ UNCHANGED <<run, acked, listed, clock, requests, crashes>>
  BY DEF WriteStoreCopies, WriteRunCopies, Copies
<1>2. PICK stage \in (Copies \ {"storeJson"}) \cup {"reading"} :
         /\ stage = "runMd" <=> handler.stage = "runJson"
         /\ stage = "reading" <=> handler.stage = "runMd"
         /\ Writes(handler.stage, handler.decision, To(stage))
  BY DEF WriteStoreCopies, WriteRunCopies, Copies
<1>3. CASE ~handler.open
  BY <1>1, <1>2, <1>3, TruncatingKeepsInv DEF Writes, FileOf, Writing, Copies
<1>4. CASE handler.open
  <2>1. files[handler.stage] = Torn
    BY <1>1, <1>4 DEF Inv, BackingFits
  <2>2. files' = [files EXCEPT ![handler.stage] = handler.decision]
        /\ handler' = [To(stage) EXCEPT !.open = FALSE]
    BY <1>2, <1>4, <2>1 DEF Writes, Filled
  <2> QED
    BY <1>1, <1>2, <1>4, <2>2, CopyingKeepsInv
<1> QED
  BY <1>3, <1>4

LEMMA ListArtifactsKeepsInv ==
    ASSUME Inv, ListArtifacts
    PROVE  Inv'
<1> DEFINE next == IF handler.again THEN [To("reading") EXCEPT !.again = FALSE]
                   ELSE To("answering")
           content == [handler.seen EXCEPT !.names = @ \cup {handler.name}]
<1>1. /\ handler.stage = "listing" /\ Writes("manifest", content, next)
      /\ UNCHANGED <<run, acked, listed, clock, requests, crashes>>
  BY DEF ListArtifacts
<1>2. /\ next \in Handlers /\ next.stage \in {"reading", "answering"}
      /\ next.name = handler.name /\ next.decision = handler.decision
      /\ next.seen = handler.seen /\ next.settled = handler.settled
  BY DEF Inv, TypeOK, Handlers, To
<1> HIDE DEF next
<1>3. CASE ~handler.open
  BY <1>1, <1>3, TruncatingKeepsInv DEF Writes, FileOf, Writing
<1>4. CASE handler.open
  <2>1. PICK c \in Filled("manifest", content) :
           files' = [files EXCEPT !.manifest = c]
    BY <1>1, <1>4 DEF Writes
  <2>2. handler' = [next EXCEPT !.open = FALSE]
    BY <1>1, <1>4 DEF Writes
  <2> QED
    BY <1>1, <1>2, <1>4, <2>1, <2>2, ListingKeepsInv
<1> QED
  BY <1>3, <1>4

-----------------------------------------------------------------------------
(* Theorems *)

LEMMA InvHoldsInitially == Init => Inv
<1> SUFFICES ASSUME Init
             PROVE  Inv
  OBVIOUS
<1>1. handler = Idle /\ acked = {} /\ listed = {} /\ clock = 0
      /\ requests = 0 /\ crashes = 0
  BY DEF Init
<1>2. /\ Initial \in Manifests /\ FinalManifest \in Manifests
      /\ NoFiles \in Files /\ NoFiles.record = Absent
      /\ \A f \in Copies : NoFiles[f] = Absent
  BY DEF Initial, FinalManifest, Manifests, NoFiles, Files, Unreadable, Copies
<1>3. run \in Runs /\ files \in Files /\ NoCopies
  <2>1. ASSUME NEW adk \in BOOLEAN,
               NEW outcome \in {"completed", "needs_review"},
               run = [adk |-> adk, status |-> "running",
                      outcome |-> outcome, stage |-> "working"],
               files = [NoFiles EXCEPT
                  !.manifest = IF adk THEN Initial ELSE Absent]
        PROVE  run \in Runs /\ files \in Files /\ NoCopies
    <3>1. run \in Runs
      BY <2>1 DEF Runs
    <3> QED
      BY <1>2, <2>1, <3>1 DEF Files, Unreadable, NoCopies, Copies
  <2>2. ASSUME NEW decision \in [payload : Decisions, at : {0}] \cup {None},
               run = [adk |-> FALSE, status |-> "needs_review",
                      outcome |-> "needs_review", stage |-> "over"],
               files = [NoFiles EXCEPT
                  !.record = [decision |-> decision, bound |-> FALSE],
                  !.manifest = FinalManifest, !.packet = TRUE]
        PROVE  run \in Runs /\ files \in Files /\ NoCopies
    <3>1. run \in Runs
      BY <2>2 DEF Runs
    <3>2. decision \in Stamped \cup {None}
      BY ReviewAssumption DEF Stamped
    <3>3. [decision |-> decision, bound |-> FALSE] \in Records
      BY <3>2 DEF Records
    <3> QED
      BY <1>2, <2>2, <3>1, <3>3 DEF Files, Unreadable, NoCopies, Copies
  <2> QED
    BY <2>1, <2>2 DEF Init
<1>4. TypeOK
  BY <1>1, <1>2, <1>3, IdleFields, ReviewAssumption DEF TypeOK
<1>5. RequestFits /\ ClockFits /\ RecordFits
  BY <1>1, IdleFields DEF RequestFits, ClockFits, RecordFits, Copying,
     Copies, Ending
<1>6. CopiesFit
  BY <1>3 DEF CopiesFit, NoCopies, CopiesOf
<1>7. AckedFits /\ BackingFits /\ ListingFits
  BY <1>1, IdleFields DEF AckedFits, BackingFits, ListingFits, Copies, Ending
<1> QED
  BY <1>4, <1>5, <1>6, <1>7 DEF Inv

LEMMA StepKeepsInv == Inv /\ [Next]_vars => Inv'
<1> SUFFICES ASSUME Inv, [Next]_vars
             PROVE  Inv'
  OBVIOUS
<1>1. CASE (\E payload \in Decisions : Decide(payload)) \/ Export
  BY <1>1, RequestKeepsInv
<1>2. CASE Handle
  BY <1>2, CreateReviewKeepsInv, SubmitKeepsInv, WriteRecordKeepsInv,
     WriteCopyKeepsInv, ReadManifestKeepsInv, ListArtifactsKeepsInv,
     AnswerKeepsInv DEF Handle
<1>3. CASE Work \/ Raise
  BY <1>3, WorkerKeepsInv
<1>4. CASE Fail \/ Crash
  BY <1>4, BreakKeepsInv
<1>5. CASE UNCHANGED vars
  BY <1>5 DEF vars, Inv, TypeOK, RequestFits, ClockFits, RecordFits,
     CopiesFit, AckedFits, BackingFits, ListingFits, Copying, NoCopies,
     CopiesOf
<1> QED
  BY <1>1, <1>2, <1>3, <1>4, <1>5 DEF Next

(* An acknowledged decision is the decision of the record, and every copy  *)
(* that can be read is a copy of it, whatever breaks off where             *)
(* (submit_decision in api/app.py).                                        *)
THEOREM Stands == Spec => []DecisionStands
<1>1. Inv => DecisionStands
  <2> SUFFICES ASSUME Inv
               PROVE  DecisionStands
    OBVIOUS
  <2>1. AckedStands
    <3> SUFFICES ASSUME NEW d \in acked
                 PROVE  /\ files.record \notin Unreadable
                        /\ files.record.decision = d
      BY DEF AckedStands
    <3>1. files.record = Bound(d) /\ d \in Stamped
      BY DEF Inv, AckedFits, TypeOK
    <3> QED
      BY <3>1, BoundFields
  <2>2. CopiesAgree
    BY FileFields DEF Inv, CopiesAgree, CopiesFit, NoCopies, CopiesOf, Copies,
       Unreadable
  <2> QED
    BY <2>1, <2>2 DEF DecisionStands
<1> QED
  BY <1>1, InvHoldsInitially, StepKeepsInv, PTL DEF Spec

(* A decision is answered only when the run's artifact root holds both     *)
(* copies of it (write_run_review_decision_artifacts, on every retry).     *)
THEOREM AnswersAreBacked == Spec => AnsweredIsBacked
<1>1. Inv /\ [Next]_vars
      => [\A d \in acked' : d \notin acked
             => files.runJson = d /\ files.runMd = d]_vars
  <2> SUFFICES ASSUME Inv, Next, NEW d \in acked', d \notin acked
               PROVE  files.runJson = d /\ files.runMd = d
    OBVIOUS
  <2>1. Answer
    BY DEF Next, Decide, Export, Begin, Handle, CreateReview, Submit,
       WriteRecord, WriteStoreCopies, WriteRunCopies, ReadManifest,
       ListArtifacts, Fail, Work, FinishStep, WritePacket, WriteManifest,
       RecordResult, Raise, Advance, Crash
  <2>2. handler.stage = "answering" /\ handler.name = "decision"
        /\ d = handler.decision
    BY <2>1 DEF Answer
  <2> QED
    BY <2>2 DEF Inv, BackingFits, Ending
<1> QED
  BY <1>1, InvHoldsInitially, StepKeepsInv, PTL DEF Spec, AnsweredIsBacked

(* The manifest keeps what a request has listed that began when the worker *)
(* was through (append_artifact_manifest_entries and the report exports).  *)
THEOREM EntriesStay == Spec => []SettledListed
<1>1. Inv => SettledListed
  BY FileFields DEF Inv, ListingFits, SettledListed
<1> QED
  BY <1>1, InvHoldsInitially, StepKeepsInv, PTL DEF Spec
=============================================================================
