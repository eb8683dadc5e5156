------------------------- MODULE WorkflowRunProofs -------------------------
(***************************************************************************)
(* What holds of workflow runs for every number of requests, run ids and   *)
(* restarts and every workflow.                                            *)
(***************************************************************************)
EXTENDS WorkflowRun, TLAPS

(* The registry's entries and waiting creates are well formed. *)
RegistryTyped ==
    /\ runs \in SUBSET Registry!Entries
    /\ pending \in [Jobs -> Registry!Events \cup {None}]

JobsTyped ==
    /\ job \in [Jobs -> JobRecords]
    /\ given \in [RunIds -> Inputs \cup {None}]

(* A job that is at work has a run, and the run has its inputs. *)
Placed ==
    \A j \in Jobs : Active(j) =>
        job[j].run \in RunIds /\ given[job[j].run] \in Inputs

(* From the work of a step to the result of the run there is an outcome. *)
Deciding == {"worked", "packing", "summing", "publishing", "finishing",
             "closing", "verifying"}

Decided ==
    \A j \in Jobs : job[j].stage \in Deciding => job[j].outcome \in Outcomes

(* What an ADK job says of itself is on record. *)
Owned ==
    \A j \in Jobs : IsAdk(j) =>
        \E e \in runs : e.id = job[j].run /\ e.prov = job[j].prov

Inv == RegistryTyped /\ JobsTyped /\ Placed /\ Decided /\ Owned
       /\ OneWorkerPerRun

(* No entry is dropped, and none loses its provenance. *)
Kept ==
    \A e \in runs : \E f \in runs' :
        f.id = e.id /\ (e.prov # None => f.prov = e.prov)

(* Only job j moves, and it stays with its run. *)
Moves(j) ==
    /\ job' \in [Jobs -> JobRecords]
    /\ \A k \in Jobs \ {j} : job'[k] = job[k]
    /\ job'[j].run = job[j].run
    /\ job'[j].prov = job[j].prov
    /\ job'[j].stage \in Deciding => job'[j].outcome \in Outcomes

-----------------------------------------------------------------------------
(* The registry's operators *)

LEMMA UpdatedFields ==
    ASSUME NEW e \in Registry!Entries, NEW ev \in Registry!Events,
           Registry!ImmutableFieldsAgree(e, ev)
    PROVE  /\ Registry!Updated(e, ev) \in Registry!Entries
           /\ Registry!Updated(e, ev).id = e.id
           /\ e.prov # None => Registry!Updated(e, ev).prov = e.prov
<1>1. e.history \in Seq(Registry!Statuses) /\ ev.status \in Registry!Statuses
  BY DEF Registry!Entries, Registry!Events, Registry!EventsWith,
         Registry!Statuses, EventStatuses
<1>2. Append(e.history, ev.status) \in Seq(Registry!Statuses)
  BY <1>1
<1>3. Registry!ReviewRequired(ev) \in BOOLEAN
  BY DEF Registry!ReviewRequired, Registry!Events, Registry!EventsWith
<1>4. Registry!RecordedInputs(e.inputs, ev) \in Inputs \cup {None}
  BY DEF Registry!RecordedInputs, Registry!Entries, Registry!Events,
         Registry!EventsWith, Registry!Keep, Registry!Drop
<1> QED
  BY <1>1, <1>2, <1>3, <1>4
  DEF Registry!Updated, Registry!Entries, Registry!Events,
      Registry!EventsWith, Registry!ImmutableFieldsAgree

LEMMA CreatedIsEntry ==
    ASSUME NEW ev \in Registry!Events
    PROVE  Registry!Created(ev) \in Registry!Entries
<1>1. ev.status \in Registry!Statuses
  BY DEF Registry!Events, Registry!EventsWith, Registry!Statuses,
         EventStatuses
<1>2. Registry!ReviewRequired(ev) \in BOOLEAN
  BY DEF Registry!ReviewRequired, Registry!Events, Registry!EventsWith
<1>3. Registry!RecordedInputs(None, ev) \in Inputs \cup {None}
  BY DEF Registry!RecordedInputs, Registry!Events, Registry!EventsWith,
         Registry!Keep, Registry!Drop
<1> QED
  BY <1>1, <1>2, <1>3
  DEF Registry!Created, Registry!Entries, Registry!Events,
      Registry!EventsWith

LEMMA RecoveredFields ==
    ASSUME NEW e \in Registry!Entries
    PROVE  /\ Registry!Recovered(e) \in Registry!Entries
           /\ Registry!Recovered(e).id = e.id
           /\ Registry!Recovered(e).prov = e.prov
<1>1. e.history \in Seq(Registry!Statuses)
  BY DEF Registry!Entries
<1>2. Append(e.history, "failed") \in Seq(Registry!Statuses)
  BY <1>1 DEF Registry!Statuses
<1> QED
  BY <1>1, <1>2 DEF Registry!Recovered, Registry!Entries, Registry!Statuses

LEMMA NewEntryFields ==
    ASSUME NEW req \in Registry!Requests, NEW id \in RunIds,
           NEW ticket \in Tickets, NEW in \in Inputs
    PROVE  /\ Registry!NewEntry(req, id, ticket, in) \in Registry!Entries
           /\ Registry!NewEntry(req, id, ticket, in).id = id
           /\ Registry!NewEntry(req, id, ticket, in).prov =
                 Registry!NewProvenance(req, id, ticket)
           /\ Registry!NewProvenance(req, id, ticket) \in Registry!Provenances
<1>1. Registry!NewProvenance(req, id, ticket) \in Registry!Provenances
  BY DEF Registry!NewProvenance, Registry!Provenances, Registry!Requests
<1>2. <<"accepted">> \in Seq(Registry!Statuses)
  BY DEF Registry!Statuses
<1> QED
  BY <1>1, <1>2 DEF Registry!NewEntry, Registry!Entries, Registry!Statuses

-----------------------------------------------------------------------------
(* Records *)

(* record_run_event keeps the registry's shape and what entries stand for. *)
LEMMA RecordsKeep ==
    ASSUME RegistryTyped, NEW j \in Jobs, NEW ev \in Registry!Events,
           NEW next, Records(j, ev, next)
    PROVE  /\ RegistryTyped'
           /\ Kept
           /\ job' = job \/ job' = [job EXCEPT ![j] = next]
           /\ given' = given
<1>1. job' = job \/ job' = [job EXCEPT ![j] = next]
  BY DEF Records
<1>2. given' = given
  BY DEF Records
<1>3. CASE Registry!RecordUpdate(j, ev)
  <2>1. PICK e \in runs :
            /\ Registry!ImmutableFieldsAgree(e, ev)
            /\ runs' = (runs \ {e}) \cup {Registry!Updated(e, ev)}
    BY <1>3 DEF Registry!RecordUpdate, Registry!UpdateExisting
  <2>2. e \in Registry!Entries
    BY DEF RegistryTyped
  <2>3. Kept
    BY <2>1, <2>2, UpdatedFields DEF Kept
  <2>4. runs' \in SUBSET Registry!Entries
    BY <2>1, <2>2, UpdatedFields DEF RegistryTyped
  <2>5. pending' = pending
    BY <1>3 DEF Registry!RecordUpdate
  <2> QED
    BY <1>1, <1>2, <2>3, <2>4, <2>5 DEF RegistryTyped
<1>4. CASE Registry!RecordMissing(j, ev)
  <2>1. runs' = runs /\ pending' = [pending EXCEPT ![j] = ev]
    BY <1>4 DEF Registry!RecordMissing
  <2> QED
    BY <1>1, <1>2, <2>1 DEF RegistryTyped, Kept
<1>5. CASE Registry!RecordCreate(j)
  <2>1. pending[j] \in Registry!Events
    BY <1>5 DEF Registry!RecordCreate, RegistryTyped
  <2>2. \/ runs' = runs
        \/ runs' = runs \cup {Registry!Created(pending[j])}
    BY <1>5 DEF Registry!RecordCreate
  <2>3. runs' \in SUBSET Registry!Entries
    BY <2>1, <2>2, CreatedIsEntry DEF RegistryTyped
  <2>4. pending' \in [Jobs -> Registry!Events \cup {None}]
    BY <1>5 DEF Registry!RecordCreate, RegistryTyped
  <2>5. Kept
    BY <2>2 DEF Kept
  <2> QED
    BY <1>1, <1>2, <2>3, <2>4, <2>5 DEF RegistryTyped
<1> QED
  BY <1>3, <1>4, <1>5 DEF Records

(* A job that moves within its run keeps the invariant. *)
LEMMA MovesKeepInv ==
    ASSUME Inv, RegistryTyped', Kept, NEW j \in Jobs, Active(j), Moves(j),
           given' = given
    PROVE  Inv'
<1> USE DEF Inv
<1>1. \A k \in Jobs : job'[k].run = job[k].run /\ job'[k].prov = job[k].prov
  BY DEF Moves
<1>2. JobsTyped'
  BY DEF JobsTyped, Moves
<1>3. Placed'
  <2> SUFFICES ASSUME NEW k \in Jobs, Active(k)'
               PROVE  job'[k].run \in RunIds /\ given'[job'[k].run] \in Inputs
    BY DEF Placed
  <2>1. Active(k)
    BY DEF Moves, Active
  <2> QED
    BY <1>1, <2>1 DEF Placed
<1>4. Decided'
  BY DEF Decided, Moves
<1>5. Owned'
  <2> SUFFICES ASSUME NEW k \in Jobs, IsAdk(k)'
               PROVE  \E f \in runs' :
                         f.id = job'[k].run /\ f.prov = job'[k].prov
    BY DEF Owned
  <2>1. IsAdk(k)
    BY <1>1 DEF IsAdk
  <2>2. PICK e \in runs : e.id = job[k].run /\ e.prov = job[k].prov
    BY <2>1 DEF Owned
  <2>3. e.prov # None
    BY <2>1, <2>2 DEF IsAdk
  <2> QED
    BY <1>1, <2>2, <2>3 DEF Kept
<1>6. OneWorkerPerRun'
  BY <1>1 DEF OneWorkerPerRun
<1> QED
  BY <1>2, <1>3, <1>4, <1>5, <1>6

(* One call of record_run_event by a job at work. *)
LEMMA RecordingStep ==
    ASSUME Inv, NEW j \in Jobs, Active(j), NEW status \in EventStatuses,
           NEW inputs \in Inputs \cup {Registry!Keep, Registry!Drop},
           NEW prov \in {None, job[j].prov},
           NEW next \in JobRecords,
           next.run = job[j].run, next.prov = job[j].prov,
           next.stage \in Deciding => next.outcome \in Outcomes,
           Records(j, Event(j, status, inputs, prov), next)
    PROVE  Inv' /\ Registry!Next
<1> DEFINE ev == Event(j, status, inputs, prov)
<1>1. job[j] \in JobRecords /\ job[j].run \in RunIds
  BY DEF Inv, JobsTyped, Placed
<1>2. /\ ev.id \in RunIds /\ ev.status \in EventStatuses
      /\ ev.review \in BOOLEAN /\ ev.prov = prov
      /\ ev.inputs \in Inputs \cup {Registry!Keep, Registry!Drop}
  BY <1>1 DEF Event
<1>3. prov \in {None} \cup {e.prov : e \in runs}
  BY DEF Inv, Owned, IsAdk
<1>4. ev \in Registry!EventsWith({None} \cup {e.prov : e \in runs})
  BY <1>1, <1>3 DEF Event, Registry!EventsWith
<1>5. prov \in Registry!Provenances \cup {None}
  BY <1>1 DEF JobRecords
<1>6. ev \in Registry!Events
  BY <1>1, <1>5 DEF Event, Registry!EventsWith, Registry!Events
<1> HIDE DEF ev
<1>7. Records(j, ev, next)
  BY DEF ev
<1>8. RegistryTyped' /\ Kept /\ given' = given
      /\ (job' = job \/ job' = [job EXCEPT ![j] = next])
  BY <1>6, <1>7, RecordsKeep DEF Inv
<1>9. Moves(j)
  BY <1>8 DEF Moves, Inv, JobsTyped, Decided
<1>10. Inv'
  BY <1>8, <1>9, MovesKeepInv
<1>11. Registry!Next
  BY <1>4, <1>7 DEF Records, Registry!Next, Registry!RecordEvent
<1> QED
  BY <1>10, <1>11

(* A step that leaves the registry alone. *)
LEMMA LocalStep ==
    ASSUME Inv, NEW j \in Jobs, Active(j), Moves(j), UNCHANGED registry,
           given' = given
    PROVE  Inv'
<1>1. RegistryTyped' /\ Kept
  BY DEF registry, RegistryTyped, Kept, Inv
<1> QED
  BY <1>1, MovesKeepInv

-----------------------------------------------------------------------------
(* The worker *)

(* Job r at another stage and step. *)
Stepped(r, stage, step) ==
    [stage |-> stage, run |-> r.run, prov |-> r.prov,
     background |-> r.background, step |-> step, outcome |-> r.outcome]

LEMMA SteppedIs ==
    ASSUME NEW r \in JobRecords, NEW stage \in Stages,
           NEW step \in 0 .. Len(StepKinds), NEW next,
           next = [r EXCEPT !.stage = stage, !.step = step]
    PROVE  next = Stepped(r, stage, step)
<1>1. next = [stage |-> stage, run |-> r.run, prov |-> r.prov,
              background |-> r.background, step |-> step,
              outcome |-> r.outcome]
  BY DEF JobRecords
<1> QED
  BY <1>1 DEF Stepped

LEMMA SteppedFields ==
    ASSUME NEW r \in JobRecords, NEW stage \in Stages,
           NEW step \in 0 .. Len(StepKinds)
    PROVE  /\ Stepped(r, stage, step) \in JobRecords
           /\ Stepped(r, stage, step).stage = stage
           /\ Stepped(r, stage, step).run = r.run
           /\ Stepped(r, stage, step).prov = r.prov
           /\ Stepped(r, stage, step).outcome = r.outcome
<1>1. /\ r.run \in RunIds \cup {None} /\ r.background \in BOOLEAN
      /\ r.prov \in Registry!Provenances \cup {None}
      /\ r.outcome \in Outcomes \cup {None}
  BY DEF JobRecords
<1> DEFINE Steps == 0 .. Len(StepKinds)
<1>2. step \in Steps
  OBVIOUS
<1>3. JobRecords =
        [stage : Stages, run : RunIds \cup {None},
         prov : Registry!Provenances \cup {None}, background : BOOLEAN,
         step : Steps, outcome : Outcomes \cup {None}]
  BY DEF JobRecords
<1> HIDE DEF Steps
<1> QED
  BY <1>1, <1>2, <1>3 DEF Stepped

LEMMA AdvanceStep ==
    ASSUME Inv, NEW j \in Jobs, Advance(j)
    PROVE  Inv' /\ (UNCHANGED registry \/ Registry!Next)
<1> USE DEF Inv
<1>1. /\ job \in [Jobs -> JobRecords] /\ job[j] \in JobRecords
      /\ Len(StepKinds) \in Nat /\ Len(StepKinds) > 0
  BY WorkflowAssumption DEF JobsTyped
<1>2. Active(j) => job[j].run \in RunIds /\ given[job[j].run] \in Inputs
  BY DEF Placed
<1>3. job[j].stage \in Deciding => job[j].outcome \in Outcomes
  BY DEF Decided
<1>4. \A stage \in Stages : [job[j] EXCEPT !.stage = stage] \in JobRecords
  BY <1>1 DEF JobRecords
<1>5. ASSUME NEW stage \in Stages, To(j, stage), Active(j),
             UNCHANGED registry, given' = given,
             stage \in Deciding => job[j].outcome \in Outcomes
      PROVE  Inv'
  <2>1. Moves(j)
    BY <1>1, <1>4, <1>5 DEF Moves, To, JobRecords
  <2> QED
    BY <1>5, <2>1, LocalStep
<1>6. CASE PrepareRoot(j) \/ WriteInitialManifest(j)
  BY <1>5, <1>6 DEF PrepareRoot, WriteInitialManifest, Active, Stages,
     Handling, Working, Deciding
<1>7. CASE RecordAcceptance(j)
  <2> DEFINE next == [job[j] EXCEPT !.stage = "scheduled"]
  <2>1. Active(j) /\ Records(j, Event(j, "accepted", given[job[j].run], None),
                             next)
    BY <1>7 DEF RecordAcceptance, Active
  <2>2. /\ next \in JobRecords /\ next.stage = "scheduled"
        /\ next.run = job[j].run /\ next.prov = job[j].prov
    BY <1>1, <1>4 DEF JobRecords, Stages, Working
  <2> QED
    BY <1>2, <2>1, <2>2, RecordingStep DEF EventStatuses, Deciding
<1>8. CASE Queue(j)
  <2> DEFINE next == [job[j] EXCEPT !.stage = "queued"]
  <2>1. Active(j) /\ Records(j, Event(j, "queued", given[job[j].run], None),
                             next)
    BY <1>8 DEF Queue, Active
  <2>2. /\ next \in JobRecords /\ next.stage = "queued"
        /\ next.run = job[j].run /\ next.prov = job[j].prov
    BY <1>1, <1>4 DEF JobRecords, Stages, Working
  <2> QED
    BY <1>2, <2>1, <2>2, RecordingStep DEF EventStatuses, Deciding
<1>9. CASE Run(j)
  <2> DEFINE next == [job[j] EXCEPT !.stage = "running"]
  <2>1. Active(j) /\ Records(j, Event(j, "running", given[job[j].run], None),
                             next)
    BY <1>9 DEF Run, Active
  <2>2. /\ next \in JobRecords /\ next.stage = "running"
        /\ next.run = job[j].run /\ next.prov = job[j].prov
    BY <1>1, <1>4 DEF JobRecords, Stages, Working
  <2> QED
    BY <1>2, <2>1, <2>2, RecordingStep DEF EventStatuses, Deciding
<1>10. CASE StartWorkflow(j)
  <2> DEFINE next == [job[j] EXCEPT !.stage = "between", !.step = 1]
  <2>1. Active(j) /\ Records(j, Event(j, "running", Registry!Drop, None),
                             next)
    BY <1>10 DEF StartWorkflow, RecordsProgress, Active
  <2>2. /\ next \in JobRecords /\ next.stage = "between"
        /\ next.run = job[j].run /\ next.prov = job[j].prov
    <3>1. 1 \in 0 .. Len(StepKinds) /\ "between" \in Stages
      BY <1>1 DEF Stages, Working
    <3>2. next = Stepped(job[j], "between", 1)
      BY <1>1, <3>1, SteppedIs
    <3> HIDE DEF next
    <3> QED
      BY <1>1, <3>1, <3>2, SteppedFields
  <2> QED
    BY <2>1, <2>2, RecordingStep DEF EventStatuses, Deciding
<1>11. CASE StartStep(j)
  <2> DEFINE next == [job[j] EXCEPT !.stage = "working"]
  <2>1. Active(j) /\ Records(j, Event(j, "running", Registry!Drop, None),
                             next)
    BY <1>11 DEF StartStep, RecordsProgress, Active
  <2>2. /\ next \in JobRecords /\ next.stage = "working"
        /\ next.run = job[j].run /\ next.prov = job[j].prov
    BY <1>1, <1>4 DEF JobRecords, Stages, Working
  <2> QED
    BY <2>1, <2>2, RecordingStep DEF EventStatuses, Deciding
<1>12. CASE DoStep(j)
  <2>1. PICK outcome \in Outcomes :
            job' = [job EXCEPT ![j].stage = "worked", ![j].outcome = outcome]
    BY <1>12 DEF DoStep
  <2>2. Active(j) /\ UNCHANGED registry /\ given' = given
    BY <1>12 DEF DoStep, Active
  <2>3. Moves(j)
    BY <1>1, <2>1 DEF Moves, JobRecords, Stages, Working, Outcomes
  <2> QED
    BY <2>2, <2>3, LocalStep
<1>13. CASE FinishStep(j)
  <2> DEFINE next ==
        IF job[j].outcome = "completed" /\ job[j].step < Len(StepKinds)
        THEN [job[j] EXCEPT !.stage = "between", !.step = @ + 1]
        ELSE [job[j] EXCEPT !.stage = "packing"]
  <2>1. /\ Active(j) /\ job[j].outcome \in Outcomes
        /\ Records(j, Event(j, Reported(job[j].outcome), Registry!Drop, None),
                   next)
    BY <1>3, <1>13 DEF FinishStep, RecordsProgress, Active, Deciding
  <2>2. Reported(job[j].outcome) \in EventStatuses
    BY <2>1 DEF Reported, Outcomes, EventStatuses
  <2>3. /\ next \in JobRecords /\ next.outcome = job[j].outcome
        /\ next.run = job[j].run /\ next.prov = job[j].prov
    <3>1. CASE job[j].outcome = "completed" /\ job[j].step < Len(StepKinds)
      <4>1. job[j].step \in 0 .. Len(StepKinds)
        BY <1>1 DEF JobRecords
      <4>2. job[j].step + 1 \in 0 .. Len(StepKinds) /\ "between" \in Stages
        BY <1>1, <3>1, <4>1 DEF Stages, Working
      <4> DEFINE step == job[j].step + 1
      <4>3. step \in 0 .. Len(StepKinds)
        BY <4>2
      <4>4. next = [job[j] EXCEPT !.stage = "between", !.step = step]
        BY <3>1
      <4> HIDE DEF next, step
      <4>5. next = Stepped(job[j], "between", step)
        BY <1>1, <4>2, <4>3, <4>4, SteppedIs
      <4> QED
        BY <1>1, <4>2, <4>3, <4>5, SteppedFields
    <3>2. CASE ~(job[j].outcome = "completed" /\ job[j].step < Len(StepKinds))
      BY <1>1, <1>4, <3>2 DEF JobRecords, Stages, Working
    <3> QED
      BY <3>1, <3>2
  <2> QED
    BY <2>1, <2>2, <2>3, RecordingStep
<1>14. CASE WritePacket(j) \/ WriteSummary(j) \/ WriteManifest(j)
  BY <1>3, <1>5, <1>14 DEF WritePacket, WriteSummary, WriteManifest, Active,
     Stages, Working, Deciding
<1>15. CASE FinishWorkflow(j)
  <2> DEFINE next == [job[j] EXCEPT !.stage = "closing"]
  <2>1. /\ Active(j) /\ job[j].outcome \in Outcomes
        /\ Records(j, Event(j, Reported(job[j].outcome), Registry!Drop, None),
                   next)
    BY <1>3, <1>15 DEF FinishWorkflow, RecordsProgress, Active, Deciding
  <2>2. Reported(job[j].outcome) \in EventStatuses
    BY <2>1 DEF Reported, Outcomes, EventStatuses
  <2>3. /\ next \in JobRecords /\ next.outcome = job[j].outcome
        /\ next.run = job[j].run /\ next.prov = job[j].prov
    BY <1>1, <1>4 DEF JobRecords, Stages, Working
  <2> QED
    BY <2>1, <2>2, <2>3, RecordingStep
<1>16. CASE RecordResult(j)
  <2> DEFINE next == [job[j] EXCEPT !.stage = IF IsAdk(j) THEN "verifying"
                                              ELSE "over"]
  <2>1. /\ Active(j) /\ job[j].outcome \in Outcomes
        /\ Records(j, Event(j, job[j].outcome, given[job[j].run], None), next)
    BY <1>3, <1>16 DEF RecordResult, Active, Deciding
  <2>2. job[j].outcome \in EventStatuses
    BY <2>1 DEF Outcomes, EventStatuses
  <2>3. /\ next \in JobRecords /\ next.outcome = job[j].outcome
        /\ next.run = job[j].run /\ next.prov = job[j].prov
    BY <1>1, <1>4 DEF JobRecords, Stages, Working
  <2> QED
    BY <1>2, <2>1, <2>2, <2>3, RecordingStep
<1>17. CASE VerifyRoot(j)
  BY <1>5, <1>17 DEF VerifyRoot, Active, Stages, Deciding
<1>18. CASE RecordRunFailure(j)
  <2> DEFINE next == [job[j] EXCEPT !.stage = "over"]
  <2>1. Active(j) /\ Records(j, Event(j, "failed", Registry!Keep, job[j].prov),
                             next)
    BY <1>18 DEF RecordRunFailure, Active
  <2>2. /\ next \in JobRecords /\ next.stage = "over"
        /\ next.run = job[j].run /\ next.prov = job[j].prov
    BY <1>1, <1>4 DEF JobRecords, Stages
  <2> QED
    BY <2>1, <2>2, RecordingStep DEF EventStatuses, Deciding
<1> QED
  BY <1>6, <1>7, <1>8, <1>9, <1>10, <1>11, <1>12, <1>13, <1>14, <1>15,
     <1>16, <1>17, <1>18 DEF Advance

-----------------------------------------------------------------------------
(* Requests *)

LEMMA JobAtFields ==
    ASSUME NEW stage \in Stages, NEW id \in RunIds,
           NEW prov \in Registry!Provenances \cup {None},
           NEW background \in BOOLEAN
    PROVE  /\ JobAt(stage, id, prov, background) \in JobRecords
           /\ JobAt(stage, id, prov, background).stage = stage
           /\ JobAt(stage, id, prov, background).run = id
           /\ JobAt(stage, id, prov, background).prov = prov
<1> DEFINE Steps == 0 .. Len(StepKinds)
<1>1. 0 \in Steps
  BY WorkflowAssumption
<1>2. JobRecords =
        [stage : Stages, run : RunIds \cup {None},
         prov : Registry!Provenances \cup {None}, background : BOOLEAN,
         step : Steps, outcome : Outcomes \cup {None}]
  BY DEF JobRecords
<1> HIDE DEF Steps
<1> QED
  BY <1>1, <1>2 DEF JobAt

(* A job that begins a run nobody works on keeps the invariant. *)
LEMMA OpeningKeepsInv ==
    ASSUME Inv, RegistryTyped', Kept, NEW j \in Jobs, NEW id \in RunIds,
           NEW in \in Inputs,
           \A k \in Jobs : job[k].run # id,
           given' = [given EXCEPT ![id] = in],
           job' \in [Jobs -> JobRecords],
           \A k \in Jobs \ {j} : job'[k] = job[k],
           job'[j].run = id, job'[j].stage \notin Deciding,
           IsAdk(j)' => \E e \in runs' : e.id = id /\ e.prov = job'[j].prov
    PROVE  Inv'
<1> USE DEF Inv
<1>1. JobsTyped'
  BY DEF JobsTyped
<1>2. Placed'
  <2> SUFFICES ASSUME NEW k \in Jobs, Active(k)'
               PROVE  job'[k].run \in RunIds /\ given'[job'[k].run] \in Inputs
    BY DEF Placed
  <2>1. CASE k = j
    BY <2>1 DEF JobsTyped
  <2>2. CASE k # j
    <3>1. Active(k) /\ job'[k] = job[k]
      BY <2>2 DEF Active
    <3> QED
      BY <3>1 DEF Placed, JobsTyped
  <2> QED
    BY <2>1, <2>2
<1>3. Decided'
  BY DEF Decided
<1>4. Owned'
  <2> SUFFICES ASSUME NEW k \in Jobs, IsAdk(k)', k # j
               PROVE  \E f \in runs' :
                         f.id = job'[k].run /\ f.prov = job'[k].prov
    BY DEF Owned
  <2>1. IsAdk(k) /\ job'[k] = job[k]
    BY DEF IsAdk
  <2>2. PICK e \in runs : e.id = job[k].run /\ e.prov = job[k].prov
    BY <2>1 DEF Owned
  <2>3. e.prov # None
    BY <2>1, <2>2 DEF IsAdk
  <2> QED
    BY <2>1, <2>2, <2>3 DEF Kept
<1>5. OneWorkerPerRun'
  BY DEF OneWorkerPerRun
<1> QED
  BY <1>1, <1>2, <1>3, <1>4, <1>5

LEMMA AcceptStep ==
    ASSUME Inv, NEW j \in Jobs, AcceptAdk(j)
    PROVE  Inv' /\ Registry!Next
<1> USE DEF Inv
<1>1. PICK key \in Keys, req \in Registry!Requests, id \in RunIds,
           ticket \in Tickets, in \in Inputs :
          /\ \A k \in Jobs : job[k].run = id => IsAdk(k)
          /\ Readable(req.parent)
          /\ Registry!AcceptNew(key, req, id, ticket, in)
          /\ job' = [job EXCEPT ![j] =
                JobAt("accepted", id,
                      Registry!NewProvenance(req, id, ticket), TRUE)]
          /\ given' = [given EXCEPT ![id] = in]
          /\ source' = [source EXCEPT ![id] =
                IF req.action = "rerun_run" THEN req.parent ELSE None]
  BY Zenon DEF AcceptAdk
<1> DEFINE entry == Registry!NewEntry(req, id, ticket, in)
           prov == Registry!NewProvenance(req, id, ticket)
           begun == JobAt("accepted", id, prov, TRUE)
<1>2. /\ runs' = runs \cup {entry} /\ pending' = pending
      /\ ~Registry!Known(runs, id)
  BY <1>1 DEF Registry!AcceptNew, Registry!AcceptChecks
<1>3. /\ entry \in Registry!Entries /\ entry.id = id /\ entry.prov = prov
      /\ prov \in Registry!Provenances
  BY NewEntryFields
<1>4. RegistryTyped' /\ Kept
  BY <1>2, <1>3 DEF RegistryTyped, Kept
<1>5. \A k \in Jobs : job[k].run # id
  BY <1>1, <1>2 DEF Owned, Registry!Known
<1>6. /\ begun \in JobRecords /\ begun.stage = "accepted"
      /\ begun.run = id /\ begun.prov = prov
  <2>1. "accepted" \in Stages
    BY DEF Stages, Handling
  <2>2. PICK background \in BOOLEAN : background = TRUE
    OBVIOUS
  <2>3. prov \in Registry!Provenances \cup {None}
    BY <1>3
  <2>4. begun = JobAt("accepted", id, prov, background)
    BY <2>2
  <2> HIDE DEF prov, begun
  <2> QED
    BY <2>1, <2>3, <2>4, JobAtFields
<1>7. job' = [job EXCEPT ![j] = begun]
  BY <1>1
<1>8. /\ job' \in [Jobs -> JobRecords] /\ job'[j] = begun
      /\ \A k \in Jobs \ {j} : job'[k] = job[k]
  <2> HIDE DEF begun
  <2> QED
    BY <1>6, <1>7 DEF JobsTyped
<1>9. job'[j].run = id /\ job'[j].stage \notin Deciding /\ job'[j].prov = prov
  <2> HIDE DEF prov, begun
  <2> QED
    BY <1>6, <1>8 DEF Deciding
<1>10. \E e \in runs' : e.id = id /\ e.prov = job'[j].prov
  BY <1>2, <1>3, <1>9
<1> HIDE DEF entry, prov, begun
<1>11. Inv'
  BY <1>1, <1>4, <1>5, <1>8, <1>9, <1>10, OpeningKeepsInv
<1>12. Registry!Next
  BY <1>1 DEF Registry!Next, Registry!Accept
<1> QED
  BY <1>11, <1>12

LEMMA ReplayStep ==
    ASSUME Inv, NEW j \in Jobs, ReplayAdk(j)
    PROVE  Inv' /\ Registry!Next
<1> USE DEF Inv
<1>1. PICK key \in Keys, req \in Registry!Requests :
          Registry!AcceptReplay(key, req)
  BY DEF ReplayAdk
<1>2. runs' = runs /\ pending' = pending /\ given' = given
  BY <1>1 DEF Registry!AcceptReplay, ReplayAdk
<1>3. job' = [job EXCEPT ![j].stage = "over"]
  BY DEF ReplayAdk, To
<1>4. /\ job' \in [Jobs -> JobRecords]
      /\ \A k \in Jobs : /\ job'[k].run = job[k].run
                          /\ job'[k].prov = job[k].prov
      /\ \A k \in Jobs \ {j} : job'[k] = job[k]
      /\ job'[j].stage = "over"
  BY <1>3 DEF JobsTyped, JobRecords, Stages
<1>5. RegistryTyped' /\ JobsTyped'
  BY <1>2, <1>4 DEF RegistryTyped, JobsTyped
<1>6. Placed'
  BY <1>2, <1>4 DEF Placed, Active
<1>7. Decided'
  BY <1>4 DEF Decided, Deciding
<1>8. Owned'
  BY <1>2, <1>4 DEF Owned, IsAdk
<1>9. OneWorkerPerRun'
  BY <1>4 DEF OneWorkerPerRun
<1>10. Registry!Next
  BY <1>1 DEF Registry!Next, Registry!Accept
<1> QED
  BY <1>5, <1>6, <1>7, <1>8, <1>9, <1>10

LEMMA ConsoleStep ==
    ASSUME Inv, NEW j \in Jobs, NEW id \in RunIds, NEW in \in Inputs,
           NEW from, NEW background \in BOOLEAN,
           NewConsoleJob(j, id, in, from, background)
    PROVE  Inv' /\ UNCHANGED registry
<1> USE DEF Inv
<1> DEFINE stage == IF background THEN "recording" ELSE "scheduled"
           begun == JobAt(stage, id, None, background)
<1>1. /\ UNCHANGED registry /\ given' = [given EXCEPT ![id] = in]
      /\ \A k \in Jobs : job[k].run # id
  BY DEF NewConsoleJob
<1>2. RegistryTyped' /\ Kept
  BY <1>1 DEF registry, RegistryTyped, Kept
<1>3. stage \in Stages /\ stage \notin Deciding
  BY DEF Stages, Working, Deciding
<1>4. job' = [job EXCEPT ![j] =
                 JobAt(stage, id, None, background)]
  BY DEF NewConsoleJob
<1> HIDE DEF stage
<1>5. /\ begun \in JobRecords /\ begun.stage = stage
      /\ begun.run = id /\ begun.prov = None
  BY <1>3, JobAtFields
<1>6. job' = [job EXCEPT ![j] = begun]
  BY <1>4
<1>7. /\ job' \in [Jobs -> JobRecords] /\ job'[j] = begun
      /\ \A k \in Jobs \ {j} : job'[k] = job[k]
  <2> HIDE DEF begun
  <2> QED
    BY <1>5, <1>6 DEF JobsTyped
<1>8. job'[j].run = id /\ job'[j].stage \notin Deciding /\ ~IsAdk(j)'
  <2> HIDE DEF begun
  <2> QED
    BY <1>3, <1>5, <1>7 DEF IsAdk
<1> HIDE DEF begun
<1>9. Inv'
  BY <1>1, <1>2, <1>7, <1>8, OpeningKeepsInv
<1> QED
  BY <1>1, <1>9

LEMMA RequestStep ==
    ASSUME Inv, NEW j \in Jobs, Request(j)
    PROVE  Inv' /\ (UNCHANGED registry \/ Registry!Next)
<1>1. CASE AcceptAdk(j)
  BY <1>1, AcceptStep
<1>2. CASE ReplayAdk(j)
  BY <1>2, ReplayStep
<1>3. CASE CreateRun(j)
  BY <1>3, ConsoleStep DEF CreateRun
<1>4. CASE RerunConsole(j)
  <2>1. PICK e \in runs, id \in RunIds :
            NewConsoleJob(j, id,
                IF e.inputs = None THEN DefaultInputs ELSE e.inputs,
                e.id, FALSE)
    BY <1>4 DEF RerunConsole
  <2>2. (IF e.inputs = None THEN DefaultInputs ELSE e.inputs) \in Inputs
    BY WorkflowAssumption DEF Inv, RegistryTyped, Registry!Entries
  <2> QED
    BY <2>1, <2>2, ConsoleStep
<1> QED
  BY <1>1, <1>2, <1>3, <1>4 DEF Request

-----------------------------------------------------------------------------
(* Exceptions and restarts *)

LEMMA RaiseStep ==
    ASSUME Inv, NEW j \in Jobs, Raise(j)
    PROVE  Inv' /\ UNCHANGED registry
<1>1. UNCHANGED registry /\ given' = given /\ Active(j)
  BY DEF Raise, Handling, Working, Active
<1>2. Moves(j)
  BY DEF Raise, To, Moves, Inv, JobsTyped, JobRecords, Stages, Deciding
<1> QED
  BY <1>1, <1>2, LocalStep

LEMMA RestartStep ==
    ASSUME Inv, Restart
    PROVE  Inv' /\ Registry!Next
<1> USE DEF Inv
<1>1. /\ runs' = {Registry!Recovered(e) : e \in runs}
      /\ pending' = [j \in Jobs |-> None] /\ given' = given
      /\ job' = [j \in Jobs |->
                    IF Active(j) THEN [job[j] EXCEPT !.stage = "over"]
                    ELSE job[j]]
  BY DEF Restart, Registry!Restart
<1>2. /\ job' \in [Jobs -> JobRecords]
      /\ \A k \in Jobs : /\ job'[k].run = job[k].run
                          /\ job'[k].prov = job[k].prov
                          /\ job'[k].stage \in {"free", "over"}
  BY <1>1 DEF JobsTyped, JobRecords, Stages, Active
<1>3. RegistryTyped'
  BY <1>1, RecoveredFields DEF RegistryTyped
<1>4. \A e \in runs : \E f \in runs' : f.id = e.id /\ f.prov = e.prov
  BY <1>1, RecoveredFields DEF RegistryTyped
<1>5. JobsTyped'
  BY <1>1, <1>2 DEF JobsTyped
<1>6. Placed' /\ Decided'
  BY <1>2 DEF Placed, Active, Decided, Deciding
<1>7. Owned'
  BY <1>2, <1>4 DEF Owned, IsAdk
<1>8. OneWorkerPerRun'
  BY <1>2 DEF OneWorkerPerRun
<1>9. Registry!Next
  BY DEF Restart, Registry!Next
<1> QED
  BY <1>3, <1>5, <1>6, <1>7, <1>8, <1>9

-----------------------------------------------------------------------------

LEMMA InvHoldsInitially == Init => Inv /\ Registry!Init
<1> SUFFICES ASSUME Init PROVE Inv /\ Registry!Init
  OBVIOUS
<1>1. Registry!Init
  BY DEF Init
<1>2. RegistryTyped
  BY <1>1 DEF Registry!Init, RegistryTyped
<1>3. FreeJob \in JobRecords
  <2>1. 0 \in 0 .. Len(StepKinds)
    BY WorkflowAssumption
  <2> QED
    BY <2>1 DEF FreeJob, JobAt, JobRecords, Stages
<1>4. JobsTyped /\ \A j \in Jobs : job[j] = FreeJob
  BY <1>3 DEF Init, JobsTyped
<1>5. Placed /\ Decided /\ Owned
  BY <1>4 DEF Placed, Decided, Owned, Active, IsAdk, Deciding, FreeJob,
     JobAt
<1>6. OneWorkerPerRun
  BY <1>4 DEF OneWorkerPerRun, FreeJob, JobAt
<1> QED
  BY <1>1, <1>2, <1>4, <1>5, <1>6 DEF Inv

LEMMA StepKeepsInv ==
    Inv /\ [Next]_vars => Inv' /\ (UNCHANGED registry \/ Registry!Next)
<1> SUFFICES ASSUME Inv, [Next]_vars
             PROVE  Inv' /\ (UNCHANGED registry \/ Registry!Next)
  OBVIOUS
<1>1. CASE \E j \in Jobs : Request(j) \/ Advance(j) \/ Raise(j)
  BY <1>1, RequestStep, AdvanceStep, RaiseStep
<1>2. CASE Restart
  BY <1>2, RestartStep
<1>3. CASE UNCHANGED vars
  <2>1. /\ UNCHANGED <<runs, ops, pending, replies, job, given>>
    BY <1>3 DEF vars, registry
  <2>2. RegistryTyped' /\ JobsTyped'
    BY <2>1 DEF Inv, RegistryTyped, JobsTyped
  <2>3. Placed' /\ Decided' /\ Owned' /\ OneWorkerPerRun'
    BY <2>1 DEF Inv, Placed, Decided, Owned, OneWorkerPerRun, Active, IsAdk
  <2> QED
    BY <2>1, <2>2, <2>3 DEF Inv, registry
<1> QED
  BY <1>1, <1>2, <1>3 DEF Next

(* However often a request is retried and wherever the control plane died, *)
(* a run has one worker (ReplayAdk schedules nothing, AcceptAdk and        *)
(* NewConsoleJob take a run nobody has).                                   *)
THEOREM OneWorker == Spec => []OneWorkerPerRun
<1>1. Inv => OneWorkerPerRun
  BY DEF Inv
<1> QED
  BY <1>1, InvHoldsInitially, StepKeepsInv, PTL DEF Spec

(* Handlers, workers and recovery change the registry by its transactions  *)
(* only, and hand record_run_event what RunRegistry expects of callers, so *)
(* that the theorems of RunRegistryProofs hold of every workflow run.      *)
THEOREM Implements == Spec => KeepsRegistry
<1>1. Inv /\ [Next]_vars
      => [UNCHANGED registry \/ Registry!Next]_registry
  BY StepKeepsInv
<1> QED
  BY <1>1, InvHoldsInitially, StepKeepsInv, PTL DEF Spec, KeepsRegistry

-----------------------------------------------------------------------------
(* What the registry and the disk hold of a run, by the stage of its job *)

Early == {"accepted", "rooted", "recording", "scheduled", "queued",
          "running", "between", "working", "worked"}
Late == {"packing", "summing", "publishing", "finishing", "closing"}

(* The status of the entry of a job r. *)
Told(r, status) ==
    /\ r.stage \in Early => status \in Registry!InFlight
    /\ r.stage \in Late => status = Reported(r.outcome)
    /\ r.stage = "verifying" => status = r.outcome

(* The artifact root d of a job r. *)
Shown(r, d) ==
    /\ r.stage \in {"accepted", "rooted", "recording", "scheduled", "queued",
                    "running"}
       => d.steps = {}
    /\ r.stage \in {"between", "working"} =>
          r.step \in 1 .. Len(StepKinds) /\ d.steps = 1 .. (r.step - 1)
    /\ r.stage \in {"worked"} \cup Late =>
          r.step \in 1 .. Len(StepKinds) /\ d.steps = 1 .. r.step
    /\ r.stage \in Late /\ r.outcome = "completed" => r.step = Len(StepKinds)
    /\ r.stage \in {"publishing", "finishing", "closing"} => d.summary
    /\ r.stage \in {"finishing", "closing"} => d.manifest = "final"
    /\ r.prov # None => r.background /\ r.stage # "recording"
    /\ r.prov # None /\ r.stage \in {"rooted"} \cup Working => d.root
    /\ r.prov # None /\ r.stage \in Working => d.manifest # "none"

(* The record a job r is to make next. *)
DueStatus(r) ==
    IF r.stage = "recording" THEN "accepted"
    ELSE IF r.stage = "scheduled" THEN "queued"
    ELSE IF r.stage \in {"queued", "running", "between"} THEN "running"
    ELSE IF r.stage \in {"worked", "finishing"} THEN Reported(r.outcome)
    ELSE IF r.stage = "closing" THEN r.outcome
    ELSE "failed"

DueInputs(r) ==
    IF r.stage \in {"recording", "scheduled", "queued", "closing"}
    THEN given[r.run]
    ELSE IF r.stage = "failing" THEN Registry!Keep
    ELSE Registry!Drop

Due(j) ==
    Event(j, DueStatus(job[j]), DueInputs(job[j]),
          IF job[j].stage = "failing" THEN job[j].prov ELSE None)

Recording == {"recording", "scheduled", "queued", "running", "between",
              "worked", "finishing", "closing", "failing"}

-----------------------------------------------------------------------------
(* The parts of the invariant *)

DisksTyped == disk \in [RunIds -> Disks]

OneEntryPerRun == \A e, f \in runs : e.id = f.id => e = f

(* An entry has the provenance of its job, and the run's inputs or none. *)
EntriesFit ==
    \A e \in runs :
        /\ e.source # None <=> e.prov # None
        /\ e.inputs # None => e.inputs = given[e.id]
        /\ \A j \in Jobs : job[j].run = e.id => job[j].prov = e.prov

StatusesFit ==
    \A e \in runs, j \in Jobs : job[j].run = e.id => Told(job[j], e.status)

DisksFit ==
    \A j \in Jobs : job[j].run # None => Shown(job[j], disk[job[j].run])

(* Only the first record of a console run is a create. *)
CreatesFit ==
    \A j \in Jobs : pending[j] # None =>
        /\ ~IsAdk(j)
        /\ job[j].stage \in Recording
        /\ ~Registry!Known(runs, job[j].run)
        /\ pending[j] = Due(j)

(* A run has nothing on disk before its job.                               *)
UntouchedAreEmpty ==
    /\ \A j \in Jobs : job[j].stage = "free" => job[j].run = None
    /\ \A id \in RunIds :
          (\A j \in Jobs : job[j].run # id) => disk[id] = EmptyDisk

(* An ADK run in flight is somebody's. *)
InFlightIsInHand ==
    \A e \in AdkRuns : e.status \in Registry!InFlight =>
        \E j \in Jobs : Active(j) /\ job[j].run = e.id

SourcesKnown ==
    /\ source \in [RunIds -> RunIds \cup {None}]
    /\ \A id \in RunIds :
          source[id] # None => Registry!Known(runs, source[id])

EvidenceInv ==
    /\ Inv
    /\ DisksTyped
    /\ OneEntryPerRun
    /\ EntriesFit
    /\ StatusesFit
    /\ DisksFit
    /\ CreatesFit
    /\ UntouchedAreEmpty
    /\ InFlightIsInHand
    /\ SourcesKnown
    /\ StatusIsBacked
    /\ LineageKeepsInputs


(* No outcome is replaced by another one than "failed". *)
NoReopening ==
    \A e \in runs, f \in runs' :
        f.id = e.id /\ e.status \in Outcomes => f.status \in {e.status, "failed"}

-----------------------------------------------------------------------------
(* Records and the evidence *)

LEMMA StageFields ==
    ASSUME NEW r \in JobRecords, NEW stage \in Stages, NEW next,
           next = [r EXCEPT !.stage = stage]
    PROVE  /\ next \in JobRecords
           /\ next.stage = stage /\ next.run = r.run /\ next.prov = r.prov
           /\ next.background = r.background /\ next.step = r.step
           /\ next.outcome = r.outcome
<1> DEFINE Steps == 0 .. Len(StepKinds)
<1>1. JobRecords =
        [stage : Stages, run : RunIds \cup {None},
         prov : Registry!Provenances \cup {None}, background : BOOLEAN,
         step : Steps, outcome : Outcomes \cup {None}]
  BY DEF JobRecords
<1> HIDE DEF Steps
<1> QED
  BY <1>1

(* What a call of record_run_event has done by the time it returns: the    *)
(* update missed the run, or the run's entry is the one the event asks for.*)
Recorded(j, ev, g) ==
    /\ g \in Registry!Entries
    /\ g.id = ev.id
    /\ g.status = ev.status
    /\ g.prov = job[j].prov
    /\ g.source # None <=> g.prov # None
    /\ \/ g.inputs = Registry!RecordedInputs(None, ev)
       \/ \E e \in runs : /\ e.id = ev.id
                          /\ g.inputs = Registry!RecordedInputs(e.inputs, ev)
    /\ runs' = {e \in runs : e.id # ev.id} \cup {g}

LEMMA RecordsLead ==
    ASSUME EvidenceInv, NEW j \in Jobs, NEW ev \in Registry!Events,
           ev = Due(j), ev.prov \in {None, job[j].prov},
           NEW next, Records(j, ev, next)
    PROVE  /\ UNCHANGED <<disk, given, source>>
           /\ \/ /\ runs' = runs /\ job' = job
                 /\ pending' = [pending EXCEPT ![j] = ev]
                 /\ ~Registry!Known(runs, ev.id)
              \/ /\ job' = [job EXCEPT ![j] = next]
                 /\ pending' \in {pending, [pending EXCEPT ![j] = None]}
                 /\ pending'[j] = None
                 /\ \E g : Recorded(j, ev, g)
<1> USE DEF EvidenceInv, Inv
<1>1. UNCHANGED <<disk, given, source>>
  BY DEF Records
<1>2. ev.id = job[j].run
  BY DEF Due, Event
<1>3. pending \in [Jobs -> Registry!Events \cup {None}]
  BY DEF RegistryTyped
<1>4. CASE Registry!RecordUpdate(j, ev) /\ job' = [job EXCEPT ![j] = next]
  <2>1. pending' = pending /\ pending[j] = None
    BY <1>4 DEF Registry!RecordUpdate
  <2>2. PICK e \in runs :
            /\ e.id = ev.id
            /\ Registry!ImmutableFieldsAgree(e, ev)
            /\ runs' = (runs \ {e}) \cup {Registry!Updated(e, ev)}
    BY <1>4 DEF Registry!RecordUpdate, Registry!UpdateExisting
  <2>3. e \in Registry!Entries /\ e.prov = job[j].prov
        /\ (e.source # None <=> e.prov # None)
    BY <1>2, <2>2 DEF RegistryTyped, EntriesFit
  <2> DEFINE g == Registry!Updated(e, ev)
  <2>4. g \in Registry!Entries /\ g.id = ev.id
    BY <2>2, <2>3, UpdatedFields
  <2>5. /\ g.status = ev.status
        /\ g.inputs = Registry!RecordedInputs(e.inputs, ev)
        /\ g.prov = IF ev.prov # None THEN ev.prov ELSE e.prov
        /\ g.source = IF ev.prov # None THEN "adk-developer" ELSE e.source
    BY <2>3 DEF Registry!Updated, Registry!Entries
  <2>6. g.prov = job[j].prov /\ (g.source # None <=> g.prov # None)
    BY <2>3, <2>5, WorkflowAssumption
  <2>7. runs \ {e} = {f \in runs : f.id # ev.id}
    BY <2>2 DEF OneEntryPerRun
  <2> HIDE DEF g
  <2>8. Recorded(j, ev, g)
    BY <2>2, <2>4, <2>5, <2>6, <2>7 DEF Recorded, g
  <2> QED
    BY <1>1, <1>4, <2>1, <2>8
<1>5. CASE Registry!RecordMissing(j, ev) /\ UNCHANGED job
  BY <1>1, <1>5 DEF Registry!RecordMissing
<1>6. CASE Registry!RecordCreate(j) /\ job' = [job EXCEPT ![j] = next]
  <2>1. pending[j] # None /\ pending' = [pending EXCEPT ![j] = None]
    BY <1>6 DEF Registry!RecordCreate
  <2>2. pending[j] = ev /\ ~IsAdk(j) /\ ~Registry!Known(runs, ev.id)
    BY <1>2, <2>1 DEF CreatesFit
  <2> DEFINE g == Registry!Created(ev)
  <2>3. runs' = runs \cup {g}
    BY <1>6, <2>2 DEF Registry!RecordCreate
  <2>4. g \in Registry!Entries
    BY CreatedIsEntry
  <2>5. job[j].prov = None /\ ev.prov = None
    BY <2>2 DEF IsAdk
  <2>6. /\ g.id = ev.id /\ g.status = ev.status
        /\ g.prov = None /\ g.source = None
        /\ g.inputs = Registry!RecordedInputs(None, ev)
    BY <2>5 DEF Registry!Created
  <2>7. runs = {f \in runs : f.id # ev.id}
    BY <2>2 DEF Registry!Known
  <2> HIDE DEF g
  <2>8. Recorded(j, ev, g)
    BY <2>3, <2>4, <2>5, <2>6, <2>7 DEF Recorded
  <2>9. pending'[j] = None
    BY <1>3, <2>1
  <2> QED
    BY <1>1, <1>6, <2>1, <2>8, <2>9
<1> QED
  BY <1>4, <1>5, <1>6 DEF Records

(* A job may make its next record: the event is due, the job that follows  *)
(* fits what the record says and what is on disk.                          *)
MayRecord(j, next) ==
    LET ev == Due(j)
        d == disk[job[j].run]
    IN
    /\ job[j].stage \in Recording
    /\ next \in JobRecords
    /\ next.run = job[j].run /\ next.prov = job[j].prov
    /\ ev.inputs \in {given[job[j].run], Registry!Keep, Registry!Drop}
    /\ Told(next, ev.status)
    /\ Shown(next, d)
    /\ ev.status = "completed" =>
          /\ d.manifest = "final" /\ d.summary
          /\ d.steps = 1 .. Len(StepKinds)
          /\ ev.inputs = given[job[j].run]
    /\ IsAdk(j) /\ ev.status \notin {"accepted", "failed"}
       => d.root /\ d.manifest # "none"
    /\ IsAdk(j) /\ next.stage = "over" => ev.status \in Outcomes
    /\ next.stage # "free"
    /\ \A status \in Outcomes :
          Told(job[j], status) => ev.status \in {status, "failed"}

LEMMA RecordingKeepsEvidence ==
    ASSUME EvidenceInv, Inv', NEW j \in Jobs, Active(j),
           Due(j) \in Registry!Events,
           NEW next, MayRecord(j, next), Records(j, Due(j), next)
    PROVE  EvidenceInv' /\ NoReopening
<1> USE DEF EvidenceInv, Inv
<1> DEFINE ev == Due(j)
           id == job[j].run
<1>1. /\ id \in RunIds /\ given[id] \in Inputs /\ ev.id = id
      /\ ev.prov \in {None, job[j].prov}
  BY DEF Placed, Due, Event
<1>2. /\ job \in [Jobs -> JobRecords]
      /\ given \in [RunIds -> Inputs \cup {None}]
      /\ pending \in [Jobs -> Registry!Events \cup {None}]
  BY DEF JobsTyped, RegistryTyped
<1>3. \A k \in Jobs : job[k].run = id => k = j
  BY <1>1, WorkflowAssumption DEF OneWorkerPerRun
<1>4. /\ UNCHANGED <<disk, given, source>>
      /\ \/ /\ runs' = runs /\ job' = job
            /\ pending' = [pending EXCEPT ![j] = ev]
            /\ ~Registry!Known(runs, id)
         \/ /\ job' = [job EXCEPT ![j] = next]
            /\ pending' \in {pending, [pending EXCEPT ![j] = None]}
            /\ pending'[j] = None
            /\ \E g : Recorded(j, ev, g)
  <2> HIDE DEF ev
  <2> QED
    BY <1>1, RecordsLead DEF ev
<1>5. DisksTyped' /\ UntouchedAreEmpty'
  <2>1. \A k \in Jobs : job'[k].run = job[k].run
    BY <1>2, <1>4 DEF MayRecord
  <2>2. \A k \in Jobs : job'[k].stage = "free" => job[k].stage = "free"
    BY <1>2, <1>4 DEF MayRecord
  <2> QED
    BY <1>4, <2>1, <2>2 DEF DisksTyped, UntouchedAreEmpty
<1>6. CASE /\ runs' = runs /\ job' = job
           /\ pending' = [pending EXCEPT ![j] = ev]
           /\ ~Registry!Known(runs, id)
  <2> HIDE DEF ev
  <2>1. ~IsAdk(j)
    BY <1>6 DEF Owned, Registry!Known
  <2>2. Due(j)' = ev
    BY <1>4, <1>6 DEF ev, Due, DueStatus, DueInputs, Event
  <2>3. \A k \in Jobs \ {j} : Due(k)' = Due(k)
    BY <1>4, <1>6 DEF Due, DueStatus, DueInputs, Event
  <2>4. CreatesFit'
    BY <1>2, <1>6, <2>1, <2>2, <2>3 DEF CreatesFit, IsAdk, MayRecord
  <2>5. OneEntryPerRun' /\ EntriesFit' /\ StatusesFit' /\ DisksFit'
    BY <1>4, <1>6 DEF OneEntryPerRun, EntriesFit, StatusesFit, DisksFit,
       Told, Shown
  <2>6. InFlightIsInHand' /\ SourcesKnown' /\ LineageKeepsInputs'
    BY <1>4, <1>6 DEF InFlightIsInHand, SourcesKnown, LineageKeepsInputs,
       AdkRuns, Active
  <2>7. StatusIsBacked'
    BY <1>4, <1>6 DEF StatusIsBacked, CompletedIsBacked, WorkIsReadable,
       AdkRuns
  <2>8. NoReopening
    BY <1>6 DEF NoReopening, OneEntryPerRun
  <2> QED
    BY <1>5, <2>4, <2>5, <2>6, <2>7, <2>8
<1>7. ASSUME job' = [job EXCEPT ![j] = next],
             pending' \in {pending, [pending EXCEPT ![j] = None]},
             pending'[j] = None,
             NEW g, Recorded(j, ev, g)
      PROVE  EvidenceInv' /\ NoReopening
  <2>1. /\ job'[j] = next /\ \A k \in Jobs \ {j} : job'[k] = job[k]
        /\ next \in JobRecords /\ next.run = id /\ next.prov = job[j].prov
    BY <1>2, <1>7 DEF MayRecord
  <2>2. /\ runs' = {e \in runs : e.id # id} \cup {g}
        /\ g \in Registry!Entries /\ g.id = id /\ g.status = ev.status
        /\ g.prov = job[j].prov /\ (g.source # None <=> g.prov # None)
    BY <1>1, <1>7 DEF Recorded
  <2>3. /\ g.inputs # None => g.inputs = given[id]
        /\ ev.inputs = given[id] => g.inputs = given[id]
    <3>1. ev.inputs \in {given[id], Registry!Keep, Registry!Drop}
      BY DEF MayRecord
    <3>2. given[id] \notin {Registry!Keep, Registry!Drop}
      BY <1>1, WorkflowAssumption DEF Registry!Keep, Registry!Drop
    <3>3. \A e \in runs : e.id = id /\ e.inputs # None => e.inputs = given[id]
      BY DEF EntriesFit
    <3> HIDE DEF ev
    <3> QED
      BY <1>1, <1>7, <3>1, <3>2, <3>3 DEF Recorded, Registry!RecordedInputs
  <2> DEFINE d == disk[id]
  <2>4. /\ Told(next, ev.status) /\ Shown(next, d)
        /\ ev.status = "completed" =>
              /\ d.manifest = "final" /\ d.summary
              /\ d.steps = 1 .. Len(StepKinds)
              /\ ev.inputs = given[id]
        /\ job[j].prov # None /\ ev.status \notin {"accepted", "failed"}
           => d.root /\ d.manifest # "none"
        /\ job[j].prov # None /\ next.stage = "over" => ev.status \in Outcomes
        /\ next.stage # "free"
        /\ \A status \in Outcomes :
              Told(job[j], status) => ev.status \in {status, "failed"}
    BY DEF MayRecord, IsAdk
  <2> HIDE DEF ev, id, d
  <2>5. OneEntryPerRun'
    BY <2>2 DEF OneEntryPerRun
  <2>6. EntriesFit'
    BY <1>3, <1>4, <2>1, <2>2, <2>3 DEF EntriesFit
  <2>7. StatusesFit'
    <3> SUFFICES ASSUME NEW e \in runs', NEW k \in Jobs, job'[k].run = e.id
                 PROVE  Told(job'[k], e.status)
      BY DEF StatusesFit, Told
    <3>1. CASE k = j
      BY <2>1, <2>2, <2>4, <3>1
    <3>2. CASE k # j
      <4>1. job'[k] = job[k] /\ e \in runs
        BY <1>3, <2>1, <2>2, <3>2
      <4> QED
        BY <4>1 DEF StatusesFit
    <3> QED
      BY <3>1, <3>2
  <2>8. DisksFit'
    <3> SUFFICES ASSUME NEW k \in Jobs, job'[k].run # None
                 PROVE  Shown(job'[k], disk[job'[k].run])
      BY <1>4 DEF DisksFit, Shown
    <3> QED
      BY <2>1, <2>4 DEF DisksFit, d
  <2>9. CreatesFit'
    <3> SUFFICES ASSUME NEW k \in Jobs, pending'[k] # None
                 PROVE  /\ ~IsAdk(k)' /\ job'[k].stage \in Recording
                        /\ ~Registry!Known(runs', job'[k].run)
                        /\ pending'[k] = Due(k)'
      BY DEF CreatesFit, Registry!Known
    <3>1. k # j /\ pending[k] # None
      BY <1>2, <1>7
    <3>2. pending'[k] = pending[k] /\ job'[k] = job[k]
      BY <1>2, <1>7, <2>1, <3>1
    <3>3. Due(k)' = Due(k)
      BY <1>4, <3>2 DEF Due, DueStatus, DueInputs, Event
    <3>4. /\ ~IsAdk(k) /\ job[k].stage \in Recording
          /\ ~Registry!Known(runs, job[k].run) /\ pending[k] = Due(k)
      BY <3>1 DEF CreatesFit
    <3>5. job[k].run # id
      BY <1>3, <3>1
    <3>6. ~Registry!Known(runs', job'[k].run)
      BY <2>2, <3>2, <3>4, <3>5 DEF Registry!Known
    <3> QED
      BY <3>2, <3>3, <3>4, <3>6 DEF IsAdk
  <2>10. InFlightIsInHand'
    <3> SUFFICES ASSUME NEW e \in runs', e.source = "adk-developer",
                        e.status \in Registry!InFlight
                 PROVE  \E k \in Jobs : Active(k)' /\ job'[k].run = e.id
      BY DEF InFlightIsInHand, AdkRuns
    <3>1. CASE e = g
      <4>1. g.prov # None
        BY <2>2, <3>1, WorkflowAssumption
      <4>2. next.stage \notin {"free", "over"}
        BY <2>2, <2>4, <3>1, <4>1 DEF Registry!InFlight, Outcomes
      <4> QED
        BY <2>1, <2>2, <3>1, <4>2 DEF Active
    <3>2. CASE e # g
      <4>1. e \in runs /\ e.id # id
        BY <2>2, <3>2
      <4>2. PICK k \in Jobs : Active(k) /\ job[k].run = e.id
        BY <4>1 DEF InFlightIsInHand, AdkRuns
      <4>3. k # j
        BY <4>1, <4>2 DEF id
      <4> QED
        BY <2>1, <4>2, <4>3 DEF Active
    <3> QED
      BY <3>1, <3>2
  <2>11. \A x : Registry!Known(runs, x) => Registry!Known(runs', x)
    BY <2>2 DEF Registry!Known
  <2>12. SourcesKnown'
    BY <1>4, <2>11 DEF SourcesKnown
  <2>13. StatusIsBacked'
    <3>1. CompletedIsBacked'
      BY <1>4, <2>2, <2>3, <2>4 DEF StatusIsBacked, CompletedIsBacked, d
    <3>2. WorkIsReadable'
      <4> SUFFICES ASSUME NEW e \in runs', e.source = "adk-developer",
                          e.status \in {"queued", "running", "completed",
                                        "needs_review"}
                   PROVE  disk[e.id].root /\ disk[e.id].manifest # "none"
        BY <1>4 DEF WorkIsReadable, AdkRuns
      <4>1. CASE e = g
        BY <2>2, <2>4, <4>1, WorkflowAssumption DEF d
      <4>2. CASE e # g
        BY <2>2, <4>2 DEF StatusIsBacked, WorkIsReadable, AdkRuns
      <4> QED
        BY <4>1, <4>2
    <3> QED
      BY <3>1, <3>2 DEF StatusIsBacked
  <2>14. LineageKeepsInputs'
    <3> SUFFICES ASSUME NEW e \in runs', e.source = "adk-developer",
                        source[e.id] # None
                 PROVE  given[e.id] = given[source[e.id]]
      BY <1>4 DEF LineageKeepsInputs, AdkRuns
    <3>1. CASE e = g
      <4>1. job[j].prov # None
        BY <2>2, <3>1, WorkflowAssumption
      <4>2. PICK f \in runs : f.id = id /\ f.prov # None
        BY <4>1 DEF Owned, IsAdk, id
      <4>3. f.source = "adk-developer"
        BY <4>2 DEF EntriesFit, RegistryTyped, Registry!Entries
      <4> QED
        BY <2>2, <3>1, <4>2, <4>3 DEF LineageKeepsInputs, AdkRuns
    <3>2. CASE e # g
      BY <2>2, <3>2 DEF LineageKeepsInputs, AdkRuns
    <3> QED
      BY <3>1, <3>2
  <2>15. NoReopening
    BY <2>2, <2>4 DEF NoReopening, StatusesFit, OneEntryPerRun, id
  <2> QED
    BY <1>5, <2>5, <2>6, <2>7, <2>8, <2>9, <2>10, <2>12, <2>13, <2>14, <2>15
<1> QED
  BY <1>4, <1>6, <1>7

-----------------------------------------------------------------------------
(* Steps that leave the registry alone *)

(* Job j of run id moves within the run and leaves d in its root. *)
LEMMA LocalStepKeepsEvidence ==
    ASSUME EvidenceInv, Inv', NEW j \in Jobs, Active(j),
           UNCHANGED <<registry, given, source>>,
           NEW next \in JobRecords, job' = [job EXCEPT ![j] = next],
           next.run = job[j].run, next.prov = job[j].prov,
           next.stage # "free", pending[j] = None,
           NEW d \in Disks, disk' = [disk EXCEPT ![job[j].run] = d],
           Shown(next, d),
           \A e \in runs : e.id = job[j].run =>
              /\ Told(next, e.status)
              /\ next.stage = "over" /\ IsAdk(j) => e.status \in Outcomes
              /\ e.status = "completed" =>
                    d.manifest = "final" /\ d.summary
                    /\ d.steps = 1 .. Len(StepKinds),
           disk[job[j].run].root => d.root,
           disk[job[j].run].manifest # "none" => d.manifest # "none"
    PROVE  EvidenceInv' /\ NoReopening
<1> USE DEF EvidenceInv, Inv
<1> DEFINE id == job[j].run
<1>1. /\ id \in RunIds /\ job \in [Jobs -> JobRecords]
      /\ disk \in [RunIds -> Disks]
  BY DEF Placed, JobsTyped, DisksTyped
<1>2. \A k \in Jobs : job[k].run = id => k = j
  BY <1>1, WorkflowAssumption DEF OneWorkerPerRun
<1>3. /\ job'[j] = next /\ \A k \in Jobs \ {j} : job'[k] = job[k]
      /\ \A k \in Jobs : job'[k].run = job[k].run /\ job'[k].prov = job[k].prov
  BY <1>1
<1>4. /\ disk' \in [RunIds -> Disks] /\ disk'[id] = d
      /\ \A r \in RunIds \ {id} : disk'[r] = disk[r]
  BY <1>1
<1>5. UNCHANGED <<runs, pending, given, source>>
  BY DEF registry
<1> HIDE DEF id
<1>6. DisksTyped' /\ OneEntryPerRun' /\ EntriesFit' /\ SourcesKnown'
      /\ LineageKeepsInputs'
  BY <1>3, <1>4, <1>5 DEF DisksTyped, OneEntryPerRun, EntriesFit,
     SourcesKnown, LineageKeepsInputs, AdkRuns
<1>7. StatusesFit'
  <2> SUFFICES ASSUME NEW e \in runs, NEW k \in Jobs, job'[k].run = e.id
               PROVE  Told(job'[k], e.status)
    BY <1>5 DEF StatusesFit, Told
  <2> QED
    BY <1>2, <1>3 DEF StatusesFit
<1>8. DisksFit'
  <2> SUFFICES ASSUME NEW k \in Jobs, job'[k].run # None
               PROVE  Shown(job'[k], disk'[job'[k].run])
    BY DEF DisksFit, Shown
  <2>1. CASE k = j
    BY <1>3, <1>4, <2>1 DEF id
  <2>2. CASE k # j
    <3>1. job[k] \in JobRecords /\ job'[k] = job[k]
      BY <1>1, <1>3, <2>2
    <3>2. job[k].run \in RunIds \ {id}
      BY <1>2, <2>2, <3>1 DEF JobRecords
    <3> QED
      BY <1>4, <3>1, <3>2 DEF DisksFit
  <2> QED
    BY <2>1, <2>2
<1>9. CreatesFit'
  <2> SUFFICES ASSUME NEW k \in Jobs, pending[k] # None
               PROVE  /\ ~IsAdk(k)' /\ job'[k].stage \in Recording
                      /\ ~Registry!Known(runs, job'[k].run)
                      /\ pending[k] = Due(k)'
    BY <1>5 DEF CreatesFit
  <2>1. k # j /\ job'[k] = job[k]
    BY <1>3
  <2>2. Due(k)' = Due(k)
    BY <1>5, <2>1 DEF Due, DueStatus, DueInputs, Event
  <2> QED
    BY <2>1, <2>2 DEF CreatesFit, IsAdk
<1>10. UntouchedAreEmpty'
  BY <1>3, <1>4 DEF UntouchedAreEmpty, id
<1>11. InFlightIsInHand'
  <2> SUFFICES ASSUME NEW e \in runs, e.source = "adk-developer",
                      e.status \in Registry!InFlight
               PROVE  \E k \in Jobs : Active(k)' /\ job'[k].run = e.id
    BY <1>5 DEF InFlightIsInHand, AdkRuns
  <2>1. PICK k \in Jobs : Active(k) /\ job[k].run = e.id
    BY DEF InFlightIsInHand, AdkRuns
  <2>2. CASE k = j
    <3>1. IsAdk(j)
      BY <2>1, <2>2, WorkflowAssumption DEF EntriesFit, IsAdk
    <3>2. next.stage # "over"
      BY <2>1, <2>2, <3>1 DEF Registry!InFlight, Outcomes
    <3> QED
      BY <1>3, <2>1, <2>2, <3>2 DEF Active
  <2>3. CASE k # j
    BY <1>3, <2>1, <2>3 DEF Active
  <2> QED
    BY <2>2, <2>3
<1>12. StatusIsBacked'
  <2>1. \A e \in runs : e.id \in RunIds
    BY DEF RegistryTyped, Registry!Entries
  <2>2. CompletedIsBacked'
    BY <1>4, <1>5, <2>1 DEF StatusIsBacked, CompletedIsBacked, id
  <2>3. WorkIsReadable'
    BY <1>4, <1>5, <2>1 DEF StatusIsBacked, WorkIsReadable, AdkRuns, id
  <2> QED
    BY <2>2, <2>3 DEF StatusIsBacked
<1>13. NoReopening
  BY <1>5 DEF NoReopening, OneEntryPerRun
<1> QED
  BY <1>6, <1>7, <1>8, <1>9, <1>10, <1>11, <1>12, <1>13

-----------------------------------------------------------------------------
(* The worker and the evidence *)

LEMMA DueIsEvent ==
    ASSUME Inv, NEW j \in Jobs, job[j].stage \in Recording
    PROVE  Due(j) \in Registry!Events
<1> USE DEF Inv
<1>1. job[j] \in JobRecords /\ Active(j)
  BY DEF JobsTyped, Recording, Active
<1>2. job[j].run \in RunIds /\ given[job[j].run] \in Inputs
  BY <1>1 DEF Placed
<1>3. job[j].stage \in {"worked", "finishing", "closing"}
      => job[j].outcome \in Outcomes
  BY DEF Decided, Deciding
<1>4. DueStatus(job[j]) \in EventStatuses
  BY <1>3 DEF DueStatus, EventStatuses, Reported, Outcomes
<1>5. DueInputs(job[j]) \in Inputs \cup {Registry!Keep, Registry!Drop}
  BY <1>2 DEF DueInputs
<1>6. (IF job[j].stage = "failing" THEN job[j].prov ELSE None)
        \in Registry!Provenances \cup {None}
  BY <1>1 DEF JobRecords
<1> QED
  BY <1>2, <1>4, <1>5, <1>6 DEF Due, Event, Registry!Events,
     Registry!EventsWith

(* What a job about to record knows of its run. *)
LEMMA RunOf ==
    ASSUME EvidenceInv, NEW j \in Jobs, Active(j)
    PROVE  /\ job[j] \in JobRecords /\ job[j].run \in RunIds
           /\ given[job[j].run] \in Inputs
           /\ Shown(job[j], disk[job[j].run]) /\ disk[job[j].run] \in Disks
           /\ job[j].stage \in Deciding => job[j].outcome \in Outcomes
           /\ job[j].step \in 0 .. Len(StepKinds)
           /\ Len(StepKinds) \in Nat \ {0}
           /\ \A e \in runs :
                 e.id = job[j].run => Told(job[j], e.status)
<1> USE DEF EvidenceInv, Inv
<1>1. job[j] \in JobRecords /\ job[j].step \in 0 .. Len(StepKinds)
  BY DEF JobsTyped, JobRecords
<1>2. job[j].run \in RunIds /\ given[job[j].run] \in Inputs
  BY DEF Placed
<1>3. Shown(job[j], disk[job[j].run]) /\ disk[job[j].run] \in Disks
  BY <1>2, WorkflowAssumption DEF DisksFit, DisksTyped
<1>4. job[j].stage \in Deciding => job[j].outcome \in Outcomes
  BY DEF Decided
<1>5. Len(StepKinds) \in Nat \ {0}
  BY WorkflowAssumption
<1>6. \A e \in runs : e.id = job[j].run => Told(job[j], e.status)
  BY DEF StatusesFit
<1> QED
  BY <1>1, <1>2, <1>3, <1>4, <1>5, <1>6

(* A record that moves a job to another stage. *)
LEMMA StageRecordKeepsEvidence ==
    ASSUME EvidenceInv, Inv', NEW j \in Jobs, NEW stage \in Stages,
           NEW next, next = [job[j] EXCEPT !.stage = stage],
           Records(j, Due(j), next),
           \/ job[j].stage = "recording" /\ stage = "scheduled"
           \/ job[j].stage = "scheduled" /\ stage = "queued"
           \/ job[j].stage = "queued" /\ stage = "running"
           \/ job[j].stage = "between" /\ stage = "working"
           \/ job[j].stage = "finishing" /\ stage = "closing"
           \/ job[j].stage = "closing" /\ stage = "verifying"
           \/ job[j].stage = "closing" /\ stage = "over" /\ ~IsAdk(j)
           \/ job[j].stage = "failing" /\ stage = "over"
    PROVE  EvidenceInv' /\ NoReopening
<1> DEFINE r == job[j]
           d == disk[job[j].run]
           ev == Due(j)
<1>1. Active(j) /\ r.stage \in Recording
  BY DEF Active, Recording
<1>2. /\ r \in JobRecords /\ r.run \in RunIds /\ given[r.run] \in Inputs
      /\ Shown(r, d)
      /\ r.stage \in Deciding => r.outcome \in Outcomes
  BY <1>1, RunOf
<1>3. /\ next \in JobRecords /\ next.stage = stage
      /\ next.run = r.run /\ next.prov = r.prov
      /\ next.background = r.background /\ next.step = r.step
      /\ next.outcome = r.outcome
  BY <1>2, StageFields
<1>4. ev.status = DueStatus(r) /\ ev.inputs = DueInputs(r)
  BY DEF Due, Event
<1>5. Told(next, ev.status)
  BY <1>2, <1>3, <1>4 DEF Told, DueStatus, Early, Late, Registry!InFlight
<1>6. Shown(next, d)
  BY <1>2, <1>3 DEF Shown, Late, Working
<1>7. ev.inputs \in {given[r.run], Registry!Keep, Registry!Drop}
  BY <1>4 DEF DueInputs
<1>8. ev.status = "completed" =>
          /\ d.manifest = "final" /\ d.summary
          /\ d.steps = 1 .. Len(StepKinds)
          /\ ev.inputs = given[r.run]
  BY <1>2, <1>4 DEF DueStatus, DueInputs, Shown, Late, Reported
<1>9. IsAdk(j) /\ ev.status \notin {"accepted", "failed"}
      => d.root /\ d.manifest # "none"
  BY <1>2, <1>4 DEF DueStatus, Shown, Working, IsAdk
<1>10. IsAdk(j) /\ stage = "over" => ev.status \in Outcomes
  BY <1>4 DEF DueStatus, Outcomes
<1>11. \A status \in Outcomes :
          Told(r, status) => ev.status \in {status, "failed"}
  BY <1>4 DEF DueStatus, Told, Early, Late, Outcomes, Reported,
     Registry!InFlight
<1>12. MayRecord(j, next)
  BY <1>1, <1>3, <1>5, <1>6, <1>7, <1>8, <1>9, <1>10, <1>11 DEF MayRecord
<1> QED
  BY <1>1, <1>12, DueIsEvent, RecordingKeepsEvidence DEF EvidenceInv

(* A record that moves a job to another step. *)
LEMMA StepRecordKeepsEvidence ==
    ASSUME EvidenceInv, Inv', NEW j \in Jobs, NEW stage \in Stages,
           NEW step \in 0 .. Len(StepKinds),
           NEW next, next = Stepped(job[j], stage, step),
           Records(j, Due(j), next),
           \/ /\ job[j].stage = "running" /\ stage = "between" /\ step = 1
           \/ /\ job[j].stage = "worked" /\ job[j].outcome = "completed"
              /\ stage = "between" /\ step = job[j].step + 1
           \/ /\ job[j].stage = "worked" /\ stage = "packing"
              /\ step = job[j].step
              /\ ~(job[j].outcome = "completed" /\ step < Len(StepKinds))
    PROVE  EvidenceInv' /\ NoReopening
<1> DEFINE r == job[j]
           d == disk[job[j].run]
           ev == Due(j)
<1>1. Active(j) /\ r.stage \in Recording
  BY DEF Active, Recording
<1>2. /\ r \in JobRecords /\ r.run \in RunIds /\ given[r.run] \in Inputs
      /\ Shown(r, d) /\ d \in Disks
      /\ r.stage \in Deciding => r.outcome \in Outcomes
      /\ r.step \in 0 .. Len(StepKinds) /\ Len(StepKinds) \in Nat \ {0}
  BY <1>1, RunOf
<1>3. /\ next \in JobRecords /\ next.stage = stage
      /\ next.run = r.run /\ next.prov = r.prov
      /\ next.background = r.background /\ next.step = step
      /\ next.outcome = r.outcome
  <2>1. Stepped(r, stage, step) \in JobRecords
    BY <1>2, SteppedFields
  <2> QED
    BY <2>1 DEF Stepped
<1>4. ev.status = DueStatus(r) /\ ev.inputs = DueInputs(r)
  BY DEF Due, Event
<1>5. Told(next, ev.status)
  BY <1>2, <1>3, <1>4 DEF Told, DueStatus, Early, Late, Registry!InFlight,
     Reported
<1>6. Shown(next, d)
  <2>1. CASE stage = "between"
    <3>1. step \in 1 .. Len(StepKinds) /\ d.steps = 1 .. (step - 1)
      <4>1. CASE r.stage = "running" /\ step = 1
        <5>1. d.steps = {}
          BY <1>2, <4>1 DEF Shown
        <5> HIDE DEF r, d
        <5> QED
          BY <1>2, <4>1, <5>1
      <4>2. CASE r.stage = "worked" /\ step = r.step + 1
        <5>1. r.step \in 1 .. Len(StepKinds) /\ d.steps = 1 .. r.step
          BY <1>2, <4>2 DEF Shown
        <5> HIDE DEF r, d
        <5> QED
          BY <1>2, <4>2, <5>1
      <4> QED
        BY <2>1, <4>1, <4>2
    <3> QED
      BY <1>2, <1>3, <2>1, <3>1 DEF Shown, Late, Working
  <2>2. CASE stage = "packing"
    <3>1. step \in 1 .. Len(StepKinds) /\ d.steps = 1 .. step
      BY <1>2, <2>2 DEF Shown
    <3>2. r.outcome = "completed" => step = Len(StepKinds)
      BY <1>2, <2>2, <3>1
    <3> QED
      BY <1>2, <1>3, <2>2, <3>1, <3>2 DEF Shown, Late, Working
  <2> QED
    BY <2>1, <2>2
<1>7. ev.inputs \in {given[r.run], Registry!Keep, Registry!Drop}
  BY <1>4 DEF DueInputs
<1>8. ev.status # "completed"
  BY <1>4 DEF DueStatus, Reported
<1>9. IsAdk(j) => d.root /\ d.manifest # "none"
  BY <1>2 DEF Shown, Working, IsAdk
<1>10. \A status \in Outcomes :
          Told(r, status) => ev.status \in {status, "failed"}
  BY DEF Told, Early, Outcomes, Registry!InFlight
<1>11. MayRecord(j, next)
  BY <1>1, <1>3, <1>5, <1>6, <1>7, <1>8, <1>9, <1>10 DEF MayRecord
<1> QED
  BY <1>1, <1>11, DueIsEvent, RecordingKeepsEvidence DEF EvidenceInv


(* A step of a job beside the registry: a file is written, or the job only *)
(* moves on.                                                               *)
Beside(j, stage, d) ==
    LET now == job[j].stage
        was == disk[job[j].run]
    IN
    \/ now = "accepted" /\ stage = "rooted" /\ d = [was EXCEPT !.root = TRUE]
    \/ now = "rooted" /\ stage = "scheduled"
       /\ d = [was EXCEPT !.manifest = "initial"]
    \/ now = "packing" /\ stage = "summing"
       /\ d \in {was, [was EXCEPT !.packet = TRUE]}
    \/ now = "summing" /\ stage = "publishing"
       /\ d = [was EXCEPT !.summary = TRUE]
    \/ now = "publishing" /\ stage = "finishing"
       /\ d = [was EXCEPT !.manifest = "final"]
    \/ now = "verifying" /\ stage = "over" /\ d = was
    \/ now # "free" /\ stage = "failing" /\ d = was
    \/ now # "free" /\ stage = "over" /\ ~job[j].background /\ d = was

LEMMA BesideKeepsEvidence ==
    ASSUME EvidenceInv, Inv', NEW j \in Jobs, Active(j), pending[j] = None,
           UNCHANGED <<registry, given, source>>,
           NEW stage \in Stages, To(j, stage),
           NEW d, Beside(j, stage, d), disk' = [disk EXCEPT ![job[j].run] = d]
    PROVE  EvidenceInv' /\ NoReopening
<1> DEFINE r == job[j]
           was == disk[job[j].run]
           next == [r EXCEPT !.stage = stage]
<1>1. /\ r \in JobRecords /\ r.run \in RunIds /\ Shown(r, was)
      /\ was \in Disks
      /\ r.stage \in Deciding => r.outcome \in Outcomes
      /\ \A e \in runs : e.id = r.run => Told(r, e.status)
  BY RunOf
<1>2. /\ next \in JobRecords /\ next.stage = stage
      /\ next.run = r.run /\ next.prov = r.prov /\ next.step = r.step
      /\ next.background = r.background /\ next.outcome = r.outcome
  BY <1>1, StageFields
<1>3. job' = [job EXCEPT ![j] = next]
  BY DEF To, EvidenceInv, Inv, JobsTyped
<1>4. /\ d \in Disks /\ d.steps = was.steps
      /\ was.root => d.root
      /\ was.summary => d.summary
      /\ was.manifest # "none" => d.manifest # "none"
      /\ stage # "scheduled" /\ was.manifest = "final" => d.manifest = "final"
      /\ stage = "rooted" => d.root
      /\ stage = "scheduled" => d.manifest # "none"
      /\ stage = "publishing" => d.summary
      /\ stage = "finishing" => d.manifest = "final"
      /\ stage \in {"failing", "over"} => d = was
  <2> HIDE DEF r
  <2> QED
    BY <1>1 DEF Beside, Disks
<1>5. Shown(next, d)
  BY <1>1, <1>2, <1>4 DEF Beside, Shown, Late, Working
<1>6. ASSUME NEW e \in runs, e.id = r.run
      PROVE  /\ Told(next, e.status)
             /\ stage = "over" /\ IsAdk(j) => e.status \in Outcomes
             /\ e.status = "completed" =>
                    d.manifest = "final" /\ d.summary
                    /\ d.steps = 1 .. Len(StepKinds)
  <2>1. Told(r, e.status)
    BY <1>1, <1>6
  <2>2. Told(next, e.status)
    BY <1>2, <2>1 DEF Beside, Told, Early, Late
  <2>3. stage = "over" /\ IsAdk(j) => e.status \in Outcomes
    BY <1>1, <2>1 DEF Beside, Told, Shown, IsAdk, Deciding
  <2>4. e.status = "completed" => d = was
    BY <1>4, <2>1 DEF Beside, Told, Early, Late, Registry!InFlight, Reported
  <2>5. e.status = "completed" =>
            was.manifest = "final" /\ was.summary
            /\ was.steps = 1 .. Len(StepKinds)
    BY <1>6 DEF EvidenceInv, StatusIsBacked, CompletedIsBacked
  <2> QED
    BY <2>2, <2>3, <2>4, <2>5
<1>7. next.stage # "free"
  BY <1>2 DEF Beside
<1> HIDE DEF next
<1> QED
  BY <1>2, <1>3, <1>4, <1>5, <1>6, <1>7, LocalStepKeepsEvidence

LEMMA AdvanceKeepsEvidence ==
    ASSUME EvidenceInv, Inv', NEW j \in Jobs, Advance(j)
    PROVE  EvidenceInv' /\ NoReopening
<1> DEFINE r == job[j]
           d == disk[job[j].run]
<1>1. /\ job \in [Jobs -> JobRecords] /\ disk \in [RunIds -> Disks]
      /\ r \in JobRecords
  BY DEF EvidenceInv, Inv, JobsTyped, DisksTyped
<1>2. Active(j) =>
        /\ r.run \in RunIds /\ Shown(r, d) /\ d \in Disks
        /\ r.stage \in Deciding => r.outcome \in Outcomes
        /\ r.step \in 0 .. Len(StepKinds) /\ Len(StepKinds) \in Nat \ {0}
        /\ \A e \in runs : e.id = r.run => Told(r, e.status)
  BY RunOf
<1>3. r.stage \notin Recording => pending[j] = None
  BY DEF EvidenceInv, CreatesFit
<1>4. CASE RecordAcceptance(j) \/ Queue(j) \/ Run(j) \/ StartStep(j)
           \/ FinishWorkflow(j) \/ RecordResult(j) \/ RecordRunFailure(j)
  <2> DEFINE stage == IF r.stage = "recording" THEN "scheduled"
                      ELSE IF r.stage = "scheduled" THEN "queued"
                      ELSE IF r.stage = "queued" THEN "running"
                      ELSE IF r.stage = "between" THEN "working"
                      ELSE IF r.stage = "finishing" THEN "closing"
                      ELSE IF r.stage = "closing" /\ IsAdk(j)
                           THEN "verifying"
                      ELSE "over"
             next == [job[j] EXCEPT !.stage = stage]
  <2>1. stage \in Stages
    BY DEF Stages, Working
  <2>2. /\ Records(j, Due(j), next)
        /\ r.stage \in {"recording", "scheduled", "queued", "between",
                        "finishing", "closing", "failing"}
    BY <1>4 DEF RecordAcceptance, Queue, Run, StartStep, FinishWorkflow,
       RecordResult, RecordRunFailure, RecordsProgress, Due, DueStatus,
       DueInputs
  <2>3. \/ r.stage = "recording" /\ stage = "scheduled"
        \/ r.stage = "scheduled" /\ stage = "queued"
        \/ r.stage = "queued" /\ stage = "running"
        \/ r.stage = "between" /\ stage = "working"
        \/ r.stage = "finishing" /\ stage = "closing"
        \/ r.stage = "closing" /\ stage = "verifying"
        \/ r.stage = "closing" /\ stage = "over" /\ ~IsAdk(j)
        \/ r.stage = "failing" /\ stage = "over"
    BY <2>2
  <2> HIDE DEF stage
  <2> QED
    BY <2>1, <2>2, <2>3, StageRecordKeepsEvidence
<1>5. CASE StartWorkflow(j)
  <2> DEFINE next == [job[j] EXCEPT !.stage = "between", !.step = 1]
  <2>1. Active(j) /\ r.stage = "running"
    BY <1>5 DEF StartWorkflow, Active
  <2>2. 1 \in 0 .. Len(StepKinds) /\ "between" \in Stages
    BY <1>2, <2>1 DEF Stages, Working
  <2>3. next = Stepped(r, "between", 1)
    BY <1>1, <2>2, SteppedIs
  <2>4. Records(j, Due(j), next)
    BY <1>5 DEF StartWorkflow, RecordsProgress, Due, DueStatus, DueInputs
  <2> HIDE DEF next
  <2> QED
    BY <2>1, <2>2, <2>3, <2>4, StepRecordKeepsEvidence
<1>6. CASE FinishStep(j)
  <2> DEFINE more == r.outcome = "completed" /\ r.step < Len(StepKinds)
             next == IF more
                     THEN [r EXCEPT !.stage = "between", !.step = @ + 1]
                     ELSE [r EXCEPT !.stage = "packing"]
             stage == IF more THEN "between" ELSE "packing"
             step == IF more THEN r.step + 1 ELSE r.step
  <2>1. Active(j) /\ r.stage = "worked"
    BY <1>6 DEF FinishStep, Active
  <2>2. step \in 0 .. Len(StepKinds) /\ stage \in Stages
    BY <1>2, <2>1 DEF Stages, Working
  <2>3. next = Stepped(r, stage, step)
    <3>1. CASE more
      <4> DEFINE later == r.step + 1
      <4>1. next = [r EXCEPT !.stage = "between", !.step = later]
        BY <3>1
      <4>2. later \in 0 .. Len(StepKinds) /\ "between" \in Stages
        BY <2>2, <3>1
      <4>3. stage = "between" /\ step = later
        BY <3>1
      <4> HIDE DEF next, stage, step, later
      <4> QED
        BY <1>1, <4>1, <4>2, <4>3, SteppedIs
    <3>2. CASE ~more
      <4>1. next = [r EXCEPT !.stage = "packing"]
        BY <3>2
      <4> QED
        BY <1>1, <2>2, <3>2, <4>1 DEF Stepped, JobRecords
    <3> QED
      BY <3>1, <3>2
  <2>4. Records(j, Due(j), next)
    BY <1>6 DEF FinishStep, RecordsProgress, Due, DueStatus, DueInputs
  <2>5. \/ r.outcome = "completed" /\ stage = "between" /\ step = r.step + 1
        \/ /\ stage = "packing" /\ step = r.step
           /\ ~(r.outcome = "completed" /\ step < Len(StepKinds))
    OBVIOUS
  <2> HIDE DEF next, stage, step
  <2> QED
    BY <2>1, <2>2, <2>3, <2>4, <2>5, StepRecordKeepsEvidence
<1>7. CASE PrepareRoot(j) \/ WriteInitialManifest(j) \/ WritePacket(j)
           \/ WriteSummary(j) \/ WriteManifest(j) \/ VerifyRoot(j)
  <2>1. /\ Active(j) /\ pending[j] = None
        /\ UNCHANGED <<registry, given, source>>
    BY <1>3, <1>7 DEF PrepareRoot, WriteInitialManifest, WritePacket,
       WriteSummary, WriteManifest, VerifyRoot, Active, Recording
  <2>2. [disk EXCEPT ![r.run] = d] = disk
    BY <1>1, <1>2, <2>1
  <2>3. \E stage \in Stages : \E e :
            /\ To(j, stage) /\ Beside(j, stage, e)
            /\ disk' = [disk EXCEPT ![r.run] = e]
    <3>1. CASE PrepareRoot(j)
      BY <1>1, <1>2, <2>1, <3>1 DEF PrepareRoot, Writes, Beside, Disks,
         Stages, Handling
    <3>2. CASE WriteInitialManifest(j)
      BY <1>1, <1>2, <2>1, <3>2 DEF WriteInitialManifest, Writes, Beside,
         Disks, Stages, Working
    <3>3. CASE WritePacket(j)
      <4>1. \/ disk' = [disk EXCEPT ![r.run] = [d EXCEPT !.packet = TRUE]]
            \/ disk' = [disk EXCEPT ![r.run] = d]
        BY <1>1, <1>2, <2>1, <2>2, <3>3 DEF WritePacket, Writes, Disks
      <4>2. To(j, "summing") /\ r.stage = "packing" /\ "summing" \in Stages
        BY <3>3 DEF WritePacket, Stages, Working
      <4> QED
        BY <4>1, <4>2 DEF Beside
    <3>4. CASE WriteSummary(j)
      BY <1>1, <1>2, <2>1, <3>4 DEF WriteSummary, Writes, Beside, Disks,
         Stages, Working
    <3>5. CASE WriteManifest(j)
      BY <1>1, <1>2, <2>1, <3>5 DEF WriteManifest, Writes, Beside, Disks,
         Stages, Working
    <3>6. CASE VerifyRoot(j)
      BY <2>2, <3>6 DEF VerifyRoot, Beside, Stages
    <3> QED
      BY <1>7, <3>1, <3>2, <3>3, <3>4, <3>5, <3>6
  <2> QED
    BY <2>1, <2>3, BesideKeepsEvidence
<1>8. CASE DoStep(j)
  <2>1. /\ Active(j) /\ r.stage = "working" /\ pending[j] = None
        /\ UNCHANGED <<registry, given, source>>
    BY <1>3, <1>8 DEF DoStep, Active, Recording
  <2>2. PICK outcome \in Outcomes :
            job' = [job EXCEPT ![j].stage = "worked", ![j].outcome = outcome]
    BY <1>8 DEF DoStep
  <2> DEFINE next == [r EXCEPT !.stage = "worked", !.outcome = outcome]
             e == [d EXCEPT !.steps = d.steps \cup {r.step}]
  <2>3. job' = [job EXCEPT ![j] = next]
    BY <1>1, <2>2
  <2>4. disk' = [disk EXCEPT ![r.run] = e]
    BY <1>8 DEF DoStep, Writes
  <2>5. /\ next \in JobRecords /\ next.stage = "worked"
        /\ next.run = r.run /\ next.prov = r.prov /\ next.step = r.step
        /\ next.background = r.background /\ next.outcome = outcome
    <3> DEFINE Steps == 0 .. Len(StepKinds)
    <3>1. JobRecords =
            [stage : Stages, run : RunIds \cup {None},
             prov : Registry!Provenances \cup {None}, background : BOOLEAN,
             step : Steps, outcome : Outcomes \cup {None}]
      BY DEF JobRecords
    <3>2. "worked" \in Stages
      BY DEF Stages, Working
    <3> HIDE DEF Steps, r
    <3> QED
      BY <1>1, <3>1, <3>2
  <2>6. r.step \in 1 .. Len(StepKinds) /\ d.steps = 1 .. (r.step - 1)
    BY <1>2, <2>1 DEF Shown
  <2>7. d.steps \cup {r.step} = 1 .. r.step
    <3> HIDE DEF r, d
    <3> QED
      BY <1>2, <2>1, <2>6
  <2>8. /\ e \in Disks /\ e.steps = 1 .. r.step
        /\ e.root = d.root /\ e.manifest = d.manifest
    <3> HIDE DEF r
    <3> QED
      BY <1>2, <2>1, <2>6, <2>7 DEF Disks
  <2>9. Shown(next, e)
    BY <1>2, <2>1, <2>5, <2>6, <2>8 DEF Shown, Late, Working
  <2>10. \A f \in runs : f.id = r.run =>
            Told(next, f.status) /\ f.status # "completed"
    BY <1>2, <2>1, <2>5 DEF Told, Early, Late, Registry!InFlight
  <2> HIDE DEF next, e
  <2> QED
    BY <2>1, <2>3, <2>4, <2>5, <2>8, <2>9, <2>10, LocalStepKeepsEvidence
<1> QED
  BY <1>4, <1>5, <1>6, <1>7, <1>8 DEF Advance

-----------------------------------------------------------------------------
(* Requests, exceptions and restarts, and the evidence *)

(* A run that starts: nothing is recorded of it yet, or its accepted entry *)
(* is, with the inputs of the run it is a rerun of.                        *)
Opens(id, prov, in, from) ==
    \/ runs' = runs
    \/ \E g \in Registry!Entries :
          /\ runs' = runs \cup {g}
          /\ g.id = id /\ g.prov = prov /\ g.prov # None
          /\ g.source # None /\ g.status = "accepted" /\ g.inputs = in
          /\ from # None => \E e \in runs : e.id = from
                                /\ e.inputs # None /\ e.inputs = in

(* A job begins the run id, which nobody works on and no entry has.        *)
LEMMA OpeningKeepsEvidence ==
    ASSUME EvidenceInv, Inv', NEW j \in Jobs, NEW id \in RunIds,
           ~Registry!Known(runs, id), \A k \in Jobs : job[k].run # id,
           job[j].stage = "free", pending' = pending, disk' = disk,
           NEW r \in JobRecords, job' = [job EXCEPT ![j] = r],
           r.run = id,
           r.stage \in {"accepted", "recording", "scheduled"},
           r.prov # None => r.stage = "accepted" /\ r.background,
           NEW in, given' = [given EXCEPT ![id] = in],
           NEW from, source' = [source EXCEPT ![id] = from],
           from # None => Registry!Known(runs, from),
           Opens(id, r.prov, in, from)
    PROVE  EvidenceInv' /\ NoReopening
<1> USE DEF EvidenceInv, Inv, Opens
<1>1. /\ job \in [Jobs -> JobRecords] /\ given \in [RunIds -> Inputs \cup {None}]
      /\ disk[id] = EmptyDisk
  BY DEF JobsTyped, UntouchedAreEmpty
<1>2. \A e \in runs : e.id # id /\ e.id \in RunIds
  BY DEF Registry!Known, RegistryTyped, Registry!Entries
<1>3. /\ job'[j] = r /\ \A k \in Jobs \ {j} : job'[k] = job[k]
      /\ job[j].stage = "free"
  BY <1>1
<1>4. /\ given'[id] = in
      /\ \A x \in RunIds \ {id} : given'[x] = given[x]
  BY <1>1
<1>5. \A x : Registry!Known(runs, x) => x # id
  BY <1>2 DEF Registry!Known
<1>6. \A g \in runs' : g \in runs \/ (g.id = id /\ g.prov = r.prov)
  OBVIOUS
<1>7. Active(j)' /\ \A k \in Jobs : Active(k) => Active(k)' /\ job'[k] = job[k]
  BY <1>3 DEF Active
<1>8. OneEntryPerRun'
  BY <1>2 DEF OneEntryPerRun
<1>9. EntriesFit'
  <2> SUFFICES ASSUME NEW e \in runs'
               PROVE  /\ e.source # None <=> e.prov # None
                      /\ e.inputs # None => e.inputs = given'[e.id]
                      /\ \A k \in Jobs :
                            job'[k].run = e.id => job'[k].prov = e.prov
    BY DEF EntriesFit
  <2>1. CASE e \in runs
    <3>1. \A k \in Jobs : job'[k].run = e.id => job'[k] = job[k]
      BY <1>2, <1>3, <2>1
    <3> QED
      BY <1>2, <1>4, <2>1, <3>1 DEF EntriesFit
  <2>2. CASE e \notin runs
    <3>1. e.id = id /\ e.prov = r.prov /\ e.prov # None /\ e.source # None
          /\ e.inputs = in
      BY <2>2
    <3>2. \A k \in Jobs : job'[k].run = id => k = j
      BY <1>3
    <3> QED
      BY <1>3, <1>4, <3>1, <3>2
  <2> QED
    BY <2>1, <2>2
<1>10. StatusesFit'
  <2> SUFFICES ASSUME NEW e \in runs', NEW k \in Jobs, job'[k].run = e.id
               PROVE  Told(job'[k], e.status)
    BY DEF StatusesFit, Told
  <2>1. CASE e \in runs
    BY <1>2, <1>3, <2>1 DEF StatusesFit
  <2>2. CASE e \notin runs
    <3>1. e.id = id /\ e.status = "accepted"
      BY <2>2
    <3>2. k = j /\ job'[k] = r
      BY <1>3, <3>1
    <3> QED
      BY <3>1, <3>2 DEF Told, Early, Late, Registry!InFlight
  <2> QED
    BY <2>1, <2>2
<1>11. DisksFit'
  <2> SUFFICES ASSUME NEW k \in Jobs, job'[k].run # None
               PROVE  Shown(job'[k], disk[job'[k].run])
    BY DEF DisksFit, Shown
  <2>1. CASE k = j
    <3>1. disk[id].steps = {}
      BY <1>1 DEF EmptyDisk
    <3> QED
      BY <1>3, <2>1, <3>1 DEF Shown, Late, Working
  <2>2. CASE k # j
    BY <1>3, <2>2 DEF DisksFit
  <2> QED
    BY <2>1, <2>2
<1>12. CreatesFit'
  <2> SUFFICES ASSUME NEW k \in Jobs, pending[k] # None
               PROVE  /\ ~IsAdk(k)' /\ job'[k].stage \in Recording
                      /\ ~Registry!Known(runs', job'[k].run)
                      /\ pending[k] = Due(k)'
    BY DEF CreatesFit
  <2>1. /\ ~IsAdk(k) /\ job[k].stage \in Recording
        /\ ~Registry!Known(runs, job[k].run) /\ pending[k] = Due(k)
    BY DEF CreatesFit
  <2>2. k # j
    BY <2>1 DEF Recording
  <2>3. job'[k] = job[k] /\ job[k].run \in RunIds \ {id}
    BY <1>3, <2>1, <2>2 DEF Placed, Active, Recording
  <2>4. given'[job[k].run] = given[job[k].run]
    BY <1>4, <2>3
  <2>5. Due(k)' = Due(k)
    BY <2>3, <2>4 DEF Due, DueStatus, DueInputs, Event
  <2>6. ~Registry!Known(runs', job'[k].run)
    BY <1>6, <2>1, <2>3 DEF Registry!Known
  <2> QED
    BY <2>1, <2>3, <2>5, <2>6 DEF IsAdk
<1>13. DisksTyped' /\ UntouchedAreEmpty'
  <2>1. /\ job[j].run = None
        /\ \A k \in Jobs : k # j => job'[k].run = job[k].run
    BY <1>3 DEF UntouchedAreEmpty
  <2>2. \A k \in Jobs : job'[k].stage = "free" => job'[k].run = None
    BY <1>3 DEF UntouchedAreEmpty
  <2>3. \A x \in RunIds :
           (\A k \in Jobs : job'[k].run # x) => \A k \in Jobs : job[k].run # x
    BY <2>1, WorkflowAssumption
  <2> QED
    BY <2>2, <2>3 DEF DisksTyped, UntouchedAreEmpty
<1>14. InFlightIsInHand'
  <2> SUFFICES ASSUME NEW e \in runs', e.source = "adk-developer",
                      e.status \in Registry!InFlight
               PROVE  \E k \in Jobs : Active(k)' /\ job'[k].run = e.id
    BY DEF InFlightIsInHand, AdkRuns
  <2>1. CASE e \in runs
    BY <1>7, <2>1 DEF InFlightIsInHand, AdkRuns
  <2>2. CASE e \notin runs
    BY <1>3, <1>6, <1>7, <2>2
  <2> QED
    BY <2>1, <2>2
<1>15. SourcesKnown'
  <2>1. \A x : Registry!Known(runs, x) => Registry!Known(runs', x)
    BY DEF Registry!Known
  <2>2. from \in RunIds \cup {None}
    BY <1>2 DEF Registry!Known
  <2> QED
    BY <2>1, <2>2 DEF SourcesKnown
<1>16. StatusIsBacked'
  <2>1. CompletedIsBacked'
    BY <1>2, <1>4 DEF StatusIsBacked, CompletedIsBacked
  <2>2. WorkIsReadable'
    BY DEF StatusIsBacked, WorkIsReadable, AdkRuns
  <2> QED
    BY <2>1, <2>2 DEF StatusIsBacked
<1>17. LineageKeepsInputs'
  <2> SUFFICES ASSUME NEW e \in runs', e.source = "adk-developer",
                      source'[e.id] # None
               PROVE  given'[e.id] = given'[source'[e.id]]
    BY DEF LineageKeepsInputs, AdkRuns
  <2>1. source \in [RunIds -> RunIds \cup {None}]
    BY DEF SourcesKnown
  <2>2. CASE e \in runs
    <3>1. e.id \in RunIds \ {id} /\ source'[e.id] = source[e.id]
      BY <1>2, <2>1, <2>2
    <3>2. source[e.id] \in RunIds \ {id}
      BY <1>5, <2>1, <3>1 DEF SourcesKnown
    <3> QED
      BY <1>4, <2>2, <3>1, <3>2 DEF LineageKeepsInputs, AdkRuns
  <2>3. CASE e \notin runs
    <3>1. e.id = id
      BY <1>6, <2>3
    <3>2. source'[id] = from
      BY <2>1
    <3>3. PICK f \in runs : f.id = from /\ f.inputs # None /\ f.inputs = in
      BY <2>3, <3>1, <3>2
    <3>4. from \in RunIds \ {id} /\ in = given[from]
      BY <1>2, <3>3 DEF EntriesFit
    <3> QED
      BY <1>4, <3>1, <3>2, <3>4
  <2> QED
    BY <2>2, <2>3
<1>18. NoReopening
  BY <1>2 DEF NoReopening, OneEntryPerRun
<1> QED
  BY <1>8, <1>9, <1>10, <1>11, <1>12, <1>13, <1>14, <1>15, <1>16, <1>17,
     <1>18

LEMMA AcceptKeepsEvidence ==
    ASSUME EvidenceInv, Inv', NEW j \in Jobs, AcceptAdk(j)
    PROVE  EvidenceInv' /\ NoReopening
<1>1. PICK key \in Keys, req \in Registry!Requests, id \in RunIds,
           ticket \in Tickets, in \in Inputs :
          /\ \A k \in Jobs : job[k].run = id => IsAdk(k)
          /\ Registry!AcceptNew(key, req, id, ticket, in)
          /\ job' = [job EXCEPT ![j] =
                JobAt("accepted", id,
                      Registry!NewProvenance(req, id, ticket), TRUE)]
          /\ given' = [given EXCEPT ![id] = in]
          /\ source' = [source EXCEPT ![id] =
                IF req.action = "rerun_run" THEN req.parent ELSE None]
  BY Zenon DEF AcceptAdk
<1> DEFINE entry == Registry!NewEntry(req, id, ticket, in)
           prov == Registry!NewProvenance(req, id, ticket)
           begun == JobAt("accepted", id, prov, TRUE)
           from == IF req.action = "rerun_run" THEN req.parent ELSE None
<1>2. /\ runs' = runs \cup {entry} /\ pending' = pending /\ disk' = disk
      /\ ~Registry!Known(runs, id) /\ Registry!Resolves(req, in)
      /\ job[j].stage = "free"
  BY <1>1 DEF AcceptAdk, Registry!AcceptNew, Registry!AcceptChecks
<1>3. /\ entry \in Registry!Entries /\ entry.id = id /\ entry.prov = prov
      /\ prov \in Registry!Provenances
  BY NewEntryFields
<1>4. /\ entry.status = "accepted" /\ entry.source = "adk-developer"
      /\ entry.inputs = in
  BY DEF Registry!NewEntry
<1>5. prov # None /\ entry.source # None
  <2> HIDE DEF prov, entry
  <2> QED
    BY <1>3, <1>4, WorkflowAssumption DEF Registry!Provenances
<1>6. from # None => \E e \in runs : e.id = from
                        /\ e.inputs # None /\ e.inputs = in
  BY <1>2 DEF Registry!Resolves
<1>7. from # None => Registry!Known(runs, from)
  BY <1>6 DEF Registry!Known
<1>8. \A k \in Jobs : job[k].run # id
  BY <1>1, <1>2 DEF EvidenceInv, Inv, Owned, Registry!Known
<1>9. /\ begun \in JobRecords /\ begun.stage = "accepted"
      /\ begun.run = id /\ begun.prov = prov /\ begun.background
  <2>1. "accepted" \in Stages
    BY DEF Stages, Handling
  <2>2. PICK background \in BOOLEAN : background = TRUE
    OBVIOUS
  <2>3. prov \in Registry!Provenances \cup {None}
    BY <1>3
  <2>4. begun = JobAt("accepted", id, prov, background)
    BY <2>2
  <2>5. begun.background
    BY DEF JobAt
  <2> HIDE DEF prov, begun
  <2> QED
    BY <2>1, <2>3, <2>4, <2>5, JobAtFields
<1>10. job' = [job EXCEPT ![j] = begun]
       /\ source' = [source EXCEPT ![id] = from]
  BY <1>1
<1> HIDE DEF entry, prov, begun, from
<1>11. /\ begun.stage \in {"accepted", "recording", "scheduled"}
       /\ begun.prov # None => begun.stage = "accepted" /\ begun.background
  BY <1>9
<1>12. Opens(id, begun.prov, in, from)
  BY <1>2, <1>3, <1>4, <1>5, <1>6, <1>9 DEF Opens
<1>13. given' = [given EXCEPT ![id] = in]
  BY <1>1
<1> QED
  BY <1>2, <1>7, <1>8, <1>9, <1>10, <1>11, <1>12, <1>13,
     OpeningKeepsEvidence

LEMMA ReplayKeepsEvidence ==
    ASSUME EvidenceInv, Inv', NEW j \in Jobs, ReplayAdk(j)
    PROVE  EvidenceInv' /\ NoReopening
<1> USE DEF EvidenceInv, Inv
<1>1. PICK key \in Keys, req \in Registry!Requests :
          Registry!AcceptReplay(key, req)
  BY DEF ReplayAdk
<1>2. UNCHANGED <<runs, pending, disk, given, source>>
  BY <1>1 DEF Registry!AcceptReplay, ReplayAdk
<1>3. job' = [job EXCEPT ![j].stage = "over"] /\ job[j].stage = "free"
  BY DEF ReplayAdk, To
<1>4. /\ \A k \in Jobs : job'[k].run = job[k].run /\ job'[k].prov = job[k].prov
      /\ \A k \in Jobs \ {j} : job'[k] = job[k]
      /\ job'[j].stage = "over" /\ job[j].run = None
  BY <1>3 DEF JobsTyped, JobRecords, UntouchedAreEmpty
<1>5. DisksTyped' /\ OneEntryPerRun' /\ EntriesFit' /\ UntouchedAreEmpty'
      /\ SourcesKnown'
  BY <1>2, <1>4 DEF DisksTyped, OneEntryPerRun, EntriesFit,
     UntouchedAreEmpty, SourcesKnown
<1>6. StatusesFit'
  <2> SUFFICES ASSUME NEW e \in runs, NEW k \in Jobs, job'[k].run = e.id
               PROVE  Told(job'[k], e.status)
    BY <1>2 DEF StatusesFit, Told
  <2>1. CASE k = j
    BY <1>4, <2>1 DEF Told, Early, Late
  <2>2. CASE k # j
    BY <1>4, <2>2 DEF StatusesFit
  <2> QED
    BY <2>1, <2>2
<1>7. DisksFit'
  <2> SUFFICES ASSUME NEW k \in Jobs, job'[k].run # None
               PROVE  Shown(job'[k], disk[job'[k].run])
    BY <1>2 DEF DisksFit, Shown
  <2>1. job'[k] = job[k]
    BY <1>4
  <2> QED
    BY <2>1 DEF DisksFit
<1>8. CreatesFit'
  <2> SUFFICES ASSUME NEW k \in Jobs, pending[k] # None
               PROVE  /\ ~IsAdk(k)' /\ job'[k].stage \in Recording
                      /\ ~Registry!Known(runs, job'[k].run)
                      /\ pending[k] = Due(k)'
    BY <1>2 DEF CreatesFit
  <2>1. /\ ~IsAdk(k) /\ job[k].stage \in Recording
        /\ ~Registry!Known(runs, job[k].run) /\ pending[k] = Due(k)
    BY DEF CreatesFit
  <2>2. job'[k] = job[k]
    BY <1>3, <1>4, <2>1 DEF Recording
  <2>3. Due(k)' = Due(k)
    BY <1>2, <2>2 DEF Due, DueStatus, DueInputs, Event
  <2> QED
    BY <2>1, <2>2, <2>3 DEF IsAdk
<1>9. InFlightIsInHand'
  <2>1. \A k \in Jobs : Active(k) => Active(k)'
    BY <1>3, <1>4 DEF Active
  <2> QED
    BY <1>2, <1>4, <2>1 DEF InFlightIsInHand, AdkRuns
<1>10. StatusIsBacked' /\ LineageKeepsInputs'
  BY <1>2 DEF StatusIsBacked, CompletedIsBacked, WorkIsReadable, AdkRuns,
     LineageKeepsInputs
<1>11. NoReopening
  BY <1>2 DEF NoReopening, OneEntryPerRun
<1> QED
  BY <1>5, <1>6, <1>7, <1>8, <1>9, <1>10, <1>11

LEMMA ConsoleKeepsEvidence ==
    ASSUME EvidenceInv, Inv', NEW j \in Jobs, NEW id \in RunIds, NEW in,
           NEW from, from # None => Registry!Known(runs, from),
           NEW background \in BOOLEAN,
           NewConsoleJob(j, id, in, from, background)
    PROVE  EvidenceInv' /\ NoReopening
<1> DEFINE stage == IF background THEN "recording" ELSE "scheduled"
           begun == JobAt(stage, id, None, background)
<1>1. /\ UNCHANGED <<runs, pending, disk>>
      /\ given' = [given EXCEPT ![id] = in]
      /\ source' = [source EXCEPT ![id] = from]
      /\ \A k \in Jobs : job[k].run # id
      /\ ~Registry!Known(runs, id) /\ job[j].stage = "free"
  BY DEF NewConsoleJob, registry
<1>2. stage \in Stages /\ stage \in {"recording", "scheduled"}
  BY DEF Stages, Working
<1>3. job' = [job EXCEPT ![j] =
                 JobAt(stage, id, None, background)]
  BY DEF NewConsoleJob
<1> HIDE DEF stage
<1>4. /\ begun \in JobRecords /\ begun.stage = stage
      /\ begun.run = id /\ begun.prov = None
  BY <1>2, JobAtFields
<1>5. job' = [job EXCEPT ![j] = begun]
  BY <1>3
<1>6. Opens(id, begun.prov, in, from)
  BY <1>1 DEF Opens
<1> HIDE DEF begun
<1> QED
  BY <1>1, <1>2, <1>4, <1>5, <1>6, OpeningKeepsEvidence

LEMMA RequestKeepsEvidence ==
    ASSUME EvidenceInv, Inv', NEW j \in Jobs, Request(j)
    PROVE  EvidenceInv' /\ NoReopening
<1>1. CASE AcceptAdk(j)
  BY <1>1, AcceptKeepsEvidence
<1>2. CASE ReplayAdk(j)
  BY <1>2, ReplayKeepsEvidence
<1>3. CASE CreateRun(j)
  BY <1>3, ConsoleKeepsEvidence DEF CreateRun
<1>4. CASE RerunConsole(j)
  <2>1. PICK e \in runs, id \in RunIds :
            NewConsoleJob(j, id,
                IF e.inputs = None THEN DefaultInputs ELSE e.inputs,
                e.id, FALSE)
    BY <1>4 DEF RerunConsole
  <2>2. Registry!Known(runs, e.id)
    BY DEF Registry!Known
  <2> QED
    BY <2>1, <2>2, ConsoleKeepsEvidence
<1> QED
  BY <1>1, <1>2, <1>3, <1>4 DEF Request

LEMMA RaiseKeepsEvidence ==
    ASSUME EvidenceInv, Inv', NEW j \in Jobs, Raise(j)
    PROVE  EvidenceInv' /\ NoReopening
<1> DEFINE stage == IF job[j].background THEN "failing" ELSE "over"
           d == disk[job[j].run]
<1>1. /\ Active(j) /\ pending[j] = None /\ To(j, stage)
      /\ UNCHANGED <<registry, disk, given, source>>
  BY DEF Raise, Handling, Working, Active
<1>2. stage \in Stages /\ Beside(j, stage, d)
  BY <1>1 DEF Stages, Beside, Active
<1>3. job[j].run \in RunIds /\ disk \in [RunIds -> Disks]
  BY <1>1 DEF EvidenceInv, Inv, Placed, DisksTyped
<1>4. disk' = [disk EXCEPT ![job[j].run] = d]
  BY <1>1, <1>3
<1> HIDE DEF stage, d
<1> QED
  BY <1>1, <1>2, <1>4, BesideKeepsEvidence

LEMMA RestartKeepsEvidence ==
    ASSUME EvidenceInv, Inv', Restart
    PROVE  EvidenceInv' /\ NoReopening
<1> USE DEF EvidenceInv, Inv
<1>1. /\ runs' = {Registry!Recovered(e) : e \in runs}
      /\ pending' = [j \in Jobs |-> None]
      /\ UNCHANGED <<disk, given, source>>
      /\ job' = [j \in Jobs |->
                    IF Active(j) THEN [job[j] EXCEPT !.stage = "over"]
                    ELSE job[j]]
  BY DEF Restart, Registry!Restart
<1>2. ASSUME NEW e \in runs
      PROVE  LET g == Registry!Recovered(e) IN
             /\ g.id = e.id /\ g.prov = e.prov /\ g.source = e.source
             /\ g.inputs = e.inputs
             /\ g.status \in {e.status, "failed"}
             /\ g.source = "adk-developer" => g.status \in Outcomes
  BY DEF RegistryTyped, Registry!Entries, Registry!Recovered,
     Registry!InFlight, Registry!Statuses, Outcomes
<1>3. \A g \in runs' : \E e \in runs :
         /\ g = Registry!Recovered(e)
         /\ g.id = e.id /\ g.prov = e.prov /\ g.source = e.source
         /\ g.inputs = e.inputs
         /\ g.status \in {e.status, "failed"}
         /\ g.source = "adk-developer" => g.status \in Outcomes
  BY <1>1, <1>2
<1>4. \A j \in Jobs : /\ job'[j].run = job[j].run
                       /\ job'[j].prov = job[j].prov
                       /\ job'[j].background = job[j].background
                       /\ job'[j].stage \in {"free", "over"}
  BY <1>1 DEF JobsTyped, JobRecords, Stages, Active
<1>5. OneEntryPerRun'
  BY <1>3 DEF OneEntryPerRun
<1>6. EntriesFit'
  BY <1>1, <1>3, <1>4 DEF EntriesFit
<1>7. StatusesFit'
  <2> SUFFICES ASSUME NEW e \in runs', NEW j \in Jobs
               PROVE  Told(job'[j], e.status)
    BY DEF StatusesFit, Told
  <2>1. job'[j].stage \in {"free", "over"}
    BY <1>4
  <2> QED
    BY <2>1 DEF Told, Early, Late
<1>8. DisksFit'
  <2> SUFFICES ASSUME NEW j \in Jobs, job[j].run # None
               PROVE  Shown(job'[j], disk[job[j].run])
    BY <1>1, <1>4 DEF DisksFit, Shown
  <2>1. job[j].prov # None => job[j].background
    BY DEF DisksFit, Shown
  <2>2. /\ job'[j].stage \in {"free", "over"}
        /\ job'[j].prov # None => job'[j].background
    BY <1>4, <2>1
  <2> QED
    BY <2>2 DEF Shown, Late, Working
<1>9. CreatesFit' /\ DisksTyped' /\ UntouchedAreEmpty'
  BY <1>1, <1>4 DEF CreatesFit, DisksTyped, UntouchedAreEmpty
<1>10. InFlightIsInHand'
  BY <1>3 DEF InFlightIsInHand, AdkRuns, Registry!InFlight, Outcomes
<1>11. SourcesKnown'
  <2>1. \A x : Registry!Known(runs, x) => Registry!Known(runs', x)
    BY <1>1, <1>2 DEF Registry!Known
  <2> QED
    BY <1>1, <2>1 DEF SourcesKnown
<1>12. StatusIsBacked'
  BY <1>1, <1>3 DEF StatusIsBacked, CompletedIsBacked, WorkIsReadable,
     AdkRuns
<1>13. LineageKeepsInputs'
  BY <1>1, <1>3 DEF LineageKeepsInputs, AdkRuns
<1>14. NoReopening
  BY <1>3 DEF NoReopening, OneEntryPerRun
<1> QED
  BY <1>5, <1>6, <1>7, <1>8, <1>9, <1>10, <1>11, <1>12, <1>13, <1>14

-----------------------------------------------------------------------------

LEMMA EvidenceHoldsInitially == Init => EvidenceInv
<1> SUFFICES ASSUME Init PROVE EvidenceInv
  OBVIOUS
<1>1. Inv /\ runs = {} /\ pending = [j \in Jobs |-> None]
  BY InvHoldsInitially DEF Init, Registry!Init
<1>2. \A j \in Jobs : job[j] = FreeJob
  BY DEF Init
<1>3. /\ disk = [r \in RunIds |-> EmptyDisk]
      /\ source = [r \in RunIds |-> None]
  BY DEF Init
<1>4. DisksTyped
  BY <1>3 DEF DisksTyped, Disks, EmptyDisk
<1>5. DisksFit /\ UntouchedAreEmpty /\ SourcesKnown
  BY <1>2, <1>3 DEF DisksFit, UntouchedAreEmpty, SourcesKnown, FreeJob,
     JobAt
<1>6. CreatesFit
  BY <1>1 DEF CreatesFit
<1> QED
  BY <1>1, <1>4, <1>5, <1>6
  DEF EvidenceInv, OneEntryPerRun, EntriesFit, StatusesFit,
      InFlightIsInHand, StatusIsBacked, CompletedIsBacked, WorkIsReadable,
      LineageKeepsInputs, AdkRuns

LEMMA StepKeepsEvidence ==
    EvidenceInv /\ [Next]_vars => EvidenceInv' /\ NoReopening
<1> SUFFICES ASSUME EvidenceInv, [Next]_vars
             PROVE  EvidenceInv' /\ NoReopening
  OBVIOUS
<1>1. Inv'
  BY StepKeepsInv DEF EvidenceInv
<1>2. CASE \E j \in Jobs : Request(j) \/ Advance(j) \/ Raise(j)
  BY <1>1, <1>2, RequestKeepsEvidence, AdvanceKeepsEvidence,
     RaiseKeepsEvidence
<1>3. CASE Restart
  BY <1>1, <1>3, RestartKeepsEvidence
<1>4. CASE UNCHANGED vars
  <2>1. UNCHANGED <<runs, pending, job, disk, given, source>>
    BY <1>4 DEF vars, registry
  <2>2. \A j \in Jobs : Due(j)' = Due(j)
    BY <2>1 DEF Due, DueStatus, DueInputs, Event
  <2>3. CreatesFit'
    BY <2>1, <2>2 DEF EvidenceInv, CreatesFit, IsAdk
  <2>4. DisksTyped' /\ OneEntryPerRun' /\ EntriesFit' /\ UntouchedAreEmpty'
        /\ SourcesKnown' /\ InFlightIsInHand' /\ LineageKeepsInputs'
    BY <2>1 DEF EvidenceInv, DisksTyped, OneEntryPerRun, EntriesFit,
       UntouchedAreEmpty, SourcesKnown, InFlightIsInHand,
       LineageKeepsInputs, AdkRuns, Active
  <2>5. StatusesFit' /\ DisksFit'
    BY <2>1 DEF EvidenceInv, StatusesFit, DisksFit, Told, Shown
  <2>6. StatusIsBacked' /\ NoReopening
    BY <2>1 DEF EvidenceInv, StatusIsBacked, CompletedIsBacked,
       WorkIsReadable, AdkRuns, NoReopening, OneEntryPerRun
  <2> QED
    BY <1>1, <2>3, <2>4, <2>5, <2>6 DEF EvidenceInv
<1> QED
  BY <1>2, <1>3, <1>4 DEF Next

(* What the registry says of a run, ADK or console, is backed by what is   *)
(* on disk: the files of a completed run are all there and its inputs are  *)
(* on record, and an ADK run with any sign of work can be read.            *)
THEOREM EvidenceBacksStatus == Spec => []StatusIsBacked
<1>1. EvidenceInv => StatusIsBacked
  BY DEF EvidenceInv
<1> QED
  BY <1>1, EvidenceHoldsInitially, StepKeepsEvidence, PTL DEF Spec

(* Workers, exception handler and recovery never reopen a run, and only    *)
(* "failed" replaces an outcome.                                           *)
THEOREM OutcomesStand == Spec => NeverReopens
<1>1. NoReopening => [\A e \in runs, f \in runs' :
                        /\ f.id = e.id
                        /\ e.status \in Outcomes
                        => f.status \in {e.status, "failed"}]_vars
  BY DEF NoReopening
<1> QED
  BY <1>1, EvidenceHoldsInitially, StepKeepsEvidence, PTL
  DEF Spec, NeverReopens

(* Whatever the console does beside it, a rerun through the ADK gets the   *)
(* inputs its source was started with.                                     *)
THEOREM LineageHolds == Spec => []LineageKeepsInputs
<1>1. EvidenceInv => LineageKeepsInputs
  BY DEF EvidenceInv
<1> QED
  BY <1>1, EvidenceHoldsInitially, StepKeepsEvidence, PTL DEF Spec

(* An ADK run nobody works on has an outcome, and "completed" only with    *)
(* its final manifest.                                                     *)
THEOREM AbandonedRunsEnd == Spec => []AbandonedIsNotInferred
<1>1. EvidenceInv => AbandonedIsNotInferred
  BY DEF EvidenceInv, InFlightIsInHand, StatusIsBacked, CompletedIsBacked,
     AbandonedIsNotInferred, Abandoned, AdkRuns, Inv, RegistryTyped,
     Registry!Entries, Registry!Statuses, Registry!InFlight, Outcomes
<1> QED
  BY <1>1, EvidenceHoldsInitially, StepKeepsEvidence, PTL DEF Spec
=============================================================================
