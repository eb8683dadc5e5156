-------------------------- MODULE RunRegistryProofs --------------------------
(***************************************************************************)
(* What holds of the run registry for every set of run ids, keys,          *)
(* invocations, tickets, inputs and callers.                               *)
(***************************************************************************)
EXTENDS RunRegistry, SequenceTheorems, TLAPS

-----------------------------------------------------------------------------
(* Lemmas about the operators transactions are built from *)

LEMMA UpdatedFields ==
    ASSUME NEW e \in Entries, NEW ev \in Events
    PROVE  /\ Updated(e, ev) \in Entries
           /\ Updated(e, ev).id = e.id
           /\ Updated(e, ev).op = e.op
           /\ Updated(e, ev).status = ev.status
           /\ Updated(e, ev).history = Append(e.history, ev.status)
           /\ Updated(e, ev).source =
                 IF ev.prov # None THEN "adk-developer" ELSE e.source
           /\ Updated(e, ev).prov =
                 IF ev.prov # None THEN ev.prov ELSE e.prov
<1>1. e.history \in Seq(Statuses) /\ ev.status \in Statuses
  BY BoundsAssumption DEF Entries, Events, EventsWith, Statuses
<1>2. Append(e.history, ev.status) \in Seq(Statuses)
  BY <1>1
<1>3. ReviewRequired(ev) \in BOOLEAN
  BY DEF ReviewRequired, Events, EventsWith
<1>4. RecordedInputs(e.inputs, ev) \in Inputs \cup {None}
  BY DEF RecordedInputs, Entries, Events, EventsWith, Keep, Drop
<1> QED
  BY <1>1, <1>2, <1>3, <1>4 DEF Updated, Entries, Events, EventsWith

LEMMA CreatedFields ==
    ASSUME NEW ev \in Events
    PROVE  /\ Created(ev) \in Entries
           /\ Created(ev).id = ev.id
           /\ Created(ev).op = None
           /\ Created(ev).status = ev.status
           /\ Created(ev).history = <<ev.status>>
           /\ Created(ev).source =
                 IF ev.prov # None THEN "adk-developer" ELSE None
           /\ Created(ev).prov = ev.prov
<1>1. ev.status \in Statuses
  BY BoundsAssumption DEF Events, EventsWith, Statuses
<1>2. ReviewRequired(ev) \in BOOLEAN
  BY DEF ReviewRequired, Events, EventsWith
<1>3. RecordedInputs(None, ev) \in Inputs \cup {None}
  BY DEF RecordedInputs, Events, EventsWith, Keep, Drop
<1> QED
  BY <1>1, <1>2, <1>3 DEF Created, Entries, Events, EventsWith

LEMMA RecoveredFields ==
    ASSUME NEW e \in Entries
    PROVE  /\ Recovered(e) \in Entries
           /\ Recovered(e).id = e.id
           /\ Recovered(e).op = e.op
           /\ Recovered(e).source = e.source
           /\ Recovered(e).prov = e.prov
           /\ \/ Recovered(e) = e
              \/ /\ Recovered(e).status = "failed"
                 /\ Recovered(e).history = Append(e.history, "failed")
<1>1. e.history \in Seq(Statuses)
  BY DEF Entries
<1>2. Append(e.history, "failed") \in Seq(Statuses)
  BY <1>1 DEF Statuses
<1> QED
  BY <1>1, <1>2 DEF Recovered, Entries, Statuses

LEMMA NewEntryFields ==
    ASSUME NEW req \in Requests, NEW id \in RunIds, NEW ticket \in Tickets,
           NEW in \in Inputs \cup {None}
    PROVE  /\ NewEntry(req, id, ticket, in) \in Entries
           /\ NewEntry(req, id, ticket, in).id = id
           /\ NewEntry(req, id, ticket, in).op = ticket
           /\ NewEntry(req, id, ticket, in).source = "adk-developer"
           /\ NewEntry(req, id, ticket, in).prov =
                 NewProvenance(req, id, ticket)
           /\ NewEntry(req, id, ticket, in).status = "accepted"
           /\ NewEntry(req, id, ticket, in).history = <<"accepted">>
           /\ NewProvenance(req, id, ticket) \in Provenances
<1>1. NewProvenance(req, id, ticket) \in Provenances
  BY DEF NewProvenance, Provenances, Requests
<1>2. <<"accepted">> \in Seq(Statuses)
  BY DEF Statuses
<1> QED
  BY <1>1, <1>2 DEF NewEntry, Entries, Statuses

LEMMA NewOperationFields ==
    ASSUME NEW key \in Keys, NEW req \in Requests, NEW id \in RunIds,
           NEW ticket \in Tickets
    PROVE  /\ NewOperation(key, req, id, ticket) \in Operations
           /\ NewOperation(key, req, id, ticket).action = req.action
           /\ NewOperation(key, req, id, ticket).key = key
           /\ NewOperation(key, req, id, ticket).fingerprint = req
           /\ NewOperation(key, req, id, ticket).run = id
           /\ NewOperation(key, req, id, ticket).ticket = ticket
BY DEF NewOperation, Operations, Actions, Requests

LEMMA EventsFromEntries ==
    ASSUME runs \in SUBSET Entries
    PROVE  EventsWith({None} \cup {e.prov : e \in runs}) \subseteq Events
<1>1. {None} \cup {e.prov : e \in runs} \subseteq Provenances \cup {None}
  BY DEF Entries
<1> QED
  BY <1>1 DEF EventsWith, Events

-----------------------------------------------------------------------------
(* Type correctness *)

LEMMA InitTypeOK == Init => TypeOK
BY DEF Init, TypeOK

LEMMA StepTypeOK == TypeOK /\ [Next]_vars => TypeOK'
<1> SUFFICES ASSUME TypeOK, [Next]_vars PROVE TypeOK'
  OBVIOUS
<1> USE DEF TypeOK
<1>1. ASSUME NEW key \in Keys, NEW req \in Requests, NEW id \in RunIds,
             NEW ticket \in Tickets, NEW in \in Inputs \cup {None},
             AcceptNew(key, req, id, ticket, in)
      PROVE  TypeOK'
  <2>1. runs' \in SUBSET Entries
    BY <1>1, NewEntryFields DEF AcceptNew
  <2>2. ops' \in SUBSET Operations
    BY <1>1, NewOperationFields DEF AcceptNew
  <2>3. [key |-> key, request |-> req, run |-> id, created |-> TRUE]
           \in Replies
    BY DEF Replies
  <2>4. replies' \in SUBSET Replies
    BY <1>1, <2>3 DEF AcceptNew
  <2>5. pending' \in [Callers -> Events \cup {None}]
    BY <1>1 DEF AcceptNew
  <2> QED
    BY <2>1, <2>2, <2>4, <2>5
<1>2. ASSUME NEW key \in Keys, NEW req \in Requests, AcceptReplay(key, req)
      PROVE  TypeOK'
  <2>1. PICK o \in Bound(key, req.action) :
            replies' = replies \cup
               {[key |-> key, request |-> req, run |-> o.run,
                 created |-> FALSE]}
    BY <1>2 DEF AcceptReplay
  <2>2. o.run \in RunIds
    BY <2>1 DEF Bound, Operations
  <2>3. [key |-> key, request |-> req, run |-> o.run, created |-> FALSE]
           \in Replies
    BY <2>2 DEF Replies
  <2>4. replies' \in SUBSET Replies
    BY <2>1, <2>3
  <2> QED
    BY <1>2, <2>4 DEF AcceptReplay
<1>3. ASSUME NEW c \in Callers, NEW ev \in Events, RecordUpdate(c, ev)
      PROVE  TypeOK'
  <2>1. PICK e \in runs : runs' = (runs \ {e}) \cup {Updated(e, ev)}
    BY <1>3 DEF RecordUpdate, UpdateExisting
  <2>2. runs' \in SUBSET Entries
    BY <2>1, UpdatedFields
  <2> QED
    BY <1>3, <2>2 DEF RecordUpdate
<1>4. ASSUME NEW c \in Callers, NEW ev \in Events, RecordMissing(c, ev)
      PROVE  TypeOK'
  BY <1>4 DEF RecordMissing
<1>5. ASSUME NEW c \in Callers, RecordCreate(c)
      PROVE  TypeOK'
  <2>1. pending[c] \in Events
    BY <1>5 DEF RecordCreate
  <2>2. runs' \in SUBSET Entries
    BY <1>5, <2>1, CreatedFields DEF RecordCreate
  <2>3. pending' \in [Callers -> Events \cup {None}]
    BY <1>5 DEF RecordCreate
  <2> QED
    BY <1>5, <2>2, <2>3 DEF RecordCreate
<1>6. ASSUME Restart PROVE TypeOK'
  <2>1. runs' \in SUBSET Entries
    BY <1>6, RecoveredFields DEF Restart
  <2>2. pending' \in [Callers -> Events \cup {None}]
    BY <1>6 DEF Restart
  <2> QED
    BY <1>6, <2>1, <2>2 DEF Restart
<1>7. CASE UNCHANGED vars
  BY <1>7 DEF vars
<1> QED
  BY <1>1, <1>2, <1>3, <1>4, <1>5, <1>6, <1>7, EventsFromEntries
  DEF Next, Accept, RecordEvent

(* Every reachable registry file, waiting caller and answer is well formed. *)
THEOREM TypeCorrect == Spec => []TypeOK
<1> QED
  BY InitTypeOK, StepTypeOK, PTL DEF Spec

-----------------------------------------------------------------------------
(* The audit never refuses *)

(* An entry carries the ADK source exactly when it carries provenance. *)
SourceMatchesProv == \A e \in runs : e.source = None <=> e.prov = None

(* A create that is still to run is not about an ADK run. *)
PendingPlain ==
    \A c \in Callers : pending[c] # None => pending[c].prov = None

(* The inductive strengthening of AuditNeverRefuses: the unaudited writer  *)
(* record_run_event keeps it only because of the two facts above.          *)
AuditInv == AuditNeverRefuses /\ SourceMatchesProv /\ PendingPlain

LEMMA InitAuditInv == Init => AuditInv
BY DEF Init, AuditInv, AuditNeverRefuses, SourceMatchesProv, PendingPlain,
       Audit, AuditRuns, AuditOperations, Authoritative, Known

(* What _audit_adk_payload reads of an entry. *)
SameBinding(e, f) ==
    /\ f.id = e.id
    /\ f.op = e.op
    /\ f.source = e.source
    /\ f.prov = e.prov

(* Two registries with the same bindings pass the same audit. *)
LEMMA AuditReadsBindings ==
    ASSUME NEW rs, NEW rt, NEW os, Audit(rs, os),
           \A f \in rt : \E e \in rs : SameBinding(e, f),
           \A e \in rs : \E f \in rt : SameBinding(e, f),
           \A f, g \in rt : f.id = g.id => f = g
    PROVE  Audit(rt, os)
<1>1. \A id : Known(rt, id) <=> Known(rs, id)
  BY DEF Known, SameBinding
<1>2. Authoritative(rt, os) = Authoritative(rs, os)
  BY DEF Authoritative, SameBinding
<1>3. \A e, f \in rs : e.id = f.id => e = f
  BY DEF Audit, AuditRuns
<1>4. ASSUME NEW f \in rt, f.id \in Authoritative(rt, os)
      PROVE  /\ f.source = "adk-developer"
             /\ f.prov # None
             /\ f.prov.run = f.id
             /\ f.prov.parent # None => Known(rt, f.prov.parent)
  <2>1. PICK e \in rs : SameBinding(e, f)
    OBVIOUS
  <2> QED
    BY <1>1, <1>2, <1>4, <2>1 DEF Audit, AuditRuns, SameBinding
<1>5. ASSUME NEW f \in rt, NEW g \in rt,
             f.source # None, g.source # None, f.id # g.id
      PROVE  f.prov.inv # g.prov.inv /\ f.prov.ticket # g.prov.ticket
  <2>1. PICK d \in rs, e \in rs : SameBinding(d, f) /\ SameBinding(e, g)
    OBVIOUS
  <2> QED
    BY <1>5, <2>1 DEF Audit, AuditRuns, SameBinding
<1>6. AuditRuns(rt, os)
  <2>1. \A id \in Authoritative(rt, os) : Known(rt, id)
    BY <1>1, <1>2 DEF Audit, AuditRuns
  <2> QED
    BY <1>4, <1>5, <2>1 DEF AuditRuns
<1>7. ASSUME NEW f \in rt, f.source # None
      PROVE  /\ \E o \in os : o.run = f.id
             /\ \A o \in os : o.run = f.id =>
                   /\ o.ticket = f.op
                   /\ o.ticket = f.prov.ticket
                   /\ \A p \in os : p.run = f.id => p = o
  <2>1. PICK e \in rs : SameBinding(e, f)
    OBVIOUS
  <2> QED
    BY <1>7, <2>1 DEF Audit, AuditOperations, SameBinding
<1>8. AuditOperations(rt, os)
  <2>1. \A o, p \in os :
          \/ o.ticket = p.ticket
          \/ o.action = p.action /\ o.key = p.key
          => o.run = p.run
    BY DEF Audit, AuditOperations
  <2> QED
    BY <1>7, <2>1 DEF AuditOperations
<1> QED
  BY <1>6, <1>8 DEF Audit

(* The update of an entry by a caller that may have provenance in hand     *)
(* leaves its binding alone.                                               *)
LEMMA UpdateKeepsBinding ==
    ASSUME TypeOK, AuditInv, NEW ev \in Events, Callable(ev),
           NEW e \in runs, e.id = ev.id, ImmutableFieldsAgree(e, ev)
    PROVE  SameBinding(e, Updated(e, ev))
<1>1. e \in Entries
  BY DEF TypeOK
<1>2. CASE ev.prov = None
  BY <1>1, <1>2, UpdatedFields DEF SameBinding
<1>3. CASE ev.prov # None
  <2>1. e.prov # None
    BY <1>3 DEF Callable, AuditInv, AuditNeverRefuses, Audit, AuditRuns
  <2>2. e.prov = ev.prov
    BY <1>3, <2>1 DEF ImmutableFieldsAgree
  <2>3. e.source = "adk-developer"
    BY <1>1, <2>1 DEF AuditInv, SourceMatchesProv, Entries
  <2> QED
    BY <1>1, <1>3, <2>2, <2>3, UpdatedFields DEF SameBinding
<1> QED
  BY <1>2, <1>3

LEMMA StepAuditInv ==
    TypeOK /\ AuditInv /\ [Next]_vars => AuditInv'
<1> SUFFICES ASSUME TypeOK, AuditInv, [Next]_vars PROVE AuditInv'
  OBVIOUS
<1>1. ASSUME NEW key \in Keys, NEW req \in Requests, NEW id \in RunIds,
             NEW ticket \in Tickets, NEW in \in Inputs \cup {None},
             AcceptNew(key, req, id, ticket, in)
      PROVE  AuditInv'
  <2>1. AuditNeverRefuses'
    BY <1>1 DEF AcceptNew, AuditNeverRefuses
  <2>2. SourceMatchesProv'
    <3>1. NewProvenance(req, id, ticket) # None
      BY NewEntryFields, NoneAssumption DEF Provenances
    <3> QED
      BY <1>1, <3>1, NewEntryFields, NoneAssumption
      DEF AcceptNew, AuditInv, SourceMatchesProv
  <2>3. PendingPlain'
    BY <1>1 DEF AcceptNew, AuditInv, PendingPlain
  <2> QED
    BY <2>1, <2>2, <2>3 DEF AuditInv
<1>2. ASSUME NEW key \in Keys, NEW req \in Requests, AcceptReplay(key, req)
      PROVE  AuditInv'
  BY <1>2 DEF AcceptReplay, AuditInv, AuditNeverRefuses, SourceMatchesProv,
              PendingPlain
<1>3. ASSUME NEW c \in Callers, NEW ev \in Events, RecordUpdate(c, ev)
      PROVE  AuditInv'
  <2>1. PICK e \in runs : /\ e.id = ev.id
                          /\ ImmutableFieldsAgree(e, ev)
                          /\ runs' = (runs \ {e}) \cup {Updated(e, ev)}
    BY <1>3 DEF RecordUpdate, UpdateExisting
  <2>2. SameBinding(e, Updated(e, ev))
    BY <1>3, <2>1, UpdateKeepsBinding DEF RecordUpdate
  <2>3. \A f \in runs' : \E d \in runs : SameBinding(d, f)
    BY <2>1, <2>2 DEF SameBinding
  <2>4. \A d \in runs : \E f \in runs' : SameBinding(d, f)
    BY <2>1, <2>2 DEF SameBinding
  <2>5. \A f, g \in runs' : f.id = g.id => f = g
    BY <2>1, <2>2 DEF SameBinding, AuditInv, AuditNeverRefuses, Audit,
                      AuditRuns
  <2>6. AuditNeverRefuses'
    BY <1>3, <2>3, <2>4, <2>5, AuditReadsBindings
    DEF RecordUpdate, AuditInv, AuditNeverRefuses
  <2>7. SourceMatchesProv'
    BY <2>3 DEF SameBinding, AuditInv, SourceMatchesProv
  <2>8. PendingPlain'
    BY <1>3 DEF RecordUpdate, AuditInv, PendingPlain
  <2> QED
    BY <2>6, <2>7, <2>8 DEF AuditInv
<1>4. ASSUME NEW c \in Callers, NEW ev \in Events, RecordMissing(c, ev)
      PROVE  AuditInv'
  <2>1. ev.prov = None
    BY <1>4 DEF RecordMissing, Callable, Known
  <2>2. PendingPlain'
    BY <1>4, <2>1 DEF RecordMissing, AuditInv, PendingPlain, TypeOK
  <2> QED
    BY <1>4, <2>2 DEF RecordMissing, AuditInv, AuditNeverRefuses,
                      SourceMatchesProv
<1>5. ASSUME NEW c \in Callers, RecordCreate(c)
      PROVE  AuditInv'
  <2>1. PendingPlain'
    BY <1>5 DEF RecordCreate, AuditInv, PendingPlain, TypeOK
  <2>2. CASE Known(runs, pending[c].id)
    BY <1>5, <2>1, <2>2 DEF RecordCreate, AuditInv, AuditNeverRefuses,
                            SourceMatchesProv
  <2>3. CASE ~Known(runs, pending[c].id)
    <3> DEFINE new == Created(pending[c])
    <3>1. pending[c] \in Events /\ pending[c].prov = None
      BY <1>5 DEF RecordCreate, TypeOK, AuditInv, PendingPlain
    <3>2. /\ new.id = pending[c].id
          /\ new.source = None
          /\ new.prov = None
      BY <3>1, CreatedFields
    <3>3. runs' = runs \cup {new} /\ ops' = ops
      BY <1>5, <2>3 DEF RecordCreate
    <3> HIDE DEF new
    <3>4. Authoritative(runs', ops') = Authoritative(runs, ops)
      BY <3>2, <3>3 DEF Authoritative
    <3>5. new.id \notin Authoritative(runs, ops)
      BY <2>3, <3>2 DEF AuditInv, AuditNeverRefuses, Audit, AuditRuns
    <3>6. \A id : Known(runs, id) => Known(runs', id)
      BY <3>3 DEF Known
    <3>7. AuditRuns(runs', ops')
      <4>1. \A e, f \in runs' : e.id = f.id => e = f
        BY <2>3, <3>2, <3>3
        DEF Known, AuditInv, AuditNeverRefuses, Audit, AuditRuns
      <4>2. \A id \in Authoritative(runs', ops') : Known(runs', id)
        BY <3>4, <3>6 DEF AuditInv, AuditNeverRefuses, Audit, AuditRuns
      <4>3. \A e \in runs' : e.id \in Authoritative(runs', ops') =>
              /\ e.source = "adk-developer"
              /\ e.prov # None
              /\ e.prov.run = e.id
              /\ e.prov.parent # None => Known(runs', e.prov.parent)
        BY <3>3, <3>4, <3>5, <3>6
        DEF AuditInv, AuditNeverRefuses, Audit, AuditRuns
      <4>4. \A e, f \in runs' :
              /\ e.source # None /\ f.source # None /\ e.id # f.id
              => e.prov.inv # f.prov.inv /\ e.prov.ticket # f.prov.ticket
        BY <3>2, <3>3 DEF AuditInv, AuditNeverRefuses, Audit, AuditRuns
      <4> QED
        BY <4>1, <4>2, <4>3, <4>4 DEF AuditRuns
    <3>8. AuditOperations(runs', ops')
      BY <3>2, <3>3
      DEF AuditInv, AuditNeverRefuses, Audit, AuditOperations
    <3>9. SourceMatchesProv'
      BY <3>2, <3>3 DEF AuditInv, SourceMatchesProv
    <3> QED
      BY <2>1, <3>7, <3>8, <3>9 DEF AuditInv, AuditNeverRefuses, Audit
  <2> QED
    BY <2>2, <2>3
<1>6. ASSUME Restart PROVE AuditInv'
  <2>1. \A e \in runs : SameBinding(e, Recovered(e))
    BY RecoveredFields DEF SameBinding, TypeOK
  <2>2. runs' = {Recovered(e) : e \in runs} /\ ops' = ops
    BY <1>6 DEF Restart
  <2>3. \A f \in runs' : \E d \in runs : SameBinding(d, f)
    BY <2>1, <2>2
  <2>4. \A d \in runs : \E f \in runs' : SameBinding(d, f)
    BY <2>1, <2>2
  <2>5. \A f, g \in runs' : f.id = g.id => f = g
    BY <2>1, <2>2 DEF SameBinding, AuditInv, AuditNeverRefuses, Audit,
                      AuditRuns
  <2>6. AuditNeverRefuses'
    BY <2>2, <2>3, <2>4, <2>5, AuditReadsBindings
    DEF AuditInv, AuditNeverRefuses
  <2>7. SourceMatchesProv'
    BY <2>3 DEF SameBinding, AuditInv, SourceMatchesProv
  <2>8. PendingPlain'
    BY <1>6 DEF Restart, PendingPlain
  <2> QED
    BY <2>6, <2>7, <2>8 DEF AuditInv
<1>7. CASE UNCHANGED vars
  BY <1>7 DEF vars, AuditInv, AuditNeverRefuses, SourceMatchesProv,
              PendingPlain
<1> QED
  BY <1>1, <1>2, <1>3, <1>4, <1>5, <1>6, <1>7, EventsFromEntries
  DEF Next, Accept, RecordEvent, TypeOK

(* No sequence of accepts, retries, unaudited records and restarts leaves  *)
(* a registry that the audit would refuse.                                 *)
THEOREM AuditCorrect == Spec => []AuditNeverRefuses
<1>1. Spec => [](TypeOK /\ AuditInv)
  BY InitTypeOK, StepTypeOK, InitAuditInv, StepAuditInv, PTL DEF Spec
<1>2. TypeOK /\ AuditInv => AuditNeverRefuses
  BY DEF AuditInv
<1> QED
  BY <1>1, <1>2, PTL

-----------------------------------------------------------------------------
(* The named conflicts are all there are *)

LEMMA AcceptKeepsAudit ==
    ASSUME TypeOK, AuditInv,
           NEW key \in Keys, NEW req \in Requests, NEW id \in RunIds,
           NEW ticket \in Tickets, NEW in \in Inputs \cup {None},
           Resolves(req, in), AcceptChecks(key, req, id, ticket)
    PROVE  Audit(runs \cup {NewEntry(req, id, ticket, in)},
                 ops \cup {NewOperation(key, req, id, ticket)})
<1> DEFINE new == NewEntry(req, id, ticket, in)
           op  == NewOperation(key, req, id, ticket)
           rs  == runs \cup {new}
           os  == ops \cup {op}
<1>1. Audit(runs, ops)
  BY DEF AuditInv, AuditNeverRefuses
<1>2. /\ new.id = id /\ new.op = ticket /\ new.source = "adk-developer"
      /\ new.prov = NewProvenance(req, id, ticket)
  BY NewEntryFields
<1>3. /\ new.prov # None /\ new.prov.run = id /\ new.prov.ticket = ticket
      /\ new.prov.inv = req.inv /\ new.prov.parent = req.parent
  BY <1>2, NewEntryFields, NoneAssumption DEF Provenances, NewProvenance
<1>4. /\ op.action = req.action /\ op.key = key
      /\ op.run = id /\ op.ticket = ticket
  BY NewOperationFields
<1>5. ~Known(runs, id)
  BY DEF AcceptChecks
<1>6. req.parent # None => Known(runs, req.parent)
  BY DEF Resolves, Known, Requests
<1>7. \A o \in ops : Known(runs, o.run)
  BY <1>1 DEF Audit, AuditRuns, Authoritative
<1>8. \A o \in ops : \E e \in runs :
        /\ e.id = o.run /\ e.source # None
        /\ e.prov # None /\ e.prov.ticket = o.ticket
  <2> TAKE o \in ops
  <2>1. PICK e \in runs : e.id = o.run
    BY <1>7 DEF Known
  <2>2. e.id \in Authoritative(runs, ops)
    BY <2>1 DEF Authoritative
  <2>3. e.source # None /\ e.prov # None
    BY <1>1, <2>2, NoneAssumption DEF Audit, AuditRuns
  <2>4. e.prov.ticket = o.ticket
    BY <1>1, <2>1, <2>3 DEF Audit, AuditOperations
  <2> QED
    BY <2>1, <2>3, <2>4
<1>9. \A o \in ops : o.run # id /\ o.ticket # ticket
  BY <1>5, <1>7, <1>8 DEF AcceptChecks
<1>10. \A o \in ops : o.action # req.action \/ o.key # key
  BY DEF AcceptChecks, Bound
<1>11. \A e \in runs : e.source # None =>
         e.prov.inv # req.inv /\ e.prov.ticket # ticket
  BY DEF AcceptChecks, AuditInv, SourceMatchesProv
<1> HIDE DEF new, op
<1>12. Authoritative(rs, os) = Authoritative(runs, ops) \cup {id}
  BY <1>2, <1>4 DEF Authoritative
<1>13. \A i : Known(rs, i) <=> Known(runs, i) \/ i = id
  BY <1>2 DEF Known
<1>14. AuditRuns(rs, os)
  <2>1. \A e, f \in rs : e.id = f.id => e = f
    BY <1>1, <1>2, <1>5 DEF Known, Audit, AuditRuns
  <2>2. \A i \in Authoritative(rs, os) : Known(rs, i)
    BY <1>1, <1>12, <1>13 DEF Audit, AuditRuns
  <2>3. ASSUME NEW e \in rs, e.id \in Authoritative(rs, os)
        PROVE  /\ e.source = "adk-developer"
               /\ e.prov # None
               /\ e.prov.run = e.id
               /\ e.prov.parent # None => Known(rs, e.prov.parent)
    <3>1. CASE e = new
      BY <1>2, <1>3, <1>6, <1>13, <3>1
    <3>2. CASE e \in runs
      <4>1. e.id \in Authoritative(runs, ops)
        BY <1>5, <1>12, <2>3, <3>2 DEF Known
      <4> QED
        BY <1>1, <1>13, <3>2, <4>1 DEF Audit, AuditRuns
    <3> QED
      BY <3>1, <3>2
  <2>4. \A e, f \in rs :
          /\ e.source # None /\ f.source # None /\ e.id # f.id
          => e.prov.inv # f.prov.inv /\ e.prov.ticket # f.prov.ticket
    BY <1>1, <1>2, <1>3, <1>11 DEF Audit, AuditRuns
  <2> QED
    BY <2>1, <2>2, <2>3, <2>4 DEF AuditRuns
<1>15. AuditOperations(rs, os)
  <2>1. \A o, p \in os :
          \/ o.ticket = p.ticket
          \/ o.action = p.action /\ o.key = p.key
          => o.run = p.run
    BY <1>1, <1>4, <1>9, <1>10 DEF Audit, AuditOperations
  <2>2. ASSUME NEW e \in rs, e.source # None
        PROVE  /\ \E o \in os : o.run = e.id
               /\ \A o \in os : o.run = e.id =>
                     /\ o.ticket = e.op
                     /\ o.ticket = e.prov.ticket
                     /\ \A p \in os : p.run = e.id => p = o
    <3>1. CASE e = new
      BY <1>2, <1>3, <1>4, <1>9, <3>1
    <3>2. CASE e \in runs
      <4>1. e.id # id
        BY <1>5, <3>2 DEF Known
      <4> QED
        BY <1>1, <1>4, <2>2, <3>2, <4>1 DEF Audit, AuditOperations
    <3> QED
      BY <3>1, <3>2
  <2> QED
    BY <2>1, <2>2 DEF AuditOperations
<1> QED
  BY <1>14, <1>15 DEF Audit, new, op

(* Past the conflicts it names, accept_adk_run never finds the registry it *)
(* is about to write corrupted.                                            *)
THEOREM ChecksAreComplete == Spec => []ChecksImplyAudit
<1>1. TypeOK /\ AuditInv => ChecksImplyAudit
  BY AcceptKeepsAudit DEF ChecksImplyAudit
<1>2. Spec => [](TypeOK /\ AuditInv)
  BY InitTypeOK, StepTypeOK, InitAuditInv, StepAuditInv, PTL DEF Spec
<1> QED
  BY <1>1, <1>2, PTL

-----------------------------------------------------------------------------
(* One run per action and idempotency key *)

(* Every answer is backed by the operation that binds its key, request and *)
(* run; operations are never removed.                                      *)
RepliesBound ==
    \A r \in replies : \E o \in ops :
        /\ o.key = r.key
        /\ o.action = r.request.action
        /\ o.fingerprint = r.request
        /\ o.run = r.run

LEMMA InitRepliesBound == Init => RepliesBound
BY DEF Init, RepliesBound

LEMMA StepRepliesBound == RepliesBound /\ [Next]_vars => RepliesBound'
<1> SUFFICES ASSUME RepliesBound, [Next]_vars PROVE RepliesBound'
  OBVIOUS
<1>1. ASSUME NEW key \in Keys, NEW req \in Requests, NEW id \in RunIds,
             NEW ticket \in Tickets, NEW in \in Inputs \cup {None},
             AcceptNew(key, req, id, ticket, in)
      PROVE  RepliesBound'
  <2>1. PICK o \in ops' : /\ o.action = req.action /\ o.key = key
                          /\ o.fingerprint = req /\ o.run = id
    BY <1>1, NewOperationFields DEF AcceptNew
  <2>2. ops \subseteq ops'
    BY <1>1 DEF AcceptNew
  <2>3. replies' = replies \cup
          {[key |-> key, request |-> req, run |-> id, created |-> TRUE]}
    BY <1>1 DEF AcceptNew
  <2> QED
    BY <2>1, <2>2, <2>3 DEF RepliesBound
<1>2. ASSUME NEW key \in Keys, NEW req \in Requests, AcceptReplay(key, req)
      PROVE  RepliesBound'
  <2>1. PICK o \in Bound(key, req.action) :
            /\ o.fingerprint = req
            /\ replies' = replies \cup
                  {[key |-> key, request |-> req, run |-> o.run,
                    created |-> FALSE]}
    BY <1>2 DEF AcceptReplay
  <2>2. o \in ops /\ o.key = key /\ o.action = req.action
    BY <2>1 DEF Bound
  <2> QED
    BY <1>2, <2>1, <2>2 DEF AcceptReplay, RepliesBound
<1>3. CASE UNCHANGED <<ops, replies>>
  BY <1>3 DEF RepliesBound
<1>4. ASSUME RecordEvent \/ Restart \/ UNCHANGED vars
      PROVE  UNCHANGED <<ops, replies>>
  BY <1>4 DEF RecordEvent, RecordUpdate, RecordMissing, RecordCreate,
              Restart, vars
<1> QED
  BY <1>1, <1>2, <1>3, <1>4 DEF Next, Accept

(* All answers given for one action and idempotency key agree on the run   *)
(* and on the request, through retries, rivals and restarts.               *)
THEOREM AcceptedOnce == Spec => []OneRunPerKey
<1>1. TypeOK /\ AuditInv /\ RepliesBound => OneRunPerKey
  <2> SUFFICES ASSUME TypeOK, AuditInv, RepliesBound,
                      NEW r \in replies, NEW s \in replies
               PROVE  /\ /\ r.key = s.key
                         /\ r.request.action = s.request.action
                         => r.run = s.run /\ r.request = s.request
                      /\ r.run = s.run /\ r.created /\ s.created => r = s
    BY DEF OneRunPerKey
  <2>1. PICK o \in ops : /\ o.key = r.key
                         /\ o.action = r.request.action
                         /\ o.fingerprint = r.request
                         /\ o.run = r.run
    BY DEF RepliesBound
  <2>2. PICK p \in ops : /\ p.key = s.key
                         /\ p.action = s.request.action
                         /\ p.fingerprint = s.request
                         /\ p.run = s.run
    BY DEF RepliesBound
  <2>3. Audit(runs, ops)
    BY DEF AuditInv, AuditNeverRefuses
  <2>4. o.run = p.run => o = p
    <3>1. PICK e \in runs : e.id = o.run
      BY <2>3 DEF Audit, AuditRuns, Authoritative, Known
    <3>2. e.id \in Authoritative(runs, ops)
      BY <3>1 DEF Authoritative
    <3>3. e.source # None
      BY <2>3, <3>2, NoneAssumption DEF Audit, AuditRuns
    <3> QED
      BY <2>3, <3>1, <3>3 DEF Audit, AuditOperations
  <2>5. r.key = s.key /\ r.request.action = s.request.action
        => o.run = p.run
    BY <2>1, <2>2, <2>3 DEF Audit, AuditOperations
  <2>6. r \in Replies /\ s \in Replies
    BY DEF TypeOK
  <2>7. r.run = s.run /\ r.created /\ s.created => r = s
    BY <2>1, <2>2, <2>4, <2>6 DEF Replies
  <2> QED
    BY <2>1, <2>2, <2>4, <2>5, <2>7
<1>2. Spec => [](TypeOK /\ AuditInv /\ RepliesBound)
  BY InitTypeOK, StepTypeOK, InitAuditInv, StepAuditInv,
     InitRepliesBound, StepRepliesBound, PTL DEF Spec
<1> QED
  BY <1>1, <1>2, PTL

-----------------------------------------------------------------------------
(* History *)

LEMMA AppendExtends ==
    ASSUME NEW h \in Seq(Statuses), NEW x \in Statuses
    PROVE  /\ Append(h, x) # <<>>
           /\ Len(Append(h, x)) = Len(h) + 1
           /\ Append(h, x)[Len(Append(h, x))] = x
           /\ h # <<>> => Append(h, x)[1] = h[1]
           /\ SubSeq(Append(h, x), 1, Len(h)) = h
           /\ SubSeq(h, 1, Len(h)) = h
<1>1. Append(h, x) \in Seq(Statuses) /\ Len(Append(h, x)) = Len(h) + 1
  OBVIOUS
<1>2. \A i \in 1 .. Len(h) : Append(h, x)[i] = h[i]
  OBVIOUS
<1>3. /\ SubSeq(Append(h, x), 1, Len(h)) \in Seq(Statuses)
      /\ Len(SubSeq(Append(h, x), 1, Len(h))) = Len(h)
      /\ \A i \in 1 .. Len(h) :
            SubSeq(Append(h, x), 1, Len(h))[i] = Append(h, x)[i]
  BY <1>1
<1>4. SubSeq(Append(h, x), 1, Len(h)) = h
  BY <1>2, <1>3, SeqEqual
<1>5. SubSeq(h, 1, Len(h)) = h
  <2>1. /\ SubSeq(h, 1, Len(h)) \in Seq(Statuses)
        /\ Len(SubSeq(h, 1, Len(h))) = Len(h)
        /\ \A i \in 1 .. Len(h) : SubSeq(h, 1, Len(h))[i] = h[i]
    OBVIOUS
  <2> QED
    BY <2>1, SeqEqual
<1>6. h # <<>> => Len(h) >= 1
  OBVIOUS
<1> QED
  BY <1>1, <1>2, <1>4, <1>5, <1>6

(* What a transaction may do to an entry: leave its bindings alone and     *)
(* leave its history alone or append the status it writes.                 *)
Succeeds(f, e) ==
    /\ f.id = e.id
    /\ f.op = e.op
    /\ e.prov # None => f.prov = e.prov
    /\ e.source # None => f.source = e.source
    /\ \/ f.history = e.history /\ f.status = e.status
       \/ f.status \in Statuses /\ f.history = Append(e.history, f.status)

Fresh(f) ==
    /\ f.history = <<f.status>>
    /\ f.op # None => f.status = "accepted"

LEMMA StepSucceeds ==
    ASSUME TypeOK, AuditInv, [Next]_vars
    PROVE  /\ \A e \in runs : \E f \in runs' : Succeeds(f, e)
           /\ \A f \in runs' : Fresh(f) \/ \E e \in runs : Succeeds(f, e)
<1> DEFINE Goal == /\ \A e \in runs : \E f \in runs' : Succeeds(f, e)
                   /\ \A f \in runs' :
                         Fresh(f) \/ \E e \in runs : Succeeds(f, e)
<1>1. \A e : Succeeds(e, e)
  BY DEF Succeeds
<1>2. ASSUME NEW key \in Keys, NEW req \in Requests, NEW id \in RunIds,
             NEW ticket \in Tickets, NEW in \in Inputs \cup {None},
             AcceptNew(key, req, id, ticket, in)
      PROVE  Goal
  <2>1. runs' = runs \cup {NewEntry(req, id, ticket, in)}
    BY <1>2 DEF AcceptNew
  <2>2. Fresh(NewEntry(req, id, ticket, in))
    BY NewEntryFields DEF Fresh
  <2> QED
    BY <1>1, <2>1, <2>2
<1>3. ASSUME NEW c \in Callers, NEW ev \in Events, RecordUpdate(c, ev)
      PROVE  Goal
  <2>1. PICK e \in runs : /\ e.id = ev.id
                          /\ ImmutableFieldsAgree(e, ev)
                          /\ runs' = (runs \ {e}) \cup {Updated(e, ev)}
    BY <1>3 DEF RecordUpdate, UpdateExisting
  <2>2. e \in Entries /\ ev.status \in Statuses
    BY BoundsAssumption DEF TypeOK, Events, EventsWith, Statuses
  <2>3. SameBinding(e, Updated(e, ev))
    BY <1>3, <2>1, UpdateKeepsBinding DEF RecordUpdate
  <2>4. Succeeds(Updated(e, ev), e)
    BY <2>2, <2>3, UpdatedFields DEF SameBinding, Succeeds
  <2> QED
    BY <1>1, <2>1, <2>4
<1>4. ASSUME NEW c \in Callers, RecordCreate(c)
      PROVE  Goal
  <2>1. pending[c] \in Events
    BY <1>4 DEF RecordCreate, TypeOK
  <2>2. \/ runs' = runs
        \/ runs' = runs \cup {Created(pending[c])}
    BY <1>4 DEF RecordCreate
  <2>3. Fresh(Created(pending[c]))
    BY <2>1, CreatedFields DEF Fresh
  <2> QED
    BY <1>1, <2>2, <2>3
<1>5. ASSUME Restart PROVE Goal
  <2>1. \A e \in runs : Succeeds(Recovered(e), e)
    BY RecoveredFields DEF TypeOK, Succeeds, Statuses
  <2> QED
    BY <1>5, <2>1 DEF Restart
<1>6. CASE UNCHANGED runs
  BY <1>1, <1>6
<1>7. ASSUME NEW key \in Keys, NEW req \in Requests, AcceptReplay(key, req)
      PROVE  UNCHANGED runs
  BY <1>7 DEF AcceptReplay
<1>8. ASSUME NEW c \in Callers, NEW ev \in Events, RecordMissing(c, ev)
      PROVE  UNCHANGED runs
  BY <1>8 DEF RecordMissing
<1>9. CASE UNCHANGED vars
  BY <1>6, <1>9 DEF vars
<1> QED
  BY <1>2, <1>3, <1>4, <1>5, <1>6, <1>7, <1>8, <1>9, EventsFromEntries
  DEF Next, Accept, RecordEvent, TypeOK

(* No transaction writes a status without its history item.                *)
THEOREM HistoryCorrect == Spec => []HistoryTellsStatus
<1>1. Init => HistoryTellsStatus
  BY DEF Init, HistoryTellsStatus
<1>2. TypeOK /\ AuditInv /\ HistoryTellsStatus /\ [Next]_vars
      => HistoryTellsStatus'
  <2> SUFFICES ASSUME TypeOK, AuditInv, HistoryTellsStatus, [Next]_vars,
                      NEW f \in runs'
               PROVE  /\ f.history # <<>>
                      /\ f.status = f.history[Len(f.history)]
                      /\ f.op # None => f.history[1] = "accepted"
    BY DEF HistoryTellsStatus
  <2>1. CASE Fresh(f)
    BY <2>1 DEF Fresh
  <2>2. ASSUME NEW e \in runs, Succeeds(f, e)
        PROVE  /\ f.history # <<>>
               /\ f.status = f.history[Len(f.history)]
               /\ f.op # None => f.history[1] = "accepted"
    <3>1. e.history \in Seq(Statuses)
      BY DEF TypeOK, Entries
    <3>2. CASE f.history = e.history /\ f.status = e.status
      BY <2>2, <3>2 DEF Succeeds, HistoryTellsStatus
    <3>3. CASE f.status \in Statuses /\ f.history = Append(e.history, f.status)
      BY <2>2, <3>1, <3>3, AppendExtends DEF Succeeds, HistoryTellsStatus
    <3> QED
      BY <2>2, <3>2, <3>3 DEF Succeeds
  <2> QED
    BY <2>1, <2>2, StepSucceeds
<1> QED
  BY <1>1, <1>2, InitTypeOK, StepTypeOK, InitAuditInv, StepAuditInv, PTL
  DEF Spec

(* The registry only grows: no entry, binding or history item is lost.     *)
THEOREM EntriesCorrect == Spec => EntriesPersist
<1>1. TypeOK /\ AuditInv /\ [Next]_vars
      => [\A e \in runs : EntryPersists(e)]_vars
  <2> SUFFICES ASSUME TypeOK, AuditInv, [Next]_vars, NEW e \in runs
               PROVE  EntryPersists(e)
    OBVIOUS
  <2>1. PICK f \in runs' : Succeeds(f, e)
    BY StepSucceeds
  <2>2. e.history \in Seq(Statuses)
    BY DEF TypeOK, Entries
  <2>3. /\ Len(f.history) >= Len(e.history)
        /\ SubSeq(f.history, 1, Len(e.history)) = e.history
    BY <2>1, <2>2, AppendExtends DEF Succeeds, Statuses
  <2> QED
    BY <2>1, <2>3 DEF Succeeds, EntryPersists
<1>2. Spec => [](TypeOK /\ AuditInv)
  BY InitTypeOK, StepTypeOK, InitAuditInv, StepAuditInv, PTL DEF Spec
<1> QED
  BY <1>1, <1>2, PTL DEF Spec, EntriesPersist
=============================================================================
