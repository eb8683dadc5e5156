----------------------------- MODULE RunRegistry -----------------------------
(***************************************************************************)
(* The JSON run registry (runtime/run_registry.py, storage/local.py).      *)
(*                                                                         *)
(* Every writer holds locked_registry_transaction from its read to its     *)
(* replace, so one transaction is one action here; RegistryTransactions    *)
(* is the module that opens the transaction up.  What is not one           *)
(* transaction in the code is not one action: record_run_event first tries *)
(* an update and, when the run is missing, opens a second transaction to   *)
(* create it, and other callers run between the two.                       *)
(*                                                                         *)
(* Data.  A request is its content, and so is its fingerprint (a SHA-256   *)
(* of the canonical request).  A ticket stands for the two uuid4 values a  *)
(* request draws, operation_id and correlation_id.  An invocation stands   *)
(* for the triple app:session:invocation, which is also the trace_id.      *)
(* Nothing rules out that a drawn run id or ticket is already in use, so   *)
(* the collision branches of the code are reachable.                       *)
(***************************************************************************)
EXTENDS Naturals, Sequences, FiniteSets

CONSTANTS
    RunIds,         \* run identifiers
    Keys,           \* idempotency keys sent by ADK clients
    Invocations,    \* adk_app:adk_session_id:adk_invocation_id
    Tickets,        \* operation_id / correlation_id pairs
    Inputs,         \* frozen workflow inputs
    Callers,        \* threads inside record_run_event
    EventStatuses,  \* bound: the statuses callers write
    MaxEvents,      \* bound: status_history entries callers write per run
    None            \* an absent value

ASSUME NoneAssumption ==
    /\ None \notin RunIds
    /\ None \notin Inputs
    /\ None \notin Tickets
    /\ None \notin BOOLEAN
    /\ None # "adk-developer"
    /\ None \notin [run : RunIds, inv : Invocations, ticket : Tickets,
                    parent : RunIds \cup {None}]

ASSUME BoundsAssumption ==
    /\ MaxEvents \in Nat \ {0}
    /\ EventStatuses \subseteq {"accepted", "queued", "running",
                                "completed", "needs_review", "failed"}

VARIABLES
    runs,           \* payload["runs"]: the set of entries
    ops,            \* payload["adk_operations"]: the set of bindings
    pending,        \* per caller: the event of a create that is still to run
    replies         \* the 202 answers accept_adk_run has led to

vars == <<runs, ops, pending, replies>>

-----------------------------------------------------------------------------
(* Types *)

Statuses == {"accepted", "queued", "running",
             "completed", "needs_review", "failed"}

InFlight == {"accepted", "queued", "running"}

Actions == {"start_workflow_run", "rerun_run"}

Provenances == [run : RunIds, inv : Invocations, ticket : Tickets,
                parent : RunIds \cup {None}]

Entries == [id       : RunIds,
            status   : Statuses,
            source   : {"adk-developer", None},
            prov     : Provenances \cup {None},
            op       : Tickets \cup {None},
            inputs   : Inputs \cup {None},
            review   : BOOLEAN,
            stale    : BOOLEAN,
            history  : Seq(Statuses)]

(* A start request may name a parent run; a rerun request always does, and *)
(* carries no inputs of its own.                                           *)
Requests ==
    [action : {"start_workflow_run"}, inv : Invocations,
     parent : RunIds \cup {None}, inputs : Inputs]
    \cup
    [action : {"rerun_run"}, inv : Invocations,
     parent : RunIds, inputs : {None}]

Operations == [action : Actions, key : Keys, fingerprint : Requests,
               run : RunIds, ticket : Tickets]

(* What a caller hands to record_run_event.  inputs is Keep when it passes *)
(* no operator_params, Drop when it passes operator_params that leave      *)
(* workflow_inputs out, and otherwise the workflow_inputs it passes.       *)
Keep == "keep"
Drop == "drop"

EventsWith(provs) ==
    [id : RunIds, status : EventStatuses, review : BOOLEAN \cup {None},
     inputs : Inputs \cup {Keep, Drop}, prov : provs]

Events == EventsWith(Provenances \cup {None})

Replies == [key : Keys, request : Requests, run : RunIds, created : BOOLEAN]

Known(rs, id) == \E e \in rs : e.id = id

-----------------------------------------------------------------------------
(* accept_adk_run *)

NewProvenance(req, id, ticket) ==
    [run |-> id, inv |-> req.inv, ticket |-> ticket, parent |-> req.parent]

NewEntry(req, id, ticket, in) ==
    [id |-> id, status |-> "accepted", source |-> "adk-developer",
     prov |-> NewProvenance(req, id, ticket), op |-> ticket, inputs |-> in,
     review |-> FALSE, stale |-> FALSE, history |-> <<"accepted">>]

NewOperation(key, req, id, ticket) ==
    [action |-> req.action, key |-> key, fingerprint |-> req,
     run |-> id, ticket |-> ticket]

(* _audit_adk_payload: every audited reader and accept_adk_run itself      *)
(* refuse a payload that fails it.  A run is authoritative when an         *)
(* operation names it or its source says so.                               *)
Authoritative(rs, os) ==
    {o.run : o \in os} \cup {e.id : e \in {x \in rs : x.source # None}}

AuditRuns(rs, os) ==
    /\ \A e, f \in rs : e.id = f.id => e = f
    /\ \A id \in Authoritative(rs, os) : Known(rs, id)
    /\ \A e \in rs : e.id \in Authoritative(rs, os) =>
          /\ e.source = "adk-developer"
          /\ e.prov # None
          /\ e.prov.run = e.id
          /\ e.prov.parent # None => Known(rs, e.prov.parent)
    /\ \A e, f \in rs :
          /\ e.source # None /\ f.source # None /\ e.id # f.id
          => e.prov.inv # f.prov.inv /\ e.prov.ticket # f.prov.ticket

AuditOperations(rs, os) ==
    /\ \A o, p \in os :
          \/ o.ticket = p.ticket
          \/ o.action = p.action /\ o.key = p.key
          => o.run = p.run
    /\ \A e \in rs : e.source # None =>
          /\ \E o \in os : o.run = e.id
          /\ \A o \in os : o.run = e.id =>
                /\ o.ticket = e.op
                /\ o.ticket = e.prov.ticket
                /\ \A p \in os : p.run = e.id => p = o

Audit(rs, os) == AuditRuns(rs, os) /\ AuditOperations(rs, os)

Bound(key, action) == {o \in ops : o.key = key /\ o.action = action}

(* Faults: definitions named Fault... are slips a maintainer could make in *)
(* the definition that follows them.  No action uses one; each is the      *)
(* change under which one of the properties below must fail.               *)
FaultMissingInputsTolerated(req, in) ==
    IF req.action = "rerun_run"
    THEN \E e \in runs : /\ e.id = req.parent
                         /\ e.source # None
                         /\ e.inputs # None => in = e.inputs
    ELSE in = req.inputs

(* What the handlers look up before they call accept_adk_run, on a retry   *)
(* as on a first attempt.  A start takes its inputs from the request; a    *)
(* rerun takes them from its source, whose entry must still hold them.     *)
(* Parent and source must be in the caller's scope, that is ADK runs.      *)
Resolves(req, in) ==
    IF req.action = "rerun_run"
    THEN \E e \in runs : /\ e.id = req.parent
                         /\ e.source # None
                         /\ e.inputs # None
                         /\ in = e.inputs
    ELSE /\ in = req.inputs
         /\ req.parent # None =>
               \E e \in runs : e.id = req.parent /\ e.source # None

FaultInvocationUnchecked(key, req, id, ticket) ==
    /\ Bound(key, req.action) = {}
    /\ \A e \in runs : e.prov # None => e.prov.ticket # ticket
    /\ ~Known(runs, id)

(* The conflicts accept_adk_run reports by name. *)
AcceptChecks(key, req, id, ticket) ==
    /\ Bound(key, req.action) = {}
    /\ \A e \in runs : e.prov # None => /\ e.prov.inv # req.inv
                                        /\ e.prov.ticket # ticket
    /\ ~Known(runs, id)

AcceptNew(key, req, id, ticket, in) ==
    /\ Resolves(req, in)
    /\ Audit(runs, ops)
    /\ AcceptChecks(key, req, id, ticket)
    /\ runs' = runs \cup {NewEntry(req, id, ticket, in)}
    /\ ops' = ops \cup {NewOperation(key, req, id, ticket)}
    /\ Audit(runs', ops')
    /\ replies' = replies \cup
          {[key |-> key, request |-> req, run |-> id, created |-> TRUE]}
    /\ UNCHANGED pending

FaultFingerprintIgnored(key, req) ==
    /\ \E in \in Inputs \cup {None} : Resolves(req, in)
    /\ \E o \in Bound(key, req.action) :
          replies' = replies \cup
             {[key |-> key, request |-> req, run |-> o.run,
               created |-> FALSE]}
    /\ UNCHANGED <<runs, ops, pending>>

AcceptReplay(key, req) ==
    /\ \E in \in Inputs \cup {None} : Resolves(req, in)
    /\ Audit(runs, ops)
    /\ \E o \in Bound(key, req.action) :
          /\ o.fingerprint = req
          /\ Known(runs, o.run)
          /\ replies' = replies \cup
                {[key |-> key, request |-> req, run |-> o.run,
                  created |-> FALSE]}
    /\ UNCHANGED <<runs, ops, pending>>

-----------------------------------------------------------------------------
(* record_run_event: LocalRunStore._upsert_run_unlocked, twice *)

RecordedInputs(old, ev) ==
    IF ev.inputs = Keep THEN old
    ELSE IF ev.inputs = Drop THEN None ELSE ev.inputs

ReviewRequired(ev) ==
    IF ev.review = None THEN ev.status = "needs_review" ELSE ev.review

FaultFieldsMutable(e, ev) == TRUE

(* Provenance and source, once set, may only be repeated. *)
ImmutableFieldsAgree(e, ev) ==
    /\ e.prov # None /\ ev.prov # None => ev.prov = e.prov
    /\ e.source # None /\ ev.prov # None => e.source = "adk-developer"

FaultHistoryRestarted(e, ev) ==
    [e EXCEPT !.status = ev.status,
              !.inputs = RecordedInputs(@, ev),
              !.review = ReviewRequired(ev),
              !.history = <<ev.status>>]

Updated(e, ev) ==
    [e EXCEPT !.status = ev.status,
              !.source = IF ev.prov # None THEN "adk-developer" ELSE @,
              !.prov = IF ev.prov # None THEN ev.prov ELSE @,
              !.inputs = RecordedInputs(@, ev),
              !.review = ReviewRequired(ev),
              !.history = Append(@, ev.status)]

Created(ev) ==
    [id |-> ev.id, status |-> ev.status,
     source |-> IF ev.prov # None THEN "adk-developer" ELSE None,
     prov |-> ev.prov, op |-> None, inputs |-> RecordedInputs(None, ev),
     review |-> ReviewRequired(ev), stale |-> FALSE,
     history |-> <<ev.status>>]

(* Only _record_run_failure passes provenance, for a run accept_adk_run    *)
(* has returned; entries are never deleted.                                *)
Callable(ev) ==
    ev.prov # None => \E e \in runs : e.id = ev.id /\ e.prov # None

UpdateExisting(ev) ==
    \E e \in runs :
        /\ e.id = ev.id
        /\ ImmutableFieldsAgree(e, ev)
        /\ Len(e.history) < MaxEvents
        /\ runs' = (runs \ {e}) \cup {Updated(e, ev)}

(* update_run_status on the caller's behalf. *)
RecordUpdate(c, ev) ==
    /\ Callable(ev)
    /\ pending[c] = None
    /\ UpdateExisting(ev)
    /\ UNCHANGED <<ops, pending, replies>>

(* update_run_status raised RunNotFoundError: the create is yet to come. *)
RecordMissing(c, ev) ==
    /\ Callable(ev)
    /\ pending[c] = None
    /\ ~Known(runs, ev.id)
    /\ pending' = [pending EXCEPT ![c] = ev]
    /\ UNCHANGED <<runs, ops, replies>>

(* create_run rejects an entry that has appeared in the meantime. *)
RecordCreate(c) ==
    /\ pending[c] # None
    /\ IF Known(runs, pending[c].id)
       THEN UNCHANGED runs
       ELSE runs' = runs \cup {Created(pending[c])}
    /\ pending' = [pending EXCEPT ![c] = None]
    /\ UNCHANGED <<ops, replies>>

-----------------------------------------------------------------------------
(* The process dies and starts again: mark_incomplete_adk_runs_stale *)

FaultSilentRecovery(e) ==
    IF e.source = "adk-developer" /\ e.status \in InFlight
    THEN [e EXCEPT !.status = "failed", !.stale = TRUE]
    ELSE e

Recovered(e) ==
    IF e.source = "adk-developer" /\ e.status \in InFlight
    THEN [e EXCEPT !.status = "failed", !.stale = TRUE,
                   !.history = Append(@, "failed")]
    ELSE e

Restart ==
    /\ Audit(runs, ops)
    /\ runs' = {Recovered(e) : e \in runs}
    /\ pending' = [c \in Callers |-> None]
    /\ UNCHANGED <<ops, replies>>

-----------------------------------------------------------------------------

Init ==
    /\ runs = {}
    /\ ops = {}
    /\ pending = [c \in Callers |-> None]
    /\ replies = {}

Accept ==
    \E key \in Keys, req \in Requests :
        \/ \E id \in RunIds, ticket \in Tickets, in \in Inputs \cup {None} :
              AcceptNew(key, req, id, ticket, in)
        \/ AcceptReplay(key, req)

RecordEvent ==
    \E c \in Callers :
        \/ \E ev \in EventsWith({None} \cup {e.prov : e \in runs}) :
              RecordUpdate(c, ev) \/ RecordMissing(c, ev)
        \/ RecordCreate(c)

Next == Accept \/ RecordEvent \/ Restart

Spec == Init /\ [][Next]_vars

-----------------------------------------------------------------------------
(* Properties *)

(* Every value the registry file, a waiting caller or an answer holds has  *)
(* the shape run_registry.py gives it.                                     *)
TypeOK ==
    /\ runs \in SUBSET Entries
    /\ ops \in SUBSET Operations
    /\ pending \in [Callers -> Events \cup {None}]
    /\ replies \in SUBSET Replies

(* The audit that list_runs, get_run, accept_adk_run and start-up run on   *)
(* the file never refuses what the unaudited writer record_run_event and   *)
(* the recovery left in it: one refusal would answer 409 to every ADK      *)
(* request from then on.                                                   *)
AuditNeverRefuses == Audit(runs, ops)

(* The conflicts accept_adk_run names (idempotency, invocation,            *)
(* correlation, run id) are all there are: a request that passes them is   *)
(* never turned away by the second audit as a corrupted registry.          *)
ChecksImplyAudit ==
    \A key \in Keys, req \in Requests, id \in RunIds, ticket \in Tickets :
        \A in \in Inputs \cup {None} :
            Resolves(req, in) /\ AcceptChecks(key, req, id, ticket) =>
                Audit(runs \cup {NewEntry(req, id, ticket, in)},
                      ops \cup {NewOperation(key, req, id, ticket)})

(* However starts, reruns and their retries interleave, all answers to one *)
(* action and idempotency key name one run for one request, and no two     *)
(* requests are told that they created the same run.                       *)
OneRunPerKey ==
    \A r, s \in replies :
        /\ r.key = s.key /\ r.request.action = s.request.action =>
              /\ r.run = s.run /\ r.request = s.request
        /\ r.run = s.run /\ r.created /\ s.created => r = s

(* A run's newest history item is its status, and an ADK run's oldest is   *)
(* its acceptance: no transaction writes one without the other.            *)
HistoryTellsStatus ==
    \A e \in runs :
        /\ e.history # <<>>
        /\ e.status = e.history[Len(e.history)]
        /\ e.op # None => e.history[1] = "accepted"

(* No step removes an entry, rewrites its provenance, operation or source, *)
(* or rewrites history: transactions only append.                          *)
EntryPersists(e) ==
    \E f \in runs' :
        /\ f.id = e.id
        /\ e.prov # None => f.prov = e.prov
        /\ e.source # None => f.source = e.source
        /\ f.op = e.op
        /\ Len(f.history) >= Len(e.history)
        /\ SubSeq(f.history, 1, Len(e.history)) = e.history

EntriesPersist == [][\A e \in runs : EntryPersists(e)]_vars
=============================================================================
