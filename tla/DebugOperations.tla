-------------------------- MODULE DebugOperations --------------------------
(***************************************************************************)
(* The debug operations of the ADK (report exports and bounded benchmarks: *)
(* runtime/run_registry.py and the routes of api/app.py): accepted once    *)
(* under an idempotency key, carried out by the request that was accepted, *)
(* and completed with a result that later requests and polls are given.    *)
(*                                                                         *)
(* The routes are coroutines that never await, so a server handles one     *)
(* request at a time, the work included.  Servers that share the store     *)
(* share it through registry transactions (RegistryTransactions), each of  *)
(* which is one step here.  A key stands for a key and its action.         *)
(***************************************************************************)
EXTENDS Naturals

CONSTANTS
    Servers,        \* control planes on one operation store
    Keys,           \* idempotency keys, each with its action
    Fingerprints,   \* request fingerprints
    Ids,            \* operation ids, op_<random>
    NoId,           \* no operation
    MaxRestarts     \* bound: servers that die and start again

ASSUME OperationsAssumption == MaxRestarts \in Nat /\ NoId \notin Ids

VARIABLES
    operations,     \* adk_debug_operations of the store
    handler,        \* per server: the request it is at
    executions,     \* history: per id, how often the work was begun
    answers,        \* history: what clients were told
    restarts        \* bound: servers restarted so far

debugVars == <<operations, handler, executions, answers, restarts>>

Statuses == {"running", "completed", "failed"}

Operations ==
    [key : Keys, fingerprint : Fingerprints, id : Ids, status : Statuses]

Handlers ==
    [stage : {"idle", "accepted", "executed"}, id : Ids \cup {NoId},
     result : {"completed", "failed", "none"}]

Idle == [stage |-> "idle", id |-> NoId, result |-> "none"]

-----------------------------------------------------------------------------

Bound(key) == {o \in operations : o.key = key}

(* record_adk_debug_operation of a new key; the audit refuses an id that   *)
(* is already there.                                                       *)
Record(s, key, fingerprint, id) ==
    LET o == [key |-> key, fingerprint |-> fingerprint, id |-> id,
              status |-> "running"] IN
    /\ handler[s].stage = "idle"
    /\ Bound(key) = {}
    /\ \A p \in operations : p.id # id
    /\ operations' = operations \cup {o}
    /\ handler' = [handler EXCEPT ![s] =
          [stage |-> "accepted", id |-> id, result |-> "none"]]
    /\ UNCHANGED <<executions, answers, restarts>>

FaultResume(s, key, fingerprint) ==
    /\ handler[s].stage = "idle"
    /\ \E o \in Bound(key) :
          /\ o.fingerprint = fingerprint
          /\ IF o.status = "running"
             THEN /\ handler' = [handler EXCEPT ![s] =
                        [stage |-> "accepted", id |-> o.id, result |-> "none"]]
                  /\ UNCHANGED answers
             ELSE /\ answers' = answers \cup {o}
                  /\ UNCHANGED handler
    /\ UNCHANGED <<operations, executions, restarts>>

(* The same call when the key is bound to the same request: its operation  *)
(* as it stands is the answer.  Another fingerprint is a conflict.         *)
Replay(s, key, fingerprint) ==
    /\ handler[s].stage = "idle"
    /\ \E o \in Bound(key) :
          /\ o.fingerprint = fingerprint
          /\ answers' = answers \cup {o}
    /\ UNCHANGED <<operations, handler, executions, restarts>>

(* The export or the benchmark; an exception in it is a failed result, and *)
(* "failed" stands for every end but "completed".                          *)
Execute(s) ==
    /\ handler[s].stage = "accepted"
    /\ executions' = [executions EXCEPT ![handler[s].id] = @ + 1]
    /\ \E result \in {"completed", "failed"} :
          handler' = [handler EXCEPT ![s].stage = "executed",
                                     ![s].result = result]
    /\ UNCHANGED <<operations, answers, restarts>>

FaultAnswerUnstored(s) ==
    /\ handler[s].stage = "executed"
    /\ \E o \in operations :
          /\ o.id = handler[s].id
          /\ answers' = answers \cup {[o EXCEPT !.status = handler[s].result]}
    /\ handler' = [handler EXCEPT ![s] = Idle]
    /\ UNCHANGED <<operations, executions, restarts>>

(* complete_adk_debug_operation, whose result is the answer. *)
Complete(s) ==
    /\ handler[s].stage = "executed"
    /\ \E o \in operations :
          LET done == [o EXCEPT !.status = handler[s].result] IN
          /\ o.id = handler[s].id
          /\ operations' = (operations \ {o}) \cup {done}
          /\ answers' = answers \cup {done}
    /\ handler' = [handler EXCEPT ![s] = Idle]
    /\ UNCHANGED <<executions, restarts>>

(* The store cannot be read or written: the request ends with an error and *)
(* the operation stays as it was recorded.                                 *)
CompleteFails(s) ==
    /\ handler[s].stage = "executed"
    /\ handler' = [handler EXCEPT ![s] = Idle]
    /\ UNCHANGED <<operations, executions, answers, restarts>>

(* get_adk_debug_operation_status and wait_adk_debug_operation, which      *)
(* waits for nothing.                                                      *)
Poll(s, id) ==
    /\ handler[s].stage = "idle"
    /\ \E o \in operations : o.id = id /\ answers' = answers \cup {o}
    /\ UNCHANGED <<operations, handler, executions, restarts>>

(* A server dies and starts again.  Recovery is for runs only. *)
ServerDies(s) ==
    /\ restarts < MaxRestarts
    /\ restarts' = restarts + 1
    /\ handler' = [handler EXCEPT ![s] = Idle]
    /\ UNCHANGED <<operations, executions, answers>>

-----------------------------------------------------------------------------

DebugInit ==
    /\ operations = {}
    /\ handler = [s \in Servers |-> Idle]
    /\ executions = [id \in Ids |-> 0]
    /\ answers = {}
    /\ restarts = 0

DebugNext ==
    \E s \in Servers :
        \/ \E key \in Keys, fingerprint \in Fingerprints :
              \/ \E id \in Ids : Record(s, key, fingerprint, id)
              \/ Replay(s, key, fingerprint)
        \/ Execute(s)
        \/ Complete(s)
        \/ CompleteFails(s)
        \/ \E id \in Ids : Poll(s, id)
        \/ ServerDies(s)

DebugSpec == DebugInit /\ [][DebugNext]_debugVars

-----------------------------------------------------------------------------
(* Properties *)

(* The shape of the store, the requests under way and the history. *)
TypeOK ==
    /\ operations \subseteq Operations
    /\ handler \in [Servers -> Handlers]
    /\ executions \in [Ids -> Nat]
    /\ answers \subseteq Operations
    /\ restarts \in Nat

(* However a request is retried, and whichever server it reaches, its work *)
(* is done at most once: a key has one operation, an operation one go.     *)
ExecutedOnce ==
    /\ \A o, p \in operations : o.key = p.key \/ o.id = p.id => o = p
    /\ \A id \in Ids : executions[id] <= 1

(* Everything clients were ever told of a key is told of one request and   *)
(* one operation, and whoever was told an outcome was told the same one,   *)
(* which is the one on record.                                             *)
AnswersAgree ==
    \A a \in answers : \E o \in operations :
        /\ o.key = a.key
        /\ o.id = a.id
        /\ o.fingerprint = a.fingerprint
        /\ a.status # "running" => o.status = a.status
=============================================================================
