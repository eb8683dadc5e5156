-------------------------- MODULE ConfirmedActions --------------------------
(***************************************************************************)
(* How the ADK agent gets an action that changes something approved and    *)
(* carried out once: the confirmed tools of developer_workflows/           *)
(* ai_actuary_developer/tools.py, the posts of AdkControlPlaneClient and   *)
(* the routes that check the grant and record the operation (api/app.py,   *)
(* api/capabilities.py).                                                   *)
(*                                                                         *)
(* A tool that is called without a confirmation draws an idempotency key,  *)
(* keeps it in a slot of the session's state and asks the user.  The agent *)
(* framework calls it again, with the same arguments and the user's        *)
(* answer; other calls may come in between.  Each call is a number, and a  *)
(* key is known by the call that drew it.  A digest stands for what it is  *)
(* taken of.                                                               *)
(***************************************************************************)
EXTENDS Naturals, FiniteSets

CONSTANTS
    Agendas,        \* what a session may ask for: sets of requests
                    \* [action, object, detail, invocation], where detail is
                    \* what the inputs or limits of a request add
    MaxDialogs,     \* bound: calls without a confirmation
    None            \* no slot content, no payload, no key

VARIABLES
    agenda,         \* the requests of the session
    slots,          \* pending confirmations in the session's state
    dialogs,        \* per call: what it asked, the user's answer, its post
    accepted,       \* the operations the control plane has recorded
    withdrawn,      \* history: keys that were rejected or replaced
    credential      \* of the control plane; the agent's is the "given" one

confirmVars ==
    <<agenda, slots, dialogs, accepted, withdrawn, credential>>

Runs == {"start_workflow_run", "rerun_run"}
Debug == {"rerun_run", "run_bounded_benchmark", "export_run_report"}

(* The digest of a request.  That of a benchmark has no session in it. *)
Fingerprint(q) ==
    IF q.action = "run_bounded_benchmark" THEN [q EXCEPT !.invocation = None]
    ELSE q

(* What the user is shown: of a start its fingerprint too. *)
Payload(q) ==
    IF q.action = "start_workflow_run" THEN q
    ELSE [q EXCEPT !.invocation = None]

Slot(q) ==
    IF q.action \in Debug THEN <<q.action, q.object, q.invocation>>
    ELSE <<q.action, q.invocation>>

Calls == 1 .. MaxDialogs
Unused == [stage |-> "unused"]

ConfirmInit ==
    /\ agenda \in Agendas
    /\ slots = [s \in {Slot(q) : q \in agenda} |-> None]
    /\ dialogs = [c \in Calls |-> Unused]
    /\ accepted = {} /\ withdrawn = {}
    /\ credential = "given"

At(c, stage) == dialogs[c].stage = stage

Goes(c, stage) == dialogs' = [dialogs EXCEPT ![c].stage = stage]

-----------------------------------------------------------------------------
(* The tool *)

FaultAgain(q) == FALSE

(* The pending confirmation is of this very request. *)
Again(q) ==
    slots[Slot(q)] # None /\ slots[Slot(q)].fingerprint = Fingerprint(q)

(* A call without a confirmation: the pending one is asked for again if it *)
(* is of this request, and replaced by one with a new key otherwise.       *)
Ask(q) ==
    \E c \in Calls :
        LET old == slots[Slot(q)]
            new == IF Again(q) THEN old
                   ELSE [fingerprint |-> Fingerprint(q), key |-> c,
                         payload |-> Payload(q)]
        IN  /\ At(c, "unused") /\ \A d \in 1 .. c - 1 : ~At(d, "unused")
            /\ slots' = [slots EXCEPT ![Slot(q)] = new]
            /\ withdrawn' = withdrawn \cup
                  {k \in Calls : /\ old # None /\ k = old.key
                                 /\ old.fingerprint # Fingerprint(q)}
            /\ dialogs' = [dialogs EXCEPT ![c] =
                  [stage |-> "asked", request |-> q, shown |-> new.payload,
                   returned |-> None, approves |-> FALSE, grant |-> None,
                   operation |-> None]]
    /\ UNCHANGED <<agenda, accepted, credential>>

(* The confirmation is that of this request and of the pending one. *)
Matches(c, pending) ==
    /\ pending # None
    /\ pending.fingerprint = Fingerprint(dialogs[c].request)
    /\ pending.payload = Payload(dialogs[c].request)
    /\ dialogs[c].returned = Payload(dialogs[c].request)

Grant(secret, key, q) ==
    [credential |-> secret, key |-> key, fingerprint |-> Fingerprint(q)]

(* The client signs with the credential the agent was given. *)
Post(c, key) ==
    dialogs' = [dialogs EXCEPT
        ![c].stage = "posted",
        ![c].grant = Grant("given", key, dialogs[c].request)]

(* The call with the user's answer: refused if it is of another request,   *)
(* given up if it was rejected, and posted otherwise.  The pending one     *)
(* stays, so that the same request is posted under the same key again.     *)
Confirmed(q) ==
    \E c \in Calls :
        LET pending == slots[Slot(q)] IN
        /\ At(c, "answered") /\ dialogs[c].request = q
        /\ \/ /\ ~Matches(c, pending)
              /\ Goes(c, "mismatch")
              /\ UNCHANGED <<slots, withdrawn>>
           \/ /\ Matches(c, pending) /\ ~dialogs[c].approves
              /\ slots' = [slots EXCEPT ![Slot(q)] = None]
              /\ withdrawn' = withdrawn \cup {pending.key}
              /\ Goes(c, "rejected")
           \/ /\ Matches(c, pending) /\ dialogs[c].approves
              /\ Post(c, pending.key)
              /\ UNCHANGED <<slots, withdrawn>>
        /\ UNCHANGED <<agenda, accepted, credential>>

Tool(action) ==
    \E q \in agenda : q.action = action /\ (Ask(q) \/ Confirmed(q))

StartWorkflowRun == Tool("start_workflow_run")
RerunRun == Tool("rerun_run")
RunBoundedBenchmark == Tool("run_bounded_benchmark")
ExportRunReport == Tool("export_run_report")

(* The user answers a dialog; the interface may hand back the payload of   *)
(* another one.                                                            *)
Answer(c) ==
    /\ At(c, "asked")
    /\ \E d \in Calls, approves \in BOOLEAN :
          /\ ~At(d, "unused")
          /\ dialogs' = [dialogs EXCEPT ![c].stage = "answered",
                                        ![c].returned = dialogs[d].shown,
                                        ![c].approves = approves]
    /\ UNCHANGED <<agenda, slots, accepted, withdrawn, credential>>

-----------------------------------------------------------------------------
(* The control plane, which handles a post also after the client gave up *)

(* The server takes the digest of the request it has received, under its   *)
(* own credential.                                                         *)
Verified(grant, key, q) == grant = Grant(credential, key, q)

Bound(key, q) == {o \in accepted : o.key = key /\ o.request.action = q.action}

(* accept_adk_run: an invocation has one run.  The debug operations have   *)
(* no such rule.                                                           *)
Free(q) ==
    q.action \in Runs =>
        \A o \in accepted :
            o.request.action \in Runs => o.request.invocation # q.invocation

Recorded(key, q) ==
    IF Bound(key, q) = {} /\ Free(q)
    THEN accepted \cup {[key |-> key, request |-> q]} ELSE accepted

(* The operation the answer names: the one just recorded, or the one the   *)
(* key has always stood for.  None is a conflict.                          *)
Told(key, q, operations) ==
    {o \in operations :
        /\ o.key = key /\ o.request.action = q.action
        /\ Fingerprint(o.request) = Fingerprint(q)}

Handle(c, actions) ==
    LET q == dialogs[c].request
        key == dialogs[c].grant.key
        valid == Verified(dialogs[c].grant, key, q)
    IN
    /\ dialogs[c].stage \in {"posted", "givenUp"} /\ q.action \in actions
    /\ accepted' = IF valid THEN Recorded(key, q) ELSE accepted
    /\ \/ /\ At(c, "givenUp")
          /\ Goes(c, "lost")
       \/ /\ At(c, "posted") /\ valid
          /\ \E o \in Told(key, q, accepted') :
                dialogs' = [dialogs EXCEPT ![c].stage = "told",
                                           ![c].operation = o]
       \/ /\ At(c, "posted") /\ (valid => Told(key, q, accepted') = {})
          /\ Goes(c, "refused")
    /\ UNCHANGED <<agenda, slots, withdrawn, credential>>

StartAdkWorkflowRun(c) == Handle(c, {"start_workflow_run"})
AdkDebugRequest(c) == Handle(c, Debug)

(* The client's time is over; the post may still arrive, or never. *)
GiveUp(c) ==
    /\ At(c, "posted")
    /\ Goes(c, "givenUp")
    /\ UNCHANGED <<agenda, slots, accepted, withdrawn, credential>>

(* rotate: no grant under the agent's credential is taken any more. *)
RotateAdk ==
    /\ credential = "given"
    /\ credential' = "rotated"
    /\ UNCHANGED <<agenda, slots, dialogs, accepted, withdrawn>>

ConfirmNext ==
    \/ StartWorkflowRun \/ RerunRun \/ RunBoundedBenchmark \/ ExportRunReport
    \/ \E c \in Calls :
          Answer(c) \/ StartAdkWorkflowRun(c) \/ AdkDebugRequest(c) \/ GiveUp(c)
    \/ RotateAdk

ConfirmSpec == ConfirmInit /\ [][ConfirmNext]_confirmVars

-----------------------------------------------------------------------------
(* docs/adk-operations-manual.md:121: "Every start requires ADK tool       *)
(* confirmation", and "a retry cannot create a duplicate run".  However    *)
(* calls, answers, late posts and rotations interleave, there are no more  *)
(* operations of what a user was shown than that user has approved; a      *)
(* request that was not rejected or replaced by another is carried out     *)
(* once, however often it is asked for and approved; and who is told of an *)
(* operation is told of that of the request made.                          *)
ApprovedOnce ==
    LET Asked == {c \in Calls : ~At(c, "unused")} IN
    /\ \A q \in agenda :
          /\ Cardinality({o \in accepted : Payload(o.request) = Payload(q)})
                <= Cardinality({c \in Asked :
                      dialogs[c].approves /\ dialogs[c].returned = Payload(q)})
          /\ Cardinality({o \in accepted : o.request = q})
                <= 1 + Cardinality({k \in withdrawn :
                          dialogs[k].request = q})
    /\ \A c \in Asked :
          dialogs[c].operation # None =>
              Payload(dialogs[c].operation.request)
                 = Payload(dialogs[c].request)
=============================================================================
