------------------------- MODULE ControlPlaneClient -------------------------
(***************************************************************************)
(* The bounded client of the control plane                                 *)
(* (adapters/control_plane/client.py) while it follows one workflow run:   *)
(* summarize_run, wait_for_terminal_run and wait_run.  Every GET is tried  *)
(* again when its answer is lost, a summary is put together from four of   *)
(* them, and the run goes on in between.                                   *)
(*                                                                         *)
(* The run is what its registry entry tells: the events of status_history, *)
(* whose last one has the entry's status.  The server answers every        *)
(* request from the entry as it stands.                                    *)
(***************************************************************************)
EXTENDS Naturals, Sequences

CONSTANTS
    MaxAttempts,    \* max_get_attempts
    MaxPolls,       \* max_polls of wait_for_terminal_run
    MaxEvents,      \* bound: events of the run
    MaxCalls,       \* bound: calls of the client
    Nothing         \* no answer yet

VARIABLES
    events,         \* the run's events so far
    call,           \* the client's call under way
    attempts,       \* attempts at its request so far
    late,           \* the deadline of the call has passed
    reply,          \* what the last call returned or raised
    calls           \* bound: calls so far

clientVars == <<events, call, attempts, late, reply, calls>>

Terminal == {"completed", "needs_review", "failed"}

Event(of, suffix, status) == [of |-> of, suffix |-> suffix, status |-> status]

Last(s) == s[Len(s)]

Status == Last(events).status

Idle == [op |-> "none", stage |-> "idle", status |-> "none", at |-> 0,
         count |-> 0, polls |-> 0, began |-> 0]

ClientInit ==
    /\ events = <<Event("run", "accepted", "accepted")>>
    /\ call = Idle
    /\ attempts = 0
    /\ late = FALSE
    /\ reply = Nothing
    /\ calls = 0

-----------------------------------------------------------------------------
(* The run *)

(* The order in which _run_sequential_workflow_impl records its events: a  *)
(* step that completes leaves the run running, any other ends it.          *)
Following(e) ==
    CASE e.of = "run" /\ e.suffix = "accepted" ->
             {Event("run", "queued", "queued")}
      [] e.of = "run" /\ e.suffix = "queued" ->
             {Event("run", "running", "running")}
      [] e.of = "run" /\ e.suffix = "running" ->
             {Event("workflow", "started", "running")}
      [] e.of = "workflow" /\ e.suffix = "started" ->
             {Event("step", "started", "running")}
      [] e.of = "step" /\ e.suffix = "started" ->
             {Event("step", "completed", "running"),
              Event("step", "needs_review", "needs_review"),
              Event("step", "failed", "failed")}
      [] e.of = "step" /\ e.suffix = "completed" ->
             {Event("step", "started", "running"),
              Event("workflow", "completed", "completed")}
      [] e.of = "step" /\ e.suffix \in {"needs_review", "failed"} ->
             {Event("workflow", e.suffix, e.suffix)}
      [] e.of = "workflow" /\ e.suffix \in Terminal ->
             {Event("run", e.suffix, e.suffix)}
      [] OTHER -> {}

Progress ==
    /\ Len(events) < MaxEvents
    /\ \E e \in Following(Last(events)) : events' = Append(events, e)
    /\ UNCHANGED <<call, attempts, late, reply, calls>>

(* An exception of the worker, or the recovery of a stale run. *)
RunFails ==
    /\ Len(events) < MaxEvents
    /\ Last(events).of # "run" \/ Last(events).suffix \notin Terminal
    /\ events' = Append(events, Event("run", "failed", "failed"))
    /\ UNCHANGED <<call, attempts, late, reply, calls>>

-----------------------------------------------------------------------------
(* The client *)

Call(op) ==
    /\ call.stage = "idle"
    /\ calls < MaxCalls
    /\ calls' = calls + 1
    /\ call' = [Idle EXCEPT !.op = op, !.polls = 1, !.began = Len(events),
                  !.stage = IF op = "wait_run" THEN "status" ELSE "run"]
    /\ attempts' = 0
    /\ late' = FALSE
    /\ UNCHANGED <<events, reply>>

Requesting(stage) == call.stage = stage /\ attempts < MaxAttempts

(* An answer that never arrives (a timeout, a lost connection, a 5xx) is   *)
(* asked for again, up to MaxAttempts; anything else is raised.            *)
Lose ==
    /\ call.stage \in {"run", "events", "artifacts", "review", "status"}
    /\ \/ /\ attempts + 1 < MaxAttempts
          /\ attempts' = attempts + 1
          /\ UNCHANGED <<call, reply>>
       \/ /\ reply' = [outcome |-> "unavailable"]
          /\ call' = Idle
          /\ attempts' = 0
    /\ UNCHANGED <<events, late, calls>>

Proceeds(next) == call' = next /\ attempts' = 0 /\ UNCHANGED reply

Returns(answer) == reply' = answer /\ call' = Idle /\ attempts' = 0

Answer(outcome) ==
    [outcome |-> outcome, op |-> call.op, status |-> call.status,
     at |-> call.at, count |-> call.count, began |-> call.began]

GetRun ==
    /\ Requesting("run")
    /\ Proceeds([call EXCEPT !.stage = "events", !.status = Status,
                             !.at = Len(events)])
    /\ UNCHANGED <<events, late, calls>>

(* _event_type_matches_status *)
Matches(e) ==
    e.status = IF e.suffix = "started" THEN "running" ELSE e.suffix

Refusal ==
    [outcome |-> "invalid_contract", at |-> Len(events), began |-> call.began]

FaultGetRunEvents ==
    /\ Requesting("events")
    /\ IF \A n \in DOMAIN events : Matches(events[n])
       THEN Proceeds([call EXCEPT !.stage = "artifacts", !.count = Len(events)])
       ELSE Returns(Refusal)
    /\ UNCHANGED <<events, late, calls>>

(* The events have to match their types, and the last one the run that the *)
(* request before has brought.                                             *)
GetRunEvents ==
    /\ Requesting("events")
    /\ IF (\A n \in DOMAIN events : Matches(events[n]))
          /\ Status = call.status
       THEN Proceeds([call EXCEPT !.stage = "artifacts", !.count = Len(events)])
       ELSE Returns(Refusal)
    /\ UNCHANGED <<events, late, calls>>

(* The artifact list is of the entry's manifest at that time. *)
GetRunArtifacts ==
    /\ Requesting("artifacts")
    /\ Proceeds([call EXCEPT !.stage = "review"])
    /\ UNCHANGED <<events, late, calls>>

(* get_run_review closes the summary; wait_for_terminal_run asks for       *)
(* another one while the run has not ended, and returns the last.          *)
GetRunReview ==
    /\ Requesting("review")
    /\ IF call.op = "summarize_run" \/ call.status \in Terminal
          \/ call.polls = MaxPolls
       THEN Returns(Answer("summary"))
       ELSE Proceeds([call EXCEPT !.stage = "run", !.polls = @ + 1])
    /\ UNCHANGED <<events, late, calls>>

(* wait_run: get_run_status until the run has ended or time is up. *)
GetRunStatus ==
    /\ Requesting("status")
    /\ LET seen == [call EXCEPT !.status = Status, !.at = Len(events)] IN
       IF Status \in Terminal \/ late
       THEN Returns([outcome |-> IF Status \in Terminal THEN "terminal"
                                 ELSE "poll_timeout",
                     op |-> call.op, status |-> Status, at |-> seen.at,
                     count |-> 0, began |-> call.began])
       ELSE Proceeds([seen EXCEPT !.stage = "sleeping"])
    /\ UNCHANGED <<events, late, calls>>

Wake ==
    /\ call.stage = "sleeping"
    /\ call' = [call EXCEPT !.stage = "status"]
    /\ UNCHANGED <<events, attempts, late, reply, calls>>

DeadlinePasses ==
    /\ call.op = "wait_run" /\ ~late
    /\ late' = TRUE
    /\ UNCHANGED <<events, call, attempts, reply, calls>>

ClientNext ==
    \/ Progress \/ RunFails
    \/ \E op \in {"summarize_run", "wait_for_terminal_run", "wait_run"} :
          Call(op)
    \/ Lose
    \/ GetRun \/ GetRunEvents \/ GetRunArtifacts \/ GetRunReview
    \/ GetRunStatus \/ Wake \/ DeadlinePasses

ClientSpec == ClientInit /\ [][ClientNext]_clientVars

-----------------------------------------------------------------------------
(* Properties *)

(* developer_workflows/ai_actuary_developer/tools.py:571 (a summary is of  *)
(* persisted state) and :539 (wait_run): whatever was lost and asked for   *)
(* again, an answer is of a state the run had during the call; the run and *)
(* the events of a summary agree; and poll_timeout is told of a run that   *)
(* had not ended, after the deadline.                                      *)
AnswersAreOfTheRun ==
    reply # Nothing /\ reply.outcome \in {"summary", "terminal", "poll_timeout"}
    => /\ reply.at >= reply.began
       /\ events[reply.at].status = reply.status
       /\ reply.outcome = "summary" =>
             events[reply.count].status = reply.status
       /\ reply.outcome = "terminal" <=>
             reply.op = "wait_run" /\ reply.status \in Terminal

(* client.py:356: polls "until a terminal summary is observed".  A server  *)
(* that serves a workflow run as it has recorded it is not told to break   *)
(* the contract, at least while the run stands still.                      *)
RecordedRunsAreAccepted ==
    reply # Nothing /\ reply.outcome = "invalid_contract" =>
        reply.at # reply.began
=============================================================================
