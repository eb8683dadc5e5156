------------------------ MODULE DeveloperToolsProofs ------------------------
(***************************************************************************)
(* What the tools beside the control plane promise, proved for every value *)
(* of their bounds: each section has the inductive invariant of one tool,  *)
(* its preservation by the tool's steps, and the tool's property as a      *)
(* theorem of the tool's own specification.                                *)
(***************************************************************************)
EXTENDS DeveloperTools, Sequences, FiniteSets, FiniteSetTheorems, TLAPS

-----------------------------------------------------------------------------
(* The pipeline runner *)

PipeTypeOK ==
    /\ pipeline \in Pipelines /\ stale \in SUBSET (1 .. NSteps)
    /\ step \in 1 .. NSteps + 1
    /\ stage \in {"begin", "step", "merge", "sync", "end", "raised",
                  "returned"}
    /\ outcome \in [1 .. NSteps -> {"pending", "completed", "skipped",
                                    "failed"}]
    /\ reviews \in [1 .. NSteps -> BOOLEAN]

(* The steps that are over. *)
Behind(i) == i < step \/ (i = step /\ stage \in {"merge", "sync"})

StepFits ==
    /\ stage = "begin" => step = 1
    /\ stage \in {"step", "merge", "sync"} => step <= NSteps
    /\ stage \in {"end", "returned"} => step = NSteps + 1
    /\ stage # "raised" =>
          \A i \in 1 .. NSteps : outcome[i] = "pending" <=> ~Behind(i)
    /\ stage \in {"merge", "sync"} =>
          outcome[step] = "completed" /\ ~Pipe!Failed

(* Of the steps that are over, those that were due have been run.          *)
SkipsFit ==
    /\ \A i \in 1 .. NSteps : reviews[i] => outcome[i] = "completed"
    /\ \A i \in 1 .. NSteps : outcome[i] # "pending" =>
          (outcome[i] = "skipped" <=> ~Pipe!Due(i))

(* What a completed step has left.  A failed one may have written, but no  *)
(* step reads after it.                                                    *)
ArtifactsFit ==
    /\ \A i \in 1 .. NSteps : outcome[i] = "completed" =>
          /\ i \in listed \/ (i = step /\ stage \in {"merge", "raised"})
          /\ stale = {} =>
                /\ i \in written
                /\ \/ pipeline[i].reads = 0
                   \/ /\ pipeline[i].reads \in 1 .. NSteps
                      /\ outcome[pipeline[i].reads] = "completed"
    /\ \A f \in written : f = 0 \/ (f \in 1 .. NSteps /\ outcome[f] \in
                                       {"completed", "failed"})

EndFits ==
    stage = "returned" => recorded = returned /\ returned = Pipe!Derived

PipeInv ==
    PipeTypeOK /\ StepFits /\ SkipsFit /\ ArtifactsFit /\ EndFits

LEMMA PipelineBounds ==
    /\ NSteps \in Nat
    /\ \A p \in Pipelines : p \in [1 .. NSteps -> [reads : Nat, when : Nat]]
BY DeveloperToolsAssumption

LEMMA PipeInit == Pipe!PipelineInit => PipeInv
<1> SUFFICES ASSUME Pipe!PipelineInit PROVE PipeInv
  OBVIOUS
<1> USE PipelineBounds
<1>1. PipeTypeOK
  BY DEF Pipe!PipelineInit, PipeTypeOK, Pipe!Steps
<1>2. StepFits
  BY DEF Pipe!PipelineInit, StepFits, Pipe!Steps, Behind
<1>3. SkipsFit /\ ArtifactsFit /\ EndFits
  BY DEF Pipe!PipelineInit, SkipsFit, ArtifactsFit, EndFits, Pipe!Steps
<1> QED
  BY <1>1, <1>2, <1>3 DEF PipeInv

(* Whether a step is due depends on the steps before it only.              *)
LEMMA DueStays ==
    ASSUME NEW i \in 1 .. NSteps, pipeline' = pipeline,
           \A j \in 1 .. i - 1 :
              outcome'[j] = outcome[j] /\ reviews'[j] = reviews[j]
    PROVE  Pipe!Due(i)' <=> Pipe!Due(i)
BY PipelineBounds DEF Pipe!Due

(* The step under way is over with an outcome, and was due unless skipped. *)
LEMMA OutcomeFits ==
    ASSUME PipeInv, stage = "step", step \in 1 .. NSteps,
           NEW o \in {"completed", "skipped", "failed"},
           outcome' = [outcome EXCEPT ![step] = o],
           UNCHANGED <<pipeline, stale>>,
           \A i \in 1 .. NSteps : i # step => reviews'[i] = reviews[i],
           reviews'[step] => o = "completed" \/ reviews[step],
           o = "skipped" <=> ~Pipe!Due(step)
    PROVE  SkipsFit'
<1> USE PipelineBounds DEF PipeInv
<1>1. /\ outcome'[step] = o /\ outcome[step] = "pending"
      /\ \A i \in 1 .. NSteps : i # step => outcome'[i] = outcome[i]
  BY DEF PipeTypeOK, StepFits, Behind
<1>2. \A i \in 1 .. NSteps : reviews'[i] => outcome'[i] = "completed"
  BY <1>1 DEF SkipsFit
<1>3. ASSUME NEW i \in 1 .. NSteps, outcome'[i] # "pending"
      PROVE  outcome'[i] = "skipped" <=> ~Pipe!Due(i)'
  <2>1. i = step \/ (i < step /\ outcome[i] # "pending")
    BY <1>1, <1>3 DEF PipeTypeOK, StepFits, Behind
  <2>2. \A j \in 1 .. i - 1 : j \in 1 .. NSteps /\ j # step
    BY <2>1
  <2>3. \A j \in 1 .. i - 1 :
           outcome'[j] = outcome[j] /\ reviews'[j] = reviews[j]
    BY <1>1, <2>2
  <2>4. Pipe!Due(i)' <=> Pipe!Due(i)
    BY <2>3, DueStays
  <2> QED
    BY <1>1, <2>1, <2>4 DEF SkipsFit
<1> QED
  BY <1>2, <1>3 DEF SkipsFit

(* The steps of a pipeline keep the invariant.                             *)
LEMMA PipeNext == PipeInv /\ [Pipe!PipelineNext]_Pipe!pipelineVars => PipeInv'
<1> SUFFICES ASSUME PipeInv, [Pipe!PipelineNext]_Pipe!pipelineVars
             PROVE  PipeInv'
  OBVIOUS
<1> USE PipelineBounds DEF PipeInv
<1>1. CASE UNCHANGED Pipe!pipelineVars
  BY <1>1 DEF Pipe!pipelineVars, PipeTypeOK, StepFits, SkipsFit, ArtifactsFit,
     EndFits, Behind, Pipe!Failed, Pipe!Derived, Pipe!Steps, Pipe!Due
<1>2. CASE Pipe!BeginPipeline
  <2>1. PipeTypeOK' /\ step' = 1 /\ stage' \in {"step", "end"}
    BY <1>2 DEF PipeTypeOK, Pipe!BeginPipeline, Pipe!Goto
  <2>2. /\ \A i \in 1 .. NSteps : outcome'[i] = "pending" /\ ~(i < step')
        /\ stage' = "step" => 1 <= NSteps
        /\ stage' = "end" => NSteps = 0
    BY <1>2 DEF PipeTypeOK, StepFits, Behind, Pipe!BeginPipeline, Pipe!Goto
  <2>3. StepFits'
    BY <2>1, <2>2 DEF StepFits, Behind
  <2>4. SkipsFit'
    BY <1>2, <2>2 DEF SkipsFit, Pipe!BeginPipeline
  <2>5. ArtifactsFit'
    BY <1>2, <2>2 DEF ArtifactsFit, Pipe!BeginPipeline
  <2>6. EndFits'
    BY <2>1 DEF EndFits
  <2> QED
    BY <2>1, <2>3, <2>4, <2>5, <2>6
<1>3. CASE Pipe!SkipStep
  <2>1. /\ stage = "step" /\ step \in 1 .. NSteps /\ step' = step + 1
        /\ stage' \in {"step", "end"}
        /\ stage' = "step" => step' <= NSteps
        /\ stage' = "end" => step' = NSteps + 1
        /\ outcome' = [outcome EXCEPT ![step] = "skipped"]
        /\ outcome[step] = "pending"
        /\ UNCHANGED <<pipeline, stale, reviews, written, listed, recorded,
                       returned>>
    BY <1>3 DEF PipeTypeOK, StepFits, Behind, Pipe!SkipStep, Pipe!NextStep,
       Pipe!Goto
  <2>2. PipeTypeOK'
    BY <2>1 DEF PipeTypeOK
  <2>3. /\ outcome'[step] = "skipped"
        /\ \A i \in 1 .. NSteps : i # step => outcome'[i] = outcome[i]
        /\ Pipe!Failed' <=> Pipe!Failed
    BY <2>1 DEF PipeTypeOK, Pipe!Failed, Pipe!Steps
  <2>4. StepFits'
    BY <2>1, <2>3 DEF StepFits, Behind, PipeTypeOK
  <2>5. ~Pipe!Due(step)
    <3>1. pipeline[step].when \in Nat
      BY <2>1 DEF PipeTypeOK
    <3>2. CASE Pipe!Failed
      <4>1. PICK j \in 1 .. NSteps : outcome[j] = "failed"
        BY <3>2 DEF Pipe!Failed, Pipe!Steps
      <4>2. j \in 1 .. step - 1
        BY <2>1, <4>1 DEF PipeTypeOK, StepFits, Behind
      <4> QED
        BY <4>1, <4>2 DEF Pipe!Due
    <3>3. CASE ~Pipe!Failed
      BY <1>3, <3>1, <3>3 DEF Pipe!SkipStep, Pipe!ConditionMet, Pipe!Due
    <3> QED
      BY <3>2, <3>3
  <2>6. SkipsFit'
    BY <2>1, <2>5, OutcomeFits DEF SkipsFit
  <2>7. ArtifactsFit'
    BY <2>1, <2>3 DEF ArtifactsFit, PipeTypeOK
  <2>8. EndFits'
    BY <2>1 DEF EndFits
  <2> QED
    BY <2>2, <2>4, <2>6, <2>7, <2>8
<1>4. CASE Pipe!FailStep
  <2>1. /\ stage = "step" /\ step \in 1 .. NSteps /\ step' = step + 1
        /\ stage' \in {"step", "end"}
        /\ stage' = "step" => step' <= NSteps
        /\ stage' = "end" => step' = NSteps + 1
        /\ outcome' = [outcome EXCEPT ![step] = "failed"]
        /\ outcome[step] = "pending"
        /\ written' \in {written, written \cup {step}}
        /\ UNCHANGED <<pipeline, stale, reviews, listed, recorded, returned>>
    BY <1>4 DEF PipeTypeOK, StepFits, Behind, Pipe!FailStep, Pipe!Runs,
       Pipe!NextStep, Pipe!Goto
  <2>2. PipeTypeOK'
    BY <2>1 DEF PipeTypeOK
  <2>3. /\ outcome'[step] = "failed"
        /\ \A i \in 1 .. NSteps : i # step => outcome'[i] = outcome[i]
        /\ Pipe!Failed'
    BY <2>1 DEF PipeTypeOK, Pipe!Failed, Pipe!Steps
  <2>4. StepFits'
    BY <2>1, <2>3 DEF StepFits, Behind, PipeTypeOK
  <2>5. SkipsFit'
    <3>1. Pipe!Due(step)
      BY <1>4, <2>1 DEF Pipe!FailStep, Pipe!Runs, Pipe!Failed, Pipe!Steps,
         Pipe!ConditionMet, Pipe!Due
    <3> QED
      BY <2>1, <3>1, OutcomeFits
  <2>7. ArtifactsFit'
    BY <2>1, <2>3 DEF ArtifactsFit, PipeTypeOK
  <2>8. EndFits'
    BY <2>1 DEF EndFits
  <2> QED
    BY <2>2, <2>4, <2>5, <2>7, <2>8
<1>5. CASE Pipe!RunStep
  <2>1. /\ stage = "step" /\ step \in 1 .. NSteps /\ step' = step
        /\ stage' = "merge" /\ ~Pipe!Failed
        /\ outcome' = [outcome EXCEPT ![step] = "completed"]
        /\ outcome[step] = "pending"
        /\ written' \in {written, written \cup {step}}
        /\ stale = {} => written' = written \cup {step}
        /\ stale = {} => pipeline[step].reads \in written
        /\ UNCHANGED <<pipeline, stale, listed, recorded, returned>>
    BY <1>5 DEF PipeTypeOK, StepFits, Behind, Pipe!RunStep, Pipe!Runs,
       Pipe!Exists
  <2>2. PICK b \in BOOLEAN : reviews' = [reviews EXCEPT ![step] = b]
    BY <1>5 DEF Pipe!RunStep
  <2>3. PipeTypeOK'
    BY <2>1, <2>2 DEF PipeTypeOK
  <2>4. /\ outcome'[step] = "completed"
        /\ \A i \in 1 .. NSteps : i # step =>
              outcome'[i] = outcome[i] /\ reviews'[i] = reviews[i]
        /\ ~Pipe!Failed'
    BY <2>1, <2>2 DEF PipeTypeOK, Pipe!Failed, Pipe!Steps
  <2>5. StepFits'
    BY <2>1, <2>4 DEF StepFits, Behind, PipeTypeOK
  <2>7. SkipsFit'
    <3>1. Pipe!Due(step)
      BY <1>5, <2>1 DEF Pipe!RunStep, Pipe!Runs, Pipe!Failed, Pipe!Steps,
         Pipe!ConditionMet, Pipe!Due
    <3> QED
      BY <2>1, <2>4, <3>1, OutcomeFits
  <2>8. \A j \in 1 .. NSteps : outcome'[j] # "failed" /\ outcome[j] # "failed"
    BY <2>1, <2>4 DEF Pipe!Failed, Pipe!Steps
  <2>9. ArtifactsFit'
    <3>1. \A f \in written :
             f = 0 \/ (f \in 1 .. NSteps /\ outcome'[f] = "completed")
      BY <2>1, <2>4, <2>8 DEF ArtifactsFit
    <3>2. \A f \in written' :
             f = 0 \/ (f \in 1 .. NSteps /\ outcome'[f] = "completed")
      BY <2>1, <2>4, <3>1
    <3>3. stale = {} =>
             /\ step \in written'
             /\ \/ pipeline[step].reads = 0
                \/ /\ pipeline[step].reads \in 1 .. NSteps
                   /\ outcome'[pipeline[step].reads] = "completed"
      BY <2>1, <3>1
    <3>4. ASSUME NEW i \in 1 .. NSteps, outcome'[i] = "completed", i # step
          PROVE  /\ i \in listed
                 /\ stale = {} =>
                       /\ i \in written'
                       /\ \/ pipeline[i].reads = 0
                          \/ /\ pipeline[i].reads \in 1 .. NSteps
                             /\ outcome'[pipeline[i].reads] = "completed"
      <4>1. outcome[i] = "completed"
        BY <2>4, <3>4
      <4>2. /\ i \in listed
            /\ stale = {} =>
                  /\ i \in written
                  /\ \/ pipeline[i].reads = 0
                     \/ /\ pipeline[i].reads \in 1 .. NSteps
                        /\ outcome[pipeline[i].reads] = "completed"
        BY <2>1, <3>4, <4>1 DEF ArtifactsFit
      <4> QED
        BY <2>1, <2>4, <4>2
    <3> QED
      BY <2>1, <2>8, <3>2, <3>3, <3>4 DEF ArtifactsFit
  <2>10. EndFits'
    BY <2>1 DEF EndFits
  <2> QED
    BY <2>3, <2>5, <2>7, <2>9, <2>10
<1>6. CASE Pipe!MergeManifest
  BY <1>6 DEF Pipe!MergeManifest, PipeTypeOK, StepFits, SkipsFit, ArtifactsFit,
     EndFits, Behind, Pipe!Failed, Pipe!Steps, Pipe!Due
<1>7. CASE Pipe!SyncRegistry
  <2>1. /\ stage = "sync" /\ step \in 1 .. NSteps /\ step' = step + 1
        /\ stage' \in {"step", "end"}
        /\ stage' = "step" => step' <= NSteps
        /\ stage' = "end" => step' = NSteps + 1
        /\ UNCHANGED <<pipeline, stale, outcome, reviews, written, listed,
                       returned>>
    BY <1>7 DEF PipeTypeOK, StepFits, Pipe!SyncRegistry, Pipe!NextStep,
       Pipe!Goto
  <2>2. PipeTypeOK'
    BY <2>1 DEF PipeTypeOK
  <2>3. StepFits'
    BY <2>1 DEF StepFits, Behind, PipeTypeOK
  <2>4. SkipsFit' /\ ArtifactsFit' /\ EndFits'
    BY <2>1 DEF SkipsFit, ArtifactsFit, EndFits, Pipe!Due
  <2> QED
    BY <2>2, <2>3, <2>4
<1>8. CASE Pipe!FileError \/ Pipe!UnknownCondition
  <2>1. /\ stage' = "raised" /\ stage # "raised"
        /\ UNCHANGED <<pipeline, stale, step, outcome, reviews, written,
                       listed, recorded, returned>>
    BY <1>8 DEF Pipe!FileError, Pipe!UnknownCondition
  <2> QED
    BY <2>1 DEF PipeTypeOK, StepFits, SkipsFit, ArtifactsFit,
       EndFits, Pipe!Due
<1>9. CASE Pipe!EndPipeline
  <2>1. /\ stage = "end" /\ stage' = "returned"
        /\ recorded' = Pipe!Derived /\ returned' = Pipe!Derived
        /\ UNCHANGED <<pipeline, stale, step, outcome, reviews, written,
                       listed>>
    BY <1>9 DEF Pipe!EndPipeline
  <2> QED
    BY <2>1 DEF PipeTypeOK, StepFits, Behind, SkipsFit, ArtifactsFit,
       EndFits, Pipe!Failed, Pipe!Derived, Pipe!Steps, Pipe!Due
<1> QED
  BY <1>1, <1>2, <1>3, <1>4, <1>5, <1>6, <1>7, <1>8, <1>9
     DEF Pipe!PipelineNext

(* What ToolPipelineRunner.run returns is what the registry says and what  *)
(* the steps did, for pipelines of any length: failed exactly when a step  *)
(* failed, a review exactly when a step asked for one and none failed, and *)
(* the steps that were run exactly those that were due.                    *)
THEOREM PipelinesAreTold == Pipe!PipelineSpec => []PipelineIsTold
<1>1. PipeInv => PipelineIsTold
  <2> SUFFICES ASSUME PipeInv, stage = "returned"
               PROVE  PipelineIsTold
    BY DEF PipelineIsTold, Pipe!PipelineIsTold
  <2> USE PipelineBounds DEF PipeInv
  <2>1. \A i \in 1 .. NSteps :
           outcome[i] \in {"completed", "skipped", "failed"}
    BY DEF StepFits, Behind, PipeTypeOK
  <2>2. /\ recorded = returned
        /\ returned \in {"failed", "needs_review", "completed"}
        /\ returned = "failed" <=> Pipe!Failed
        /\ returned = "needs_review" <=>
              /\ ~Pipe!Failed
              /\ \E i \in 1 .. NSteps : outcome[i] = "completed" /\ reviews[i]
    BY DEF EndFits, Pipe!Derived, Pipe!Steps, SkipsFit
  <2>3. \A i \in 1 .. NSteps :
           outcome[i] = IF ~Pipe!Due(i) THEN "skipped"
                        ELSE IF outcome[i] = "completed" THEN "completed"
                        ELSE "failed"
    BY <2>1 DEF SkipsFit
  <2>4. \A i \in 1 .. NSteps : outcome[i] = "completed" =>
           /\ i \in listed
           /\ stale = {} =>
                 /\ i \in written
                 /\ \/ pipeline[i].reads = 0
                    \/ /\ pipeline[i].reads \in 1 .. NSteps
                       /\ outcome[pipeline[i].reads] = "completed"
    BY DEF ArtifactsFit
  <2> QED
    BY <2>2, <2>3, <2>4 DEF PipelineIsTold, Pipe!PipelineIsTold, Pipe!Steps
<1> QED
  BY <1>1, PipeInit, PipeNext, PTL DEF Pipe!PipelineSpec

-----------------------------------------------------------------------------
(* The control-plane client *)

RunStatuses ==
    {"accepted", "queued", "running", "completed", "needs_review", "failed"}

RunEvents ==
    [of : {"run", "workflow", "step"},
     suffix : RunStatuses \cup {"started"}, status : RunStatuses]

ClientTypeOK ==
    /\ events \in Seq(RunEvents) /\ Len(events) >= 1
    /\ call \in [op : {"none", "summarize_run", "wait_for_terminal_run",
                       "wait_run"},
                 stage : {"idle", "run", "events", "artifacts", "review",
                          "status", "sleeping"},
                 status : RunStatuses \cup {"none"}, at : Nat, count : Nat,
                 polls : Nat, began : Nat]

(* Position n of the run's events, not before the call, has the status.    *)
Seen(n, status1) == n \in 1 .. Len(events) /\ events[n].status = status1

(* What the call under way has learnt. *)
CallFits ==
    /\ call.stage # "idle" => call.began <= Len(events)
    /\ call.stage \in {"run", "events", "artifacts", "review"} =>
          call.op # "wait_run"
    /\ call.stage \in {"status", "sleeping"} => call.op = "wait_run"
    /\ call.stage \in {"events", "artifacts", "review"} =>
          call.began <= call.at /\ Seen(call.at, call.status)
    /\ call.stage \in {"artifacts", "review"} =>
          Seen(call.count, call.status)

ReplyFits ==
    reply # Nothing /\ reply.outcome \in {"summary", "terminal",
                                          "poll_timeout"} =>
        /\ reply.began <= reply.at /\ Seen(reply.at, reply.status)
        /\ reply.outcome = "summary" =>
              reply.op # "wait_run" /\ Seen(reply.count, reply.status)
        /\ reply.outcome = "terminal" =>
              reply.op = "wait_run" /\ reply.status \in Client!Terminal
        /\ reply.outcome = "poll_timeout" =>
              reply.status \notin Client!Terminal

ClientInv == ClientTypeOK /\ CallFits /\ ReplyFits

LEMMA FollowingType ==
    ASSUME NEW e \in RunEvents
    PROVE  Client!Following(e) \subseteq RunEvents
<1> SUFFICES ASSUME NEW f \in Client!Following(e) PROVE f \in RunEvents
  OBVIOUS
<1> QED
  BY SMT DEF RunEvents, RunStatuses, Client!Event, Client!Following,
     Client!Terminal

LEMMA ClientInit == Client!ClientInit => ClientInv
<1> SUFFICES ASSUME Client!ClientInit PROVE ClientInv
  OBVIOUS
<1>1. ClientTypeOK
  BY DEF Client!ClientInit, ClientTypeOK, RunEvents, RunStatuses,
     Client!Event, Client!Idle
<1>2. CallFits /\ ReplyFits
  BY DEF Client!ClientInit, CallFits, ReplyFits, Client!Idle
<1> QED
  BY <1>1, <1>2 DEF ClientInv

(* The run only gets more events. *)
LEMMA RunGoesOn ==
    ASSUME ClientInv, NEW e \in RunEvents, events' = Append(events, e),
           UNCHANGED <<call, reply>>
    PROVE  ClientInv'
<1> USE DEF ClientInv
<1>1. events' \in Seq(RunEvents) /\ Len(events') = Len(events) + 1
  BY DEF ClientTypeOK
<1>2. \A n \in 1 .. Len(events) : events'[n] = events[n]
  BY DEF ClientTypeOK
<1>3. ClientTypeOK'
  BY <1>1 DEF ClientTypeOK
<1>4. Len(events) \in Nat
  BY DEF ClientTypeOK
<1>5. \A n, s : Seen(n, s) => Seen(n, s)'
  BY <1>1, <1>2, <1>4 DEF Seen
<1>6. call' = call /\ reply' = reply
  OBVIOUS
<1>7. call.began \in Nat
  BY DEF ClientTypeOK
<1>8. CallFits'
  BY <1>1, <1>4, <1>5, <1>6, <1>7 DEF CallFits
<1>9. ReplyFits'
  BY <1>5, <1>6 DEF ReplyFits
<1> QED
  BY <1>3, <1>8, <1>9

LEMMA ClientNext ==
    ClientInv /\ [Client!ClientNext]_Client!clientVars => ClientInv'
<1> SUFFICES ASSUME ClientInv, [Client!ClientNext]_Client!clientVars
             PROVE  ClientInv'
  OBVIOUS
<1> USE DEF ClientInv
<1>0. Len(events) \in 1 .. Len(events) /\ Len(events) \in Nat
  BY DEF ClientTypeOK
<1>h. Seen(Len(events), Client!Status) /\ Client!Status \in RunStatuses
  <2>1. events[Len(events)] \in RunEvents
    BY <1>0 DEF ClientTypeOK
  <2> QED
    BY <1>0, <2>1 DEF RunEvents, Seen, Client!Status, Client!Last
<1>1. CASE UNCHANGED Client!clientVars
  BY <1>1 DEF Client!clientVars, ClientTypeOK, CallFits, ReplyFits, Seen
<1>2. CASE Client!Progress
  <2>1. Client!Last(events) \in RunEvents
    BY <1>0 DEF ClientTypeOK, Client!Last
  <2>2. PICK e \in Client!Following(Client!Last(events)) :
           events' = Append(events, e)
    BY <1>2 DEF Client!Progress
  <2> QED
    BY <1>2, <2>1, <2>2, FollowingType, RunGoesOn DEF Client!Progress
<1>3. CASE Client!RunFails
  <2>1. Client!Event("run", "failed", "failed") \in RunEvents
    BY DEF Client!Event, RunEvents, RunStatuses
  <2> QED
    BY <1>3, <2>1, RunGoesOn DEF Client!RunFails
<1>4. ASSUME NEW op \in {"summarize_run", "wait_for_terminal_run", "wait_run"},
             Client!Call(op)
      PROVE  ClientInv'
  <2>1. /\ call' = [op |-> op, status |-> "none", at |-> 0, count |-> 0,
                    polls |-> 1, began |-> Len(events),
                    stage |-> IF op = "wait_run" THEN "status" ELSE "run"]
        /\ UNCHANGED <<events, reply>>
    BY <1>4 DEF Client!Call, Client!Idle
  <2>2. ClientTypeOK'
    BY <1>0, <2>1 DEF ClientTypeOK
  <2>3. CallFits'
    BY <1>0, <2>1 DEF CallFits
  <2>4. ReplyFits'
    BY <2>1 DEF ReplyFits, Seen
  <2> QED
    BY <2>2, <2>3, <2>4
<1>5. ASSUME UNCHANGED events, call' = Client!Idle, ReplyFits'
      PROVE  ClientInv'
  <2>1. ClientTypeOK' /\ CallFits'
    BY <1>5 DEF ClientTypeOK, CallFits, Client!Idle
  <2> QED
    BY <1>5, <2>1
<1>6. CASE Client!Lose
  <2>1. CASE UNCHANGED <<events, call, reply>>
    BY <2>1 DEF ClientTypeOK, CallFits, ReplyFits, Seen
  <2>2. CASE /\ UNCHANGED events
             /\ reply' = [outcome |-> "unavailable"] /\ call' = Client!Idle
    <3>1. ReplyFits'
      BY <2>2 DEF ReplyFits
    <3> QED
      BY <1>5, <2>2, <3>1
  <2> QED
    BY <1>6, <2>1, <2>2 DEF Client!Lose
<1>7. CASE Client!GetRun
  <2>1. /\ call.stage = "run" /\ UNCHANGED <<events, reply>>
        /\ call' = [call EXCEPT !.stage = "events", !.status = Client!Status,
                                !.at = Len(events)]
    BY <1>7 DEF Client!GetRun, Client!Proceeds, Client!Requesting
  <2>2. ClientTypeOK'
    BY <1>0, <1>h, <2>1 DEF ClientTypeOK
  <2>3. CallFits'
    BY <1>0, <1>h, <2>1 DEF CallFits, ClientTypeOK, Seen
  <2>4. ReplyFits'
    BY <2>1 DEF ReplyFits, Seen
  <2> QED
    BY <2>2, <2>3, <2>4
<1>8. CASE Client!GetRunEvents
  <2>1. CASE /\ call.stage = "events" /\ UNCHANGED <<events, reply>>
             /\ call' = [call EXCEPT !.stage = "artifacts",
                                     !.count = Len(events)]
             /\ Client!Status = call.status
    <3>1. ClientTypeOK'
      BY <1>0, <2>1 DEF ClientTypeOK
    <3>2. CallFits'
      BY <1>0, <1>h, <2>1 DEF CallFits, ClientTypeOK, Seen
    <3>3. ReplyFits'
      BY <2>1 DEF ReplyFits, Seen
    <3> QED
      BY <3>1, <3>2, <3>3
  <2>2. CASE /\ UNCHANGED events /\ reply' = Client!Refusal
             /\ call' = Client!Idle
    <3>1. ReplyFits'
      BY <2>2 DEF ReplyFits, Client!Refusal
    <3> QED
      BY <1>5, <2>2, <3>1
  <2> QED
    BY <1>8, <2>1, <2>2 DEF Client!GetRunEvents, Client!Proceeds,
       Client!Returns, Client!Requesting
<1>9. CASE Client!GetRunArtifacts
  <2>1. /\ call.stage = "artifacts" /\ UNCHANGED <<events, reply>>
        /\ call' = [call EXCEPT !.stage = "review"]
    BY <1>9 DEF Client!GetRunArtifacts, Client!Proceeds, Client!Requesting
  <2> QED
    BY <2>1 DEF ClientTypeOK, CallFits, ReplyFits, Seen
<1>10. CASE Client!GetRunReview
  <2>1. CASE /\ call.stage = "review" /\ UNCHANGED <<events, reply>>
             /\ call' = [call EXCEPT !.stage = "run", !.polls = @ + 1]
    <3>0. call.polls + 1 \in Nat
      BY DEF ClientTypeOK
    <3>1. ClientTypeOK'
      BY <2>1, <3>0 DEF ClientTypeOK
    <3>2. CallFits'
      BY <2>1 DEF CallFits, ClientTypeOK
    <3>3. ReplyFits'
      BY <2>1 DEF ReplyFits, Seen
    <3> QED
      BY <3>1, <3>2, <3>3
  <2>2. CASE /\ call.stage = "review" /\ UNCHANGED events
             /\ reply' = Client!Answer("summary") /\ call' = Client!Idle
    <3>1. ReplyFits'
      BY <2>2 DEF ReplyFits, CallFits, Seen, Client!Answer
    <3> QED
      BY <1>5, <2>2, <3>1
  <2> QED
    BY <1>10, <2>1, <2>2 DEF Client!GetRunReview, Client!Proceeds,
       Client!Returns, Client!Requesting
<1>11. CASE Client!GetRunStatus
  <2>1. CASE /\ call.stage = "status" /\ UNCHANGED <<events, reply>>
             /\ call' = [call EXCEPT !.status = Client!Status,
                            !.at = Len(events), !.stage = "sleeping"]
    <3>1. ClientTypeOK'
      BY <1>0, <1>h, <2>1 DEF ClientTypeOK
    <3>2. CallFits'
      BY <2>1 DEF CallFits, ClientTypeOK
    <3>3. ReplyFits'
      BY <2>1 DEF ReplyFits, Seen
    <3> QED
      BY <3>1, <3>2, <3>3
  <2>2. CASE /\ call.stage = "status" /\ UNCHANGED events
             /\ reply' = [outcome |-> IF Client!Status \in Client!Terminal
                                      THEN "terminal" ELSE "poll_timeout",
                          op |-> call.op, status |-> Client!Status,
                          at |-> Len(events), count |-> 0,
                          began |-> call.began]
             /\ call' = Client!Idle
    <3>1. ReplyFits'
      BY <1>h, <2>2 DEF ReplyFits, CallFits, Seen
    <3> QED
      BY <1>5, <2>2, <3>1
  <2>3. [call EXCEPT !.status = Client!Status, !.at = Len(events)].at
           = Len(events)
    BY DEF ClientTypeOK
  <2>4. [[call EXCEPT !.status = Client!Status, !.at = Len(events)]
            EXCEPT !.stage = "sleeping"]
        = [call EXCEPT !.status = Client!Status, !.at = Len(events),
                       !.stage = "sleeping"]
    BY DEF ClientTypeOK
  <2> QED
    BY <1>11, <2>1, <2>2, <2>3, <2>4 DEF Client!GetRunStatus,
       Client!Proceeds, Client!Returns, Client!Requesting
<1>12. CASE Client!Wake
  <2>1. /\ call.stage = "sleeping" /\ UNCHANGED <<events, reply>>
        /\ call' = [call EXCEPT !.stage = "status"]
    BY <1>12 DEF Client!Wake
  <2> QED
    BY <2>1 DEF ClientTypeOK, CallFits, ReplyFits, Seen
<1>13. CASE Client!DeadlinePasses
  BY <1>13 DEF Client!DeadlinePasses, ClientTypeOK, CallFits, ReplyFits, Seen
<1> QED
  BY <1>1, <1>2, <1>3, <1>4, <1>6, <1>7, <1>8, <1>9, <1>10, <1>11, <1>12,
     <1>13 DEF Client!ClientNext

(* The summaries and waits of AdkControlPlaneClient are of states the run   *)
(* had during the call, for runs of any length and any number of polls,    *)
(* attempts and calls.                                                     *)
THEOREM AnswersAreOfRuns == Client!ClientSpec => []AnswersAreOfTheRun
<1>1. ClientInv => AnswersAreOfTheRun
  BY DEF ClientInv, ClientTypeOK, ReplyFits, Seen, AnswersAreOfTheRun,
     Client!AnswersAreOfTheRun
<1> QED
  BY <1>1, ClientInit, ClientNext, PTL DEF Client!ClientSpec
-----------------------------------------------------------------------------
(* The single-case operator flow *)

CasePlaces ==
    {"idle", "begin", "queue", "run", "plan", "manifest", "attach", "guide",
     "record", "returned", "escaped", "raised", "lost"}

Evidences == [by : Case!Flows, verdict : Case!Verdicts]

Manifests ==
    [by : Case!Flows,
     lists : SUBSET {"validated_input", "review_packet", "ai_review"}]

Results ==
    [status : {"completed", "needs_review", "failed"}, told : BOOLEAN]

CaseTypeOK ==
    /\ flow \in [Case!Flows -> CasePlaces]
    /\ route \in [Case!Flows -> Case!Routes]
    /\ caseRoot \in [Case!Flows -> Case!Roots]
    /\ status \in [Case!Flows -> {"accepted", "queued", "running",
                      "completed", "needs_review", "failed", Nothing}]
    /\ checked \in [Case!Flows -> Case!Verdicts \cup {Nothing}]
    /\ last \in [Case!Flows -> Case!Verdicts \cup {"error", Nothing}]
    /\ brokeOff \in [Case!Flows -> BOOLEAN]
    /\ result \in [Case!Flows -> Results \cup {Nothing}]
    /\ evidence \in [Case!Roots -> Evidences \cup {Nothing}]
    /\ manifest \in [Case!Roots -> Manifests \cup {Nothing}]
    /\ packet \in [Case!Roots -> Case!Flows \cup {Nothing}]
    /\ failures \in Nat

(* Flow f was started on directory r. *)
Works(f, r) == flow[f] # "idle" /\ caseRoot[f] = r

(* The files of directory r, each there and by a flow that works on it.    *)
EvidenceOf(r) == evidence[r] \in Evidences /\ Works(evidence[r].by, r)
ManifestOf(r) == manifest[r] \in Manifests /\ Works(manifest[r].by, r)
PacketOf(r) == packet[r] \in Case!Flows /\ Works(packet[r], r)

(* A verdict that stands is that of files that are there; the last ones,   *)
(* when no other flow writes there and no call of the worker broke off.    *)
LastFits(f) ==
    \/ last[f] \in {Nothing, "error"}
    \/ /\ flow[f] # "idle" /\ last[f] \in Case!Verdicts
       /\ EvidenceOf(caseRoot[f]) /\ ManifestOf(caseRoot[f])
       /\ Case!Alone(f) /\ ~brokeOff[f] /\ flow[f] # "manifest" =>
             evidence[caseRoot[f]].verdict = last[f]

(* Between the case files and their manifest. *)
CallFit(f) ==
    flow[f] = "manifest" =>
        /\ checked[f] \in Case!Verdicts /\ EvidenceOf(caseRoot[f])
        /\ Case!Alone(f) => evidence[caseRoot[f]].verdict = checked[f]

ResultFits(f) ==
    flow[f] \in {"attach", "guide", "record", "returned"} =>
        /\ result[f] \in Results
        /\ result[f].status # "failed" =>
              /\ last[f] \notin {Nothing, "error"}
              /\ Case!WorkerStatus(last[f]) = result[f].status
              /\ result[f].status = "needs_review" => PacketOf(caseRoot[f])

RecordFits(f) ==
    /\ flow[f] = "idle" => last[f] = Nothing
    /\ flow[f] = "returned" =>
          status[f] = result[f].status \/ ~result[f].told
    /\ flow[f] = "raised" /\ route[f] = "background" => status[f] = "failed"

FlowFits(f) == LastFits(f) /\ CallFit(f) /\ ResultFits(f) /\ RecordFits(f)

CaseInv == CaseTypeOK /\ \A f \in Case!Flows : FlowFits(f)

LEMMA CaseInit == Case!CaseInit => CaseInv
BY DEF Case!CaseInit, CaseInv, CaseTypeOK, CasePlaces, Case!Flows, Case!Roots,
   Case!Routes, FlowFits, LastFits, CallFit, ResultFits, RecordFits

(* A step of flow f once it is started.  The other flow, when it has its   *)
(* directory to itself, has it still, and finds there what it has left.    *)
LEMMA OtherFlowStands ==
    ASSUME CaseInv, NEW f \in Case!Flows, NEW p \in CasePlaces \ {"idle"},
           flow[f] # "idle", flow' = [flow EXCEPT ![f] = p],
           UNCHANGED <<caseRoot, route>>,
           \A g \in Case!Flows \ {f} :
              /\ status'[g] = status[g] /\ checked'[g] = checked[g]
              /\ last'[g] = last[g] /\ brokeOff'[g] = brokeOff[g]
              /\ result'[g] = result[g],
           \A r \in Case!Roots :
              /\ EvidenceOf(r) => EvidenceOf(r)'
              /\ ManifestOf(r) => ManifestOf(r)'
              /\ PacketOf(r) => PacketOf(r)'
              /\ r # caseRoot[f] => evidence'[r] = evidence[r]
    PROVE  /\ \A g \in Case!Flows \ {f} : FlowFits(g)'
           /\ Case!Alone(f)' <=> Case!Alone(f)
<1>1. \A g \in Case!Flows \ {f} : flow'[g] = flow[g]
  BY DEF CaseInv, CaseTypeOK
<1>2. flow'[f] # "idle"
  BY DEF CaseInv, CaseTypeOK
<1>3. Case!Alone(f)' <=> Case!Alone(f)
  BY <1>1 DEF Case!Alone
<1>4. ASSUME NEW g \in Case!Flows \ {f} PROVE FlowFits(g)'
  <2>1. caseRoot[g] \in Case!Roots /\ FlowFits(g)
    BY DEF CaseInv, CaseTypeOK
  <2>2. /\ EvidenceOf(caseRoot[g]) => EvidenceOf(caseRoot[g])'
        /\ ManifestOf(caseRoot[g]) => ManifestOf(caseRoot[g])'
        /\ PacketOf(caseRoot[g]) => PacketOf(caseRoot[g])'
    BY <2>1
  <2>3. Case!Alone(g)' =>
           Case!Alone(g) /\ evidence'[caseRoot[g]] = evidence[caseRoot[g]]
    <3>1. Case!Alone(g)' => caseRoot[f] # caseRoot[g]
      BY <1>2 DEF Case!Alone
    <3>2. Case!Alone(g)' => Case!Alone(g)
      BY <1>1, <1>2 DEF Case!Alone
    <3> QED
      BY <2>1, <3>1, <3>2
  <2>4. LastFits(g)'
    BY <1>1, <2>1, <2>2, <2>3 DEF FlowFits, LastFits
  <2>5. CallFit(g)' /\ ResultFits(g)' /\ RecordFits(g)'
    BY <1>1, <2>1, <2>2, <2>3 DEF FlowFits, CallFit, ResultFits, RecordFits
  <2> QED
    BY <2>4, <2>5 DEF FlowFits
<1> QED
  BY <1>3, <1>4

(* A step that leaves the files and the verdicts alone. *)
LEMMA FilesStand ==
    ASSUME CaseInv, NEW f \in Case!Flows, NEW p \in CasePlaces \ {"idle"},
           flow[f] # "idle", flow' = [flow EXCEPT ![f] = p],
           UNCHANGED <<route, caseRoot, evidence, manifest, packet>>
    PROVE  \A r \in Case!Roots :
              /\ EvidenceOf(r) => EvidenceOf(r)'
              /\ ManifestOf(r) => ManifestOf(r)'
              /\ PacketOf(r) => PacketOf(r)'
<1>1. \A g \in Case!Flows : flow[g] # "idle" => flow'[g] # "idle"
  BY DEF CaseInv, CaseTypeOK
<1>2. \A g \in Case!Flows, r \in Case!Roots : Works(g, r) => Works(g, r)'
  BY <1>1 DEF Works
<1> QED
  BY <1>2 DEF EvidenceOf, ManifestOf, PacketOf, Evidences, Manifests

LEMMA CallSteps ==
    ASSUME CaseInv, NEW f \in Case!Flows,
           \/ \E v \in Case!Verdicts \cup {"error"} : Case!CallWorker(f, v)
           \/ Case!WriteManifest(f) \/ Case!WorkerBreaksOff(f)
    PROVE  CaseInv'
<1> USE DEF CaseInv
<1>0. /\ caseRoot[f] \in Case!Roots /\ FlowFits(f)
      /\ {"plan", "manifest"} \subseteq CasePlaces \ {"idle"}
  BY DEF CaseTypeOK, CasePlaces
<1>1. ASSUME NEW v \in Case!Verdicts, Case!CallWorker(f, v)
      PROVE  CaseInv'
  <2>1. /\ flow[f] = "plan" /\ flow' = [flow EXCEPT ![f] = "manifest"]
        /\ evidence' =
              [evidence EXCEPT ![caseRoot[f]] = [by |-> f, verdict |-> v]]
        /\ checked' = [checked EXCEPT ![f] = v]
        /\ UNCHANGED <<route, caseRoot, status, last, brokeOff, result,
                       manifest, packet, failures>>
    BY <1>1 DEF Case!CallWorker, Case!Goto, Case!Verdicts
  <2>2. [by |-> f, verdict |-> v] \in Evidences
    BY DEF Evidences
  <2>3. CaseTypeOK'
    BY <1>0, <2>1, <2>2 DEF CaseTypeOK
  <2>4. /\ \A g \in Case!Flows : flow[g] # "idle" => flow'[g] # "idle"
        /\ flow'[f] = "manifest" /\ checked'[f] = v
        /\ evidence'[caseRoot[f]] = [by |-> f, verdict |-> v]
        /\ \A r \in Case!Roots \ {caseRoot[f]} : evidence'[r] = evidence[r]
    BY <1>0, <2>1 DEF CaseTypeOK
  <2>5. \A g \in Case!Flows, r \in Case!Roots : Works(g, r) => Works(g, r)'
    BY <2>1, <2>4 DEF Works
  <2>6. EvidenceOf(caseRoot[f])'
    BY <2>1, <2>2, <2>4 DEF EvidenceOf, Works
  <2>7. \A r \in Case!Roots :
           /\ EvidenceOf(r) => EvidenceOf(r)'
           /\ ManifestOf(r) => ManifestOf(r)'
           /\ PacketOf(r) => PacketOf(r)'
    BY <2>1, <2>4, <2>5, <2>6
       DEF EvidenceOf, ManifestOf, PacketOf, Evidences, Manifests
  <2>8. \A g \in Case!Flows \ {f} : checked'[g] = checked[g]
    BY <2>1 DEF CaseTypeOK
  <2>9. /\ \A g \in Case!Flows \ {f} : FlowFits(g)'
        /\ Case!Alone(f)' <=> Case!Alone(f)
    BY <1>0, <2>1, <2>4, <2>7, <2>8, OtherFlowStands
  <2>10. LastFits(f)'
    BY <1>0, <2>1, <2>4, <2>6, <2>7 DEF FlowFits, LastFits
  <2>11. CallFit(f)' /\ ResultFits(f)' /\ RecordFits(f)'
    BY <2>1, <2>4, <2>6 DEF CallFit, ResultFits, RecordFits
  <2> QED
    BY <2>3, <2>9, <2>10, <2>11 DEF FlowFits
<1>2. CASE Case!CallWorker(f, "error")
  <2>1. /\ flow[f] = "plan" /\ last' = [last EXCEPT ![f] = "error"]
        /\ UNCHANGED <<flow, evidence, checked, route, caseRoot, status,
                       brokeOff, result, manifest, packet, failures>>
    BY <1>2 DEF Case!CallWorker, Case!Goto
  <2>2. CaseTypeOK'
    BY <2>1 DEF CaseTypeOK
  <2>3. last'[f] = "error" /\ \A g \in Case!Flows \ {f} : last'[g] = last[g]
    BY <2>1 DEF CaseTypeOK
  <2>4. \A g \in Case!Flows : Case!Alone(g)' <=> Case!Alone(g)
    BY <2>1 DEF Case!Alone
  <2>5. ASSUME NEW g \in Case!Flows \ {f} PROVE FlowFits(g)'
    <3>1. FlowFits(g) /\ last'[g] = last[g]
      BY <2>3
    <3> QED
      BY <2>1, <2>4, <3>1 DEF FlowFits, LastFits, CallFit, ResultFits,
         RecordFits, EvidenceOf, ManifestOf, PacketOf, Works
  <2>6. FlowFits(f)'
    BY <2>1, <2>3 DEF FlowFits, LastFits, CallFit, ResultFits, RecordFits
  <2> QED
    BY <2>2, <2>5, <2>6
<1>3. CASE Case!WriteManifest(f)
  <2>1. /\ flow[f] = "manifest" /\ flow' = [flow EXCEPT ![f] = "plan"]
        /\ manifest' =
              [manifest EXCEPT ![caseRoot[f]] = [by |-> f, lists |-> {}]]
        /\ last' = [last EXCEPT ![f] = checked[f]]
        /\ UNCHANGED <<route, caseRoot, status, checked, brokeOff, result,
                       evidence, packet, failures>>
    BY <1>3 DEF Case!WriteManifest, Case!Goto
  <2>2. [by |-> f, lists |-> {}] \in Manifests
    BY DEF Manifests
  <2>3. CaseTypeOK'
    BY <1>0, <2>1, <2>2 DEF CaseTypeOK
  <2>4. /\ \A g \in Case!Flows : flow[g] # "idle" => flow'[g] # "idle"
        /\ flow'[f] = "plan" /\ last'[f] = checked[f]
        /\ \A g \in Case!Flows \ {f} : last'[g] = last[g]
        /\ manifest'[caseRoot[f]] = [by |-> f, lists |-> {}]
        /\ \A r \in Case!Roots \ {caseRoot[f]} : manifest'[r] = manifest[r]
    BY <1>0, <2>1 DEF CaseTypeOK
  <2>5. \A g \in Case!Flows, r \in Case!Roots : Works(g, r) => Works(g, r)'
    BY <2>1, <2>4 DEF Works
  <2>6. ManifestOf(caseRoot[f])'
    BY <2>1, <2>2, <2>4 DEF ManifestOf, Works
  <2>7. \A r \in Case!Roots :
           /\ EvidenceOf(r) => EvidenceOf(r)'
           /\ ManifestOf(r) => ManifestOf(r)'
           /\ PacketOf(r) => PacketOf(r)'
    BY <2>1, <2>4, <2>5, <2>6
       DEF EvidenceOf, ManifestOf, PacketOf, Evidences, Manifests
  <2>8. /\ \A g \in Case!Flows \ {f} : FlowFits(g)'
        /\ Case!Alone(f)' <=> Case!Alone(f)
    BY <1>0, <2>1, <2>4, <2>7, OtherFlowStands
  <2>9. LastFits(f)'
    BY <1>0, <2>1, <2>4, <2>6, <2>7, <2>8 DEF FlowFits, LastFits, CallFit
  <2>10. CallFit(f)' /\ ResultFits(f)' /\ RecordFits(f)'
    BY <2>1, <2>4 DEF CallFit, ResultFits, RecordFits
  <2> QED
    BY <2>3, <2>8, <2>9, <2>10 DEF FlowFits
<1>4. CASE Case!WorkerBreaksOff(f)
  <2>1. /\ flow[f] = "manifest" /\ flow' = [flow EXCEPT ![f] = "plan"]
        /\ brokeOff' = [brokeOff EXCEPT ![f] = TRUE]
        /\ failures' = failures + 1
        /\ UNCHANGED <<route, caseRoot, status, checked, last, result,
                       evidence, manifest, packet>>
    BY <1>4 DEF Case!WorkerBreaksOff, Case!Goto, Case!Fail
  <2>2. CaseTypeOK'
    BY <1>0, <2>1 DEF CaseTypeOK
  <2>3. flow'[f] = "plan" /\ brokeOff'[f]
    BY <2>1 DEF CaseTypeOK
  <2>4. \A g \in Case!Flows \ {f} : brokeOff'[g] = brokeOff[g]
    BY <2>1 DEF CaseTypeOK
  <2>5. \A r \in Case!Roots :
           /\ EvidenceOf(r) => EvidenceOf(r)'
           /\ ManifestOf(r) => ManifestOf(r)'
           /\ PacketOf(r) => PacketOf(r)'
    BY <1>0, <2>1, FilesStand
  <2>6. /\ \A g \in Case!Flows \ {f} : FlowFits(g)'
        /\ Case!Alone(f)' <=> Case!Alone(f)
    BY <1>0, <2>1, <2>4, <2>5, OtherFlowStands
  <2>7. LastFits(f)'
    BY <1>0, <2>1, <2>3, <2>5 DEF FlowFits, LastFits
  <2>8. CallFit(f)' /\ ResultFits(f)' /\ RecordFits(f)'
    BY <2>1, <2>3 DEF CallFit, ResultFits, RecordFits
  <2> QED
    BY <2>2, <2>6, <2>7, <2>8 DEF FlowFits
<1> QED
  BY <1>1, <1>2, <1>3, <1>4

LEMMA ResultSteps ==
    ASSUME CaseInv, NEW f \in Case!Flows,
           \/ Case!PlannerEnds(f) \/ Case!PlannerFails(f)
           \/ \E named \in BOOLEAN : Case!Attach(f, named)
           \/ Case!Guide(f)
    PROVE  CaseInv'
<1> USE DEF CaseInv
<1>0. /\ caseRoot[f] \in Case!Roots /\ FlowFits(f)
      /\ {"attach", "guide", "escaped", "record"}
            \subseteq CasePlaces \ {"idle"}
  BY DEF CaseTypeOK, CasePlaces
<1>w. ASSUME NEW p \in CasePlaces \ {"idle"}, flow[f] # "idle",
             flow' = [flow EXCEPT ![f] = p], UNCHANGED <<route, caseRoot>>
      PROVE  /\ \A g \in Case!Flows, r \in Case!Roots :
                   Works(g, r) => Works(g, r)'
             /\ flow'[f] = p /\ Works(f, caseRoot[f])'
             /\ \A g \in Case!Flows \ {f} : flow'[g] = flow[g]
  BY <1>w DEF CaseTypeOK, Works
<1>1. CASE Case!PlannerEnds(f)
  <2> DEFINE res == [status |-> Case!WorkerStatus(last[f]), told |-> TRUE]
  <2>1. /\ flow[f] = "plan" /\ last[f] # Nothing
        /\ flow' = [flow EXCEPT ![f] = "attach"]
        /\ packet' = IF last[f] = "review_required"
                     THEN [packet EXCEPT ![caseRoot[f]] = f] ELSE packet
        /\ result' = [result EXCEPT ![f] = res]
        /\ UNCHANGED <<route, caseRoot, status, checked, last, brokeOff,
                       evidence, manifest, failures>>
    BY <1>1 DEF Case!PlannerEnds, Case!Goto
  <2>2. /\ res \in Results /\ res.status = Case!WorkerStatus(last[f])
        /\ last[f] = "error" => res.status = "failed"
        /\ res.status = "needs_review" => last[f] = "review_required"
    BY DEF Results, Case!WorkerStatus
  <2> HIDE DEF res
  <2>3. CaseTypeOK'
    BY <1>0, <2>1, <2>2 DEF CaseTypeOK
  <2>4. /\ \A g \in Case!Flows, r \in Case!Roots : Works(g, r) => Works(g, r)'
        /\ flow'[f] = "attach" /\ Works(f, caseRoot[f])'
    BY <1>0, <1>w, <2>1
  <2>5. /\ result'[f] = res
        /\ \A g \in Case!Flows \ {f} : result'[g] = result[g]
        /\ last[f] = "review_required" => PacketOf(caseRoot[f])'
    BY <1>0, <2>1, <2>4 DEF CaseTypeOK, PacketOf
  <2>6. \A r \in Case!Roots :
           /\ EvidenceOf(r) => EvidenceOf(r)'
           /\ ManifestOf(r) => ManifestOf(r)'
           /\ PacketOf(r) => PacketOf(r)'
    <3>1. \A r \in Case!Roots :
             packet'[r] = packet[r] \/ (r = caseRoot[f] /\ packet'[r] = f)
      BY <1>0, <2>1 DEF CaseTypeOK
    <3> QED
      BY <2>1, <2>4, <3>1
         DEF EvidenceOf, ManifestOf, PacketOf, Evidences, Manifests
  <2>7. /\ \A g \in Case!Flows \ {f} : FlowFits(g)'
        /\ Case!Alone(f)' <=> Case!Alone(f)
    BY <1>0, <2>1, <2>5, <2>6, OtherFlowStands
  <2>8. LastFits(f)'
    BY <1>0, <2>1, <2>4, <2>6, <2>7 DEF FlowFits, LastFits
  <2>9. ResultFits(f)'
    BY <2>1, <2>2, <2>4, <2>5 DEF ResultFits
  <2>10. CallFit(f)' /\ RecordFits(f)'
    BY <2>4 DEF CallFit, RecordFits
  <2> QED
    BY <2>3, <2>7, <2>8, <2>9, <2>10 DEF FlowFits
<1>2. CASE Case!PlannerFails(f)
  <2> DEFINE res == [status |-> "failed", told |-> TRUE]
  <2>1. /\ flow[f] = "plan" /\ flow' = [flow EXCEPT ![f] = "attach"]
        /\ result' = [result EXCEPT ![f] = res]
        /\ UNCHANGED <<route, caseRoot, status, checked, last, brokeOff,
                       evidence, manifest, packet, failures>>
    BY <1>2 DEF Case!PlannerFails, Case!Goto
  <2>2. res \in Results /\ res.status = "failed"
    BY DEF Results
  <2> HIDE DEF res
  <2>3. CaseTypeOK'
    BY <1>0, <2>1, <2>2 DEF CaseTypeOK
  <2>4. /\ flow'[f] = "attach" /\ result'[f] = res
        /\ \A g \in Case!Flows \ {f} : result'[g] = result[g]
    BY <2>1 DEF CaseTypeOK
  <2>5. \A r \in Case!Roots :
           /\ EvidenceOf(r) => EvidenceOf(r)'
           /\ ManifestOf(r) => ManifestOf(r)'
           /\ PacketOf(r) => PacketOf(r)'
    BY <1>0, <2>1, FilesStand
  <2>6. /\ \A g \in Case!Flows \ {f} : FlowFits(g)'
        /\ Case!Alone(f)' <=> Case!Alone(f)
    BY <1>0, <2>1, <2>4, <2>5, OtherFlowStands
  <2>7. LastFits(f)'
    BY <1>0, <2>1, <2>4, <2>5, <2>6 DEF FlowFits, LastFits
  <2>8. CallFit(f)' /\ ResultFits(f)' /\ RecordFits(f)'
    BY <2>2, <2>4 DEF CallFit, ResultFits, RecordFits
  <2> QED
    BY <2>3, <2>6, <2>7, <2>8 DEF FlowFits
(* The manifest, where there is one, gets more entries, and maybe the      *)
(* packet is written again.                                                *)
<1>3. ASSUME NEW p \in {"guide", "escaped", "record"},
             flow[f] \in {"attach", "guide"}, flow' = [flow EXCEPT ![f] = p],
             UNCHANGED <<route, caseRoot, status, checked, last, brokeOff,
                         result, evidence>>,
             failures' \in {failures, failures + 1},
             packet' \in {packet, [packet EXCEPT ![caseRoot[f]] = f]},
             \/ manifest' = manifest
             \/ \E e \in SUBSET {"validated_input", "review_packet",
                                 "ai_review"} :
                   /\ manifest[caseRoot[f]] # Nothing
                   /\ manifest' = [manifest EXCEPT ![caseRoot[f]].lists =
                                      @ \cup e]
      PROVE  CaseInv'
  <2>1. /\ \A g \in Case!Flows, r \in Case!Roots : Works(g, r) => Works(g, r)'
        /\ flow'[f] = p /\ Works(f, caseRoot[f])' /\ flow[f] # "idle"
    BY <1>0, <1>3, <1>w
  <2>2. \A r \in Case!Roots :
           \/ manifest'[r] = manifest[r]
           \/ /\ manifest[r] \in Manifests /\ manifest'[r] \in Manifests
              /\ manifest'[r].by = manifest[r].by
    BY <1>0, <1>3 DEF CaseTypeOK, Manifests
  <2>3. manifest' \in [Case!Roots -> Manifests \cup {Nothing}]
    <3>1. manifest' = [r \in Case!Roots |-> manifest'[r]]
      BY <1>0, <1>3 DEF CaseTypeOK
    <3> QED
      BY <2>2, <3>1 DEF CaseTypeOK
  <2>4. CaseTypeOK'
    BY <1>0, <1>3, <2>3 DEF CaseTypeOK
  <2>5. \A r \in Case!Roots :
           packet'[r] = packet[r] \/ (r = caseRoot[f] /\ packet'[r] = f)
    BY <1>0, <1>3 DEF CaseTypeOK
  <2>6. \A r \in Case!Roots :
           /\ EvidenceOf(r) => EvidenceOf(r)'
           /\ ManifestOf(r) => ManifestOf(r)'
           /\ PacketOf(r) => PacketOf(r)'
    BY <1>3, <2>1, <2>2, <2>5
       DEF EvidenceOf, ManifestOf, PacketOf, Evidences, Manifests
  <2>7. /\ \A g \in Case!Flows \ {f} : FlowFits(g)'
        /\ Case!Alone(f)' <=> Case!Alone(f)
    BY <1>0, <1>3, <2>1, <2>6, OtherFlowStands
  <2>8. LastFits(f)'
    BY <1>0, <1>3, <2>1, <2>6, <2>7 DEF FlowFits, LastFits
  <2>9. CallFit(f)' /\ ResultFits(f)' /\ RecordFits(f)'
    BY <1>0, <1>3, <2>1, <2>6 DEF FlowFits, CallFit, ResultFits, RecordFits
  <2> QED
    BY <2>4, <2>7, <2>8, <2>9 DEF FlowFits
<1>4. ASSUME NEW named \in BOOLEAN, Case!Attach(f, named) PROVE CaseInv'
  <2> DEFINE e == {"validated_input"} \cup
                  (IF result[f].status = "needs_review"
                   THEN {"review_packet"} ELSE {})
  <2>1. e \in SUBSET {"validated_input", "review_packet", "ai_review"}
    OBVIOUS
  <2>2. /\ flow[f] = "attach"
        /\ UNCHANGED <<route, caseRoot, status, checked, last, brokeOff,
                       result, evidence, packet>>
        /\ \/ /\ manifest[caseRoot[f]] # Nothing
              /\ manifest' = [manifest EXCEPT ![caseRoot[f]].lists = @ \cup e]
              /\ Case!Goto(f, "guide") /\ UNCHANGED failures
           \/ /\ failures' = failures + 1
              /\ Case!Goto(f, "escaped") /\ UNCHANGED manifest
           \/ Case!Goto(f, "guide") /\ UNCHANGED <<manifest, failures>>
    BY <1>4 DEF Case!Attach, Case!Fail
  <2> HIDE DEF e
  <2> QED
    BY <1>3, <2>1, <2>2 DEF Case!Goto
<1>5. CASE Case!Guide(f)
  <2>1. /\ flow[f] = "guide" /\ flow' = [flow EXCEPT ![f] = "record"]
        /\ UNCHANGED <<route, caseRoot, status, checked, last, brokeOff,
                       result, evidence>>
    BY <1>5 DEF Case!Guide, Case!Goto
  <2>2. /\ failures' \in {failures, failures + 1}
        /\ packet' \in {packet, [packet EXCEPT ![caseRoot[f]] = f]}
        /\ \/ manifest' = manifest
           \/ /\ manifest[caseRoot[f]] # Nothing
              /\ manifest' = [manifest EXCEPT ![caseRoot[f]].lists =
                                 @ \cup {"ai_review"}]
    BY <1>5 DEF Case!Guide, Case!Fail
  <2>3. {"ai_review"} \in SUBSET {"validated_input", "review_packet",
                                  "ai_review"}
    OBVIOUS
  <2> QED
    BY <1>3, <2>1, <2>2, <2>3
<1> QED
  BY <1>1, <1>2, <1>4, <1>5

(* Steps that write no file, and of the records at most the flow's own.    *)
LEMMA RecordSteps ==
    ASSUME CaseInv, NEW f \in Case!Flows,
           \/ Case!WriteInput(f)
           \/ Case!RecordStart(f, "queue", "queued", "run")
           \/ Case!RecordStart(f, "run", "running", "plan")
           \/ Case!RecordResult(f) \/ Case!Escape(f)
    PROVE  CaseInv'
<1> USE DEF CaseInv
<1>0. /\ caseRoot[f] \in Case!Roots /\ FlowFits(f)
      /\ failures \in Nat /\ failures + 1 \in Nat /\ failures # failures + 1
  BY DEF CaseTypeOK
<1>1. ASSUME NEW p \in CasePlaces \ {"idle"},
             flow' = [flow EXCEPT ![f] = p],
             UNCHANGED <<route, caseRoot, checked, last, brokeOff, evidence,
                         manifest, packet>>,
             failures' \in {failures, failures + 1},
             NEW s \in {status[f], "queued", "running", "completed",
                        "needs_review", "failed"},
             status' = [status EXCEPT ![f] = s],
             NEW b \in Results \cup {result[f]},
             result' = [result EXCEPT ![f] = b],
             flow[f] \in {"begin", "queue", "run", "record", "escaped"},
             p \notin {"manifest", "attach", "guide", "record"},
             p = "returned" => /\ flow[f] = "record" /\ b \in Results
                               /\ b.status = result[f].status
                               /\ s = b.status \/ ~b.told,
             p = "raised" /\ route[f] = "background" => s = "failed"
      PROVE  CaseInv'
  <2>1. CaseTypeOK'
    <3>1. status[f] \in {"accepted", "queued", "running", "completed",
                         "needs_review", "failed", Nothing}
      BY DEF CaseTypeOK
    <3>2. status' \in [Case!Flows -> {"accepted", "queued", "running",
                          "completed", "needs_review", "failed", Nothing}]
      BY <1>1, <3>1 DEF CaseTypeOK
    <3>3. result' \in [Case!Flows -> Results \cup {Nothing}]
      BY <1>1 DEF CaseTypeOK
    <3>4. failures' \in Nat
      BY <1>0, <1>1
    <3> QED
      BY <1>1, <3>2, <3>3, <3>4 DEF CaseTypeOK
  <2>2. /\ flow'[f] = p /\ status'[f] = s /\ result'[f] = b
        /\ \A g \in Case!Flows \ {f} :
              status'[g] = status[g] /\ result'[g] = result[g]
    BY <1>1 DEF CaseTypeOK
  <2>3. \A r \in Case!Roots :
           /\ EvidenceOf(r) => EvidenceOf(r)'
           /\ ManifestOf(r) => ManifestOf(r)'
           /\ PacketOf(r) => PacketOf(r)'
    BY <1>1, FilesStand
  <2>4. /\ \A g \in Case!Flows \ {f} : FlowFits(g)'
        /\ Case!Alone(f)' <=> Case!Alone(f)
    BY <1>1, <2>2, <2>3, OtherFlowStands
  <2>5. CallFit(f)'
    BY <1>1, <2>2 DEF CallFit
  <2>6. ResultFits(f)'
    BY <1>0, <1>1, <2>2, <2>3 DEF FlowFits, ResultFits
  <2>7. RecordFits(f)'
    BY <1>1, <2>2 DEF RecordFits
  <2>8. LastFits(f)'
    BY <1>0, <1>1, <2>2, <2>3, <2>4 DEF FlowFits, LastFits
  <2> QED
    BY <2>1, <2>4, <2>5, <2>6, <2>7, <2>8 DEF FlowFits
<1>s. [status EXCEPT ![f] = status[f]] = status
  BY DEF CaseTypeOK
<1>r. [result EXCEPT ![f] = result[f]] = result
  BY DEF CaseTypeOK
<1>p. {"queue", "run", "plan", "returned", "escaped", "raised", "lost"}
         \subseteq CasePlaces \ {"idle"}
  BY DEF CasePlaces
<1>2. CASE Case!WriteInput(f)
  <2>1. PICK p \in {"queue", "escaped"} : flow' = [flow EXCEPT ![f] = p]
    BY <1>2 DEF Case!WriteInput, Case!Goto
  <2>2. /\ flow[f] = "begin" /\ failures' \in {failures, failures + 1}
        /\ UNCHANGED <<route, caseRoot, status, checked, last, brokeOff,
                       result, evidence, manifest, packet>>
    BY <1>2 DEF Case!WriteInput, Case!Fail
  <2> QED
    BY <1>1, <1>s, <1>r, <1>p, <2>1, <2>2
<1>3. ASSUME NEW from \in {"queue", "run"}, NEW s \in {"queued", "running"},
             NEW p \in {"run", "plan"}, Case!RecordStart(f, from, s, p)
      PROVE  CaseInv'
  <2>1. /\ flow[f] = from /\ failures' \in {failures, failures + 1}
        /\ flow' = [flow EXCEPT ![f] = p]
        /\ UNCHANGED <<route, caseRoot, checked, last, brokeOff, result,
                       evidence, manifest, packet>>
    BY <1>3 DEF Case!RecordStart, Case!Record, Case!Goto, Case!Fail
  <2>2. PICK s1 \in {status[f], s} : status' = [status EXCEPT ![f] = s1]
    BY <1>3, <1>s DEF Case!RecordStart, Case!Record
  <2>3. /\ s1 \in {status[f], "queued", "running", "completed",
                   "needs_review", "failed"}
        /\ result' = [result EXCEPT ![f] = result[f]]
        /\ p \in CasePlaces \ {"idle"}
        /\ flow[f] \in {"begin", "queue", "run", "record", "escaped"}
        /\ p \notin {"manifest", "attach", "guide", "record"}
        /\ p # "returned" /\ p # "raised"
    BY <1>r, <1>p, <2>1
  <2> QED
    BY <1>1, <2>1, <2>2, <2>3
<1>4. CASE Case!RecordResult(f)
  <2>1. /\ flow[f] = "record" /\ flow' = [flow EXCEPT ![f] = "returned"]
        /\ UNCHANGED <<route, caseRoot, checked, last, brokeOff, evidence,
                       manifest, packet>>
    BY <1>4 DEF Case!RecordResult, Case!Goto
  <2>2. PICK t \in BOOLEAN : t = (failures' = failures)
    OBVIOUS
  <2> DEFINE b == [result[f] EXCEPT !.told = t]
  <2>3. result[f] \in Results
    BY <1>0, <2>1 DEF FlowFits, ResultFits
  <2>4. result' = [result EXCEPT ![f] = b]
    <3>1. result' = [result EXCEPT ![f].told = (failures' = failures)]
      BY <1>4 DEF Case!RecordResult
    <3> QED
      BY <2>2, <3>1 DEF CaseTypeOK
  <2>5. b \in Results /\ b.status = result[f].status /\ b.told = t
    BY <2>3 DEF Results
  <2> HIDE DEF b
  <2>6. PICK s \in {status[f], b.status} :
           /\ status' = [status EXCEPT ![f] = s]
           /\ s = b.status \/ ~t
           /\ failures' \in {failures, failures + 1}
    <3>1. CASE /\ status' = [status EXCEPT ![f] = result[f].status]
               /\ UNCHANGED failures
      BY <2>5, <3>1
    <3>2. CASE failures' = failures + 1 /\ UNCHANGED status
      BY <1>0, <1>s, <2>2, <3>2
    <3> QED
      BY <1>4, <3>1, <3>2 DEF Case!RecordResult, Case!Record, Case!Fail
  <2>7. s \in {status[f], "queued", "running", "completed", "needs_review",
               "failed"}
    BY <2>5 DEF Results
  <2> QED
    BY <1>1, <1>p, <2>1, <2>4, <2>5, <2>6, <2>7
<1>5. CASE Case!Escape(f)
  <2>1. /\ flow[f] = "escaped"
        /\ UNCHANGED <<route, caseRoot, checked, last, brokeOff, result,
                       evidence, manifest, packet>>
    BY <1>5 DEF Case!Escape
  <2>2. PICK p \in {"raised", "lost"} :
           /\ flow' = [flow EXCEPT ![f] = p]
           /\ p = "raised" => failures' = failures
    BY <1>5 DEF Case!Escape, Case!Goto
  <2>3. PICK s \in {status[f], "failed"} :
           /\ status' = [status EXCEPT ![f] = s]
           /\ failures' \in {failures, failures + 1}
           /\ failures' = failures /\ route[f] = "background" => s = "failed"
    <3>1. CASE route[f] = "background"
      BY <1>0, <1>5, <1>s, <3>1 DEF Case!Escape, Case!Record, Case!Fail
    <3>2. CASE route[f] # "background"
      BY <1>5, <1>s, <3>2 DEF Case!Escape
    <3> QED
      BY <3>1, <3>2
  <2> QED
    BY <1>1, <1>r, <1>p, <2>1, <2>2, <2>3
<1> QED
  BY <1>2, <1>3, <1>4, <1>5

(* A flow that starts takes its directory from a flow that was there, and  *)
(* finds nothing of its own.                                               *)
LEMMA StartSteps ==
    ASSUME CaseInv,
           \/ \E via \in Case!Routes : Case!Start(via)
           \/ \E to \in Case!Roots : Case!Rerun(to)
    PROVE  CaseInv'
<1> USE DEF CaseInv
<1>1. ASSUME NEW f \in Case!Flows, flow[f] = "idle",
             flow' = [flow EXCEPT ![f] = "begin"],
             UNCHANGED <<checked, last, brokeOff, result, evidence, manifest,
                         packet>>,
             CaseTypeOK',
             \A g \in Case!Flows \ {f} :
                /\ caseRoot'[g] = caseRoot[g] /\ route'[g] = route[g]
                /\ status'[g] = status[g]
      PROVE  CaseInv'
  <2>1. /\ flow'[f] = "begin"
        /\ \A g \in Case!Flows \ {f} : flow'[g] = flow[g]
    BY <1>1 DEF CaseTypeOK
  <2>2. \A g \in Case!Flows, r \in Case!Roots : Works(g, r) => Works(g, r)'
    BY <1>1, <2>1 DEF Works
  <2>3. \A r \in Case!Roots :
           /\ EvidenceOf(r) => EvidenceOf(r)'
           /\ ManifestOf(r) => ManifestOf(r)'
           /\ PacketOf(r) => PacketOf(r)'
    BY <1>1, <2>2 DEF EvidenceOf, ManifestOf, PacketOf, Evidences, Manifests
  <2>4. FlowFits(f)'
    <3>1. last[f] = Nothing
      BY <1>1 DEF FlowFits, RecordFits
    <3> QED
      BY <1>1, <2>1, <3>1
         DEF FlowFits, LastFits, CallFit, ResultFits, RecordFits
  <2>5. ASSUME NEW g \in Case!Flows \ {f} PROVE FlowFits(g)'
    <3>1. caseRoot[g] \in Case!Roots /\ FlowFits(g)
      BY DEF CaseTypeOK
    <3>2. Case!Alone(g)' => Case!Alone(g)
      BY <1>1, <2>1 DEF Case!Alone
    <3>3. LastFits(g)'
      BY <1>1, <2>1, <2>3, <3>1, <3>2 DEF FlowFits, LastFits
    <3>4. CallFit(g)' /\ ResultFits(g)' /\ RecordFits(g)'
      BY <1>1, <2>1, <2>3, <3>1, <3>2
         DEF FlowFits, CallFit, ResultFits, RecordFits
    <3> QED
      BY <3>3, <3>4 DEF FlowFits
  <2> QED
    BY <1>1, <2>4, <2>5
<1>2. ASSUME NEW via \in Case!Routes, Case!Start(via) PROVE CaseInv'
  <2>1. /\ flow["run"] = "idle" /\ flow' = [flow EXCEPT !["run"] = "begin"]
        /\ route' = [route EXCEPT !["run"] = via]
        /\ status' \in {status, [status EXCEPT !["run"] = "accepted"]}
        /\ UNCHANGED <<caseRoot, checked, last, brokeOff, result, evidence,
                       manifest, packet, failures>>
    BY <1>2 DEF Case!Start, Case!Goto
  <2>2. CaseTypeOK'
    BY <2>1 DEF CaseTypeOK, CasePlaces
  <2>3. \A g \in Case!Flows \ {"run"} :
           route'[g] = route[g] /\ status'[g] = status[g]
    BY <2>1 DEF CaseTypeOK
  <2> QED
    BY <1>1, <2>1, <2>2, <2>3 DEF Case!Flows
<1>3. ASSUME NEW to \in Case!Roots, Case!Rerun(to) PROVE CaseInv'
  <2>1. /\ flow["rerun"] = "idle"
        /\ flow' = [flow EXCEPT !["rerun"] = "begin"]
        /\ caseRoot' = [caseRoot EXCEPT !["rerun"] = to]
        /\ UNCHANGED <<route, status, checked, last, brokeOff, result,
                       evidence, manifest, packet, failures>>
    BY <1>3 DEF Case!Rerun, Case!Goto
  <2>2. CaseTypeOK'
    BY <2>1 DEF CaseTypeOK, CasePlaces
  <2>3. \A g \in Case!Flows \ {"rerun"} : caseRoot'[g] = caseRoot[g]
    BY <2>1 DEF CaseTypeOK
  <2> QED
    BY <1>1, <2>1, <2>2, <2>3 DEF Case!Flows
<1> QED
  BY <1>2, <1>3

(* What run_operator_flow returns is on record or says that it is not, and *)
(* a success is backed by its directory, for planners that call the worker *)
(* any number of times and any number of failures.                         *)
THEOREM CasesAreBacked == Case!CaseSpec => []CaseIsBacked
<1>1. CaseInv /\ [Case!CaseNext]_Case!caseVars => CaseInv'
  <2> SUFFICES ASSUME CaseInv, [Case!CaseNext]_Case!caseVars
               PROVE  CaseInv'
    OBVIOUS
  <2>1. CASE UNCHANGED Case!caseVars
    BY <2>1 DEF Case!caseVars, CaseInv, CaseTypeOK, FlowFits, LastFits,
       CallFit, ResultFits, RecordFits, EvidenceOf, ManifestOf, PacketOf,
       Works, Case!Alone
  <2>2. CASE Case!CaseNext
    BY <2>2, CallSteps, ResultSteps, RecordSteps, StartSteps
       DEF Case!CaseNext
  <2> QED
    BY <2>1, <2>2
<1>2. CaseInv => CaseIsBacked
  <2> SUFFICES ASSUME CaseInv, NEW f \in Case!Flows
               PROVE
        /\ flow[f] = "returned" =>
              status[f] = result[f].status \/ ~result[f].told
        /\ flow[f] = "raised" /\ route[f] = "background" =>
              status[f] = "failed"
        /\ /\ flow[f] = "returned" /\ result[f].status # "failed"
           /\ Case!Alone(f)
           => /\ evidence[caseRoot[f]].by = f /\ manifest[caseRoot[f]].by = f
              /\ ~brokeOff[f] =>
                    Case!WorkerStatus(evidence[caseRoot[f]].verdict)
                       = result[f].status
              /\ result[f].status = "needs_review" => packet[caseRoot[f]] = f
    BY DEF CaseIsBacked, Case!CaseIsBacked
  <2>1. FlowFits(f)
    BY DEF CaseInv
  <2>2. \A g \in Case!Flows :
           Case!Alone(f) /\ Works(g, caseRoot[f]) => g = f
    BY DEF Case!Alone, Works
  <2>3. /\ Case!Alone(f) /\ EvidenceOf(caseRoot[f]) =>
              evidence[caseRoot[f]].by = f
        /\ Case!Alone(f) /\ ManifestOf(caseRoot[f]) =>
              manifest[caseRoot[f]].by = f
        /\ Case!Alone(f) /\ PacketOf(caseRoot[f]) => packet[caseRoot[f]] = f
    BY <2>2 DEF EvidenceOf, ManifestOf, PacketOf, Evidences, Manifests
  <2> QED
    BY <2>1, <2>3 DEF FlowFits, LastFits, ResultFits, RecordFits
<1> QED
  BY <1>1, <1>2, CaseInit, PTL DEF Case!CaseSpec
-----------------------------------------------------------------------------
(* The confirmed actions of the agent *)

Dialogued == {Confirm!Payload(q) : q \in agenda}

Grants == [credential : {"given"}, key : Confirm!Calls,
           fingerprint : {Confirm!Fingerprint(q) : q \in agenda}]

Operations == [key : Confirm!Calls, request : agenda]

Handled == {"told", "lost", "refused"}

Dialogs ==
    [stage : {"asked", "answered", "mismatch", "rejected", "posted",
              "givenUp"} \cup Handled,
     request : agenda, shown : Dialogued, returned : Dialogued \cup {Nothing},
     approves : BOOLEAN, grant : Grants \cup {Nothing},
     operation : Operations \cup {Nothing}]

SlotsOK ==
    /\ DOMAIN slots = {Confirm!Slot(q) : q \in agenda}
    /\ slots = [s \in DOMAIN slots |-> slots[s]]

ConfirmTypeOK ==
    /\ agenda \in Agendas /\ SlotsOK
    /\ dialogs \in [Confirm!Calls -> Dialogs \cup {Confirm!Unused}]
    /\ accepted \subseteq Operations /\ IsFiniteSet(accepted)
    /\ withdrawn \subseteq Confirm!Calls

(* Key k was drawn for request q. *)
DrawnFor(k, q) ==
    k \in Confirm!Calls /\ dialogs[k] \in Dialogs /\ dialogs[k].request = q

(* ... and is either withdrawn or what the slot of q still holds. *)
KeyOf(k, q) ==
    /\ DrawnFor(k, q)
    /\ \/ k \in withdrawn
       \/ slots[Confirm!Slot(q)] # Nothing /\ slots[Confirm!Slot(q)].key = k

(* The confirmation x, pending in slot s, is of the request its key was    *)
(* drawn for.                                                              *)
PendingFits(x, s) ==
    \E q \in agenda :
       /\ Confirm!Slot(q) = s /\ DrawnFor(x.key, q)
       /\ x.fingerprint = Confirm!Fingerprint(q)
       /\ x.payload = Confirm!Payload(q)

SlotsFit ==
    \A s \in DOMAIN slots : slots[s] # Nothing => PendingFits(slots[s], s)

(* A post is of a request that was approved as it was shown, under a key   *)
(* of that request.                                                        *)
PostFits(d) ==
    d.stage \in {"posted", "givenUp"} =>
        /\ d.grant \in Grants /\ KeyOf(d.grant.key, d.request)
        /\ d.approves /\ d.returned = Confirm!Payload(d.request)

OperationsFit == \A o \in accepted : KeyOf(o.key, o.request)

(* The operations of what is shown as p, and the handled calls that        *)
(* approve p.                                                              *)
Carried(p) == {o \in accepted : Confirm!Payload(o.request) = p}

Spent(p) ==
    {c \in Confirm!Calls : /\ dialogs[c].stage \in Handled
                           /\ dialogs[c].approves /\ dialogs[c].returned = p}

CountFits(p) == Cardinality(Carried(p)) <= Cardinality(Spent(p))

ToldFits(d) ==
    d \in Dialogs /\ d.operation # Nothing =>
        Confirm!Payload(d.operation.request) = Confirm!Payload(d.request)

ConfirmInv ==
    /\ ConfirmTypeOK /\ SlotsFit /\ OperationsFit
    /\ \A c \in Confirm!Calls : PostFits(dialogs[c]) /\ ToldFits(dialogs[c])
    /\ \A p \in Dialogued : CountFits(p)

LEMMA RequestShape ==
    ASSUME agenda \in Agendas, NEW q \in agenda
    PROVE  q = [action |-> q.action, object |-> q.object, detail |-> q.detail,
                invocation |-> q.invocation]
BY DeveloperToolsAssumption

(* What is shown is known from the fingerprint ... *)
LEMMA ShownOfFingerprint ==
    ASSUME agenda \in Agendas, NEW q \in agenda, NEW r \in agenda,
           Confirm!Fingerprint(q) = Confirm!Fingerprint(r)
    PROVE  Confirm!Payload(q) = Confirm!Payload(r)
<1> DEFINE Bare(x) == [action |-> x.action, object |-> x.object,
                       detail |-> x.detail, invocation |-> Nothing]
<1>1. \A x \in agenda : [x EXCEPT !.invocation = Nothing] = Bare(x)
  BY RequestShape
<1>2. \A x \in agenda :
         Confirm!Fingerprint(x) = IF x.action = "run_bounded_benchmark"
                                  THEN Bare(x) ELSE x
  BY <1>1 DEF Confirm!Fingerprint
<1>3. \A x \in agenda : Confirm!Fingerprint(x).action = x.action
  BY <1>2
<1>4. q.action = r.action
  BY <1>3
<1>5. CASE q.action = "run_bounded_benchmark"
  BY <1>1, <1>2, <1>4, <1>5 DEF Confirm!Payload
<1>6. CASE q.action # "run_bounded_benchmark"
  BY <1>2, <1>4, <1>6
<1> QED
  BY <1>5, <1>6

(* ... and the request from slot and what is shown. *)
LEMMA RequestOfSlot ==
    ASSUME agenda \in Agendas, NEW q \in agenda, NEW r \in agenda,
           q.action \in Confirm!Runs \cup Confirm!Debug,
           Confirm!Slot(q) = Confirm!Slot(r),
           Confirm!Payload(q) = Confirm!Payload(r)
    PROVE  q = r
<1> DEFINE Bare(x) == [action |-> x.action, object |-> x.object,
                       detail |-> x.detail, invocation |-> Nothing]
<1>1. \A x \in agenda :
         Confirm!Payload(x) = IF x.action = "start_workflow_run"
                              THEN x ELSE Bare(x)
  BY RequestShape DEF Confirm!Payload
<1>2. \A x \in agenda : /\ Confirm!Payload(x).action = x.action
                        /\ Confirm!Payload(x).object = x.object
                        /\ Confirm!Payload(x).detail = x.detail
  BY <1>1
<1>3. /\ q.action = r.action /\ q.object = r.object /\ q.detail = r.detail
  BY <1>2
<1>4. CASE q.action = "start_workflow_run"
  BY <1>1, <1>3, <1>4
<1>5. CASE q.action # "start_workflow_run"
  <2>1. q.action \in Confirm!Debug
    BY <1>5 DEF Confirm!Runs, Confirm!Debug
  <2>2. <<q.action, q.object, q.invocation>>
           = <<r.action, r.object, r.invocation>>
    BY <1>3, <2>1 DEF Confirm!Slot
  <2>3. q.invocation = r.invocation
    BY <2>2
  <2> QED
    BY <1>3, <2>3, RequestShape
<1> QED
  BY <1>4, <1>5

LEMMA ConfirmInit == Confirm!ConfirmInit => ConfirmInv
<1> SUFFICES ASSUME Confirm!ConfirmInit PROVE ConfirmInv
  OBVIOUS
<1> USE DEF Confirm!ConfirmInit
<1>1. ConfirmTypeOK
  BY FS_EmptySet DEF ConfirmTypeOK, SlotsOK
<1>2. \A c \in Confirm!Calls : dialogs[c].stage = "unused"
  BY DEF Confirm!Unused
<1>3. SlotsFit /\ OperationsFit
  BY DEF SlotsFit, OperationsFit
<1>4. \A c \in Confirm!Calls : dialogs[c] \notin Dialogs
  BY <1>2 DEF Dialogs, Handled
<1>5. \A c \in Confirm!Calls : PostFits(dialogs[c]) /\ ToldFits(dialogs[c])
  BY <1>2, <1>4 DEF PostFits, ToldFits
<1>6. ASSUME NEW p PROVE CountFits(p)
  <2>1. Carried(p) = {} /\ Spent(p) = {}
    BY <1>2 DEF Carried, Spent, Handled
  <2>2. Cardinality({}) = 0
    BY FS_EmptySet
  <2> QED
    BY <2>1, <2>2 DEF CountFits
<1> QED
  BY <1>1, <1>3, <1>5, <1>6 DEF ConfirmInv

LEMMA OneMore ==
    ASSUME NEW S, IsFiniteSet(S), NEW x, NEW T \in {S, S \cup {x}}
    PROVE  Cardinality(T) \in Nat /\ Cardinality(T) <= Cardinality(S) + 1
<1>1. /\ IsFiniteSet(S \cup {x})
      /\ Cardinality(S \cup {x}) \in {Cardinality(S), Cardinality(S) + 1}
  BY FS_AddElement
<1>2. Cardinality(S) \in Nat
  BY FS_CardinalityType
<1> QED
  BY <1>1, <1>2

LEMMA SpentFinite == ConfirmInv => \A p : IsFiniteSet(Spent(p))
<1>1. IsFiniteSet(Confirm!Calls)
  <2>1. 1 \in Int /\ MaxDialogs \in Int
    BY DeveloperToolsAssumption
  <2> QED
    BY <2>1, FS_Interval DEF Confirm!Calls
<1> QED
  BY <1>1, FS_Subset DEF Spent

(* A call that is there goes on, is not handled yet, and keeps what a post *)
(* of it says; nothing else changes.                                       *)
LEMMA CallGoesOn ==
    ASSUME ConfirmInv, NEW c \in Confirm!Calls, NEW d \in Dialogs,
           dialogs[c] \in Dialogs, dialogs' = [dialogs EXCEPT ![c] = d],
           dialogs[c].stage \notin Handled, d.stage \notin Handled,
           d.request = dialogs[c].request,
           d.operation = dialogs[c].operation,
           d.stage \in {"posted", "givenUp"} =>
              /\ dialogs[c].stage \in {"posted", "givenUp"}
              /\ d.grant = dialogs[c].grant /\ d.approves = dialogs[c].approves
              /\ d.returned = dialogs[c].returned,
           UNCHANGED <<agenda, slots, accepted, withdrawn>>
    PROVE  ConfirmInv'
<1> USE DEF ConfirmInv
<1>1. /\ dialogs'[c] = d
      /\ \A e \in Confirm!Calls \ {c} : dialogs'[e] = dialogs[e]
  BY DEF ConfirmTypeOK
<1>2. Dialogs' = Dialogs /\ Grants' = Grants /\ Dialogued' = Dialogued
  BY DEF Dialogs, Grants, Dialogued, Operations
<1>3. ConfirmTypeOK'
  BY <1>2 DEF ConfirmTypeOK, SlotsOK, Operations
<1>4. \A k, q : DrawnFor(k, q) => DrawnFor(k, q)'
  BY <1>1, <1>2 DEF DrawnFor
<1>5. \A k, q : KeyOf(k, q) => KeyOf(k, q)'
  BY <1>4 DEF KeyOf
<1>p. \A x, s : PendingFits(x, s) => PendingFits(x, s)'
  BY <1>4 DEF PendingFits
<1>6. SlotsFit' /\ OperationsFit'
  BY <1>5, <1>p DEF SlotsFit, OperationsFit
<1>7. ASSUME NEW e \in Confirm!Calls
      PROVE  PostFits(dialogs[e])' /\ ToldFits(dialogs[e])'
  <2>1. PostFits(dialogs[e]) /\ ToldFits(dialogs[e])
    OBVIOUS
  <2>2. CASE e # c
    BY <1>1, <1>2, <1>5, <2>1, <2>2 DEF PostFits, ToldFits
  <2>3. CASE e = c
    BY <1>1, <1>2, <1>5, <2>1, <2>3 DEF PostFits, ToldFits
  <2> QED
    BY <2>2, <2>3
<1>8. ASSUME NEW p \in Dialogued PROVE CountFits(p)'
  <2>1. Spent(p)' = Spent(p)
    BY <1>1 DEF Spent
  <2>2. Carried(p)' = Carried(p)
    BY DEF Carried
  <2> QED
    BY <2>1, <2>2 DEF CountFits
<1> QED
  BY <1>2, <1>3, <1>6, <1>7, <1>8

LEMMA AskStep ==
    ASSUME ConfirmInv, NEW q \in agenda, Confirm!Ask(q)
    PROVE  ConfirmInv'
<1> USE DEF ConfirmInv
<1> DEFINE old == slots[Confirm!Slot(q)]
<1> DEFINE Asks(c, new) ==
         /\ dialogs[c].stage = "unused"
         /\ new = IF Confirm!Again(q) THEN old
                  ELSE [fingerprint |-> Confirm!Fingerprint(q), key |-> c,
                        payload |-> Confirm!Payload(q)]
         /\ slots' = [slots EXCEPT ![Confirm!Slot(q)] = new]
         /\ withdrawn' = withdrawn \cup
               {k \in Confirm!Calls :
                   /\ old # Nothing /\ k = old.key
                   /\ old.fingerprint # Confirm!Fingerprint(q)}
         /\ dialogs' = [dialogs EXCEPT ![c] =
               [stage |-> "asked", request |-> q, shown |-> new.payload,
                returned |-> Nothing, approves |-> FALSE, grant |-> Nothing,
                operation |-> Nothing]]
         /\ UNCHANGED <<agenda, accepted>>
<1>0. PICK c \in Confirm!Calls : \E new : Asks(c, new)
  BY DEF Confirm!Ask, Confirm!At
<1>1. PICK new : Asks(c, new)
  BY <1>0
<1> DEFINE d == [stage |-> "asked", request |-> q, shown |-> new.payload,
                 returned |-> Nothing, approves |-> FALSE, grant |-> Nothing,
                 operation |-> Nothing]
<1>2. Confirm!Slot(q) \in DOMAIN slots
  BY DEF ConfirmTypeOK, SlotsOK
<1>3. Confirm!Again(q) =>
         old # Nothing /\ old.fingerprint = Confirm!Fingerprint(q)
  BY DEF Confirm!Again
<1>4. new.payload \in Dialogued
  <2>1. CASE Confirm!Again(q)
    <3>1. old # Nothing
      BY <1>3, <2>1
    <3>2. PICK r \in agenda : old.payload = Confirm!Payload(r)
      BY <1>2, <3>1 DEF SlotsFit, PendingFits
    <3> QED
      BY <1>1, <2>1, <3>2 DEF Dialogued
  <2>2. CASE ~Confirm!Again(q)
    BY <1>1, <2>2 DEF Dialogued
  <2> QED
    BY <2>1, <2>2
<1>5. d \in Dialogs /\ dialogs' = [dialogs EXCEPT ![c] = d]
  BY <1>1, <1>4 DEF Dialogs
<1>6. /\ d.stage = "asked" /\ d.request = q /\ d.operation = Nothing
  OBVIOUS
<1> HIDE DEF d
<1>7. /\ dialogs'[c] = d
      /\ \A e \in Confirm!Calls \ {c} : dialogs'[e] = dialogs[e]
  BY <1>5 DEF ConfirmTypeOK
<1>8. Dialogs' = Dialogs /\ Grants' = Grants /\ Dialogued' = Dialogued
  BY <1>1 DEF Dialogs, Grants, Dialogued, Operations
<1>9. dialogs[c] \notin Dialogs
  BY <1>1 DEF Dialogs, Handled
<1>10. \A k, r : DrawnFor(k, r) => DrawnFor(k, r)'
  BY <1>7, <1>8, <1>9 DEF DrawnFor
<1>11. DrawnFor(c, q)'
  BY <1>5, <1>6, <1>7, <1>8 DEF DrawnFor
<1>12. /\ slots'[Confirm!Slot(q)] = new
       /\ \A s \in DOMAIN slots \ {Confirm!Slot(q)} : slots'[s] = slots[s]
       /\ DOMAIN slots' = DOMAIN slots
  BY <1>1, <1>2 DEF ConfirmTypeOK, SlotsOK
<1>13. SlotsOK'
  BY <1>1, <1>2 DEF ConfirmTypeOK, SlotsOK
<1>14. ConfirmTypeOK'
  BY <1>1, <1>5, <1>8, <1>13 DEF ConfirmTypeOK, Operations
<1>15. \A k, r : r \in agenda /\ KeyOf(k, r) => KeyOf(k, r)'
  <2> SUFFICES ASSUME NEW k, NEW r \in agenda, KeyOf(k, r)
               PROVE  KeyOf(k, r)'
    OBVIOUS
  <2>1. DrawnFor(k, r)' /\ k \in Confirm!Calls
    BY <1>10 DEF KeyOf, DrawnFor
  <2>2. CASE k \in withdrawn
    BY <1>1, <2>1, <2>2 DEF KeyOf
  <2>3. CASE /\ slots[Confirm!Slot(r)] # Nothing
             /\ slots[Confirm!Slot(r)].key = k
    <3>1. Confirm!Slot(r) \in DOMAIN slots
      BY DEF ConfirmTypeOK, SlotsOK
    <3>2. CASE Confirm!Slot(r) # Confirm!Slot(q)
      BY <1>12, <2>1, <2>3, <3>1, <3>2 DEF KeyOf
    <3>3. CASE Confirm!Slot(r) = Confirm!Slot(q) /\ Confirm!Again(q)
      BY <1>1, <1>12, <2>1, <2>3, <3>3 DEF KeyOf
    <3>4. CASE Confirm!Slot(r) = Confirm!Slot(q) /\ ~Confirm!Again(q)
      <4>1. old.fingerprint # Confirm!Fingerprint(q)
        BY <2>3, <3>4 DEF Confirm!Again
      <4> QED
        BY <1>1, <2>1, <2>3, <3>4, <4>1 DEF KeyOf
    <3> QED
      BY <3>2, <3>3, <3>4
  <2> QED
    BY <2>2, <2>3 DEF KeyOf
<1>16. SlotsFit'
  <2>1. \A x, s : PendingFits(x, s) => PendingFits(x, s)'
    BY <1>1, <1>10 DEF PendingFits
  <2>2. new # Nothing => PendingFits(new, Confirm!Slot(q))'
    <3>1. CASE Confirm!Again(q)
      BY <1>1, <1>2, <2>1, <3>1 DEF SlotsFit
    <3>2. CASE ~Confirm!Again(q)
      BY <1>1, <1>11, <3>2 DEF PendingFits
    <3> QED
      BY <3>1, <3>2
  <2> QED
    BY <1>12, <2>1, <2>2 DEF SlotsFit
<1>17. OperationsFit'
  BY <1>1, <1>15 DEF OperationsFit, ConfirmTypeOK, Operations
<1>18. ASSUME NEW e \in Confirm!Calls
       PROVE  PostFits(dialogs[e])' /\ ToldFits(dialogs[e])'
  <2>1. CASE e = c
    BY <1>6, <1>7, <2>1 DEF PostFits, ToldFits
  <2>2. CASE e # c
    <3>1. /\ dialogs'[e] = dialogs[e]
          /\ PostFits(dialogs[e]) /\ ToldFits(dialogs[e])
      BY <1>7, <2>2
    <3>2. dialogs[e].stage \in {"posted", "givenUp"} =>
             dialogs[e].request \in agenda
      BY DEF ConfirmTypeOK, Dialogs, Confirm!Unused
    <3> QED
      BY <1>8, <1>15, <3>1, <3>2 DEF PostFits, ToldFits
  <2> QED
    BY <2>1, <2>2
<1>19. ASSUME NEW p \in Dialogued PROVE CountFits(p)'
  <2>1. Spent(p)' = Spent(p)
    BY <1>1, <1>6, <1>7 DEF Spent, Handled
  <2>2. Carried(p)' = Carried(p)
    BY <1>1 DEF Carried
  <2> QED
    BY <2>1, <2>2 DEF CountFits
<1> QED
  BY <1>8, <1>14, <1>16, <1>17, <1>18, <1>19

LEMMA ConfirmedStep ==
    ASSUME ConfirmInv, NEW q \in agenda,
           q.action \in Confirm!Runs \cup Confirm!Debug, Confirm!Confirmed(q)
    PROVE  ConfirmInv'
<1> USE DEF ConfirmInv
<1> DEFINE pending == slots[Confirm!Slot(q)]
<1>1. PICK c \in Confirm!Calls :
         /\ dialogs[c].stage = "answered" /\ dialogs[c].request = q
         /\ UNCHANGED <<agenda, accepted>>
         /\ \/ /\ dialogs' = [dialogs EXCEPT ![c].stage = "mismatch"]
               /\ UNCHANGED <<slots, withdrawn>>
            \/ /\ Confirm!Matches(c, pending)
               /\ slots' = [slots EXCEPT ![Confirm!Slot(q)] = Nothing]
               /\ withdrawn' = withdrawn \cup {pending.key}
               /\ dialogs' = [dialogs EXCEPT ![c].stage = "rejected"]
            \/ /\ Confirm!Matches(c, pending) /\ dialogs[c].approves
               /\ Confirm!Post(c, pending.key)
               /\ UNCHANGED <<slots, withdrawn>>
  BY DEF Confirm!Confirmed, Confirm!At, Confirm!Goes
<1>2. dialogs[c] \in Dialogs
  BY <1>1 DEF ConfirmTypeOK, Confirm!Unused
<1>3. \A s \in {"mismatch", "rejected"} :
         /\ [dialogs[c] EXCEPT !.stage = s] \in Dialogs
         /\ [dialogs[c] EXCEPT !.stage = s].stage = s
         /\ [dialogs[c] EXCEPT !.stage = s].request = dialogs[c].request
         /\ [dialogs[c] EXCEPT !.stage = s].operation = dialogs[c].operation
  BY <1>2 DEF Dialogs
<1>4. CASE /\ dialogs' = [dialogs EXCEPT ![c].stage = "mismatch"]
           /\ UNCHANGED <<slots, withdrawn>>
  BY <1>1, <1>2, <1>3, <1>4, CallGoesOn DEF Handled
<1>5. Confirm!Slot(q) \in DOMAIN slots
  BY DEF ConfirmTypeOK, SlotsOK
<1>6. ASSUME Confirm!Matches(c, pending)
      PROVE  /\ pending # Nothing /\ DrawnFor(pending.key, q)
             /\ dialogs[c].returned = Confirm!Payload(q)
  <2>1. pending # Nothing /\ dialogs[c].returned = Confirm!Payload(q)
    BY <1>1, <1>6 DEF Confirm!Matches
  <2>2. PendingFits(pending, Confirm!Slot(q))
    BY <1>5, <2>1 DEF SlotsFit
  <2>3. PICK r \in agenda :
           /\ Confirm!Slot(r) = Confirm!Slot(q) /\ DrawnFor(pending.key, r)
           /\ pending.payload = Confirm!Payload(r)
    BY <2>2 DEF PendingFits
  <2>4. Confirm!Payload(q) = Confirm!Payload(r)
    BY <1>1, <1>6, <2>3 DEF Confirm!Matches
  <2>5. q = r
    BY <2>3, <2>4, RequestOfSlot DEF ConfirmTypeOK
  <2> QED
    BY <2>1, <2>3, <2>5
(* A rejection: the key is withdrawn with the slot, before the call goes on. *)
<1>7. CASE /\ Confirm!Matches(c, pending)
           /\ slots' = [slots EXCEPT ![Confirm!Slot(q)] = Nothing]
           /\ withdrawn' = withdrawn \cup {pending.key}
           /\ dialogs' = [dialogs EXCEPT ![c].stage = "rejected"]
  <2> DEFINE d == [dialogs[c] EXCEPT !.stage = "rejected"]
  <2>1. /\ dialogs' = [dialogs EXCEPT ![c] = d]
        /\ d \in Dialogs /\ d.stage = "rejected" /\ d.request = q
        /\ d.operation = dialogs[c].operation
    BY <1>1, <1>3, <1>7
  <2> HIDE DEF d
  <2>2. /\ dialogs'[c] = d
        /\ \A e \in Confirm!Calls \ {c} : dialogs'[e] = dialogs[e]
    BY <2>1 DEF ConfirmTypeOK
  <2>3. Dialogs' = Dialogs /\ Grants' = Grants /\ Dialogued' = Dialogued
    BY <1>1 DEF Dialogs, Grants, Dialogued, Operations
  <2>4. \A k, r : DrawnFor(k, r) => DrawnFor(k, r)'
    BY <1>1, <2>1, <2>2, <2>3 DEF DrawnFor
  <2>5. /\ DOMAIN slots' = DOMAIN slots /\ slots'[Confirm!Slot(q)] = Nothing
        /\ \A s \in DOMAIN slots \ {Confirm!Slot(q)} : slots'[s] = slots[s]
    BY <1>5, <1>7 DEF ConfirmTypeOK, SlotsOK
  <2>6. SlotsOK'
    BY <1>1, <1>5, <1>7 DEF ConfirmTypeOK, SlotsOK
  <2>7. pending.key \in Confirm!Calls
    BY <1>6, <1>7 DEF DrawnFor
  <2>8. ConfirmTypeOK'
    BY <1>1, <1>7, <2>1, <2>3, <2>6, <2>7 DEF ConfirmTypeOK, Operations
  <2>9. \A k, r : r \in agenda /\ KeyOf(k, r) => KeyOf(k, r)'
    <3> SUFFICES ASSUME NEW k, NEW r \in agenda, KeyOf(k, r)
                 PROVE  KeyOf(k, r)'
      OBVIOUS
    <3>1. DrawnFor(k, r)' /\ Confirm!Slot(r) \in DOMAIN slots
      BY <2>4 DEF KeyOf, ConfirmTypeOK, SlotsOK
    <3>2. CASE Confirm!Slot(r) = Confirm!Slot(q)
      BY <1>7, <3>1, <3>2 DEF KeyOf
    <3>3. CASE Confirm!Slot(r) # Confirm!Slot(q)
      BY <1>7, <2>5, <3>1, <3>3 DEF KeyOf
    <3> QED
      BY <3>2, <3>3
  <2>10. SlotsFit'
    <3>1. \A x, s : PendingFits(x, s) => PendingFits(x, s)'
      BY <1>1, <2>4 DEF PendingFits
    <3> QED
      BY <2>5, <3>1 DEF SlotsFit
  <2>11. OperationsFit'
    BY <1>1, <2>9 DEF OperationsFit, ConfirmTypeOK, Operations
  <2>12. ASSUME NEW e \in Confirm!Calls
         PROVE  PostFits(dialogs[e])' /\ ToldFits(dialogs[e])'
    <3>1. PostFits(dialogs[e]) /\ ToldFits(dialogs[e])
      OBVIOUS
    <3>2. CASE e = c
      BY <1>1, <1>2, <2>1, <2>2, <2>3, <3>1, <3>2 DEF PostFits, ToldFits
    <3>3. CASE e # c
      <4>1. dialogs[e].stage \in {"posted", "givenUp"} =>
               dialogs[e].request \in agenda
        BY DEF ConfirmTypeOK, Dialogs, Confirm!Unused
      <4> QED
        BY <2>2, <2>3, <2>9, <3>1, <3>3, <4>1 DEF PostFits, ToldFits
    <3> QED
      BY <3>2, <3>3
  <2>13. ASSUME NEW p \in Dialogued PROVE CountFits(p)'
    <3>1. Spent(p)' = Spent(p)
      BY <1>1, <2>1, <2>2 DEF Spent, Handled
    <3>2. Carried(p)' = Carried(p)
      BY <1>1 DEF Carried
    <3> QED
      BY <3>1, <3>2 DEF CountFits
  <2> QED
    BY <2>3, <2>8, <2>10, <2>11, <2>12, <2>13
<1>8. CASE /\ Confirm!Matches(c, pending) /\ dialogs[c].approves
           /\ Confirm!Post(c, pending.key)
           /\ UNCHANGED <<slots, withdrawn>>
  <2> DEFINE g == Confirm!Grant("given", pending.key, q)
             d == [dialogs[c] EXCEPT !.stage = "posted", !.grant = g]
  <2>1. g \in Grants /\ g.key = pending.key
    <3>1. pending.key \in Confirm!Calls
      BY <1>6, <1>8 DEF DrawnFor
    <3> QED
      BY <3>1 DEF Grants, Confirm!Grant
  <2>2. dialogs' = [dialogs EXCEPT ![c] = d]
    BY <1>1, <1>2, <1>8 DEF Confirm!Post, Dialogs, ConfirmTypeOK
  <2> HIDE DEF g
  <2>3. /\ d \in Dialogs /\ d.stage = "posted" /\ d.request = q
        /\ d.grant = g /\ d.operation = dialogs[c].operation /\ d.approves
        /\ d.returned = Confirm!Payload(q)
    BY <1>1, <1>2, <1>6, <1>8, <2>1 DEF Dialogs
  <2> HIDE DEF d
  <2>4. /\ dialogs'[c] = d
        /\ \A e \in Confirm!Calls \ {c} : dialogs'[e] = dialogs[e]
    BY <2>2 DEF ConfirmTypeOK
  <2>5. Dialogs' = Dialogs /\ Grants' = Grants /\ Dialogued' = Dialogued
    BY <1>1 DEF Dialogs, Grants, Dialogued, Operations
  <2>6. \A k, r : DrawnFor(k, r) => DrawnFor(k, r)'
    BY <1>1, <2>3, <2>4, <2>5 DEF DrawnFor
  <2>7. \A k, r : KeyOf(k, r) => KeyOf(k, r)'
    BY <1>8, <2>6 DEF KeyOf
  <2>8. ConfirmTypeOK'
    BY <1>1, <1>8, <2>2, <2>3, <2>5 DEF ConfirmTypeOK, SlotsOK, Operations
  <2>9. SlotsFit' /\ OperationsFit'
    <3>1. \A x, s : PendingFits(x, s) => PendingFits(x, s)'
      BY <1>1, <2>6 DEF PendingFits
    <3> QED
      BY <1>1, <1>8, <2>7, <3>1 DEF SlotsFit, OperationsFit
  <2>10. KeyOf(g.key, q)
    BY <1>6, <1>8, <2>1 DEF KeyOf
  <2>11. ASSUME NEW e \in Confirm!Calls
         PROVE  PostFits(dialogs[e])' /\ ToldFits(dialogs[e])'
    <3>1. PostFits(dialogs[e]) /\ ToldFits(dialogs[e])
      OBVIOUS
    <3>2. CASE e = c
      <4>1. PostFits(dialogs[e])'
        BY <2>1, <2>3, <2>4, <2>5, <2>7, <2>10, <3>2 DEF PostFits
      <4>2. ToldFits(dialogs[e])'
        BY <1>1, <1>2, <2>3, <2>4, <2>5, <3>1, <3>2 DEF ToldFits
      <4> QED
        BY <4>1, <4>2
    <3>3. CASE e # c
      BY <2>4, <2>5, <2>7, <3>1, <3>3 DEF PostFits, ToldFits
    <3> QED
      BY <3>2, <3>3
  <2>12. ASSUME NEW p \in Dialogued PROVE CountFits(p)'
    <3>1. Spent(p)' = Spent(p)
      BY <1>1, <2>3, <2>4 DEF Spent, Handled
    <3>2. Carried(p)' = Carried(p)
      BY <1>1 DEF Carried
    <3> QED
      BY <3>1, <3>2 DEF CountFits
  <2> QED
    BY <2>5, <2>8, <2>9, <2>11, <2>12
<1> QED
  BY <1>1, <1>4, <1>7, <1>8

(* The control plane handles a post: at most one operation more, and one   *)
(* more handled call that approves what it is of.                          *)
LEMMA HandleStep ==
    ASSUME ConfirmInv, NEW c \in Confirm!Calls, NEW actions,
           Confirm!Handle(c, actions)
    PROVE  ConfirmInv'
<1> USE DEF ConfirmInv
<1> DEFINE q == dialogs[c].request
           key == dialogs[c].grant.key
           o == [key |-> key, request |-> q]
<1>1. /\ dialogs[c].stage \in {"posted", "givenUp"}
      /\ accepted' \in {accepted, accepted \cup {o}}
      /\ UNCHANGED <<agenda, slots, withdrawn>>
  BY DEF Confirm!Handle, Confirm!Recorded
<1>2. dialogs[c] \in Dialogs /\ q \in agenda
  BY <1>1 DEF ConfirmTypeOK, Confirm!Unused, Dialogs
<1>3. /\ KeyOf(key, q) /\ dialogs[c].approves
      /\ dialogs[c].returned = Confirm!Payload(q)
  BY <1>1 DEF PostFits
<1>4. o \in Operations
  BY <1>2, <1>3 DEF Operations, KeyOf, DrawnFor
<1>5. PICK d \in Dialogs :
         /\ dialogs' = [dialogs EXCEPT ![c] = d]
         /\ d.stage \in Handled /\ d.request = q /\ d.approves
         /\ d.returned = Confirm!Payload(q)
         /\ ToldFits(d)
  <2>1. ASSUME NEW s \in Handled
        PROVE  /\ [dialogs[c] EXCEPT !.stage = s] \in Dialogs
               /\ [dialogs[c] EXCEPT !.stage = s].stage = s
               /\ [dialogs[c] EXCEPT !.stage = s].request = q
               /\ [dialogs[c] EXCEPT !.stage = s].approves
               /\ [dialogs[c] EXCEPT !.stage = s].returned
                     = Confirm!Payload(q)
               /\ [dialogs[c] EXCEPT !.stage = s].operation
                     = dialogs[c].operation
    BY <1>2, <1>3 DEF Dialogs
  <2>2. ASSUME NEW s \in Handled
        PROVE  ToldFits([dialogs[c] EXCEPT !.stage = s])
    <3>1. ToldFits(dialogs[c])
      OBVIOUS
    <3> QED
      BY <1>2, <2>1, <3>1 DEF ToldFits
  <2>3. CASE \E s \in Handled : dialogs' = [dialogs EXCEPT ![c].stage = s]
    <3>1. PICK s \in Handled : dialogs' = [dialogs EXCEPT ![c].stage = s]
      BY <2>3
    <3> DEFINE e == [dialogs[c] EXCEPT !.stage = s]
    <3>2. dialogs' = [dialogs EXCEPT ![c] = e]
      BY <3>1
    <3>3. /\ e \in Dialogs /\ e.stage \in Handled /\ e.request = q
          /\ e.approves /\ e.returned = Confirm!Payload(q)
          /\ ToldFits(e)
      BY <2>1, <2>2
    <3> HIDE DEF e
    <3> QED
      BY <3>2, <3>3
  <2>4. CASE \E x \in Confirm!Told(key, q, accepted') :
                dialogs' = [dialogs EXCEPT ![c].stage = "told",
                                           ![c].operation = x]
    <3>1. PICK x \in Confirm!Told(key, q, accepted') :
             dialogs' = [dialogs EXCEPT ![c].stage = "told",
                                        ![c].operation = x]
      BY <2>4
    <3>2. x \in Operations /\ x.request \in agenda
      BY <1>1, <1>4, <3>1 DEF ConfirmTypeOK, Confirm!Told, Operations
    <3>3. Confirm!Payload(x.request) = Confirm!Payload(q)
      <4>1. Confirm!Fingerprint(x.request) = Confirm!Fingerprint(q)
        BY <3>1 DEF Confirm!Told
      <4> QED
        BY <1>2, <3>2, <4>1, ShownOfFingerprint DEF ConfirmTypeOK
    <3> DEFINE e == [dialogs[c] EXCEPT !.stage = "told", !.operation = x]
    <3>4. dialogs' = [dialogs EXCEPT ![c] = e]
      BY <1>2, <3>1 DEF ConfirmTypeOK, Dialogs
    <3>5. /\ e \in Dialogs /\ e.stage \in Handled /\ e.request = q
          /\ e.approves /\ e.returned = Confirm!Payload(q)
          /\ e.operation = x
      BY <1>2, <1>3, <3>2 DEF Dialogs, Handled
    <3> HIDE DEF e
    <3>6. ToldFits(e)
      BY <3>3, <3>5 DEF ToldFits
    <3> QED
      BY <3>4, <3>5, <3>6
  <2> QED
    BY <2>3, <2>4 DEF Confirm!Handle, Confirm!Goes, Handled
<1>6. /\ dialogs'[c] = d
      /\ \A e \in Confirm!Calls \ {c} : dialogs'[e] = dialogs[e]
  BY <1>5 DEF ConfirmTypeOK
<1>7. Dialogs' = Dialogs /\ Grants' = Grants /\ Dialogued' = Dialogued
  BY <1>1 DEF Dialogs, Grants, Dialogued, Operations
<1>8. ConfirmTypeOK'
  <2>1. IsFiniteSet(accepted')
    <3>1. IsFiniteSet(accepted) /\ IsFiniteSet(accepted \cup {o})
      BY FS_AddElement DEF ConfirmTypeOK
    <3> HIDE DEF o
    <3> QED
      BY <1>1, <3>1
  <2>2. accepted' \subseteq Operations'
    BY <1>1, <1>4 DEF ConfirmTypeOK, Operations
  <2> QED
    BY <1>1, <1>5, <1>7, <2>1, <2>2 DEF ConfirmTypeOK, SlotsOK
<1>9. \A k, r : DrawnFor(k, r) => DrawnFor(k, r)'
  BY <1>5, <1>6, <1>7 DEF DrawnFor
<1>10. \A k, r : KeyOf(k, r) => KeyOf(k, r)'
  BY <1>1, <1>9 DEF KeyOf
<1>11. SlotsFit'
  <2>1. \A x, s : PendingFits(x, s) => PendingFits(x, s)'
    BY <1>1, <1>9 DEF PendingFits
  <2> QED
    BY <1>1, <2>1 DEF SlotsFit
<1>12. OperationsFit'
  <2>1. \A x \in accepted' : KeyOf(x.key, x.request)
    BY <1>1, <1>3 DEF OperationsFit
  <2> QED
    BY <1>10, <2>1 DEF OperationsFit
<1>13. ASSUME NEW e \in Confirm!Calls
       PROVE  PostFits(dialogs[e])' /\ ToldFits(dialogs[e])'
  <2>1. PostFits(dialogs[e]) /\ ToldFits(dialogs[e])
    OBVIOUS
  <2>2. CASE e = c
    BY <1>1, <1>5, <1>6, <1>7, <2>2 DEF PostFits, ToldFits, Handled
  <2>3. CASE e # c
    BY <1>6, <1>7, <1>10, <2>1, <2>3 DEF PostFits, ToldFits
  <2> QED
    BY <2>2, <2>3
<1>14. ASSUME NEW p \in Dialogued PROVE CountFits(p)'
  <2>0. /\ CountFits(p) /\ IsFiniteSet(Spent(p)) /\ IsFiniteSet(Carried(p))
        /\ Cardinality(Spent(p)) \in Nat /\ Cardinality(Carried(p)) \in Nat
    <3>1. IsFiniteSet(Spent(p)) /\ IsFiniteSet(Carried(p))
      BY SpentFinite, FS_Subset DEF Carried, ConfirmTypeOK
    <3> QED
      BY <3>1, FS_CardinalityType
  <2>1. CASE p = Confirm!Payload(q)
    <3>1. c \notin Spent(p)
      BY <1>1 DEF Spent, Handled
    <3>2. Spent(p)' = Spent(p) \cup {c}
      BY <1>5, <1>6, <2>1 DEF Spent
    <3>3. Cardinality(Spent(p)') = Cardinality(Spent(p)) + 1
      BY <2>0, <3>1, <3>2, FS_AddElement
    <3>4. Carried(p)' \in {Carried(p), Carried(p) \cup {o}}
      BY <1>1, <2>1 DEF Carried
    <3> HIDE DEF o
    <3>5. /\ Cardinality(Carried(p)') \in Nat
          /\ Cardinality(Carried(p)') <= Cardinality(Carried(p)) + 1
      BY <2>0, <3>4, OneMore
    <3> QED
      BY <2>0, <3>3, <3>5 DEF CountFits
  <2>2. CASE p # Confirm!Payload(q)
    <3>1. Spent(p)' = Spent(p)
      BY <1>1, <1>5, <1>6, <2>2 DEF Spent, Handled
    <3>2. Carried(p)' = Carried(p)
      BY <1>1, <2>2 DEF Carried
    <3> QED
      BY <2>0, <3>1, <3>2 DEF CountFits
  <2> QED
    BY <2>1, <2>2
<1> QED
  BY <1>7, <1>8, <1>11, <1>12, <1>13, <1>14

LEMMA ConfirmNext ==
    ConfirmInv /\ [Confirm!ConfirmNext]_Confirm!confirmVars => ConfirmInv'
<1> SUFFICES ASSUME ConfirmInv, [Confirm!ConfirmNext]_Confirm!confirmVars
             PROVE  ConfirmInv'
  OBVIOUS
<1>1. ASSUME UNCHANGED <<agenda, slots, dialogs, accepted, withdrawn>>
      PROVE  ConfirmInv'
  <2> USE DEF ConfirmInv
  <2>1. /\ Dialogs' = Dialogs /\ Grants' = Grants /\ Dialogued' = Dialogued
        /\ Operations' = Operations
    BY <1>1 DEF Dialogs, Grants, Dialogued, Operations
  <2>2. ConfirmTypeOK'
    BY <1>1, <2>1 DEF ConfirmTypeOK, SlotsOK
  <2>3. \A k, r : DrawnFor(k, r) => DrawnFor(k, r)'
    BY <1>1, <2>1 DEF DrawnFor
  <2>4. \A k, r : KeyOf(k, r) => KeyOf(k, r)'
    BY <1>1, <2>3 DEF KeyOf
  <2>5. \A x, s : PendingFits(x, s) => PendingFits(x, s)'
    BY <1>1, <2>3 DEF PendingFits
  <2>6. SlotsFit' /\ OperationsFit'
    BY <1>1, <2>4, <2>5 DEF SlotsFit, OperationsFit
  <2>7. ASSUME NEW e \in Confirm!Calls
        PROVE  PostFits(dialogs[e])' /\ ToldFits(dialogs[e])'
    <3>1. PostFits(dialogs[e]) /\ ToldFits(dialogs[e])
      OBVIOUS
    <3> QED
      BY <1>1, <2>1, <2>4, <3>1 DEF PostFits, ToldFits
  <2>8. \A p : Carried(p)' = Carried(p) /\ Spent(p)' = Spent(p)
    BY <1>1 DEF Carried, Spent
  <2>9. \A p \in Dialogued : CountFits(p)'
    BY <2>8 DEF CountFits
  <2> QED
    BY <2>1, <2>2, <2>6, <2>7, <2>9
<1>2. ASSUME NEW action \in Confirm!Runs \cup Confirm!Debug,
             Confirm!Tool(action)
      PROVE  ConfirmInv'
  BY <1>2, AskStep, ConfirmedStep DEF Confirm!Tool
<1>3. ASSUME NEW c \in Confirm!Calls, Confirm!Answer(c) PROVE ConfirmInv'
  <2> USE DEF ConfirmInv
  <2>1. PICK e \in Confirm!Calls, b \in BOOLEAN :
           /\ dialogs[e].stage # "unused"
           /\ dialogs' = [dialogs EXCEPT ![c].stage = "answered",
                                         ![c].returned = dialogs[e].shown,
                                         ![c].approves = b]
    BY <1>3 DEF Confirm!Answer, Confirm!At
  <2>2. /\ dialogs[c].stage = "asked"
        /\ UNCHANGED <<agenda, slots, accepted, withdrawn>>
    BY <1>3 DEF Confirm!Answer, Confirm!At
  <2>3. dialogs[c] \in Dialogs /\ dialogs[e] \in Dialogs
    BY <2>1, <2>2 DEF ConfirmTypeOK, Confirm!Unused
  <2> DEFINE d == [dialogs[c] EXCEPT !.stage = "answered",
                                     !.returned = dialogs[e].shown,
                                     !.approves = b]
  <2>4. dialogs' = [dialogs EXCEPT ![c] = d]
    BY <2>1, <2>3 DEF ConfirmTypeOK, Dialogs
  <2>5. /\ d \in Dialogs /\ d.stage = "answered"
        /\ d.request = dialogs[c].request
        /\ d.operation = dialogs[c].operation
    BY <2>3 DEF Dialogs
  <2> HIDE DEF d
  <2> QED
    BY <2>2, <2>3, <2>4, <2>5, CallGoesOn DEF Handled
<1>4. ASSUME NEW c \in Confirm!Calls, Confirm!GiveUp(c) PROVE ConfirmInv'
  <2> DEFINE d == [dialogs[c] EXCEPT !.stage = "givenUp"]
  <2>1. /\ dialogs[c].stage = "posted" /\ dialogs' = [dialogs EXCEPT ![c] = d]
        /\ UNCHANGED <<agenda, slots, accepted, withdrawn>>
    BY <1>4 DEF Confirm!GiveUp, Confirm!At, Confirm!Goes
  <2>2. dialogs[c] \in Dialogs
    BY <2>1 DEF ConfirmInv, ConfirmTypeOK, Confirm!Unused
  <2>3. /\ d \in Dialogs /\ d.stage = "givenUp"
        /\ d.request = dialogs[c].request /\ d.grant = dialogs[c].grant
        /\ d.operation = dialogs[c].operation
        /\ d.approves = dialogs[c].approves
        /\ d.returned = dialogs[c].returned
    BY <2>2 DEF Dialogs
  <2> HIDE DEF d
  <2> QED
    BY <2>1, <2>2, <2>3, CallGoesOn DEF Handled
<1>5. ASSUME NEW c \in Confirm!Calls,
             Confirm!StartAdkWorkflowRun(c) \/ Confirm!AdkDebugRequest(c)
      PROVE  ConfirmInv'
  BY <1>5, HandleStep DEF Confirm!StartAdkWorkflowRun, Confirm!AdkDebugRequest
<1> QED
  BY <1>1, <1>2, <1>3, <1>4, <1>5
     DEF Confirm!ConfirmNext, Confirm!confirmVars, Confirm!RotateAdk,
         Confirm!StartWorkflowRun, Confirm!RerunRun,
         Confirm!RunBoundedBenchmark, Confirm!ExportRunReport, Confirm!Runs,
         Confirm!Debug

(* However calls, answers, late posts and rotations interleave, for        *)
(* sessions of any length and any requests: no more operations of what a   *)
(* user was shown than were approved, one of a request for each key drawn  *)
(* for it, and the operation told of is of the request made.               *)
THEOREM ActionsAreApproved == Confirm!ConfirmSpec => []ApprovedOnce
<1>1. ASSUME ConfirmInv PROVE ApprovedOnce
  <2> USE <1>1 DEF ConfirmInv
  <2> DEFINE Live == {c \in Confirm!Calls : ~Confirm!At(c, "unused")}
  <2>f. IsFiniteSet(Confirm!Calls)
    <3>1. 1 \in Int /\ MaxDialogs \in Int
      BY DeveloperToolsAssumption
    <3> QED
      BY <3>1, FS_Interval DEF Confirm!Calls
  <2>1. ASSUME NEW q \in agenda
        PROVE  Cardinality({o \in accepted : Confirm!Payload(o.request)
                                                = Confirm!Payload(q)})
                 <= Cardinality({c \in Live : dialogs[c].approves
                       /\ dialogs[c].returned = Confirm!Payload(q)})
    <3> DEFINE p == Confirm!Payload(q)
               Yes == {c \in Live : dialogs[c].approves
                                    /\ dialogs[c].returned = p}
    <3>1. CountFits(p)
      BY DEF Dialogued
    <3>2. Spent(p) \subseteq Yes
      BY DEF Spent, Handled, Confirm!At
    <3>3. IsFiniteSet(Yes) /\ Yes \subseteq Confirm!Calls
      BY <2>f, FS_Subset
    <3> HIDE DEF Yes
    <3>4. /\ Cardinality(Spent(p)) <= Cardinality(Yes)
          /\ IsFiniteSet(Spent(p)) /\ IsFiniteSet(Carried(p))
      BY <3>2, <3>3, FS_Subset DEF Carried, ConfirmTypeOK
    <3>5. /\ Cardinality(Spent(p)) \in Nat /\ Cardinality(Yes) \in Nat
          /\ Cardinality(Carried(p)) \in Nat
      BY <3>3, <3>4, FS_CardinalityType
    <3>6. Cardinality(Carried(p)) <= Cardinality(Yes)
      BY <3>1, <3>4, <3>5 DEF CountFits
    <3> QED
      BY <3>6 DEF Carried, Yes
  <2>2. ASSUME NEW q \in agenda
        PROVE  Cardinality({o \in accepted : o.request = q})
                 <= 1 + Cardinality({k \in withdrawn :
                                        dialogs[k].request = q})
    <3> DEFINE Of == {o \in accepted : o.request = q}
               Gone == {k \in withdrawn : dialogs[k].request = q}
               x == slots[Confirm!Slot(q)].key
               Keys == Gone \cup {x}
               Made == {[key |-> k, request |-> q] : k \in Keys}
    <3>1. IsFiniteSet(Gone) /\ Cardinality(Gone) \in Nat
      BY <2>f, FS_Subset, FS_CardinalityType DEF ConfirmTypeOK
    <3>2. ASSUME NEW o \in Of PROVE o \in Made
      <4>1. /\ o \in Operations /\ o.request = q /\ KeyOf(o.key, q)
        BY DEF ConfirmTypeOK, OperationsFit
      <4>2. o.key \in Keys
        BY <4>1 DEF KeyOf, DrawnFor
      <4>3. o = [key |-> o.key, request |-> q]
        BY <4>1 DEF Operations
      <4> QED
        BY <4>2, <4>3
    <3> HIDE DEF Gone, x
    <3>3. /\ IsFiniteSet(Keys) /\ Cardinality(Keys) \in Nat
          /\ Cardinality(Keys) <= Cardinality(Gone) + 1
      BY <3>1, OneMore, FS_AddElement
    <3> HIDE DEF Keys
    <3>4. IsFiniteSet(Made) /\ Cardinality(Made) <= Cardinality(Keys)
      <4> DEFINE F == [k \in Keys |-> [key |-> k, request |-> q]]
      <4>1. F \in Surjection(Keys, Made)
        BY DEF Surjection
      <4> HIDE DEF F, Made
      <4> QED
        BY <3>3, <4>1, FS_Surjection
    <3> HIDE DEF Made
    <3>5. /\ IsFiniteSet(Of) /\ Cardinality(Of) <= Cardinality(Made)
      <4>1. Of \subseteq Made
        BY <3>2
      <4> HIDE DEF Of
      <4> QED
        BY <3>4, <4>1, FS_Subset
    <3> HIDE DEF Of
    <3>6. Cardinality(Of) \in Nat /\ Cardinality(Made) \in Nat
      BY <3>4, <3>5, FS_CardinalityType
    <3>7. Cardinality(Of) <= 1 + Cardinality(Gone)
      BY <3>1, <3>3, <3>4, <3>5, <3>6
    <3> QED
      BY <3>7 DEF Of, Gone
  <2>3. ASSUME NEW c \in Live, dialogs[c].operation # Nothing
        PROVE  Confirm!Payload(dialogs[c].operation.request)
                  = Confirm!Payload(dialogs[c].request)
    <3>1. dialogs[c] \in Dialogs
      BY DEF ConfirmTypeOK, Confirm!At, Confirm!Unused
    <3> QED
      BY <2>3, <3>1 DEF ToldFits
  <2> HIDE DEF ConfirmInv
  <2>4. \A S : Confirm!Cardinality(S) = Cardinality(S)
    BY DEF Confirm!Cardinality, Cardinality
  <2> QED
    BY <2>1, <2>2, <2>3, <2>4 DEF ApprovedOnce, Confirm!ApprovedOnce
<1> QED
  BY <1>1, ConfirmInit, ConfirmNext, PTL DEF Confirm!ConfirmSpec
-----------------------------------------------------------------------------
(* The workbench *)

LauncherPlaces ==
    {"idle", "preflight", "start", "announce", "stop?", "exited?", "probe",
     "code", "cause", "terminate", "wait", "ended", "killed"}

DrillPlaces ==
    {"off", "begin", "ready", "browse", "stop", "grace", "ports", "logs",
     "scan", "done"}

DeskTypeOK ==
    /\ launcher \in LauncherPlaces /\ drill \in DrillPlaces
    /\ child \in [Desk!Children ->
                     {"none", "starting", "serving", "draining", "exited"}]
    /\ ending \in [code : {"none", "0", "1", "child", "128+signal"},
                   cause : {"none", "port_conflict", "startup_failed",
                            "raised", "signal", "child_exit",
                            "readiness_timeout", "smoke_completed"}]
    /\ next \in Nat /\ asked \in Nat

(* Who was told to end, and who ended without it. *)
ChildrenFit ==
    /\ launcher \in {"idle", "preflight"} =>
          \A c \in Desk!Children : child[c] = "none"
    /\ launcher \notin {"wait", "ended", "killed"} => told = {}
    /\ waiting \subseteq told
    /\ \A c \in Desk!Children : child[c] = "exited" => c \in alone \cup told
    /\ launcher = "wait" => Desk!Running \subseteq waiting
    /\ launcher = "ended" => Desk!Running = {}
    /\ launcher = "killed" => Desk!Running \subseteq told

(* What the launcher will answer is what has happened. *)
EndingFits ==
    /\ launcher = "probe" => smoke
    /\ launcher \in {"code", "cause"} \/ ending.code = "0" =>
          smoke /\ next \notin Desk!Children
    /\ ending.code = "0" =>
          launcher \in {"cause", "terminate", "wait", "ended", "killed"}
    /\ ending.code = "128+signal" => signalled
    /\ ending.cause = "child_exit" => alone # {}

Stopped == {"ports", "logs", "scan", "done"}

(* How far the browser smoke is, and what it has found by then. *)
DrillFits ==
    /\ drill = "begin" => launcher = "idle"
    /\ drill \in {"ready", "browse", "stop", "grace"} => launcher # "idle"
    /\ drill \in Stopped =>
          Desk!LauncherOver \/ (launcher = "idle" /\ ~passed)
    /\ drill \in {"begin", "ready"} => asked < Ports
    /\ drill = "browse" => asked = Ports
    /\ drill \in {"stop", "grace"} \cup Stopped /\ passed => asked = Ports
    /\ drill \notin Stopped => released = {}
    /\ \A c \in released : child[c] # "serving"
    /\ drill \in Stopped \ {"ports"} /\ passed => released = Desk!Children
    /\ drill \in {"scan", "done"} /\ passed => logs = "clean"

DeskInv == DeskTypeOK /\ ChildrenFit /\ EndingFits /\ DrillFits

LEMMA PortsCount == Ports \in Nat /\ Ports > 0 /\ Desk!Children = 1 .. Ports
BY DeveloperToolsAssumption DEF Desk!Children

LEMMA DeskInit == Desk!WorkbenchInit => DeskInv
BY PortsCount DEF Desk!WorkbenchInit, DeskInv, DeskTypeOK, ChildrenFit,
   EndingFits, DrillFits, LauncherPlaces, DrillPlaces, Stopped,
   Desk!NoEnding, Desk!Running, Desk!LauncherOver

(* A step of the surroundings leaves launcher and smoke where they are. *)
LEMMA SurroundingsStep ==
    ASSUME DeskInv, Desk!SurroundingsNext
    PROVE  DeskInv'
<1> USE PortsCount DEF DeskInv, Desk!launcherVars, Desk!drillVars
<1>1. ASSUME NEW c \in Desk!Children, Desk!Serve(c)
      PROVE  DeskInv'
  <2>1. /\ child[c] = "starting" /\ c \notin told
        /\ child' = [child EXCEPT ![c] = "serving"]
        /\ Desk!Running' = Desk!Running /\ c \in Desk!Running
    BY <1>1 DEF Desk!Serve, DeskTypeOK, Desk!Running
  <2>2. DeskTypeOK' /\ ChildrenFit' /\ EndingFits'
    BY <1>1, <2>1 DEF Desk!Serve, DeskTypeOK, ChildrenFit, EndingFits
  <2>3. DrillFits'
    BY <1>1, <2>1 DEF Desk!Serve, DeskTypeOK, ChildrenFit, DrillFits,
       Desk!LauncherOver, Stopped
  <2> QED
    BY <2>2, <2>3
<1>2. ASSUME NEW c \in Desk!Children, Desk!Drain(c)
      PROVE  DeskInv'
  <2>1. /\ child[c] = "serving"
        /\ child' = [child EXCEPT ![c] = "draining"]
        /\ Desk!Running' = Desk!Running
    BY <1>2 DEF Desk!Drain, DeskTypeOK, Desk!Running
  <2> QED
    BY <1>2, <2>1 DEF Desk!Drain, DeskTypeOK, ChildrenFit, EndingFits,
       DrillFits, Desk!LauncherOver, Stopped
<1>3. ASSUME NEW c \in Desk!Children, Desk!Die(c)
      PROVE  DeskInv'
  <2>1. /\ child[c] # "none" /\ child' = [child EXCEPT ![c] = "exited"]
        /\ Desk!Running' = Desk!Running \ {c}
        /\ alone \subseteq alone' /\ c \in alone' \cup told
    BY <1>3 DEF Desk!Die, DeskTypeOK, Desk!Running
  <2> QED
    BY <1>3, <2>1 DEF Desk!Die, DeskTypeOK, ChildrenFit, EndingFits,
       DrillFits, Desk!LauncherOver, Stopped
<1>4. ASSUME \/ \E c \in Desk!Children :
                   Desk!OtherComes(c) \/ Desk!OtherLeaves(c)
             \/ Desk!Signal
      PROVE  DeskInv'
  <2>1. /\ UNCHANGED <<launcher, smoke, told, next, waiting, ending, drill,
                       asked, released, logs, passed, child, alone>>
        /\ signalled => signalled'
    BY <1>4 DEF Desk!OtherComes, Desk!OtherLeaves, Desk!Signal
  <2>2. Desk!Running' = Desk!Running
    BY <2>1 DEF Desk!Running
  <2> QED
    BY <2>1, <2>2 DEF DeskTypeOK, ChildrenFit, EndingFits, DrillFits,
       Desk!LauncherOver
<1> QED
  BY <1>1, <1>2, <1>3, <1>4 DEF Desk!SurroundingsNext

(* Where the launcher goes without touching a child. *)
LEMMA LauncherMoves ==
    ASSUME DeskInv, NEW p \in LauncherPlaces,
           UNCHANGED <<child, told, waiting, smoke, alone, signalled>>,
           UNCHANGED <<drill, asked, released, logs, passed>>, launcher' = p,
           launcher \notin {"idle", "wait", "ended", "killed"},
           p \notin {"idle", "preflight", "wait", "killed"},
           p = "ended" => Desk!Running = {},
           DeskTypeOK', EndingFits'
    PROVE  DeskInv'
<1>1. Desk!Running' = Desk!Running
  BY DEF Desk!Running
<1>2. ChildrenFit'
  BY <1>1 DEF DeskInv, ChildrenFit
<1>3. DrillFits'
  BY DEF DeskInv, DrillFits, Desk!LauncherOver
<1> QED
  BY <1>2, <1>3 DEF DeskInv

LEMMA LauncherStep ==
    ASSUME DeskInv, Desk!LauncherNext
    PROVE  DeskInv'
<1> USE PortsCount DEF DeskInv, Desk!Goto, Desk!Leave, Desk!drillVars
<1>1. CASE Desk!Launch
  <2>1. Desk!Running' = Desk!Running
    BY <1>1 DEF Desk!Launch, Desk!Running
  <2> QED
    BY <1>1, <2>1 DEF Desk!Launch, DeskTypeOK, ChildrenFit, EndingFits,
       DrillFits, LauncherPlaces, Stopped, Desk!LauncherOver
<1>2. CASE Desk!CheckPorts
  <2>1. Desk!Running = {}
    BY <1>2 DEF Desk!CheckPorts, ChildrenFit, Desk!Running
  <2>2. DeskTypeOK' /\ EndingFits'
    BY <1>2 DEF Desk!CheckPorts, DeskTypeOK, EndingFits, LauncherPlaces
  <2> QED
    BY <1>2, <2>1, <2>2, LauncherMoves DEF Desk!CheckPorts, LauncherPlaces
<1>3. CASE Desk!StartChild
  <2>1. /\ child' = [child EXCEPT ![next] = "starting"]
        /\ next \in Desk!Children /\ next' = next + 1 /\ launcher = "start"
        /\ launcher' = "start"
        /\ UNCHANGED <<told, waiting, ending, smoke, drill, asked, released,
                       logs, passed, alone, signalled>>
    BY <1>3 DEF Desk!StartChild
  <2>2. DeskTypeOK'
    BY <2>1 DEF DeskTypeOK
  <2>3. ChildrenFit' /\ EndingFits'
    BY <2>1 DEF DeskTypeOK, ChildrenFit, EndingFits
  <2>4. DrillFits'
    BY <2>1 DEF DeskTypeOK, DrillFits, Desk!LauncherOver
  <2> QED
    BY <2>2, <2>3, <2>4
<1>4. CASE \/ Desk!CannotStart \/ Desk!AllStarted \/ Desk!Announce
           \/ Desk!Raise
  <2>1. DeskTypeOK' /\ EndingFits'
    BY <1>4 DEF Desk!CannotStart, Desk!AllStarted, Desk!Announce, Desk!Raise,
       DeskTypeOK, EndingFits, LauncherPlaces
  <2>2. PICK p \in {"terminate", "announce", "stop?"} :
           /\ launcher' = p /\ launcher \in {"start", "announce", "code"}
           /\ UNCHANGED <<child, told, waiting, smoke, alone, signalled>>
           /\ UNCHANGED <<drill, asked, released, logs, passed>>
    BY <1>4 DEF Desk!CannotStart, Desk!AllStarted, Desk!Announce, Desk!Raise
  <2> QED
    BY <2>1, <2>2, LauncherMoves DEF LauncherPlaces
<1>5. CASE \/ Desk!LookForStop \/ Desk!Probe \/ Desk!ProbeAgain
           \/ Desk!ReadinessTimeout
  <2>1. DeskTypeOK' /\ EndingFits'
    BY <1>5 DEF Desk!LookForStop, Desk!Probe, Desk!ProbeAgain,
       Desk!ReadinessTimeout, DeskTypeOK, EndingFits, LauncherPlaces
  <2>2. PICK p \in {"terminate", "exited?", "stop?", "code"} :
           /\ launcher' = p /\ launcher \in {"stop?", "probe"}
           /\ UNCHANGED <<child, told, waiting, smoke, alone, signalled>>
           /\ UNCHANGED <<drill, asked, released, logs, passed>>
    BY <1>5 DEF Desk!LookForStop, Desk!Probe, Desk!ProbeAgain,
       Desk!ReadinessTimeout
  <2> QED
    BY <2>1, <2>2, LauncherMoves DEF LauncherPlaces
<1>6. CASE Desk!LookForExit \/ Desk!ReadCode \/ Desk!ReadCause
  <2>1. Desk!LookForExit /\ (\E c \in Desk!Children : child[c] = "exited") =>
           alone # {}
    BY DEF Desk!LookForExit, ChildrenFit
  <2>2. DeskTypeOK' /\ EndingFits'
    BY <1>6, <2>1 DEF Desk!LookForExit, Desk!ReadCode, Desk!ReadCause,
       DeskTypeOK, EndingFits, LauncherPlaces
  <2>3. PICK p \in {"terminate", "probe", "stop?", "cause"} :
           /\ launcher' = p /\ launcher \in {"exited?", "code", "cause"}
           /\ UNCHANGED <<child, told, waiting, smoke, alone, signalled>>
           /\ UNCHANGED <<drill, asked, released, logs, passed>>
    BY <1>6 DEF Desk!LookForExit, Desk!ReadCode, Desk!ReadCause
  <2> QED
    BY <2>2, <2>3, LauncherMoves DEF LauncherPlaces
<1>7. CASE Desk!Terminate
  <2>1. Desk!Running' = Desk!Running
    BY <1>7 DEF Desk!Terminate, Desk!Running
  <2> QED
    BY <1>7, <2>1 DEF Desk!Terminate, DeskTypeOK, ChildrenFit, EndingFits,
       DrillFits, LauncherPlaces, Desk!LauncherOver
<1>8. CASE Desk!ChildEnded \/ Desk!KillChild \/ Desk!End
  <2>1. /\ launcher = "wait" /\ launcher' \in {"wait", "ended"}
        /\ UNCHANGED <<told, next, ending, smoke, drill, asked, released,
                       logs, passed, alone, signalled>>
        /\ waiting' \subseteq waiting
    BY <1>8 DEF Desk!ChildEnded, Desk!KillChild, Desk!End
  <2>2. /\ child' \in [Desk!Children ->
                          {"none", "starting", "serving", "draining",
                           "exited"}]
        /\ \A c \in Desk!Children :
              child'[c] = child[c] \/ (child'[c] = "exited" /\ c \in told)
    BY <1>8 DEF Desk!ChildEnded, Desk!KillChild, Desk!End, DeskTypeOK,
       ChildrenFit, Desk!Running
  <2>3. IF launcher' = "wait" THEN Desk!Running' \subseteq waiting'
        ELSE Desk!Running' = {}
    BY <1>8 DEF Desk!ChildEnded, Desk!KillChild, Desk!End, DeskTypeOK,
       ChildrenFit, Desk!Running
  <2>4. DeskTypeOK' /\ EndingFits'
    BY <2>1, <2>2 DEF DeskTypeOK, EndingFits, LauncherPlaces
  <2>5. ChildrenFit'
    BY <2>1, <2>2, <2>3 DEF ChildrenFit
  <2>6. DrillFits'
    BY <2>1, <2>2, <2>3 DEF DrillFits, Desk!LauncherOver
  <2> QED
    BY <2>4, <2>5, <2>6
<1> QED
  BY <1>1, <1>2, <1>3, <1>4, <1>5, <1>6, <1>7, <1>8 DEF Desk!LauncherNext

LEMMA DrillStep ==
    ASSUME DeskInv, Desk!DrillNext
    PROVE  DeskInv'
<1> USE PortsCount DEF DeskInv, Desk!DrillTo
<1>1. CASE Desk!DrillBegins
  <2>1. /\ UNCHANGED <<smoke, child, alone, next, told, waiting, ending>>
        /\ UNCHANGED <<asked, released, signalled>>
        /\ launcher = "idle" /\ launcher' \in {"idle", "preflight"}
        /\ drill' = IF launcher' = "preflight" THEN "ready" ELSE "ports"
        /\ launcher' = "idle" => passed' = FALSE
        /\ released = {} /\ drill = "begin" /\ asked < Ports
    BY <1>1 DEF Desk!DrillBegins, DrillFits, Stopped
  <2>2. DrillFits'
    BY <2>1 DEF DrillFits, Stopped, Desk!LauncherOver
  <2> QED
    BY <2>1, <2>2 DEF DeskTypeOK, ChildrenFit, EndingFits, LauncherPlaces,
       DrillPlaces, Desk!Running
<1>2. CASE Desk!StopLauncher \/ Desk!KillLauncher
  <2>1. /\ UNCHANGED <<smoke, child, alone, next, told, waiting, ending>>
        /\ UNCHANGED <<asked, released, passed, logs>>
        /\ \/ launcher' = launcher
           \/ launcher \in {"preflight", "wait"} /\ launcher' = "killed"
        /\ drill \in {"stop", "grace"} /\ drill' \in {"grace", "ports"}
        /\ drill' = "ports" => Desk!LauncherOver'
    BY <1>2 DEF Desk!StopLauncher, Desk!KillLauncher, Desk!LauncherOver
  <2>2. signalled => signalled'
    BY <1>2, Zenon DEF Desk!StopLauncher, Desk!KillLauncher
  <2>3. Desk!Running' = Desk!Running
    BY <2>1 DEF Desk!Running
  <2>4. launcher = "preflight" => Desk!Running = {}
    BY DEF ChildrenFit, Desk!Running
  <2>5. DeskTypeOK' /\ EndingFits'
    BY <2>1, <2>2 DEF DeskTypeOK, EndingFits, LauncherPlaces, DrillPlaces
  <2>6. ChildrenFit'
    BY <2>1, <2>3, <2>4 DEF ChildrenFit
  <2>7. DrillFits'
    BY <2>1 DEF DrillFits, Stopped, Desk!LauncherOver
  <2> QED
    BY <2>5, <2>6, <2>7
<1>3. ASSUME UNCHANGED <<launcher, smoke, child, alone, next, told, waiting,
                         ending, signalled>>,
             drill' \in DrillPlaces, asked' \in Nat, DrillFits'
      PROVE  DeskInv'
  <2>1. Desk!Running' = Desk!Running
    BY <1>3 DEF Desk!Running
  <2> QED
    BY <1>3, <2>1 DEF DeskTypeOK, ChildrenFit, EndingFits
<1>4. CASE Desk!EndpointsSeen
  <2>1. /\ drill = "ready" /\ asked < Ports /\ asked \in Nat
        /\ asked' = asked + 1 /\ launcher' = launcher
        /\ drill' = IF asked' + 1 \in Desk!Children THEN "ready" ELSE "browse"
        /\ UNCHANGED <<child, released, passed, logs>>
    BY <1>4 DEF Desk!EndpointsSeen, DrillFits, DeskTypeOK
  <2>2. asked' \in Nat /\ (drill' = "ready" => asked' < Ports)
        /\ (drill' = "browse" => asked' = Ports)
    BY <2>1
  <2>3. DrillFits' /\ drill' \in DrillPlaces
    BY <2>1, <2>2 DEF DrillFits, Stopped, DrillPlaces
  <2> QED
    BY <1>3, <1>4, <2>2, <2>3 DEF Desk!EndpointsSeen
<1>5. CASE \/ Desk!NotReady \/ Desk!Browse \/ Desk!LauncherStopped
           \/ Desk!PortsNotReleased
  <2>1. /\ UNCHANGED <<launcher, smoke, child, alone, next, told, waiting,
                       ending, signalled, asked, released, logs>>
        /\ \/ drill = "ready" /\ drill' = "stop" /\ passed' = FALSE
           \/ drill = "browse" /\ drill' = "stop"
           \/ /\ drill = "grace" /\ drill' = "ports" /\ passed' = passed
              /\ Desk!LauncherOver
           \/ drill = "ports" /\ drill' = "logs" /\ passed' = FALSE
    BY <1>5 DEF Desk!NotReady, Desk!Browse, Desk!LauncherStopped,
       Desk!PortsNotReleased
  <2>2. DrillFits' /\ drill' \in DrillPlaces
    BY <2>1 DEF DrillFits, Stopped, DrillPlaces, Desk!LauncherOver
  <2> QED
    BY <1>3, <2>1, <2>2 DEF DeskTypeOK
<1>6. ASSUME NEW c \in Desk!Children, Desk!PortReleased(c)
      PROVE  DeskInv'
  <2>1. /\ UNCHANGED <<launcher, smoke, child, alone, next, told, waiting,
                       ending, signalled, asked, logs, passed>>
        /\ drill = "ports" /\ child[c] # "serving"
        /\ released' = released \cup {c}
        /\ drill' = IF released' = Desk!Children THEN "logs" ELSE "ports"
    BY <1>6 DEF Desk!PortReleased, Desk!PortTaken
  <2>2. DrillFits' /\ drill' \in DrillPlaces
    BY <2>1 DEF DrillFits, Stopped, DrillPlaces, Desk!LauncherOver
  <2> QED
    BY <1>3, <2>1, <2>2 DEF DeskTypeOK
<1>7. CASE Desk!CleanLogs \/ Desk!ScanEvidence
  <2>1. /\ UNCHANGED <<launcher, smoke, child, alone, next, told, waiting,
                       ending, signalled, asked, released>>
        /\ \/ /\ drill = "logs" /\ drill' = "scan" /\ passed' = passed
              /\ launcher = "idle" \/ logs' = "clean"
           \/ /\ drill = "scan" /\ drill' = "done" /\ logs' = logs
              /\ passed' \in {FALSE, passed}
    BY <1>7 DEF Desk!CleanLogs, Desk!ScanEvidence
  <2>2. passed' => passed
    BY <2>1
  <2>3. DrillFits' /\ drill' \in DrillPlaces
    BY <2>1, <2>2 DEF DrillFits, Stopped, DrillPlaces, Desk!LauncherOver
  <2> QED
    BY <1>3, <2>1, <2>3 DEF DeskTypeOK
<1> QED
  BY <1>1, <1>2, <1>4, <1>5, <1>6, <1>7 DEF Desk!DrillNext

LEMMA DeskNext ==
    DeskInv /\ [Desk!WorkbenchNext]_(Desk!workbenchVars) => DeskInv'
<1> SUFFICES ASSUME DeskInv, [Desk!WorkbenchNext]_(Desk!workbenchVars)
             PROVE  DeskInv'
  OBVIOUS
<1>1. CASE UNCHANGED Desk!workbenchVars
  BY <1>1 DEF Desk!workbenchVars, Desk!launcherVars, Desk!drillVars, DeskInv,
     DeskTypeOK, ChildrenFit, EndingFits, DrillFits, Desk!LauncherOver,
     Desk!Running
<1> QED
  BY <1>1, LauncherStep, DrillStep, SurroundingsStep DEF Desk!WorkbenchNext

(* However a launcher or a browser smoke ends, with any number of          *)
(* children, it has cleaned up after itself.                               *)
THEOREM WorkbenchesLeaveNothing ==
    Desk!WorkbenchSpec => []WorkbenchLeavesNothing
<1>1. DeskInv => WorkbenchLeavesNothing
  BY PortsCount DEF DeskInv, ChildrenFit, EndingFits, DrillFits, Stopped,
     WorkbenchLeavesNothing, Desk!WorkbenchLeavesNothing,
     Desk!LauncherLeavesNothing, Desk!DrillLeavesNothing
<1> QED
  BY <1>1, DeskInit, DeskNext, PTL DEF Desk!WorkbenchSpec
-----------------------------------------------------------------------------
(* The benchmark import *)

ImportStages ==
    {"idle", "verifying", "looking", "placing", "staging", "checking",
     "registering", "ensuring", "creating", "truncating", "filling",
     "answering"}

Benches == [manifest : Versions, files : [Import!Files -> Versions]]

Desks ==
    [stage : {"idle", "creating", "deciding", "listing"},
     name : {"decision", "export"}]

ImportTypeOK ==
    /\ snapshot \in [ImportCases -> Import!Snapshots \cup {Nothing}]
    /\ entry \in [sha : Versions, case : ImportCases] \cup {Nothing}
    /\ importer \in [Importers -> [stage : ImportStages,
                        case : ImportCases \cup {Nothing},
                        sha : Versions \cup {Nothing}, next : Nat,
                        known : BOOLEAN]]
    /\ bench \in Benches /\ desk \in Desks

(* Case c has a snapshot of exactly the files of evaluation v. *)
Snapped(c, v) ==
    /\ c \in ImportCases /\ v \in Versions /\ snapshot[c] # Nothing
    /\ snapshot[c].sha = v
    /\ \A f \in Import!Files : snapshot[c].files[f] = v

EntryFits == entry # Nothing => Snapped(entry.case, entry.sha)

(* What an import has made sure of by the time it is where it is. *)
ImporterFits(i) ==
    LET me == importer[i] IN
    /\ me.stage # "idle" => me.case \in ImportCases /\ me.sha \in Versions
    /\ me.stage = "registering" => Snapped(me.case, me.sha)
    /\ me.known \/ me.stage \in {"ensuring", "creating", "truncating",
                                  "filling", "answering"} =>
          entry # Nothing /\ entry.sha = me.sha
    /\ me.stage = "answering" => record # "absent"

DeskAsks == desk.stage # "idle" => entry # Nothing

ToldFit == \A v \in answered :
               entry # Nothing /\ entry.sha = v /\ record # "absent"

ImportInv ==
    /\ ImportTypeOK /\ EntryFits /\ DeskAsks /\ ToldFit
    /\ \A i \in Importers : ImporterFits(i)

Importing ==
    [stage : ImportStages, case : ImportCases \cup {Nothing},
     sha : Versions \cup {Nothing}, next : Nat, known : BOOLEAN]

LEMMA NoSnapshot ==
    /\ \A s \in Import!Snapshots : s # Nothing
    /\ \A e \in [sha : Versions, case : ImportCases] : e # Nothing
BY DeveloperToolsAssumption

LEMMA ImportInit == Import!ImportInit => ImportInv
BY DEF Import!ImportInit, ImportInv, ImportTypeOK, EntryFits, DeskAsks,
   ToldFit, ImporterFits, ImportStages, Import!Idle, Benches, Desks

(* What was found by one importer is still so when nothing is taken back.  *)
LEMMA NothingTakenBack ==
    ASSUME ImportInv, NEW i \in Importers,
           \A c, v : Snapped(c, v) => Snapped(c, v)',
           entry # Nothing => entry' = entry,
           record # "absent" => record' # "absent",
           importer'[i] = importer[i]
    PROVE  ImporterFits(i)'
<1>1. ImporterFits(i)
  BY DEF ImportInv
<1> QED
  BY <1>1 DEF ImporterFits

LEMMA OneImporterGoes ==
    ASSUME ImportInv, NEW i \in Importers, NEW s \in Importing,
           importer' = [importer EXCEPT ![i] = s],
           snapshot' \in [ImportCases -> Import!Snapshots \cup {Nothing}],
           \A c, v : Snapped(c, v) => Snapped(c, v)',
           entry' \in [sha : Versions, case : ImportCases] \cup {Nothing},
           entry # Nothing => entry' = entry,
           entry = Nothing /\ entry' # Nothing =>
              Snapped(entry'.case, entry'.sha),
           record # "absent" => record' # "absent",
           UNCHANGED <<bench, desk>>, ImporterFits(i)', ToldFit'
    PROVE  ImportInv'
<1>1. importer \in [Importers -> Importing]
  BY DEF ImportInv, ImportTypeOK, Importing
<1>2. importer' \in [Importers -> Importing]
  BY <1>1
<1>3. ImportTypeOK'
  BY <1>2 DEF ImportInv, ImportTypeOK, Importing
<1>4. \A j \in Importers : ImporterFits(j)'
  <2>1. \A j \in Importers \ {i} : importer'[j] = importer[j]
    BY <1>1
  <2> QED
    BY <2>1, NothingTakenBack
<1>5. EntryFits'
  <2> SUFFICES ASSUME entry' # Nothing PROVE Snapped(entry.case, entry.sha)'
    BY DEF EntryFits
  <2>1. PICK e \in [sha : Versions, case : ImportCases] : e = entry'
    OBVIOUS
  <2>2. Snapped(e.case, e.sha)
    BY <2>1 DEF ImportInv, EntryFits
  <2>3. Snapped(e.case, e.sha)'
    BY <2>2
  <2> QED
    BY <2>1, <2>3 DEF Snapped
<1>6. DeskAsks'
  BY DEF ImportInv, DeskAsks
<1> QED
  BY <1>3, <1>4, <1>5, <1>6 DEF ImportInv

(* A step of an importer that leaves registry, snapshots and answers.      *)
LEMMA ImporterLooks ==
    ASSUME ImportInv, NEW i \in Importers, NEW s \in Importing,
           importer' = [importer EXCEPT ![i] = s],
           UNCHANGED <<bench, snapshot, entry, desk, answered>>,
           record # "absent" => record' # "absent",
           ImporterFits(i)'
    PROVE  ImportInv'
<1>1. \A c, v : Snapped(c, v) => Snapped(c, v)'
  BY DEF Snapped
<1>2. ToldFit'
  BY DEF ImportInv, ToldFit
<1> QED
  BY <1>1, <1>2, OneImporterGoes DEF ImportInv, ImportTypeOK

LEMMA ImporterVerifies ==
    ASSUME ImportInv, NEW i \in Importers,
           \/ \E c \in ImportCases : Import!ReadManifest(i, c)
           \/ Import!VerifyFile(i) \/ Import!FindRun(i)
           \/ Import!FindDestination(i) \/ Import!Break(i)
    PROVE  ImportInv'
<1> USE DEF Import!Sets, Import!Goes, Import!Ends, Import!At, Import!Rest
<1> DEFINE me == importer[i]
<1>1. me \in Importing /\ ImporterFits(i) /\ Import!Idle \in Importing
  BY DEF ImportInv, ImportTypeOK, Importing, Import!Idle, ImportStages
<1>2. importer \in [Importers -> Importing]
  BY DEF ImportInv, ImportTypeOK, Importing
<1>3. ASSUME NEW s \in Importing, importer' = [importer EXCEPT ![i] = s],
             UNCHANGED <<snapshot, entry, record, desk, answered, bench>>,
             s.stage \in {"idle", "verifying", "looking", "placing",
                          "staging", "checking"},
             s.stage # "idle" => s.case \in ImportCases /\ s.sha \in Versions,
             s.known => entry # Nothing /\ entry.sha = s.sha
      PROVE  ImportInv'
  <2>1. importer'[i] = s
    BY <1>2, <1>3
  <2>2. ImporterFits(i)'
    BY <1>3, <2>1 DEF ImporterFits
  <2> QED
    BY <1>3, <2>2, ImporterLooks
<1>4. ASSUME NEW c \in ImportCases, Import!ReadManifest(i, c)
      PROVE  ImportInv'
  <2> DEFINE s == [Import!Idle EXCEPT !.stage = "verifying", !.case = c,
                                      !.sha = bench.manifest]
  <2>1. /\ s \in Importing /\ s.stage = "verifying" /\ s.case = c
        /\ s.sha = bench.manifest /\ s.known = FALSE
        /\ bench.manifest \in Versions
    BY <1>1 DEF Import!Idle, Importing, ImportInv, ImportTypeOK, ImportStages,
       Benches
  <2>2. importer' = [importer EXCEPT ![i] = s]
    BY <1>4 DEF Import!ReadManifest
  <2> HIDE DEF s
  <2> QED
    BY <1>3, <1>4, <2>1, <2>2 DEF Import!ReadManifest
<1>5. CASE Import!VerifyFile(i)
  <2> DEFINE s1 == [me EXCEPT !.next = @ + 1]
             s2 == [me EXCEPT !.stage = "looking"]
  <2>1. /\ \A s \in {s1, s2} : /\ s \in Importing /\ s.case = me.case
                               /\ s.sha = me.sha /\ s.known = me.known
        /\ s1.stage = me.stage /\ s2.stage = "looking"
    BY <1>1 DEF Importing, ImportStages
  <2>2. /\ \E s \in {s1, s2, Import!Idle} :
              importer' = [importer EXCEPT ![i] = s]
        /\ me.stage = "verifying"
        /\ UNCHANGED <<snapshot, entry, record, desk, answered, bench>>
    BY <1>5 DEF Import!VerifyFile
  <2> HIDE DEF s1, s2
  <2> QED
    BY <1>1, <1>3, <2>1, <2>2 DEF ImporterFits, Import!Idle
<1>6. CASE Import!FindRun(i)
  <2> DEFINE s1 == [me EXCEPT !.stage = "placing"]
             s2 == [me EXCEPT !.stage = "checking", !.case = entry.case,
                              !.known = TRUE]
  <2>1. /\ s1 \in Importing /\ s1.case = me.case /\ s1.sha = me.sha
        /\ s1.known = me.known /\ s1.stage = "placing"
    BY <1>1 DEF Importing, ImportStages
  <2>2. entry # Nothing =>
           /\ s2 \in Importing /\ s2.case \in ImportCases /\ s2.sha = me.sha
           /\ s2.stage = "checking"
    BY <1>1 DEF Importing, ImportStages, ImportInv, ImportTypeOK
  <2>3. /\ \/ importer' = [importer EXCEPT ![i] = s1]
           \/ importer' = [importer EXCEPT ![i] = Import!Idle]
           \/ /\ entry # Nothing /\ entry.sha = me.sha
              /\ importer' = [importer EXCEPT ![i] = s2]
        /\ me.stage = "looking"
        /\ UNCHANGED <<snapshot, entry, record, desk, answered, bench>>
    BY <1>6 DEF Import!FindRun
  <2> HIDE DEF s1, s2
  <2>4. CASE importer' = [importer EXCEPT ![i] = s1]
    BY <1>1, <1>3, <2>1, <2>3, <2>4 DEF ImporterFits
  <2>5. CASE importer' = [importer EXCEPT ![i] = Import!Idle]
    BY <1>1, <1>3, <2>3, <2>5 DEF Import!Idle
  <2>6. CASE /\ entry # Nothing /\ entry.sha = me.sha
             /\ importer' = [importer EXCEPT ![i] = s2]
    BY <1>1, <1>3, <2>2, <2>3, <2>6 DEF ImporterFits
  <2> QED
    BY <2>3, <2>4, <2>5, <2>6
<1>7. CASE Import!FindDestination(i)
  <2> DEFINE s1 == [me EXCEPT !.stage = "staging"]
             s2 == [me EXCEPT !.stage = "checking"]
  <2>1. /\ \A s \in {s1, s2} : /\ s \in Importing /\ s.case = me.case
                               /\ s.sha = me.sha /\ s.known = me.known
        /\ s1.stage = "staging" /\ s2.stage = "checking"
    BY <1>1 DEF Importing, ImportStages
  <2>2. /\ \E s \in {s1, s2} : importer' = [importer EXCEPT ![i] = s]
        /\ me.stage = "placing"
        /\ UNCHANGED <<snapshot, entry, record, desk, answered, bench>>
    BY <1>7 DEF Import!FindDestination
  <2> HIDE DEF s1, s2
  <2> QED
    BY <1>1, <1>3, <2>1, <2>2 DEF ImporterFits
<1>8. CASE Import!Break(i)
  <2>1. /\ importer' = [importer EXCEPT ![i] = Import!Idle]
        /\ UNCHANGED <<snapshot, entry, record, desk, answered, bench>>
    BY <1>8 DEF Import!Break
  <2> QED
    BY <1>1, <1>3, <2>1 DEF Import!Idle
<1> QED
  BY <1>4, <1>5, <1>6, <1>7, <1>8

LEMMA ImporterPublishes ==
    ASSUME ImportInv, NEW i \in Importers,
           Import!Publish(i) \/ Import!VerifySnapshot(i)
    PROVE  ImportInv'
<1> USE DEF Import!Sets, Import!Goes, Import!Ends, Import!At, Import!Rest
<1> DEFINE me == importer[i]
           s1 == [me EXCEPT !.stage = "registering"]
           s2 == [me EXCEPT !.stage = "ensuring"]
<1>1. /\ me \in Importing /\ ImporterFits(i) /\ Import!Idle \in Importing
      /\ Import!Idle.stage = "idle" /\ Import!Idle.known = FALSE
  BY DEF ImportInv, ImportTypeOK, Importing, Import!Idle, ImportStages
<1>2. /\ \A s \in {s1, s2} : /\ s \in Importing /\ s.case = me.case
                             /\ s.sha = me.sha /\ s.known = me.known
      /\ s1.stage = "registering" /\ s2.stage = "ensuring"
  BY <1>1 DEF Importing, ImportStages
<1>3. importer \in [Importers -> Importing]
  BY DEF ImportInv, ImportTypeOK, Importing
<1>4. ASSUME importer' = [importer EXCEPT ![i] = Import!Idle],
             UNCHANGED <<bench, snapshot, entry, desk, answered, record>>
      PROVE  ImportInv'
  <2>1. importer'[i] = Import!Idle
    BY <1>3, <1>4
  <2>2. ImporterFits(i)'
    BY <1>1, <2>1 DEF ImporterFits
  <2> QED
    BY <1>1, <1>4, <2>2, ImporterLooks
<1> HIDE DEF s1, s2
<1>5. CASE Import!VerifySnapshot(i)
  <2>1. /\ me.stage = "checking"
        /\ UNCHANGED <<bench, snapshot, entry, record, desk, answered>>
        /\ \/ importer' = [importer EXCEPT ![i] = Import!Idle]
           \/ /\ snapshot[me.case] # Nothing
              /\ Import!Intact(snapshot[me.case], me.sha)
              /\ importer' = [importer EXCEPT ![i] =
                                 IF me.known THEN s2 ELSE s1]
    BY <1>5 DEF Import!VerifySnapshot, s1, s2
  <2>2. CASE importer' # [importer EXCEPT ![i] = Import!Idle]
    <3>1. Snapped(me.case, me.sha)
      BY <1>1, <2>1, <2>2 DEF Import!Intact, Snapped, ImporterFits
    <3>2. importer'[i] = IF me.known THEN s2 ELSE s1
      BY <1>2, <1>3, <2>1, <2>2
    <3>3. Snapped(me.case, me.sha)'
      BY <2>1, <3>1, <3>2, <1>2 DEF Snapped
    <3>4. ImporterFits(i)'
      BY <1>1, <1>2, <2>1, <3>2, <3>3 DEF ImporterFits
    <3> QED
      BY <1>2, <2>1, <2>2, <3>4, ImporterLooks
  <2> QED
    BY <1>4, <2>1, <2>2
<1>6. CASE Import!Publish(i)
  <2>1. CASE snapshot[me.case] # Nothing
    BY <1>4, <1>6, <2>1 DEF Import!Publish
  <2>2. CASE snapshot[me.case] = Nothing
    <3> DEFINE w == Import!Written(me.sha)
    <3>1. /\ me.stage = "staging"
          /\ snapshot' = [snapshot EXCEPT ![me.case] = w]
          /\ importer' = [importer EXCEPT ![i] = s1]
          /\ UNCHANGED <<bench, entry, record, desk, answered>>
      BY <1>6, <2>2 DEF Import!Publish, s1
    <3>2. me.case \in ImportCases /\ me.sha \in Versions
      BY <1>1, <3>1 DEF ImporterFits
    <3>3. /\ w \in Import!Snapshots /\ w.sha = me.sha
          /\ \A f \in Import!Files : w.files[f] = me.sha
      BY <3>2 DEF Import!Written, Import!Snapshots
    <3> HIDE DEF w
    <3>4. w # Nothing /\ snapshot'[me.case] = w
      BY <3>1, <3>2, <3>3, NoSnapshot DEF ImportInv, ImportTypeOK
    <3>5. \A c, v : Snapped(c, v) => Snapped(c, v)'
      BY <2>2, <3>1, <3>2 DEF Snapped, ImportInv, ImportTypeOK
    <3>6. Snapped(me.case, me.sha)'
      <4>1. PICK c, v : c = me.case /\ v = me.sha
        OBVIOUS
      <4>2. Snapped(c, v)'
        BY <3>2, <3>3, <3>4, <4>1 DEF Snapped
      <4>3. importer'[i].case = c /\ importer'[i].sha = v
        BY <1>2, <1>3, <3>1, <4>1
      <4> QED
        BY <4>2, <4>3 DEF Snapped
    <3>7. importer'[i] = s1
      BY <1>2, <1>3, <3>1
    <3>8. ImporterFits(i)'
      BY <1>1, <1>2, <3>1, <3>2, <3>6, <3>7 DEF ImporterFits
    <3>9. snapshot' \in [ImportCases -> Import!Snapshots \cup {Nothing}]
      BY <3>1, <3>3 DEF ImportInv, ImportTypeOK
    <3>10. ToldFit'
      BY <3>1 DEF ImportInv, ToldFit
    <3> QED
      BY <1>2, <3>1, <3>5, <3>8, <3>9, <3>10, OneImporterGoes
         DEF ImportInv, ImportTypeOK
  <2> QED
    BY <2>1, <2>2
<1> QED
  BY <1>5, <1>6

LEMMA ImporterRegisters ==
    ASSUME ImportInv, NEW i \in Importers,
           \/ Import!Register(i) \/ Import!FindReview(i)
           \/ Import!CreateReview(i) \/ Import!Answer(i)
    PROVE  ImportInv'
<1> USE DEF Import!Sets, Import!Goes, Import!Ends, Import!At, Import!Rest
<1> DEFINE me == importer[i]
           s(p) == [me EXCEPT !.stage = p]
<1>1. /\ me \in Importing /\ ImporterFits(i) /\ Import!Idle \in Importing
      /\ Import!Idle.stage = "idle" /\ Import!Idle.known = FALSE
  BY DEF ImportInv, ImportTypeOK, Importing, Import!Idle, ImportStages
<1>2. \A p \in ImportStages :
         /\ s(p) \in Importing /\ s(p).case = me.case /\ s(p).sha = me.sha
         /\ s(p).known = me.known /\ s(p).stage = p
  BY <1>1 DEF Importing, ImportStages
<1>3. importer \in [Importers -> Importing]
  BY DEF ImportInv, ImportTypeOK, Importing
<1>4. ASSUME importer' = [importer EXCEPT ![i] = Import!Idle],
             UNCHANGED <<bench, snapshot, entry, desk, answered, record>>
      PROVE  ImportInv'
  <2>1. importer'[i] = Import!Idle
    BY <1>3, <1>4
  <2>2. ImporterFits(i)'
    BY <1>1, <2>1 DEF ImporterFits
  <2> QED
    BY <1>1, <1>4, <2>2, ImporterLooks
<1> HIDE DEF s
<1>5. ASSUME NEW p \in {"creating", "truncating", "filling", "answering"},
             importer' = [importer EXCEPT ![i] = s(p)],
             UNCHANGED <<bench, snapshot, entry, desk, answered>>,
             me.stage \in {"ensuring", "creating", "truncating", "filling"},
             record # "absent" => record' # "absent",
             p = "answering" => record' # "absent"
      PROVE  ImportInv'
  <2>1. p \in ImportStages
    BY DEF ImportStages
  <2>2. importer'[i] = s(p)
    BY <1>2, <1>3, <1>5, <2>1
  <2>3. ImporterFits(i)'
    BY <1>1, <1>2, <1>5, <2>1, <2>2 DEF ImporterFits
  <2> QED
    BY <1>2, <1>5, <2>1, <2>3, ImporterLooks
<1>6. CASE Import!Register(i)
  <2>1. CASE entry # Nothing
    BY <1>4, <1>6, <2>1 DEF Import!Register
  <2>2. CASE entry = Nothing
    <3> DEFINE e == [sha |-> me.sha, case |-> me.case]
    <3>1. /\ me.stage = "registering" /\ entry' = e
          /\ importer' = [importer EXCEPT ![i] = s("ensuring")]
          /\ UNCHANGED <<bench, snapshot, record, desk, answered>>
      BY <1>6, <2>2 DEF Import!Register, s
    <3>2. Snapped(me.case, me.sha) /\ e.case = me.case /\ e.sha = me.sha
      BY <1>1, <3>1 DEF ImporterFits
    <3>3. e \in [sha : Versions, case : ImportCases]
      BY <3>2 DEF Snapped
    <3>4. \A c, v : Snapped(c, v) => Snapped(c, v)'
      BY <3>1 DEF Snapped
    <3>5. "ensuring" \in ImportStages
      BY DEF ImportStages
    <3>6. importer'[i] = s("ensuring")
      BY <1>2, <1>3, <3>1, <3>5
    <3>7. entry' # Nothing /\ entry'.sha = me.sha
      BY <3>1, <3>2, <3>3, NoSnapshot
    <3>8. ImporterFits(i)'
      BY <1>1, <1>2, <3>1, <3>2, <3>5, <3>6, <3>7 DEF ImporterFits, Snapped
    <3>9. answered = {}
      BY <2>2 DEF ImportInv, ToldFit
    <3>10. ToldFit'
      BY <3>1, <3>9 DEF ToldFit
    <3>11. Snapped(entry'.case, entry'.sha)
      BY <3>1, <3>2
    <3> QED
      BY <1>2, <2>2, <3>1, <3>3, <3>4, <3>5, <3>8, <3>10, <3>11,
         OneImporterGoes DEF ImportInv, ImportTypeOK
  <2> QED
    BY <2>1, <2>2
<1>7. CASE Import!FindReview(i)
  <2>1. /\ me.stage = "ensuring"
        /\ UNCHANGED <<bench, snapshot, entry, record, desk, answered>>
        /\ \/ importer' = [importer EXCEPT ![i] = Import!Idle]
           \/ importer' = [importer EXCEPT ![i] = s("creating")]
           \/ /\ importer' = [importer EXCEPT ![i] = s("answering")]
              /\ record # "absent"
    BY <1>7 DEF Import!FindReview, s
  <2> QED
    BY <1>4, <1>5, <2>1
<1>8. CASE Import!CreateReview(i)
  <2>1. /\ me.stage \in {"creating", "truncating", "filling"}
        /\ UNCHANGED <<bench, snapshot, entry, desk, answered>>
        /\ record' = record \/ record' \in {"torn", "open"}
        /\ \/ /\ importer' = [importer EXCEPT ![i] = Import!Idle]
              /\ record' = record
           \/ importer' = [importer EXCEPT ![i] = s("truncating")]
           \/ importer' = [importer EXCEPT ![i] = s("filling")]
           \/ /\ importer' = [importer EXCEPT ![i] = s("answering")]
              /\ record' # "absent"
    BY <1>8 DEF Import!CreateReview, s
  <2> QED
    BY <1>4, <1>5, <2>1
<1>9. CASE Import!Answer(i)
  <2>1. /\ me.stage = "answering" /\ answered' = answered \cup {me.sha}
        /\ importer' = [importer EXCEPT ![i] = Import!Idle]
        /\ UNCHANGED <<bench, snapshot, entry, record, desk>>
    BY <1>9 DEF Import!Answer
  <2>2. ToldFit'
    BY <1>1, <2>1 DEF ImporterFits, ImportInv, ToldFit
  <2>3. importer'[i] = Import!Idle
    BY <1>1, <1>3, <2>1
  <2>4. ImporterFits(i)'
    BY <1>1, <2>3 DEF ImporterFits
  <2>5. \A c, v : Snapped(c, v) => Snapped(c, v)'
    BY <2>1 DEF Snapped
  <2> QED
    BY <1>1, <2>1, <2>2, <2>4, <2>5, OneImporterGoes
       DEF ImportInv, ImportTypeOK
<1> QED
  BY <1>6, <1>7, <1>8, <1>9

(* The control plane and those who edit leave the importers alone. *)
LEMMA OthersGoOn ==
    ASSUME ImportInv, UNCHANGED <<importer, entry, answered>>,
           snapshot' \in [ImportCases -> Import!Snapshots \cup {Nothing}],
           record # "absent" => record' # "absent",
           bench' \in Benches, desk' \in Desks,
           desk'.stage # "idle" => entry # Nothing,
           \/ \A c, v : Snapped(c, v) => Snapped(c, v)'
           \/ /\ entry = Nothing
              /\ \A i \in Importers : importer[i].stage = "idle"
    PROVE  ImportInv'
<1>1. ImportTypeOK'
  BY DEF ImportInv, ImportTypeOK
<1>2. DeskAsks' /\ ToldFit'
  BY DEF ImportInv, DeskAsks, ToldFit
<1>3. EntryFits'
  <2>1. CASE entry = Nothing
    BY <2>1 DEF EntryFits
  <2>2. CASE entry # Nothing
    <3>1. PICK c, v : c = entry.case /\ v = entry.sha
      OBVIOUS
    <3>2. Snapped(c, v)'
      BY <2>2, <3>1 DEF ImportInv, EntryFits
    <3> QED
      BY <3>1, <3>2 DEF EntryFits, Snapped
  <2> QED
    BY <2>1, <2>2
<1>4. ASSUME NEW i \in Importers PROVE ImporterFits(i)'
  <2>1. CASE \A c, v : Snapped(c, v) => Snapped(c, v)'
    BY <2>1, NothingTakenBack
  <2>2. CASE entry = Nothing /\ \A j \in Importers : importer[j].stage = "idle"
    BY <2>2 DEF ImporterFits, ImportInv
  <2> QED
    BY <2>1, <2>2
<1> QED
  BY <1>1, <1>2, <1>3, <1>4 DEF ImportInv

LEMMA OthersStep ==
    ASSUME ImportInv,
           \/ \E n \in {"decision", "export"} : Import!Ask(n)
           \/ Import!EnsureReview \/ Import!RecordDecision
           \/ Import!ListArtifacts
           \/ \E v \in Versions :
                 \/ Import!Edit(v)
                 \/ \E c \in ImportCases, f \in Import!Files :
                       Import!Tamper(c, f, v)
    PROVE  ImportInv'
<1>1. ASSUME snapshot' = snapshot
      PROVE  /\ \A c, v : Snapped(c, v) => Snapped(c, v)'
             /\ snapshot' \in [ImportCases -> Import!Snapshots \cup {Nothing}]
  BY <1>1 DEF Snapped, ImportInv, ImportTypeOK
<1>2. ASSUME NEW n \in {"decision", "export"}, Import!Ask(n)
      PROVE  ImportInv'
  BY <1>1, <1>2, OthersGoOn DEF Import!Ask, ImportInv, ImportTypeOK, Desks
<1>3. CASE Import!EnsureReview
  BY <1>1, <1>3, OthersGoOn DEF Import!EnsureReview, ImportInv, ImportTypeOK,
     DeskAsks, Desks
<1>4. CASE Import!RecordDecision
  BY <1>1, <1>4, OthersGoOn DEF Import!RecordDecision, ImportInv,
     ImportTypeOK, DeskAsks, Desks
<1>5. CASE Import!ListArtifacts
  <2>1. /\ desk.stage = "listing" /\ UNCHANGED <<bench, entry, record>>
        /\ UNCHANGED <<importer, answered>>
        /\ desk' = [desk EXCEPT !.stage = "idle"]
    BY <1>5 DEF Import!ListArtifacts
  <2>2. entry # Nothing /\ Snapped(entry.case, entry.sha)
    BY <2>1 DEF ImportInv, DeskAsks, EntryFits
  <2>3. PICK c \in ImportCases : c = entry.case /\ snapshot[c] # Nothing
    BY <2>2 DEF Snapped
  <2>4. snapshot[c] \in Import!Snapshots
    BY <2>3 DEF ImportInv, ImportTypeOK
  <2> DEFINE w == [snapshot[c] EXCEPT !.names = @ \cup {desk.name}]
  <2>5. /\ w \in Import!Snapshots /\ w.sha = snapshot[c].sha
        /\ w.files = snapshot[c].files
    BY <2>4 DEF Import!Snapshots, ImportInv, ImportTypeOK, Desks
  <2>6. snapshot' = [snapshot EXCEPT ![c] = w]
    BY <1>5, <2>3 DEF Import!ListArtifacts
  <2> HIDE DEF w
  <2>7. snapshot' \in [ImportCases -> Import!Snapshots \cup {Nothing}]
    BY <2>5, <2>6 DEF ImportInv, ImportTypeOK
  <2>8. \A d, v : Snapped(d, v) => Snapped(d, v)'
    BY <2>5, <2>6, NoSnapshot DEF Snapped, ImportInv, ImportTypeOK
  <2>9. desk' \in Desks /\ desk'.stage = "idle" /\ bench' \in Benches
    BY <2>1 DEF ImportInv, ImportTypeOK, Desks
  <2> QED
    BY <2>1, <2>7, <2>8, <2>9, OthersGoOn
<1>6. ASSUME NEW v \in Versions, Import!Edit(v)
      PROVE  ImportInv'
  <2>1. bench' \in Benches
    BY <1>6 DEF Import!Edit, ImportInv, ImportTypeOK, Benches
  <2> QED
    BY <1>1, <1>6, <2>1, OthersGoOn DEF Import!Edit, ImportInv, ImportTypeOK,
       DeskAsks
<1>7. ASSUME NEW v \in Versions, NEW c \in ImportCases,
             NEW f \in Import!Files, Import!Tamper(c, f, v)
      PROVE  ImportInv'
  <2>1. /\ snapshot[c] # Nothing /\ entry = Nothing
        /\ \A i \in Importers : importer[i].stage = "idle"
        /\ snapshot' = [snapshot EXCEPT ![c].files[f] = v]
        /\ UNCHANGED <<bench, entry, record, importer, desk, answered>>
    BY <1>7 DEF Import!Tamper, Import!At
  <2>2. snapshot[c] \in Import!Snapshots
    BY <2>1 DEF ImportInv, ImportTypeOK
  <2> DEFINE w == [snapshot[c] EXCEPT !.files[f] = v]
  <2>3. w \in Import!Snapshots
    BY <2>2 DEF Import!Snapshots
  <2>4. snapshot' = [snapshot EXCEPT ![c] = w]
    BY <2>1
  <2> HIDE DEF w
  <2>5. snapshot' \in [ImportCases -> Import!Snapshots \cup {Nothing}]
    BY <2>3, <2>4 DEF ImportInv, ImportTypeOK
  <2> QED
    BY <2>1, <2>5, OthersGoOn DEF ImportInv, ImportTypeOK, DeskAsks
<1> QED
  BY <1>2, <1>3, <1>4, <1>5, <1>6, <1>7

LEMMA ImportNext ==
    ImportInv /\ [Import!ImportNext]_(Import!importVars) => ImportInv'
<1> SUFFICES ASSUME ImportInv, [Import!ImportNext]_(Import!importVars)
             PROVE  ImportInv'
  OBVIOUS
<1>1. CASE UNCHANGED Import!importVars
  <2>1. \A c, v : Snapped(c, v) => Snapped(c, v)'
    BY <1>1 DEF Import!importVars, Snapped
  <2> QED
    BY <1>1, <2>1, OthersGoOn DEF Import!importVars, ImportInv, ImportTypeOK,
       DeskAsks
<1>2. CASE Import!ImportNext
  BY <1>2, ImporterVerifies, ImporterPublishes, ImporterRegisters, OthersStep
     DEF Import!ImportNext
<1> QED
  BY <1>1, <1>2

(* An import that was answered is on record as one piece, whoever imports  *)
(* at the same time, edits the evaluation, decides, exports or breaks off. *)
THEOREM ImportsAreBacked == Import!ImportSpec => []ImportIsBacked
<1>1. ImportInv => ImportIsBacked
  BY DEF ImportInv, ToldFit, EntryFits, Snapped, ImportIsBacked,
     Import!ImportIsBacked
<1> QED
  BY <1>1, ImportInit, ImportNext, PTL DEF Import!ImportSpec
-----------------------------------------------------------------------------
(* The replay of an ADK run *)

(* What the files of the run are when nobody changes them. *)
Own(f) == Evidence!Original(f, Given)
OwnManifest(s) == Evidence!Digested(s, Given)
OwnLists == [s \in Evidence!Steps |-> OwnManifest(s)]

StepFiles == Evidence!Complete \cup {"run_manifest"}

WorkerStages ==
    {"publishing", "reading", "sealing", "listing", "closing", "ending",
     "over"}

DiskOK ==
    disk = [s \in Evidence!Steps |-> [f \in StepFiles |-> disk[s][f]]]

EvidenceTypeOK ==
    /\ DiskOK
    /\ runStatus \in {"running", "completed", "failed"}
    /\ worker = [stage |-> worker.stage, step |-> worker.step,
                 at |-> worker.at, sealed |-> worker.sealed,
                 listed |-> worker.listed]
    /\ worker.listed = [s \in Evidence!Steps |-> worker.listed[s]]
    /\ worker.stage \in WorkerStages /\ worker.step \in Evidence!Steps
    /\ replay = [stage |-> replay.stage, at |-> replay.at,
                 root |-> replay.root, step |-> replay.step,
                 seen |-> replay.seen]
    /\ replay.stage \in {"idle", "manifests", "artifacts", "calculating"}
    /\ runManifest = [input |-> runManifest.input,
                      listed |-> runManifest.listed]
    /\ altered \in Nat /\ early \in Nat /\ crafted \in BOOLEAN

(* The worker is at work as long as the run is running; the first step's   *)
(* manifest, whoever wrote it, lists no result.                            *)
WorkerFits ==
    /\ worker.stage # "over" <=> runStatus = "running"
    /\ worker.stage = "publishing" => worker.at \in 1 .. 2 + worker.step
    /\ worker.stage = "reading" => worker.at \in 1 .. 4
    /\ disk[1]["run_manifest"] = Nothing
       \/ disk[1]["run_manifest"].paths = Evidence!Data(1)

(* The artifacts whose digests the worker has collected. *)
Collected ==
    IF worker.at = 2 THEN {}
    ELSE IF worker.at = 3 THEN {"case_input"}
    ELSE {"case_input", "deterministic_result"}

(* While the worker is at work, and nobody has changed anything. *)
Undisturbed ==
    early = 0 /\ runStatus = "running" =>
        /\ \A s \in Evidence!Steps, f \in Evidence!Complete :
              disk[s][f] \in {Nothing, Own(f)}
        /\ disk[1]["run_manifest"] \in {Nothing, OwnManifest(1)}
        /\ worker.stage \in {"publishing", "reading", "sealing"} =>
              disk[2]["run_manifest"] \in {Nothing, Evidence!Undigested(2)}
        /\ worker.stage = "reading" /\ worker.at > 1 =>
              worker.sealed =
                 [paths |-> Evidence!Complete,
                  digests |-> [f \in Evidence!Complete |->
                     IF f \in Collected THEN Own(f) ELSE Nothing]]
        /\ worker.stage = "sealing" => worker.sealed = OwnManifest(2)
        /\ worker.stage = "listing" =>
              /\ disk[2]["run_manifest"] = OwnManifest(2)
              /\ worker.step = 2 => worker.listed[1] = OwnManifest(1)
        /\ worker.stage = "closing" => worker.listed = OwnLists

(* Nothing was changed before the run had completed, or its manifest was   *)
(* made by hand: what a manifest lists need not be the run's own.          *)
Disturbed == crafted \/ early > 0

RootFits ==
    \/ Disturbed \/ runManifest.input # Given
    \/ runManifest.listed \in {Evidence!Initial.listed, OwnLists}

(* What a replay has read matches what was listed. *)
ReplayFits ==
    /\ replay.stage # "idle" => runStatus = "completed"
    /\ replay.stage = "manifests" =>
          /\ replay.at \in Evidence!Steps
          /\ replay.seen = [s \in Evidence!Steps |-> replay.seen[s]]
          /\ replay.root = [input |-> replay.root.input,
                            listed |-> replay.root.listed]
          /\ replay.at = 2 =>
                /\ replay.seen[1] = replay.root.listed[1]
                /\ replay.seen[1].paths = Evidence!Data(1)
          /\ Disturbed \/ replay.root.listed = OwnLists
    /\ replay.stage = "artifacts" => replay.at \in 1 .. 3
    /\ replay.stage \in {"artifacts", "calculating"} =>
          /\ replay.step = 2
          /\ replay.seen = [f \in Evidence!Complete |-> replay.seen[f]]
          /\ \A k \in 1 .. 3 :
                replay.stage = "calculating" \/ k < replay.at =>
                   replay.seen[Evidence!EvidenceOrder[k]] # Nothing
          /\ \/ Disturbed
             \/ /\ replay.root.listed[2] = OwnManifest(2)
                /\ \A f \in Evidence!Complete :
                      replay.seen[f] \in {Nothing, Own(f)}

(* The artifacts that are, or were read as, another's: one change each.    *)
Tainted ==
    {f \in Evidence!Complete :
        \/ disk[2][f] \notin {Nothing, Own(f)}
        \/ /\ replay.stage \in {"artifacts", "calculating"}
           /\ replay.seen[f] \notin {Nothing, Own(f)}}

ChangesCount ==
    ~crafted /\ (early > 0 \/ runStatus = "running") =>
        Cardinality(Tainted) <= altered

ReplayedFits ==
    replayed # Nothing =>
        /\ replayed.changes \in Nat
        /\ \/ replayed.crafted
           \/ replayed.changes >= 3 /\ replayed.early # 0
           \/ replayed.result = Own("deterministic_result")

EvidenceInv ==
    /\ EvidenceTypeOK /\ WorkerFits /\ Undisturbed /\ RootFits /\ ReplayFits
    /\ ChangesCount /\ ReplayedFits

LEMMA Originals ==
    \A x : /\ Evidence!Original("validated_input", x) = Evidence!Input(x)
           /\ Evidence!Original("case_input", x) =
                 Evidence!CaseOf(Evidence!Input(x))
           /\ Evidence!Original("deterministic_result", x) =
                 Evidence!Calculated(Evidence!CaseOf(Evidence!Input(x)))
BY DEF Evidence!Original

LEMMA TaintedCount ==
    /\ IsFiniteSet(Tainted) /\ Cardinality(Tainted) \in Nat
    /\ \A T \in SUBSET Tainted :
          Cardinality(T) \in Nat /\ Cardinality(T) <= Cardinality(Tainted)
    /\ \A f, T : T \subseteq Tainted \cup {f} =>
          /\ Cardinality(T) \in Nat
          /\ Cardinality(T) <= Cardinality(Tainted) + 1
    /\ Tainted = Evidence!Complete => Cardinality(Tainted) = 3
<1> DEFINE C == {"validated_input", "case_input", "deterministic_result"}
<1>1. C = Evidence!Complete
  BY DEF Evidence!Complete
<1>2. IsFiniteSet(C) /\ Cardinality(C) = 3
  <2>1. /\ IsFiniteSet({"validated_input"})
        /\ Cardinality({"validated_input"}) = 1
    BY FS_Singleton
  <2>2. /\ IsFiniteSet({"validated_input"} \cup {"case_input"})
        /\ Cardinality({"validated_input"} \cup {"case_input"}) = 2
    BY <2>1, FS_AddElement
  <2>3. C = ({"validated_input"} \cup {"case_input"})
               \cup {"deterministic_result"}
    OBVIOUS
  <2> QED
    BY <2>2, <2>3, FS_AddElement
<1>3. IsFiniteSet(Tainted) /\ Cardinality(Tainted) \in Nat
  BY <1>1, <1>2, FS_Subset, FS_CardinalityType DEF Tainted
<1>4. \A T \in SUBSET Tainted :
         Cardinality(T) \in Nat /\ Cardinality(T) <= Cardinality(Tainted)
  BY <1>3, FS_Subset, FS_CardinalityType
<1>5. ASSUME NEW f, NEW T, T \subseteq Tainted \cup {f}
      PROVE  /\ Cardinality(T) \in Nat
             /\ Cardinality(T) <= Cardinality(Tainted) + 1
  <2>1. /\ IsFiniteSet(Tainted \cup {f})
        /\ Cardinality(Tainted \cup {f}) <= Cardinality(Tainted) + 1
    BY <1>3, FS_AddElement
  <2>2. /\ Cardinality(T) <= Cardinality(Tainted \cup {f})
        /\ Cardinality(T) \in Nat /\ Cardinality(Tainted \cup {f}) \in Nat
    BY <1>5, <2>1, FS_Subset, FS_CardinalityType
  <2> QED
    BY <1>3, <2>1, <2>2
<1> QED
  BY <1>1, <1>2, <1>3, <1>4, <1>5

LEMMA EvidenceInit == Evidence!EvidenceInit => EvidenceInv
<1> SUFFICES ASSUME Evidence!EvidenceInit PROVE EvidenceInv
  OBVIOUS
<1>1. EvidenceTypeOK
  BY DEF Evidence!EvidenceInit, EvidenceTypeOK, DiskOK, StepFiles,
     Evidence!Steps, Evidence!Complete, WorkerStages, Evidence!Initial
<1>2. WorkerFits /\ Undisturbed
  BY DEF Evidence!EvidenceInit, WorkerFits, Undisturbed, StepFiles,
     Evidence!Steps, Evidence!Complete, WorkerStages
<1>3. RootFits /\ ReplayFits /\ ReplayedFits
  BY DEF Evidence!EvidenceInit, RootFits, ReplayFits, ReplayedFits
<1>4. Tainted = {}
  BY DEF Evidence!EvidenceInit, Tainted, Evidence!Steps
<1>5. ChangesCount
  BY <1>4, FS_EmptySet DEF ChangesCount, Evidence!EvidenceInit
<1> QED
  BY <1>1, <1>2, <1>3, <1>5 DEF EvidenceInv

(* The worker has its files to itself as far as a replay is concerned.     *)
LEMMA WorkerKeepsInv ==
    ASSUME EvidenceInv, worker.stage # "over",
           UNCHANGED <<replay, altered, early, crafted, replayed>>,
           EvidenceTypeOK', WorkerFits', Undisturbed', RootFits',
           \A f \in Evidence!Complete : disk'[2][f] \in {disk[2][f], Own(f)}
    PROVE  EvidenceInv'
<1>1. runStatus = "running" /\ replay.stage = "idle"
  BY DEF EvidenceInv, WorkerFits, ReplayFits, EvidenceTypeOK
<1>2. ReplayFits' /\ ReplayedFits'
  BY <1>1 DEF EvidenceInv, ReplayFits, ReplayedFits
<1>3. Tainted' \subseteq Tainted
  BY <1>1 DEF Tainted
<1>4. ChangesCount'
  BY <1>1, <1>3, TaintedCount
     DEF EvidenceInv, ChangesCount, EvidenceTypeOK
<1> QED
  BY <1>2, <1>4 DEF EvidenceInv

LEMMA WorkerPublishes ==
    ASSUME EvidenceInv, Evidence!Publish
    PROVE  EvidenceInv'
<1> DEFINE s == worker.step
           f == Evidence!PublishOrder(s)[worker.at]
           v == IF f # "run_manifest" THEN Own(f)
                ELSE IF s = 1 THEN OwnManifest(1) ELSE Evidence!Undigested(2)
<1>1. /\ worker.stage = "publishing" /\ runStatus = "running"
      /\ s \in Evidence!Steps /\ worker.at \in 1 .. 2 + s
  BY DEF Evidence!Publish, EvidenceInv, WorkerFits, EvidenceTypeOK
<1>2. /\ f \in StepFiles
      /\ f = "run_manifest" <=> worker.at = 2 + s
  BY <1>1 DEF Evidence!PublishOrder, StepFiles, Evidence!Complete,
     Evidence!Steps
<1>3. /\ disk' = [disk EXCEPT ![s][f] = v]
      /\ UNCHANGED <<runManifest, runStatus, replay, altered, early, crafted,
                     replayed>>
  BY <1>1 DEF Evidence!Publish, Evidence!Aside, Own, OwnManifest,
     Evidence!Steps
<1>4. PICK p, k, n :
         /\ worker' = [worker EXCEPT !.stage = p, !.step = k, !.at = n]
         /\ \/ /\ p = "publishing" /\ k = s /\ n = worker.at + 1
               /\ worker.at # 2 + s
            \/ p \in {"publishing", "reading"} /\ k = 2 /\ n = 1
  BY <1>1, <1>2 DEF Evidence!Publish, Evidence!Goes
<1>5. /\ worker' = [stage |-> worker'.stage, step |-> worker'.step,
                    at |-> worker'.at, sealed |-> worker'.sealed,
                    listed |-> worker'.listed]
      /\ worker'.listed = worker.listed
      /\ worker'.stage = p /\ worker'.step = k /\ worker'.at = n
  BY <1>4 DEF EvidenceInv, EvidenceTypeOK
<1>6. /\ worker'.stage \in {"publishing", "reading"}
      /\ worker'.step \in Evidence!Steps
      /\ worker'.stage = "publishing" => worker'.at \in 1 .. 2 + worker'.step
      /\ worker'.stage = "reading" => worker'.at = 1
  BY <1>1, <1>4, <1>5 DEF Evidence!Steps
<1> HIDE DEF v, f
<1>7. /\ DiskOK'
      /\ \A t \in Evidence!Steps, g \in StepFiles :
            disk'[t][g] = IF t = s /\ g = f THEN v ELSE disk[t][g]
  <2>1. DiskOK
    BY DEF EvidenceInv, EvidenceTypeOK
  <2> HIDE DEF s
  <2>2. s \in Evidence!Steps /\ f \in StepFiles
    BY <1>1, <1>2
  <2>3. disk' = [disk EXCEPT ![s][f] = v]
    BY <1>3
  <2> QED
    BY <2>1, <2>2, <2>3 DEF DiskOK
<1>8. /\ 1 \in Evidence!Steps /\ 2 \in Evidence!Steps
      /\ Evidence!Complete \subseteq StepFiles
      /\ "run_manifest" \in StepFiles \ Evidence!Complete
      /\ OwnManifest(1).paths = Evidence!Data(1)
  BY DEF Evidence!Steps, StepFiles, Evidence!Complete, OwnManifest,
     Evidence!Digested
<1>9. EvidenceTypeOK'
  BY <1>3, <1>5, <1>6, <1>7 DEF EvidenceInv, EvidenceTypeOK, WorkerStages
<1>10. WorkerFits'
  BY <1>1, <1>2, <1>3, <1>6, <1>7, <1>8 DEF EvidenceInv, WorkerFits, v
<1>11. Undisturbed'
  <2> SUFFICES ASSUME early = 0 PROVE Undisturbed'
    BY <1>3 DEF Undisturbed
  <2>1. \A t \in Evidence!Steps, g \in Evidence!Complete :
           disk'[t][g] \in {Nothing, Own(g)}
    BY <1>1, <1>7, <1>8 DEF EvidenceInv, Undisturbed, v
  <2>2. /\ disk'[1]["run_manifest"] \in {Nothing, OwnManifest(1)}
        /\ disk'[2]["run_manifest"] \in {Nothing, Evidence!Undigested(2)}
    BY <1>1, <1>7, <1>8 DEF EvidenceInv, Undisturbed, v
  <2> QED
    BY <1>6, <2>1, <2>2 DEF Undisturbed
<1>12. RootFits'
  BY <1>3 DEF EvidenceInv, RootFits, Disturbed
<1>13. \A g \in Evidence!Complete : disk'[2][g] \in {disk[2][g], Own(g)}
  BY <1>7, <1>8 DEF v
<1> QED
  BY <1>1, <1>3, <1>9, <1>10, <1>11, <1>12, <1>13, WorkerKeepsInv

(* The run ends, whatever the worker was doing. *)
LEMMA RunEnds ==
    ASSUME EvidenceInv, worker.stage # "over",
           runStatus' \in {"completed", "failed"}, Evidence!Goes("over", 1, 1),
           UNCHANGED <<disk, runManifest, Evidence!Aside>>
    PROVE  EvidenceInv'
<1>1. /\ worker' = [stage |-> worker'.stage, step |-> worker'.step,
                    at |-> worker'.at, sealed |-> worker'.sealed,
                    listed |-> worker'.listed]
      /\ worker'.listed = worker.listed
      /\ worker'.stage = "over" /\ worker'.step = 1
  BY DEF Evidence!Goes, EvidenceInv, EvidenceTypeOK
<1>2. EvidenceTypeOK' /\ WorkerFits' /\ Undisturbed'
  <2>1. DiskOK'
    BY DEF EvidenceInv, EvidenceTypeOK, DiskOK
  <2>2. EvidenceTypeOK'
    BY <1>1, <2>1 DEF EvidenceInv, EvidenceTypeOK, Evidence!Aside,
       WorkerStages, Evidence!Steps
  <2>3. WorkerFits'
    BY <1>1 DEF EvidenceInv, WorkerFits
  <2>4. Undisturbed'
    BY DEF Undisturbed
  <2> QED
    BY <2>2, <2>3, <2>4
<1>3. RootFits'
  BY DEF EvidenceInv, RootFits, Disturbed, Evidence!Aside
<1> QED
  BY <1>2, <1>3, WorkerKeepsInv DEF Evidence!Aside

LEMMA WorkerReadsBack ==
    ASSUME EvidenceInv, Evidence!ReadBack
    PROVE  EvidenceInv'
<1> DEFINE f == Evidence!ReadOrder[worker.at]
           content == disk[2][f]
           last1 == worker.at = 4
<1>1. worker.stage = "reading" /\ worker.at \in 1 .. 4 /\ runStatus = "running"
  BY DEF Evidence!ReadBack, EvidenceInv, WorkerFits
<1>2. CASE content = Nothing
  BY <1>1, <1>2, RunEnds
     DEF Evidence!ReadBack, Evidence!FailRun, Evidence!Aside
<1>3. CASE content # Nothing
  <2> DEFINE sealed == IF f = "run_manifest"
                THEN [content EXCEPT !.paths = @ \cup Evidence!Complete]
                ELSE [worker.sealed EXCEPT !.digests[f] = content]
  <2>1. /\ worker' = [worker EXCEPT !.sealed = sealed,
                 !.stage = IF last1 THEN "sealing" ELSE @,
                 !.at = IF last1 THEN 1 ELSE @ + 1]
        /\ UNCHANGED <<disk, runManifest, runStatus, replay, altered, early,
                       crafted, replayed>>
    BY <1>3 DEF Evidence!ReadBack, Evidence!Aside, Evidence!ReadOrder
  <2>2. /\ worker' = [stage |-> worker'.stage, step |-> worker'.step,
                      at |-> worker'.at, sealed |-> worker'.sealed,
                      listed |-> worker'.listed]
        /\ worker'.listed = worker.listed /\ worker'.step = worker.step
        /\ worker'.sealed = sealed
        /\ worker'.stage = IF last1 THEN "sealing" ELSE "reading"
        /\ worker'.at = IF last1 THEN 1 ELSE worker.at + 1
    BY <1>1, <2>1 DEF EvidenceInv, EvidenceTypeOK
  <2>3. EvidenceTypeOK' /\ WorkerFits'
    <3>1. DiskOK'
      BY <2>1 DEF EvidenceInv, EvidenceTypeOK, DiskOK
    <3> HIDE DEF sealed, last1
    <3>2. EvidenceTypeOK'
      BY <2>1, <2>2, <3>1 DEF EvidenceInv, EvidenceTypeOK, WorkerStages
    <3>3. WorkerFits'
      BY <1>1, <2>1, <2>2 DEF EvidenceInv, WorkerFits, last1
    <3> QED
      BY <3>2, <3>3
  <2>4. ASSUME early = 0
        PROVE  /\ last1 => sealed = OwnManifest(2)
               /\ ~last1 => sealed =
                     [paths |-> Evidence!Complete,
                      digests |-> [g \in Evidence!Complete |->
                         IF g \in Collected' THEN Own(g) ELSE Nothing]]
    <3>1. /\ \A g \in Evidence!Complete : disk[2][g] \in {Nothing, Own(g)}
          /\ disk[2]["run_manifest"] \in {Nothing, Evidence!Undigested(2)}
          /\ worker.at > 1 =>
                worker.sealed =
                   [paths |-> Evidence!Complete,
                    digests |-> [g \in Evidence!Complete |->
                       IF g \in Collected THEN Own(g) ELSE Nothing]]
      BY <1>1, <2>4 DEF EvidenceInv, Undisturbed, Evidence!Steps
    <3>2. /\ Evidence!Undigested(2) =
                [paths |-> Evidence!Complete,
                 digests |-> [g \in Evidence!Complete |-> Nothing]]
          /\ OwnManifest(2) =
                [paths |-> Evidence!Complete,
                 digests |-> [g \in Evidence!Complete |-> Own(g)]]
      BY DEF Evidence!Undigested, Evidence!NoDigests, Evidence!Data,
         OwnManifest, Evidence!Digested, Own
    <3>3. CASE worker.at = 1
      <4>1. f = "run_manifest" /\ ~last1 /\ worker'.at = 2
        BY <2>2, <3>3 DEF Evidence!ReadOrder
      <4>2. sealed = [content EXCEPT !.paths = @ \cup Evidence!Complete]
        BY <4>1
      <4>3. content = Evidence!Undigested(2)
        BY <1>3, <3>1, <4>1
      <4>4. sealed = [paths |-> Evidence!Complete,
                digests |-> [g \in Evidence!Complete |-> Nothing]]
        BY <3>2, <4>2, <4>3
      <4> QED
        BY <4>1, <4>4 DEF Collected
    <3>4. CASE worker.at > 1
      <4>1. /\ f = IF worker.at = 2 THEN "case_input"
                    ELSE IF worker.at = 3 THEN "deterministic_result"
                    ELSE "validated_input"
            /\ f \in Evidence!Complete /\ f # "run_manifest"
        BY <1>1, <3>4 DEF Evidence!ReadOrder, Evidence!Complete
      <4>2. content = Own(f)
        BY <1>3, <3>1, <4>1
      <4>3. sealed = [paths |-> Evidence!Complete,
                digests |-> [g \in Evidence!Complete |->
                   IF g = f \/ g \in Collected THEN Own(g) ELSE Nothing]]
        BY <3>1, <3>4, <4>1, <4>2
      <4> HIDE DEF sealed, content
      <4>4. CASE worker.at = 4
        <5>1. \A g \in Evidence!Complete : g = f \/ g \in Collected
          BY <4>1, <4>4 DEF Collected, Evidence!Complete
        <5> QED
          BY <3>2, <4>3, <4>4, <5>1
      <4>5. CASE worker.at # 4
        <5>1. \A g \in Evidence!Complete :
                 g = f \/ g \in Collected <=> g \in Collected'
          BY <1>1, <2>2, <3>4, <4>1, <4>5 DEF Collected, Evidence!Complete
        <5> QED
          BY <4>3, <4>5, <5>1
      <4> QED
        BY <4>4, <4>5
    <3> QED
      BY <1>1, <3>3, <3>4
  <2>5. Undisturbed'
    BY <1>1, <2>1, <2>2, <2>4 DEF EvidenceInv, Undisturbed
  <2>6. RootFits'
    BY <2>1 DEF EvidenceInv, RootFits, Disturbed
  <2> QED
    BY <1>1, <2>1, <2>3, <2>5, <2>6, WorkerKeepsInv
<1> QED
  BY <1>2, <1>3

LEMMA WorkerSeals ==
    ASSUME EvidenceInv, Evidence!Seal
    PROVE  EvidenceInv'
<1>1. worker.stage = "sealing" /\ runStatus = "running" /\ DiskOK
  BY DEF Evidence!Seal, EvidenceInv, WorkerFits, EvidenceTypeOK
<1>2. /\ disk' = [disk EXCEPT ![2]["run_manifest"] = worker.sealed]
      /\ UNCHANGED <<runManifest, runStatus, replay, altered, early, crafted,
                     replayed>>
  BY DEF Evidence!Seal, Evidence!Aside
<1>3. /\ worker' = [stage |-> worker'.stage, step |-> worker'.step,
                    at |-> worker'.at, sealed |-> worker'.sealed,
                    listed |-> worker'.listed]
      /\ worker'.listed = worker.listed /\ worker'.sealed = worker.sealed
      /\ worker'.stage = "listing" /\ worker'.step = 1 /\ worker'.at = 1
  BY DEF Evidence!Seal, Evidence!Goes, EvidenceInv, EvidenceTypeOK
<1>4. /\ 1 \in Evidence!Steps /\ 2 \in Evidence!Steps
      /\ Evidence!Complete \subseteq StepFiles
      /\ "run_manifest" \in StepFiles \ Evidence!Complete
  BY DEF Evidence!Steps, StepFiles, Evidence!Complete
<1>5. /\ DiskOK'
      /\ \A t \in Evidence!Steps, g \in StepFiles :
            disk'[t][g] = IF t = 2 /\ g = "run_manifest" THEN worker.sealed
                          ELSE disk[t][g]
  <2>1. DOMAIN disk = Evidence!Steps
        /\ \A t \in Evidence!Steps : DOMAIN disk[t] = StepFiles
    BY <1>1 DEF DiskOK
  <2>2. disk' = [t \in Evidence!Steps |-> [g \in StepFiles |->
                    IF t = 2 /\ g = "run_manifest" THEN worker.sealed
                    ELSE disk[t][g]]]
    BY <1>1, <1>2, <1>4, <2>1 DEF DiskOK
  <2> QED
    BY <2>2 DEF DiskOK
<1>6. EvidenceTypeOK'
  BY <1>2, <1>3, <1>4, <1>5 DEF EvidenceInv, EvidenceTypeOK, WorkerStages
<1>7. WorkerFits'
  BY <1>1, <1>2, <1>3, <1>4, <1>5 DEF EvidenceInv, WorkerFits
<1>8. Undisturbed'
  BY <1>1, <1>2, <1>3, <1>4, <1>5 DEF EvidenceInv, Undisturbed
<1>9. RootFits'
  BY <1>2 DEF EvidenceInv, RootFits, Disturbed
<1>10. \A g \in Evidence!Complete : disk'[2][g] \in {disk[2][g], Own(g)}
  BY <1>4, <1>5
<1> QED
  BY <1>1, <1>2, <1>6, <1>7, <1>8, <1>9, <1>10, WorkerKeepsInv

LEMMA WorkerLists ==
    ASSUME EvidenceInv, Evidence!ListStep
    PROVE  EvidenceInv'
<1> DEFINE s == worker.step
           content == disk[s]["run_manifest"]
<1>1. /\ worker.stage = "listing" /\ s \in Evidence!Steps
      /\ runStatus = "running"
  BY DEF Evidence!ListStep, EvidenceInv, WorkerFits, EvidenceTypeOK
<1>2. CASE content = Nothing
  BY <1>1, <1>2, RunEnds
     DEF Evidence!ListStep, Evidence!FailRun, Evidence!Aside
<1>3. CASE content # Nothing
  <2>1. /\ worker' = [worker EXCEPT !.listed[s] = content,
                 !.stage = IF s = 2 THEN "closing" ELSE @,
                 !.step = IF s = 2 THEN 1 ELSE 2]
        /\ UNCHANGED <<disk, runManifest, runStatus, replay, altered, early,
                       crafted, replayed>>
    BY <1>3 DEF Evidence!ListStep, Evidence!Aside
  <2>2. /\ worker' = [stage |-> worker'.stage, step |-> worker'.step,
                      at |-> worker'.at, sealed |-> worker'.sealed,
                      listed |-> worker'.listed]
        /\ worker'.listed = [worker.listed EXCEPT ![s] = content]
        /\ worker'.stage = IF s = 2 THEN "closing" ELSE "listing"
        /\ worker'.step = IF s = 2 THEN 1 ELSE 2
    BY <1>1, <2>1 DEF EvidenceInv, EvidenceTypeOK
  <2> HIDE DEF content
  <2>3. /\ worker'.listed = [t \in Evidence!Steps |-> worker'.listed[t]]
        /\ \A t \in Evidence!Steps :
              worker'.listed[t] = IF t = s THEN content ELSE worker.listed[t]
    <3>1. worker.listed = [t \in Evidence!Steps |-> worker.listed[t]]
      BY DEF EvidenceInv, EvidenceTypeOK
    <3> QED
      BY <1>1, <2>2, <3>1
  <2>4. EvidenceTypeOK'
    <3>1. DiskOK'
      BY <2>1 DEF EvidenceInv, EvidenceTypeOK, DiskOK
    <3> QED
      BY <1>1, <2>1, <2>2, <2>3, <3>1
         DEF EvidenceInv, EvidenceTypeOK, WorkerStages, Evidence!Steps
  <2>5. WorkerFits'
    BY <1>1, <2>1, <2>2 DEF EvidenceInv, WorkerFits
  <2>6. Undisturbed'
    <3> SUFFICES ASSUME early = 0 PROVE Undisturbed'
      BY <2>1 DEF Undisturbed
    <3>1. content = OwnManifest(s)
      BY <1>1, <1>3 DEF EvidenceInv, Undisturbed, content, Evidence!Steps
    <3>2. /\ s = 2 => worker'.listed = OwnLists
          /\ s = 1 => worker'.listed[1] = OwnManifest(1)
      BY <1>1, <2>3, <3>1
         DEF EvidenceInv, Undisturbed, OwnLists, Evidence!Steps
    <3> QED
      BY <1>1, <2>1, <2>2, <3>2
         DEF EvidenceInv, Undisturbed, Evidence!Steps
  <2>7. RootFits'
    BY <2>1 DEF EvidenceInv, RootFits, Disturbed
  <2> QED
    BY <1>1, <2>1, <2>4, <2>5, <2>6, <2>7, WorkerKeepsInv
<1> QED
  BY <1>2, <1>3

LEMMA WorkerCloses ==
    ASSUME EvidenceInv, Evidence!Close
    PROVE  EvidenceInv'
<1>1. worker.stage = "closing" /\ runStatus = "running"
  BY DEF Evidence!Close, EvidenceInv, WorkerFits
<1>2. /\ runManifest' = [input |-> Given, listed |-> worker.listed]
      /\ UNCHANGED <<disk, runStatus, replay, altered, early, crafted,
                     replayed>>
  BY DEF Evidence!Close, Evidence!Aside
<1>3. /\ worker' = [stage |-> worker'.stage, step |-> worker'.step,
                    at |-> worker'.at, sealed |-> worker'.sealed,
                    listed |-> worker'.listed]
      /\ worker'.listed = worker.listed
      /\ worker'.stage = "ending" /\ worker'.step = 1
  BY DEF Evidence!Close, Evidence!Goes, EvidenceInv, EvidenceTypeOK
<1>4. DiskOK'
  BY <1>2 DEF EvidenceInv, EvidenceTypeOK, DiskOK
<1>5. EvidenceTypeOK'
  BY <1>2, <1>3, <1>4
     DEF EvidenceInv, EvidenceTypeOK, WorkerStages, Evidence!Steps
<1>6. WorkerFits'
  BY <1>1, <1>2, <1>3 DEF EvidenceInv, WorkerFits
<1>7. Undisturbed'
  BY <1>1, <1>2, <1>3 DEF EvidenceInv, Undisturbed
<1>8. RootFits'
  BY <1>1, <1>2 DEF EvidenceInv, Undisturbed, RootFits, Disturbed,
     EvidenceTypeOK
<1> QED
  BY <1>1, <1>2, <1>5, <1>6, <1>7, <1>8, WorkerKeepsInv

LEMMA WorkerStops ==
    ASSUME EvidenceInv, Evidence!End \/ Evidence!Break
    PROVE  EvidenceInv'
BY RunEnds DEF Evidence!End, Evidence!Break, Evidence!FailRun

(* A replay reads, and keeps what it has read. *)
LEMMA ReplayKeepsInv ==
    ASSUME EvidenceInv, UNCHANGED Evidence!Beside,
           replay' = [stage |-> replay'.stage, at |-> replay'.at,
                      root |-> replay'.root, step |-> replay'.step,
                      seen |-> replay'.seen],
           replay'.stage \in {"idle", "manifests", "artifacts", "calculating"},
           ReplayFits', ReplayedFits', Tainted' \subseteq Tainted
    PROVE  EvidenceInv'
<1>1. DiskOK'
  BY DEF EvidenceInv, EvidenceTypeOK, DiskOK, Evidence!Beside
<1>2. EvidenceTypeOK'
  BY <1>1 DEF EvidenceInv, EvidenceTypeOK, Evidence!Beside
<1>3. WorkerFits'
  BY DEF EvidenceInv, WorkerFits, Evidence!Beside
<1>4. Undisturbed'
  BY DEF EvidenceInv, Undisturbed, Collected, Evidence!Beside
<1>5. RootFits'
  BY DEF EvidenceInv, RootFits, Disturbed, Evidence!Beside
<1>6. ChangesCount'
  BY TaintedCount
     DEF EvidenceInv, EvidenceTypeOK, ChangesCount, Evidence!Beside
<1> QED
  BY <1>2, <1>3, <1>4, <1>5, <1>6 DEF EvidenceInv

LEMMA ReplayRefused ==
    ASSUME EvidenceInv, UNCHANGED Evidence!Beside, Evidence!Refused
    PROVE  EvidenceInv'
<1>1. /\ replay' = [stage |-> replay'.stage, at |-> replay'.at,
                    root |-> replay'.root, step |-> replay'.step,
                    seen |-> replay'.seen]
      /\ replay'.stage = "idle"
  BY DEF Evidence!Refused, EvidenceInv, EvidenceTypeOK
<1>2. ReplayFits' /\ ReplayedFits'
  BY <1>1 DEF Evidence!Refused, EvidenceInv, ReplayFits, ReplayedFits
<1>3. Tainted' \subseteq Tainted
  BY <1>1 DEF Tainted, Evidence!Beside
<1> QED
  BY <1>1, <1>2, <1>3, ReplayKeepsInv

LEMMA ReplayBegins ==
    ASSUME EvidenceInv, Evidence!BeginReplay
    PROVE  EvidenceInv'
<1>1. /\ replay' = [stage |-> "manifests", at |-> 1, root |-> runManifest,
                    step |-> 1, seen |-> [s \in Evidence!Steps |-> Nothing]]
      /\ runStatus = "completed" /\ runManifest.input = Given
      /\ runManifest.listed # Evidence!Initial.listed
      /\ UNCHANGED <<Evidence!Beside, replayed>>
  BY DEF Evidence!BeginReplay
<1>2. ReplayFits'
  <2>1. Disturbed \/ runManifest.listed = OwnLists
    BY <1>1 DEF EvidenceInv, RootFits
  <2>2. /\ runManifest = [input |-> runManifest.input,
                          listed |-> runManifest.listed]
        /\ replay'.stage = "manifests" /\ replay'.at = 1
        /\ replay'.root = runManifest
        /\ replay'.seen = [s \in Evidence!Steps |-> Nothing]
    BY <1>1 DEF EvidenceInv, EvidenceTypeOK
  <2> QED
    BY <1>1, <2>1, <2>2
       DEF ReplayFits, Disturbed, Evidence!Steps, Evidence!Beside
<1>3. ReplayedFits'
  BY <1>1 DEF EvidenceInv, ReplayedFits
<1>4. Tainted' \subseteq Tainted
  BY <1>1 DEF Tainted, Evidence!Beside
<1> QED
  BY <1>1, <1>2, <1>3, <1>4, ReplayKeepsInv

LEMMA ReplayReadsManifest ==
    ASSUME EvidenceInv, Evidence!ReadStepManifest
    PROVE  EvidenceInv'
<1> DEFINE s == replay.at
           content == disk[s]["run_manifest"]
           seen == [replay.seen EXCEPT ![s] = content]
           candidates == {t \in Evidence!Steps :
                             Evidence!Complete \subseteq seen[t].paths}
<1>1. /\ replay.stage = "manifests" /\ s \in {1, 2}
      /\ UNCHANGED Evidence!Beside
      /\ runStatus = "completed"
      /\ replay.seen = [t \in Evidence!Steps |-> replay.seen[t]]
  BY DEF Evidence!ReadStepManifest, EvidenceInv, ReplayFits, Evidence!Steps
<1>2. CASE Evidence!Refused
  BY <1>1, <1>2, ReplayRefused
<1>3. CASE ~Evidence!Refused
  <2>1. /\ content # Nothing /\ replay.root.listed[s] = content
        /\ replayed' = replayed
        /\ s = 1 => replay' = [replay EXCEPT !.at = 2, !.seen = seen]
        /\ s = 2 =>
              /\ candidates # {}
              /\ replay' =
                    [stage |-> "artifacts", at |-> 1,
                     root |-> [replay.root EXCEPT !.listed = seen],
                     step |-> CHOOSE t \in candidates :
                                 \A u \in candidates : t <= u,
                     seen |-> Evidence!NoDigests]
    <3> DEFINE c == CHOOSE t \in candidates : \A u \in candidates : t <= u
    <3>1. Evidence!DigestMatches(replay.root.listed[s], content)
      BY <1>3 DEF Evidence!ReadStepManifest
    <3>2. IF s = 1
          THEN /\ replay' = [replay EXCEPT !.at = 2, !.seen = seen]
               /\ replayed' = replayed
          ELSE IF candidates = {} THEN Evidence!Refused
          ELSE /\ replay' = [stage |-> "artifacts", at |-> 1, step |-> c,
                     root |-> [replay.root EXCEPT !.listed = seen],
                     seen |-> Evidence!NoDigests]
               /\ replayed' = replayed
      BY <3>1 DEF Evidence!ReadStepManifest
    <3> HIDE DEF c, candidates, seen, content
    <3> QED
      BY <1>1, <1>3, <3>1, <3>2 DEF Evidence!DigestMatches, c
  <2>2. /\ seen = [t \in Evidence!Steps |-> seen[t]]
        /\ \A t \in Evidence!Steps :
              seen[t] = IF t = s THEN content ELSE replay.seen[t]
    BY <1>1
  <2>3. replayed' = replayed /\ ReplayedFits'
    BY <2>1 DEF EvidenceInv, ReplayedFits
  <2> HIDE DEF seen, content
  <2>4. CASE s = 1
    <3>1. /\ replay' = [stage |-> replay'.stage, at |-> replay'.at,
                        root |-> replay'.root, step |-> replay'.step,
                        seen |-> replay'.seen]
          /\ replay'.stage = "manifests" /\ replay'.at = 2
          /\ replay'.root = replay.root /\ replay'.seen = seen
      BY <1>1, <2>1, <2>4 DEF EvidenceInv, EvidenceTypeOK
    <3>2. content.paths = Evidence!Data(1)
      BY <2>1, <2>4 DEF content, EvidenceInv, WorkerFits
    <3>3. ReplayFits'
      BY <1>1, <2>1, <2>2, <2>4, <3>1, <3>2
         DEF EvidenceInv, ReplayFits, Evidence!Steps, Evidence!Beside,
             Disturbed
    <3>4. Tainted' \subseteq Tainted
      BY <1>1, <3>1 DEF Tainted, Evidence!Beside
    <3> QED
      BY <1>1, <2>3, <3>1, <3>3, <3>4, ReplayKeepsInv
  <2>5. CASE s = 2
    <3>1. 1 \notin candidates
      <4>1. seen[1].paths = Evidence!Data(1)
        BY <1>1, <2>2, <2>5 DEF EvidenceInv, ReplayFits, Evidence!Steps
      <4> QED
        BY <4>1 DEF Evidence!Data, Evidence!Complete
    <3>2. candidates = {2}
      BY <2>1, <2>5, <3>1 DEF Evidence!Steps
    <3>3. (CHOOSE t \in candidates : \A u \in candidates : t <= u) = 2
      BY <3>2
    <3> HIDE DEF candidates
    <3>4. /\ replay' = [stage |-> "artifacts", at |-> 1,
                        root |-> [replay.root EXCEPT !.listed = seen],
                        step |-> 2, seen |-> Evidence!NoDigests]
      BY <2>1, <2>5, <3>3
    <3>5. [replay.root EXCEPT !.listed = seen].listed = seen
      BY <1>1 DEF EvidenceInv, ReplayFits
    <3>6. Disturbed \/ seen[2] = OwnManifest(2)
      BY <1>1, <2>1, <2>2, <2>5
         DEF EvidenceInv, ReplayFits, OwnLists, Evidence!Steps
    <3>7. ReplayFits'
      <4>1. /\ replay'.stage = "artifacts" /\ replay'.at = 1
            /\ replay'.step = 2 /\ replay'.seen = Evidence!NoDigests
            /\ replay'.root.listed = seen
        BY <3>4, <3>5
      <4>2. Disturbed' \/ replay'.root.listed[2] = OwnManifest(2)
        BY <1>1, <3>6, <4>1 DEF Disturbed, Evidence!Beside
      <4> QED
        BY <1>1, <4>1, <4>2
           DEF ReplayFits, Evidence!NoDigests, Evidence!Beside
    <3>8. Tainted' \subseteq Tainted
      BY <1>1, <3>4 DEF Tainted, Evidence!Beside, Evidence!NoDigests
    <3> QED
      BY <1>1, <2>3, <3>4, <3>7, <3>8, ReplayKeepsInv
  <2> QED
    BY <1>1, <2>4, <2>5
<1> QED
  BY <1>2, <1>3

LEMMA ReplayReadsArtifact ==
    ASSUME EvidenceInv, Evidence!ReadArtifact
    PROVE  EvidenceInv'
<1> DEFINE f == Evidence!EvidenceOrder[replay.at]
           content == disk[2][f]
           digest == replay.root.listed[2].digests[f]
<1>1. /\ replay.stage = "artifacts" /\ replay.step = 2
      /\ replay.at \in 1 .. 3 /\ UNCHANGED Evidence!Beside
      /\ runStatus = "completed"
      /\ replay.seen = [g \in Evidence!Complete |-> replay.seen[g]]
  BY DEF Evidence!ReadArtifact, EvidenceInv, ReplayFits
<1>2. CASE Evidence!Refused
  BY <1>1, <1>2, ReplayRefused
<1>3. CASE ~Evidence!Refused
  <2>1. /\ content # Nothing /\ digest = content
        /\ replayed' = replayed
        /\ replay' = [replay EXCEPT !.seen[f] = content, !.at = @ + 1,
                 !.stage = IF f = "deterministic_result" THEN "calculating"
                           ELSE @]
    BY <1>1, <1>3 DEF Evidence!ReadArtifact, Evidence!DigestMatches
  <2>2. /\ f \in Evidence!Complete
        /\ f = "deterministic_result" <=> replay.at = 3
        /\ \A k \in 1 .. 3 : f = Evidence!EvidenceOrder[k] <=> k = replay.at
        /\ \A k \in 1 .. 3 : Evidence!EvidenceOrder[k] \in Evidence!Complete
    BY <1>1 DEF Evidence!EvidenceOrder, Evidence!Complete
  <2>3. Disturbed \/ content = Own(f)
    BY <1>1, <2>1, <2>2 DEF EvidenceInv, ReplayFits, OwnManifest, Own,
       Evidence!Digested, Evidence!Data, Evidence!Complete
  <2> HIDE DEF f, content, digest
  <2>4. /\ replay' = [stage |-> replay'.stage, at |-> replay'.at,
                      root |-> replay'.root, step |-> replay'.step,
                      seen |-> replay'.seen]
        /\ replay'.stage =
              IF replay.at = 3 THEN "calculating" ELSE "artifacts"
        /\ replay'.at = replay.at + 1 /\ replay'.root = replay.root
        /\ replay'.step = 2
        /\ replay'.seen = [replay.seen EXCEPT ![f] = content]
    BY <1>1, <2>1, <2>2 DEF EvidenceInv, EvidenceTypeOK
  <2>5. /\ replay'.seen = [g \in Evidence!Complete |-> replay'.seen[g]]
        /\ \A g \in Evidence!Complete :
              replay'.seen[g] = IF g = f THEN content ELSE replay.seen[g]
    BY <1>1, <2>2, <2>4
  <2>6. /\ \A k \in 1 .. 3 : k < replay.at =>
              replay.seen[Evidence!EvidenceOrder[k]] # Nothing
        /\ \/ Disturbed
           \/ /\ replay.root.listed[2] = OwnManifest(2)
              /\ \A g \in Evidence!Complete :
                    replay.seen[g] \in {Nothing, Own(g)}
    BY <1>1 DEF EvidenceInv, ReplayFits
  <2>7. \A k \in 1 .. 3 :
           replay'.stage = "calculating" \/ k < replay'.at =>
              replay'.seen[Evidence!EvidenceOrder[k]] # Nothing
    BY <1>1, <2>1, <2>2, <2>4, <2>5, <2>6
  <2>8. ReplayFits'
    BY <1>1, <2>3, <2>4, <2>5, <2>6, <2>7
       DEF ReplayFits, Evidence!Beside, Disturbed
  <2>9. ReplayedFits'
    BY <2>1 DEF EvidenceInv, ReplayedFits
  <2>10. Tainted' \subseteq Tainted
    BY <1>1, <2>4, <2>5 DEF Tainted, Evidence!Beside, content
  <2> QED
    BY <1>1, <2>4, <2>8, <2>9, <2>10, ReplayKeepsInv
<1> QED
  BY <1>2, <1>3

LEMMA ReplayAnswers ==
    ASSUME EvidenceInv, Evidence!AnswerReplay
    PROVE  EvidenceInv'
<1> DEFINE validated == replay.seen["validated_input"]
           case == replay.seen["case_input"]
           saved == replay.seen["deterministic_result"]
<1>1. /\ replay.stage = "calculating"
      /\ replay' = [replay EXCEPT !.stage = "idle"]
      /\ UNCHANGED Evidence!Beside
  BY DEF Evidence!AnswerReplay
<1>2. /\ replay' = [stage |-> replay'.stage, at |-> replay'.at,
                    root |-> replay'.root, step |-> replay'.step,
                    seen |-> replay'.seen]
      /\ replay'.stage = "idle"
  BY <1>1 DEF EvidenceInv, EvidenceTypeOK
<1>3. ReplayFits'
  BY <1>2 DEF ReplayFits
<1>4. Tainted' \subseteq Tainted
  BY <1>1, <1>2 DEF Tainted, Evidence!Beside
<1>5. ReplayedFits'
  <2>1. CASE replayed' = replayed
    BY <2>1 DEF EvidenceInv, ReplayedFits
  <2>2. CASE replayed' # replayed
    <3>1. /\ Evidence!CaseOf(validated) = case
          /\ Evidence!Calculated(case) = saved
          /\ replayed' = [result |-> saved, changes |-> altered,
                          early |-> early, crafted |-> crafted]
      BY <2>2 DEF Evidence!AnswerReplay, Evidence!Replayed
    <3>2. /\ validated # Nothing /\ case # Nothing /\ saved # Nothing
      <4>1. \A k \in 1 .. 3 :
               replay.seen[Evidence!EvidenceOrder[k]] # Nothing
        BY <1>1 DEF EvidenceInv, ReplayFits
      <4>2. /\ Evidence!EvidenceOrder[1] = "validated_input"
            /\ Evidence!EvidenceOrder[2] = "case_input"
            /\ Evidence!EvidenceOrder[3] = "deterministic_result"
        BY DEF Evidence!EvidenceOrder
      <4> QED
        BY <4>1, <4>2
    <3>3. altered \in Nat
      BY DEF EvidenceInv, EvidenceTypeOK
    <3>4. CASE saved = Own("deterministic_result")
      BY <3>1, <3>4, <3>3 DEF ReplayedFits
    <3>5. CASE crafted
      BY <3>1, <3>5, <3>3 DEF ReplayedFits
    <3>6. CASE saved # Own("deterministic_result") /\ ~crafted
      <4>1. /\ Own("validated_input") = Evidence!Input(Given)
            /\ Own("case_input") = Evidence!CaseOf(Own("validated_input"))
            /\ Own("deterministic_result") =
                  Evidence!Calculated(Own("case_input"))
        BY Originals DEF Own
      <4>2. case # Own("case_input")
        BY <3>1, <3>6, <4>1
      <4>3. validated # Own("validated_input")
        BY <3>1, <4>1, <4>2
      <4>4. Tainted = Evidence!Complete
        BY <1>1, <3>2, <3>6, <4>2, <4>3 DEF Tainted, Evidence!Complete
      <4>5. early > 0 /\ early # 0
        BY <1>1, <3>2, <3>6
           DEF EvidenceInv, EvidenceTypeOK, ReplayFits, Disturbed,
               Evidence!Complete
      <4>6. altered >= 3
        BY <3>6, <4>4, <4>5, TaintedCount
           DEF EvidenceInv, EvidenceTypeOK, ChangesCount
      <4> QED
        BY <3>1, <4>5, <4>6, <3>3 DEF ReplayedFits
    <3> QED
      BY <3>4, <3>5, <3>6
  <2> QED
    BY <2>1, <2>2
<1> QED
  BY <1>1, <1>2, <1>3, <1>4, <1>5, ReplayKeepsInv

(* Whatever others change, it counts: as an early change, or as a late one *)
(* that no digest matches.                                                 *)
LEMMA OthersKeepInv ==
    ASSUME EvidenceInv, Evidence!Changes, crafted => crafted',
           crafted' \in BOOLEAN, DiskOK',
           \/ disk'[1]["run_manifest"] = Nothing
           \/ disk'[1]["run_manifest"].paths = Evidence!Data(1),
           runManifest' = [input |-> runManifest'.input,
                           listed |-> runManifest'.listed],
           RootFits', ChangesCount'
    PROVE  EvidenceInv'
<1>1. /\ altered' = altered + 1
      /\ early' = early + (IF runStatus = "running" THEN 1 ELSE 0)
      /\ UNCHANGED <<runStatus, worker, replay, replayed>>
  BY DEF Evidence!Changes
<1>2. /\ altered' \in Nat /\ early' \in Nat
      /\ runStatus = "running" => early' # 0
      /\ early > 0 => early' > 0
  BY <1>1 DEF EvidenceInv, EvidenceTypeOK
<1>3. EvidenceTypeOK'
  BY <1>1, <1>2 DEF EvidenceInv, EvidenceTypeOK
<1>4. WorkerFits'
  BY <1>1 DEF EvidenceInv, WorkerFits
<1>5. Undisturbed'
  BY <1>1, <1>2 DEF Undisturbed
<1>6. ReplayFits'
  BY <1>1, <1>2 DEF EvidenceInv, ReplayFits, Disturbed
<1>7. ReplayedFits'
  BY <1>1 DEF EvidenceInv, ReplayedFits
<1> QED
  BY <1>3, <1>4, <1>5, <1>6, <1>7 DEF EvidenceInv

LEMMA OthersChangeFile ==
    ASSUME EvidenceInv, NEW s \in Evidence!Steps, NEW f \in StepFiles, NEW x,
           Evidence!ChangeFile(s, f, x)
    PROVE  EvidenceInv'
<1>1. PICK v :
         /\ v \in {Nothing, IF f = "run_manifest" THEN Evidence!Digested(s, x)
                            ELSE Evidence!Original(f, x)}
         /\ disk' = [disk EXCEPT ![s][f] = v]
  BY DEF Evidence!ChangeFile
<1>2. DiskOK /\ UNCHANGED <<runManifest, crafted>> /\ Evidence!Changes
  BY DEF Evidence!ChangeFile, EvidenceInv, EvidenceTypeOK
<1>3. /\ DiskOK'
      /\ \A t \in Evidence!Steps, g \in StepFiles :
            disk'[t][g] = IF t = s /\ g = f THEN v ELSE disk[t][g]
  BY <1>1, <1>2 DEF DiskOK
<1>4. /\ 1 \in Evidence!Steps /\ 2 \in Evidence!Steps
      /\ Evidence!Complete \subseteq StepFiles
      /\ "run_manifest" \in StepFiles
      /\ Evidence!Digested(1, x).paths = Evidence!Data(1)
  BY DEF Evidence!Steps, StepFiles, Evidence!Complete, Evidence!Digested
<1>5. \/ disk'[1]["run_manifest"] = Nothing
      \/ disk'[1]["run_manifest"].paths = Evidence!Data(1)
  BY <1>1, <1>3, <1>4 DEF EvidenceInv, WorkerFits
<1>6. RootFits'
  BY <1>2 DEF EvidenceInv, RootFits, Disturbed, Evidence!Changes,
     EvidenceTypeOK
<1>7. ChangesCount'
  <2>1. Tainted' \subseteq Tainted \cup {f}
    BY <1>2, <1>3, <1>4 DEF Tainted, Evidence!Changes
  <2>2. /\ Cardinality(Tainted') \in Nat
        /\ Cardinality(Tainted') <= Cardinality(Tainted) + 1
        /\ Cardinality(Tainted) \in Nat
    BY <2>1, TaintedCount
  <2>3. /\ altered' = altered + 1 /\ runStatus' = runStatus
        /\ early' > 0 \/ runStatus = "running"
              => early > 0 \/ runStatus = "running"
    BY <1>2 DEF Evidence!Changes, EvidenceInv, EvidenceTypeOK
  <2> QED
    BY <1>2, <2>2, <2>3 DEF EvidenceInv, EvidenceTypeOK, ChangesCount
<1>8. runManifest' = [input |-> runManifest'.input,
                      listed |-> runManifest'.listed]
  BY <1>2 DEF EvidenceInv, EvidenceTypeOK
<1>9. crafted' \in BOOLEAN
  BY <1>2 DEF EvidenceInv, EvidenceTypeOK
<1> QED
  BY <1>2, <1>3, <1>5, <1>6, <1>7, <1>8, <1>9, OthersKeepInv

LEMMA OthersCraftRoot ==
    ASSUME EvidenceInv, NEW x, Evidence!CraftRoot(x)
    PROVE  EvidenceInv'
<1>1. /\ Evidence!Changes /\ crafted' = TRUE /\ disk' = disk
      /\ runManifest' = [input |-> Given,
            listed |-> [s \in Evidence!Steps |-> Evidence!Digested(s, x)]]
  BY DEF Evidence!CraftRoot
<1>2. DiskOK'
  BY <1>1 DEF EvidenceInv, EvidenceTypeOK, DiskOK
<1>3. \/ disk'[1]["run_manifest"] = Nothing
      \/ disk'[1]["run_manifest"].paths = Evidence!Data(1)
  BY <1>1 DEF EvidenceInv, WorkerFits
<1>4. RootFits' /\ ChangesCount'
  BY <1>1 DEF RootFits, Disturbed, ChangesCount
<1> QED
  BY <1>1, <1>2, <1>3, <1>4, OthersKeepInv

LEMMA OthersPutBack ==
    ASSUME EvidenceInv, NEW x, Evidence!PutBack(x)
    PROVE  EvidenceInv'
<1>1. /\ Evidence!Changes /\ runStatus = "completed"
      /\ crafted' = (crafted \/ early > 0)
      /\ runManifest' = [input |-> x,
            listed |-> [s \in Evidence!Steps |-> Evidence!Digested(s, x)]]
  BY DEF Evidence!PutBack
<1>2. /\ DiskOK'
      /\ disk'[1]["run_manifest"] = Evidence!Digested(1, x)
  BY DEF Evidence!PutBack, DiskOK, StepFiles, Evidence!Steps
<1>3. disk'[1]["run_manifest"].paths = Evidence!Data(1)
  BY <1>2 DEF Evidence!Digested
<1>4. PICK c \in BOOLEAN : crafted = c
  BY DEF EvidenceInv, EvidenceTypeOK
<1>5. /\ crafted' \in BOOLEAN /\ crafted => crafted'
      /\ ~crafted' => ~crafted /\ ~(early > 0)
  BY <1>1, <1>4
<1>6. ~crafted' => early' = 0 /\ runStatus' = "completed"
  BY <1>1, <1>5 DEF Evidence!Changes, EvidenceInv, EvidenceTypeOK
<1>7. RootFits'
  BY <1>1 DEF RootFits, OwnLists, OwnManifest
<1>8. ChangesCount'
  BY <1>6 DEF ChangesCount
<1> QED
  BY <1>1, <1>2, <1>3, <1>5, <1>7, <1>8, OthersKeepInv

LEMMA EvidenceStutter ==
    ASSUME EvidenceInv, UNCHANGED Evidence!evidenceVars
    PROVE  EvidenceInv'
<1>1. DiskOK'
  BY DEF EvidenceInv, EvidenceTypeOK, DiskOK, Evidence!evidenceVars
<1>2. EvidenceTypeOK' /\ WorkerFits'
  BY <1>1 DEF EvidenceInv, EvidenceTypeOK, WorkerFits, Evidence!evidenceVars
<1>3. Undisturbed' /\ RootFits' /\ ReplayFits' /\ ReplayedFits'
  BY DEF EvidenceInv, Undisturbed, Collected, RootFits, ReplayFits,
     ReplayedFits, Disturbed, Evidence!evidenceVars
<1>4. Tainted' = Tainted
  BY DEF Tainted, Evidence!evidenceVars
<1>5. ChangesCount'
  BY <1>4 DEF EvidenceInv, ChangesCount, Evidence!evidenceVars
<1> QED
  BY <1>2, <1>3, <1>5 DEF EvidenceInv

(* A replay that is available tells the result of the run's own input      *)
(* (replay_run, _artifact_digests in api/app.py), whoever changes which    *)
(* file while it is published, digested or replayed, unless three files    *)
(* were changed, some of them before the run had completed, or the run's   *)
(* manifest was made by hand.                                              *)
THEOREM ReplaysAreOfTheRun ==
    Evidence!EvidenceSpec => []ReplayIsOfTheRun
<1>1. Evidence!EvidenceInit => EvidenceInv
  BY EvidenceInit
<1>2. EvidenceInv /\ [Evidence!EvidenceNext]_Evidence!evidenceVars
         => EvidenceInv'
  <2> SUFFICES ASSUME EvidenceInv,
                      [Evidence!EvidenceNext]_Evidence!evidenceVars
               PROVE  EvidenceInv'
    OBVIOUS
  <2>1. CASE Evidence!Publish
    BY <2>1, WorkerPublishes
  <2>2. CASE Evidence!ReadBack
    BY <2>2, WorkerReadsBack
  <2>3. CASE Evidence!Seal
    BY <2>3, WorkerSeals
  <2>4. CASE Evidence!ListStep
    BY <2>4, WorkerLists
  <2>5. CASE Evidence!Close
    BY <2>5, WorkerCloses
  <2>6. CASE Evidence!End \/ Evidence!Break
    BY <2>6, WorkerStops
  <2>7. CASE Evidence!BeginReplay
    BY <2>7, ReplayBegins
  <2>8. CASE Evidence!ReadStepManifest
    BY <2>8, ReplayReadsManifest
  <2>9. CASE Evidence!ReadArtifact
    BY <2>9, ReplayReadsArtifact
  <2>10. CASE Evidence!AnswerReplay
    BY <2>10, ReplayAnswers
  <2>11. ASSUME NEW x \in Inputs, NEW s \in Evidence!Steps,
                NEW f \in Evidence!Complete \cup {"run_manifest"},
                Evidence!ChangeFile(s, f, x)
         PROVE  EvidenceInv'
    BY <2>11, OthersChangeFile DEF StepFiles
  <2>12. ASSUME NEW x \in Inputs, Evidence!CraftRoot(x)
         PROVE  EvidenceInv'
    BY <2>12, OthersCraftRoot
  <2>13. ASSUME NEW x \in Inputs, Evidence!PutBack(x)
         PROVE  EvidenceInv'
    BY <2>13, OthersPutBack
  <2>14. CASE UNCHANGED Evidence!evidenceVars
    BY <2>14, EvidenceStutter
  <2> QED
    BY <2>1, <2>2, <2>3, <2>4, <2>5, <2>6, <2>7, <2>8, <2>9, <2>10, <2>11,
       <2>12, <2>13, <2>14 DEF Evidence!EvidenceNext
<1>3. EvidenceInv => ReplayIsOfTheRun
  <2> SUFFICES ASSUME EvidenceInv, replayed # Nothing, ~replayed.crafted,
                      replayed.changes < 3 \/ replayed.early = 0
               PROVE  replayed.result =
                         Evidence!Calculated(Evidence!CaseOf(
                            Evidence!Input(Given)))
    BY DEF ReplayIsOfTheRun, Evidence!ReplayIsOfTheRun
  <2> QED
    BY Originals DEF EvidenceInv, ReplayedFits, Own
<1> QED
  BY <1>1, <1>2, <1>3, PTL DEF Evidence!EvidenceSpec
-----------------------------------------------------------------------------
(* Guarded file access *)

WriteCalls ==
    [kind : {"directory", "exclusive", "atomic"},
     stage : {"idle", "opening", "filling", "publishing", "linked",
              "replacing", "verifying", "ancestry", "identity", "failing",
              "truncating", "over", "dead"},
     root : Files!Directories, folder : Files!Directories,
     under : {"none", "temp", "name"}, answer : {"none", "ok", "failed"}]

ReadCalls ==
    [stage : {"idle", "opening", "reading", "over"},
     root : Files!Directories, inode : Writers \cup {Old, Nothing},
     answer : Writers \cup {Old, Nothing}, failed : SUBSET Writers]

FilesTypeOK ==
    /\ root \in Files!Directories
    /\ folder \in [Files!Directories -> Files!Directories]
    /\ name \in [Files!Directories -> Writers \cup {Old, Nothing}]
    /\ temp \in [Files!Directories -> Writers \cup {Nothing}]
    /\ empty \subseteq Writers
    /\ writer \in [Writers -> WriteCalls]
    /\ reader \in [Readers -> ReadCalls]
    /\ bounds \in [{"moves", "faults", "deaths"} -> Nat]
    /\ root <= bounds["moves"] /\ bounds["moves"] <= MaxMoves

Unlinked(w) == \A f \in Files!Directories : name[f] # w /\ temp[f] # w

NoMoreFaults == bounds["faults"] >= MaxFaults

(* A writer's inode has the names its stage says, in the folder it has     *)
(* opened.  One that gives up has lost them, has failed after the last     *)
(* fault, or is about to remove the only one.                              *)
WriterFits(w) ==
    /\ writer[w].root <= root
    /\ \A f \in Files!Directories :
          name[f] = w \/ temp[f] = w => f = writer[w].folder
    /\ writer[w].under = "temp" => writer[w].kind = "atomic"
    /\ writer[w].stage \in {"idle", "opening", "filling", "publishing"} =>
          Unlinked(w) /\ writer[w].under = "none"
    /\ writer[w].stage = "linked" =>
          /\ writer[w].under = "none"
          /\ writer[w].kind # "atomic" => name[writer[w].folder] = w
          /\ writer[w].kind = "atomic" =>
                /\ temp[writer[w].folder] = w
                /\ name[writer[w].folder] # w
    /\ writer[w].stage = "replacing" =>
          writer[w].kind = "atomic" /\ writer[w].under = "temp"
    /\ writer[w].stage \in {"linked", "verifying", "ancestry", "identity"}
       /\ (writer[w].stage = "linked" => writer[w].kind # "atomic") =>
          name[writer[w].folder] = w /\ temp[writer[w].folder] # w
    /\ writer[w].stage \in {"verifying", "ancestry", "identity"} =>
          writer[w].under = "name"
    /\ writer[w].stage = "identity" /\ root = writer[w].root => w \in stood
    /\ writer[w].stage = "failing" =>
          \/ NoMoreFaults \/ Unlinked(w)
          \/ writer[w].under = "name" /\ temp[writer[w].folder] # w
    /\ writer[w].stage = "truncating" => NoMoreFaults \/ Unlinked(w)
    /\ writer[w].answer # "none" => writer[w].stage = "over"
    /\ writer[w].answer = "ok" => w \in stood
    /\ writer[w].answer = "failed" =>
          writer[w].kind = "directory" \/ Unlinked(w) \/ w \in empty

(* An atomic writer has the name to itself. *)
AtomicAlone ==
    \A v, w \in Writers :
       v # w /\ Files!Busy(v) /\ Files!Busy(w) => writer[v].kind # "atomic"

ReaderFits(r) ==
    /\ \A w \in reader[r].failed : writer[w].answer = "failed"
    /\ reader[r].answer \notin reader[r].failed
    /\ reader[r].stage # "over" => reader[r].answer = Nothing
    /\ reader[r].stage = "reading" /\ reader[r].inode \in reader[r].failed =>
          reader[r].inode \in empty

FilesInv ==
    /\ FilesTypeOK /\ AtomicAlone
    /\ \A w \in Writers : WriterFits(w)
    /\ \A r \in Readers : ReaderFits(r)

LEMMA FilesInit == Files!FilesInit => FilesInv
<1> SUFFICES ASSUME Files!FilesInit PROVE FilesInv
  OBVIOUS
<1>1. MaxMoves \in Nat /\ Nothing \notin Writers /\ Old \notin Writers
  BY DeveloperToolsAssumption
<1>2. 0 \in Files!Directories
  BY <1>1 DEF Files!Directories
<1>3. FilesTypeOK
  BY <1>1, <1>2 DEF Files!FilesInit, FilesTypeOK, WriteCalls, ReadCalls
<1>4. AtomicAlone
  BY DEF Files!FilesInit, AtomicAlone, Files!Busy
<1>5. ASSUME NEW w \in Writers PROVE WriterFits(w)
  <2>1. /\ writer[w] = [kind |-> "exclusive", stage |-> "idle", root |-> 0,
                        folder |-> 0, under |-> "none", answer |-> "none"]
        /\ root = 0
    BY DEF Files!FilesInit
  <2>2. Unlinked(w)
    BY <1>1 DEF Files!FilesInit, Unlinked
  <2> QED
    BY <2>1, <2>2 DEF WriterFits, Unlinked
<1>6. ASSUME NEW r \in Readers PROVE ReaderFits(r)
  BY DEF Files!FilesInit, ReaderFits
<1> QED
  BY <1>3, <1>4, <1>5, <1>6 DEF FilesInv

(* What a step keeps of the links of a writer that does not take it. *)
LinksKept(v) ==
    /\ \A f \in Files!Directories :
          /\ name'[f] = v => name[f] = v
          /\ temp'[f] = v => temp[f] = v
    /\ Files!Busy(v) =>
          \A f \in Files!Directories :
             /\ name[f] = v => name'[f] = v
             /\ temp[f] = v => temp'[f] = v

LEMMA WriterKept ==
    ASSUME FilesTypeOK, NEW v \in Writers, WriterFits(v),
           writer'[v] = writer[v], LinksKept(v),
           root <= root', root' = root \/ writer[v].root < root',
           stood \subseteq stood', empty \subseteq empty',
           bounds'["faults"] \in Nat, bounds["faults"] <= bounds'["faults"],
           root' \in Nat
    PROVE  WriterFits(v)'
<1>1. /\ writer[v] \in WriteCalls
      /\ bounds["faults"] \in Nat /\ MaxFaults \in Nat
      /\ root \in Nat /\ writer[v].root \in Nat
      /\ writer[v].folder \in Files!Directories
  BY DeveloperToolsAssumption
     DEF FilesTypeOK, WriteCalls, Files!Directories
<1>2. Unlinked(v) => Unlinked(v)'
  BY DEF Unlinked, LinksKept
<1>3. NoMoreFaults => NoMoreFaults'
  BY <1>1 DEF NoMoreFaults
<1>4. /\ writer'[v].root <= root'
      /\ \A f \in Files!Directories :
            name'[f] = v \/ temp'[f] = v => f = writer'[v].folder
  BY <1>1 DEF WriterFits, LinksKept
<1>5. Files!Busy(v) =>
         /\ name'[writer[v].folder] = v <=> name[writer[v].folder] = v
         /\ temp'[writer[v].folder] = v <=> temp[writer[v].folder] = v
  BY <1>1 DEF LinksKept
<1>6. writer[v].stage \in {"linked", "replacing", "verifying", "ancestry",
                           "identity", "failing"} => Files!Busy(v)
  BY DEF Files!Busy
<1>7. writer'[v].stage = "identity" /\ root' = writer'[v].root => v \in stood'
  BY <1>1 DEF WriterFits
<1>8. writer'[v].answer = "failed" =>
         writer'[v].kind = "directory" \/ Unlinked(v)' \/ v \in empty'
  BY <1>2 DEF WriterFits
<1>9. /\ writer'[v].stage = "failing" =>
            \/ NoMoreFaults' \/ Unlinked(v)'
            \/ writer'[v].under = "name" /\ temp'[writer'[v].folder] # v
      /\ writer'[v].stage = "truncating" => NoMoreFaults' \/ Unlinked(v)'
  BY <1>2, <1>3, <1>5, <1>6 DEF WriterFits
<1> QED
  BY <1>2, <1>4, <1>5, <1>6, <1>7, <1>8, <1>9 DEF WriterFits

(* A step of one writer. *)
LEMMA WriterSteps ==
    ASSUME FilesInv, NEW w \in Writers,
           writer' \in [Writers -> WriteCalls],
           \A v \in Writers \ {w} : writer'[v] = writer[v] /\ LinksKept(v),
           UNCHANGED <<root, folder, reader>>,
           name' \in [Files!Directories -> Writers \cup {Old, Nothing}],
           temp' \in [Files!Directories -> Writers \cup {Nothing}],
           empty \subseteq empty', empty' \subseteq Writers,
           stood \subseteq stood',
           bounds' \in [{"moves", "faults", "deaths"} -> Nat],
           bounds'["moves"] = bounds["moves"],
           bounds["faults"] <= bounds'["faults"],
           writer[w].answer = "none", WriterFits(w)', AtomicAlone'
    PROVE  FilesInv'
<1>1. FilesTypeOK'
  BY DEF FilesInv, FilesTypeOK
<1>2. ASSUME NEW v \in Writers PROVE WriterFits(v)'
  <2>1. CASE v = w
    BY <2>1
  <2>2. CASE v # w
    <3>1. /\ root' = root /\ root \in Nat /\ root <= root'
          /\ bounds'["faults"] \in Nat
      BY DeveloperToolsAssumption
         DEF FilesInv, FilesTypeOK, Files!Directories
    <3>2. writer'[v] = writer[v] /\ LinksKept(v)
      BY <2>2
    <3> QED
      BY <3>1, <3>2, WriterKept DEF FilesInv
  <2> QED
    BY <2>1, <2>2
<1>3. ASSUME NEW r \in Readers PROVE ReaderFits(r)'
  <2>1. reader'[r] = reader[r] /\ ReaderFits(r) /\ reader[r] \in ReadCalls
    BY DEF FilesInv, FilesTypeOK
  <2>2. \A v \in reader[r].failed : v \in Writers /\ v # w
    BY <2>1 DEF ReaderFits, ReadCalls
  <2> QED
    BY <2>1, <2>2 DEF ReaderFits
<1> QED
  BY <1>1, <1>2, <1>3 DEF FilesInv

(* The writer's record after a step. *)
Becomes(w, kind, p, r, d, u, a) ==
    /\ writer' \in [Writers -> WriteCalls]
    /\ \A v \in Writers \ {w} : writer'[v] = writer[v]
    /\ writer'[w].kind = kind /\ writer'[w].stage = p
    /\ writer'[w].root = r /\ writer'[w].folder = d
    /\ writer'[w].under = u /\ writer'[w].answer = a

LEMMA StageSet ==
    ASSUME FilesTypeOK, NEW w \in Writers, NEW p, Files!Set(w, p),
           p \in {"publishing", "linked", "replacing", "verifying",
                  "ancestry", "identity", "failing", "truncating", "dead"}
    PROVE  Becomes(w, writer[w].kind, p, writer[w].root, writer[w].folder,
                   writer[w].under, writer[w].answer)
BY DEF FilesTypeOK, Files!Set, Becomes, WriteCalls

(* A step of one writer that touches nothing but its own record. *)
LEMMA WriterGoes ==
    ASSUME FilesInv, NEW w \in Writers,
           writer' \in [Writers -> WriteCalls],
           \A v \in Writers \ {w} : writer'[v] = writer[v],
           writer'[w].answer # "failed",
           UNCHANGED <<root, folder, reader, name, temp, empty, bounds>>,
           stood \subseteq stood', writer[w].answer = "none",
           writer'[w].stage # "idle", WriterFits(w)',
           Files!Busy(w) => writer'[w].kind = writer[w].kind,
           ~Files!Busy(w) => \A v \in Writers : Files!Busy(v) =>
              writer'[w].kind # "atomic" /\ writer[v].kind # "atomic"
    PROVE  FilesInv'
<1>1. FilesTypeOK
  BY DEF FilesInv
<1>2. \A v \in Writers \ {w} : LinksKept(v)
  BY DEF LinksKept
<1>3. AtomicAlone'
  BY DEF FilesInv, AtomicAlone, Files!Busy
<1>4. bounds["faults"] <= bounds'["faults"]
  BY <1>1 DEF FilesTypeOK
<1> QED
  BY <1>1, <1>2, <1>3, <1>4, WriterSteps DEF FilesTypeOK

LEMMA WriterPins ==
    ASSUME FilesInv, NEW w \in Writers, NEW kind \in Files!Kinds,
           Files!Pin(w, kind), stood \subseteq stood'
    PROVE  FilesInv'
<1>1. /\ writer[w] \in WriteCalls /\ WriterFits(w)
      /\ writer \in [Writers -> WriteCalls]
      /\ root \in Files!Directories /\ root \in Nat
  BY DeveloperToolsAssumption
     DEF FilesInv, FilesTypeOK, Files!Directories
<1>2. Becomes(w, kind, "opening", root, writer[w].folder, writer[w].under,
              writer[w].answer)
  BY <1>1 DEF Files!Pin, Files!Kinds, Becomes, WriteCalls
<1>3. /\ UNCHANGED <<root, folder, reader, name, temp, empty, bounds>>
      /\ writer[w].stage = "idle"
      /\ \A v \in Writers : Files!Busy(v) =>
            kind # "atomic" /\ writer[v].kind # "atomic"
  BY DEF Files!Pin, Files!At
<1>4. writer[w].answer = "none"
  BY <1>1, <1>3 DEF WriterFits, WriteCalls
<1>5. WriterFits(w)'
  BY <1>1, <1>2, <1>3, <1>4 DEF WriterFits, Unlinked, Becomes
<1>6. ~Files!Busy(w)
  BY <1>3 DEF Files!Busy
<1> QED
  BY <1>2, <1>3, <1>4, <1>5, <1>6, WriterGoes DEF Becomes

LEMMA WriterLooks ==
    ASSUME FilesInv, NEW w \in Writers,
           \/ Files!OpenParent(w) \/ Files!Fill(w) \/ Files!Reopen(w)
           \/ Files!VerifyFile(w) \/ Files!VerifyAncestry(w)
           \/ Files!VerifyRoot(w),
           Files!Note
    PROVE  FilesInv'
<1> DEFINE x == writer[w]
<1>1. /\ x \in WriteCalls /\ WriterFits(w)
      /\ writer \in [Writers -> WriteCalls]
      /\ root \in Files!Directories
      /\ folder \in [Files!Directories -> Files!Directories]
  BY DEF FilesInv, FilesTypeOK
<1>2. /\ UNCHANGED <<root, folder, reader, name, temp, empty, bounds>>
      /\ Files!Busy(w) /\ stood' = stood \cup {name[folder[root]]}
  BY DEF Files!OpenParent, Files!Fill, Files!Reopen, Files!VerifyFile,
     Files!VerifyAncestry, Files!VerifyRoot, Files!At, Files!Busy, Files!Note
<1>3. x.answer = "none"
  BY <1>1, <1>2 DEF WriterFits, WriteCalls, Files!Busy
<1>4. ASSUME NEW p, NEW d, NEW u, NEW a,
             Becomes(w, x.kind, p, x.root, d, u, a),
             a # "failed", p # "idle", WriterFits(w)'
      PROVE  FilesInv'
  BY <1>2, <1>3, <1>4, WriterGoes DEF Becomes
<1>5. CASE Files!OpenParent(w)
  <2> DEFINE p == IF x.kind = "directory" THEN "publishing" ELSE "filling"
             d == folder[x.root]
  <2>1. x.stage = "opening"
    BY <1>5 DEF Files!OpenParent, Files!At
  <2>2. Becomes(w, x.kind, p, x.root, d, x.under, x.answer)
    BY <1>1, <1>5 DEF Files!OpenParent, WriteCalls, Becomes
  <2>3. WriterFits(w)'
    BY <1>1, <1>2, <1>3, <2>1, <2>2 DEF WriterFits, Unlinked, Becomes
  <2> QED
    BY <1>3, <1>4, <2>2, <2>3
<1>6. CASE Files!Fill(w)
  <2>1. x.stage = "filling"
    BY <1>6 DEF Files!Fill, Files!At
  <2>2. Becomes(w, x.kind, "publishing", x.root, x.folder, x.under, x.answer)
    BY <1>6, StageSet DEF Files!Fill, FilesInv
  <2>3. WriterFits(w)'
    BY <1>1, <1>2, <1>3, <2>1, <2>2 DEF WriterFits, Unlinked, Becomes
  <2> QED
    BY <1>3, <1>4, <2>2, <2>3
<1>7. CASE Files!Reopen(w)
  <2> DEFINE u == IF x.kind = "atomic" THEN "temp" ELSE "name"
             p == IF x.kind = "atomic" THEN "replacing"
                  ELSE IF x.kind = "directory" THEN "ancestry"
                  ELSE "verifying"
  <2>1. x.stage = "linked"
    BY <1>7 DEF Files!Reopen, Files!At
  <2>2. Becomes(w, x.kind, p, x.root, x.folder, u, x.answer)
    BY <1>1, <1>7 DEF Files!Reopen, WriteCalls, Becomes
  <2>3. WriterFits(w)'
    BY <1>1, <1>2, <1>3, <2>1, <2>2 DEF WriterFits, Unlinked, Becomes
  <2> QED
    BY <1>3, <1>4, <2>2, <2>3
<1>8. CASE Files!VerifyFile(w)
  <2>1. x.stage = "verifying" /\ name[x.folder] = w
    BY <1>1, <1>8 DEF WriterFits, Files!VerifyFile, Files!At
  <2>2. Becomes(w, x.kind, "ancestry", x.root, x.folder, x.under, x.answer)
    BY <1>8, <2>1, StageSet DEF Files!VerifyFile, Files!Mine, FilesInv
  <2>3. WriterFits(w)'
    BY <1>1, <1>2, <1>3, <2>1, <2>2 DEF WriterFits, Unlinked, Becomes
  <2> QED
    BY <1>3, <1>4, <2>2, <2>3
<1>9. CASE Files!VerifyAncestry(w)
  <2> DEFINE p == IF folder[x.root] = x.folder THEN "identity" ELSE "failing"
  <2>1. x.stage = "ancestry"
    BY <1>9 DEF Files!VerifyAncestry, Files!At
  <2>2. Becomes(w, x.kind, p, x.root, x.folder, x.under, x.answer)
    BY <1>9, StageSet DEF Files!VerifyAncestry, FilesInv
  <2>3. p = "identity" /\ root = x.root => w \in stood'
    BY <1>1, <1>2, <2>1 DEF WriterFits
  <2>4. WriterFits(w)'
    BY <1>1, <1>2, <1>3, <2>1, <2>2, <2>3 DEF WriterFits, Unlinked, Becomes
  <2> QED
    BY <1>3, <1>4, <2>2, <2>4
<1>10. CASE Files!VerifyRoot(w)
  <2>1. x.stage = "identity"
    BY <1>10 DEF Files!VerifyRoot, Files!At
  <2>2. CASE root = x.root
    <3>1. Becomes(w, x.kind, "over", x.root, x.folder, x.under, "ok")
      BY <1>1, <1>10, <2>2 DEF Files!VerifyRoot, WriteCalls, Becomes
    <3>2. WriterFits(w)'
      BY <1>1, <1>2, <1>3, <2>1, <2>2, <3>1
         DEF WriterFits, Unlinked, Becomes
    <3> QED
      BY <1>4, <3>1, <3>2
  <2>3. CASE root # x.root
    <3>1. Becomes(w, x.kind, "failing", x.root, x.folder, x.under, x.answer)
      BY <1>10, <2>3, StageSet DEF Files!VerifyRoot, FilesInv
    <3>2. WriterFits(w)'
      BY <1>1, <1>2, <1>3, <2>1, <3>1 DEF WriterFits, Unlinked, Becomes
    <3> QED
      BY <1>3, <1>4, <3>1, <3>2
  <2> QED
    BY <2>2, <2>3
<1> QED
  BY <1>5, <1>6, <1>7, <1>8, <1>9, <1>10

(* One name of a folder, or one link of it, is given to the writer.        *)
LEMMA NameSet ==
    ASSUME FilesTypeOK, NEW w \in Writers \cup {Nothing},
           NEW d \in Files!Directories
    PROVE  /\ name' = [name EXCEPT ![d] = w] =>
                 /\ name' \in
                       [Files!Directories -> Writers \cup {Old, Nothing}]
                 /\ \A f \in Files!Directories :
                       name'[f] = IF f = d THEN w ELSE name[f]
           /\ temp' = [temp EXCEPT ![d] = w] =>
                 /\ temp' \in [Files!Directories -> Writers \cup {Nothing}]
                 /\ \A f \in Files!Directories :
                       temp'[f] = IF f = d THEN w ELSE temp[f]
BY DEF FilesTypeOK

LEMMA WriterPublishes ==
    ASSUME FilesInv, NEW w \in Writers, Files!Publish(w),
           stood \subseteq stood'
    PROVE  FilesInv'
<1> DEFINE x == writer[w]
           d == writer[w].folder
<1>1. /\ x \in WriteCalls /\ WriterFits(w) /\ FilesTypeOK
      /\ d \in Files!Directories /\ Nothing \notin Writers
  BY DeveloperToolsAssumption DEF FilesInv, FilesTypeOK, WriteCalls
<1>2. /\ x.stage = "publishing" /\ Files!Busy(w) /\ Unlinked(w)
      /\ x.under = "none" /\ x.answer = "none"
      /\ UNCHANGED <<root, folder, empty, reader, bounds>>
  BY <1>1 DEF Files!Publish, Files!At, Files!Busy, WriterFits, WriteCalls
<1>3. PICK p \in {"linked", "failing"} :
         /\ Files!Set(w, p)
         /\ \/ /\ x.kind = "atomic" /\ p = "linked"
               /\ temp' = [temp EXCEPT ![d] = w] /\ name' = name
            \/ /\ x.kind # "atomic" /\ name[d] = Nothing /\ p = "linked"
               /\ name' = [name EXCEPT ![d] = w] /\ temp' = temp
            \/ p = "failing" /\ UNCHANGED <<name, temp>>
  BY DEF Files!Publish
<1>4. Becomes(w, x.kind, p, x.root, d, x.under, x.answer)
  BY <1>1, <1>3, StageSet
<1>5. /\ name' \in [Files!Directories -> Writers \cup {Old, Nothing}]
      /\ temp' \in [Files!Directories -> Writers \cup {Nothing}]
      /\ \A f \in Files!Directories :
            /\ name'[f] = IF f = d /\ p = "linked" /\ x.kind # "atomic" THEN w
                          ELSE name[f]
            /\ temp'[f] = IF f = d /\ p = "linked" /\ x.kind = "atomic" THEN w
                          ELSE temp[f]
      /\ p = "linked" /\ x.kind # "atomic" => name[d] = Nothing
  <2>1. CASE temp' = [temp EXCEPT ![d] = w] /\ name' = name
               /\ x.kind = "atomic" /\ p = "linked"
    BY <1>1, <2>1, NameSet DEF FilesTypeOK
  <2>2. CASE name' = [name EXCEPT ![d] = w] /\ temp' = temp
               /\ x.kind # "atomic" /\ name[d] = Nothing /\ p = "linked"
    BY <1>1, <2>2, NameSet DEF FilesTypeOK
  <2>3. CASE p = "failing" /\ UNCHANGED <<name, temp>>
    BY <1>1, <2>3 DEF FilesTypeOK
  <2> QED
    BY <1>3, <2>1, <2>2, <2>3
<1>6. ASSUME NEW v \in Writers \ {w}
      PROVE  writer'[v] = writer[v] /\ LinksKept(v)
  <2>1. x.kind = "atomic" => ~Files!Busy(v)
    BY <1>2 DEF FilesInv, AtomicAlone
  <2> QED
    BY <1>1, <1>4, <1>5, <2>1 DEF LinksKept, Becomes
<1>7. WriterFits(w)'
  BY <1>1, <1>2, <1>4, <1>5 DEF WriterFits, Unlinked, Becomes
<1>8. AtomicAlone'
  BY <1>2, <1>4 DEF FilesInv, AtomicAlone, Files!Busy, Becomes
<1>9. bounds["faults"] <= bounds'["faults"] /\ bounds' = bounds
  BY <1>1, <1>2 DEF FilesTypeOK
<1> QED
  BY <1>1, <1>2, <1>4, <1>5, <1>6, <1>7, <1>8, <1>9, WriterSteps
     DEF Becomes, FilesTypeOK

LEMMA WriterReplaces ==
    ASSUME FilesInv, NEW w \in Writers, Files!Replace(w),
           stood \subseteq stood'
    PROVE  FilesInv'
<1> DEFINE x == writer[w]
           d == writer[w].folder
<1>1. /\ x \in WriteCalls /\ WriterFits(w) /\ FilesTypeOK
      /\ d \in Files!Directories /\ Nothing \notin Writers
  BY DeveloperToolsAssumption DEF FilesInv, FilesTypeOK, WriteCalls
<1>2. /\ x.stage = "replacing" /\ Files!Busy(w) /\ x.kind = "atomic"
      /\ x.answer = "none"
      /\ UNCHANGED <<root, folder, empty, reader, bounds>>
  BY <1>1 DEF Files!Replace, Files!At, Files!Busy, WriterFits, WriteCalls
<1>3. Becomes(w, x.kind, "verifying", x.root, d, "name", x.answer)
  BY <1>1 DEF Files!Replace, FilesTypeOK, WriteCalls, Becomes
<1>4. /\ name' \in [Files!Directories -> Writers \cup {Old, Nothing}]
      /\ temp' \in [Files!Directories -> Writers \cup {Nothing}]
      /\ \A f \in Files!Directories :
            /\ name'[f] = IF f = d THEN w ELSE name[f]
            /\ temp'[f] = IF f = d THEN Nothing ELSE temp[f]
  BY <1>1, NameSet DEF Files!Replace
<1>5. ASSUME NEW v \in Writers \ {w}
      PROVE  writer'[v] = writer[v] /\ LinksKept(v)
  <2>1. ~Files!Busy(v)
    BY <1>2 DEF FilesInv, AtomicAlone
  <2> QED
    BY <1>1, <1>3, <1>4, <2>1 DEF LinksKept, Becomes
<1>6. WriterFits(w)'
  BY <1>1, <1>2, <1>3, <1>4 DEF WriterFits, Unlinked, Becomes
<1>7. AtomicAlone'
  BY <1>2, <1>3 DEF FilesInv, AtomicAlone, Files!Busy, Becomes
<1>8. bounds["faults"] <= bounds'["faults"] /\ bounds' = bounds
  BY <1>1, <1>2 DEF FilesTypeOK
<1> QED
  BY <1>1, <1>2, <1>3, <1>4, <1>5, <1>6, <1>7, <1>8, WriterSteps
     DEF Becomes, FilesTypeOK

LEMMA BoundSpent ==
    ASSUME FilesTypeOK, NEW b \in {"moves", "faults", "deaths"}, NEW limit,
           Files!Spend(b, limit)
    PROVE  /\ bounds' \in [{"moves", "faults", "deaths"} -> Nat]
           /\ bounds'[b] = bounds[b] + 1 /\ bounds[b] < limit
           /\ \A c \in {"moves", "faults", "deaths"} \ {b} :
                 bounds'[c] = bounds[c]
           /\ \A c \in {"moves", "faults", "deaths"} : bounds[c] <= bounds'[c]
BY DEF FilesTypeOK, Files!Spend

(* A call of a write fails, or its process dies. *)
LEMMA WriterStops ==
    ASSUME FilesInv, NEW w \in Writers, Files!Fail(w) \/ Files!Die(w),
           stood \subseteq stood'
    PROVE  FilesInv'
<1> DEFINE x == writer[w]
<1>1. /\ x \in WriteCalls /\ WriterFits(w) /\ FilesTypeOK
      /\ MaxFaults \in {0, 1}
  BY DeveloperToolsAssumption DEF FilesInv, FilesTypeOK
<1>2. PICK p \in {"failing", "dead"} :
         /\ Files!Set(w, p)
         /\ p = "failing" => Files!Spend("faults", MaxFaults)
         /\ p = "dead" => Files!Spend("deaths", MaxDeaths)
  BY DEF Files!Fail, Files!Die
<1>3. /\ UNCHANGED <<root, folder, name, temp, empty, reader>>
      /\ Files!Busy(w) /\ x.answer = "none"
  BY <1>1 DEF Files!Fail, Files!Die, Files!Busy, WriterFits, WriteCalls
<1>4. Becomes(w, x.kind, p, x.root, x.folder, x.under, x.answer)
  BY <1>1, <1>2, StageSet
<1>5. /\ bounds' \in [{"moves", "faults", "deaths"} -> Nat]
      /\ bounds'["moves"] = bounds["moves"]
      /\ bounds["faults"] <= bounds'["faults"]
      /\ p = "failing" => NoMoreFaults'
  <2>1. CASE p = "failing"
    BY <1>1, <1>2, <2>1, BoundSpent DEF NoMoreFaults, FilesTypeOK
  <2>2. CASE p = "dead"
    BY <1>1, <1>2, <2>2, BoundSpent
  <2> QED
    BY <2>1, <2>2
<1>6. \A v \in Writers \ {w} : writer'[v] = writer[v] /\ LinksKept(v)
  BY <1>3, <1>4 DEF LinksKept, Becomes
<1>7. WriterFits(w)'
  BY <1>1, <1>3, <1>4, <1>5 DEF WriterFits, Unlinked, Becomes
<1>8. AtomicAlone'
  BY <1>3, <1>4 DEF FilesInv, AtomicAlone, Files!Busy, Becomes
<1> QED
  BY <1>1, <1>3, <1>4, <1>5, <1>6, <1>7, <1>8, WriterSteps
     DEF Becomes, FilesTypeOK

LEMMA WriterUnlinks ==
    ASSUME FilesInv, NEW w \in Writers, Files!Unlink(w), stood \subseteq stood'
    PROVE  FilesInv'
<1> DEFINE x == writer[w]
           d == writer[w].folder
<1>1. /\ x \in WriteCalls /\ WriterFits(w) /\ FilesTypeOK
      /\ d \in Files!Directories
      /\ Nothing \notin Writers /\ Old \notin Writers
      /\ MaxFaults \in {0, 1}
  BY DeveloperToolsAssumption DEF FilesInv, FilesTypeOK, WriteCalls
<1>2. /\ x.stage = "failing" /\ Files!Busy(w) /\ x.answer = "none"
      /\ UNCHANGED <<root, folder, empty, reader>>
      /\ Files!Set(w, "truncating")
  BY <1>1 DEF Files!Unlink, Files!At, Files!Busy, WriterFits, WriteCalls
<1>3. Becomes(w, x.kind, "truncating", x.root, d, x.under, x.answer)
  BY <1>1, <1>2, StageSet
<1>4. /\ name' \in [Files!Directories -> Writers \cup {Old, Nothing}]
      /\ temp' \in [Files!Directories -> Writers \cup {Nothing}]
      /\ \A f \in Files!Directories :
            /\ name'[f] = name[f] \/ (name'[f] = Nothing /\ name[f] = w)
            /\ \/ temp'[f] = temp[f]
               \/ temp'[f] = Nothing /\ x.kind = "atomic"
      /\ bounds' \in [{"moves", "faults", "deaths"} -> Nat]
      /\ bounds'["moves"] = bounds["moves"]
      /\ bounds["faults"] <= bounds'["faults"]
      /\ \/ NoMoreFaults'
         \/ x.under = "name" => name'[d] # w
  <2>1. CASE /\ name' = IF x.under = "name" /\ Files!Mine(w)
                        THEN [name EXCEPT ![d] = Nothing] ELSE name
             /\ temp' = IF x.under = "temp"
                        THEN [temp EXCEPT ![d] = Nothing] ELSE temp
             /\ UNCHANGED bounds
    <3>1. /\ name' \in [Files!Directories -> Writers \cup {Old, Nothing}]
          /\ \A f \in Files!Directories :
                name'[f] = name[f] \/ (name'[f] = Nothing /\ name[f] = w)
          /\ x.under = "name" => name'[d] # w
      <4>1. CASE x.under = "name" /\ Files!Mine(w)
        <5>1. name' = [name EXCEPT ![d] = Nothing] /\ name[d] = w
          BY <2>1, <4>1 DEF Files!Mine
        <5> QED
          BY <1>1, <5>1 DEF FilesTypeOK
      <4>2. CASE ~(x.under = "name" /\ Files!Mine(w))
        <5>1. name' = name /\ (x.under = "name" => name[d] # w)
          BY <2>1, <4>2 DEF Files!Mine
        <5> QED
          BY <1>1, <5>1 DEF FilesTypeOK
      <4> QED
        BY <4>1, <4>2
    <3>2. /\ temp' \in [Files!Directories -> Writers \cup {Nothing}]
          /\ \A f \in Files!Directories :
                \/ temp'[f] = temp[f]
                \/ temp'[f] = Nothing /\ x.kind = "atomic"
      <4>1. CASE x.under = "temp"
        <5>1. temp' = [temp EXCEPT ![d] = Nothing] /\ x.kind = "atomic"
          BY <1>1, <2>1, <4>1 DEF WriterFits
        <5> QED
          BY <1>1, <5>1 DEF FilesTypeOK
      <4>2. CASE x.under # "temp"
        <5>1. temp' = temp
          BY <2>1, <4>2
        <5> QED
          BY <1>1, <5>1 DEF FilesTypeOK
      <4> QED
        BY <4>1, <4>2
    <3>3. /\ bounds' \in [{"moves", "faults", "deaths"} -> Nat]
          /\ bounds'["moves"] = bounds["moves"]
          /\ bounds["faults"] <= bounds'["faults"]
      BY <1>1, <2>1 DEF FilesTypeOK
    <3> QED
      BY <3>1, <3>2, <3>3
  <2>2. CASE Files!Spend("faults", MaxFaults) /\ UNCHANGED <<name, temp>>
    <3>1. /\ bounds' \in [{"moves", "faults", "deaths"} -> Nat]
          /\ bounds'["moves"] = bounds["moves"]
          /\ bounds["faults"] <= bounds'["faults"]
          /\ NoMoreFaults'
      BY <1>1, <2>2, BoundSpent DEF NoMoreFaults, FilesTypeOK
    <3>2. name' = name /\ temp' = temp
      BY <2>2
    <3> QED
      BY <1>1, <3>1, <3>2 DEF FilesTypeOK
  <2> QED
    BY <2>1, <2>2 DEF Files!Unlink
<1>5. ASSUME NEW v \in Writers \ {w}
      PROVE  writer'[v] = writer[v] /\ LinksKept(v)
  <2>1. x.kind = "atomic" => ~Files!Busy(v)
    BY <1>2 DEF FilesInv, AtomicAlone
  <2> QED
    BY <1>1, <1>3, <1>4, <2>1 DEF LinksKept, Becomes
<1>6. WriterFits(w)'
  <2>1. NoMoreFaults' \/ Unlinked(w)'
    <3>1. CASE NoMoreFaults
      BY <1>1, <1>4, <3>1 DEF NoMoreFaults, FilesTypeOK
    <3>2. CASE Unlinked(w)
      BY <1>1, <1>4, <3>2 DEF Unlinked
    <3>3. CASE x.under = "name" /\ temp[d] # w
      BY <1>1, <1>4, <3>3 DEF Unlinked, WriterFits
    <3> QED
      BY <1>1, <1>2, <3>1, <3>2, <3>3 DEF WriterFits
  <2>2. \A f \in Files!Directories : name'[f] = w \/ temp'[f] = w => f = d
    BY <1>1, <1>4 DEF WriterFits
  <2> QED
    BY <1>1, <1>2, <1>3, <2>1, <2>2 DEF WriterFits, Becomes
<1>7. AtomicAlone'
  BY <1>2, <1>3 DEF FilesInv, AtomicAlone, Files!Busy, Becomes
<1> QED
  BY <1>1, <1>2, <1>3, <1>4, <1>5, <1>6, <1>7, WriterSteps
     DEF Becomes, FilesTypeOK

LEMMA WriterTruncates ==
    ASSUME FilesInv, NEW w \in Writers, Files!Truncate(w),
           stood \subseteq stood'
    PROVE  FilesInv'
<1> DEFINE x == writer[w]
<1>1. /\ x \in WriteCalls /\ WriterFits(w) /\ FilesTypeOK
      /\ MaxFaults \in {0, 1}
  BY DeveloperToolsAssumption DEF FilesInv, FilesTypeOK
<1>2. /\ x.stage = "truncating" /\ Files!Busy(w) /\ x.answer = "none"
      /\ UNCHANGED <<root, folder, name, temp, reader>>
  BY <1>1 DEF Files!Truncate, Files!At, Files!Busy, WriterFits, WriteCalls
<1>3. Becomes(w, x.kind, "over", x.root, x.folder, x.under, "failed")
  BY <1>1 DEF Files!Truncate, FilesTypeOK, WriteCalls, Becomes
<1>4. /\ empty \subseteq empty' /\ empty' \subseteq Writers
      /\ bounds' \in [{"moves", "faults", "deaths"} -> Nat]
      /\ bounds'["moves"] = bounds["moves"]
      /\ bounds["faults"] <= bounds'["faults"]
      /\ x.kind = "directory" \/ Unlinked(w) \/ w \in empty'
  <2> DEFINE linked ==
                \E f \in Files!Directories : w \in {name[f], temp[f]}
  <2>1. ~linked => Unlinked(w)
    BY DEF Unlinked
  <2>2. CASE /\ empty' = IF linked /\ x.kind # "directory"
                         THEN empty \cup {w} ELSE empty
             /\ UNCHANGED bounds
    BY <1>1, <2>1, <2>2 DEF FilesTypeOK
  <2>3. CASE linked /\ Files!Spend("faults", MaxFaults) /\ UNCHANGED empty
    <3>1. bounds["faults"] < MaxFaults
      BY <1>1, <2>3, BoundSpent
    <3>2. Unlinked(w)
      BY <1>1, <1>2, <3>1 DEF WriterFits, NoMoreFaults, FilesTypeOK
    <3> QED
      BY <1>1, <2>3, <3>2, BoundSpent DEF FilesTypeOK
  <2> QED
    BY <2>2, <2>3 DEF Files!Truncate
<1>5. \A v \in Writers \ {w} : writer'[v] = writer[v] /\ LinksKept(v)
  BY <1>2, <1>3 DEF LinksKept, Becomes
<1>6. WriterFits(w)'
  BY <1>1, <1>2, <1>3, <1>4 DEF WriterFits, Unlinked, Becomes
<1>7. AtomicAlone'
  BY <1>2, <1>3 DEF FilesInv, AtomicAlone, Files!Busy, Becomes
<1> QED
  BY <1>1, <1>2, <1>3, <1>4, <1>5, <1>6, <1>7, WriterSteps
     DEF Becomes, FilesTypeOK

LEMMA ReaderSteps ==
    ASSUME FilesInv, NEW r \in Readers,
           Files!PinRead(r) \/ Files!OpenRead(r) \/ Files!Read(r),
           stood \subseteq stood'
    PROVE  FilesInv'
<1> DEFINE x == reader[r]
<1>1. /\ UNCHANGED <<root, folder, name, temp, empty, writer, bounds>>
      /\ FilesTypeOK /\ x \in ReadCalls /\ ReaderFits(r)
      /\ Nothing \notin Writers /\ Old \notin Writers
  BY DeveloperToolsAssumption
     DEF Files!PinRead, Files!OpenRead, Files!Read, FilesInv, FilesTypeOK
<1>2. /\ reader' \in [Readers -> ReadCalls]
      /\ \A q \in Readers \ {r} : reader'[q] = reader[q]
      /\ ReaderFits(r)'
  <2>1. CASE Files!PinRead(r)
    <3>1. /\ x.stage = "idle"
          /\ reader' = [reader EXCEPT ![r].stage = "opening", ![r].root = root,
                                      ![r].failed = Files!Failed]
          /\ Files!Failed \subseteq Writers
      BY <2>1 DEF Files!PinRead, Files!Failed
    <3>2. /\ reader' \in [Readers -> ReadCalls]
          /\ \A q \in Readers \ {r} : reader'[q] = reader[q]
          /\ reader'[r].stage = "opening" /\ reader'[r].failed = Files!Failed
          /\ reader'[r].answer = x.answer
      BY <1>1, <3>1 DEF FilesTypeOK, ReadCalls
    <3> QED
      BY <1>1, <3>1, <3>2 DEF ReaderFits, Files!Failed
  <2>2. CASE Files!OpenRead(r)
    <3> DEFINE i == name[folder[x.root]]
               regular == /\ i # Nothing
                          /\ i \in Writers => writer[i].kind # "directory"
    <3>1. /\ x.stage = "opening"
          /\ reader' = [reader EXCEPT ![r].inode = i,
                ![r].stage = IF regular THEN "reading" ELSE "over"]
      BY <2>2 DEF Files!OpenRead
    <3>2. x.root \in Files!Directories /\ folder[x.root] \in Files!Directories
          /\ i \in Writers \cup {Old, Nothing}
      BY <1>1 DEF FilesTypeOK, ReadCalls
    <3> HIDE DEF regular
    <3>3. /\ reader' \in [Readers -> ReadCalls]
          /\ \A q \in Readers \ {r} : reader'[q] = reader[q]
          /\ reader'[r].stage = IF regular THEN "reading" ELSE "over"
          /\ reader'[r].inode = i
          /\ reader'[r].failed = x.failed /\ reader'[r].answer = x.answer
      BY <1>1, <3>1, <3>2 DEF FilesTypeOK, ReadCalls
    <3>4. regular /\ i \in x.failed => i \in empty
      <4> SUFFICES ASSUME regular, i \in x.failed PROVE i \in empty
        OBVIOUS
      <4>1. i \in Writers /\ writer[i].answer = "failed"
        BY <1>1 DEF ReaderFits, ReadCalls
      <4>2. writer[i].kind # "directory" /\ ~Unlinked(i) /\ WriterFits(i)
        BY <3>2, <4>1 DEF regular, Unlinked, FilesInv
      <4> QED
        BY <4>1, <4>2 DEF WriterFits
    <3> QED
      BY <1>1, <3>1, <3>3, <3>4 DEF ReaderFits
  <2>3. CASE Files!Read(r)
    <3>1. /\ x.stage = "reading"
          /\ reader' = [reader EXCEPT ![r].stage = "over", ![r].answer =
                IF x.inode \in empty THEN Nothing ELSE x.inode]
      BY <2>3 DEF Files!Read
    <3>2. /\ reader' \in [Readers -> ReadCalls]
          /\ \A q \in Readers \ {r} : reader'[q] = reader[q]
          /\ reader'[r].stage = "over" /\ reader'[r].failed = x.failed
          /\ reader'[r].answer =
                IF x.inode \in empty THEN Nothing ELSE x.inode
      BY <1>1, <3>1 DEF FilesTypeOK, ReadCalls
    <3>3. x.failed \subseteq Writers
      BY <1>1 DEF ReadCalls
    <3> QED
      BY <1>1, <3>1, <3>2, <3>3 DEF ReaderFits
  <2> QED
    BY <2>1, <2>2, <2>3
<1>3. FilesTypeOK'
  BY <1>1, <1>2 DEF FilesTypeOK
<1>4. AtomicAlone'
  BY <1>1 DEF FilesInv, AtomicAlone, Files!Busy
<1>5. ASSUME NEW w \in Writers PROVE WriterFits(w)'
  BY <1>1 DEF FilesInv, WriterFits, Unlinked, NoMoreFaults
<1>6. ASSUME NEW q \in Readers PROVE ReaderFits(q)'
  BY <1>1, <1>2 DEF FilesInv, ReaderFits
<1> QED
  BY <1>3, <1>4, <1>5, <1>6 DEF FilesInv

LEMMA DirectoriesMove ==
    ASSUME FilesInv,
           Files!MoveRoot
           \/ \E r \in Files!Directories : Files!MoveFolder(r),
           stood \subseteq stood'
    PROVE  FilesInv'
<1>1. /\ UNCHANGED <<name, temp, empty, writer, reader>> /\ FilesTypeOK
      /\ Files!Spend("moves", MaxMoves)
      /\ MaxMoves \in Nat
  BY DeveloperToolsAssumption
     DEF Files!MoveRoot, Files!MoveFolder, FilesInv
<1>2. /\ bounds' \in [{"moves", "faults", "deaths"} -> Nat]
      /\ bounds'["moves"] = bounds["moves"] + 1
      /\ bounds["moves"] < MaxMoves
      /\ bounds'["faults"] = bounds["faults"]
      /\ bounds'["moves"] \in Files!Directories
      /\ bounds["moves"] \in Nat /\ root \in Nat /\ bounds["faults"] \in Nat
  <2>1. /\ bounds \in [{"moves", "faults", "deaths"} -> Nat]
        /\ root \in 0 .. MaxMoves
    BY <1>1 DEF FilesTypeOK, Files!Directories
  <2>2. /\ bounds' \in [{"moves", "faults", "deaths"} -> Nat]
        /\ bounds'["moves"] = bounds["moves"] + 1
        /\ bounds["moves"] < MaxMoves
        /\ bounds'["faults"] = bounds["faults"]
    BY <1>1, BoundSpent
  <2>3. bounds["moves"] \in Nat /\ bounds["faults"] \in Nat
    BY <2>1
  <2> QED
    BY <1>1, <2>1, <2>2, <2>3 DEF Files!Directories
<1>3. /\ folder' \in [Files!Directories -> Files!Directories]
      /\ root' \in {root, bounds'["moves"]}
  BY <1>1, <1>2 DEF Files!MoveRoot, Files!MoveFolder, FilesTypeOK
<1>4. /\ root <= root'
      /\ root' = root \/ root < root'
      /\ root' \in Nat /\ root' \in Files!Directories
      /\ root' <= bounds'["moves"] /\ bounds'["moves"] <= MaxMoves
  BY <1>1, <1>2, <1>3 DEF FilesTypeOK
<1>5. FilesTypeOK'
  BY <1>1, <1>2, <1>3, <1>4 DEF FilesTypeOK
<1>6. AtomicAlone'
  BY <1>1 DEF FilesInv, AtomicAlone, Files!Busy
<1>7. ASSUME NEW w \in Writers PROVE WriterFits(w)'
  <2>1. WriterFits(w) /\ LinksKept(w) /\ writer'[w] = writer[w]
    BY <1>1 DEF FilesInv, LinksKept
  <2>2. root' = root \/ writer[w].root < root'
    <3>1. writer[w].root \in Nat /\ writer[w].root <= root
      BY <1>1, <2>1 DEF FilesTypeOK, WriteCalls, WriterFits,
         Files!Directories
    <3> QED
      BY <1>2, <1>4, <3>1
  <2> QED
    BY <1>1, <1>2, <1>4, <2>1, <2>2, WriterKept
<1>8. ASSUME NEW r \in Readers PROVE ReaderFits(r)'
  BY <1>1 DEF FilesInv, ReaderFits
<1> QED
  BY <1>5, <1>6, <1>7, <1>8 DEF FilesInv

(* What a guarded write answers (write_json_object_exclusive,              *)
(* write_json_object_atomic, create_directory_exclusive in safe_json.py)   *)
(* is what has happened to the file, however many directories are moved    *)
(* meanwhile and whichever single system call fails, and no read that is   *)
(* begun after a failure returns its payload.                              *)
THEOREM GuardedWritesAreHonest == Files!FilesSpec => []WritesAreHonest
<1>1. Files!FilesInit => FilesInv
  BY FilesInit
<1>2. FilesInv /\ [Files!FilesNext]_Files!filesVars => FilesInv'
  <2> SUFFICES ASSUME FilesInv, [Files!FilesNext]_Files!filesVars
               PROVE  FilesInv'
    OBVIOUS
  <2>1. CASE Files!FilesNext
    <3>1. Files!Note /\ stood \subseteq stood'
      BY <2>1 DEF Files!FilesNext, Files!Note
    <3>2. ASSUME NEW w \in Writers, Files!Write(w) PROVE FilesInv'
      <4>1. ASSUME NEW kind \in Files!Kinds, Files!Pin(w, kind)
            PROVE  FilesInv'
        BY <3>1, <4>1, WriterPins
      <4>2. CASE Files!OpenParent(w) \/ Files!Fill(w) \/ Files!Reopen(w)
                 \/ Files!VerifyFile(w) \/ Files!VerifyAncestry(w)
                 \/ Files!VerifyRoot(w)
        BY <3>1, <4>2, WriterLooks
      <4>3. CASE Files!Publish(w)
        BY <3>1, <4>3, WriterPublishes
      <4>4. CASE Files!Replace(w)
        BY <3>1, <4>4, WriterReplaces
      <4>5. CASE Files!Fail(w) \/ Files!Die(w)
        BY <3>1, <4>5, WriterStops
      <4>6. CASE Files!Unlink(w)
        BY <3>1, <4>6, WriterUnlinks
      <4>7. CASE Files!Truncate(w)
        BY <3>1, <4>7, WriterTruncates
      <4> QED
        BY <3>2, <4>1, <4>2, <4>3, <4>4, <4>5, <4>6, <4>7 DEF Files!Write
    <3>3. ASSUME NEW r \in Readers,
                 Files!PinRead(r) \/ Files!OpenRead(r) \/ Files!Read(r)
          PROVE  FilesInv'
      BY <3>1, <3>3, ReaderSteps
    <3>4. CASE Files!MoveRoot
               \/ \E r \in Files!Directories : Files!MoveFolder(r)
      BY <3>1, <3>4, DirectoriesMove
    <3> QED
      BY <2>1, <3>2, <3>3, <3>4 DEF Files!FilesNext
  <2>2. CASE UNCHANGED Files!filesVars
    BY <2>2 DEF FilesInv, FilesTypeOK, AtomicAlone, WriterFits, ReaderFits,
       Unlinked, NoMoreFaults, Files!Busy, Files!filesVars
  <2> QED
    BY <2>1, <2>2
<1>3. FilesInv => WritesAreHonest
  <2> SUFFICES ASSUME FilesInv PROVE WritesAreHonest
    OBVIOUS
  <2>1. ASSUME NEW w \in Writers, writer[w].answer = "failed",
               writer[w].kind # "directory", NEW f \in Files!Directories,
               w \in {name[f], temp[f]}
        PROVE  w \in empty
    BY <2>1 DEF FilesInv, WriterFits, Unlinked
  <2>2. \A w \in Writers : writer[w].answer = "ok" => w \in stood
    BY DEF FilesInv, WriterFits
  <2>3. \A r \in Readers : reader[r].answer \notin reader[r].failed
    BY DEF FilesInv, ReaderFits
  <2> QED
    BY <2>1, <2>2, <2>3 DEF WritesAreHonest, Files!WritesAreHonest
<1> QED
  BY <1>1, <1>2, <1>3, PTL DEF Files!FilesSpec
=============================================================================
