---------------------------- MODULE ToolPipeline ----------------------------
(* tool_runner/runner.py: the steps of a pipeline, each a tool run as a    *)
(* child process, with conditions on earlier steps, the run's manifest and *)
(* the registry beside the artifacts.                                      *)
(*                                                                         *)
(* Artifact 0 is the case input and artifact i the output of step i.  A    *)
(* pipeline gives each step the artifact it reads and the step its `when`  *)
(* asks for a review (0: no condition; a number past its own: unknown to   *)
(* the steps before it).                                                   *)
EXTENDS Naturals

CONSTANTS
    NSteps,     \* steps of a pipeline
    Pipelines,  \* the pipelines: functions of 1..NSteps to [reads, when]
    None        \* no status, no answer

Steps == 1..NSteps

VARIABLES
    pipeline,   \* the pipeline that is run
    stale,      \* artifacts an earlier run left in the same directory
    step,       \* the step under way
    stage,      \* what is done with it
    outcome,    \* per step: pending, completed, skipped, failed
    asked,      \* per step: its output says review_required
    written,    \* artifacts this run wrote
    listed,     \* artifacts the manifest lists
    recorded,   \* the run's status in the registry
    answer      \* PipelineRunResult.run_status

pipelineVars == <<pipeline, stale, step, stage, outcome, asked, written,
                  listed, recorded, answer>>

PipelineInit ==
    /\ pipeline \in Pipelines
    /\ stale \in {{}, Steps}
    /\ step = 1 /\ stage = "begin"
    /\ outcome = [i \in Steps |-> "pending"]
    /\ asked = [i \in Steps |-> FALSE]
    /\ written = {} /\ listed = {} /\ recorded = None /\ answer = None

Failed == \E i \in Steps : outcome[i] = "failed"

\* _derive_run_status, over the steps there are results of.
Derived ==
    IF Failed THEN "failed"
    ELSE IF \E i \in Steps : asked[i] THEN "needs_review" ELSE "completed"

Exists(artifact) == artifact \in written \cup stale

Goto(i) == step' = i /\ stage' = IF i > NSteps THEN "end" ELSE "step"

\* Case input, first manifest and first record of the run.
BeginPipeline ==
    /\ stage = "begin"
    /\ written' = {0} /\ listed' = {0} /\ recorded' = "running"
    /\ Goto(1)
    /\ UNCHANGED <<pipeline, stale, outcome, asked, answer>>

NextStep == Goto(step + 1)

\* _evaluate_when
ConditionMet ==
    pipeline[step].when \in {0} \cup {i \in 1..(step - 1) : asked[i]}

FaultRuns == stage = "step" /\ ConditionMet

Runs == stage = "step" /\ ~Failed /\ ConditionMet

\* After a failure, or when the condition is not met.
SkipStep ==
    /\ stage = "step"
    /\ Failed \/ (pipeline[step].when < step /\ ~ConditionMet)
    /\ outcome' = [outcome EXCEPT ![step] = "skipped"]
    /\ NextStep
    /\ UNCHANGED <<pipeline, stale, asked, written, listed, recorded, answer>>

\* A condition on a step that has no result yet raises outside of the try:
\* the run ends as an exception, and is left as it was last recorded.
UnknownCondition ==
    /\ stage = "step" /\ ~Failed
    /\ pipeline[step].when >= step
    /\ stage' = "raised"
    /\ UNCHANGED <<pipeline, stale, step, outcome, asked, written, listed,
                   recorded, answer>>

\* The input is missing, the tool fails or reports what is no success, or an
\* output it should have produced is not there; it may have written others.
FailStep ==
    /\ Runs
    /\ outcome' = [outcome EXCEPT ![step] = "failed"]
    /\ \/ written' = written
       \/ Exists(pipeline[step].reads) /\ written' = written \cup {step}
    /\ NextStep
    /\ UNCHANGED <<pipeline, stale, asked, listed, recorded, answer>>

\* The tool succeeds: its output exists, though maybe from the earlier run,
\* and tells whether a review is asked.
RunStep ==
    /\ Runs
    /\ Exists(pipeline[step].reads)
    /\ outcome' = [outcome EXCEPT ![step] = "completed"]
    /\ asked' \in {[asked EXCEPT ![step] = b] : b \in BOOLEAN}
    /\ written' \in {written \cup {step}} \cup
                    {written : old \in stale \cap {step}}
    /\ stage' = "merge"
    /\ UNCHANGED <<pipeline, stale, step, listed, recorded, answer>>

MergeManifest ==
    /\ stage = "merge"
    /\ listed' = listed \cup {step}
    /\ stage' = "sync"
    /\ UNCHANGED <<pipeline, stale, step, outcome, asked, written, recorded,
                   answer>>

\* _sync_registry_status records the status derived so far, a terminal one.
SyncRegistry ==
    /\ stage = "sync"
    /\ recorded' = Derived
    /\ NextStep
    /\ UNCHANGED <<pipeline, stale, outcome, asked, written, listed, answer>>

\* The manifest or the registry cannot be written: the error passes out.
FileError ==
    /\ stage \in {"merge", "sync", "end"}
    /\ stage' = "raised"
    /\ UNCHANGED <<pipeline, stale, step, outcome, asked, written, listed,
                   recorded, answer>>

EndPipeline ==
    /\ stage = "end"
    /\ recorded' = Derived /\ answer' = Derived
    /\ stage' = "returned"
    /\ UNCHANGED <<pipeline, stale, step, outcome, asked, written, listed>>

PipelineNext ==
    \/ BeginPipeline \/ SkipStep \/ UnknownCondition \/ FailStep \/ RunStep
    \/ MergeManifest \/ SyncRegistry \/ FileError \/ EndPipeline

PipelineSpec == PipelineInit /\ [][PipelineNext]_pipelineVars

-----------------------------------------------------------------------------
\* The condition of a step is met, and no step before it has failed.
Due(i) ==
    /\ \A j \in 1..(i - 1) : outcome[j] # "failed"
    /\ pipeline[i].when \in {0} \cup {j \in 1..(i - 1) : asked[j]}

\* What a pipeline returns is what its registry says and what its steps did:
\* it failed exactly when a step did, and asks for a review exactly when none
\* failed and a completed step asked for one.  A step was run exactly when its
\* condition was met and no step before it had failed, so one step fails at
\* most and none runs after it.  The manifest lists the output of each
\* completed step, and in a fresh directory that output is this run's, made
\* from what a completed step of it wrote.
PipelineIsTold ==
    stage = "returned" =>
        LET Completed == {i \in Steps : outcome[i] = "completed"} IN
        /\ recorded = answer
        /\ answer = "failed" <=> Failed
        /\ answer = "needs_review" <=>
              ~Failed /\ \E i \in Completed : asked[i]
        /\ answer \in {"failed", "needs_review", "completed"}
        /\ \A i \in Steps :
              outcome[i] = IF ~Due(i) THEN "skipped"
                           ELSE IF i \in Completed THEN "completed"
                           ELSE "failed"
        /\ \A i \in Completed :
              /\ i \in listed
              /\ stale = {} =>
                    i \in written /\ pipeline[i].reads \in Completed \cup {0}
=============================================================================
