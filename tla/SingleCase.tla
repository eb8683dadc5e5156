----------------------------- MODULE SingleCase -----------------------------
(* The single-case operator flow (operator_entrypoint.run_operator_flow),  *)
(* from the planner and the case worker under it to the last registry      *)
(* record, started by the script, by the synchronous route or in the       *)
(* background, and its rerun, which may go to the directory of its source. *)
(*                                                                         *)
(* A file is abstracted to the flow that wrote it and what the properties  *)
(* tell apart: the verdict of the constitution check, the entries of the   *)
(* manifest.  The planner is a model: it may call the worker more than     *)
(* once, not at all, or break off.                                         *)
EXTENDS Naturals, FiniteSets

CONSTANTS
    Nothing,    \* no file, no record, no result
    MaxCalls,   \* bound: worker calls of the planners
    MaxFailures \* bound: file and registry operations that fail

Flows == {"run", "rerun"}
Roots == {"first", "other"}
Routes == {"direct", "background"}   \* direct: the script, the synchronous route

VARIABLES
    flow,       \* where each flow is
    route,      \* how it was started
    root,       \* its artifact_dir
    status,     \* the registry's status of its run
    checked,    \* the verdict of the worker call under way
    last,       \* the verdict of the last worker result, tool_state
    calls,      \* how often the planners called the worker
    brokeOff,   \* a worker call failed after it wrote files
    result,     \* what the flow will return
    evidence,   \* per root: case files with constitution_check.json
    manifest,   \* per root: run_manifest.json
    packet,     \* per root: review_packet.json and .md
    failures    \* how many operations failed

caseVars == <<flow, route, root, status, checked, last, calls, brokeOff, result,
              evidence, manifest, packet, failures>>

Verdicts == {"pass", "review_required", "fail"}

\* _map_worker_status; "error" stands for a failure the worker reports.
WorkerStatus(verdict) ==
    IF verdict = "pass" THEN "completed"
    ELSE IF verdict = "review_required" THEN "needs_review" ELSE "failed"

CaseInit ==
    /\ flow = [f \in Flows |-> "idle"]
    /\ route = [f \in Flows |-> "direct"]
    /\ root = [f \in Flows |-> "first"]
    /\ status = [f \in Flows |-> Nothing]
    /\ checked = [f \in Flows |-> Nothing]
    /\ last = [f \in Flows |-> Nothing]
    /\ calls = 0
    /\ brokeOff = [f \in Flows |-> FALSE]
    /\ result = [f \in Flows |-> Nothing]
    /\ evidence = [r \in Roots |-> Nothing]
    /\ manifest = [r \in Roots |-> Nothing]
    /\ packet = [r \in Roots |-> Nothing]
    /\ failures = 0

MayFail == failures < MaxFailures
Goto(f, place) == flow' = [flow EXCEPT ![f] = place]
Fail == failures' = failures + 1

\* record_run_event, or its failure.
Record(f, s) ==
    \/ status' = [status EXCEPT ![f] = s] /\ UNCHANGED failures
    \/ MayFail /\ Fail /\ UNCHANGED status

-----------------------------------------------------------------------------
\* The background route records the acceptance before it schedules the flow;
\* the artifact directory of a new run is its own.
Start(via) ==
    /\ flow["run"] = "idle"
    /\ Goto("run", "begin")
    /\ route' = [route EXCEPT !["run"] = via]
    /\ status' = IF via = "background"
                 THEN [status EXCEPT !["run"] = "accepted"] ELSE status
    /\ UNCHANGED <<root, checked, last, calls, brokeOff, result, evidence, manifest,
                   packet, failures>>

\* rerun_from_registry takes the recorded parameters, with the directory of
\* the source unless another is given: the script may give none.
Rerun(to) ==
    /\ flow["rerun"] = "idle"
    /\ status["run"] \notin {Nothing, "accepted"}
    /\ Goto("rerun", "begin")
    /\ root' = [root EXCEPT !["rerun"] = to]
    /\ UNCHANGED <<route, status, checked, last, calls, brokeOff, result,
                   evidence, manifest, packet, failures>>

\* Writes validated_input.json; an error passes out of the flow.
WriteInput(f) ==
    /\ flow[f] = "begin"
    /\ \/ Goto(f, "queue") /\ UNCHANGED failures
       \/ MayFail /\ Fail /\ Goto(f, "escaped")
    /\ UNCHANGED <<route, root, status, checked, last, calls, brokeOff, result,
                   evidence, manifest, packet>>

\* queued, then running, each on a best-effort basis.
RecordStart(f, at, s, next) ==
    /\ flow[f] = at
    /\ Record(f, s)
    /\ Goto(f, next)
    /\ UNCHANGED <<route, root, checked, last, calls, brokeOff, result, evidence,
                   manifest, packet>>

\* The planner calls the worker, whose input or calculation may be refused;
\* otherwise it writes the case files, the constitution check the last.
CallWorker(f, v) ==
    /\ flow[f] = "plan" /\ calls < MaxCalls
    /\ calls' = calls + 1
    /\ IF v = "error"
       THEN /\ last' = [last EXCEPT ![f] = "error"]
            /\ UNCHANGED <<flow, checked, evidence>>
       ELSE /\ evidence' = [evidence EXCEPT ![root[f]] = [by |-> f, verdict |-> v]]
            /\ checked' = [checked EXCEPT ![f] = v]
            /\ Goto(f, "manifest")
            /\ UNCHANGED last
    /\ UNCHANGED <<route, root, status, brokeOff, result, manifest, packet,
                   failures>>

\* The worker's manifest replaces whatever was there, and its result stands.
WriteManifest(f) ==
    /\ flow[f] = "manifest"
    /\ manifest' = [manifest EXCEPT ![root[f]] = [by |-> f, lists |-> {}]]
    /\ last' = [last EXCEPT ![f] = checked[f]]
    /\ Goto(f, "plan")
    /\ UNCHANGED <<route, root, status, checked, calls, brokeOff, result,
                   evidence, packet, failures>>

\* The tool reports a file error to the planner, and keeps the last result.
WorkerBreaksOff(f) ==
    /\ flow[f] = "manifest" /\ MayFail /\ Fail
    /\ brokeOff' = [brokeOff EXCEPT ![f] = TRUE]
    /\ Goto(f, "plan")
    /\ UNCHANGED <<route, root, status, checked, last, calls, result, evidence,
                   manifest, packet>>

\* The planner ends.  Without a worker result that is an error, and so is
\* any exception of the model; a result to review gets its packet.
PlannerEnds(f) ==
    /\ flow[f] = "plan" /\ last[f] # Nothing
    /\ packet' = IF last[f] = "review_required"
                 THEN [packet EXCEPT ![root[f]] = f] ELSE packet
    /\ result' = [result EXCEPT ![f] =
                     [status |-> WorkerStatus(last[f]), told |-> TRUE]]
    /\ Goto(f, "attach")
    /\ UNCHANGED <<route, root, status, checked, last, calls, brokeOff, evidence,
                   manifest, failures>>

PlannerFails(f) ==
    /\ flow[f] = "plan"
    /\ result' = [result EXCEPT ![f] = [status |-> "failed", told |-> TRUE]]
    /\ Goto(f, "attach")
    /\ UNCHANGED <<route, root, status, checked, last, calls, brokeOff, evidence,
                   manifest, packet, failures>>

\* _attach_validated_input_artifact and _attach_review_packet_artifacts
\* rewrite the manifest the planner named, if it named one that is there.
Attach(f, named) ==
    /\ flow[f] = "attach"
    /\ IF named /\ manifest[root[f]] # Nothing
       THEN \/ /\ manifest' = [manifest EXCEPT ![root[f]].lists = @ \cup
                       {"validated_input"} \cup
                       (IF result[f].status = "needs_review"
                        THEN {"review_packet"} ELSE {})]
               /\ Goto(f, "guide") /\ UNCHANGED failures
            \/ MayFail /\ Fail /\ Goto(f, "escaped") /\ UNCHANGED manifest
       ELSE Goto(f, "guide") /\ UNCHANGED <<manifest, failures>>
    /\ UNCHANGED <<route, root, status, checked, last, calls, brokeOff, result,
                   evidence, packet>>

\* _attach_ai_review and the delivery: advisory, and whatever fails in them
\* is noted in the result.
Guide(f) ==
    /\ flow[f] = "guide"
    /\ \/ /\ result[f].status = "needs_review"
          /\ packet' = [packet EXCEPT ![root[f]] = f]
          /\ manifest' = IF manifest[root[f]] = Nothing THEN manifest
                         ELSE [manifest EXCEPT ![root[f]].lists = @ \cup {"ai_review"}]
          /\ UNCHANGED failures
       \/ /\ result[f].status = "needs_review" /\ MayFail /\ Fail
          /\ UNCHANGED <<packet, manifest>>
       \/ /\ result[f].status # "needs_review"
          /\ UNCHANGED <<packet, manifest, failures>>
    /\ Goto(f, "record")
    /\ UNCHANGED <<route, root, status, checked, last, calls, brokeOff, result, evidence>>

FaultRecordResult(f) ==
    /\ flow[f] = "record"
    /\ Record(f, result[f].status)
    /\ Goto(f, "returned")
    /\ UNCHANGED <<route, root, checked, last, calls, brokeOff, result,
                   evidence, manifest, packet>>

\* _record_registry_final_result_best_effort: a failure is appended to the
\* errors of the result.
RecordResult(f) ==
    /\ flow[f] = "record"
    /\ Record(f, result[f].status)
    /\ result' = [result EXCEPT ![f].told = (failures' = failures)]
    /\ Goto(f, "returned")
    /\ UNCHANGED <<route, root, checked, last, calls, brokeOff, evidence, manifest, packet>>

\* An exception passed out of the flow: the background job records it, the
\* synchronous route and the script do not.
Escape(f) ==
    /\ flow[f] = "escaped"
    /\ IF route[f] = "background"
       THEN Record(f, "failed")
       ELSE UNCHANGED <<status, failures>>
    /\ Goto(f, IF failures' = failures THEN "raised" ELSE "lost")
    /\ UNCHANGED <<route, root, checked, last, calls, brokeOff, result, evidence,
                   manifest, packet>>

CaseNext ==
    \/ \E via \in Routes : Start(via)
    \/ \E to \in Roots : Rerun(to)
    \/ \E f \in Flows :
          \/ WriteInput(f)
          \/ RecordStart(f, "queue", "queued", "run")
          \/ RecordStart(f, "run", "running", "plan")
          \/ \E v \in Verdicts \cup {"error"} : CallWorker(f, v)
          \/ WriteManifest(f) \/ WorkerBreaksOff(f)
          \/ PlannerEnds(f) \/ PlannerFails(f)
          \/ \E named \in BOOLEAN : Attach(f, named)
          \/ Guide(f) \/ RecordResult(f) \/ Escape(f)

CaseSpec == CaseInit /\ [][CaseNext]_caseVars

-----------------------------------------------------------------------------
\* No other flow was started on the directory.
Alone(f) == \A g \in Flows \ {f} : flow[g] = "idle" \/ root[g] # root[f]

\* What a single-case run returns is what the registry says, or its errors
\* say that the registry could not be written; an exception of a background
\* run is on record.  A successful run that has its directory to itself is
\* backed by it: the verdict on disk is the one behind its status, and a run
\* to be reviewed has its packet, whatever its advisory steps did.
CaseIsBacked ==
    \A f \in Flows :
        /\ flow[f] = "returned" => status[f] = result[f].status \/ ~result[f].told
        /\ flow[f] = "raised" /\ route[f] = "background" => status[f] = "failed"
        /\ /\ flow[f] = "returned" /\ result[f].status # "failed" /\ Alone(f)
           => /\ evidence[root[f]].by = f /\ manifest[root[f]].by = f
              /\ ~brokeOff[f] =>
                    WorkerStatus(evidence[root[f]].verdict) = result[f].status
              /\ result[f].status = "needs_review" => packet[root[f]] = f
=============================================================================
