---------------------------- MODULE RunEvidence ----------------------------
(***************************************************************************)
(* The evidence of one ADK run and its replay (api/app.py).  The worker    *)
(* publishes the artifacts of the two steps of the workflow one by one in  *)
(* the run's isolated root, reads those of the staged step back for the    *)
(* digests of the step's manifest, and lists the digests of both step      *)
(* manifests in the run's.  A replay reads manifests and artifacts against *)
(* these digests, one file after the other, and calculates again.          *)
(*                                                                         *)
(* Files are told apart by the input they are about; a digest stands for   *)
(* the content it was taken of.  Others change the files at any time.      *)
(***************************************************************************)
EXTENDS Naturals, Sequences

CONSTANTS
    Inputs,         \* inputs of runs
    Given,          \* the one of this run, in its provenance
    Absent,         \* no file, no digest, no answer
    MaxChanges      \* bound: changes by others

VARIABLES
    disk,           \* by step: its files
    root,           \* run_manifest.json of the run
    status,         \* of the run
    worker,         \* where the worker is, and the digests it has collected
    replay,         \* where the replay is, and what it has read
    changes,        \* bound: changes so far
    early,          \* history: those before the run had completed
    crafted,        \* history: the run's manifest was made by hand
    answer          \* the last replay that was available

evidenceVars ==
    <<disk, root, status, worker, replay, changes, early, crafted, answer>>

Steps == {1, 2}     \* validate; execute, staged
Complete == {"validated_input", "case_input", "deterministic_result"}
Data(s) == IF s = 1 THEN Complete \ {"deterministic_result"} ELSE Complete

Input(x) == [kind |-> "input", of |-> x]

\* build_chainladder_case_payload and ChainladderAdapter.calculate
CaseOf(input) == [kind |-> "case", of |-> input.of]
Calculated(case) == [kind |-> "result", of |-> case.of]

Original(f, x) ==
    CASE f = "validated_input" -> Input(x)
      [] f = "case_input" -> CaseOf(Input(x))
      [] f = "deterministic_result" -> Calculated(CaseOf(Input(x)))

NoDigests == [f \in Complete |-> Absent]

Undigested(s) == [paths |-> Data(s), digests |-> NoDigests]

Digested(s, x) ==
    [paths |-> Data(s),
     digests |-> [f \in Complete |->
                     IF f \in Data(s) THEN Original(f, x) ELSE Absent]]

Initial == [input |-> Given, listed |-> [s \in Steps |-> Absent]]

EvidenceInit ==
    /\ disk = [s \in Steps |->
                  [f \in Complete \cup {"run_manifest"} |-> Absent]]
    /\ root = Initial
    /\ status = "running"
    /\ worker = [stage |-> "publishing", step |-> 1, at |-> 1,
                 sealed |-> Undigested(2), listed |-> Initial.listed]
    /\ replay = [stage |-> "idle", at |-> 1, root |-> Initial, step |-> 1,
                 seen |-> NoDigests]
    /\ changes = 0 /\ early = 0 /\ crafted = FALSE
    /\ answer = Absent

-----------------------------------------------------------------------------
(* The worker *)

Goes(stage, step, at) ==
    worker' = [worker EXCEPT !.stage = stage, !.step = step, !.at = at]

FailRun == status' = "failed" /\ Goes("over", 1, 1)

Aside == <<replay, changes, early, crafted, answer>>

PublishOrder(s) ==
    IF s = 1 THEN <<"validated_input", "case_input", "run_manifest">>
    ELSE <<"validated_input", "case_input", "deterministic_result",
           "run_manifest">>

(* The validation step writes its manifest with the digests of what it has *)
(* written; the other one is copied out of a private staging directory.    *)
Publish ==
    LET s == worker.step
        f == PublishOrder(s)[worker.at]
    IN
    /\ worker.stage = "publishing"
    /\ disk' = [disk EXCEPT ![s][f] =
          IF f # "run_manifest" THEN Original(f, Given)
          ELSE IF s = 1 THEN Digested(s, Given) ELSE Undigested(s)]
    /\ IF f # "run_manifest" THEN Goes("publishing", s, worker.at + 1)
       ELSE IF s = 1 THEN Goes("publishing", 2, 1)
       ELSE Goes("reading", 2, 1)
    /\ UNCHANGED <<root, status, Aside>>

ReadOrder ==
    <<"run_manifest", "case_input", "deterministic_result", "validated_input">>

ReadBack ==
    LET f == ReadOrder[worker.at]
        content == disk[2][f]
        last == worker.at = Len(ReadOrder)
    IN
    /\ worker.stage = "reading"
    /\ IF content = Absent THEN FailRun
       ELSE /\ worker' = [worker EXCEPT
                   !.sealed = IF f = "run_manifest"
                              THEN [content EXCEPT !.paths = @ \cup Complete]
                              ELSE [@ EXCEPT !.digests[f] = content],
                   !.stage = IF last THEN "sealing" ELSE @,
                   !.at = IF last THEN 1 ELSE @ + 1]
            /\ UNCHANGED status
    /\ UNCHANGED <<disk, root, Aside>>

Seal ==
    /\ worker.stage = "sealing"
    /\ disk' = [disk EXCEPT ![2]["run_manifest"] = worker.sealed]
    /\ Goes("listing", 1, 1)
    /\ UNCHANGED <<root, status, Aside>>

(* The step manifests are read back, too. *)
ListStep ==
    LET s == worker.step
        content == disk[s]["run_manifest"]
    IN
    /\ worker.stage = "listing"
    /\ IF content = Absent THEN FailRun
       ELSE /\ worker' = [worker EXCEPT !.listed[s] = content,
                   !.stage = IF s = 2 THEN "closing" ELSE @,
                   !.step = IF s = 2 THEN 1 ELSE 2]
            /\ UNCHANGED status
    /\ UNCHANGED <<disk, root, Aside>>

Close ==
    /\ worker.stage = "closing"
    /\ root' = [input |-> Given, listed |-> worker.listed]
    /\ Goes("ending", 1, 1)
    /\ UNCHANGED <<disk, status, Aside>>

End ==
    /\ worker.stage = "ending"
    /\ status' = "completed"
    /\ Goes("over", 1, 1)
    /\ UNCHANGED <<disk, root, Aside>>

Break ==
    /\ worker.stage # "over"
    /\ FailRun
    /\ UNCHANGED <<disk, root, Aside>>

-----------------------------------------------------------------------------
(* The replay *)

Refused == replay' = [replay EXCEPT !.stage = "idle"] /\ UNCHANGED answer

Beside == <<disk, root, status, worker, changes, early, crafted>>

(* Only a completed run, under the digests of its provenance. *)
BeginReplay ==
    /\ replay.stage = "idle"
    /\ status = "completed"
    /\ root # Absent
    /\ root.input = Given
    /\ root.listed # Initial.listed
    /\ replay' = [stage |-> "manifests", at |-> 1, root |-> root, step |-> 1,
                  seen |-> [s \in Steps |-> Absent]]
    /\ UNCHANGED <<Beside, answer>>

FaultDigestMatches(digest, content) == content # Absent

DigestMatches(digest, content) == content # Absent /\ digest = content

(* Every listed step manifest is read; the first one that has the complete *)
(* evidence is the one to replay.                                          *)
ReadStepManifest ==
    LET s == replay.at
        content == disk[s]["run_manifest"]
        seen == [replay.seen EXCEPT ![s] = content]
        candidates == {t \in Steps : Complete \subseteq seen[t].paths}
    IN
    /\ replay.stage = "manifests"
    /\ IF ~DigestMatches(replay.root.listed[s], content) THEN Refused
       ELSE IF s = 1
       THEN /\ replay' = [replay EXCEPT !.at = 2, !.seen = seen]
            /\ UNCHANGED answer
       ELSE IF candidates = {} THEN Refused
       ELSE LET c == CHOOSE t \in candidates :
                        \A u \in candidates : t <= u
            IN
            /\ replay' = [stage |-> "artifacts", at |-> 1, step |-> c,
                          root |-> [replay.root EXCEPT !.listed = seen],
                          seen |-> NoDigests]
            /\ UNCHANGED answer
    /\ UNCHANGED Beside

EvidenceOrder == <<"validated_input", "case_input", "deterministic_result">>

ReadArtifact ==
    LET f == EvidenceOrder[replay.at]
        content == disk[replay.step][f]
        digest == replay.root.listed[replay.step].digests[f]
    IN
    /\ replay.stage = "artifacts"
    /\ IF ~DigestMatches(digest, content) THEN Refused
       ELSE /\ replay' = [replay EXCEPT !.seen[f] = content, !.at = @ + 1,
                   !.stage = IF f = "deterministic_result" THEN "calculating"
                             ELSE @]
            /\ UNCHANGED answer
    /\ UNCHANGED Beside

(* The case input has to be that of the validated input, and the saved     *)
(* result the one that is calculated from it.                              *)
Replayed(seen) ==
    /\ CaseOf(seen["validated_input"]) = seen["case_input"]
    /\ Calculated(seen["case_input"]) = seen["deterministic_result"]

AnswerReplay ==
    /\ replay.stage = "calculating"
    /\ replay' = [replay EXCEPT !.stage = "idle"]
    /\ answer' = IF ~Replayed(replay.seen) THEN answer
                 ELSE [result |-> replay.seen["deterministic_result"],
                       changes |-> changes, early |-> early,
                       crafted |-> crafted]
    /\ UNCHANGED Beside

-----------------------------------------------------------------------------
(* Others *)

Changes ==
    /\ changes < MaxChanges
    /\ changes' = changes + 1
    /\ early' = early + (IF status = "running" THEN 1 ELSE 0)
    /\ UNCHANGED <<status, worker, replay, answer>>

(* A file of a step is replaced by that of another run, or removed. *)
ChangeFile(s, f, x) ==
    /\ Changes
    /\ disk[s][f] # Absent
    /\ \/ disk' = [disk EXCEPT ![s][f] =
             IF f = "run_manifest" THEN Digested(s, x) ELSE Original(f, x)]
       \/ disk' = [disk EXCEPT ![s][f] = Absent]
    /\ UNCHANGED <<root, crafted>>

(* The run's manifest is edited to list the step manifests of another run. *)
CraftRoot(x) ==
    /\ Changes
    /\ status = "completed"
    /\ root' = [input |-> Given, listed |-> [s \in Steps |-> Digested(s, x)]]
    /\ crafted' = TRUE
    /\ UNCHANGED disk

(* The whole root is replaced by that of another run, which counts as a    *)
(* manifest made by hand when something had been changed earlier.          *)
PutBack(x) ==
    /\ Changes
    /\ status = "completed"
    /\ root' = [input |-> x, listed |-> [s \in Steps |-> Digested(s, x)]]
    /\ disk' = [s \in Steps |-> [f \in Complete \cup {"run_manifest"} |->
          IF f = "run_manifest" THEN Digested(s, x)
          ELSE IF f \in Data(s) THEN Original(f, x) ELSE Absent]]
    /\ crafted' = (crafted \/ early > 0)

EvidenceNext ==
    \/ Publish \/ ReadBack \/ Seal \/ ListStep \/ Close \/ End \/ Break
    \/ BeginReplay \/ ReadStepManifest \/ ReadArtifact \/ AnswerReplay
    \/ \E x \in Inputs :
          \/ \E s \in Steps, f \in Complete \cup {"run_manifest"} :
                ChangeFile(s, f, x)
          \/ CraftRoot(x) \/ PutBack(x)

EvidenceSpec == EvidenceInit /\ [][EvidenceNext]_evidenceVars

-----------------------------------------------------------------------------
(* test_replay_rejects_tampered_step_evidence_identity_and_digests: a      *)
(* replay that is available tells the result that the run has calculated   *)
(* from its input, although files change while they are published, while   *)
(* their digests are taken and while they are replayed: unless three or    *)
(* more were changed, some of them before the run had completed, or the    *)
(* run's manifest was made by hand.                                        *)
ReplayIsOfTheRun ==
    answer # Absent
    /\ ~answer.crafted /\ (answer.changes < 3 \/ answer.early = 0)
    => answer.result = Calculated(CaseOf(Input(Given)))
=============================================================================
