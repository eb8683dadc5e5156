-------------------------- MODULE BoundedBenchmark --------------------------
(***************************************************************************)
(* One bounded benchmark of the ADK (evaluation/adk_lanes.py and its route *)
(* in api/app.py): the cases of a pack are evaluated one after the other   *)
(* under a budget of bytes and wall time, and the evidence tells what was  *)
(* evaluated and whether the business storage has changed meanwhile.  The  *)
(* operation around it is that of DebugOperations.                         *)
(*                                                                         *)
(* A case is the sizes of its input and output and the place where its     *)
(* evaluation raises, if it does.  A business root is told apart by how    *)
(* often it was written.                                                   *)
(***************************************************************************)
EXTENDS Integers, Sequences, FiniteSetsExt, Functions

CONSTANTS
    Packs,          \* case packs: sequences of cases
    Ceilings,       \* the server's limits, by field
    Requests,       \* requested limits, by some of the fields
    Stores,          \* the business roots, in the order they are read, with
                    \* distinct last names
    None,           \* no reading, no evidence
    MaxWrites       \* bound: writes of others to the business roots

VARIABLES
    pack,           \* the case pack
    lane,           \* what evaluates it
    budget,         \* the limits of the operation
    stage,          \* where the route is
    at,             \* the root or case it has reached
    late,           \* the wall time is over
    results,        \* what was recorded of the cases
    used,           \* total_bytes
    spent,          \* history: total_bytes before each case and after the last
    business,       \* the business roots
    before,         \* the snapshot taken at the start
    changed,        \* the comparison with the one taken at the end
    evidence,       \* evidence.json of the operation
    answer,         \* the result the operation is completed with
    missed          \* history: roots written between their two readings

benchmarkVars ==
    <<pack, lane, budget, stage, at, late, results, used, spent, business,
      before, changed, evidence, answer, missed>>

Lanes == {"deterministic", "unconfigured", "credentials_missing"}

BenchmarkInit ==
    /\ pack \in Packs /\ lane \in Lanes
    /\ budget = Ceilings
    /\ stage = "idle" /\ at = 1 /\ late = FALSE
    /\ results = <<>> /\ used = 0 /\ spent = <<0>>
    /\ business = [r \in Range(Stores) |-> 0]
    /\ before = [r \in Range(Stores) |-> None]
    /\ changed = FALSE
    /\ evidence = None /\ answer = None /\ missed = {}

Goto(s) == stage' = s /\ at' = 1

Advance(s, last) ==
    IF at = last THEN Goto(s) ELSE at' = at + 1 /\ UNCHANGED stage

-----------------------------------------------------------------------------
(* _validate_adk_benchmark_budget: the limit of cases is cut to the        *)
(* ceiling, a request above another ceiling is refused.                    *)
Accept(request) ==
    /\ stage = "idle"
    /\ IF \E f \in DOMAIN request \ {"cases"} : request[f] > Ceilings[f]
       THEN Goto("over") /\ UNCHANGED budget
       ELSE /\ budget' = [f \in DOMAIN Ceilings |->
                             IF f \in DOMAIN request
                             THEN Min({request[f], Ceilings[f]})
                             ELSE Ceilings[f]]
            /\ Goto("before")
    /\ UNCHANGED <<pack, lane, late, results, used, spent, business, before,
                   changed, evidence, answer, missed>>

(* _snapshot_roots *)
ReadBefore ==
    /\ stage = "before"
    /\ before' = [before EXCEPT ![Stores[at]] = business[Stores[at]]]
    /\ Advance("evaluating", Len(Stores))
    /\ UNCHANGED <<pack, lane, budget, late, results, used, spent, business,
                   changed, evidence, answer, missed>>

Cases == SubSeq(pack, 1, Min({Len(pack), budget.cases}))

Result(status, class, input, output) ==
    [status |-> status, class |-> class, input |-> input, output |-> output]

Refusal(class, of, when) == [class |-> class, of |-> of, when |-> when]

InputRefusals(case) ==
    <<Refusal("case_evaluation_failed", "payload", case.raises = "payload"),
      Refusal("input_limit_exceeded", "input", case.input > budget.input),
      Refusal("total_limit_exceeded", "input",
              used + case.input > budget.total),
      Refusal("temp_storage_exceeded", "input",
              used + case.input > budget.temp)>>

FaultOutputRefusals(case) ==
    <<Refusal("case_evaluation_failed", "payload", case.raises = "calculate"),
      Refusal("output_limit_exceeded", "output", case.output > budget.output)>>

OutputRefusals(case) ==
    <<Refusal("case_evaluation_failed", "payload", case.raises = "calculate"),
      Refusal("output_limit_exceeded", "output", case.output > budget.output),
      Refusal("total_limit_exceeded", "output",
              used + case.input + case.output > budget.total),
      Refusal("temp_storage_exceeded", "output",
              used + case.input + case.output > budget.temp)>>

(* The checks of a case before and after the calculation; the first one    *)
(* that refuses is recorded.                                               *)
Evaluated(case) ==
    LET checks == InputRefusals(case) \o OutputRefusals(case)
        refusing == {k \in DOMAIN checks : checks[k].when}
        first == checks[Min(refusing)]
    IN  IF refusing = {}
        THEN Result("completed", "none", case.input, case.output)
        ELSE Result("failed", first.class,
                    IF first.of = "payload" THEN 0 ELSE case.input,
                    IF first.of = "output" THEN case.output ELSE 0)

(* A case that is refused uses up nothing. *)
Charge(result) ==
    IF result.status = "completed" THEN result.input + result.output ELSE 0

TimedOut == late \/ budget.wall = 0

Evaluate(result) ==
    /\ results' = Append(results, result)
    /\ used' = used + Charge(result)
    /\ spent' = Append(spent, used')

(* _run_bounded_case_evaluations looks at the clock before every case. *)
EvaluateCase ==
    /\ stage = "evaluating"
    /\ lane = "deterministic"
    /\ IF Cases = <<>> THEN Goto("after") /\ UNCHANGED <<results, used, spent>>
       ELSE IF TimedOut
       THEN /\ Evaluate(Result("timeout", "wall_time_exceeded", 0, 0))
            /\ Goto("after")
       ELSE /\ Evaluate(Evaluated(Cases[at]))
            /\ Advance("after", Len(Cases))
    /\ UNCHANGED <<pack, lane, budget, late, business, before, changed,
                   evidence, answer, missed>>

(* The real-model lane without an evaluator or without credentials. *)
EvaluateNothing ==
    /\ stage = "evaluating"
    /\ lane # "deterministic"
    /\ Goto("after")
    /\ UNCHANGED <<pack, lane, budget, late, results, used, spent, business,
                   before, changed, evidence, answer, missed>>

ReadAfter ==
    /\ stage = "after"
    /\ changed' = (changed \/ business[Stores[at]] # before[Stores[at]])
    /\ Advance("recording", Len(Stores))
    /\ UNCHANGED <<pack, lane, budget, late, results, used, spent, business,
                   before, evidence, answer, missed>>

(* _aggregate_case_status *)
CaseStatus ==
    LET With(s) == {k \in DOMAIN results : results[k].status = s} IN
    IF With("timeout") # {} THEN "timeout"
    ELSE IF With("failed") = {} THEN "completed"
    ELSE IF With("completed") # {} THEN "partial" ELSE "failed"

Evidence ==
    [status |-> CASE lane = "deterministic" -> CaseStatus
                  [] lane = "unconfigured" -> "failed"
                  [] lane = "credentials_missing" -> "skipped",
     results |-> results, count |-> Len(Cases), bytes |-> used,
     changed |-> changed]

Unknown ==
    [status |-> "failed", results |-> <<>>, count |-> 0, bytes |-> 0,
     changed |-> None]

(* _record_evidence writes it in place; what it returns is the result. *)
Record ==
    /\ stage = "recording"
    /\ evidence' = Evidence
    /\ answer' = Evidence
    /\ Goto("over")
    /\ UNCHANGED <<pack, lane, budget, late, results, used, spent, business,
                   before, changed, missed>>

(* An exception: of a snapshot whose file has gone, or of the evidence     *)
(* which may be torn.                                                      *)
Break ==
    /\ stage \in {"before", "after", "recording"}
    /\ evidence' \in IF stage = "recording" THEN {None, "torn"} ELSE {None}
    /\ answer' = Unknown
    /\ Goto("over")
    /\ UNCHANGED <<pack, lane, budget, late, results, used, spent, business,
                   before, changed, missed>>

-----------------------------------------------------------------------------
(* Others *)

TimePasses ==
    /\ stage = "evaluating"
    /\ ~late
    /\ late' = TRUE
    /\ UNCHANGED <<pack, lane, budget, stage, at, results, used, spent,
                   business, before, changed, evidence, answer, missed>>

Position(r) == CHOOSE k \in DOMAIN Stores : Stores[k] = r

(* A background worker writes the registry, an artifact or a review. *)
WriteBusiness(r) ==
    /\ stage \in {"before", "evaluating", "after", "recording"}
    /\ \A q \in Range(Stores) : business[q] < MaxWrites
    /\ business' = [business EXCEPT ![r] = @ + 1]
    /\ missed' = IF before[r] # None /\ stage # "recording"
                    /\ ~(stage = "after" /\ at > Position(r))
                 THEN missed \cup {r} ELSE missed
    /\ UNCHANGED <<pack, lane, budget, stage, at, late, results, used, spent,
                   before, changed, evidence, answer>>

BenchmarkNext ==
    \/ \E request \in Requests : Accept(request)
    \/ ReadBefore \/ EvaluateCase \/ EvaluateNothing \/ ReadAfter \/ Record
    \/ Break \/ TimePasses
    \/ \E r \in Range(Stores) : WriteBusiness(r)

BenchmarkSpec == BenchmarkInit /\ [][BenchmarkNext]_benchmarkVars

-----------------------------------------------------------------------------
(* test_bounded_benchmark_enforces_tightened_runtime_limits, over several  *)
(* cases: what was evaluated stays within every limit together, a case is  *)
(* refused for the sum only when it does not fit what the ones before have *)
(* left, "completed" means every case of the bounded pack, a benchmark     *)
(* that ran out of time says so, a result other than an exception's is on  *)
(* record, and storage that is said to be unchanged was not written        *)
(* between its two readings.                                               *)
BenchmarkIsTold ==
    answer # None /\ answer # Unknown =>
        LET last == Len(answer.results) IN
        /\ evidence = answer
        /\ answer.bytes = spent[last + 1]
        /\ answer.bytes <= budget.total /\ answer.bytes <= budget.temp
        /\ last <= budget.cases
        /\ \A k \in 1 .. last :
              LET r == answer.results[k]
                  size == pack[k].input + pack[k].output
              IN
              /\ spent[k + 1] = IF r.status = "completed"
                                THEN spent[k] + size ELSE spent[k]
              /\ r.status = "completed" =>
                    /\ r.input <= budget.input /\ r.output <= budget.output
                    /\ pack[k].raises = "nothing"
              /\ r.class \in {"total_limit_exceeded",
                               "temp_storage_exceeded"} =>
                    \/ spent[k] + size > budget.total
                    \/ spent[k] + size > budget.temp
              /\ r.status = "timeout" => k = last /\ TimedOut
        /\ answer.status = "completed" =>
              /\ last = answer.count
              /\ \A k \in 1 .. last : answer.results[k].status = "completed"
        /\ last < answer.count =>
              answer.status \in {"timeout", "failed", "skipped"}
        /\ ~answer.changed => missed = {}
=============================================================================
