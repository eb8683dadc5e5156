----------------------- MODULE DebugOperationsProofs -----------------------
(***************************************************************************)
(* What holds of the debug operations for every number of servers on the   *)
(* store and every set of keys, requests and ids; and, of the same         *)
(* adapter, what the comparison of a checkout, a bounded benchmark and the *)
(* policy of the Workflow Lab tell for every checkout, case pack, limit    *)
(* and draft.                                                              *)
(***************************************************************************)
EXTENDS DebugOperations, DeveloperTools, SequenceTheorems, FunctionTheorems,
        FiniteSetTheorems, NaturalsInduction, WellFoundedInduction, TLAPS

(* The request that is at an operation is the only one that is, and the    *)
(* operation is still on record as running.                                *)
InHand ==
    \A s \in Servers : handler[s].stage # "idle" =>
        /\ \E o \in operations : o.id = handler[s].id /\ o.status = "running"
        /\ executions[handler[s].id] = IF handler[s].stage = "accepted"
                                       THEN 0 ELSE 1
        /\ handler[s].stage = "executed"
              => handler[s].result \in {"completed", "failed"}
        /\ \A t \in Servers : handler[t].stage # "idle"
                              /\ handler[t].id = handler[s].id => t = s

(* Only what was accepted is carried out. *)
AcceptedFirst ==
    \A id \in Ids : executions[id] # 0 => \E o \in operations : o.id = id

Inv == TypeOK /\ InHand /\ AcceptedFirst /\ ExecutedOnce /\ AnswersAgree

-----------------------------------------------------------------------------

LEMMA InvHoldsInitially == DebugInit => Inv
<1> SUFFICES ASSUME DebugInit PROVE Inv
  OBVIOUS
<1>1. TypeOK
  BY OperationsAssumption DEF DebugInit, TypeOK, Handlers, Idle
<1>2. InHand /\ AcceptedFirst
  BY DEF DebugInit, InHand, AcceptedFirst, Idle
<1>3. ExecutedOnce /\ AnswersAgree
  BY DEF DebugInit, ExecutedOnce, AnswersAgree
<1> QED
  BY <1>1, <1>2, <1>3 DEF Inv

LEMMA RecordKeepsInv ==
    ASSUME Inv, NEW s \in Servers, NEW key \in Keys,
           NEW fingerprint \in Fingerprints, NEW id \in Ids,
           Record(s, key, fingerprint, id)
    PROVE  Inv'
<1> DEFINE o == [key |-> key, fingerprint |-> fingerprint, id |-> id,
                 status |-> "running"]
<1> USE DEF Inv
<1>1. /\ operations' = operations \cup {o}
      /\ handler' = [handler EXCEPT ![s] =
            [stage |-> "accepted", id |-> id, result |-> "none"]]
      /\ UNCHANGED <<executions, answers, restarts>>
      /\ \A p \in operations : p.id # id /\ p.key # key
  BY DEF Record, Bound
<1>2. executions[id] = 0
  BY <1>1 DEF AcceptedFirst
<1>3. TypeOK'
  BY <1>1 DEF TypeOK, Handlers, Operations, Statuses
<1>4. InHand'
  <2>1. \A t \in Servers \ {s} : handler'[t] = handler[t]
    BY <1>1 DEF TypeOK
  <2>2. handler'[s].stage = "accepted" /\ handler'[s].id = id
    BY <1>1 DEF TypeOK
  <2>3. \A t \in Servers : handler[t].stage # "idle" => handler[t].id # id
    BY <1>1 DEF InHand
  <2>4. /\ \E p \in operations' : p.id = id /\ p.status = "running"
        /\ operations \subseteq operations' /\ executions' = executions
    <3>1. o \in operations' /\ operations \subseteq operations'
      BY <1>1
    <3>2. o.id = id /\ o.status = "running"
      OBVIOUS
    <3>3. executions' = executions
      BY <1>1
    <3> QED
      BY <3>1, <3>2, <3>3
  <2> SUFFICES ASSUME NEW t \in Servers, handler'[t].stage # "idle"
               PROVE  /\ \E p \in operations' :
                            p.id = handler'[t].id /\ p.status = "running"
                      /\ executions'[handler'[t].id] =
                            IF handler'[t].stage = "accepted" THEN 0 ELSE 1
                      /\ handler'[t].stage = "executed"
                            => handler'[t].result \in {"completed", "failed"}
                      /\ \A u \in Servers :
                            handler'[u].stage # "idle"
                            /\ handler'[u].id = handler'[t].id => u = t
    BY DEF InHand
  <2>5. CASE t = s
    BY <1>2, <2>1, <2>2, <2>3, <2>4, <2>5
  <2>6. CASE t # s
    <3>1. handler'[t] = handler[t] /\ handler[t].id # id
      BY <2>1, <2>3, <2>6
    <3>2. \E p \in operations : p.id = handler[t].id /\ p.status = "running"
      BY <3>1 DEF InHand
    <3>3. \A u \in Servers :
              handler'[u].stage # "idle" /\ handler'[u].id = handler'[t].id
              => u = t
      BY <2>1, <2>2, <3>1 DEF InHand
    <3> QED
      BY <2>4, <3>1, <3>2, <3>3 DEF InHand
  <2> QED
    BY <2>5, <2>6
<1>5. AcceptedFirst'
  BY <1>1 DEF AcceptedFirst
<1>6. ExecutedOnce'
  BY <1>1 DEF ExecutedOnce
<1>7. AnswersAgree'
  BY <1>1 DEF AnswersAgree
<1> QED
  BY <1>3, <1>4, <1>5, <1>6, <1>7

LEMMA ExecuteKeepsInv ==
    ASSUME Inv, NEW s \in Servers, Execute(s)
    PROVE  Inv'
<1> USE DEF Inv
<1>1. PICK ended \in {"completed", "failed"} :
          handler' = [handler EXCEPT ![s].stage = "executed",
                                     ![s].result = ended]
  BY DEF Execute
<1>2. /\ handler[s].stage = "accepted"
      /\ handler[s].id \in Ids /\ executions[handler[s].id] = 0
      /\ executions' = [executions EXCEPT ![handler[s].id] = 1]
      /\ UNCHANGED <<operations, answers, restarts>>
  <2>1. handler[s].stage = "accepted"
    BY DEF Execute
  <2>2. PICK o \in operations : o.id = handler[s].id
    BY <2>1 DEF InHand
  <2>3. executions[handler[s].id] = 0
    BY <2>1 DEF InHand
  <2>4. executions' = [executions EXCEPT ![handler[s].id] = 1]
    BY <2>3 DEF Execute, TypeOK
  <2> QED
    BY <2>1, <2>2, <2>3, <2>4 DEF Execute, TypeOK, Operations
<1>3. /\ handler'[s].stage = "executed" /\ handler'[s].result = ended
      /\ handler'[s].id = handler[s].id
      /\ \A t \in Servers \ {s} : handler'[t] = handler[t]
      /\ executions'[handler[s].id] = 1
      /\ \A id \in Ids \ {handler[s].id} : executions'[id] = executions[id]
  BY <1>1, <1>2 DEF TypeOK, Handlers
<1>4. TypeOK'
  BY <1>1, <1>2 DEF TypeOK, Handlers
<1>5. InHand'
  <2>1. \A t \in Servers : handler'[t].stage # "idle"
                           => handler[t].stage # "idle"
    BY <1>2, <1>3
  <2>2. \A t \in Servers \ {s} : handler[t].stage # "idle" =>
            handler[t].id # handler[s].id /\ handler[t].id \in Ids
    BY <1>2 DEF InHand, TypeOK, Operations
  <2> QED
    BY <1>2, <1>3, <2>1, <2>2 DEF InHand
<1>6. AcceptedFirst'
  BY <1>2, <1>3 DEF AcceptedFirst, InHand
<1>7. ExecutedOnce'
  BY <1>2, <1>3 DEF ExecutedOnce
<1>8. AnswersAgree'
  BY <1>2 DEF AnswersAgree
<1> QED
  BY <1>4, <1>5, <1>6, <1>7, <1>8

(* A server that lets go of its request. *)
LEMMA IdleKeepsInHand ==
    ASSUME TypeOK, InHand, NEW s \in Servers,
           handler' = [handler EXCEPT ![s] = Idle],
           executions' = executions,
           \A t \in Servers : handler[t].stage # "idle" /\ t # s =>
               \E o \in operations' :
                   o.id = handler[t].id /\ o.status = "running"
    PROVE  InHand'
<1>1. handler'[s].stage = "idle"
      /\ \A t \in Servers \ {s} : handler'[t] = handler[t]
  BY DEF TypeOK, Idle
<1> QED
  BY <1>1 DEF InHand

LEMMA CompleteKeepsInv ==
    ASSUME Inv, NEW s \in Servers, Complete(s)
    PROVE  Inv'
<1> USE DEF Inv
<1>1. PICK o \in operations :
          /\ o.id = handler[s].id
          /\ operations' = (operations \ {o}) \cup
                {[o EXCEPT !.status = handler[s].result]}
          /\ answers' = answers \cup {[o EXCEPT !.status = handler[s].result]}
  BY DEF Complete
<1> DEFINE done == [o EXCEPT !.status = handler[s].result]
<1>2. /\ o.status = "running"
      /\ handler[s].result \in {"completed", "failed"}
      /\ handler[s].stage = "executed"
  BY <1>1 DEF Complete, InHand, ExecutedOnce
<1>3. /\ done \in Operations /\ done.id = o.id /\ done.key = o.key
      /\ done.fingerprint = o.fingerprint /\ done.status = handler[s].result
  BY <1>2 DEF TypeOK, Operations, Statuses
<1>4. /\ handler' = [handler EXCEPT ![s] = Idle]
      /\ UNCHANGED <<executions, restarts>>
  BY DEF Complete
<1>5. TypeOK'
  BY <1>1, <1>3, <1>4, OperationsAssumption DEF TypeOK, Handlers, Idle
<1>6. InHand'
  <2>1. ASSUME NEW t \in Servers, handler[t].stage # "idle", t # s
        PROVE  \E p \in operations' :
                   p.id = handler[t].id /\ p.status = "running"
    <3>1. handler[t].id # handler[s].id
      BY <1>2, <2>1 DEF InHand
    <3>2. PICK p \in operations : p.id = handler[t].id /\ p.status = "running"
      BY <2>1 DEF InHand
    <3> QED
      BY <1>1, <3>1, <3>2
  <2> QED
    BY <1>4, <2>1, IdleKeepsInHand
<1>7. AcceptedFirst'
  BY <1>1, <1>3, <1>4 DEF AcceptedFirst
<1>8. ExecutedOnce'
  <2>1. \A p \in operations' : p = done \/ (p \in operations /\ p # o)
    BY <1>1
  <2>2. ASSUME NEW p \in operations', NEW q \in operations',
               p.key = q.key \/ p.id = q.id
        PROVE  p = q
    <3>1. \A x \in operations : x.key = o.key \/ x.id = o.id => x = o
      BY DEF ExecutedOnce
    <3>2. done.id = o.id /\ done.key = o.key
      BY <1>3
    <3>3. CASE p = done \/ q = done
      <4> HIDE DEF done
      <4> QED
        BY <2>1, <2>2, <3>1, <3>2, <3>3
    <3>4. CASE p # done /\ q # done
      <4> HIDE DEF done
      <4> QED
        BY <2>1, <2>2, <3>4 DEF ExecutedOnce
    <3> QED
      BY <3>3, <3>4
  <2>3. \A id \in Ids : executions'[id] <= 1
    BY <1>4 DEF ExecutedOnce
  <2> QED
    BY <2>2, <2>3 DEF ExecutedOnce
<1>9. AnswersAgree'
  <2>1. ASSUME NEW a \in answers
        PROVE  \E p \in operations' :
                  /\ p.key = a.key /\ p.id = a.id
                  /\ p.fingerprint = a.fingerprint
                  /\ a.status # "running" => p.status = a.status
    <3>1. PICK p \in operations :
                  /\ p.key = a.key /\ p.id = a.id
                  /\ p.fingerprint = a.fingerprint
                  /\ a.status # "running" => p.status = a.status
      BY <2>1 DEF AnswersAgree
    <3>2. CASE p = o
      BY <1>1, <1>2, <1>3, <3>1, <3>2
    <3>3. CASE p # o
      BY <1>1, <3>1, <3>3
    <3> QED
      BY <3>2, <3>3
  <2> QED
    BY <1>1, <1>3, <2>1 DEF AnswersAgree
<1> QED
  BY <1>5, <1>6, <1>7, <1>8, <1>9

(* An answer taken from the store. *)
LEMMA AnswerKeepsInv ==
    ASSUME Inv, NEW o \in operations, answers' = answers \cup {o},
           UNCHANGED <<operations, handler, executions, restarts>>
    PROVE  Inv'
<1>1. TypeOK'
  BY DEF Inv, TypeOK
<1>2. InHand' /\ AcceptedFirst' /\ ExecutedOnce'
  BY DEF Inv, InHand, AcceptedFirst, ExecutedOnce
<1>3. AnswersAgree'
  BY DEF Inv, AnswersAgree
<1> QED
  BY <1>1, <1>2, <1>3 DEF Inv

(* A server that loses its request, through an exception or its death. *)
LEMMA LossKeepsInv ==
    ASSUME Inv, NEW s \in Servers, handler' = [handler EXCEPT ![s] = Idle],
           UNCHANGED <<operations, executions, answers>>, restarts' \in Nat
    PROVE  Inv'
<1>1. TypeOK'
  BY OperationsAssumption DEF Inv, TypeOK, Handlers, Idle
<1>2. InHand'
  <2>1. TypeOK /\ InHand
    BY DEF Inv
  <2>2. \A t \in Servers : handler[t].stage # "idle" /\ t # s =>
            \E o \in operations' :
                o.id = handler[t].id /\ o.status = "running"
    BY <2>1 DEF InHand
  <2> QED
    BY <2>1, <2>2, IdleKeepsInHand
<1>3. AcceptedFirst' /\ ExecutedOnce' /\ AnswersAgree'
  BY DEF Inv, AcceptedFirst, ExecutedOnce, AnswersAgree
<1> QED
  BY <1>1, <1>2, <1>3 DEF Inv

LEMMA InvStep == Inv /\ [DebugNext]_debugVars => Inv'
<1> SUFFICES ASSUME Inv, [DebugNext]_debugVars PROVE Inv'
  OBVIOUS
<1>1. ASSUME NEW s \in Servers, NEW key \in Keys,
             NEW fingerprint \in Fingerprints, NEW id \in Ids,
             Record(s, key, fingerprint, id)
      PROVE  Inv'
  BY <1>1, RecordKeepsInv
<1>2. ASSUME NEW s \in Servers, NEW key \in Keys,
             NEW fingerprint \in Fingerprints,
             Replay(s, key, fingerprint)
      PROVE  Inv'
  BY <1>2, AnswerKeepsInv DEF Replay, Bound
<1>3. ASSUME NEW s \in Servers, Execute(s)
      PROVE  Inv'
  BY <1>3, ExecuteKeepsInv
<1>4. ASSUME NEW s \in Servers, Complete(s)
      PROVE  Inv'
  BY <1>4, CompleteKeepsInv
<1>5. ASSUME NEW s \in Servers, CompleteFails(s)
      PROVE  Inv'
  BY <1>5, LossKeepsInv DEF CompleteFails, Inv, TypeOK
<1>6. ASSUME NEW s \in Servers, NEW id \in Ids, Poll(s, id)
      PROVE  Inv'
  BY <1>6, AnswerKeepsInv DEF Poll
<1>7. ASSUME NEW s \in Servers, ServerDies(s)
      PROVE  Inv'
  <2>1. restarts' = restarts + 1 /\ restarts \in Nat
    BY <1>7 DEF ServerDies, Inv, TypeOK
  <2>2. restarts' \in Nat
    BY <2>1
  <2>3. /\ handler' = [handler EXCEPT ![s] = Idle]
        /\ UNCHANGED <<operations, executions, answers>>
    BY <1>7 DEF ServerDies
  <2> QED
    BY <2>2, <2>3, LossKeepsInv
<1>8. ASSUME UNCHANGED debugVars
      PROVE  Inv'
  BY <1>8 DEF debugVars, Inv, TypeOK, InHand, AcceptedFirst, ExecutedOnce,
              AnswersAgree
<1> QED
  BY <1>1, <1>2, <1>3, <1>4, <1>5, <1>6, <1>7, <1>8 DEF DebugNext

-----------------------------------------------------------------------------

LEMMA InvCorrect == DebugSpec => []Inv
BY InvHoldsInitially, InvStep, PTL DEF DebugSpec

(* Every call leaves the store, the requests and the history in shape. *)
THEOREM TypeCorrect == DebugSpec => []TypeOK
<1>1. Inv => TypeOK
  BY DEF Inv
<1> QED
  BY <1>1, InvCorrect, PTL

(* No retry, on whichever server, and no crash makes an operation run      *)
(* twice or gives a key a second one.                                      *)
THEOREM AtMostOnce == DebugSpec => []ExecutedOnce
<1>1. Inv => ExecutedOnce
  BY DEF Inv
<1> QED
  BY <1>1, InvCorrect, PTL

(* Clients of one key are told of one operation and of one outcome. *)
THEOREM OneOutcome == DebugSpec => []AnswersAgree
<1>1. Inv => AnswersAgree
  BY DEF Inv
<1> QED
  BY <1>1, InvCorrect, PTL

-----------------------------------------------------------------------------
(* Source integrity *)

(* What a capture reads. *)
Plain == {"index", "tracked", "source", "published", "catalog", "state"}

WalkedPaths == Paths \ (Tracked \cup Skipped \cup {Parent})

CaptureSteps ==
    {<<"index", Index>>} \cup ({"tracked"} \X Tracked)
    \cup {<<"porcelain", Index>>} \cup ({"source"} \X Source)
    \cup ({"published"} \X Published) \cup {<<"catalog", Catalog>>}
    \cup ({"state"} \X WalkedPaths)
    \cup {<<"enter", Parent>>, <<"leave", Parent>>}

LEMMA ListOfSet ==
    ASSUME NEW S, IsFiniteSet(S)
    PROVE  /\ Cardinality(S) \in Nat
           /\ Integrity!SetToSeq(S) \in [1 .. Cardinality(S) -> S]
           /\ \A x \in S : \E i \in 1 .. Cardinality(S) :
                 Integrity!SetToSeq(S)[i] = x
<1> DEFINE D == 1 .. Cardinality(S)
           g == Integrity!SetToSeq(S)
<1>1. PICK n \in Nat : ExistsBijection(1 .. n, S)
  BY FS_NatBijection
<1>2. Cardinality(S) = n
  BY <1>1, FS_CountingElements
<1>3. PICK f : f \in Bijection(D, S)
  BY <1>1, <1>2 DEF ExistsBijection
<1>4. f \in [D -> S] /\ Integrity!IsInjective(f)
  BY <1>3 DEF Bijection, Injection, IsInjective, Integrity!IsInjective
<1>5. g \in [D -> S] /\ Integrity!IsInjective(g)
  <2>1. Integrity!Cardinality(S) = Cardinality(S)
    BY DEF Cardinality, Integrity!Cardinality
  <2> QED
    BY <1>4, <2>1 DEF Integrity!SetToSeq
<1>6. g \in Injection(D, S)
  BY <1>5 DEF Injection, IsInjective, Integrity!IsInjective
<1>7. Cardinality(D) = Cardinality(S)
  <2>1. Cardinality(S) \in Nat /\ 1 \in Int /\ Cardinality(S) \in Int
    BY <1>2
  <2>2. Cardinality(1 .. Cardinality(S)) =
           IF 1 > Cardinality(S) THEN 0 ELSE Cardinality(S) - 1 + 1
    BY <2>1, FS_Interval
  <2> QED
    BY <2>1, <2>2
<1>8. g \in Surjection(D, S)
  BY <1>6, <1>7, FS_Injection
<1> QED
  BY <1>2, <1>5, <1>8 DEF Surjection

LEMMA PartReads ==
    ASSUME NEW S, IsFiniteSet(S), NEW part
    PROVE  /\ Integrity!Part(part, S) \in Seq({part} \X S)
           /\ Range(Integrity!Part(part, S)) = {part} \X S
<1> DEFINE n == Cardinality(S)
           g == Integrity!SetToSeq(S)
           s == [i \in 1 .. n |-> <<part, g[i]>>]
<1>1. /\ n \in Nat /\ g \in [1 .. n -> S]
      /\ \A x \in S : \E i \in 1 .. n : g[i] = x
  BY ListOfSet
<1>2. Integrity!Part(part, S) = s
  <2>1. DOMAIN g = 1 .. n
    BY <1>1
  <2> QED
    BY <2>1 DEF Integrity!Part
<1> HIDE DEF n, g
<1>3. s \in [1 .. n -> {part} \X S] /\ DOMAIN s = 1 .. n
  BY <1>1
<1>4. s \in Seq({part} \X S)
  BY <1>1, <1>3
<1>5. Range(s) = {part} \X S
  <2>1. ASSUME NEW x \in Range(s)
        PROVE  x \in {part} \X S
    BY <1>3, <2>1 DEF Range
  <2>2. ASSUME NEW x \in {part} \X S
        PROVE  x \in Range(s)
    <3>1. PICK y \in S : x = <<part, y>>
      OBVIOUS
    <3>2. PICK i \in 1 .. n : g[i] = y
      BY <1>1
    <3>3. i \in DOMAIN s /\ s[i] = x
      BY <1>3, <3>1, <3>2
    <3> QED
      BY <3>3 DEF Range
  <2> QED
    BY <2>1, <2>2
<1> QED
  BY <1>2, <1>4, <1>5

LEMMA JoinReads ==
    ASSUME NEW S, NEW s \in Seq(S), NEW t \in Seq(S)
    PROVE  /\ s \o t \in Seq(S)
           /\ Range(s \o t) = Range(s) \cup Range(t)
BY ConcatProperties, RangeConcatenation

LEMMA OneReads ==
    ASSUME NEW x
    PROVE  << x >> \in Seq({x}) /\ Range(<< x >>) = {x}
BY DEF Range

LEMMA CaptureReads ==
    ASSUME IntegrityAssumption
    PROVE  /\ Integrity!Capture \in Seq(CaptureSteps)
           /\ Range(Integrity!Capture) = CaptureSteps
<1> DEFINE C1 == << <<"index", Index>> >>
           C2 == Integrity!Part("tracked", Tracked)
           C3 == << <<"porcelain", Index>> >>
           C4 == Integrity!Part("source", Source)
           C5 == Integrity!Part("published", Published)
           C6 == << <<"catalog", Catalog>> >>
           C7 == Integrity!Part("state", WalkedPaths)
           C8 == << <<"enter", Parent>>, <<"leave", Parent>> >>
<1>1. /\ IsFiniteSet(Tracked) /\ IsFiniteSet(Source)
      /\ IsFiniteSet(Published) /\ IsFiniteSet(WalkedPaths)
  BY FS_Subset DEF IntegrityAssumption, WalkedPaths
<1>2. /\ C2 \in Seq({"tracked"} \X Tracked)
      /\ Range(C2) = {"tracked"} \X Tracked
  BY <1>1, PartReads
<1>3. /\ C4 \in Seq({"source"} \X Source)
      /\ Range(C4) = {"source"} \X Source
  BY <1>1, PartReads
<1>4. /\ C5 \in Seq({"published"} \X Published)
      /\ Range(C5) = {"published"} \X Published
  BY <1>1, PartReads
<1>5. /\ C7 \in Seq({"state"} \X WalkedPaths)
      /\ Range(C7) = {"state"} \X WalkedPaths
  BY <1>1, PartReads
<1>6. /\ C1 \in Seq({<<"index", Index>>})
      /\ Range(C1) = {<<"index", Index>>}
  BY OneReads
<1>7. /\ C3 \in Seq({<<"porcelain", Index>>})
      /\ Range(C3) = {<<"porcelain", Index>>}
  BY OneReads
<1>8. /\ C6 \in Seq({<<"catalog", Catalog>>})
      /\ Range(C6) = {<<"catalog", Catalog>>}
  BY OneReads
<1>9. /\ C8 \in Seq({<<"enter", Parent>>, <<"leave", Parent>>})
      /\ Range(C8) = {<<"enter", Parent>>, <<"leave", Parent>>}
  <2> DEFINE x == <<"enter", Parent>>
             y == <<"leave", Parent>>
  <2>1. C8 = <<x, y>>
    OBVIOUS
  <2> HIDE DEF x, y
  <2>2. <<x, y>> \in Seq({x, y}) /\ Range(<<x, y>>) = {x, y}
    BY DEF Range
  <2> QED
    BY <2>1, <2>2 DEF x, y
<1>10. Integrity!Capture = C1 \o C2 \o C3 \o C4 \o C5 \o C6 \o (C7 \o C8)
  BY DEF Integrity!Capture, Integrity!Walk, WalkedPaths
<1> HIDE DEF C1, C2, C3, C4, C5, C6, C7, C8
<1> DEFINE S == CaptureSteps
<1>11. /\ Range(C1) \subseteq S /\ Range(C2) \subseteq S
       /\ Range(C3) \subseteq S /\ Range(C4) \subseteq S
       /\ Range(C5) \subseteq S /\ Range(C6) \subseteq S
       /\ Range(C7) \subseteq S /\ Range(C8) \subseteq S
       /\ S = Range(C1) \cup Range(C2) \cup Range(C3) \cup Range(C4)
              \cup Range(C5) \cup Range(C6) \cup Range(C7) \cup Range(C8)
  BY <1>2, <1>3, <1>4, <1>5, <1>6, <1>7, <1>8, <1>9 DEF CaptureSteps
<1>12. /\ C1 \in Seq(S) /\ C2 \in Seq(S) /\ C3 \in Seq(S) /\ C4 \in Seq(S)
       /\ C5 \in Seq(S) /\ C6 \in Seq(S) /\ C7 \in Seq(S) /\ C8 \in Seq(S)
  BY <1>2, <1>3, <1>4, <1>5, <1>6, <1>7, <1>8, <1>9, <1>11, SeqMonotonic
<1> HIDE DEF S
<1> DEFINE D2 == C1 \o C2
           D3 == D2 \o C3
           D4 == D3 \o C4
           D5 == D4 \o C5
           D6 == D5 \o C6
           D8 == C7 \o C8
<1>13. Integrity!Capture = D6 \o D8
  BY <1>10
<1> HIDE DEF D2, D3, D4, D5, D6, D8
<1>14. D2 \in Seq(S) /\ Range(D2) = Range(C1) \cup Range(C2)
  BY <1>12, JoinReads DEF D2
<1>15. D3 \in Seq(S) /\ Range(D3) = Range(D2) \cup Range(C3)
  BY <1>12, <1>14, JoinReads DEF D3
<1>16. D4 \in Seq(S) /\ Range(D4) = Range(D3) \cup Range(C4)
  BY <1>12, <1>15, JoinReads DEF D4
<1>17. D5 \in Seq(S) /\ Range(D5) = Range(D4) \cup Range(C5)
  BY <1>12, <1>16, JoinReads DEF D5
<1>18. D6 \in Seq(S) /\ Range(D6) = Range(D5) \cup Range(C6)
  BY <1>12, <1>17, JoinReads DEF D6
<1>19. D8 \in Seq(S) /\ Range(D8) = Range(C7) \cup Range(C8)
  BY <1>12, JoinReads DEF D8
<1>20. /\ Integrity!Capture \in Seq(S)
       /\ Range(Integrity!Capture) = Range(D6) \cup Range(D8)
  BY <1>13, <1>18, <1>19, JoinReads
<1>21. Range(Integrity!Capture) = S
  BY <1>11, <1>14, <1>15, <1>16, <1>17, <1>18, <1>19, <1>20
<1> QED
  BY <1>20, <1>21 DEF S

LEMMA CaptureIsOfSteps ==
    ASSUME IntegrityAssumption
    PROVE  /\ Len(Integrity!Capture) \in Nat
           /\ DOMAIN Integrity!Capture = 1 .. Len(Integrity!Capture)
           /\ \A n \in 1 .. Len(Integrity!Capture) :
                 Integrity!Capture[n] \in CaptureSteps
           /\ \A c \in CaptureSteps : \E n \in 1 .. Len(Integrity!Capture) :
                 Integrity!Capture[n] = c
<1> DEFINE C == Integrity!Capture
<1>1. C \in Seq(CaptureSteps) /\ Range(C) = CaptureSteps
  BY CaptureReads
<1> HIDE DEF C
<1>2. Len(C) \in Nat /\ DOMAIN C = 1 .. Len(C)
  BY <1>1, LenProperties
<1>3. \A n \in 1 .. Len(C) : C[n] \in CaptureSteps
  BY <1>1, ElementOfSeq
<1>4. \A c \in CaptureSteps : \E n \in 1 .. Len(C) : C[n] = c
  BY <1>1, <1>2 DEF Range
<1> QED
  BY <1>2, <1>3, <1>4 DEF C

Objects == [type : Types \cup {"regular"}, content : Nat]

(* An object and one that took its place, or the same: edits are numbered. *)
Older(o, p) == o.content <= p.content /\ (o.content = p.content => o = p)

Told == integrity \in {"unchanged", "changed"}

Taken ==
    CaptureSteps \X (Objects \cup [Tracked -> Objects] \cup {"directory"})

IntegrityTypeOK ==
    /\ tree \in [Paths -> Objects] /\ kept \in [Paths -> Objects]
    /\ found \in [Paths -> Objects] /\ made \in Nat
    /\ at \in 1 .. Len(Integrity!Capture) + 1
    /\ taken \in [before : Seq(Taken), after : Seq(Taken)]
    /\ phase \in {"before", "working", "after", "over"}
    /\ integrity \in {"none", "unchanged", "changed", "raced"}
    /\ phase # "over" => integrity = "none"

(* The objects of the checkout are numbered by their edits. *)
TreeFits ==
    /\ \A p \in Paths : tree[p].content <= made
    /\ \A p \in Paths : tree[p].content = 0 => tree[p].type = "regular"

(* How far the captures are. *)
CaptureFits ==
    /\ phase = "before" => /\ Len(taken.before) = at - 1
                           /\ taken.after = <<>>
    /\ phase = "working" => /\ Len(taken.before) = Len(Integrity!Capture)
                            /\ taken.after = <<>>
    /\ phase = "after" => /\ Len(taken.before) = Len(Integrity!Capture)
                          /\ Len(taken.after) = at - 1
    /\ Told => /\ Len(taken.before) = Len(Integrity!Capture)
               /\ Len(taken.after) = Len(Integrity!Capture)
    /\ Len(taken.before) <= Len(Integrity!Capture)
    /\ Len(taken.after) <= Len(Integrity!Capture)

(* The object that an entry of a capture has read, if it read one. *)
IsObject(n, r) ==
    /\ Integrity!Capture[n][1] \in Plain
    /\ r[2].type \in Integrity!Readable

(* What was read first is older than what was there between the captures,  *)
(* and that is older than what was read then.                              *)
BeforeFits ==
    \A n \in 1 .. Len(taken.before) :
        LET r == taken.before[n]
            p == Integrity!Capture[n][2]
        IN
        /\ r[1] = Integrity!Capture[n]
        /\ Integrity!Capture[n][1] \in Plain => r[2] \in Objects
        /\ IsObject(n, r) =>
              /\ phase = "before" => Older(r[2], tree[p])
              /\ phase \in {"working", "after"} \/ Told => Older(r[2], kept[p])

BetweenFits ==
    \A p \in Paths :
        /\ phase = "working" => Older(kept[p], tree[p])
        /\ phase = "after" => Older(found[p], tree[p])
        /\ phase = "after" \/ Told => Older(kept[p], found[p])

AfterFits ==
    \A n \in 1 .. Len(taken.after) :
        LET r == taken.after[n]
            p == Integrity!Capture[n][2]
        IN
        /\ r[1] = Integrity!Capture[n]
        /\ Integrity!Capture[n][1] \in Plain => r[2] \in Objects
        /\ IsObject(n, r) /\ (phase = "after" \/ Told) => Older(found[p], r[2])

(* What captures read as long as nobody changes what is protected. *)
Untouched == [type |-> "regular", content |-> 0]

Quiet == \A p \in Integrity!Protected : tree[p].content = 0

QuietRead(c) ==
    IF c[1] = "porcelain" THEN <<c, [p \in Tracked |-> Untouched]>>
    ELSE IF c[1] \in {"enter", "leave"} THEN <<c, "directory">>
    ELSE <<c, Untouched>>

QuietFits ==
    Quiet =>
        /\ \A n \in 1 .. Len(taken.before) :
              taken.before[n] = QuietRead(Integrity!Capture[n])
        /\ \A n \in 1 .. Len(taken.after) :
              taken.after[n] = QuietRead(Integrity!Capture[n])

VerdictFits ==
    /\ integrity = "unchanged" => taken.before = taken.after
    /\ integrity = "changed" => ~Quiet

IntegrityInv ==
    /\ IntegrityTypeOK /\ TreeFits /\ CaptureFits /\ BeforeFits
    /\ BetweenFits /\ AfterFits /\ QuietFits /\ VerdictFits

LEMMA ProtectedPaths ==
    ASSUME IntegrityAssumption
    PROVE  /\ Integrity!Protected \subseteq Paths
           /\ \A c \in CaptureSteps :
                 /\ c = <<c[1], c[2]>>
                 /\ c[1] \in Plain => c[2] \in Integrity!Protected
                 /\ c[1] \in Plain =>
                       c[1] \notin {"porcelain", "enter", "leave"}
                 /\ c[1] \notin Plain =>
                       c[1] \in {"porcelain", "enter", "leave"}
           /\ Tracked \subseteq Integrity!Protected
<1>1. Integrity!Protected \subseteq Paths
      /\ Tracked \subseteq Integrity!Protected
  BY DEF IntegrityAssumption, Integrity!Protected
<1>2. ASSUME NEW c \in CaptureSteps
      PROVE  /\ c = <<c[1], c[2]>>
             /\ c[1] \in Plain => c[2] \in Integrity!Protected
             /\ c[1] \in Plain => c[1] \notin {"porcelain", "enter", "leave"}
             /\ c[1] \notin Plain => c[1] \in {"porcelain", "enter", "leave"}
  <2>1. \A x \in {Index, Catalog} \cup Tracked \cup Source \cup Published
                 \cup WalkedPaths : x \in Integrity!Protected
    BY DEF IntegrityAssumption, Integrity!Protected, WalkedPaths
  <2>2. CASE c \in {<<"index", Index>>, <<"catalog", Catalog>>}
    BY <2>1, <2>2 DEF Plain
  <2>3. CASE c \in {<<"porcelain", Index>>, <<"enter", Parent>>,
                    <<"leave", Parent>>}
    BY <2>3 DEF Plain
  <2>4. CASE c \in {"tracked"} \X Tracked
    BY <2>1, <2>4 DEF Plain
  <2>5. CASE c \in {"source"} \X Source
    BY <2>1, <2>5 DEF Plain
  <2>6. CASE c \in {"published"} \X Published
    BY <2>1, <2>6 DEF Plain
  <2>7. CASE c \in {"state"} \X WalkedPaths
    BY <2>1, <2>7 DEF Plain
  <2> QED
    BY <2>2, <2>3, <2>4, <2>5, <2>6, <2>7 DEF CaptureSteps
<1> QED
  BY <1>1, <1>2

LEMMA DigestIs ==
    ASSUME NEW o \in Objects
    PROVE  /\ Integrity!Digest(o) \in Objects
           /\ Integrity!Digest(o).type = o.type
           /\ o.type \in Integrity!Readable => Integrity!Digest(o) = o
           /\ o.content = 0 /\ o.type = "regular" =>
                 Integrity!Digest(o) = Untouched
<1>1. CASE o.type \in Integrity!Readable
  <2>1. o = [type |-> o.type, content |-> o.content]
    BY DEF Objects
  <2> QED
    BY <1>1, <2>1 DEF Integrity!Digest, Untouched
<1>2. CASE o.type \notin Integrity!Readable
  <2>1. o.type # "regular"
    BY <1>2 DEF Integrity!Readable
  <2>2. Integrity!Digest(o) = [o EXCEPT !.content = 0]
    BY <1>2 DEF Integrity!Digest
  <2>3. /\ [o EXCEPT !.content = 0] \in Objects
        /\ [o EXCEPT !.content = 0].type = o.type
    BY DEF Objects
  <2> QED
    BY <1>2, <2>1, <2>2, <2>3
<1> QED
  BY <1>1, <1>2

(* What one reading takes. *)
LEMMA ReadIs ==
    ASSUME IntegrityAssumption, IntegrityTypeOK, NEW c \in CaptureSteps
    PROVE  LET r == Integrity!Read(c) IN
           /\ r \in Taken /\ r[1] = c
           /\ c[1] \in Plain =>
                 /\ r[2] \in Objects /\ c[2] \in Paths
                 /\ r[2].type \in Integrity!Readable => r[2] = tree[c[2]]
           /\ TreeFits /\ Quiet => r = QuietRead(c)
<1> DEFINE r == Integrity!Read(c)
<1>1. CASE c[1] \in Plain
  <2>1. c[2] \in Integrity!Protected /\ c[2] \in Paths
        /\ c[1] \notin {"porcelain", "enter", "leave"}
    BY <1>1, ProtectedPaths
  <2>2. tree[c[2]] \in Objects
    BY <2>1 DEF IntegrityTypeOK
  <2>3. r = <<c, Integrity!Digest(tree[c[2]])>>
    BY <2>1 DEF Integrity!Read
  <2> HIDE DEF r
  <2>4. r \in Taken /\ r[1] = c /\ r[2] = Integrity!Digest(tree[c[2]])
        /\ r[2] \in Objects
    BY <2>2, <2>3, DigestIs DEF Taken
  <2>5. r[2].type \in Integrity!Readable => r[2] = tree[c[2]]
    BY <2>2, <2>4, DigestIs
  <2>6. ASSUME TreeFits, Quiet
        PROVE  r = QuietRead(c)
    <3>1. tree[c[2]].content = 0 /\ tree[c[2]].type = "regular"
      BY <2>1, <2>6 DEF TreeFits, Quiet
    <3> QED
      BY <2>1, <2>2, <2>3, <3>1, DigestIs DEF QuietRead
  <2> QED
    BY <2>1, <2>4, <2>5, <2>6 DEF r
<1>2. CASE c[1] = "porcelain"
  <2>0. c[1] \notin Plain
    BY <1>2 DEF Plain
  <2>1. r = <<c, Integrity!Porcelain>>
    BY <1>2 DEF Integrity!Read
  <2>2. Tracked \subseteq Paths /\ Tracked \subseteq Integrity!Protected
    BY ProtectedPaths
  <2>3. Integrity!Porcelain \in [Tracked -> Objects]
    <3>1. \A p \in Tracked : Integrity!Digest(tree[p]) \in Objects
      BY <2>2, DigestIs DEF IntegrityTypeOK
    <3> QED
      BY <3>1 DEF Integrity!Porcelain
  <2> HIDE DEF r
  <2>4. r \in Taken /\ r[1] = c
    BY <2>1, <2>3 DEF Taken
  <2>5. ASSUME TreeFits, Quiet
        PROVE  r = QuietRead(c)
    <3>1. \A p \in Tracked : Integrity!Digest(tree[p]) = Untouched
      <4> TAKE p \in Tracked
      <4>1. tree[p] \in Objects /\ tree[p].content = 0
            /\ tree[p].type = "regular"
        BY <2>2, <2>5 DEF IntegrityTypeOK, TreeFits, Quiet
      <4> QED
        BY <4>1, DigestIs
    <3>2. Integrity!Porcelain = [p \in Tracked |-> Untouched]
      BY <3>1 DEF Integrity!Porcelain
    <3> QED
      BY <1>2, <2>1, <3>2 DEF QuietRead
  <2> QED
    BY <2>0, <2>4, <2>5 DEF r
<1>3. CASE c[1] \in {"enter", "leave"}
  <2>0. c[1] \notin Plain
    BY <1>3 DEF Plain
  <2>1. r = <<c, "directory">>
    BY <1>3 DEF Integrity!Read
  <2> HIDE DEF r
  <2> QED
    BY <1>3, <2>0, <2>1 DEF Taken, QuietRead, r
<1> QED
  BY <1>1, <1>2, <1>3, ProtectedPaths

LEMMA IntegrityInitially ==
    ASSUME IntegrityAssumption, Integrity!IntegrityInit
    PROVE  IntegrityInv
<1>1. /\ Untouched \in Objects /\ Len(Integrity!Capture) \in Nat
      /\ tree = [p \in Paths |-> Untouched] /\ kept = tree /\ found = tree
  BY CaptureIsOfSteps
  DEF Integrity!IntegrityInit, Objects, Untouched
<1>2. /\ taken.before = <<>> /\ taken.after = <<>>
      /\ taken \in [before : Seq(Taken), after : Seq(Taken)]
      /\ phase = "before" /\ at = 1 /\ made = 0 /\ integrity = "none"
  BY DEF Integrity!IntegrityInit
<1>3. IntegrityTypeOK
  BY <1>1, <1>2 DEF IntegrityTypeOK
<1>4. TreeFits
  BY <1>1, <1>2 DEF TreeFits, Untouched
<1>5. CaptureFits
  BY <1>1, <1>2 DEF CaptureFits, Told
<1>6. BeforeFits /\ AfterFits /\ QuietFits /\ BetweenFits /\ VerdictFits
  BY <1>2 DEF BeforeFits, AfterFits, QuietFits, BetweenFits, VerdictFits, Told
<1> QED
  BY <1>3, <1>4, <1>5, <1>6 DEF IntegrityInv

LEMMA TakeKeepsInv ==
    ASSUME IntegrityAssumption, IntegrityInv, Integrity!Take
    PROVE  IntegrityInv'
<1> DEFINE C == Integrity!Capture
           c == C[at]
           r == Integrity!Read(c)
<1>0. /\ IntegrityTypeOK /\ TreeFits /\ CaptureFits /\ BeforeFits
      /\ BetweenFits /\ AfterFits /\ QuietFits /\ VerdictFits
  BY DEF IntegrityInv
<1>1. /\ phase \in {"before", "after"} /\ at <= Len(C) /\ at' = at + 1
      /\ taken' = [taken EXCEPT ![phase] = Append(taken[phase], r)]
      /\ UNCHANGED <<tree, phase, integrity, made, kept, found>>
  BY DEF Integrity!Take
<1>2. Len(C) \in Nat /\ at \in 1 .. Len(C) /\ at \in Nat
  BY <1>0, <1>1, CaptureIsOfSteps DEF IntegrityTypeOK
<1>3. c \in CaptureSteps
  BY <1>2, CaptureIsOfSteps
<1>4. /\ r \in Taken /\ r[1] = c
      /\ c[1] \in Plain =>
            /\ r[2] \in Objects /\ c[2] \in Paths
            /\ r[2].type \in Integrity!Readable => r[2] = tree[c[2]]
      /\ Quiet => r = QuietRead(c)
  BY <1>0, <1>3, ReadIs
<1>5. taken.before \in Seq(Taken) /\ taken.after \in Seq(Taken)
  BY <1>0 DEF IntegrityTypeOK
<1>6. Quiet' = Quiet
  BY <1>1 DEF Quiet
<1> HIDE DEF r
<1>7. \A o \in Objects : Older(o, o)
  BY DEF Older, Objects
<1>8. CASE phase = "before"
  <2>1. taken'.before = Append(taken.before, r) /\ taken'.after = taken.after
        /\ taken' \in [before : Seq(Taken), after : Seq(Taken)]
    BY <1>0, <1>1, <1>4, <1>5, <1>8, AppendProperties DEF IntegrityTypeOK
  <2>2. /\ Len(taken.before) = at - 1 /\ taken.after = <<>>
        /\ Len(taken'.before) = at
        /\ \A n \in 1 .. Len(taken.before) :
              taken'.before[n] = taken.before[n]
        /\ taken'.before[at] = r
    <3>1. Len(taken.before) = at - 1 /\ taken.after = <<>>
      BY <1>0, <1>8 DEF CaptureFits
    <3> QED
      BY <1>2, <1>4, <1>5, <2>1, <3>1, AppendProperties
  <2>3. \A n \in 1 .. Len(taken'.before) :
            n \in 1 .. Len(taken.before) \/ n = at
    BY <1>2, <2>2
  <2>4. IntegrityTypeOK'
    BY <1>0, <1>1, <1>2, <2>1 DEF IntegrityTypeOK
  <2>5. TreeFits' /\ BetweenFits' /\ VerdictFits'
    BY <1>0, <1>1, <1>8 DEF TreeFits, BetweenFits, VerdictFits, Told,
                            IntegrityTypeOK
  <2>6. CaptureFits'
    BY <1>0, <1>1, <1>2, <1>8, <2>1, <2>2
    DEF CaptureFits, Told, IntegrityTypeOK
  <2>7. BeforeFits'
    <3>0. integrity' = "none" /\ phase' = "before"
      BY <1>0, <1>1, <1>8 DEF IntegrityTypeOK
    <3> SUFFICES ASSUME NEW n \in 1 .. Len(taken'.before)
                 PROVE  /\ taken'.before[n][1] = C[n]
                        /\ C[n][1] \in Plain => taken'.before[n][2] \in Objects
                        /\ IsObject(n, taken'.before[n]) =>
                              Older(taken'.before[n][2], tree[C[n][2]])
      BY <1>1, <3>0 DEF BeforeFits, Told
    <3>1. CASE n \in 1 .. Len(taken.before)
      BY <1>0, <1>8, <2>2, <3>1 DEF BeforeFits
    <3>2. CASE n = at
      <4>1. IsObject(n, r) => r[2] = tree[C[n][2]] /\ r[2] \in Objects
        BY <1>4, <3>2 DEF IsObject
      <4> QED
        BY <1>4, <1>7, <2>2, <3>2, <4>1
    <3> QED
      BY <2>3, <3>1, <3>2
  <2>8. AfterFits'
    BY <2>1, <2>2 DEF AfterFits
  <2>9. QuietFits'
    <3>1. ASSUME Quiet, NEW n \in 1 .. Len(taken'.before)
          PROVE  taken'.before[n] = QuietRead(C[n])
      BY <1>0, <1>4, <2>2, <2>3, <3>1 DEF QuietFits
    <3> QED
      BY <1>6, <2>1, <2>2, <3>1 DEF QuietFits
  <2> QED
    BY <2>4, <2>5, <2>6, <2>7, <2>8, <2>9 DEF IntegrityInv
<1>9. CASE phase = "after"
  <2>1. taken'.after = Append(taken.after, r) /\ taken'.before = taken.before
        /\ taken' \in [before : Seq(Taken), after : Seq(Taken)]
    BY <1>0, <1>1, <1>4, <1>5, <1>9, AppendProperties DEF IntegrityTypeOK
  <2>2. /\ Len(taken.after) = at - 1
        /\ Len(taken'.after) = at
        /\ \A n \in 1 .. Len(taken.after) : taken'.after[n] = taken.after[n]
        /\ taken'.after[at] = r
    <3>1. Len(taken.after) = at - 1
      BY <1>0, <1>9 DEF CaptureFits
    <3> QED
      BY <1>2, <1>4, <1>5, <2>1, <3>1, AppendProperties
  <2>3. \A n \in 1 .. Len(taken'.after) :
            n \in 1 .. Len(taken.after) \/ n = at
    BY <1>2, <2>2
  <2>4. IntegrityTypeOK'
    BY <1>0, <1>1, <1>2, <2>1 DEF IntegrityTypeOK
  <2>5. TreeFits' /\ BetweenFits' /\ VerdictFits'
    BY <1>0, <1>1, <1>9 DEF TreeFits, BetweenFits, VerdictFits, Told,
                            IntegrityTypeOK
  <2>6. CaptureFits'
    BY <1>0, <1>1, <1>2, <1>9, <2>1, <2>2
    DEF CaptureFits, Told, IntegrityTypeOK
  <2>7. BeforeFits'
    BY <1>0, <1>1, <1>9, <2>1 DEF BeforeFits, Told, IsObject
  <2>8. AfterFits'
    <3>0. integrity' = "none" /\ phase' = "after"
      BY <1>0, <1>1, <1>9 DEF IntegrityTypeOK
    <3> SUFFICES ASSUME NEW n \in 1 .. Len(taken'.after)
                 PROVE  /\ taken'.after[n][1] = C[n]
                        /\ C[n][1] \in Plain => taken'.after[n][2] \in Objects
                        /\ IsObject(n, taken'.after[n]) =>
                              Older(found[C[n][2]], taken'.after[n][2])
      BY <1>1, <3>0 DEF AfterFits, Told
    <3>1. CASE n \in 1 .. Len(taken.after)
      BY <1>0, <1>9, <2>2, <3>1 DEF AfterFits
    <3>2. CASE n = at
      <4>1. IsObject(n, r) => /\ r[2] = tree[C[n][2]]
                              /\ C[n][2] \in Paths
        BY <1>4, <3>2 DEF IsObject
      <4> QED
        BY <1>0, <1>4, <1>9, <2>2, <3>2, <4>1 DEF BetweenFits
    <3> QED
      BY <2>3, <3>1, <3>2
  <2>9. QuietFits'
    <3>1. ASSUME Quiet, NEW n \in 1 .. Len(taken'.after)
          PROVE  taken'.after[n] = QuietRead(C[n])
      BY <1>0, <1>4, <2>2, <2>3, <3>1 DEF QuietFits
    <3> QED
      BY <1>0, <1>6, <2>1, <3>1 DEF QuietFits
  <2> QED
    BY <2>4, <2>5, <2>6, <2>7, <2>8, <2>9 DEF IntegrityInv
<1> QED
  BY <1>1, <1>8, <1>9

LEMMA EditKeepsInv ==
    ASSUME IntegrityAssumption, IntegrityInv, NEW path \in Paths,
           NEW type \in Types, Integrity!Edit(path, type)
    PROVE  IntegrityInv'
<1> DEFINE new == [type |-> type, content |-> made + 1]
<1>0. /\ IntegrityTypeOK /\ TreeFits /\ CaptureFits /\ BeforeFits
      /\ BetweenFits /\ AfterFits /\ QuietFits /\ VerdictFits
  BY DEF IntegrityInv
<1>1. /\ made' = made + 1 /\ tree' = [tree EXCEPT ![path] = new]
      /\ UNCHANGED <<phase, at, taken, integrity, kept, found>>
  BY DEF Integrity!Edit
<1>2. new \in Objects /\ new.content = made + 1 /\ made \in Nat
  BY <1>0 DEF IntegrityTypeOK, Objects
<1> HIDE DEF new
<1>3. /\ tree' \in [Paths -> Objects] /\ tree'[path] = new
      /\ \A p \in Paths : p # path => tree'[p] = tree[p]
  BY <1>0, <1>1, <1>2 DEF IntegrityTypeOK
<1>4. ASSUME NEW o \in Objects, NEW p \in Paths, Older(o, tree[p])
      PROVE  Older(o, tree'[p])
  <2>1. o.content <= made /\ o.content \in Nat /\ tree[p] \in Objects
        /\ tree[p].content \in Nat
    BY <1>0, <1>4 DEF Older, TreeFits, IntegrityTypeOK, Objects
  <2>2. CASE p = path
    BY <1>2, <1>3, <2>1, <2>2 DEF Older
  <2>3. CASE p # path
    BY <1>3, <1>4, <2>3
  <2> QED
    BY <2>2, <2>3
<1>5. Quiet' => Quiet
  <2>1. ASSUME Quiet'
        PROVE  Quiet
    <3>1. path \notin Integrity!Protected
      BY <1>2, <1>3, <2>1 DEF Quiet, Integrity!Protected
    <3>2. \A p \in Integrity!Protected : tree'[p] = tree[p]
      BY <1>3, <3>1, ProtectedPaths
    <3> QED
      BY <2>1, <3>2 DEF Quiet, Integrity!Protected
  <2> QED
    BY <2>1
<1>6. IntegrityTypeOK'
  BY <1>0, <1>1, <1>2, <1>3 DEF IntegrityTypeOK
<1>7. TreeFits'
  <2> SUFFICES ASSUME NEW p \in Paths
               PROVE  /\ tree'[p].content <= made'
                      /\ tree'[p].content = 0 => tree'[p].type = "regular"
    BY DEF TreeFits
  <2>1. tree[p].content \in Nat
    BY <1>0 DEF IntegrityTypeOK, Objects
  <2> QED
    BY <1>0, <1>1, <1>2, <1>3, <2>1 DEF TreeFits
<1>8. CaptureFits'
  BY <1>0, <1>1 DEF CaptureFits, Told
<1>9. BeforeFits'
  <2> SUFFICES ASSUME NEW n \in 1 .. Len(taken.before)
               PROVE  LET r == taken.before[n]
                          p == Integrity!Capture[n][2]
                      IN
                      /\ r[1] = Integrity!Capture[n]
                      /\ Integrity!Capture[n][1] \in Plain => r[2] \in Objects
                      /\ IsObject(n, r) =>
                            /\ phase = "before" => Older(r[2], tree'[p])
                            /\ phase \in {"working", "after"} \/ Told =>
                                  Older(r[2], kept[p])
    BY <1>1 DEF BeforeFits, Told, IsObject
  <2>1. Integrity!Capture[n][1] \in Plain => Integrity!Capture[n][2] \in Paths
    <3>1. Len(taken.before) <= Len(Integrity!Capture)
          /\ Len(taken.before) \in Nat /\ Len(Integrity!Capture) \in Nat
      BY <1>0, CaptureIsOfSteps, LenProperties
      DEF CaptureFits, IntegrityTypeOK
    <3>2. Integrity!Capture[n] \in CaptureSteps
      BY <3>1, CaptureIsOfSteps
    <3> QED
      BY <3>2, ProtectedPaths
  <2> QED
    BY <1>0, <1>4, <2>1 DEF BeforeFits, IsObject
<1>10. BetweenFits'
  BY <1>0, <1>1, <1>4 DEF BetweenFits, Told, IntegrityTypeOK
<1>11. AfterFits'
  BY <1>0, <1>1 DEF AfterFits, Told, IsObject
<1>12. QuietFits' /\ VerdictFits'
  BY <1>0, <1>1, <1>5 DEF QuietFits, VerdictFits
<1> QED
  BY <1>6, <1>7, <1>8, <1>9, <1>10, <1>11, <1>12 DEF IntegrityInv

LEMMA IntegrityStep ==
    ASSUME IntegrityAssumption, IntegrityInv,
           [Integrity!IntegrityNext]_(Integrity!integrityVars)
    PROVE  IntegrityInv'
<1>0. /\ IntegrityTypeOK /\ TreeFits /\ CaptureFits /\ BeforeFits
      /\ BetweenFits /\ AfterFits /\ QuietFits /\ VerdictFits
  BY DEF IntegrityInv
<1>1. Len(Integrity!Capture) \in Nat /\ at \in Nat
      /\ at \in 1 .. Len(Integrity!Capture) + 1
  BY <1>0, CaptureIsOfSteps DEF IntegrityTypeOK
<1>2. \A o \in Objects : Older(o, o)
  BY DEF Older, Objects
<1>3. CASE Integrity!Take
  BY <1>3, TakeKeepsInv
<1>4. CASE \E path \in Paths, type \in Types : Integrity!Edit(path, type)
  BY <1>4, EditKeepsInv
<1>5. CASE Integrity!Race
  <2>1. /\ phase' = "over" /\ integrity' = "raced" /\ ~Told'
        /\ UNCHANGED <<tree, at, taken, made, kept, found>>
    BY <1>5 DEF Integrity!Race, Told
  <2> QED
    BY <1>0, <2>1
    DEF IntegrityInv, IntegrityTypeOK, TreeFits, CaptureFits, BeforeFits,
        BetweenFits, AfterFits, QuietFits, VerdictFits, Quiet, IsObject
<1>6. CASE Integrity!Work
  <2>1. /\ phase = "before" /\ at = Len(Integrity!Capture) + 1
        /\ phase' = "working" /\ kept' = tree
        /\ UNCHANGED <<tree, at, taken, made, integrity, found>>
        /\ integrity = "none" /\ ~Told'
    BY <1>0, <1>1, <1>6 DEF Integrity!Work, Told, IntegrityTypeOK
  <2>2. IntegrityTypeOK' /\ TreeFits' /\ CaptureFits'
    BY <1>0, <1>1, <2>1 DEF IntegrityTypeOK, TreeFits, CaptureFits
  <2>3. BeforeFits'
    BY <1>0, <2>1 DEF BeforeFits, IsObject
  <2>4. BetweenFits'
    BY <1>0, <1>2, <2>1 DEF BetweenFits, IntegrityTypeOK
  <2>5. AfterFits' /\ QuietFits' /\ VerdictFits'
    BY <1>0, <2>1 DEF AfterFits, QuietFits, VerdictFits, Quiet, IsObject
  <2> QED
    BY <2>2, <2>3, <2>4, <2>5 DEF IntegrityInv
<1>7. CASE Integrity!CaptureAgain
  <2>1. /\ phase = "working" /\ phase' = "after" /\ at' = 1 /\ found' = tree
        /\ UNCHANGED <<tree, taken, made, integrity, kept>>
        /\ integrity = "none" /\ ~Told' /\ ~Told
    BY <1>0, <1>7 DEF Integrity!CaptureAgain, Told, IntegrityTypeOK
  <2>2. IntegrityTypeOK' /\ TreeFits' /\ CaptureFits'
    BY <1>0, <1>1, <2>1 DEF IntegrityTypeOK, TreeFits, CaptureFits
  <2>3. BeforeFits'
    BY <1>0, <2>1 DEF BeforeFits, IsObject
  <2>4. BetweenFits'
    BY <1>0, <1>2, <2>1 DEF BetweenFits, IntegrityTypeOK
  <2>5. taken.after = <<>>
    BY <1>0, <2>1 DEF CaptureFits
  <2>6. AfterFits' /\ QuietFits' /\ VerdictFits'
    BY <1>0, <2>1, <2>5 DEF AfterFits, QuietFits, VerdictFits, Quiet, IsObject
  <2> QED
    BY <2>2, <2>3, <2>4, <2>6 DEF IntegrityInv
<1>8. CASE Integrity!Compare
  <2>1. /\ phase = "after" /\ at = Len(Integrity!Capture) + 1
        /\ phase' = "over"
        /\ integrity' = IF taken.before = taken.after THEN "unchanged"
                        ELSE "changed"
        /\ UNCHANGED <<tree, at, taken, made, kept, found>>
        /\ Told' /\ ~Told
    BY <1>0, <1>1, <1>8 DEF Integrity!Compare, Told, IntegrityTypeOK
  <2>2. /\ Len(taken.before) = Len(Integrity!Capture)
        /\ Len(taken.after) = Len(Integrity!Capture)
    BY <1>0, <1>1, <2>1 DEF CaptureFits
  <2>3. IntegrityTypeOK' /\ TreeFits' /\ CaptureFits'
    BY <1>0, <1>1, <2>1, <2>2 DEF IntegrityTypeOK, TreeFits, CaptureFits
  <2>4. BeforeFits' /\ BetweenFits' /\ AfterFits' /\ QuietFits'
    BY <1>0, <2>1 DEF BeforeFits, BetweenFits, AfterFits, QuietFits, Quiet,
                      IsObject
  <2>5. VerdictFits'
    <3>1. ASSUME Quiet
          PROVE  taken.before = taken.after
      <4>1. taken.before \in Seq(Taken) /\ taken.after \in Seq(Taken)
        BY <1>0 DEF IntegrityTypeOK
      <4>2. \A n \in 1 .. Len(taken.before) :
                taken.before[n] = taken.after[n]
        BY <1>0, <2>2, <3>1 DEF QuietFits
      <4> QED
        BY <2>2, <4>1, <4>2, SeqEqual
    <3> QED
      BY <2>1, <3>1 DEF VerdictFits, Quiet
  <2> QED
    BY <2>3, <2>4, <2>5 DEF IntegrityInv
<1>9. CASE Integrity!MakeAllowlisted
  <2>1. /\ made' = made + 1
        /\ UNCHANGED <<tree, phase, at, taken, integrity, kept, found>>
    BY <1>9 DEF Integrity!MakeAllowlisted
  <2>2. IntegrityTypeOK' /\ CaptureFits'
    BY <1>0, <2>1 DEF IntegrityTypeOK, CaptureFits, Told
  <2>3. TreeFits'
    BY <1>0, <2>1 DEF TreeFits, IntegrityTypeOK, Objects
  <2> QED
    BY <1>0, <2>1, <2>2, <2>3
    DEF IntegrityInv, BeforeFits, BetweenFits, AfterFits, QuietFits,
        VerdictFits, Quiet, IsObject, Told
<1>10. CASE UNCHANGED Integrity!integrityVars
  BY <1>0, <1>10
  DEF Integrity!integrityVars, IntegrityInv, IntegrityTypeOK, TreeFits,
      CaptureFits, BeforeFits, BetweenFits, AfterFits, QuietFits,
      VerdictFits, Quiet, IsObject, Told
<1> QED
  BY <1>3, <1>4, <1>5, <1>6, <1>7, <1>8, <1>9, <1>10
  DEF Integrity!IntegrityNext

LEMMA InvTellsIntegrity ==
    ASSUME IntegrityAssumption, IntegrityInv
    PROVE  IntegrityIsTold
<1>0. /\ IntegrityTypeOK /\ TreeFits /\ CaptureFits /\ BeforeFits
      /\ BetweenFits /\ AfterFits /\ QuietFits /\ VerdictFits
  BY DEF IntegrityInv
<1> DEFINE C == Integrity!Capture
<1>1. /\ Len(C) \in Nat /\ DOMAIN C = 1 .. Len(C)
      /\ \A n \in 1 .. Len(C) : C[n] \in CaptureSteps
      /\ \A c \in CaptureSteps : \E n \in 1 .. Len(C) : C[n] = c
  BY CaptureIsOfSteps
<1>2. ASSUME integrity = "unchanged", NEW path \in Integrity!Protected
      PROVE  /\ \E n \in DOMAIN C : Integrity!Reading(path, n)
             /\ \A n \in DOMAIN C :
                   LET object == taken.after[n][2] IN
                   Integrity!Reading(path, n)
                   /\ object.type \in Integrity!Readable =>
                      kept[path] = object /\ found[path] = object
  <2>0. taken.before = taken.after
        /\ Len(taken.before) = Len(C) /\ Len(taken.after) = Len(C)
    BY <1>0, <1>2 DEF VerdictFits, CaptureFits, Told
  <2>1. \E n \in DOMAIN C : Integrity!Reading(path, n)
    <3>1. \E c \in CaptureSteps : c \in Plain \X {path}
      <4>1. \/ path = Index \/ path = Catalog \/ path \in Tracked
            \/ path \in WalkedPaths
        BY DEF Integrity!Protected, WalkedPaths
      <4>2. CASE path = Index
        <5>1. <<"index", path>> \in CaptureSteps
          BY <4>2 DEF CaptureSteps
        <5>2. <<"index", path>> \in Plain \X {path}
          BY DEF Plain
        <5> QED
          BY <5>1, <5>2
      <4>3. CASE path = Catalog
        <5>1. <<"catalog", path>> \in CaptureSteps
          BY <4>3 DEF CaptureSteps
        <5>2. <<"catalog", path>> \in Plain \X {path}
          BY DEF Plain
        <5> QED
          BY <5>1, <5>2
      <4>4. CASE path \in Tracked
        <5>1. <<"tracked", path>> \in CaptureSteps
          BY <4>4 DEF CaptureSteps
        <5>2. <<"tracked", path>> \in Plain \X {path}
          BY DEF Plain
        <5> QED
          BY <5>1, <5>2
      <4>5. CASE path \in WalkedPaths
        <5>1. <<"state", path>> \in CaptureSteps
          BY <4>5 DEF CaptureSteps
        <5>2. <<"state", path>> \in Plain \X {path}
          BY DEF Plain
        <5> QED
          BY <5>1, <5>2
      <4> QED
        BY <4>1, <4>2, <4>3, <4>4, <4>5
    <3>2. PICK n \in 1 .. Len(C) : C[n] \in Plain \X {path}
      BY <1>1, <3>1
    <3>3. Integrity!Reading(path, n)
      BY <2>0, <3>2 DEF Integrity!Reading, Plain
    <3> QED
      BY <1>1, <3>3
  <2>2. ASSUME NEW n \in DOMAIN C, Integrity!Reading(path, n),
               taken.after[n][2].type \in Integrity!Readable
        PROVE  /\ kept[path] = taken.after[n][2]
               /\ found[path] = taken.after[n][2]
    <3> DEFINE o == taken.after[n][2]
    <3>1. C[n][1] \in Plain /\ C[n][2] = path
      BY <2>2 DEF Integrity!Reading, Plain
    <3>2. n \in 1 .. Len(taken.before) /\ n \in 1 .. Len(taken.after)
          /\ taken.before[n] = taken.after[n] /\ path \in Paths
      BY <1>1, <2>0, ProtectedPaths
    <3>3. o \in Objects /\ Older(o, kept[path]) /\ Older(found[path], o)
      BY <1>0, <1>2, <2>2, <3>1, <3>2
      DEF BeforeFits, AfterFits, IsObject, Told
    <3>4. Older(kept[path], found[path])
      BY <1>0, <1>2, <3>2 DEF BetweenFits, Told
    <3>5. o.content \in Nat /\ kept[path].content \in Nat
          /\ found[path].content \in Nat
      BY <1>0, <3>2, <3>3 DEF Objects, IntegrityTypeOK
    <3> HIDE DEF o
    <3>6. kept[path] = o /\ found[path] = o
      BY <3>3, <3>4, <3>5 DEF Older
    <3> QED
      BY <3>6 DEF o
  <2> QED
    BY <2>1, <2>2
<1>3. ASSUME integrity = "changed"
      PROVE  \E path \in Integrity!Protected : tree[path].content > 0
  <2>1. PICK path \in Integrity!Protected : tree[path].content # 0
    BY <1>0, <1>3 DEF VerdictFits, Quiet
  <2>2. tree[path].content \in Nat
    BY <1>0, ProtectedPaths DEF IntegrityTypeOK, Objects
  <2> QED
    BY <2>1, <2>2
<1> HIDE DEF C
<1> QED
  BY <1>2, <1>3 DEF IntegrityIsTold, Integrity!IntegrityIsTold, C

(* "Unchanged" is true of every file and link of the checkout that both    *)
(* captures have read, whatever is edited meanwhile, and "changed" is not  *)
(* said when nobody has changed what is protected.                         *)
THEOREM CheckoutsAreTold == Integrity!IntegritySpec => []IntegrityIsTold
<1>1. Integrity!IntegrityInit => IntegrityInv
  BY IntegrityAssumption, IntegrityInitially
<1>2. IntegrityInv /\ [Integrity!IntegrityNext]_(Integrity!integrityVars)
      => IntegrityInv'
  BY IntegrityAssumption, IntegrityStep
<1>3. IntegrityInv => IntegrityIsTold
  BY IntegrityAssumption, InvTellsIntegrity
<1> QED
  BY <1>1, <1>2, <1>3, PTL DEF Integrity!IntegritySpec

-----------------------------------------------------------------------------
(* Bounded benchmarks *)

Limits ==
    [cases : Nat, input : Nat, output : Nat, total : Nat, temp : Nat,
     wall : Nat]

OverTheSum == {"total_limit_exceeded", "temp_storage_exceeded"}

CaseResults ==
    [status : {"completed", "failed", "timeout"},
     class : {"none", "case_evaluation_failed", "input_limit_exceeded",
              "output_limit_exceeded", "wall_time_exceeded"}
             \cup OverTheSum,
     input : Nat, output : Nat]

StoreNames == Benchmark!Range(Stores)

BenchTypeOK ==
    /\ pack \in Seq(BenchmarkCases) /\ lane \in Benchmark!Lanes
    /\ budget \in Limits
    /\ place \in {"idle", "before", "evaluating", "after", "recording",
                  "over"}
    /\ index \in Nat \ {0} /\ overtime \in BOOLEAN
    /\ results \in Seq(CaseResults) /\ used \in Nat /\ spent \in Seq(Nat)
    /\ business \in [StoreNames -> Nat]
    /\ before \in [StoreNames -> Nat \cup {Nothing}]
    /\ changed \in BOOLEAN /\ missed \in SUBSET StoreNames

(* A result other than an exception's. *)
Answered == benchmark \notin {Nothing, Benchmark!Unknown}

(* What the k-th case has cost, and what its result tells of it. *)
ResultTells(k) ==
    LET r == results[k]
        size == pack[k].input + pack[k].output
    IN
    /\ spent[k + 1] = IF r.status = "completed"
                      THEN spent[k] + size ELSE spent[k]
    /\ r.status = "completed" =>
          /\ r.input <= budget.input /\ r.output <= budget.output
          /\ pack[k].raises = "nothing"
    /\ r.class \in OverTheSum =>
          \/ spent[k] + size > budget.total
          \/ spent[k] + size > budget.temp
    /\ r.status = "timeout" =>
          /\ k = Len(results) /\ Benchmark!TimedOut
          /\ place # "evaluating"

ResultsFit ==
    /\ Len(spent) = Len(results) + 1 /\ spent[1] = 0
    /\ used = spent[Len(results) + 1]
    /\ used <= budget.total /\ used <= budget.temp
    /\ \A k \in 1 .. Len(results) : ResultTells(k)

(* The cases are evaluated from the first to the last, unless the time is  *)
(* over before.                                                            *)
EvaluationFits ==
    /\ Len(results) <= Len(Benchmark!Cases)
    /\ place \in {"idle", "before"} \/ lane # "deterministic" =>
          results = <<>>
    /\ place = "evaluating" =>
          /\ Len(results) = index - 1
          /\ index > 1 => index <= Len(Benchmark!Cases)
    /\ place \in {"after", "recording"} \/ Answered =>
          \/ lane # "deterministic"
          \/ Len(results) = Len(Benchmark!Cases)
          \/ \E k \in 1 .. Len(results) : results[k].status = "timeout"

(* The first snapshot is older than the business roots, and a root that    *)
(* was written since is found changed when it is read again.               *)
SnapshotFits ==
    /\ place = "before" => index <= Len(Stores)
    /\ \A k \in DOMAIN Stores :
          /\ place = "idle" \/ (place = "before" /\ k >= index) =>
                before[Stores[k]] = Nothing
          /\ place \in {"evaluating", "after", "recording"}
             \/ (place = "before" /\ k < index) =>
                before[Stores[k]] # Nothing
    /\ \A r \in StoreNames :
          before[r] # Nothing => before[r] <= business[r]
    /\ \A r \in missed : before[r] # Nothing /\ before[r] < business[r]
    /\ place = "after" =>
          /\ index <= Len(Stores)
          /\ \A k \in DOMAIN Stores :
                Stores[k] \in missed /\ k < index => changed
    /\ place = "recording" \/ Answered =>
          (missed # {} => changed)

AnswerFits ==
    Answered =>
       place = "over" /\ benchmark = Benchmark!Evidence /\ filed = benchmark

BenchmarkInv ==
    BenchTypeOK /\ ResultsFit /\ EvaluationFits /\ SnapshotFits /\ AnswerFits

LEMMA LeastOfTwo ==
    ASSUME NEW a \in Nat, NEW b \in Nat
    PROVE  LET m == Benchmark!Min({a, b}) IN
           m \in {a, b} /\ m <= a /\ m <= b
<1>1. \E x \in {a, b} : \A y \in {a, b} : x <= y
  OBVIOUS
<1> QED
  BY <1>1 DEF Benchmark!Min

(* The bounded pack is the beginning of the pack. *)
LEMMA CasesOfPack ==
    ASSUME pack \in Seq(BenchmarkCases), budget \in Limits
    PROVE  /\ Benchmark!Cases \in Seq(BenchmarkCases)
           /\ Len(Benchmark!Cases) <= Len(pack)
           /\ Len(Benchmark!Cases) <= budget.cases
           /\ \A k \in 1 .. Len(Benchmark!Cases) :
                 Benchmark!Cases[k] = pack[k]
<1> DEFINE m == Benchmark!Min({Len(pack), budget.cases})
<1>1. Len(pack) \in Nat /\ budget.cases \in Nat
  BY DEF Limits
<1>2. m \in Nat /\ m <= Len(pack) /\ m <= budget.cases
  BY <1>1, LeastOfTwo
<1> HIDE DEF m
<1>3. \A i \in 1 .. m : pack[i] \in BenchmarkCases
  BY <1>1, <1>2
<1>4. /\ SubSeq(pack, 1, m) \in Seq(BenchmarkCases)
      /\ Len(SubSeq(pack, 1, m)) = IF 1 <= m THEN m - 1 + 1 ELSE 0
      /\ \A i \in 1 .. m - 1 + 1 : SubSeq(pack, 1, m)[i] = pack[1 + i - 1]
  <2>1. 1 \in Int /\ m \in Int
    BY <1>2
  <2> QED
    BY <1>3, <2>1, SubSeqProperties
<1>5. Len(SubSeq(pack, 1, m)) = m
  BY <1>2, <1>4
<1>6. \A i \in 1 .. m : SubSeq(pack, 1, m)[i] = pack[i]
  <2> SUFFICES ASSUME NEW i \in 1 .. m
               PROVE  SubSeq(pack, 1, m)[i] = pack[i]
    OBVIOUS
  <2>1. m - 1 + 1 = m /\ 1 + i - 1 = i
    BY <1>2
  <2> QED
    BY <1>4, <2>1
<1>7. Benchmark!Cases = SubSeq(pack, 1, m)
  BY DEF Benchmark!Cases, m
<1> QED
  BY <1>2, <1>4, <1>5, <1>6, <1>7

LEMMA CasesTyped == BenchTypeOK => Benchmark!Cases \in Seq(BenchmarkCases)
BY CasesOfPack DEF BenchTypeOK

LEMMA LeastOfEight ==
    ASSUME NEW S \in SUBSET (1 .. 8), S # {}
    PROVE  Benchmark!Min(S) \in S
<1>1. \E x \in S : \A y \in S : x <= y
  <2>1. CASE 1 \in S
    BY <2>1
  <2>2. CASE 1 \notin S /\ 2 \in S
    BY <2>2
  <2>3. CASE 1 \notin S /\ 2 \notin S /\ 3 \in S
    BY <2>3
  <2>4. CASE \A i \in 1 .. 3 : i \notin S
    <3>1. CASE 4 \in S
      BY <2>4, <3>1
    <3>2. CASE 4 \notin S /\ 5 \in S
      BY <2>4, <3>2
    <3>3. CASE 4 \notin S /\ 5 \notin S /\ 6 \in S
      BY <2>4, <3>3
    <3>4. CASE \A i \in 1 .. 6 : i \notin S
      <4>1. CASE 7 \in S
        BY <3>4, <4>1
      <4>2. CASE 7 \notin S
        <5>1. S = {8}
          <6>1. \A x \in S : x = 8
            BY <3>4, <4>2
          <6> QED
            BY <6>1
        <5> QED
          BY <5>1
      <4> QED
        BY <4>1, <4>2
    <3> QED
      BY <2>4, <3>1, <3>2, <3>3, <3>4
  <2> QED
    BY <2>1, <2>2, <2>3, <2>4
<1> QED
  BY <1>1 DEF Benchmark!Min

LEMMA RefusalWhen ==
    ASSUME NEW class, NEW of, NEW when \in BOOLEAN
    PROVE  /\ Benchmark!Refusal(class, of, when).when = when
           /\ Benchmark!Refusal(class, of, when).class = class
BY Zenon DEF Benchmark!Refusal

(* A case is completed when nothing refuses it, and what refuses it for    *)
(* the sum does so because it does not fit.                                *)
LEMMA EvaluatedCase ==
    ASSUME NEW case \in BenchmarkCases, budget \in Limits, used \in Nat
    PROVE  LET r == Benchmark!Evaluated(case) IN
           /\ r \in CaseResults
           /\ r.status \in {"completed", "failed"}
           /\ r.status = "completed" =>
                 /\ r.input = case.input /\ r.output = case.output
                 /\ case.input <= budget.input
                 /\ case.output <= budget.output
                 /\ case.raises = "nothing"
                 /\ used + case.input + case.output <= budget.total
                 /\ used + case.input + case.output <= budget.temp
           /\ r.class \in OverTheSum =>
                 \/ used + case.input + case.output > budget.total
                 \/ used + case.input + case.output > budget.temp
<1> DEFINE ins == Benchmark!InputRefusals(case)
           outs == Benchmark!OutputRefusals(case)
           checks == ins \o outs
           w1 == case.raises = "payload"
           w2 == case.input > budget.input
           w3 == used + case.input > budget.total
           w4 == used + case.input > budget.temp
           w5 == case.raises = "calculate"
           w6 == case.output > budget.output
           w7 == used + case.input + case.output > budget.total
           w8 == used + case.input + case.output > budget.temp
           refusing == {k \in 1 .. 8 : checks[k].when}
           first == checks[Benchmark!Min(refusing)]
<1>1. /\ case.input \in Nat /\ case.output \in Nat
      /\ case.raises \in {"nothing", "payload", "calculate"}
      /\ budget.input \in Nat /\ budget.output \in Nat
      /\ budget.total \in Nat /\ budget.temp \in Nat
  BY DEF BenchmarkCases, Limits
<1>2. /\ w1 \in BOOLEAN /\ w2 \in BOOLEAN /\ w3 \in BOOLEAN
      /\ w4 \in BOOLEAN /\ w5 \in BOOLEAN /\ w6 \in BOOLEAN
      /\ w7 \in BOOLEAN /\ w8 \in BOOLEAN
  OBVIOUS
<1>3. /\ ins = <<Benchmark!Refusal("case_evaluation_failed", "payload", w1),
                 Benchmark!Refusal("input_limit_exceeded", "input", w2),
                 Benchmark!Refusal("total_limit_exceeded", "input", w3),
                 Benchmark!Refusal("temp_storage_exceeded", "input", w4)>>
      /\ outs = <<Benchmark!Refusal("case_evaluation_failed", "payload", w5),
                  Benchmark!Refusal("output_limit_exceeded", "output", w6),
                  Benchmark!Refusal("total_limit_exceeded", "output", w7),
                  Benchmark!Refusal("temp_storage_exceeded", "output", w8)>>
  BY DEF Benchmark!InputRefusals, Benchmark!OutputRefusals
<1> HIDE DEF w1, w2, w3, w4, w5, w6, w7, w8
<1>4. /\ DOMAIN checks = 1 .. 8
      /\ checks[1] = Benchmark!Refusal("case_evaluation_failed", "payload", w1)
      /\ checks[2] = Benchmark!Refusal("input_limit_exceeded", "input", w2)
      /\ checks[3] = Benchmark!Refusal("total_limit_exceeded", "input", w3)
      /\ checks[4] = Benchmark!Refusal("temp_storage_exceeded", "input", w4)
      /\ checks[5] = Benchmark!Refusal("case_evaluation_failed", "payload", w5)
      /\ checks[6] = Benchmark!Refusal("output_limit_exceeded", "output", w6)
      /\ checks[7] = Benchmark!Refusal("total_limit_exceeded", "output", w7)
      /\ checks[8] = Benchmark!Refusal("temp_storage_exceeded", "output", w8)
  BY <1>3
<1>5. /\ checks[1].when = w1 /\ checks[2].when = w2 /\ checks[3].when = w3
      /\ checks[4].when = w4 /\ checks[5].when = w5 /\ checks[6].when = w6
      /\ checks[7].when = w7 /\ checks[8].when = w8
  <2> HIDE DEF checks
  <2> QED
    BY <1>2, <1>4, RefusalWhen
<1>6. /\ checks[1].class = "case_evaluation_failed"
      /\ checks[2].class = "input_limit_exceeded"
      /\ checks[3].class = "total_limit_exceeded"
      /\ checks[4].class = "temp_storage_exceeded"
      /\ checks[5].class = "case_evaluation_failed"
      /\ checks[6].class = "output_limit_exceeded"
      /\ checks[7].class = "total_limit_exceeded"
      /\ checks[8].class = "temp_storage_exceeded"
  <2> HIDE DEF checks
  <2> QED
    BY <1>2, <1>4, RefusalWhen
<1>7. Benchmark!Evaluated(case) =
         IF refusing = {}
         THEN Benchmark!Result("completed", "none", case.input, case.output)
         ELSE Benchmark!Result("failed", first.class,
                 IF first.of = "payload" THEN 0 ELSE case.input,
                 IF first.of = "output" THEN case.output ELSE 0)
  BY <1>4 DEF Benchmark!Evaluated
<1>8. refusing # {} => Benchmark!Min(refusing) \in refusing
  <2>1. refusing \in SUBSET (1 .. 8)
    OBVIOUS
  <2> HIDE DEF refusing
  <2> QED
    BY <2>1, LeastOfEight
<1> HIDE DEF checks
<1>9. CASE refusing = {}
  <2>1. /\ ~checks[1].when /\ ~checks[2].when /\ ~checks[5].when
        /\ ~checks[6].when /\ ~checks[7].when /\ ~checks[8].when
    BY <1>9
  <2>2. /\ case.raises # "payload" /\ case.raises # "calculate"
        /\ ~(case.input > budget.input) /\ ~(case.output > budget.output)
        /\ ~(used + case.input + case.output > budget.total)
        /\ ~(used + case.input + case.output > budget.temp)
    BY <1>5, <2>1 DEF w1, w2, w5, w6, w7, w8
  <2>3. Benchmark!Evaluated(case) =
           [status |-> "completed", class |-> "none", input |-> case.input,
            output |-> case.output]
    BY <1>7, <1>9 DEF Benchmark!Result
  <2> QED
    BY <1>1, <2>2, <2>3 DEF CaseResults, OverTheSum
<1>10. CASE refusing # {}
  <2>1. PICK k \in 1 .. 8 :
           k = Benchmark!Min(refusing) /\ checks[k].when
    BY <1>8, <1>10
  <2>2. PICK class, input, output :
           Benchmark!Evaluated(case) =
              [status |-> "failed", class |-> class, input |-> input,
               output |-> output]
           /\ class = checks[k].class
           /\ input \in {0, case.input} /\ output \in {0, case.output}
    BY <1>7, <1>10, <2>1 DEF Benchmark!Result
  <2>3. class \in {"case_evaluation_failed", "input_limit_exceeded",
                   "output_limit_exceeded"} \cup OverTheSum
    BY <1>6, <2>1, <2>2 DEF OverTheSum
  <2>4. class \in OverTheSum =>
           \/ used + case.input + case.output > budget.total
           \/ used + case.input + case.output > budget.temp
    <3>1. k \in {3, 4, 7, 8} =>
             \/ used + case.input + case.output > budget.total
             \/ used + case.input + case.output > budget.temp
      <4>1. /\ k = 3 => w3
            /\ k = 4 => w4
            /\ k = 7 => w7
            /\ k = 8 => w8
        BY <1>5, <2>1
      <4> QED
        BY <1>1, <4>1 DEF w3, w4, w7, w8
    <3>2. class \in OverTheSum => k \in {3, 4, 7, 8}
      BY <1>6, <2>1, <2>2 DEF OverTheSum
    <3> QED
      BY <3>1, <3>2
  <2>5. Benchmark!Evaluated(case) \in CaseResults
    BY <1>1, <2>2, <2>3 DEF CaseResults
  <2> QED
    BY <2>2, <2>4, <2>5
<1> QED
  BY <1>9, <1>10

(* The position of a root is where it stands. *)
LEMMA StorePositions ==
    ASSUME BenchmarkAssumption
    PROVE  /\ Len(Stores) \in Nat \ {0} /\ DOMAIN Stores = 1 .. Len(Stores)
           /\ \A k \in DOMAIN Stores :
                 Stores[k] \in StoreNames /\ Benchmark!Position(Stores[k]) = k
           /\ \A r \in StoreNames : \E k \in DOMAIN Stores : Stores[k] = r
<1>1. Len(Stores) \in Nat /\ DOMAIN Stores = 1 .. Len(Stores) /\ Stores # <<>>
  BY DEF BenchmarkAssumption
<1>2. Len(Stores) # 0
  BY <1>1, EmptySeq DEF BenchmarkAssumption
<1>3. \A k \in DOMAIN Stores : Stores[k] \in StoreNames
  BY DEF StoreNames, Benchmark!Range
<1>4. \A r \in StoreNames : \E k \in DOMAIN Stores : Stores[k] = r
  BY DEF StoreNames, Benchmark!Range
<1>5. ASSUME NEW k \in DOMAIN Stores
      PROVE  Benchmark!Position(Stores[k]) = k
  <2>1. \A i \in DOMAIN Stores : Stores[i] = Stores[k] <=> i = k
    BY DEF BenchmarkAssumption
  <2> QED
    BY <2>1 DEF Benchmark!Position
<1> QED
  BY <1>1, <1>2, <1>3, <1>4, <1>5

LEMMA BenchmarkInitially ==
    ASSUME BenchmarkAssumption, Benchmark!BenchmarkInit
    PROVE  BenchmarkInv
<1>1. /\ pack \in Packs /\ lane \in Benchmark!Lanes /\ budget = Ceilings
      /\ place = "idle" /\ index = 1 /\ overtime = FALSE
      /\ results = <<>> /\ used = 0 /\ spent = <<0>>
      /\ business = [r \in StoreNames |-> 0]
      /\ before = [r \in StoreNames |-> Nothing]
      /\ changed = FALSE /\ filed = Nothing /\ benchmark = Nothing
      /\ missed = {}
  BY DEF Benchmark!BenchmarkInit, StoreNames
<1>2. pack \in Seq(BenchmarkCases) /\ budget \in Limits
  BY <1>1 DEF BenchmarkAssumption, Limits
<1>3. <<>> \in Seq(CaseResults) /\ <<0>> \in Seq(Nat)
  OBVIOUS
<1>4. BenchTypeOK
  <2>3. index \in Nat \ {0}
    BY <1>1
  <2>4. overtime \in BOOLEAN
    BY <1>1
  <2>1. /\ place \in {"idle", "before", "evaluating", "after", "recording",
                      "over"}
        /\ results \in Seq(CaseResults) /\ used \in Nat
        /\ spent \in Seq(Nat)
    BY <1>1, <1>3
  <2>2. /\ business \in [StoreNames -> Nat]
        /\ before \in [StoreNames -> Nat \cup {Nothing}]
        /\ changed \in BOOLEAN /\ missed \in SUBSET StoreNames
    BY <1>1
  <2> QED
    BY <1>1, <1>2, <2>1, <2>2, <2>3, <2>4 DEF BenchTypeOK
<1>5. ResultsFit
  <2>1. budget.total \in Nat /\ budget.temp \in Nat
    BY <1>2 DEF Limits
  <2> QED
    BY <1>1, <2>1 DEF ResultsFit
<1>6. EvaluationFits
  <2>1. Len(Benchmark!Cases) \in Nat
    BY <1>2, CasesOfPack
  <2> QED
    BY <1>1, <2>1 DEF EvaluationFits, Answered
<1>7. SnapshotFits
  BY <1>1, StorePositions DEF SnapshotFits, Answered
<1>8. AnswerFits
  BY <1>1 DEF AnswerFits, Answered
<1> QED
  BY <1>4, <1>5, <1>6, <1>7, <1>8 DEF BenchmarkInv

(* What is on record stays when no case is evaluated. *)
LEMMA ResultsKept ==
    ASSUME BenchTypeOK, ResultsFit,
           UNCHANGED <<pack, budget, results, used, spent>>,
           overtime => overtime',
           place' = "evaluating" => place = "evaluating" \/ results = <<>>
    PROVE  ResultsFit'
<1>1. Len(spent') = Len(results') + 1 /\ spent'[1] = 0
      /\ used' = spent'[Len(results') + 1]
      /\ used' <= budget'.total /\ used' <= budget'.temp
  BY DEF ResultsFit
<1>2. ASSUME NEW k \in 1 .. Len(results')
      PROVE  ResultTells(k)'
  <2>1. k \in 1 .. Len(results) /\ ResultTells(k)
    BY <1>2 DEF ResultsFit
  <2>2. results # <<>>
    BY <2>1 DEF BenchTypeOK
  <2>3. Benchmark!TimedOut => Benchmark!TimedOut'
    BY DEF Benchmark!TimedOut
  <2> QED
    BY <2>1, <2>2, <2>3 DEF ResultTells
<1> QED
  BY <1>1, <1>2 DEF ResultsFit

(* A result is added that fits its case. *)
LEMMA ResultAdded ==
    ASSUME BenchTypeOK, ResultsFit, place = "evaluating",
           NEW added \in CaseResults, Benchmark!Evaluate(added),
           NEW n \in Nat, n = Len(results) + 1, n <= Len(pack),
           UNCHANGED <<pack, budget, overtime>>,
           LET size == pack[n].input + pack[n].output IN
           /\ added.status = "completed" =>
                 /\ added.input = pack[n].input
                 /\ added.output = pack[n].output
                 /\ added.input <= budget.input
                 /\ added.output <= budget.output
                 /\ pack[n].raises = "nothing"
                 /\ used + size <= budget.total /\ used + size <= budget.temp
           /\ added.class \in OverTheSum =>
                 used + size > budget.total \/ used + size > budget.temp
           /\ added.status = "timeout" =>
                 Benchmark!TimedOut /\ place' # "evaluating"
    PROVE  /\ results' \in Seq(CaseResults) /\ used' \in Nat
           /\ spent' \in Seq(Nat) /\ Len(results') = n
           /\ results'[n] = added
           /\ ResultsFit'
<1> DEFINE size == pack[n].input + pack[n].output
<1>1. /\ pack[n].input \in Nat /\ pack[n].output \in Nat
      /\ results \in Seq(CaseResults) /\ used \in Nat /\ spent \in Seq(Nat)
      /\ Len(results) \in Nat /\ Len(spent) = n /\ used = spent[n]
      /\ budget.total \in Nat /\ budget.temp \in Nat
  <2>1. n \in 1 .. Len(pack)
    BY DEF BenchTypeOK
  <2>2. pack[n] \in BenchmarkCases
    BY <2>1 DEF BenchTypeOK
  <2> QED
    <3>1. pack[n].input \in Nat /\ pack[n].output \in Nat
      BY <2>2 DEF BenchmarkCases
    <3>2. budget.total \in Nat /\ budget.temp \in Nat
      BY DEF BenchTypeOK, Limits
    <3> QED
      BY <3>1, <3>2 DEF BenchTypeOK, ResultsFit
<1>2. /\ added.input \in Nat /\ added.output \in Nat
      /\ used' = used + Benchmark!Charge(added)
      /\ Benchmark!Charge(added) =
            IF added.status = "completed" THEN size ELSE 0
  BY <1>1 DEF CaseResults, Benchmark!Evaluate, Benchmark!Charge
<1>3. size \in Nat /\ used' \in Nat
  BY <1>1, <1>2
<1>4. /\ results' \in Seq(CaseResults) /\ Len(results') = n
      /\ \A i \in 1 .. Len(results) : results'[i] = results[i]
      /\ results'[n] = added
  BY <1>1, AppendProperties DEF Benchmark!Evaluate
<1>5. /\ spent' \in Seq(Nat) /\ Len(spent') = n + 1
      /\ spent'[1] = spent[1]
      /\ \A i \in 1 .. n : spent'[i] = spent[i]
      /\ spent'[n + 1] = used'
  <2>1. 1 \in 1 .. n
    BY <1>1
  <2> QED
    BY <1>1, <1>3, <2>1, AppendProperties DEF Benchmark!Evaluate
<1>6. used' <= budget'.total /\ used' <= budget'.temp
  <2>1. used <= budget.total /\ used <= budget.temp
    BY DEF ResultsFit
  <2>2. CASE added.status = "completed"
    BY <1>1, <1>2, <2>2
  <2>3. CASE added.status # "completed"
    BY <1>1, <1>2, <2>1, <2>3
  <2> QED
    BY <2>2, <2>3
<1>7. Benchmark!TimedOut' = Benchmark!TimedOut
  BY DEF Benchmark!TimedOut
<1>8. ASSUME NEW k \in 1 .. Len(results')
      PROVE  ResultTells(k)'
  <2>1. CASE k <= Len(results)
    <3>1. k \in 1 .. Len(results) /\ ResultTells(k)
      BY <1>1, <1>4, <2>1 DEF ResultsFit
    <3>2. k \in 1 .. n /\ k + 1 \in 1 .. n
      BY <1>1, <3>1
    <3>3. results'[k] = results[k] /\ spent'[k] = spent[k]
          /\ spent'[k + 1] = spent[k + 1]
      BY <1>4, <1>5, <3>1, <3>2
    <3> QED
      BY <3>1, <3>3 DEF ResultTells
  <2>2. CASE k = n
    <3>1. /\ results'[k] = added /\ spent'[k] = used
          /\ spent'[k + 1] = used' /\ k = Len(results')
      BY <1>1, <1>4, <1>5, <2>2
    <3>2. used' = IF added.status = "completed" THEN used + size ELSE used
      BY <1>1, <1>2, <1>3
    <3> QED
      BY <1>7, <2>2, <3>1, <3>2 DEF ResultTells
  <2> QED
    BY <1>1, <1>4, <2>1, <2>2
<1> QED
  BY <1>3, <1>4, <1>5, <1>6, <1>8 DEF ResultsFit

(* What the invariant says of the snapshots and the answer stays when only *)
(* the evaluation moves on.                                                *)
LEMMA SnapshotKept ==
    ASSUME BenchTypeOK, SnapshotFits, AnswerFits,
           BenchmarkAssumption,
           place = "evaluating", place' \in {"evaluating", "after"},
           place' = "after" => index' = 1,
           UNCHANGED <<business, before, changed, filed, benchmark, missed>>
    PROVE  SnapshotFits' /\ AnswerFits'
<1>1. /\ \A k \in DOMAIN Stores : before[Stores[k]] # Nothing
      /\ Len(Stores) \in Nat \ {0} /\ DOMAIN Stores = 1 .. Len(Stores)
  BY StorePositions DEF SnapshotFits
<1>2. ~Answered
  BY DEF AnswerFits
<1>3. Answered' = (benchmark' \notin {Nothing, Benchmark!Unknown})
  BY DEF Answered, Benchmark!Unknown
<1>4. ~Answered'
  BY <1>2, <1>3 DEF Answered
<1> QED
  BY <1>1, <1>4 DEF SnapshotFits, AnswerFits

LEMMA AcceptKeepsInv ==
    ASSUME BenchmarkAssumption, BenchmarkInv,
           NEW request \in Requests, Benchmark!Accept(request)
    PROVE  BenchmarkInv'
<1>0. BenchTypeOK /\ ResultsFit /\ EvaluationFits /\ SnapshotFits
      /\ AnswerFits
  BY DEF BenchmarkInv
<1>1. /\ place = "idle" /\ results = <<>> /\ place' \in {"over", "before"}
      /\ index' = 1
      /\ UNCHANGED <<pack, lane, overtime, results, used, spent, business,
                     before, changed, filed, benchmark, missed>>
  BY <1>0 DEF Benchmark!Accept, Benchmark!Goto, EvaluationFits
<1>2. budget' \in Limits
  <2>1. CASE budget' = budget
    BY <1>0, <2>1 DEF BenchTypeOK
  <2>2. CASE budget' = [f \in DOMAIN Ceilings |->
                           IF f \in DOMAIN request
                           THEN Benchmark!Min({request[f], Ceilings[f]})
                           ELSE Ceilings[f]]
    <3>1. /\ Ceilings \in Limits
          /\ \A f \in DOMAIN request : request[f] \in Nat
      BY DEF BenchmarkAssumption, Limits
    <3>2. DOMAIN Ceilings =
             {"cases", "input", "output", "total", "temp", "wall"}
          /\ \A f \in DOMAIN Ceilings : Ceilings[f] \in Nat
      BY <3>1 DEF Limits
    <3>3. \A f \in DOMAIN Ceilings : budget'[f] \in Nat
      BY <2>2, <3>1, <3>2, LeastOfTwo
    <3>4. budget' = [f \in {"cases", "input", "output", "total", "temp",
                            "wall"} |-> budget'[f]]
      BY <2>2, <3>2
    <3> QED
      BY <3>2, <3>3, <3>4 DEF Limits
  <2> QED
    BY <2>1, <2>2 DEF Benchmark!Accept
<1>3. BenchTypeOK'
  BY <1>0, <1>1, <1>2 DEF BenchTypeOK
<1>4. ResultsFit'
  <2>1. Len(results') = 0 /\ Len(spent') = 1 /\ spent'[1] = 0 /\ used' = 0
    BY <1>0, <1>1 DEF ResultsFit
  <2>2. budget'.total \in Nat /\ budget'.temp \in Nat
    BY <1>2 DEF Limits
  <2> QED
    BY <2>1, <2>2 DEF ResultsFit
<1>5. ~Answered /\ ~Answered'
  BY <1>0, <1>1 DEF AnswerFits, Answered, Benchmark!Unknown
<1>6. EvaluationFits'
  <2>1. (Benchmark!Cases \in Seq(BenchmarkCases))'
    BY <1>3, CasesTyped, PTL
  <2> QED
    BY <1>1, <1>5, <2>1 DEF EvaluationFits
<1>7. SnapshotFits'
  BY <1>0, <1>1, <1>5, StorePositions DEF SnapshotFits
<1>8. AnswerFits'
  BY <1>5 DEF AnswerFits
<1> QED
  BY <1>3, <1>4, <1>6, <1>7, <1>8 DEF BenchmarkInv

LEMMA ReadBeforeKeepsInv ==
    ASSUME BenchmarkAssumption, BenchmarkInv, Benchmark!ReadBefore
    PROVE  BenchmarkInv'
<1>0. BenchTypeOK /\ ResultsFit /\ EvaluationFits /\ SnapshotFits
      /\ AnswerFits
  BY DEF BenchmarkInv
<1>1. /\ place = "before" /\ results = <<>>
      /\ before' = [before EXCEPT ![Stores[index]] = business[Stores[index]]]
      /\ IF index = Len(Stores) THEN place' = "evaluating" /\ index' = 1
         ELSE place' = place /\ index' = index + 1
      /\ UNCHANGED <<pack, lane, budget, overtime, results, used, spent,
                     business, changed, filed, benchmark, missed>>
  BY <1>0 DEF Benchmark!ReadBefore, Benchmark!Advance, Benchmark!Goto,
              EvaluationFits
<1>2. /\ Len(Stores) \in Nat \ {0} /\ DOMAIN Stores = 1 .. Len(Stores)
      /\ index \in 1 .. Len(Stores)
      /\ \A k \in DOMAIN Stores : Stores[k] \in StoreNames
      /\ \A r \in StoreNames : \E k \in DOMAIN Stores : Stores[k] = r
      /\ \A i, k \in DOMAIN Stores : Stores[i] = Stores[k] => i = k
  BY <1>0, <1>1, StorePositions DEF SnapshotFits, BenchTypeOK,
     BenchmarkAssumption
<1> DEFINE here == Stores[index]
<1>3. /\ here \in StoreNames /\ before[here] = Nothing
      /\ business[here] \in Nat /\ business[here] # Nothing
      /\ before'[here] = business[here]
      /\ \A r \in StoreNames : r # here => before'[r] = before[r]
      /\ before' \in [StoreNames -> Nat \cup {Nothing}]
  <2>1. here \in StoreNames /\ before[here] = Nothing
    <3>1. index \in DOMAIN Stores /\ index >= index
      BY <1>2
    <3>2. \A k \in DOMAIN Stores : k >= index => before[Stores[k]] = Nothing
      BY <1>0, <1>1 DEF SnapshotFits
    <3> QED
      BY <1>2, <3>1, <3>2
  <2>2. business[here] \in Nat /\ business[here] # Nothing
    BY <1>0, <2>1 DEF BenchTypeOK, BenchmarkAssumption
  <2> QED
    BY <1>0, <1>1, <2>1, <2>2 DEF BenchTypeOK
<1>4. BenchTypeOK'
  <2>1. index' \in Nat \ {0}
        /\ place' \in {"idle", "before", "evaluating", "after", "recording",
                       "over"}
    <3>1. index \in Nat
      BY <1>2
    <3>2. CASE index = Len(Stores)
      BY <1>1, <3>2
    <3>3. CASE index # Len(Stores)
      BY <1>1, <3>1, <3>3
    <3> QED
      BY <3>2, <3>3
  <2> QED
    BY <1>0, <1>1, <1>3, <2>1 DEF BenchTypeOK
<1>5. ResultsFit'
  BY <1>0, <1>1, ResultsKept
<1>6. ~Answered /\ ~Answered'
  BY <1>0, <1>1 DEF AnswerFits, Answered, Benchmark!Unknown
<1>7. EvaluationFits'
  <2>1. (Benchmark!Cases \in Seq(BenchmarkCases))'
    BY <1>4, CasesTyped, PTL
  <2>2. /\ results' = <<>> /\ Len(results') = 0
        /\ place' = "evaluating" => index' = 1
        /\ place' \notin {"after", "recording"}
    BY <1>1
  <2> QED
    BY <1>6, <2>1, <2>2 DEF EvaluationFits
<1>8. SnapshotFits'
  <2>1. ASSUME NEW k \in DOMAIN Stores
        PROVE  /\ (place' = "before" /\ k >= index') =>
                     before'[Stores[k]] = Nothing
               /\ (place' = "evaluating"
                   \/ (place' = "before" /\ k < index')) =>
                     before'[Stores[k]] # Nothing
    <3>1. CASE k = index
      BY <1>1, <1>2, <1>3, <3>1
    <3>2. CASE k # index
      <4>1. before'[Stores[k]] = before[Stores[k]]
        BY <1>2, <1>3, <3>2
      <4>2. /\ k >= index => before[Stores[k]] = Nothing
            /\ k < index => before[Stores[k]] # Nothing
        BY <1>0, <1>1 DEF SnapshotFits
      <4>3. k \in Nat /\ k <= Len(Stores) /\ index \in Nat
        BY <1>2
      <4>4. CASE index = Len(Stores)
        BY <1>1, <3>2, <4>1, <4>2, <4>3, <4>4
      <4>5. CASE index # Len(Stores)
        BY <1>1, <3>2, <4>1, <4>2, <4>3, <4>5
      <4> QED
        BY <4>4, <4>5
    <3> QED
      BY <3>1, <3>2
  <2>2. \A r \in StoreNames :
           before'[r] # Nothing => before'[r] <= business'[r]
    BY <1>0, <1>1, <1>3 DEF SnapshotFits
  <2>3. \A r \in missed' :
           before'[r] # Nothing /\ before'[r] < business'[r]
    <3>1. missed \in SUBSET StoreNames
      BY <1>0 DEF BenchTypeOK
    <3> QED
      BY <1>0, <1>1, <1>3, <3>1 DEF SnapshotFits
  <2>4. /\ place' \in {"before", "evaluating"}
        /\ place' = "before" => index' <= Len(Stores)
    <3>1. index \in Nat /\ Len(Stores) \in Nat /\ index <= Len(Stores)
      BY <1>2
    <3>2. CASE index = Len(Stores)
      BY <1>1, <3>2
    <3>3. CASE index # Len(Stores)
      BY <1>1, <3>1, <3>3
    <3> QED
      BY <3>2, <3>3
  <2> QED
    BY <1>6, <2>1, <2>2, <2>3, <2>4 DEF SnapshotFits
<1>9. AnswerFits'
  BY <1>6 DEF AnswerFits
<1> QED
  BY <1>4, <1>5, <1>7, <1>8, <1>9 DEF BenchmarkInv

LEMMA EvaluateKeepsInv ==
    ASSUME BenchmarkAssumption, BenchmarkInv,
           Benchmark!EvaluateCase \/ Benchmark!EvaluateNothing
    PROVE  BenchmarkInv'
<1>0. BenchTypeOK /\ ResultsFit /\ EvaluationFits /\ SnapshotFits
      /\ AnswerFits
  BY DEF BenchmarkInv
<1>1. /\ place = "evaluating" /\ place' \in {"evaluating", "after"}
      /\ place' = "after" => index' = 1
      /\ place' = "evaluating" => index' = index + 1
      /\ UNCHANGED <<pack, lane, budget, overtime, business, before, changed,
                     filed, benchmark, missed>>
  BY DEF Benchmark!EvaluateCase, Benchmark!EvaluateNothing,
         Benchmark!Advance, Benchmark!Goto
<1>2. SnapshotFits' /\ AnswerFits'
  BY <1>0, <1>1, SnapshotKept
<1>3. ~Answered /\ ~Answered'
  BY <1>0, <1>1 DEF AnswerFits, Answered, Benchmark!Unknown
<1>4. /\ Benchmark!Cases \in Seq(BenchmarkCases)
      /\ Len(Benchmark!Cases) <= Len(pack)
      /\ \A k \in 1 .. Len(Benchmark!Cases) : Benchmark!Cases[k] = pack[k]
      /\ Benchmark!Cases' = Benchmark!Cases
  BY <1>0, <1>1, CasesOfPack DEF BenchTypeOK, Benchmark!Cases
<1>5. index \in Nat /\ index > 0 /\ Len(results) = index - 1
      /\ Len(results) \in Nat
  BY <1>0, <1>1 DEF BenchTypeOK, EvaluationFits
<1>6. CASE /\ lane # "deterministic" \/ Benchmark!Cases = <<>>
           /\ place' = "after" /\ UNCHANGED <<results, used, spent>>
  <2>1. results = <<>> /\ (lane = "deterministic" => Benchmark!Cases = <<>>)
    <3>1. lane = "deterministic" => Benchmark!Cases = <<>>
      BY <1>6
    <3>2. Benchmark!Cases = <<>> => results = <<>>
      BY <1>0, <1>4, <1>5 DEF BenchTypeOK, EvaluationFits
    <3> QED
      BY <1>0, <3>1, <3>2 DEF EvaluationFits
  <2>2. ResultsFit'
    BY <1>0, <1>1, <1>6, ResultsKept
  <2>3. BenchTypeOK'
    BY <1>0, <1>1, <1>6 DEF BenchTypeOK
  <2>4. EvaluationFits'
    BY <1>1, <1>3, <1>4, <1>6, <2>1 DEF EvaluationFits
  <2> QED
    BY <1>2, <2>2, <2>3, <2>4 DEF BenchmarkInv
<1>7. CASE /\ lane = "deterministic" /\ Benchmark!Cases # <<>>
           /\ Benchmark!TimedOut /\ place' = "after"
           /\ Benchmark!Evaluate(
                 Benchmark!Result("timeout", "wall_time_exceeded", 0, 0))
  <2> DEFINE r == Benchmark!Result("timeout", "wall_time_exceeded", 0, 0)
  <2>1. /\ r \in CaseResults /\ r.status = "timeout"
        /\ r.class \notin OverTheSum
    BY DEF Benchmark!Result, CaseResults, OverTheSum
  <2> HIDE DEF r
  <2>2. index <= Len(Benchmark!Cases)
    <3>1. Len(Benchmark!Cases) >= 1
      BY <1>4, <1>7
    <3> QED
      BY <1>0, <1>1, <1>5, <3>1 DEF EvaluationFits
  <2>3. index = Len(results) + 1 /\ index <= Len(pack)
    BY <1>0, <1>4, <1>5, <2>2 DEF BenchTypeOK
  <2>4. /\ results' \in Seq(CaseResults) /\ used' \in Nat
        /\ spent' \in Seq(Nat) /\ Len(results') = index
        /\ results'[index] = r
        /\ ResultsFit'
    <3>1. Benchmark!Evaluate(r)
      BY <1>7 DEF r
    <3> QED
      BY <1>0, <1>1, <1>5, <1>7, <2>1, <2>3, <3>1, ResultAdded
  <2>5. BenchTypeOK'
    BY <1>0, <1>1, <1>7, <2>4 DEF BenchTypeOK
  <2>6. EvaluationFits'
    <3>1. \E k \in 1 .. Len(results') : results'[k].status = "timeout"
      BY <1>5, <2>1, <2>4
    <3> QED
      BY <1>1, <1>3, <1>4, <1>7, <2>2, <2>4, <3>1 DEF EvaluationFits
  <2> QED
    BY <1>2, <2>4, <2>5, <2>6 DEF BenchmarkInv
<1>8. CASE /\ lane = "deterministic" /\ Benchmark!Cases # <<>>
           /\ Benchmark!Evaluate(
                 Benchmark!Evaluated(Benchmark!Cases[index]))
           /\ IF index = Len(Benchmark!Cases) THEN place' = "after"
              ELSE place' = "evaluating"
  <2> DEFINE r == Benchmark!Evaluated(pack[index])
  <2>1. index <= Len(Benchmark!Cases)
    <3>1. Len(Benchmark!Cases) >= 1
      BY <1>4, <1>8
    <3> QED
      BY <1>0, <1>1, <1>5, <3>1 DEF EvaluationFits
  <2>2. /\ index = Len(results) + 1 /\ index <= Len(pack)
        /\ index \in 1 .. Len(Benchmark!Cases)
        /\ pack[index] \in BenchmarkCases
    BY <1>0, <1>4, <1>5, <2>1 DEF BenchTypeOK
  <2>3. /\ r \in CaseResults
        /\ r.status \in {"completed", "failed"}
        /\ r.status = "completed" =>
              /\ r.input = pack[index].input /\ r.output = pack[index].output
              /\ pack[index].input <= budget.input
              /\ pack[index].output <= budget.output
              /\ pack[index].raises = "nothing"
              /\ used + pack[index].input + pack[index].output
                    <= budget.total
              /\ used + pack[index].input + pack[index].output
                    <= budget.temp
        /\ r.class \in OverTheSum =>
              \/ used + pack[index].input + pack[index].output
                    > budget.total
              \/ used + pack[index].input + pack[index].output
                    > budget.temp
    BY <1>0, <2>2, EvaluatedCase DEF BenchTypeOK
  <2>4. Benchmark!Evaluate(r)
    BY <1>4, <1>8, <2>2
  <2> HIDE DEF r
  <2>5. /\ used + pack[index].input + pack[index].output
           = used + (pack[index].input + pack[index].output)
    <3>1. pack[index].input \in Nat /\ pack[index].output \in Nat
      BY <2>2 DEF BenchmarkCases
    <3>2. used \in Nat
      BY <1>0 DEF BenchTypeOK
    <3> QED
      BY <3>1, <3>2
  <2>6. /\ results' \in Seq(CaseResults) /\ used' \in Nat
        /\ spent' \in Seq(Nat) /\ Len(results') = index
        /\ results'[index] = r
        /\ ResultsFit'
    <3>1. /\ r.status = "completed" =>
                /\ r.input = pack[index].input
                /\ r.output = pack[index].output
                /\ r.input <= budget.input
                /\ r.output <= budget.output
                /\ pack[index].raises = "nothing"
                /\ used + (pack[index].input + pack[index].output)
                      <= budget.total
                /\ used + (pack[index].input + pack[index].output)
                      <= budget.temp
          /\ r.class \in OverTheSum =>
                \/ used + (pack[index].input + pack[index].output)
                      > budget.total
                \/ used + (pack[index].input + pack[index].output)
                      > budget.temp
          /\ r.status # "timeout"
      BY <2>3, <2>5
    <3> QED
      BY <1>0, <1>1, <1>5, <2>3, <2>2, <2>4, <3>1, ResultAdded
  <2>7. BenchTypeOK'
    <3>1. index' \in Nat \ {0}
      BY <1>1, <1>5
    <3> QED
      BY <1>0, <1>1, <2>6, <3>1 DEF BenchTypeOK
  <2>8. EvaluationFits'
    <3>1. CASE index = Len(Benchmark!Cases)
      BY <1>1, <1>3, <1>4, <1>5, <1>8, <2>6, <3>1 DEF EvaluationFits
    <3>2. CASE index # Len(Benchmark!Cases)
      BY <1>1, <1>3, <1>4, <1>5, <1>8, <2>1, <2>6, <3>2
      DEF EvaluationFits
    <3> QED
      BY <3>1, <3>2
  <2> QED
    BY <1>2, <2>6, <2>7, <2>8 DEF BenchmarkInv
<1> QED
  BY <1>6, <1>7, <1>8
  DEF Benchmark!EvaluateCase, Benchmark!EvaluateNothing,
      Benchmark!Advance, Benchmark!Goto

LEMMA ReadAfterKeepsInv ==
    ASSUME BenchmarkAssumption, BenchmarkInv, Benchmark!ReadAfter
    PROVE  BenchmarkInv'
<1>0. BenchTypeOK /\ ResultsFit /\ EvaluationFits /\ SnapshotFits
      /\ AnswerFits
  BY DEF BenchmarkInv
<1>1. /\ place = "after"
      /\ IF index = Len(Stores) THEN place' = "recording" /\ index' = 1
         ELSE place' = place /\ index' = index + 1
      /\ UNCHANGED <<pack, lane, budget, overtime, results, used, spent,
                     business, before, filed, benchmark, missed>>
  BY DEF Benchmark!ReadAfter, Benchmark!Advance, Benchmark!Goto
<1>2. /\ Len(Stores) \in Nat \ {0} /\ DOMAIN Stores = 1 .. Len(Stores)
      /\ index \in 1 .. Len(Stores)
      /\ \A k \in DOMAIN Stores : Stores[k] \in StoreNames
      /\ \A r \in StoreNames : \E k \in DOMAIN Stores : Stores[k] = r
  BY <1>0, <1>1, StorePositions DEF SnapshotFits, BenchTypeOK
<1>3. /\ changed' \in BOOLEAN /\ (changed => changed')
      /\ business[Stores[index]] # before[Stores[index]] => changed'
  BY DEF Benchmark!ReadAfter
<1>4. BenchTypeOK'
  <2>1. /\ index' \in Nat \ {0}
        /\ place' \in {"idle", "before", "evaluating", "after", "recording",
                       "over"}
    <3>1. index \in Nat
      BY <1>2
    <3>2. CASE index = Len(Stores)
      BY <1>1, <3>2
    <3>3. CASE index # Len(Stores)
      BY <1>1, <3>1, <3>3
    <3> QED
      BY <3>2, <3>3
  <2> QED
    BY <1>0, <1>1, <1>3, <2>1 DEF BenchTypeOK
<1>5. ResultsFit'
  BY <1>0, <1>1, ResultsKept
<1>6. ~Answered /\ ~Answered'
  BY <1>0, <1>1 DEF AnswerFits, Answered, Benchmark!Unknown
<1>7. EvaluationFits'
  <2>1. Benchmark!Cases' = Benchmark!Cases
    BY <1>1 DEF Benchmark!Cases
  <2> QED
    BY <1>0, <1>1, <1>6, <2>1 DEF EvaluationFits
<1>8. SnapshotFits'
  <2>1. ASSUME NEW k \in DOMAIN Stores, Stores[k] \in missed, k <= index
        PROVE  changed'
    <3>1. CASE k = index
      <4>1. /\ before[Stores[k]] \in Nat /\ business[Stores[k]] \in Nat
            /\ before[Stores[k]] < business[Stores[k]]
        BY <1>0, <1>2, <2>1 DEF SnapshotFits, BenchTypeOK
      <4> QED
        BY <1>3, <3>1, <4>1
    <3>2. CASE k # index
      <4>1. k < index
        BY <1>2, <2>1, <3>2
      <4> QED
        BY <1>0, <1>1, <1>3, <2>1, <4>1 DEF SnapshotFits
    <3> QED
      BY <3>1, <3>2
  <2>2. ASSUME place' = "recording", missed' # {}
        PROVE  changed'
    <3>1. PICK r \in missed : r \in StoreNames
      BY <1>0, <1>1, <2>2 DEF BenchTypeOK
    <3>2. PICK k \in DOMAIN Stores : Stores[k] = r
      BY <1>2, <3>1
    <3>3. k <= index
      <4>1. index = Len(Stores)
        BY <1>1, <2>2
      <4>2. k \in 1 .. Len(Stores)
        BY <1>2
      <4> QED
        BY <4>1, <4>2
    <3> QED
      BY <2>1, <3>1, <3>2, <3>3
  <2>3. ASSUME place' = "after"
        PROVE  /\ index' <= Len(Stores)
               /\ \A k \in DOMAIN Stores :
                     Stores[k] \in missed' /\ k < index' => changed'
    <3>1. index' = index + 1 /\ index # Len(Stores)
      BY <1>1, <2>3
    <3>2. index \in Nat /\ Len(Stores) \in Nat /\ index <= Len(Stores)
      BY <1>2
    <3>3. \A k \in DOMAIN Stores : k \in Nat
      BY <1>2
    <3>4. \A k \in DOMAIN Stores : k < index' => k <= index
      BY <3>1, <3>2, <3>3
    <3>5. index' <= Len(Stores)
      BY <3>1, <3>2
    <3> QED
      BY <1>1, <2>1, <3>4, <3>5
  <2>4. /\ \A r \in StoreNames :
              before'[r] # Nothing => before'[r] <= business'[r]
        /\ \A r \in missed' :
              before'[r] # Nothing /\ before'[r] < business'[r]
        /\ \A k \in DOMAIN Stores : before'[Stores[k]] # Nothing
    BY <1>0, <1>1 DEF SnapshotFits
  <2> QED
    BY <1>1, <1>6, <2>2, <2>3, <2>4 DEF SnapshotFits
<1>9. AnswerFits'
  BY <1>6 DEF AnswerFits
<1> QED
  BY <1>4, <1>5, <1>7, <1>8, <1>9 DEF BenchmarkInv

LEMMA EndKeepsInv ==
    ASSUME BenchmarkAssumption, BenchmarkInv,
           Benchmark!Record \/ Benchmark!Break
    PROVE  BenchmarkInv'
<1>0. BenchTypeOK /\ ResultsFit /\ EvaluationFits /\ SnapshotFits
      /\ AnswerFits
  BY DEF BenchmarkInv
<1>1. /\ place' = "over" /\ index' = 1
      /\ \/ /\ place = "recording" /\ benchmark' = Benchmark!Evidence
            /\ filed' = Benchmark!Evidence
         \/ benchmark' = Benchmark!Unknown
      /\ UNCHANGED <<pack, lane, budget, overtime, results, used, spent,
                     business, before, changed, missed>>
  BY DEF Benchmark!Record, Benchmark!Break, Benchmark!Goto
<1>2. Answered' => /\ place = "recording"
                   /\ benchmark' = Benchmark!Evidence
                   /\ filed' = Benchmark!Evidence
  BY <1>1 DEF Answered, Benchmark!Unknown
<1>3. BenchTypeOK'
  BY <1>0, <1>1 DEF BenchTypeOK
<1>4. ResultsFit'
  BY <1>0, <1>1, ResultsKept
<1>5. Benchmark!Cases' = Benchmark!Cases
  BY <1>1 DEF Benchmark!Cases
<1>6. Benchmark!Evidence' = Benchmark!Evidence
  BY <1>1, <1>5 DEF Benchmark!Evidence, Benchmark!CaseStatus
<1>7. EvaluationFits'
  BY <1>0, <1>1, <1>2, <1>5 DEF EvaluationFits
<1>8. SnapshotFits'
  BY <1>0, <1>1, <1>2 DEF SnapshotFits
<1>9. AnswerFits'
  BY <1>1, <1>2, <1>6 DEF AnswerFits
<1> QED
  BY <1>3, <1>4, <1>7, <1>8, <1>9 DEF BenchmarkInv

LEMMA BusinessKeepsInv ==
    ASSUME BenchmarkAssumption, BenchmarkInv,
           NEW r \in StoreNames, Benchmark!WriteBusiness(r)
    PROVE  BenchmarkInv'
<1>0. BenchTypeOK /\ ResultsFit /\ EvaluationFits /\ SnapshotFits
      /\ AnswerFits
  BY DEF BenchmarkInv
<1>1. /\ place \in {"before", "evaluating", "after", "recording"}
      /\ business' = [business EXCEPT ![r] = business[r] + 1]
      /\ missed' = IF before[r] # Nothing /\ place # "recording"
                      /\ ~(place = "after" /\ index > Benchmark!Position(r))
                   THEN missed \cup {r} ELSE missed
      /\ UNCHANGED <<pack, lane, budget, place, index, overtime, results,
                     used, spent, before, changed, filed, benchmark>>
  BY DEF Benchmark!WriteBusiness
<1>2. /\ business' \in [StoreNames -> Nat]
      /\ business[r] \in Nat /\ business'[r] = business[r] + 1
      /\ \A q \in StoreNames : business'[q] >= business[q]
  BY <1>0, <1>1 DEF BenchTypeOK
<1>3. BenchTypeOK'
  <2>1. missed' \in SUBSET StoreNames
    BY <1>0, <1>1 DEF BenchTypeOK
  <2> QED
    BY <1>0, <1>1, <1>2, <2>1 DEF BenchTypeOK
<1>4. ResultsFit'
  BY <1>0, <1>1, ResultsKept
<1>5. ~Answered /\ ~Answered'
  BY <1>0, <1>1 DEF AnswerFits, Answered, Benchmark!Unknown
<1>6. EvaluationFits'
  <2>1. Benchmark!Cases' = Benchmark!Cases
    BY <1>1 DEF Benchmark!Cases
  <2> QED
    BY <1>0, <1>1, <1>5, <2>1 DEF EvaluationFits
<1>7. SnapshotFits'
  <2>1. ASSUME NEW q \in StoreNames, before[q] # Nothing
        PROVE  before[q] <= business'[q]
               /\ (q = r \/ q \in missed => before[q] < business'[q])
    <3>1. before[q] \in Nat /\ business[q] \in Nat
          /\ business'[q] \in Nat /\ before[q] <= business[q]
      BY <1>0, <1>2, <2>1 DEF BenchTypeOK, SnapshotFits
    <3>2. q \in missed => before[q] < business[q]
      BY <1>0 DEF SnapshotFits
    <3> QED
      BY <1>2, <3>1, <3>2
  <2>2. \A q \in missed' :
           before'[q] # Nothing /\ before'[q] < business'[q]
    <3>1. ASSUME NEW q \in missed'
          PROVE  before[q] # Nothing /\ q \in StoreNames
                 /\ (q = r \/ q \in missed)
      BY <1>0, <1>1, <3>1 DEF BenchTypeOK, SnapshotFits
    <3> QED
      BY <1>1, <2>1, <3>1
  <2>3. ASSUME place = "after", NEW k \in DOMAIN Stores,
               Stores[k] \in missed', k < index
        PROVE  changed
    <3>1. CASE Stores[k] \in missed
      BY <1>0, <2>3, <3>1 DEF SnapshotFits
    <3>2. CASE Stores[k] \notin missed
      <4>1. Stores[k] = r /\ ~(index > Benchmark!Position(r))
        BY <1>1, <2>3, <3>2
      <4>2. Benchmark!Position(r) = k
        BY <4>1, StorePositions
      <4> QED
        BY <1>0, <2>3, <4>1, <4>2
    <3> QED
      BY <3>1, <3>2
  <2>4. place = "recording" => missed' = missed
    BY <1>1
  <2>5. \A q \in StoreNames :
           before'[q] # Nothing => before'[q] <= business'[q]
    BY <1>1, <2>1
  <2> QED
    BY <1>0, <1>1, <1>5, <2>2, <2>3, <2>4, <2>5 DEF SnapshotFits
<1>8. AnswerFits'
  BY <1>5 DEF AnswerFits
<1> QED
  BY <1>3, <1>4, <1>6, <1>7, <1>8 DEF BenchmarkInv

LEMMA BenchmarkStep ==
    ASSUME BenchmarkAssumption, BenchmarkInv,
           [Benchmark!BenchmarkNext]_(Benchmark!benchmarkVars)
    PROVE  BenchmarkInv'
<1>0. BenchTypeOK /\ ResultsFit /\ EvaluationFits /\ SnapshotFits
      /\ AnswerFits
  BY DEF BenchmarkInv
<1>1. CASE \E request \in Requests : Benchmark!Accept(request)
  BY <1>1, AcceptKeepsInv
<1>2. CASE Benchmark!TimePasses
  <2>1. /\ place = "evaluating" /\ overtime' = TRUE
        /\ UNCHANGED <<pack, lane, budget, place, index, results, used,
                       spent, business, before, changed, filed, benchmark,
                       missed>>
    BY <1>2 DEF Benchmark!TimePasses
  <2>2. BenchTypeOK'
    BY <1>0, <2>1 DEF BenchTypeOK
  <2>3. ResultsFit'
    BY <1>0, <2>1, ResultsKept
  <2>4. SnapshotFits' /\ AnswerFits'
    BY <1>0, <2>1, SnapshotKept
  <2>5. EvaluationFits'
    <3>1. Benchmark!Cases' = Benchmark!Cases
      BY <2>1 DEF Benchmark!Cases
    <3>2. Answered' = Answered
      BY <2>1 DEF Answered, Benchmark!Unknown
    <3> QED
      BY <1>0, <2>1, <3>1, <3>2 DEF EvaluationFits
  <2> QED
    BY <2>2, <2>3, <2>4, <2>5 DEF BenchmarkInv
<1>3. CASE \E r \in Benchmark!Range(Stores) : Benchmark!WriteBusiness(r)
  BY <1>3, BusinessKeepsInv DEF StoreNames
<1>4. CASE UNCHANGED Benchmark!benchmarkVars
  <2>1. UNCHANGED <<pack, lane, budget, place, index, overtime, results,
                    used, spent, business, before, changed, filed,
                    benchmark, missed>>
    BY <1>4 DEF Benchmark!benchmarkVars
  <2>2. /\ Benchmark!Cases' = Benchmark!Cases /\ Answered' = Answered
        /\ Benchmark!CaseStatus' = Benchmark!CaseStatus
    BY <2>1 DEF Benchmark!Cases, Answered, Benchmark!Unknown,
       Benchmark!CaseStatus
  <2>3. Benchmark!Evidence' = Benchmark!Evidence
    BY <2>1, <2>2 DEF Benchmark!Evidence
  <2>4. BenchTypeOK'
    BY <1>0, <2>1 DEF BenchTypeOK
  <2>5. ResultsFit'
    BY <1>0, <2>1, ResultsKept
  <2>6. EvaluationFits'
    BY <1>0, <2>1, <2>2 DEF EvaluationFits
  <2>7. SnapshotFits' /\ AnswerFits'
    BY <1>0, <2>1, <2>2, <2>3 DEF SnapshotFits, AnswerFits
  <2> QED
    BY <2>4, <2>5, <2>6, <2>7 DEF BenchmarkInv
<1> QED
  BY <1>1, <1>2, <1>3, <1>4, ReadBeforeKeepsInv, EvaluateKeepsInv,
     ReadAfterKeepsInv, EndKeepsInv
  DEF Benchmark!BenchmarkNext

(* The lanes that evaluate nothing never claim to be completed, and the    *)
(* one that does is completed when each result is.                         *)
LEMMA StatusTold ==
    ASSUME BenchTypeOK, ResultsFit, EvaluationFits, Answered
    PROVE  /\ Benchmark!Evidence.status = "completed" =>
                 /\ Len(results) = Len(Benchmark!Cases)
                 /\ \A k \in 1 .. Len(results) :
                       results[k].status = "completed"
           /\ Len(results) < Len(Benchmark!Cases) =>
                 Benchmark!Evidence.status \in {"timeout", "failed", "skipped"}
<1>1. /\ DOMAIN results = 1 .. Len(results)
      /\ \A k \in 1 .. Len(results) :
            results[k].status \in {"completed", "failed", "timeout"}
  <2>1. \A r \in CaseResults : r.status \in {"completed", "failed", "timeout"}
    BY DEF CaseResults
  <2> QED
    BY <2>1 DEF BenchTypeOK
<1>2. CASE lane = "deterministic"
  <2>1. Benchmark!Evidence.status = Benchmark!CaseStatus
    BY <1>2 DEF Benchmark!Evidence
  <2>2. CASE \E k \in 1 .. Len(results) : results[k].status = "timeout"
    <3>1. Benchmark!CaseStatus = "timeout"
      BY <1>1, <2>2 DEF Benchmark!CaseStatus
    <3> QED
      BY <2>1, <3>1
  <2>3. CASE ~ \E k \in 1 .. Len(results) : results[k].status = "timeout"
    <3>1. Len(results) = Len(Benchmark!Cases)
      BY <1>2, <2>3 DEF EvaluationFits
    <3>2. Benchmark!CaseStatus = "completed" =>
             \A k \in 1 .. Len(results) : results[k].status = "completed"
      BY <1>1, <2>3 DEF Benchmark!CaseStatus
    <3>3. Len(Benchmark!Cases) \in Nat
      BY CasesTyped
    <3> QED
      BY <2>1, <3>1, <3>2, <3>3
  <2> QED
    BY <2>2, <2>3
<1>3. CASE lane = "unconfigured"
  BY <1>3 DEF Benchmark!Evidence
<1>4. CASE lane = "credentials_missing"
  BY <1>4 DEF Benchmark!Evidence
<1> QED
  BY <1>2, <1>3, <1>4 DEF BenchTypeOK, Benchmark!Lanes

LEMMA InvTellsBenchmark ==
    ASSUME BenchmarkAssumption, BenchmarkInv
    PROVE  BenchmarkIsTold
<1>0. BenchTypeOK /\ ResultsFit /\ EvaluationFits /\ SnapshotFits
      /\ AnswerFits
  BY DEF BenchmarkInv
<1> SUFFICES ASSUME Answered
             PROVE  BenchmarkIsTold
  BY DEF BenchmarkIsTold, Benchmark!BenchmarkIsTold, Answered
<1>1. benchmark = Benchmark!Evidence /\ filed = benchmark
  BY <1>0 DEF AnswerFits
<1>2. /\ benchmark.results = results /\ benchmark.bytes = used
      /\ benchmark.count = Len(Benchmark!Cases)
      /\ benchmark.changed = changed
      /\ benchmark.status = Benchmark!Evidence.status
  BY <1>1 DEF Benchmark!Evidence
<1>3. /\ Len(Benchmark!Cases) <= budget.cases
      /\ Len(results) <= Len(Benchmark!Cases)
      /\ Len(results) \in Nat /\ Len(Benchmark!Cases) \in Nat
      /\ budget.cases \in Nat
  <2>1. budget.cases \in Nat
    BY <1>0 DEF BenchTypeOK, Limits
  <2>2. Len(Benchmark!Cases) <= budget.cases
        /\ Benchmark!Cases \in Seq(BenchmarkCases)
    BY <1>0, CasesOfPack DEF BenchTypeOK
  <2> QED
    BY <1>0, <2>1, <2>2 DEF BenchTypeOK, EvaluationFits
<1>4. Len(results) <= budget.cases
  BY <1>3
<1>5. ~changed => missed = {}
  BY <1>0 DEF SnapshotFits
<1>6. ASSUME NEW k \in 1 .. Len(results)
      PROVE  ResultTells(k)
  BY <1>0 DEF ResultsFit
<1>7. /\ used = spent[Len(results) + 1]
      /\ used <= budget.total /\ used <= budget.temp
  BY <1>0 DEF ResultsFit
<1>8. /\ benchmark.status = "completed" =>
            /\ Len(results) = Len(Benchmark!Cases)
            /\ \A k \in 1 .. Len(results) : results[k].status = "completed"
      /\ Len(results) < Len(Benchmark!Cases) =>
            benchmark.status \in {"timeout", "failed", "skipped"}
  BY <1>0, <1>2, StatusTold
<1>9. ~benchmark.changed => missed = {}
  BY <1>2, <1>5
<1> HIDE DEF Answered
<1> QED
  BY <1>1, <1>2, <1>4, <1>6, <1>7, <1>8, <1>9
  DEF BenchmarkIsTold, Benchmark!BenchmarkIsTold, ResultTells, OverTheSum

(* A benchmark that answers has kept to its limits, says of every case     *)
(* what became of it, and does not say that the business storage is        *)
(* unchanged when it was written between the two readings.                 *)
THEOREM BenchmarksAreTold == Benchmark!BenchmarkSpec => []BenchmarkIsTold
<1>1. Benchmark!BenchmarkInit => BenchmarkInv
  BY BenchmarkAssumption, BenchmarkInitially
<1>2. BenchmarkInv /\ [Benchmark!BenchmarkNext]_(Benchmark!benchmarkVars)
      => BenchmarkInv'
  BY BenchmarkAssumption, BenchmarkStep
<1>3. BenchmarkInv => BenchmarkIsTold
  BY BenchmarkAssumption, InvTellsBenchmark
<1> QED
  BY <1>1, <1>2, <1>3, PTL DEF Benchmark!BenchmarkSpec

-----------------------------------------------------------------------------
(* The policy of the Workflow Lab: what a draft leads to, part by part *)

(* A set of numbers has a least one, by which the lemmas about the         *)
(* recursive functions go: what fails, fails somewhere first.              *)
LEMMA Least ==
    ASSUME NEW S, S \subseteq Nat, S # {}
    PROVE  \E m \in S : \A k \in S : m <= k
<1>1. PICK m \in S : \A k \in S : ~(<<k, m>> \in OpToRel(<, Nat))
  BY NatLessThanWellFounded, WFMin, Zenon
<1>2. \A k \in S : ~(k < m)
  BY <1>1 DEF OpToRel
<1> QED
  BY <1>2

(* The functions are what their definitions say, at each of their parts. *)
LEMMA WalkedIs ==
    ASSUME NEW base, NEW reference, Len(reference) \in Nat
    PROVE  LET pos == Policy!Walked(base, reference) IN
           pos = [i \in 0 .. Len(reference) |->
                    IF i = 0 THEN [parts |-> base, safe |-> TRUE]
                    ELSE Policy!Walk(base, pos[i - 1], reference[i])]
<1> DEFINE Next(pos, i) == Policy!Walk(base, pos[i - 1], reference[i])
           Start == [parts |-> base, safe |-> TRUE]
           Full(n, pos) ==
               pos = [i \in 0 .. n |-> IF i = 0 THEN Start ELSE Next(pos, i)]
           Gaps == {n \in Nat : ~ \E pos : Full(n, pos)}
<1>1. Gaps = {}
  <2> SUFFICES ASSUME Gaps # {} PROVE FALSE
    OBVIOUS
  <2>1. PICK m \in Gaps : \A k \in Gaps : m <= k
    <3> HIDE DEF Full
    <3> QED BY Least
  <2>2. m # 0
    <3>1. Full(0, [i \in {0} |-> Start])
      OBVIOUS
    <3> QED BY <3>1, <2>1
  <2>3. PICK pos : Full(m - 1, pos)
    <3> HIDE DEF Full
    <3> QED BY <2>1, <2>2
  <2> DEFINE more == [i \in 0 .. m |-> IF i < m THEN pos[i] ELSE Next(pos, m)]
  <2>4. Full(m, more)
    <3>1. \A i \in 0 .. m : more[i] = IF i = 0 THEN Start ELSE Next(more, i)
      <4> TAKE i \in 0 .. m
      <4>1. CASE i = 0
        BY <4>1, <2>2, <2>3, <2>1
      <4>2. CASE i # 0 /\ i < m
        <5>1. pos[i] = Next(pos, i)
          <6>1. i \in 0 .. m - 1
            BY <4>2, <2>1
          <6> QED BY <4>2, <6>1, <2>3
        <5>2. more[i - 1] = pos[i - 1]
          BY <4>2, <2>1
        <5> QED BY <4>2, <5>1, <5>2
      <4>3. CASE i # 0 /\ i = m
        BY <4>3, <2>1
      <4> QED BY <4>1, <4>2, <4>3, <2>1
    <3> HIDE DEF Next, Start
    <3> QED BY <3>1
  <2>5. QED
    <3> HIDE DEF Full
    <3> QED BY <2>4, <2>1
<1>2. \E pos : Full(Len(reference), pos)
  <2> HIDE DEF Full
  <2> QED BY <1>1
<1>3. Full(Len(reference), CHOOSE pos : Full(Len(reference), pos))
  <2> HIDE DEF Full
  <2> QED BY <1>2, Zenon
<1>4. Policy!Walked(base, reference) = CHOOSE pos : Full(Len(reference), pos)
  BY Zenon DEF Policy!Walked
<1> QED
  BY <1>3, <1>4, Zenon

LEMMA TracedIs ==
    ASSUME NEW start, NEW reference, Len(reference) \in Nat
    PROVE  LET pos == Policy!Traced(start, reference) IN
           pos = [i \in 0 .. Len(reference) |->
                    IF i = 0 THEN start
                    ELSE Policy!Up(pos[i - 1], reference[i])]
<1> DEFINE Next(pos, i) == Policy!Up(pos[i - 1], reference[i])
           Start == start
           Full(n, pos) ==
               pos = [i \in 0 .. n |-> IF i = 0 THEN Start ELSE Next(pos, i)]
           Gaps == {n \in Nat : ~ \E pos : Full(n, pos)}
<1>1. Gaps = {}
  <2> SUFFICES ASSUME Gaps # {} PROVE FALSE
    OBVIOUS
  <2>1. PICK m \in Gaps : \A k \in Gaps : m <= k
    <3> HIDE DEF Full
    <3> QED BY Least
  <2>2. m # 0
    <3>1. Full(0, [i \in {0} |-> Start])
      OBVIOUS
    <3> QED BY <3>1, <2>1
  <2>3. PICK pos : Full(m - 1, pos)
    <3> HIDE DEF Full
    <3> QED BY <2>1, <2>2
  <2> DEFINE more == [i \in 0 .. m |-> IF i < m THEN pos[i] ELSE Next(pos, m)]
  <2>4. Full(m, more)
    <3>1. \A i \in 0 .. m : more[i] = IF i = 0 THEN Start ELSE Next(more, i)
      <4> TAKE i \in 0 .. m
      <4>1. CASE i = 0
        BY <4>1, <2>2, <2>3, <2>1
      <4>2. CASE i # 0 /\ i < m
        <5>1. pos[i] = Next(pos, i)
          <6>1. i \in 0 .. m - 1
            BY <4>2, <2>1
          <6> QED BY <4>2, <6>1, <2>3
        <5>2. more[i - 1] = pos[i - 1]
          BY <4>2, <2>1
        <5> QED BY <4>2, <5>1, <5>2
      <4>3. CASE i # 0 /\ i = m
        BY <4>3, <2>1
      <4> QED BY <4>1, <4>2, <4>3, <2>1
    <3> HIDE DEF Next, Start
    <3> QED BY <3>1
  <2>5. QED
    <3> HIDE DEF Full
    <3> QED BY <2>4, <2>1
<1>2. \E pos : Full(Len(reference), pos)
  <2> HIDE DEF Full
  <2> QED BY <1>1
<1>3. Full(Len(reference), CHOOSE pos : Full(Len(reference), pos))
  <2> HIDE DEF Full
  <2> QED BY <1>2, Zenon
<1>4. Policy!Traced(start, reference) = CHOOSE pos : Full(Len(reference), pos)
  BY Zenon DEF Policy!Traced
<1> QED
  BY <1>3, <1>4, Zenon

(* One part of a reference, as the text is checked and as it is resolved.  *)
Agree(base, pos, resolved) ==
    /\ Len(base) <= Len(pos.parts)
    /\ SubSeq(pos.parts, 1, Len(base)) = base
    /\ resolved = Policy!AppRoot \o pos.parts

(* Without its last element a sequence is one of the same elements. *)
LEMMA FrontIs ==
    ASSUME NEW S, NEW s \in Seq(S), s # <<>>
    PROVE  /\ Policy!Front(s) \in Seq(S)
           /\ Len(Policy!Front(s)) = Len(s) - 1
           /\ \A i \in 1 .. Len(s) - 1 : Policy!Front(s)[i] = s[i]
<1> DEFINE n == Len(s) - 1
<1>1. n \in Nat /\ \A i \in 1 .. n : i \in 1 .. Len(s) /\ s[i] \in S
  OBVIOUS
<1>2. Policy!Front(s) = [i \in 1 .. n |-> s[i]]
  BY <1>1 DEF Policy!Front
<1>3. [i \in 1 .. n |-> s[i]] \in Seq(S)
  BY <1>1
<1> QED
  BY <1>1, <1>2, <1>3

(* They still agree after one more part, if the text is allowed. *)
LEMMA StepsAgree ==
    ASSUME NEW S, NEW base \in Seq(S), NEW part \in S,
           NEW pos \in [parts : Seq(S), safe : BOOLEAN], NEW resolved,
           pos.safe => Agree(base, pos, resolved)
    PROVE  LET moved == Policy!Walk(base, pos, part) IN
           /\ moved \in [parts : Seq(S), safe : BOOLEAN]
           /\ moved.safe => Agree(base, moved, Policy!Up(resolved, part))
<1> DEFINE moved == Policy!Walk(base, pos, part)
<1> SUFFICES /\ moved \in [parts : Seq(S), safe : BOOLEAN]
             /\ moved.safe => Agree(base, moved, Policy!Up(resolved, part))
  OBVIOUS
<1> HIDE DEF moved
<1>1. CASE ~pos.safe
  BY <1>1 DEF Policy!Walk, moved
<1>2. CASE pos.safe /\ part = ".."
  <2>1. CASE Len(pos.parts) <= Len(base)
    BY <1>2, <2>1 DEF Policy!Walk, moved
  <2>2. CASE ~(Len(pos.parts) <= Len(base))
    <3>1. moved = [pos EXCEPT !.parts = Policy!Front(@)]
      BY <1>2, <2>2 DEF Policy!Walk, moved
    <3>2. /\ resolved # <<>>
          /\ Policy!Front(resolved)
             = Policy!AppRoot \o Policy!Front(pos.parts)
      BY <1>2, <2>2 DEF Policy!Front, Policy!AppRoot, Agree
    <3>3. Policy!Up(resolved, part) = Policy!AppRoot \o Policy!Front(pos.parts)
      BY <1>2, <3>2 DEF Policy!Up
    <3> DEFINE shorter == Policy!Front(pos.parts)
    <3>4. /\ shorter \in Seq(S) /\ Len(shorter) = Len(pos.parts) - 1
          /\ \A i \in 1 .. Len(shorter) : shorter[i] = pos.parts[i]
      <4>1. pos.parts # <<>>
        BY <2>2
      <4> QED
        BY <4>1, FrontIs
    <3>5. SubSeq(shorter, 1, Len(base)) = base
      <4> HIDE DEF shorter
      <4>1. \A i \in 1 .. Len(base) : base[i] = pos.parts[i]
        BY <1>2 DEF Agree
      <4> QED
        BY <2>2, <3>4, <4>1
    <3>6. moved = [parts |-> shorter, safe |-> TRUE]
      BY <1>2, <3>1
    <3>7. moved \in [parts : Seq(S), safe : BOOLEAN]
      BY <3>4, <3>6
    <3>8. Len(base) <= Len(shorter)
      BY <2>2, <3>4
    <3>9. Agree(base, moved, Policy!Up(resolved, part))
      BY <3>3, <3>5, <3>6, <3>8 DEF Agree
    <3> QED
      BY <3>7, <3>9
  <2> QED
    BY <2>1, <2>2
<1>3. CASE pos.safe /\ part # ".."
  <2>1. CASE ~Portable(part)
    BY <1>3, <2>1 DEF Policy!Walk, moved
  <2>2. CASE Portable(part)
    <3>1. moved = [pos EXCEPT !.parts = Append(@, part)]
      BY <1>3, <2>2 DEF Policy!Walk, moved
    <3>2. Policy!Up(resolved, part) = Policy!AppRoot \o Append(pos.parts, part)
      BY <1>3 DEF Policy!Up, Agree, Policy!AppRoot
    <3> DEFINE longer == Append(pos.parts, part)
    <3>3. /\ longer \in Seq(S) /\ Len(longer) = Len(pos.parts) + 1
          /\ \A i \in 1 .. Len(pos.parts) : longer[i] = pos.parts[i]
      OBVIOUS
    <3>4. SubSeq(longer, 1, Len(base)) = base
      <4> HIDE DEF longer
      <4>1. /\ \A i \in 1 .. Len(base) : base[i] = pos.parts[i]
            /\ Len(base) <= Len(pos.parts)
        BY <1>3 DEF Agree
      <4> QED
        BY <3>3, <4>1
    <3>5. moved = [parts |-> longer, safe |-> TRUE]
      BY <1>3, <3>1
    <3>6. Len(base) <= Len(longer)
      BY <1>3, <3>3 DEF Agree
    <3>7. moved \in [parts : Seq(S), safe : BOOLEAN]
      BY <3>3, <3>5
    <3>8. Agree(base, moved, Policy!Up(resolved, part))
      BY <3>2, <3>4, <3>5, <3>6 DEF Agree
    <3> QED
      BY <3>7, <3>8
  <2> QED
    BY <2>1, <2>2
<1> QED
  BY <1>1, <1>2, <1>3

(* What the check of the text allows does not leave its directory. *)
LEMMA TextIsInside ==
    ASSUME NEW S, NEW file \in Seq(S) \ {<<>>}, NEW reference \in Seq(S),
           Policy!SafeConfigPath(file, reference)
    PROVE  Policy!Inside(file, reference)
<1> DEFINE base == Policy!Front(file)
           n == Len(reference)
           walked == Policy!Walked(base, reference)
           traced == Policy!Traced(Policy!AppRoot \o base, reference)
           Fits(i) ==
               /\ walked[i] \in [parts : Seq(S), safe : BOOLEAN]
               /\ walked[i].safe => Agree(base, walked[i], traced[i])
           Odd == {i \in 0 .. n : ~Fits(i)}
<1>1. base \in Seq(S) /\ n \in Nat
  BY DEF Policy!Front
<1>2. /\ walked[0] = [parts |-> base, safe |-> TRUE]
      /\ traced[0] = Policy!AppRoot \o base
      /\ \A i \in 1 .. n :
            /\ walked[i] = Policy!Walk(base, walked[i - 1], reference[i])
            /\ traced[i] = Policy!Up(traced[i - 1], reference[i])
  <2> HIDE DEF base
  <2> DEFINE home == Policy!AppRoot \o base
  <2> HIDE DEF home
  <2>1. walked =
            [i \in 0 .. n |->
                IF i = 0 THEN [parts |-> base, safe |-> TRUE]
                ELSE Policy!Walk(base, walked[i - 1], reference[i])]
    BY <1>1, WalkedIs
  <2>2. Policy!Traced(home, reference) =
            [i \in 0 .. n |->
                IF i = 0 THEN home
                ELSE Policy!Up(Policy!Traced(home, reference)[i - 1],
                               reference[i])]
    BY <1>1, TracedIs
  <2>3. traced = Policy!Traced(home, reference)
    BY DEF home
  <2> HIDE DEF walked, traced
  <2>4. /\ walked[0] = [parts |-> base, safe |-> TRUE]
        /\ \A i \in 1 .. n :
              walked[i] = Policy!Walk(base, walked[i - 1], reference[i])
    <3>1. 0 \in 0 .. n /\ \A i \in 1 .. n : i \in 0 .. n /\ i # 0
      BY <1>1
    <3> QED
      BY <2>1, <3>1, Zenon
  <2>5. /\ traced[0] = home
        /\ \A i \in 1 .. n :
              traced[i] = Policy!Up(traced[i - 1], reference[i])
    <3>1. 0 \in 0 .. n /\ \A i \in 1 .. n : i \in 0 .. n /\ i # 0
      BY <1>1
    <3> QED
      BY <2>2, <2>3, <3>1, Zenon
  <2> QED
    BY <2>4, <2>5 DEF home
<1>3. Fits(0)
  <2> HIDE DEF base, walked, traced
  <2> QED
    BY <1>1, <1>2 DEF Agree
<1>4. ASSUME NEW i \in 1 .. n, Fits(i - 1) PROVE Fits(i)
  <2> HIDE DEF base, walked, traced
  <2>1. reference[i] \in S
    BY <1>1, <1>4
  <2> QED
    BY <1>1, <1>2, <1>4, <2>1, StepsAgree
<1>5. Odd = {}
  <2> SUFFICES ASSUME Odd # {} PROVE FALSE
    OBVIOUS
  <2> HIDE DEF Fits
  <2>1. PICK m \in Odd : \A k \in Odd : m <= k
    <3>1. Odd \subseteq Nat
      BY <1>1
    <3> QED BY <3>1, Least
  <2>2. m \in 1 .. n /\ m - 1 \notin Odd
    BY <2>1, <1>3, <1>1
  <2>3. Fits(m - 1)
    BY <2>2, <1>1
  <2> QED
    BY <2>1, <2>2, <2>3, <1>4
<1>6. Fits(n)
  <2> HIDE DEF Fits
  <2> QED
    BY <1>1, <1>5
<1>7. walked[n].safe /\ Policy!Resolved(file, reference) = traced[n]
  BY DEF Policy!SafeConfigPath, Policy!Resolved
<1>8. Agree(base, walked[n], traced[n]) /\ walked[n].parts \in Seq(S)
  <2> HIDE DEF base, walked, traced
  <2> QED
    BY <1>6, <1>7
<1>9. Policy!IsPrefix(Policy!AppRoot \o base, traced[n])
  <2> HIDE DEF base, walked, traced
  <2> QED
    BY <1>1, <1>8 DEF Agree, Policy!IsPrefix, Policy!AppRoot
<1> QED
  BY <1>7, <1>9 DEF Policy!Inside

(* The parts of a path, of a draft and of the probe's copy of it. *)
Parts == STRING \cup {"temp", "app"}

IsDraft(draft) ==
    /\ IsFiniteSet(draft.files)
    /\ draft.files \subseteq Seq(Parts) \ {<<>>}
    /\ \A f \in Policy!Agents(draft) : \A r \in draft.agents[f].refs :
          r.path \in Seq(Parts)

(* The drafts submitted are drafts of such paths. *)
LEMMA DraftsAre ==
    ASSUME NEW draft \in Submitted
    PROVE  IsDraft(draft)
<1>1. \A path : path \in Seq(STRING) => path \in Seq(Parts)
  BY DEF Parts
<1>2. /\ IsFiniteSet(draft.files)
      /\ draft.files \subseteq Seq(STRING) \ {<<>>}
      /\ \A f \in Policy!Agents(draft) : \A r \in draft.agents[f].refs :
            r.path \in Seq(STRING)
  BY PolicyAssumption, Zenon
<1>3. draft.files \subseteq Seq(Parts) \ {<<>>}
  <2> SUFFICES ASSUME NEW path \in draft.files
               PROVE  path \in Seq(Parts) \ {<<>>}
    OBVIOUS
  <2> QED
    BY <1>1, <1>2
<1>4. ASSUME NEW f \in Policy!Agents(draft),
             NEW r \in draft.agents[f].refs
      PROVE  r.path \in Seq(Parts)
  <2>1. r.path \in Seq(STRING)
    BY <1>2, Zenon
  <2> QED
    BY <1>1, <2>1, Zenon
<1> QED
  BY <1>2, <1>3, <1>4, Zenon DEF IsDraft

(* A resolved reference is a path again. *)
LEMMA ResolvedIsPath ==
    ASSUME NEW file \in Seq(Parts) \ {<<>>}, NEW reference \in Seq(Parts)
    PROVE  /\ Policy!AppRoot \o Policy!Front(file) \in Seq(Parts)
           /\ Policy!Resolved(file, reference) \in Seq(Parts)
<1> DEFINE start == Policy!AppRoot \o Policy!Front(file)
           n == Len(reference)
           traced == Policy!Traced(start, reference)
           Odd == {i \in 0 .. n : traced[i] \notin Seq(Parts)}
<1>1. start \in Seq(Parts) /\ n \in Nat
  <2>1. Policy!Front(file) \in Seq(Parts)
    BY FrontIs
  <2>2. Policy!AppRoot \in Seq(Parts)
    BY DEF Policy!AppRoot, Parts
  <2> QED
    BY <2>1, <2>2
<1>2. /\ traced[0] = start
      /\ \A i \in 1 .. n : traced[i] = Policy!Up(traced[i - 1], reference[i])
  <2> HIDE DEF start
  <2>1. traced = [i \in 0 .. n |->
                     IF i = 0 THEN start
                     ELSE Policy!Up(traced[i - 1], reference[i])]
    BY <1>1, TracedIs
  <2> HIDE DEF traced
  <2>2. 0 \in 0 .. n /\ \A i \in 1 .. n : i \in 0 .. n /\ i # 0
    BY <1>1
  <2> QED
    BY <2>1, <2>2, Zenon
<1> HIDE DEF start, traced
<1>3. ASSUME NEW i \in 1 .. n, traced[i - 1] \in Seq(Parts)
      PROVE  traced[i] \in Seq(Parts)
  <2>1. traced[i] = Policy!Up(traced[i - 1], reference[i])
    BY <1>2
  <2>2. reference[i] \in Parts
    BY <1>1
  <2>3. traced[i - 1] # <<>> => Policy!Front(traced[i - 1]) \in Seq(Parts)
    BY <1>3, FrontIs
  <2> QED
    BY <1>3, <2>1, <2>2, <2>3 DEF Policy!Up
<1>4. Odd = {}
  <2> SUFFICES ASSUME Odd # {} PROVE FALSE
    OBVIOUS
  <2>1. PICK m \in Odd : \A k \in Odd : m <= k
    <3>1. Odd \subseteq Nat
      BY <1>1
    <3> QED
      BY <3>1, Least
  <2>2. m \in 1 .. n /\ m - 1 \in 0 .. n
    BY <2>1, <1>1, <1>2
  <2>3. traced[m - 1] \in Seq(Parts)
    BY <2>1, <2>2
  <2> QED
    BY <2>1, <2>2, <2>3, <1>3
<1>5. Policy!Resolved(file, reference) = traced[n]
  BY DEF Policy!Resolved, traced, start
<1> QED
  BY <1>1, <1>4, <1>5 DEF start

(* Where a reference is followed to is the agent that it is resolved to,   *)
(* and nowhere if it leaves its directory or there is no such agent.       *)
LEMMA TargetIsLed ==
    ASSUME NEW draft, IsDraft(draft),
           NEW file \in Policy!Configs(draft), NEW reference \in Seq(Parts)
    PROVE  LET target == Policy!Target(draft, file, reference)
               resolved == Policy!Resolved(file, reference)
           IN  /\ target # <<>> =>
                     /\ target \in Policy!Configs(draft)
                     /\ resolved = Policy!AppRoot \o target
                     /\ Policy!Inside(file, reference)
               /\ \A g \in Policy!Configs(draft) :
                     resolved = Policy!AppRoot \o g
                     /\ Policy!Inside(file, reference)
                     => target = g
<1> DEFINE target == Policy!Target(draft, file, reference)
           resolved == Policy!Resolved(file, reference)
           start == Policy!AppRoot \o Policy!Front(file)
           rest == SubSeq(resolved, Len(Policy!AppRoot) + 1, Len(resolved))
<1>1. \A g \in Policy!Configs(draft) : g \in Seq(Parts) \ {<<>>}
  BY DEF IsDraft, Policy!Agents, Policy!Configs
<1>2. start \in Seq(Parts) /\ resolved \in Seq(Parts)
  BY <1>1, ResolvedIsPath
<1>3. target =
          IF /\ Policy!IsPrefix(start, resolved)
             /\ rest \in Policy!Configs(draft)
          THEN rest ELSE <<>>
  BY Zenon DEF Policy!Target
<1>4. Policy!Inside(file, reference) <=> Policy!IsPrefix(start, resolved)
  BY Zenon DEF Policy!Inside
<1>5. ASSUME target # <<>>
      PROVE  /\ target = rest /\ target \in Policy!Configs(draft)
             /\ Policy!IsPrefix(start, resolved)
  <2> HIDE DEF target, rest, start, resolved
  <2> QED
    BY <1>3, <1>5
<1>6. Len(Policy!AppRoot) = 2
  BY DEF Policy!AppRoot
<1>7. ASSUME Policy!IsPrefix(start, resolved)
      PROVE  resolved = Policy!AppRoot \o rest
  <2>1. /\ Len(start) >= 2 /\ start[1] = "temp" /\ start[2] = "app"
    <3>1. Policy!Front(file) \in Seq(Parts)
      BY <1>1, FrontIs
    <3> QED
      BY <3>1 DEF Policy!AppRoot
  <2>2. /\ Len(resolved) >= 2
        /\ resolved[1] = start[1] /\ resolved[2] = start[2]
    <3> HIDE DEF start, resolved
    <3> QED
      BY <1>2, <1>7, <2>1 DEF Policy!IsPrefix
  <2> HIDE DEF start, resolved
  <2> QED
    BY <1>2, <2>1, <2>2 DEF Policy!AppRoot
<1>8. ASSUME NEW g \in Policy!Configs(draft), resolved = Policy!AppRoot \o g
      PROVE  rest = g
  <2>1. g \in Seq(Parts) /\ Policy!AppRoot \in Seq({"temp", "app"})
    BY <1>1 DEF Policy!AppRoot
  <2> HIDE DEF resolved
  <2>2. /\ Len(resolved) = Len(g) + 2
        /\ \A i \in 1 .. Len(g) : resolved[i + 2] = g[i]
    BY <1>8, <2>1 DEF Policy!AppRoot
  <2>3. SubSeq(resolved, 3, Len(resolved))
        = [i \in 1 .. Len(g) |-> resolved[i + 2]]
    BY <1>2, <2>1, <2>2
  <2>4. [i \in 1 .. Len(g) |-> resolved[i + 2]] = g
    BY <2>1, <2>2
  <2> QED
    BY <1>6, <2>3, <2>4
<1> HIDE DEF target, rest, start, resolved
<1>9. target # <<>> =>
          /\ target \in Policy!Configs(draft)
          /\ resolved = Policy!AppRoot \o target
          /\ Policy!Inside(file, reference)
  BY <1>4, <1>5, <1>7
<1>10. ASSUME NEW g \in Policy!Configs(draft),
              resolved = Policy!AppRoot \o g, Policy!Inside(file, reference)
       PROVE  target = g
  BY <1>3, <1>4, <1>8, <1>10
<1> QED
  BY <1>9, <1>10 DEF target, resolved

-----------------------------------------------------------------------------
(* The inductive invariant of the visit.  It is about the branch of calls  *)
(* the visit is in.  Whatever a call has followed is visited or is the     *)
(* next call; what is visited has heights, so that it has no cycle; and    *)
(* every order of the agents that the references respect rises along the   *)
(* branch, so that a reference back into the branch leaves no such order.  *)

(* The agents that an agent refers to, and <<>> where it is refused. *)
Sub(f) ==
    {Policy!Target(examined, f, r.path) : r \in examined.agents[f].refs}

(* Those of them that a call has been led to already. *)
Followed(frame) ==
    {Policy!Target(examined, frame.file, r.path) :
        r \in examined.agents[frame.file].refs \ frame.refs}

Calls ==
    [file : Policy!Configs(examined),
     refs : SUBSET UNION {examined.agents[f].refs :
                             f \in Policy!Configs(examined)}]

(* The branch is one of agents whose visit is not over, from the root. *)
BranchFits ==
    /\ visited \subseteq Policy!Configs(examined)
    /\ branch \in Seq(Calls)
    /\ \A i \in DOMAIN branch :
          /\ branch[i].refs \subseteq examined.agents[branch[i].file].refs
          /\ branch[i].file \notin visited
    /\ \A i, k \in DOMAIN branch : branch[i].file = branch[k].file => i = k
    /\ branch = <<>> => Policy!Root \in visited
    /\ branch # <<>> => branch[1].file = Policy!Root

(* Whatever was followed is visited, or is the next call of the branch. *)
FollowedFit ==
    /\ \A f \in visited : Sub(f) \subseteq visited
    /\ \A i \in DOMAIN branch : \A g \in Followed(branch[i]) :
          g \in visited \/ (i < Len(branch) /\ g = branch[i + 1].file)

Closed(S) == \A e \in Policy!Leads(examined) : e[1] \in S => e[2] \in S

(* Nothing is visited that does not hang from the root. *)
HangingFits ==
    \A S \in SUBSET Policy!Configs(examined) :
        Policy!Root \in S /\ Closed(S)
        => visited \cup Policy!Visiting \subseteq S

Heights == 1 .. Cardinality(visited)
Ranks ==
    [Policy!Configs(examined) -> 1 .. Cardinality(Policy!Configs(examined))]

Orders(rank) ==
    \A e \in Policy!Leads(examined) : rank[e[1]] < rank[e[2]]

(* What is visited has no cycle, and on the branch every order goes down. *)
OrderFits ==
    /\ \E height \in [visited -> Heights] :
          \A f \in visited : \A g \in Sub(f) : height[g] < height[f]
    /\ \A rank \in Ranks : Orders(rank) =>
          \A i, k \in DOMAIN branch :
             i < k => rank[branch[i].file] < rank[branch[k].file]

(* The tools of all files that are read as agents are declared and         *)
(* approved, those too that the probe leaves out.                          *)
ToolsFit ==
    \A f \in Policy!Agents(examined) :
        examined.agents[f].tools
        \subseteq Policy!ToSet(examined.policy.fqns) \cap Policy!ApprovedFqns

VisitInv ==
    /\ BranchFits /\ FollowedFit /\ HangingFits /\ OrderFits
    /\ ToolsFit /\ Policy!NamesApart(examined)
    /\ Policy!Root \in Policy!Configs(examined)

PolicyInv ==
    /\ verdict # "none" => examined \in Submitted
    /\ verdict = "none" => branch = <<>> /\ visited = {}
    /\ verdict = "visiting" => VisitInv
    /\ verdict = "accepted" => Policy!Composable(examined) /\ ToolsFit
    /\ verdict = "isolated_contract" => ~Policy!Composable(examined)
-----------------------------------------------------------------------------
(* The steps *)

(* Every reference has a place inside its directory that is an agent. *)
Placed(draft) ==
    \A f \in Policy!Configs(draft) : \A r \in draft.agents[f].refs :
        /\ Policy!Inside(f, r.path)
        /\ \E e \in Policy!Leads(draft) :
              e[1] = f
              /\ Policy!AppRoot \o e[2] = Policy!Resolved(f, r.path)

(* The targets of the references are the graph that ADK composes. *)
LEMMA GraphIs ==
    ASSUME examined \in Submitted
    PROVE  LET agents == Policy!Configs(examined) IN
           /\ IsFiniteSet(agents) /\ <<>> \notin agents
           /\ \A f \in agents :
                 /\ Sub(f) \subseteq agents \cup {<<>>}
                 /\ \A g \in Sub(f) :
                       g # <<>> => <<f, g>> \in Policy!Leads(examined)
                 /\ <<>> \notin Sub(f) =>
                       \A e \in Policy!Leads(examined) :
                          e[1] = f => e[2] \in Sub(f)
           /\ \A e \in Policy!Leads(examined) :
                 e[1] \in agents /\ e[2] \in agents /\ e = <<e[1], e[2]>>
           /\ Placed(examined) <=> \A f \in agents : <<>> \notin Sub(f)
<1> DEFINE agents == Policy!Configs(examined)
           leads == Policy!Leads(examined)
           refs(f) == examined.agents[f].refs
           to(f, r) == Policy!Target(examined, f, r.path)
           pos(f, r) == Policy!Resolved(f, r.path)
<1>1. IsDraft(examined)
  BY DraftsAre
<1>2. IsFiniteSet(agents) /\ <<>> \notin agents
  <2>1. agents \subseteq examined.files /\ <<>> \notin examined.files
    BY <1>1 DEF IsDraft, Policy!Agents, Policy!Configs
  <2> QED
    BY <1>1, <2>1, FS_Subset DEF IsDraft
<1>3. ASSUME NEW f \in agents, NEW r \in refs(f)
      PROVE  /\ to(f, r) # <<>> =>
                   /\ to(f, r) \in agents
                   /\ pos(f, r) = Policy!AppRoot \o to(f, r)
                   /\ Policy!Inside(f, r.path)
             /\ \A g \in agents :
                   pos(f, r) = Policy!AppRoot \o g /\ Policy!Inside(f, r.path)
                   => to(f, r) = g
  <2>1. r.path \in Seq(Parts)
    BY <1>1 DEF IsDraft, agents, refs, Policy!Configs
  <2> QED
    BY <1>1, <2>1, TargetIsLed, Zenon
<1>4. \A e : e \in leads <=>
          /\ e \in agents \X agents
          /\ \E r \in refs(e[1]) : Policy!AppRoot \o e[2] = pos(e[1], r)
  BY Zenon DEF Policy!Leads
<1>5. \A f, g : g \in Sub(f) <=> \E r \in refs(f) : g = to(f, r)
  BY Zenon DEF Sub
<1>6. Placed(examined) <=>
          \A f \in agents : \A r \in refs(f) :
             /\ Policy!Inside(f, r.path)
             /\ \E e \in leads :
                   e[1] = f /\ Policy!AppRoot \o e[2] = pos(f, r)
  BY Zenon DEF Placed
<1> HIDE DEF agents, leads, refs, to, pos
<1>7. ASSUME NEW f \in agents
      PROVE  Sub(f) \subseteq agents \cup {<<>>}
  BY <1>3, <1>5
<1>8. ASSUME NEW f \in agents, NEW g \in Sub(f), g # <<>>
      PROVE  <<f, g>> \in leads
  <2>1. PICK r \in refs(f) : g = to(f, r)
    BY <1>5
  <2>2. g \in agents /\ pos(f, r) = Policy!AppRoot \o g
    BY <1>3, <1>8, <2>1
  <2> QED
    BY <1>4, <2>2
<1>9. ASSUME NEW f \in agents, <<>> \notin Sub(f), NEW e \in leads, e[1] = f
      PROVE  e[2] \in Sub(f)
  <2>1. PICK r \in refs(f) : Policy!AppRoot \o e[2] = pos(f, r)
    BY <1>4, <1>9
  <2>2. to(f, r) # <<>>
    BY <1>5, <1>9
  <2>3. to(f, r) = e[2]
    BY <1>3, <1>4, <1>9, <2>1, <2>2
  <2> QED
    BY <1>5, <2>3
<1>10. ASSUME NEW e \in leads
       PROVE  e[1] \in agents /\ e[2] \in agents /\ e = <<e[1], e[2]>>
  BY <1>4
<1>11. ASSUME Placed(examined), NEW f \in agents, <<>> \in Sub(f)
       PROVE  FALSE
  <2>1. PICK r \in refs(f) : to(f, r) = <<>>
    BY <1>5, <1>11
  <2>2. PICK e \in leads :
            e[1] = f /\ Policy!AppRoot \o e[2] = pos(f, r)
    BY <1>6, <1>11
  <2>3. Policy!Inside(f, r.path)
    BY <1>6, <1>11
  <2>4. to(f, r) = e[2] /\ e[2] \in agents
    BY <1>3, <1>10, <2>2, <2>3
  <2> QED
    BY <1>2, <2>1, <2>4
<1>12. ASSUME \A f \in agents : <<>> \notin Sub(f)
       PROVE  Placed(examined)
  <2>1. ASSUME NEW f \in agents, NEW r \in refs(f)
        PROVE  /\ Policy!Inside(f, r.path)
               /\ \E e \in leads :
                     e[1] = f /\ Policy!AppRoot \o e[2] = pos(f, r)
    <3>1. to(f, r) # <<>> /\ to(f, r) \in Sub(f)
      BY <1>5, <1>12
    <3>2. <<f, to(f, r)>> \in leads
      BY <1>8, <3>1
    <3> DEFINE e == <<f, to(f, r)>>
    <3>3. e \in leads /\ e[1] = f /\ e[2] = to(f, r)
      BY <3>2
    <3> QED
      BY <1>3, <3>1, <3>3
  <2> QED
    BY <1>6, <2>1
<1>13. Placed(examined) <=> \A f \in agents : <<>> \notin Sub(f)
  BY <1>11, <1>12
<1> QED
  BY <1>2, <1>7, <1>8, <1>9, <1>10, <1>13 DEF agents, leads

(* One reference less to follow changes the innermost call only. *)
LEMMA RestIs ==
    ASSUME BranchFits, NEW r \in Policy!References
    PROVE  LET n == Len(branch)
               rest == Policy!Rest(r)
           IN  /\ n \in Nat \ {0}
               /\ rest \in Seq(Calls) /\ Len(rest) = n
               /\ \A i \in 1 .. n :
                     /\ rest[i].file = branch[i].file
                     /\ rest[i].refs \subseteq branch[i].refs
               /\ \A i \in 1 .. n : i # n => rest[i] = branch[i]
               /\ Followed(rest[n])
                  \subseteq Followed(branch[n]) \cup {Policy!Reached(r)}
               /\ Policy!Reached(r) \in Sub(branch[n].file)
               /\ branch[n].file \in Policy!Configs(examined)
<1> DEFINE n == Len(branch)
           rest == Policy!Rest(r)
           less == [branch[n] EXCEPT !.refs = @ \ {r}]
<1>1. branch # <<>> /\ branch \in Seq(Calls) /\ r \in branch[n].refs
  BY DEF Policy!References, Policy!Last, BranchFits
<1>2. n \in Nat \ {0}
  BY <1>1
<1>3. branch[n] \in Calls
  BY <1>1, <1>2
<1>4. /\ less \in Calls /\ less.file = branch[n].file
      /\ less.refs = branch[n].refs \ {r}
  BY <1>3 DEF Calls
<1>5. rest = [branch EXCEPT ![n] = less]
  BY DEF Policy!Rest
<1> HIDE DEF less, rest
<1>6. rest \in Seq(Calls) /\ Len(rest) = n
  BY <1>1, <1>2, <1>4, <1>5
<1>7. rest[n] = less /\ \A i \in 1 .. n : i # n => rest[i] = branch[i]
  BY <1>1, <1>2, <1>5
<1>8. r \in examined.agents[branch[n].file].refs
  BY <1>1, <1>2 DEF BranchFits
<1>9. Policy!Reached(r) = Policy!Target(examined, branch[n].file, r.path)
  BY DEF Policy!Reached, Policy!Last
<1>10. Followed(rest[n])
       \subseteq Followed(branch[n]) \cup {Policy!Reached(r)}
  <2> SUFFICES ASSUME NEW q \in examined.agents[branch[n].file].refs
                                \ (branch[n].refs \ {r})
               PROVE  Policy!Target(examined, branch[n].file, q.path)
                      \in Followed(branch[n]) \cup {Policy!Reached(r)}
    BY <1>4, <1>7 DEF Followed
  <2>1. CASE q = r
    BY <1>9, <2>1
  <2>2. CASE q # r
    BY <2>2 DEF Followed
  <2> QED
    BY <2>1, <2>2
<1>11. Policy!Reached(r) \in Sub(branch[n].file)
  BY <1>8, <1>9 DEF Sub
<1>12. branch[n].file \in Policy!Configs(examined)
  BY <1>3 DEF Calls
<1>13. \A i \in 1 .. n : /\ rest[i].file = branch[i].file
                         /\ rest[i].refs \subseteq branch[i].refs
  BY <1>4, <1>7
<1> QED
  BY <1>2, <1>6, <1>7, <1>10, <1>11, <1>12, <1>13 DEF rest

(* What is said of the draft only stays as it is. *)
LEMMA SameDraft ==
    ASSUME examined' = examined
    PROVE  /\ Calls' = Calls
           /\ \A f : Sub(f)' = Sub(f)
           /\ \A frame : Followed(frame)' = Followed(frame)
           /\ \A S : Closed(S)' <=> Closed(S)
           /\ Ranks' = Ranks
           /\ \A rank : Orders(rank)' <=> Orders(rank)
           /\ ToolsFit' <=> ToolsFit
           /\ Policy!NamesApart(examined)' <=> Policy!NamesApart(examined)
           /\ Policy!Configs(examined)' = Policy!Configs(examined)
<1> QED
  BY DEF Calls, Sub, Followed, Closed, Ranks, Orders, ToolsFit

(* What was visited before is not visited again. *)
LEMMA PassKeepsInv ==
    ASSUME examined \in Submitted, VisitInv,
           NEW r \in Policy!References, Policy!Pass(r)
    PROVE  VisitInv'
<1> DEFINE n == Len(branch)
           t == Policy!Reached(r)
<1>1. /\ branch' = Policy!Rest(r) /\ t \in visited
      /\ examined' = examined /\ visited' = visited
  BY DEF Policy!Pass
<1>2. BranchFits /\ FollowedFit /\ HangingFits /\ OrderFits
  BY DEF VisitInv
<1>3. /\ n \in Nat \ {0}
      /\ branch' \in Seq(Calls) /\ Len(branch') = n
      /\ \A i \in 1 .. n : /\ branch'[i].file = branch[i].file
                           /\ branch'[i].refs \subseteq branch[i].refs
      /\ \A i \in 1 .. n : i # n => branch'[i] = branch[i]
      /\ Followed(branch'[n]) \subseteq Followed(branch[n]) \cup {t}
  BY <1>1, <1>2, RestIs
<1>4. DOMAIN branch = 1 .. n /\ DOMAIN branch' = 1 .. n
  BY <1>2, <1>3 DEF BranchFits
<1>5. BranchFits'
  <2>1. /\ (visited \subseteq Policy!Configs(examined))'
        /\ (branch \in Seq(Calls))'
    BY <1>1, <1>2, <1>3, SameDraft DEF BranchFits
  <2>2. \A i \in 1 .. n :
            /\ branch'[i].refs \subseteq examined.agents[branch'[i].file].refs
            /\ branch'[i].file \notin visited
    BY <1>2, <1>3, <1>4 DEF BranchFits
  <2>3. \A i, k \in 1 .. n : branch'[i].file = branch'[k].file => i = k
    BY <1>2, <1>3, <1>4 DEF BranchFits
  <2>4. branch' # <<>> /\ branch'[1].file = Policy!Root
    <3>1. branch # <<>> /\ branch' # <<>> /\ 1 \in 1 .. n
      <4>1. n >= 1 /\ Len(branch') # 0 /\ Len(branch) # 0
        BY <1>3
      <4>2. Len(<<>>) = 0
        OBVIOUS
      <4> QED
        BY <4>1, <4>2
    <3> QED
      BY <1>2, <1>3, <3>1 DEF BranchFits
  <2> QED
    BY <1>1, <1>4, <2>1, <2>2, <2>3, <2>4, Zenon DEF BranchFits
<1>6. FollowedFit'
  <2>1. ASSUME NEW i \in 1 .. n, NEW g \in Followed(branch'[i])
        PROVE  g \in visited \/ (i < n /\ g = branch'[i + 1].file)
    <3>1. i < n => i + 1 \in 1 .. n
      BY <1>3
    <3>2. g \in Followed(branch[i]) \cup {t}
      BY <1>3, <2>1
    <3> QED
      BY <1>1, <1>2, <1>3, <1>4, <3>1, <3>2 DEF FollowedFit
  <2>2. \A f \in visited : Sub(f) \subseteq visited
    BY <1>2 DEF FollowedFit
  <2>3. \A f : Sub(f)' = Sub(f)
    BY <1>1, SameDraft, Zenon
  <2>4. \A frame : Followed(frame)' = Followed(frame)
    BY <1>1, SameDraft, Zenon
  <2>5. (\A f \in visited : Sub(f) \subseteq visited)'
    BY <1>1, <2>2, <2>3
  <2>6. (\A i \in DOMAIN branch : \A g \in Followed(branch[i]) :
            g \in visited \/ (i < Len(branch) /\ g = branch[i + 1].file))'
    BY <1>1, <1>3, <1>4, <2>1, <2>4
  <2> QED
    BY <2>5, <2>6, Zenon DEF FollowedFit
<1>7. Policy!Visiting' = Policy!Visiting
  BY <1>3, <1>4 DEF Policy!Visiting
<1>8. HangingFits'
  BY <1>1, <1>2, <1>7, SameDraft DEF HangingFits
<1>9. OrderFits'
  <2>1. (\E height \in [visited -> Heights] :
            \A f \in visited : \A g \in Sub(f) : height[g] < height[f])'
    <3>1. \A f : Sub(f)' = Sub(f)
      BY <1>1, SameDraft, Zenon
    <3>2. PICK height \in [visited -> Heights] :
              \A f \in visited : \A g \in Sub(f) : height[g] < height[f]
      BY <1>2 DEF OrderFits
    <3>3. Heights' = Heights
      BY <1>1 DEF Heights
    <3> QED
      BY <1>1, <3>1, <3>2, <3>3
  <2>2. ASSUME NEW rank \in Ranks, Orders(rank),
               NEW i \in 1 .. n, NEW k \in 1 .. n, i < k
        PROVE  rank[branch'[i].file] < rank[branch'[k].file]
    BY <1>2, <1>3, <1>4, <2>2 DEF OrderFits
  <2>3. (\A rank \in Ranks : Orders(rank) =>
            \A i, k \in DOMAIN branch :
               i < k => rank[branch[i].file] < rank[branch[k].file])'
    BY <1>1, <1>4, <2>2, SameDraft
  <2> QED
    BY <2>1, <2>3, Zenon DEF OrderFits
<1> QED
  BY <1>1, <1>5, <1>6, <1>8, <1>9, SameDraft DEF VisitInv

(* A call more: its agent hangs from the branch, and is in none of it. *)
LEMMA DescendKeepsInv ==
    ASSUME examined \in Submitted, VisitInv,
           NEW r \in Policy!References, Policy!Descend(r)
    PROVE  VisitInv'
<1> DEFINE n == Len(branch)
           t == Policy!Reached(r)
           top == branch[n].file
           more == Policy!Call(examined, t)
<1>1. /\ branch' = Append(Policy!Rest(r), more)
      /\ t # <<>> /\ t \notin Policy!Visiting /\ t \notin visited
      /\ examined' = examined /\ visited' = visited
  BY DEF Policy!Descend
<1>2. BranchFits /\ FollowedFit /\ HangingFits /\ OrderFits
  BY DEF VisitInv
<1>3. /\ n \in Nat \ {0} /\ top \in Policy!Configs(examined) /\ t \in Sub(top)
  BY <1>2, RestIs
<1>4. /\ t \in Policy!Configs(examined)
      /\ <<top, t>> \in Policy!Leads(examined)
  BY <1>1, <1>3, GraphIs
<1>5. /\ more \in Calls /\ more.file = t
      /\ more.refs = examined.agents[t].refs
  BY <1>4 DEF Policy!Call, Calls
<1>6. /\ branch' \in Seq(Calls) /\ Len(branch') = n + 1
      /\ \A i \in 1 .. n : /\ branch'[i].file = branch[i].file
                           /\ branch'[i].refs \subseteq branch[i].refs
      /\ \A i \in 1 .. n : i # n => branch'[i] = branch[i]
      /\ Followed(branch'[n]) \subseteq Followed(branch[n]) \cup {t}
      /\ branch'[n + 1] = more
  <2> DEFINE rest == Policy!Rest(r)
  <2>1. /\ rest \in Seq(Calls) /\ Len(rest) = n
        /\ \A i \in 1 .. n : /\ rest[i].file = branch[i].file
                             /\ rest[i].refs \subseteq branch[i].refs
        /\ \A i \in 1 .. n : i # n => rest[i] = branch[i]
        /\ Followed(rest[n]) \subseteq Followed(branch[n]) \cup {t}
    BY <1>2, RestIs
  <2> HIDE DEF rest, more
  <2>2. /\ branch' \in Seq(Calls) /\ Len(branch') = n + 1
        /\ branch'[n + 1] = more
        /\ \A i \in 1 .. n : branch'[i] = rest[i]
    BY <1>1, <1>3, <1>5, <2>1 DEF rest
  <2> QED
    BY <1>3, <2>1, <2>2
<1> HIDE DEF more
<1>7. /\ DOMAIN branch = 1 .. n /\ DOMAIN branch' = 1 .. n + 1
      /\ \A i \in 1 .. n + 1 : i \in 1 .. n \/ i = n + 1
      /\ \A i \in 1 .. n : i # n + 1 /\ i < n + 1
  BY <1>2, <1>3, <1>6 DEF BranchFits
<1>8. \A i \in 1 .. n : branch[i].file # t
  BY <1>1, <1>7 DEF Policy!Visiting
<1>9. branch'[n + 1].file = t
  BY <1>5, <1>6
<1>10. BranchFits'
  <2>1. /\ (visited \subseteq Policy!Configs(examined))'
        /\ (branch \in Seq(Calls))'
    BY <1>1, <1>2, <1>6, SameDraft DEF BranchFits
  <2>2. \A i \in 1 .. n + 1 :
            /\ branch'[i].refs \subseteq examined.agents[branch'[i].file].refs
            /\ branch'[i].file \notin visited
    <3>1. \A i \in 1 .. n :
              /\ branch'[i].refs
                 \subseteq examined.agents[branch'[i].file].refs
              /\ branch'[i].file \notin visited
      BY <1>2, <1>6, <1>7 DEF BranchFits
    <3>2. /\ branch'[n + 1].refs
             \subseteq examined.agents[branch'[n + 1].file].refs
          /\ branch'[n + 1].file \notin visited
      BY <1>1, <1>5, <1>6
    <3> QED
      BY <1>7, <3>1, <3>2
  <2>3. \A i, k \in 1 .. n + 1 : branch'[i].file = branch'[k].file => i = k
    <3>1. \A i, k \in 1 .. n : branch'[i].file = branch'[k].file => i = k
      BY <1>2, <1>6, <1>7 DEF BranchFits
    <3>2. \A i \in 1 .. n : branch'[i].file # branch'[n + 1].file
      BY <1>6, <1>8, <1>9
    <3> QED
      BY <1>7, <3>1, <3>2
  <2>4. branch' # <<>> /\ branch'[1].file = Policy!Root
    <3>1. branch # <<>> /\ branch' # <<>> /\ 1 \in 1 .. n
      <4>1. n >= 1 /\ Len(branch') # 0 /\ Len(branch) # 0
        BY <1>3, <1>6
      <4>2. Len(<<>>) = 0
        OBVIOUS
      <4> QED
        BY <4>1, <4>2
    <3> QED
      BY <1>2, <1>6, <3>1 DEF BranchFits
  <2> QED
    BY <1>1, <1>7, <2>1, <2>2, <2>3, <2>4, Zenon DEF BranchFits
<1>11. FollowedFit'
  <2>1. ASSUME NEW i \in 1 .. n + 1, NEW g \in Followed(branch'[i])
        PROVE  g \in visited \/ (i < n + 1 /\ g = branch'[i + 1].file)
    <3>1. CASE i = n + 1
      <4>1. Followed(branch'[i]) = {}
        BY <1>5, <1>6, <3>1 DEF Followed
      <4> QED
        BY <2>1, <4>1
    <3>2. CASE i = n
      <4>1. g \in Followed(branch[n]) \cup {t}
        BY <1>6, <2>1, <3>2
      <4>2. \A h \in Followed(branch[n]) : h \in visited
        BY <1>2, <1>3, <1>7 DEF FollowedFit
      <4> QED
        BY <1>3, <1>9, <3>2, <4>1, <4>2
    <3>3. CASE i \in 1 .. n /\ i # n
      <4>1. /\ branch'[i] = branch[i] /\ i + 1 \in 1 .. n
            /\ branch'[i + 1].file = branch[i + 1].file
        BY <1>3, <1>6, <3>3
      <4> QED
        BY <1>2, <1>7, <2>1, <3>3, <4>1 DEF FollowedFit
    <3> QED
      BY <1>7, <3>1, <3>2, <3>3
  <2>2. \A f \in visited : Sub(f) \subseteq visited
    BY <1>2 DEF FollowedFit
  <2>3. \A f : Sub(f)' = Sub(f)
    BY <1>1, SameDraft, Zenon
  <2>4. \A frame : Followed(frame)' = Followed(frame)
    BY <1>1, SameDraft, Zenon
  <2>5. (\A f \in visited : Sub(f) \subseteq visited)'
    BY <1>1, <2>2, <2>3
  <2>6. (\A i \in DOMAIN branch : \A g \in Followed(branch[i]) :
            g \in visited \/ (i < Len(branch) /\ g = branch[i + 1].file))'
    BY <1>1, <1>6, <1>7, <2>1, <2>4
  <2> QED
    BY <2>5, <2>6, Zenon DEF FollowedFit
<1>12. HangingFits'
  <2>1. Policy!Visiting' \subseteq Policy!Visiting \cup {t}
    BY <1>6, <1>7, <1>9 DEF Policy!Visiting
  <2>2. top \in Policy!Visiting
    BY <1>3, <1>7 DEF Policy!Visiting
  <2>3. ASSUME NEW S \in SUBSET Policy!Configs(examined),
               Policy!Root \in S, Closed(S)
        PROVE  visited \cup Policy!Visiting' \subseteq S
    <3>1. visited \cup Policy!Visiting \subseteq S
      BY <1>2, <2>3 DEF HangingFits
    <3> DEFINE e == <<top, t>>
    <3>2. e[1] = top /\ e[2] = t
      OBVIOUS
    <3>3. t \in S
      BY <1>4, <2>2, <2>3, <3>1, <3>2 DEF Closed
    <3> QED
      BY <2>1, <3>1, <3>3
  <2> QED
    BY <1>1, <2>3, SameDraft DEF HangingFits
<1>13. OrderFits'
  <2>1. (\E height \in [visited -> Heights] :
            \A f \in visited : \A g \in Sub(f) : height[g] < height[f])'
    <3>1. \A f : Sub(f)' = Sub(f)
      BY <1>1, SameDraft, Zenon
    <3>2. PICK height \in [visited -> Heights] :
              \A f \in visited : \A g \in Sub(f) : height[g] < height[f]
      BY <1>2 DEF OrderFits
    <3>3. Heights' = Heights
      BY <1>1 DEF Heights
    <3> QED
      BY <1>1, <3>1, <3>2, <3>3
  <2>2. ASSUME NEW rank \in Ranks, Orders(rank),
               NEW i \in 1 .. n + 1, NEW k \in 1 .. n + 1, i < k
        PROVE  rank[branch'[i].file] < rank[branch'[k].file]
    <3>1. i \in 1 .. n
      BY <1>3, <2>2
    <3>2. CASE k \in 1 .. n
      BY <1>2, <1>6, <1>7, <2>2, <3>1, <3>2 DEF OrderFits
    <3>3. CASE k = n + 1
      <4>1. \A f \in Policy!Configs(examined) : rank[f] \in Int
        <5>1. IsFiniteSet(Policy!Configs(examined))
          BY GraphIs
        <5>2. Cardinality(Policy!Configs(examined)) \in Nat
          BY <5>1, FS_CardinalityType
        <5> QED
          BY <2>2, <5>2 DEF Ranks
      <4> DEFINE e == <<top, t>>
      <4>2. e[1] = top /\ e[2] = t
        OBVIOUS
      <4>3. rank[top] < rank[t]
        BY <1>4, <2>2, <4>2 DEF Orders
      <4>4. rank[branch[i].file] < rank[top] \/ i = n
        <5>1. n \in 1 .. n /\ (i < n \/ i = n)
          BY <1>3, <3>1
        <5>2. i < n => rank[branch[i].file] < rank[branch[n].file]
          BY <1>2, <1>7, <2>2, <3>1, <5>1 DEF OrderFits
        <5> QED
          BY <5>1, <5>2
      <4>5. branch[i].file \in Policy!Configs(examined)
        <5>1. branch[i] \in Calls
          BY <1>2, <1>7, <3>1 DEF BranchFits
        <5> QED
          BY <5>1 DEF Calls
      <4> HIDE DEF top
      <4>6. rank[branch[i].file] < rank[t]
        BY <1>3, <1>4, <4>1, <4>3, <4>4, <4>5 DEF top
      <4> QED
        BY <1>6, <1>9, <3>1, <3>3, <4>6
    <3> QED
      BY <1>7, <3>2, <3>3
  <2>3. (\A rank \in Ranks : Orders(rank) =>
            \A i, k \in DOMAIN branch :
               i < k => rank[branch[i].file] < rank[branch[k].file])'
    BY <1>1, <1>7, <2>2, SameDraft
  <2> QED
    BY <2>1, <2>3, Zenon DEF OrderFits
<1> QED
  BY <1>1, <1>2, <1>10, <1>11, <1>12, <1>13, SameDraft DEF VisitInv

(* A call less: all that its agent refers to is visited, and below it. *)
LEMMA ReturnKeepsInv ==
    ASSUME examined \in Submitted, VisitInv, Policy!Return
    PROVE  VisitInv'
<1> DEFINE n == Len(branch)
           top == branch[n].file
           agents == Policy!Configs(examined)
<1>1. /\ branch # <<>> /\ branch[n].refs = {}
      /\ branch' = Policy!Front(branch)
      /\ visited' = visited \cup {top} /\ examined' = examined
  BY DEF Policy!Return, Policy!References, Policy!Last
<1>2. BranchFits /\ FollowedFit /\ HangingFits /\ OrderFits
  BY DEF VisitInv
<1>3. n \in Nat \ {0} /\ branch \in Seq(Calls)
  BY <1>1, <1>2 DEF BranchFits
<1>4. /\ branch' \in Seq(Calls) /\ Len(branch') = n - 1
      /\ \A i \in 1 .. n - 1 : branch'[i] = branch[i]
  BY <1>1, <1>3, FrontIs
<1>5. /\ DOMAIN branch = 1 .. n /\ DOMAIN branch' = 1 .. n - 1
      /\ \A i \in 1 .. n - 1 : i \in 1 .. n /\ i # n
      /\ n \in 1 .. n
  BY <1>3, <1>4
<1>6. branch[n] \in Calls /\ top \in agents /\ top \notin visited
  <2>1. branch[n] \in Calls
    BY <1>3
  <2> QED
    BY <1>2, <1>5, <2>1 DEF BranchFits, Calls
<1>7. Sub(top) \subseteq visited
  <2>1. Sub(top) = Followed(branch[n])
    BY <1>1 DEF Sub, Followed
  <2>2. \A g \in Followed(branch[n]) : g \in visited \/ n < Len(branch)
    BY <1>2, <1>5 DEF FollowedFit
  <2> QED
    BY <1>3, <2>1, <2>2
<1>8. \A i \in 1 .. n - 1 : branch[i].file # top
  BY <1>2, <1>5 DEF BranchFits
<1> HIDE DEF top, agents
<1>9. BranchFits'
  <2>1. /\ (visited \subseteq Policy!Configs(examined))'
        /\ (branch \in Seq(Calls))'
    <3>1. visited \subseteq agents
      BY <1>2 DEF BranchFits, agents
    <3>2. visited' \subseteq agents
      BY <1>1, <1>6, <3>1
    <3> QED
      BY <1>1, <1>4, <3>2, SameDraft DEF agents
  <2>2. \A i \in 1 .. n - 1 :
            /\ branch'[i].refs \subseteq examined.agents[branch'[i].file].refs
            /\ branch'[i].file \notin visited'
    BY <1>1, <1>2, <1>4, <1>5, <1>8 DEF BranchFits
  <2>3. \A i, k \in 1 .. n - 1 : branch'[i].file = branch'[k].file => i = k
    BY <1>2, <1>4, <1>5 DEF BranchFits
  <2>4. branch[1].file = Policy!Root
    BY <1>1, <1>2 DEF BranchFits
  <2>5. ASSUME branch' = <<>> PROVE Policy!Root \in visited'
    <3>1. Len(branch') = 0
      BY <2>5
    <3>2. n = 1
      BY <1>3, <1>4, <3>1
    <3> QED
      BY <1>1, <2>4, <3>2 DEF top
  <2>6. ASSUME branch' # <<>> PROVE branch'[1].file = Policy!Root
    <3>1. 1 \in 1 .. n - 1
      BY <1>3, <1>4, <2>6
    <3> QED
      BY <1>4, <2>4, <3>1
  <2> QED
    BY <1>1, <1>5, <2>1, <2>2, <2>3, <2>5, <2>6, Zenon DEF BranchFits
<1>10. FollowedFit'
  <2>1. ASSUME NEW i \in 1 .. n - 1, NEW g \in Followed(branch'[i])
        PROVE  g \in visited' \/ (i < n - 1 /\ g = branch'[i + 1].file)
    <3>1. branch'[i] = branch[i] /\ i < n /\ i + 1 \in 1 .. n
      BY <1>3, <1>4
    <3>2. g \in visited \/ g = branch[i + 1].file
      BY <1>2, <1>5, <2>1, <3>1 DEF FollowedFit
    <3>3. CASE i + 1 = n
      BY <1>1, <3>2, <3>3 DEF top
    <3>4. CASE i + 1 # n
      <4>1. i < n - 1 /\ i + 1 \in 1 .. n - 1
        BY <1>3, <3>4
      <4> QED
        BY <1>1, <1>4, <3>2, <4>1
    <3> QED
      BY <3>3, <3>4
  <2>2. \A f \in visited' : Sub(f) \subseteq visited'
    BY <1>1, <1>2, <1>7 DEF FollowedFit
  <2>3. \A f : Sub(f)' = Sub(f)
    BY <1>1, SameDraft, Zenon
  <2>4. \A frame : Followed(frame)' = Followed(frame)
    BY <1>1, SameDraft, Zenon
  <2>5. (\A f \in visited : Sub(f) \subseteq visited)'
    BY <2>2, <2>3
  <2>6. (\A i \in DOMAIN branch : \A g \in Followed(branch[i]) :
            g \in visited \/ (i < Len(branch) /\ g = branch[i + 1].file))'
    BY <1>4, <1>5, <2>1, <2>4
  <2> QED
    BY <2>5, <2>6, Zenon DEF FollowedFit
<1>11. HangingFits'
  <2>1. visited' \cup Policy!Visiting' \subseteq visited \cup Policy!Visiting
    BY <1>1, <1>4, <1>5 DEF Policy!Visiting, top
  <2> QED
    BY <1>1, <1>2, <2>1, SameDraft DEF HangingFits
<1>12. OrderFits'
  <2>1. /\ Cardinality(visited) \in Nat
        /\ Cardinality(visited') = Cardinality(visited) + 1
    <3>1. IsFiniteSet(visited)
      BY <1>2, GraphIs, FS_Subset DEF BranchFits
    <3> QED
      BY <1>1, <1>6, <3>1, FS_AddElement, FS_CardinalityType
  <2>2. (\E height \in [visited -> Heights] :
            \A f \in visited : \A g \in Sub(f) : height[g] < height[f])'
    <3>1. \A f : Sub(f)' = Sub(f)
      BY <1>1, SameDraft, Zenon
    <3>2. PICK height \in [visited -> Heights] :
              \A f \in visited : \A g \in Sub(f) : height[g] < height[f]
      BY <1>2 DEF OrderFits
    <3> DEFINE size == Cardinality(visited)
               higher ==
                   [f \in visited' |-> IF f = top THEN size + 1 ELSE height[f]]
    <3>3. /\ size \in Nat /\ Heights = 1 .. size /\ Heights' = 1 .. (size + 1)
      BY <2>1 DEF Heights
    <3> HIDE DEF size
    <3>4. higher \in [visited' -> Heights']
      BY <1>1, <3>2, <3>3
    <3>5. ASSUME NEW f \in visited', NEW g \in Sub(f)
          PROVE  higher[g] < higher[f]
      <4>1. g \in visited
        BY <1>1, <1>2, <1>7, <3>5 DEF FollowedFit
      <4>2. g # top /\ g \in visited'
        BY <1>1, <1>6, <4>1
      <4>3. higher[g] = height[g] /\ height[g] \in 1 .. size
        BY <3>2, <3>3, <4>1, <4>2
      <4>4. CASE f = top
        BY <3>3, <4>3, <4>4
      <4>5. CASE f # top
        BY <1>1, <3>2, <3>5, <4>3, <4>5
      <4> QED
        BY <4>4, <4>5
    <3> HIDE DEF higher
    <3> QED
      BY <3>1, <3>4, <3>5
  <2>3. ASSUME NEW rank \in Ranks, Orders(rank),
               NEW i \in 1 .. n - 1, NEW k \in 1 .. n - 1, i < k
        PROVE  rank[branch'[i].file] < rank[branch'[k].file]
    BY <1>2, <1>4, <1>5, <2>3 DEF OrderFits
  <2>4. (\A rank \in Ranks : Orders(rank) =>
            \A i, k \in DOMAIN branch :
               i < k => rank[branch[i].file] < rank[branch[k].file])'
    BY <1>1, <1>5, <2>3, SameDraft
  <2> QED
    BY <2>2, <2>4, Zenon DEF OrderFits
<1> QED
  BY <1>1, <1>9, <1>10, <1>11, <1>12, SameDraft DEF VisitInv

(* The instance's copy of the operator is the operator. *)
LEMMA SameCardinality == \A S : Policy!Cardinality(S) = Cardinality(S)
  BY DEF Policy!Cardinality, Cardinality

(* What the visit refuses is no tree of agents. *)
LEMMA RefusedIsNone ==
    ASSUME examined \in Submitted, VisitInv,
           NEW r \in Policy!References, Policy!Refuse(r)
    PROVE  ~Policy!Composable(examined)
<1> DEFINE n == Len(branch)
           t == Policy!Reached(r)
           top == branch[n].file
<1>1. t = <<>> \/ t \in Policy!Visiting
  BY DEF Policy!Refuse
<1>2. BranchFits /\ OrderFits
  BY DEF VisitInv
<1>3. n \in Nat \ {0} /\ t \in Sub(top) /\ top \in Policy!Configs(examined)
  BY <1>2, RestIs
<1> SUFFICES ASSUME Policy!Composable(examined) PROVE FALSE
  OBVIOUS
<1>4. Placed(examined)
  BY DEF Policy!Composable, Placed
<1>5. t # <<>>
  BY <1>3, <1>4, GraphIs
<1>6. PICK k \in DOMAIN branch : branch[k].file = t
  BY <1>1, <1>5 DEF Policy!Visiting
<1>7. PICK rank \in Ranks : Orders(rank)
  BY SameCardinality DEF Policy!Composable, Policy!Acyclic, Ranks, Orders
<1>8. rank[top] < rank[t]
  <2> DEFINE e == <<top, t>>
  <2>1. e \in Policy!Leads(examined)
    BY <1>3, <1>5, GraphIs
  <2>2. e[1] = top /\ e[2] = t
    OBVIOUS
  <2> QED
    BY <1>7, <2>1, <2>2 DEF Orders
<1>9. k \in 1 .. n /\ n \in DOMAIN branch /\ DOMAIN branch = 1 .. n
  BY <1>2, <1>3, <1>6 DEF BranchFits
<1>10. rank[t] < rank[top] \/ t = top
  <2>1. k < n \/ k = n
    BY <1>3, <1>9
  <2> QED
    BY <1>2, <1>6, <1>7, <1>9, <2>1 DEF OrderFits
<1>11. t \in Policy!Configs(examined)
  BY <1>3, <1>5, GraphIs
<1>12. rank[t] \in Int /\ rank[top] \in Int
  <2>1. Cardinality(Policy!Configs(examined)) \in Nat
    BY GraphIs, FS_CardinalityType
  <2> QED
    BY <1>3, <1>7, <1>11, <2>1 DEF Ranks
<1> HIDE DEF t, top
<1> QED
  BY <1>8, <1>10, <1>12

(* A visit that is over has found whether the agents are one tree. *)
LEMMA ConcludedIsRight ==
    ASSUME examined \in Submitted, VisitInv, branch = <<>>
    PROVE  Policy!Composable(examined)
           <=> visited = Policy!Configs(examined)
<1> DEFINE agents == Policy!Configs(examined)
<1>1. BranchFits /\ FollowedFit /\ HangingFits /\ OrderFits
  BY DEF VisitInv
<1>2. Policy!Root \in visited /\ visited \subseteq agents
  BY <1>1 DEF BranchFits
<1>3. \A f \in visited : <<>> \notin Sub(f) /\ Sub(f) \subseteq visited
  BY <1>1, <1>2, GraphIs DEF FollowedFit
<1>4. ASSUME NEW e \in Policy!Leads(examined), e[1] \in visited
      PROVE  e[2] \in Sub(e[1])
  BY <1>2, <1>3, <1>4, GraphIs
<1>5. ASSUME Policy!Composable(examined)
      PROVE  visited = agents
  <2>1. Policy!Rooted(examined)
    BY <1>5 DEF Policy!Composable
  <2> QED
    BY <1>2, <1>3, <1>4, <2>1 DEF Policy!Rooted
<1>6. ASSUME visited = agents
      PROVE  Policy!Composable(examined)
  <2>1. Policy!Acyclic(examined)
    <3>1. PICK height \in [visited -> Heights] :
              \A f \in visited : \A g \in Sub(f) : height[g] < height[f]
      BY <1>1 DEF OrderFits
    <3> DEFINE size == Cardinality(visited)
               rank == [f \in agents |-> size + 1 - height[f]]
    <3>2. size \in Nat /\ Heights = 1 .. size
      BY <1>6, GraphIs, FS_CardinalityType DEF Heights
    <3> HIDE DEF size
    <3>3. \A f \in agents : height[f] \in 1 .. size
      BY <1>6, <3>1, <3>2
    <3>4. rank \in [agents -> 1 .. size]
      BY <3>2, <3>3
    <3>5. ASSUME NEW e \in Policy!Leads(examined)
          PROVE  rank[e[1]] < rank[e[2]]
      <4>1. e[1] \in agents /\ e[2] \in agents
        BY GraphIs
      <4>2. height[e[2]] < height[e[1]]
        BY <1>4, <1>6, <3>1, <4>1
      <4> QED
        BY <3>2, <3>3, <4>1, <4>2
    <3> HIDE DEF rank
    <3> QED
      BY <1>6, <3>4, <3>5, SameCardinality DEF Policy!Acyclic, size
  <2>2. Policy!Rooted(examined)
    BY <1>1, <1>6 DEF Policy!Rooted, HangingFits, Closed
  <2>3. Placed(examined)
    BY <1>3, <1>6, GraphIs
  <2>4. Policy!NamesApart(examined)
    BY DEF VisitInv
  <2> QED
    BY <2>1, <2>2, <2>3, <2>4 DEF Policy!Composable, Placed
<1> QED
  BY <1>5, <1>6

(* The visit starts from the root, with nothing followed. *)
LEMMA StartsFit ==
    ASSUME NEW draft \in Submitted, visited = {}, Policy!Examine(draft),
           verdict' = "visiting"
    PROVE  VisitInv'
<1> DEFINE home == Policy!Call(draft, Policy!Root)
<1>1. /\ examined' = draft /\ visited' = {} /\ branch' = <<home>>
      /\ Policy!Stage(draft) = "visiting"
  <2>1. verdict' \in Policy!Outcomes(draft)
    BY DEF Policy!Examine
  <2>2. Policy!Stage(draft) = "visiting"
    BY <2>1 DEF Policy!Outcomes
  <2> QED
    BY <2>2 DEF Policy!Examine
<1>2. /\ Policy!Preflight(draft) /\ Policy!CodeReferences(draft)
      /\ Policy!ProjectPolicy(draft) /\ Policy!NamesApart(draft)
  BY <1>1 DEF Policy!Stage
<1>3. Policy!Root \in Policy!Configs(draft)
  <2>1. Policy!Root \in draft.files /\ Policy!Root # Policy!PolicyFile
    BY <1>2 DEF Policy!Preflight, Policy!SafeNames, Policy!Root,
                Policy!PolicyFile
  <2>2. Policy!Last(Policy!Root) # Policy!Last(Policy!PolicyFile)
    BY DEF Policy!Last, Policy!Root, Policy!PolicyFile
  <2> QED
    BY <2>1, <2>2 DEF Policy!Agents, Policy!Configs
<1>4. /\ home.file = Policy!Root
      /\ home.refs = draft.agents[Policy!Root].refs
      /\ home \in Calls'
  BY <1>1, <1>3 DEF Policy!Call, Calls
<1> HIDE DEF home
<1>5. /\ DOMAIN branch' = {1} /\ branch'[1] = home /\ Len(branch') = 1
      /\ branch' # <<>> /\ branch' \in Seq(Calls')
  BY <1>1, <1>4
<1>6. BranchFits'
  BY <1>1, <1>4, <1>5 DEF BranchFits
<1>7. FollowedFit'
  <2>1. Followed(home)' = {}
    BY <1>1, <1>4 DEF Followed
  <2> QED
    BY <1>1, <1>5, <2>1 DEF FollowedFit
<1>8. HangingFits'
  <2>1. Policy!Visiting' = {Policy!Root}
    BY <1>4, <1>5 DEF Policy!Visiting
  <2> QED
    BY <1>1, <2>1 DEF HangingFits
<1>9. OrderFits'
  <2>1. [f \in {} |-> 0] \in [{} -> Heights']
    OBVIOUS
  <2>2. (\E height \in [visited -> Heights] :
            \A f \in visited : \A g \in Sub(f) : height[g] < height[f])'
    BY <1>1, <2>1
  <2>3. \A i, k \in DOMAIN branch' : ~(i < k)
    BY <1>5
  <2> QED
    BY <2>2, <2>3 DEF OrderFits
<1>10. ToolsFit'
  <2>1. ASSUME NEW f \in Policy!Agents(draft)
        PROVE  draft.agents[f].tools \subseteq Policy!Used(draft)
    BY DEF Policy!Used
  <2>2. Policy!Used(draft) \subseteq Policy!ApprovedFqns
    BY <1>2 DEF Policy!CodeReferences
  <2>3. Policy!ToSet(draft.policy.fqns) = Policy!Used(draft)
    BY <1>2 DEF Policy!ProjectPolicy
  <2>4. \A f \in Policy!Agents(draft) :
            draft.agents[f].tools
            \subseteq Policy!ToSet(draft.policy.fqns)
                      \cap Policy!ApprovedFqns
    BY <2>1, <2>2, <2>3, Zenon
  <2> QED
    BY <1>1, <2>4 DEF ToolsFit
<1> QED
  BY <1>1, <1>2, <1>3, <1>6, <1>7, <1>8, <1>9, <1>10 DEF VisitInv

(* What only the names refuse is no tree either; of what the probe refuses *)
(* for a class of ADK or for its time, nothing is said.                    *)
LEMMA ExamineKeepsInv ==
    ASSUME PolicyInv, verdict = "none", NEW draft \in Submitted,
           Policy!Examine(draft)
    PROVE  PolicyInv'
<1>1. /\ examined' = draft /\ verdict' \in Policy!Outcomes(draft)
      /\ visited = {}
  BY DEF Policy!Examine, PolicyInv
<1>2. verdict' \notin {"none", "accepted"}
  BY <1>1 DEF Policy!Outcomes, Policy!Stage
<1>3. verdict' = "visiting" => VisitInv'
  BY <1>1, StartsFit
<1>4. ASSUME verdict' = "isolated_contract"
      PROVE  ~Policy!Composable(draft)
  <2>1. Policy!Stage(draft) = "isolated_contract"
    BY <1>1, <1>4 DEF Policy!Outcomes
  <2> QED
    BY <2>1 DEF Policy!Stage, Policy!Composable
<1> QED
  BY <1>1, <1>2, <1>3, <1>4 DEF PolicyInv

(* Every step of the visit, one by one. *)
LEMMA VisitKeepsInv ==
    ASSUME PolicyInv, Policy!Visit
    PROVE  PolicyInv'
<1>1. verdict = "visiting" /\ VisitInv /\ examined \in Submitted
  BY DEF PolicyInv, Policy!Visit
<1>2. ASSUME VisitInv', UNCHANGED <<examined, verdict>>
      PROVE  PolicyInv'
  BY <1>1, <1>2 DEF PolicyInv
<1>3. ASSUME NEW r \in Policy!References, Policy!Refuse(r)
      PROVE  PolicyInv'
  <2>1. ~Policy!Composable(examined)
    BY <1>1, <1>3, RefusedIsNone
  <2>2. verdict' = "isolated_contract" /\ examined' = examined
    BY <1>3 DEF Policy!Refuse
  <2> QED
    BY <1>1, <2>1, <2>2 DEF PolicyInv
<1>4. ASSUME NEW r \in Policy!References, Policy!Pass(r)
      PROVE  PolicyInv'
  <2>1. UNCHANGED <<examined, verdict>>
    BY <1>4 DEF Policy!Pass
  <2> QED
    BY <1>1, <1>2, <1>4, <2>1, PassKeepsInv
<1>5. ASSUME NEW r \in Policy!References, Policy!Descend(r)
      PROVE  PolicyInv'
  <2>1. UNCHANGED <<examined, verdict>>
    BY <1>5 DEF Policy!Descend
  <2> QED
    BY <1>1, <1>2, <1>5, <2>1, DescendKeepsInv
<1>6. ASSUME Policy!Return
      PROVE  PolicyInv'
  <2>1. UNCHANGED <<examined, verdict>>
    BY <1>6 DEF Policy!Return
  <2> QED
    BY <1>1, <1>2, <1>6, <2>1, ReturnKeepsInv
<1>7. ASSUME Policy!Conclude
      PROVE  PolicyInv'
  <2>1. Policy!Composable(examined) <=> visited = Policy!Configs(examined)
    BY <1>1, <1>7, ConcludedIsRight DEF Policy!Conclude
  <2>2. examined' = examined
    BY <1>7 DEF Policy!Conclude
  <2>3. CASE visited = Policy!Configs(examined)
    <3>1. verdict' = "accepted"
      BY <1>7, <2>3 DEF Policy!Conclude
    <3>2. ToolsFit'
      BY <1>1, <2>2, SameDraft DEF VisitInv
    <3> QED
      BY <1>1, <2>1, <2>2, <2>3, <3>1, <3>2 DEF PolicyInv
  <2>4. CASE visited # Policy!Configs(examined)
    <3>1. verdict' = "isolated_contract"
      BY <1>7, <2>4 DEF Policy!Conclude
    <3> QED
      BY <1>1, <2>1, <2>2, <2>4, <3>1 DEF PolicyInv
  <2> QED
    BY <2>3, <2>4
<1>8. ASSUME Policy!TimeOut
      PROVE  PolicyInv'
  BY <1>1, <1>8 DEF PolicyInv, Policy!TimeOut
<1> QED
  BY <1>3, <1>4, <1>5, <1>6, <1>7, <1>8 DEF Policy!Visit

(* The invariant of the visit holds in every state of the policy's probe.  *)
LEMMA PolicyCorrect == Policy!PolicySpec => []PolicyInv
<1>1. Policy!PolicyInit => PolicyInv
  BY DEF Policy!PolicyInit, PolicyInv
<1>2. PolicyInv /\ [Policy!PolicyNext]_(Policy!policyVars) => PolicyInv'
  <2> SUFFICES ASSUME PolicyInv, [Policy!PolicyNext]_(Policy!policyVars)
               PROVE  PolicyInv'
    OBVIOUS
  <2>1. ASSUME verdict = "none", NEW draft \in Submitted,
               Policy!Examine(draft)
        PROVE  PolicyInv'
    BY <2>1, ExamineKeepsInv
  <2>2. CASE Policy!Visit
    BY <2>2, VisitKeepsInv
  <2>3. CASE UNCHANGED Policy!policyVars
    <3>1. UNCHANGED <<examined, verdict, branch, visited>>
      BY <2>3 DEF Policy!policyVars
    <3>2. VisitInv' <=> VisitInv
      BY <3>1 DEF VisitInv, BranchFits, FollowedFit, HangingFits, OrderFits,
                  Policy!Visiting, Sub, Followed, Calls, Closed, Heights,
                  Ranks, Orders, ToolsFit
    <3>3. ToolsFit' <=> ToolsFit
      BY <3>1, SameDraft
    <3> QED
      BY <3>1, <3>2, <3>3 DEF PolicyInv
  <2> QED
    BY <2>1, <2>2, <2>3 DEF Policy!PolicyNext
<1> QED
  BY <1>1, <1>2, PTL DEF Policy!PolicySpec

(* The policy is right about every draft: what it accepts is one tree of   *)
(* the agents that the isolated probe takes, and every tool of its files   *)
(* is approved; what the probe refuses for its graph is no such tree       *)
(* (WorkflowLab._validate, _validate_declarative_graph); and no path that  *)
(* the check of the text lets through leads out of its directory           *)
(* (_validate_config_path).                                                *)
THEOREM DraftsAreComposable ==
    Policy!PolicySpec => []AcceptsComposable
<1>1. PolicyInv => AcceptsComposable
  <2> SUFFICES ASSUME PolicyInv, verdict # "none"
               PROVE  Policy!AcceptsComposable
    BY DEF AcceptsComposable, Policy!AcceptsComposable
  <2>1. examined \in Submitted
    BY DEF PolicyInv
  <2>2. verdict = "accepted" =>
            /\ Policy!Composable(examined)
            /\ \A f \in Policy!Agents(examined) :
                  examined.agents[f].tools
                  \subseteq Policy!ToSet(examined.policy.fqns)
                            \cap Policy!ApprovedFqns
    BY DEF PolicyInv, ToolsFit
  <2>3. verdict = "isolated_contract" => ~Policy!Composable(examined)
    BY DEF PolicyInv
  <2>4. ASSUME NEW f \in Policy!Agents(examined),
               NEW r \in examined.agents[f].refs,
               Policy!SafeConfigPath(f, r.path)
        PROVE  Policy!Inside(f, r.path)
    <3>1. f \in Seq(Parts) \ {<<>>} /\ r.path \in Seq(Parts)
      BY <2>1, DraftsAre DEF IsDraft, Policy!Agents
    <3> QED
      BY <2>4, <3>1, TextIsInside
  <2> QED
    BY <2>2, <2>3, <2>4 DEF Policy!AcceptsComposable, Policy!Agents
<1> QED
  BY <1>1, PolicyCorrect, PTL

(* One reference less to follow, and as much seen. *)
LEMMA PassAdvances ==
    ASSUME BranchFits, NEW r \in Policy!References, Policy!Pass(r)
    PROVE  Policy!Advances
<1> DEFINE n == Len(branch)
           rest == Policy!Rest(r)
<1>1. branch' = rest /\ visited' = visited
  BY DEF Policy!Pass
<1>2. /\ n \in Nat \ {0} /\ rest \in Seq(Calls) /\ Len(rest) = n
      /\ \A i \in 1 .. n : rest[i].file = branch[i].file
  BY RestIs
<1>3. branch # <<>> /\ branch \in Seq(Calls) /\ r \in branch[n].refs
  BY DEF Policy!References, Policy!Last, BranchFits
<1>4. rest[n].refs = branch[n].refs \ {r}
  <2>1. rest = [branch EXCEPT ![n].refs = @ \ {r}]
    BY DEF Policy!Rest
  <2>2. branch[n] \in Calls /\ n \in 1 .. n
    BY <1>2, <1>3
  <2> QED
    BY <1>2, <1>3, <2>1, <2>2 DEF Calls
<1> HIDE DEF rest
<1>5. Policy!Seen' = Policy!Seen
  BY <1>1, <1>2, <1>3 DEF Policy!Seen, Policy!Visiting
<1>6. rest # <<>>
  BY <1>2
<1>7. /\ Policy!References = branch[n].refs
      /\ Policy!References' = branch[n].refs \ {r}
  BY <1>1, <1>2, <1>3, <1>4, <1>6 DEF Policy!References, Policy!Last
<1> QED
  BY <1>1, <1>2, <1>3, <1>5, <1>7 DEF Policy!Advances

(* An agent that was not seen before. *)
LEMMA DescendAdvances ==
    ASSUME BranchFits, NEW r \in Policy!References, Policy!Descend(r)
    PROVE  Policy!Advances
<1> DEFINE n == Len(branch)
           rest == Policy!Rest(r)
           t == Policy!Reached(r)
           more == Policy!Call(examined, t)
<1>1. /\ branch' = Append(rest, more) /\ visited' = visited
      /\ t \notin Policy!Seen /\ more.file = t
  BY DEF Policy!Descend, Policy!Seen, Policy!Call
<1>2. /\ n \in Nat \ {0} /\ rest \in Seq(Calls) /\ Len(rest) = n
      /\ \A i \in 1 .. n : rest[i].file = branch[i].file
  BY RestIs
<1> HIDE DEF rest, more, t
<1>3. /\ DOMAIN branch' = 1 .. n + 1 /\ DOMAIN branch = 1 .. n
      /\ branch'[n + 1] = more
      /\ \A i \in 1 .. n : branch'[i].file = branch[i].file
  BY <1>1, <1>2 DEF BranchFits
<1>4. Policy!Visiting \subseteq Policy!Visiting' /\ t \in Policy!Visiting'
  BY <1>1, <1>2, <1>3 DEF Policy!Visiting
<1> QED
  BY <1>1, <1>4 DEF Policy!Advances, Policy!Seen

(* One call less, and as much seen. *)
LEMMA ReturnAdvances ==
    ASSUME BranchFits, Policy!Return
    PROVE  Policy!Advances
<1> DEFINE n == Len(branch)
           top == branch[n].file
<1>1. /\ branch # <<>> /\ branch \in Seq(Calls)
      /\ branch' = Policy!Front(branch) /\ visited' = visited \cup {top}
  BY DEF Policy!Return, Policy!Last, BranchFits
<1>2. n \in Nat \ {0}
  BY <1>1
<1>3. /\ branch' \in Seq(Calls) /\ Len(branch') = n - 1
      /\ \A i \in 1 .. n - 1 : branch'[i] = branch[i]
  BY <1>1, <1>2, FrontIs
<1>4. /\ DOMAIN branch = 1 .. n /\ DOMAIN branch' = 1 .. n - 1
      /\ \A i \in 1 .. n : i = n \/ i \in 1 .. n - 1
      /\ \A i \in 1 .. n - 1 : i \in 1 .. n
      /\ n \in 1 .. n
  BY <1>1, <1>2, <1>3
<1>5. Policy!Visiting = Policy!Visiting' \cup {top}
  BY <1>3, <1>4 DEF Policy!Visiting
<1>6. Policy!Seen' = Policy!Seen
  BY <1>1, <1>5 DEF Policy!Seen
<1> QED
  BY <1>2, <1>3, <1>6 DEF Policy!Advances

(* The visit of a draft ends (_validate_declarative_graph.visit): it is    *)
(* never in more calls at once than the probe takes agents, and each of its  *)
(* steps sees an agent for the first time or, with as much seen, takes a   *)
(* call off or a reference off the innermost one.                          *)
THEOREM VisitsEnd ==
    Policy!PolicySpec => []Policy!VisitIsShallow /\ Policy!VisitAdvances
<1>1. ASSUME PolicyInv, verdict = "visiting"
      PROVE  Len(branch) <= Policy!Cardinality(Policy!Configs(examined))
  <2> DEFINE n == Len(branch)
             agents == Policy!Configs(examined)
             file == [i \in 1 .. n |-> branch[i].file]
  <2>1. examined \in Submitted /\ BranchFits
    BY <1>1 DEF PolicyInv, VisitInv
  <2>2. n \in Nat /\ DOMAIN branch = 1 .. n /\ branch \in Seq(Calls)
    BY <2>1 DEF BranchFits
  <2>3. IsFiniteSet(agents) /\ Cardinality(agents) \in Nat
    BY <2>1, GraphIs, FS_CardinalityType
  <2>4. IsFiniteSet(1 .. n) /\ Cardinality(1 .. n) = n
    BY <2>2, FS_Interval
  <2>5. file \in [1 .. n -> agents]
    <3>1. \A i \in 1 .. n : branch[i].file \in agents
      <4>1. \A i \in 1 .. n : branch[i] \in Calls
        BY <2>2
      <4> QED
        BY <4>1 DEF Calls
    <3> QED
      BY <3>1
  <2>6. \A i, k \in 1 .. n : file[i] = file[k] => i = k
    BY <2>1, <2>2 DEF BranchFits
  <2> HIDE DEF n, agents, file
  <2>7. n <= Cardinality(agents)
    BY <2>2, <2>3, <2>4, <2>5, <2>6, FS_PigeonHole
  <2> QED
    BY <2>7, SameCardinality DEF n, agents
<1>2. PolicyInv => Policy!VisitIsShallow
  BY <1>1 DEF Policy!VisitIsShallow
<1>3. ASSUME PolicyInv, Policy!PolicyNext,
             verdict = "visiting", verdict' = "visiting"
      PROVE  Policy!Advances
  <2>1. Policy!Visit /\ BranchFits
    BY <1>3 DEF Policy!PolicyNext, PolicyInv, VisitInv
  <2>2. \A r \in Policy!References : ~Policy!Refuse(r)
    BY <1>3 DEF Policy!Refuse
  <2>3. ~Policy!Conclude /\ ~Policy!TimeOut
    BY <1>3 DEF Policy!Conclude, Policy!TimeOut
  <2> QED
    BY <2>1, <2>2, <2>3, PassAdvances, DescendAdvances, ReturnAdvances
       DEF Policy!Visit
<1>4. PolicyInv /\ [Policy!PolicyNext]_(Policy!policyVars)
      => [verdict = "visiting" /\ verdict' = "visiting"
             => Policy!Advances]_(Policy!policyVars)
  BY <1>3
<1> QED
  BY <1>2, <1>4, PolicyCorrect, PTL
     DEF Policy!PolicySpec, Policy!VisitAdvances
=============================================================================
