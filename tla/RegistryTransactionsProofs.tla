--------------------- MODULE RegistryTransactionsProofs ---------------------
(***************************************************************************)
(* That the steps of a registry transaction implement RegistryLog, for any *)
(* number of processes, threads, readers, changes and crashes.             *)
(***************************************************************************)
EXTENDS RegistryTransactions, SequenceTheorems, TLAPS

-----------------------------------------------------------------------------
(* Sequences *)

LEMMA AppendHolds ==
    ASSUME NEW s \in Seq(Items), NEW x \in Items
    PROVE  /\ Append(s, x) \in Seq(Items)
           /\ Log!Holds(Append(s, x), x)
           /\ \A y : Log!Holds(s, y) => Log!Holds(Append(s, x), y)
<1>1. /\ Append(s, x) \in Seq(Items)
      /\ Len(Append(s, x)) = Len(s) + 1
      /\ Append(s, x)[Len(s) + 1] = x
      /\ \A i \in 1 .. Len(s) : Append(s, x)[i] = s[i]
      /\ Len(s) \in Nat
  OBVIOUS
<1>2. \A y : Log!Holds(s, y) => Log!Holds(Append(s, x), y)
  BY <1>1 DEF Log!Holds
<1>3. Log!Holds(Append(s, x), x)
  BY <1>1 DEF Log!Holds
<1> QED
  BY <1>1, <1>2, <1>3

LEMMA PrefixReflexive ==
    ASSUME NEW s \in Seq(Items)
    PROVE  IsPrefix(s, s)
<1>1. /\ SubSeq(s, 1, Len(s)) \in Seq(Items)
      /\ Len(SubSeq(s, 1, Len(s))) = Len(s)
      /\ \A i \in 1 .. Len(s) : SubSeq(s, 1, Len(s))[i] = s[i]
  OBVIOUS
<1> QED
  BY <1>1, SeqEqual DEF IsPrefix

LEMMA PrefixAppend ==
    ASSUME NEW s \in Seq(Items), NEW l \in Seq(Items), NEW x \in Items,
           IsPrefix(s, l)
    PROVE  IsPrefix(s, Append(l, x))
<1>1. Len(s) <= Len(l) /\ Len(s) \in Nat /\ Len(l) \in Nat
  BY DEF IsPrefix
<1>2. Append(l, x) \in Seq(Items) /\ Len(Append(l, x)) = Len(l) + 1
  OBVIOUS
<1>3. /\ SubSeq(Append(l, x), 1, Len(s)) \in Seq(Items)
      /\ Len(SubSeq(Append(l, x), 1, Len(s))) = Len(s)
      /\ \A i \in 1 .. Len(s) :
            SubSeq(Append(l, x), 1, Len(s))[i] = Append(l, x)[i]
  BY <1>1, <1>2
<1>4. /\ Len(SubSeq(l, 1, Len(s))) = Len(s)
      /\ \A i \in 1 .. Len(s) : SubSeq(l, 1, Len(s))[i] = l[i]
  BY <1>1
<1>5. \A i \in 1 .. Len(s) : Append(l, x)[i] = l[i]
  BY <1>1
<1>6. \A i \in 1 .. Len(s) : s[i] = l[i]
  BY <1>4 DEF IsPrefix
<1>7. SubSeq(Append(l, x), 1, Len(s)) = s
  BY <1>3, <1>5, <1>6, SeqEqual
<1> QED
  BY <1>1, <1>2, <1>7 DEF IsPrefix

-----------------------------------------------------------------------------
(* The inductive invariant *)

(* A thread between its first wait and its release knows its change. *)
Working ==
    \A t \in Threads : phase[t] \notin {"idle", "leaving"} => work[t] # None

(* Between LOCK_EX and LOCK_UN the flock is the thread's own. *)
Locked ==
    \A t \in Threads : phase[t] \in Inside => fileLock = t

(* What a thread has read is still the file when it replaces it.  This is  *)
(* what the lock is for, and it is inductive only together with Locked.    *)
Current ==
    \A t \in Threads :
        /\ phase[t] = "read" => mem[t] = file
        /\ phase[t] = "staged" => mem[t] = Append(file, work[t])

(* A change is in the file before its caller can be told so. *)
Written ==
    /\ \A t \in Threads :
          phase[t] \in {"replaced", "leaving"} /\ work[t] # None
          => Log!Holds(file, work[t])
    /\ \A x \in acked : Log!Holds(file, x)

(* Whatever a reader saw, the file extends it. *)
Extended == \A r \in Readers : IsPrefix(seen[r], file)

IInv == TypeOK /\ Working /\ Locked /\ Current /\ Written /\ Extended

LEMMA InitIInv == Init => IInv
<1> SUFFICES ASSUME Init PROVE IInv
  OBVIOUS
<1>1. TypeOK /\ Working /\ Locked /\ Current /\ Written
  BY BoundsAssumption, NoneAssumption
  DEF Init, TypeOK, Working, Locked, Current, Written, Phases, Outside,
      Inside
<1>2. Extended
  <2>1. <<>> \in Seq(Items)
    OBVIOUS
  <2> QED
    BY <2>1, PrefixReflexive DEF Init, Extended
<1> QED
  BY <1>1, <1>2 DEF IInv

(* The steps that leave the file, the answers and the readers alone. *)
LEMMA QuietStep ==
    ASSUME IInv, TypeOK', UNCHANGED <<file, acked, seen>>,
           \A t \in Threads :
              /\ phase'[t] \notin {"idle", "leaving"} => work'[t] # None
              /\ phase'[t] \in Inside => fileLock' = t
              /\ phase'[t] = "read" => mem'[t] = file
              /\ phase'[t] = "staged" => mem'[t] = Append(file, work'[t])
              /\ phase'[t] \in {"replaced", "leaving"} /\ work'[t] # None
                 => Log!Holds(file, work'[t])
    PROVE  IInv'
BY DEF IInv, Working, Locked, Current, Written, Extended

LEMMA StepIInv == IInv /\ [Next]_vars => IInv'
<1> SUFFICES ASSUME IInv, [Next]_vars PROVE IInv'
  OBVIOUS
<1> USE ThreadsAssumption, BoundsAssumption, NoneAssumption
    DEF Move, Phases, Outside, Inside, locks
<1>0. TypeOK /\ Working /\ Locked /\ Current /\ Written /\ Extended
  BY DEF IInv
<1>1. ASSUME NEW t \in Threads, NEW x \in Items, Begin(t, x) PROVE IInv'
  <2>1. TypeOK'
    BY <1>0, <1>1 DEF TypeOK, Begin
  <2> QED
    BY <1>0, <1>1, <2>1, QuietStep
    DEF TypeOK, Working, Locked, Current, Written, Begin
<1>2. ASSUME NEW t \in Threads, AcquireThreadLock(t) PROVE IInv'
  <2>1. TypeOK'
    BY <1>0, <1>2 DEF TypeOK, AcquireThreadLock
  <2> QED
    BY <1>0, <1>2, <2>1, QuietStep
    DEF TypeOK, Working, Locked, Current, Written, AcquireThreadLock
<1>3. ASSUME NEW t \in Threads, AcquireFileLock(t) PROVE IInv'
  <2>1. TypeOK'
    BY <1>0, <1>3 DEF TypeOK, AcquireFileLock
  <2> QED
    BY <1>0, <1>3, <2>1, QuietStep
    DEF TypeOK, Working, Locked, Current, Written, AcquireFileLock
<1>4. ASSUME NEW t \in Threads, Read(t) PROVE IInv'
  <2>1. TypeOK'
    BY <1>0, <1>4 DEF TypeOK, Read
  <2> QED
    BY <1>0, <1>4, <2>1, QuietStep
    DEF TypeOK, Working, Locked, Current, Written, Read
<1>5. ASSUME NEW t \in Threads, Stage(t) PROVE IInv'
  <2>1. work[t] \in Items /\ mem[t] = file /\ file \in Seq(Items)
    BY <1>0, <1>5 DEF Stage, TypeOK, Working, Current
  <2>2. Append(mem[t], work[t]) \in Seq(Items)
    BY <2>1, AppendHolds
  <2>3. TypeOK'
    BY <1>0, <1>5, <2>2 DEF TypeOK, Stage
  <2> QED
    BY <1>0, <1>5, <2>1, <2>3, QuietStep
    DEF TypeOK, Working, Locked, Current, Written, Stage
<1>6. ASSUME NEW t \in Threads, Replace(t) PROVE IInv'
  <2>1. work[t] \in Items /\ file \in Seq(Items)
    BY <1>0, <1>6 DEF Replace, TypeOK, Working
  <2>2. file' = Append(file, work[t])
    BY <1>0, <1>6 DEF Replace, Current
  <2>3. /\ file' \in Seq(Items)
        /\ Log!Holds(file', work[t])
        /\ \A y : Log!Holds(file, y) => Log!Holds(file', y)
    BY <2>1, <2>2, AppendHolds
  <2>4. TypeOK'
    BY <1>0, <1>6, <2>3 DEF TypeOK, Replace
  <2>5. Working' /\ Locked'
    BY <1>0, <1>6 DEF TypeOK, Working, Locked, Replace
  <2>6. \A u \in Threads : phase'[u] \notin {"read", "staged"}
    BY <1>0, <1>6 DEF TypeOK, Locked, Replace
  <2>7. Current'
    BY <2>6 DEF Current
  <2>8. Written'
    BY <1>0, <1>6, <2>3 DEF TypeOK, Written, Replace
  <2>9. Extended'
    BY <1>0, <1>6, <2>1, <2>2, PrefixAppend DEF TypeOK, Extended, Replace
  <2> QED
    BY <2>4, <2>5, <2>7, <2>8, <2>9 DEF IInv
<1>7. ASSUME NEW t \in Threads, Refuse(t) PROVE IInv'
  <2>1. TypeOK'
    BY <1>0, <1>7 DEF TypeOK, Refuse
  <2> QED
    BY <1>0, <1>7, <2>1, QuietStep
    DEF TypeOK, Working, Locked, Current, Written, Refuse
<1>8. ASSUME NEW t \in Threads, ReleaseFileLock(t) PROVE IInv'
  <2>1. TypeOK'
    BY <1>0, <1>8 DEF TypeOK, ReleaseFileLock
  <2>2. \A u \in Threads : phase[u] \in Inside => u = t
    BY <1>0, <1>8 DEF Locked, ReleaseFileLock
  <2> QED
    BY <1>0, <1>8, <2>1, <2>2, QuietStep
    DEF TypeOK, Working, Locked, Current, Written, ReleaseFileLock
<1>9. ASSUME NEW t \in Threads, Return(t) PROVE IInv'
  <2>1. TypeOK'
    BY <1>0, <1>9 DEF TypeOK, Return
  <2>2. \A x \in acked' : Log!Holds(file, x)
    BY <1>0, <1>9 DEF Written, Return
  <2>3. Working' /\ Locked' /\ Current' /\ Extended'
    BY <1>0, <1>9
    DEF TypeOK, Working, Locked, Current, Extended, Return
  <2>4. Written'
    BY <1>0, <1>9, <2>2 DEF TypeOK, Written, Return
  <2> QED
    BY <2>1, <2>3, <2>4 DEF IInv
<1>10. ASSUME NEW r \in Readers, Peek(r) PROVE IInv'
  <2>1. TypeOK'
    BY <1>0, <1>10 DEF TypeOK, Peek
  <2>2. Working' /\ Locked' /\ Current' /\ Written'
    BY <1>0, <1>10 DEF Working, Locked, Current, Written, Peek
  <2>3. Extended'
    BY <1>0, <1>10, PrefixReflexive DEF TypeOK, Extended, Peek
  <2> QED
    BY <2>1, <2>2, <2>3 DEF IInv
<1>11. ASSUME NEW p \in Processes, Crash(p) PROVE IInv'
  <2>1. TypeOK'
    BY <1>0, <1>11 DEF TypeOK, Crash
  <2>2. \A t \in Threads : phase'[t] \in Inside => fileLock' = t
    BY <1>0, <1>11 DEF TypeOK, Locked, Crash
  <2> QED
    BY <1>0, <1>11, <2>1, <2>2, QuietStep
    DEF TypeOK, Working, Locked, Current, Written, Crash
<1>12. CASE UNCHANGED vars
  BY <1>0, <1>12 DEF vars, IInv, TypeOK, Working, Locked, Current, Written,
                     Extended
<1> QED
  BY <1>1, <1>2, <1>3, <1>4, <1>5, <1>6, <1>7, <1>8, <1>9, <1>10, <1>11,
     <1>12 DEF Next, Step

LEMMA AlwaysIInv == Spec => []IInv
BY InitIInv, StepIInv, PTL DEF Spec

-----------------------------------------------------------------------------
(* What follows from it *)

(* The file, the locks and the transactions keep their shape. *)
THEOREM TypeCorrect == Spec => []TypeOK
<1>1. IInv => TypeOK
  BY DEF IInv
<1> QED
  BY <1>1, AlwaysIInv, PTL

(* However many threads, processes and crashes, one is inside at a time. *)
THEOREM MutualExclusion == Spec => []OneInside
<1>1. IInv => OneInside
  BY DEF IInv, Locked, OneInside
<1> QED
  BY <1>1, AlwaysIInv, PTL

(* Every step of a transaction is a commit, an answer or a stutter of the  *)
(* log the registry promises.                                              *)
THEOREM Implements == Spec => KeepsLog
<1>1. Init => Log!Init
  BY DEF Init, Log!Init
<1>2. IInv /\ [Next]_vars => [Log!Next]_(Log!vars)
  <2> SUFFICES ASSUME IInv, [Next]_vars
               PROVE  Log!Next \/ UNCHANGED <<file, acked>>
    BY DEF Log!vars
  <2>1. ASSUME NEW t \in Threads, Replace(t) PROVE Log!Next
    <3>1. work[t] \in Items
      BY <2>1, NoneAssumption DEF Replace, Move, IInv, TypeOK, Working
    <3>2. file' = Append(file, work[t]) /\ acked' = acked
      BY <2>1 DEF Replace, Move, IInv, Current
    <3> QED
      BY <3>1, <3>2 DEF Log!Next, Log!Commit
  <2>2. ASSUME NEW t \in Threads, Return(t)
        PROVE  Log!Next \/ UNCHANGED <<file, acked>>
    <3>1. CASE work[t] = None
      BY <2>2, <3>1 DEF Return
    <3>2. CASE work[t] # None
      <4>1. work[t] \in Items /\ Log!Holds(file, work[t])
        BY <2>2, <3>2 DEF Return, Move, IInv, TypeOK, Written
      <4>2. acked' = acked \cup {work[t]} /\ file' = file
        BY <2>2, <3>2 DEF Return
      <4> QED
        BY <4>1, <4>2 DEF Log!Next, Log!Acknowledge
    <3> QED
      BY <3>1, <3>2
  <2>3. ASSUME NEW t \in Threads,
               \/ \E x \in Items : Begin(t, x)
               \/ AcquireThreadLock(t)
               \/ AcquireFileLock(t)
               \/ Read(t)
               \/ Stage(t)
               \/ Refuse(t)
               \/ ReleaseFileLock(t)
        PROVE  UNCHANGED <<file, acked>>
    BY <2>3 DEF Begin, AcquireThreadLock, AcquireFileLock, Read, Stage,
                Refuse, ReleaseFileLock
  <2>4. ASSUME (\E r \in Readers : Peek(r)) \/ (\E p \in Processes : Crash(p))
        PROVE  UNCHANGED <<file, acked>>
    BY <2>4 DEF Peek, Crash
  <2>5. CASE UNCHANGED vars
    BY <2>5 DEF vars
  <2> QED
    BY <2>1, <2>2, <2>3, <2>4, <2>5 DEF Next, Step
<1> QED
  BY <1>1, <1>2, AlwaysIInv, PTL DEF Spec, KeepsLog, Log!Spec

(* A reader without the lock only ever sees the log grow. *)
THEOREM ReadersSeeGrowth == Spec => SnapshotsGrow
<1>1. IInv /\ [Next]_vars
      => [\A r \in Readers : IsPrefix(seen[r], seen'[r])]_vars
  <2> SUFFICES ASSUME IInv, [Next]_vars, NEW r \in Readers
               PROVE  IsPrefix(seen[r], seen'[r])
    OBVIOUS
  <2>1. seen'[r] = seen[r] \/ seen'[r] = file
    BY DEF IInv, TypeOK, Next, Step, vars, Begin, AcquireThreadLock,
           AcquireFileLock, Read, Stage, Replace, Refuse, ReleaseFileLock,
           Return, Peek, Crash
  <2>2. seen[r] \in Seq(Items)
    BY DEF IInv, TypeOK
  <2> QED
    BY <2>1, <2>2, PrefixReflexive DEF IInv, Extended
<1> QED
  BY <1>1, AlwaysIInv, PTL DEF Spec, SnapshotsGrow
=============================================================================
