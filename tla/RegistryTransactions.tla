------------------------ MODULE RegistryTransactions ------------------------
(***************************************************************************)
(* storage/registry_transactions.py and the file primitives of             *)
(* storage/local.py: a read-modify-replace transaction opened up into its  *)
(* steps, run by the threads of several processes that share one registry. *)
(*                                                                         *)
(* A transaction takes the process's lock for the path, then flock on the  *)
(* lock file, reads the whole payload, writes the changed payload to a     *)
(* temporary file, renames it over the registry and leaves through the     *)
(* same two locks.  The kernel drops the flock of a process that dies; a   *)
(* temporary file it leaves behind is read by nobody.                      *)
(*                                                                         *)
(* Data.  A payload is the sequence of changes that led to it.  The code   *)
(* never opens a transaction inside a transaction, so the re-entrance of   *)
(* the thread lock is left out.  Readers outside the lock (list_runs and   *)
(* get_run of LocalRunStore) open one version of the file, because rename  *)
(* replaces the name and not the contents.                                 *)
(***************************************************************************)
EXTENDS Naturals, Sequences, FiniteSets

CONSTANTS
    Processes,      \* the control plane, the command line tools, ...
    Threads,        \* threads that run transactions
    ProcessOf,      \* the process each thread belongs to
    Readers,        \* readers outside the lock
    Items,          \* bound: the changes transactions make, each at most once
    MaxCrashes,     \* bound: processes that die
    None            \* an absent value

ASSUME ThreadsAssumption == ProcessOf \in [Threads -> Processes]

ASSUME NoneAssumption == None \notin Threads /\ None \notin Items

ASSUME BoundsAssumption == MaxCrashes \in Nat

VARIABLES
    file,           \* the registry's payload
    threadLock,     \* per process: the thread that holds the path's lock
    fileLock,       \* the thread whose handle holds the flock
    phase,          \* per thread: how far its transaction is
    work,           \* per thread: the change it is making
    mem,            \* per thread: the payload it has in memory
    acked,          \* changes whose callers were told of success
    seen,           \* per reader: the payload it last read
    todo,           \* bound: changes nobody has asked for yet
    crashes         \* bound: processes that have died

vars == <<file, threadLock, fileLock, phase, work, mem, acked, seen, todo,
          crashes>>

locks == <<threadLock, fileLock>>

-----------------------------------------------------------------------------

Outside == {"idle", "waiting"}
Inside == {"locked", "read", "staged", "replaced", "failed"}
Phases == Outside \cup Inside \cup {"entering", "leaving"}

Move(t, from, to) ==
    /\ phase[t] = from
    /\ phase' = [phase EXCEPT ![t] = to]

(* Definitions named Fault... are slips a maintainer could make in the     *)
(* definition that follows them; no action uses one.                       *)
Begin(t, x) ==
    /\ Move(t, "idle", "waiting")
    /\ x \in todo
    /\ todo' = todo \ {x}
    /\ work' = [work EXCEPT ![t] = x]
    /\ UNCHANGED <<file, locks, mem, acked, seen, crashes>>

(* with _thread_lock(registry_path) *)
AcquireThreadLock(t) ==
    /\ Move(t, "waiting", "entering")
    /\ threadLock[ProcessOf[t]] = None
    /\ threadLock' = [threadLock EXCEPT ![ProcessOf[t]] = t]
    /\ UNCHANGED <<file, fileLock, work, mem, acked, seen, todo, crashes>>

FaultNoFileLock(t) ==
    /\ Move(t, "entering", "locked")
    /\ UNCHANGED <<file, locks, work, mem, acked, seen, todo, crashes>>

(* fcntl.flock(handle, LOCK_EX) blocks while another handle holds it. *)
AcquireFileLock(t) ==
    /\ Move(t, "entering", "locked")
    /\ fileLock = None
    /\ fileLock' = t
    /\ UNCHANGED <<file, threadLock, work, mem, acked, seen, todo, crashes>>

FaultReadAgain(t) ==
    /\ Move(t, "locked", "read")
    /\ mem' = [mem EXCEPT ![t] = IF mem[t] = <<>> THEN file ELSE mem[t]]
    /\ UNCHANGED <<file, locks, work, acked, seen, todo, crashes>>

(* _read_registry_payload *)
Read(t) ==
    /\ Move(t, "locked", "read")
    /\ mem' = [mem EXCEPT ![t] = file]
    /\ UNCHANGED <<file, locks, work, acked, seen, todo, crashes>>

FaultWriteInPlace(t) ==
    /\ Move(t, "read", "staged")
    /\ mem' = [mem EXCEPT ![t] = Append(@, work[t])]
    /\ file' = <<>>
    /\ UNCHANGED <<locks, work, acked, seen, todo, crashes>>

(* The body changes the payload; _write_registry_payload has written it to *)
(* a temporary file.                                                       *)
Stage(t) ==
    /\ Move(t, "read", "staged")
    /\ mem' = [mem EXCEPT ![t] = Append(@, work[t])]
    /\ UNCHANGED <<file, locks, work, acked, seen, todo, crashes>>

(* temp_path.replace(path) *)
Replace(t) ==
    /\ Move(t, "staged", "replaced")
    /\ file' = mem[t]
    /\ UNCHANGED <<locks, work, mem, acked, seen, todo, crashes>>

(* The body refuses (audit, conflict, not found, nothing to change) or a   *)
(* file operation fails: the context manager is left by an exception.      *)
Refuse(t) ==
    /\ \/ Move(t, "locked", "failed")
       \/ Move(t, "read", "failed")
       \/ Move(t, "staged", "failed")
    /\ UNCHANGED <<file, locks, work, mem, acked, seen, todo, crashes>>

FaultKeepLockOnError(t) ==
    /\ \/ /\ Move(t, "replaced", "leaving")
          /\ fileLock' = None
          /\ UNCHANGED work
       \/ /\ Move(t, "failed", "leaving")
          /\ work' = [work EXCEPT ![t] = None]
          /\ UNCHANGED fileLock
    /\ UNCHANGED <<file, threadLock, mem, acked, seen, todo, crashes>>

(* finally: LOCK_UN.  A refused change is not the caller's any more. *)
ReleaseFileLock(t) ==
    /\ \/ Move(t, "replaced", "leaving") /\ UNCHANGED work
       \/ /\ Move(t, "failed", "leaving")
          /\ work' = [work EXCEPT ![t] = None]
    /\ fileLock' = None
    /\ UNCHANGED <<file, threadLock, mem, acked, seen, todo, crashes>>

(* The thread lock is released and the caller gets its answer. *)
Return(t) ==
    /\ Move(t, "leaving", "idle")
    /\ threadLock' = [threadLock EXCEPT ![ProcessOf[t]] = None]
    /\ acked' = IF work[t] = None THEN acked ELSE acked \cup {work[t]}
    /\ work' = [work EXCEPT ![t] = None]
    /\ UNCHANGED <<file, fileLock, mem, seen, todo, crashes>>

(* A reader that takes no lock. *)
Peek(r) ==
    /\ seen' = [seen EXCEPT ![r] = file]
    /\ UNCHANGED <<file, locks, phase, work, mem, acked, todo, crashes>>

(* A process dies: its threads and locks go, the files stay. *)
Crash(p) ==
    /\ crashes < MaxCrashes
    /\ crashes' = crashes + 1
    /\ phase' = [t \in Threads |->
                    IF ProcessOf[t] = p THEN "idle" ELSE phase[t]]
    /\ work' = [t \in Threads |->
                    IF ProcessOf[t] = p THEN None ELSE work[t]]
    /\ threadLock' = [threadLock EXCEPT ![p] = None]
    /\ fileLock' = IF \E t \in Threads : fileLock = t /\ ProcessOf[t] = p
                   THEN None ELSE fileLock
    /\ UNCHANGED <<file, mem, acked, seen, todo>>

-----------------------------------------------------------------------------

Init ==
    /\ file = <<>>
    /\ threadLock = [p \in Processes |-> None]
    /\ fileLock = None
    /\ phase = [t \in Threads |-> "idle"]
    /\ work = [t \in Threads |-> None]
    /\ mem = [t \in Threads |-> <<>>]
    /\ acked = {}
    /\ seen = [r \in Readers |-> <<>>]
    /\ todo = Items
    /\ crashes = 0

(* One step of a thread that is in a transaction. *)
Step(t) ==
    \/ AcquireThreadLock(t)
    \/ AcquireFileLock(t)
    \/ Read(t)
    \/ Stage(t)
    \/ Replace(t)
    \/ Refuse(t)
    \/ ReleaseFileLock(t)
    \/ Return(t)

Next ==
    \/ \E t \in Threads : (\E x \in Items : Begin(t, x)) \/ Step(t)
    \/ \E r \in Readers : Peek(r)
    \/ \E p \in Processes : Crash(p)

(* The scheduler runs every thread that can move; it owes nobody a request *)
(* or a crash.                                                             *)
Fairness == \A t \in Threads : WF_vars(Step(t))

Spec == Init /\ [][Next]_vars

FairSpec == Spec /\ Fairness

-----------------------------------------------------------------------------
(* Properties *)

(* The shape of the file, the locks and the transactions in progress. *)
TypeOK ==
    /\ file \in Seq(Items)
    /\ threadLock \in [Processes -> Threads \cup {None}]
    /\ fileLock \in Threads \cup {None}
    /\ phase \in [Threads -> Phases]
    /\ work \in [Threads -> Items \cup {None}]
    /\ mem \in [Threads -> Seq(Items)]
    /\ acked \in SUBSET Items
    /\ seen \in [Readers -> Seq(Items)]
    /\ todo \in SUBSET Items
    /\ crashes \in 0 .. MaxCrashes

(* At most one thread of all processes is between LOCK_EX and LOCK_UN,     *)
(* whoever crashes or fails.                                               *)
OneInside ==
    \A t, u \in Threads : phase[t] \in Inside /\ phase[u] \in Inside => t = u

(* The registry keeps the promise of RegistryLog: no interleaving, refusal *)
(* or crash loses a committed change or answers for one that is not there. *)
Log == INSTANCE RegistryLog WITH log <- file

KeepsLog == Log!Spec

(* What an unlocked reader sees next extends what it saw before: it never  *)
(* sees half a write, and never an older version.                          *)
IsPrefix(a, b) == Len(a) <= Len(b) /\ SubSeq(b, 1, Len(a)) = a

SnapshotsGrow == [][\A r \in Readers : IsPrefix(seen[r], seen'[r])]_vars

(* A transaction never waits for a lock nobody will give back: it ends, or *)
(* its process does.                                                       *)
EveryTransactionEnds ==
    \A t \in Threads : (phase[t] = "waiting") ~> (phase[t] = "idle")
=============================================================================
