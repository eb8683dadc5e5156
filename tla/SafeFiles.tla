------------------------------ MODULE SafeFiles ------------------------------
(***************************************************************************)
(* Guarded file access (storage/safe_json.py, the POSIX half): writers and *)
(* readers that pin the configured root by a descriptor, work relative to  *)
(* it, and look at the end whether the configured path still leads there,  *)
(* next to somebody who moves directories away and puts others in their    *)
(* place.                                                                  *)
(*                                                                         *)
(* The root holds one folder, and the folder the one name that everybody   *)
(* is about.  Roots and folders are numbered by the move that brought them *)
(* (a directory that was moved away does not come back), and an inode is   *)
(* named after the writer that made it.  A name has one atomic writer, and *)
(* no other while that one is at work, as in the control plane: the worker *)
(* of a run, after the run was accepted.                                   *)
(***************************************************************************)
EXTENDS Naturals, FiniteSets

CONSTANTS
    Writers, Readers,   \* calls, one each
    Old, None,          \* the file that was there before; no file
    MaxMoves,           \* bound: directories moved away
    MaxFaults,          \* bound: system calls that fail
    MaxDeaths           \* bound: processes that die

VARIABLES
    root,       \* the root the configured path leads to
    folder,     \* the folder in each root
    name,       \* the inode in each folder under the name
    temp,       \* the inode in each folder under a temporary name
    empty,      \* inodes that were truncated
    writer,     \* the calls that write
    reader,     \* the calls that read
    stood,      \* history: inodes the configured path has led to
    bounds      \* moves, faults and deaths so far

filesVars ==
    <<root, folder, name, temp, empty, writer, reader, stood, bounds>>

Directories == 0 .. MaxMoves
Kinds == {"directory", "exclusive", "atomic"}
Busy(w) == writer[w].stage \notin {"idle", "over", "dead"}

Spend(bound, limit) ==
    /\ bounds[bound] < limit
    /\ bounds' = [bounds EXCEPT ![bound] = @ + 1]

Note == stood' = stood \cup {name'[folder'[root']]}

-----------------------------------------------------------------------------
(* A write: write_json_object_exclusive, write_json_object_atomic and      *)
(* create_directory_exclusive                                              *)

At(w, stage) == writer[w].stage = stage
Set(w, stage) == writer' = [writer EXCEPT ![w].stage = stage]

(* PinnedJsonRoot.__enter__ *)
Pin(w, kind) ==
    /\ At(w, "idle")
    /\ \A v \in Writers :
          Busy(v) => kind # "atomic" /\ writer[v].kind # "atomic"
    /\ writer' = [writer EXCEPT ![w].stage = "opening", ![w].kind = kind,
                                ![w].root = root]
    /\ UNCHANGED <<root, folder, name, temp, empty, reader, bounds>>

(* _open_relative_parent_posix; the file is still anonymous. *)
OpenParent(w) ==
    /\ At(w, "opening")
    /\ writer' = [writer EXCEPT ![w].folder = folder[writer[w].root],
          ![w].stage =
             IF writer[w].kind = "directory" THEN "publishing" ELSE "filling"]
    /\ UNCHANGED <<root, folder, name, temp, empty, reader, bounds>>

(* O_TMPFILE, write and fsync: the inode is whole before it has a name. *)
Fill(w) ==
    /\ At(w, "filling")
    /\ Set(w, "publishing")
    /\ UNCHANGED <<root, folder, name, temp, empty, reader, bounds>>

Mine(w) == name[writer[w].folder] = w

(* mkdir, or _publish_anonymous_posix: a link under the name, which must   *)
(* not be there, or for an atomic write under a temporary one.  The name   *)
(* is then opened once more ("linked").                                    *)
Publish(w) ==
    /\ At(w, "publishing")
    /\ IF writer[w].kind = "atomic"
       THEN /\ temp' = [temp EXCEPT ![writer[w].folder] = w]
            /\ Set(w, "linked")
            /\ UNCHANGED name
       ELSE IF name[writer[w].folder] = None
       THEN /\ name' = [name EXCEPT ![writer[w].folder] = w]
            /\ Set(w, "linked")
            /\ UNCHANGED temp
       ELSE Set(w, "failing") /\ UNCHANGED <<name, temp>>
    /\ UNCHANGED <<root, folder, empty, reader, bounds>>

(* From here on the cleanup knows under which name the inode is. *)
Reopen(w) ==
    /\ At(w, "linked")
    /\ LET atomic == writer[w].kind = "atomic" IN
       writer' = [writer EXCEPT
          ![w].under = IF atomic THEN "temp" ELSE "name",
          ![w].stage = IF atomic THEN "replacing"
                       ELSE IF writer[w].kind = "directory" THEN "ancestry"
                       ELSE "verifying"]
    /\ UNCHANGED <<root, folder, name, temp, empty, reader, bounds>>

(* os.replace *)
Replace(w) ==
    /\ At(w, "replacing")
    /\ name' = [name EXCEPT ![writer[w].folder] = w]
    /\ temp' = [temp EXCEPT ![writer[w].folder] = None]
    /\ writer' = [writer EXCEPT ![w].stage = "verifying", ![w].under = "name"]
    /\ UNCHANGED <<root, folder, empty, reader, bounds>>

(* _verify_published_file_identity *)
VerifyFile(w) ==
    /\ At(w, "verifying")
    /\ Set(w, IF Mine(w) THEN "ancestry" ELSE "failing")
    /\ UNCHANGED <<root, folder, name, temp, empty, reader, bounds>>

(* _verify_relative_ancestry_posix *)
VerifyAncestry(w) ==
    /\ At(w, "ancestry")
    /\ Set(w, IF folder[writer[w].root] = writer[w].folder THEN "identity"
              ELSE "failing")
    /\ UNCHANGED <<root, folder, name, temp, empty, reader, bounds>>

FaultNoIdentity(w) ==
    /\ At(w, "identity")
    /\ writer' = [writer EXCEPT ![w].stage = "over", ![w].answer = "ok"]
    /\ UNCHANGED <<root, folder, name, temp, empty, reader, bounds>>

(* verify_configured_root_identity *)
VerifyRoot(w) ==
    /\ At(w, "identity")
    /\ IF root = writer[w].root
       THEN writer' = [writer EXCEPT ![w].stage = "over", ![w].answer = "ok"]
       ELSE Set(w, "failing")
    /\ UNCHANGED <<root, folder, name, temp, empty, reader, bounds>>

(* A system call of a write fails. *)
Fail(w) ==
    /\ Busy(w) /\ ~At(w, "failing") /\ ~At(w, "truncating")
    /\ Spend("faults", MaxFaults)
    /\ Set(w, "failing")
    /\ UNCHANGED <<root, folder, name, temp, empty, reader>>

(* The cleanup: the inode loses the name it is known to have, or does not  *)
(* because that call fails, ...                                            *)
Unlink(w) ==
    /\ At(w, "failing")
    /\ LET f == writer[w].folder IN
       \/ /\ name' = IF writer[w].under = "name" /\ Mine(w)
                     THEN [name EXCEPT ![f] = None] ELSE name
          /\ temp' = IF writer[w].under = "temp"
                     THEN [temp EXCEPT ![f] = None] ELSE temp
          /\ UNCHANGED bounds
       \/ Spend("faults", MaxFaults) /\ UNCHANGED <<name, temp>>
    /\ Set(w, "truncating")
    /\ UNCHANGED <<root, folder, empty, reader>>

(* ... and is truncated when it has a name left.                           *)
Truncate(w) ==
    /\ At(w, "truncating")
    /\ LET linked == \E f \in Directories : w \in {name[f], temp[f]} IN
       \/ /\ empty' = IF linked /\ writer[w].kind # "directory"
                      THEN empty \cup {w} ELSE empty
          /\ UNCHANGED bounds
       \/ linked /\ Spend("faults", MaxFaults) /\ UNCHANGED empty
    /\ writer' = [writer EXCEPT ![w].stage = "over", ![w].answer = "failed"]
    /\ UNCHANGED <<root, folder, name, temp, reader>>

Die(w) ==
    /\ Busy(w)
    /\ Spend("deaths", MaxDeaths)
    /\ Set(w, "dead")
    /\ UNCHANGED <<root, folder, name, temp, empty, reader>>

-----------------------------------------------------------------------------
(* A read: read_bounded_json_object *)

Failed == {w \in Writers : writer[w].answer = "failed"}

PinRead(r) ==
    /\ reader[r].stage = "idle"
    /\ reader' = [reader EXCEPT ![r].stage = "opening", ![r].root = root,
                                ![r].failed = Failed]
    /\ UNCHANGED <<root, folder, name, temp, empty, writer, bounds>>

(* _open_regular *)
OpenRead(r) ==
    /\ reader[r].stage = "opening"
    /\ LET inode == name[folder[reader[r].root]]
           regular == inode # None /\ (inode \in Writers =>
                                          writer[inode].kind # "directory")
       IN  reader' = [reader EXCEPT ![r].inode = inode, ![r].stage =
              IF regular THEN "reading" ELSE "over"]
    /\ UNCHANGED <<root, folder, name, temp, empty, writer, bounds>>

(* _read_bounded_json_descriptor: of a truncated file, no JSON. *)
Read(r) ==
    /\ reader[r].stage = "reading"
    /\ reader' = [reader EXCEPT ![r].stage = "over", ![r].answer =
          IF reader[r].inode \in empty THEN None ELSE reader[r].inode]
    /\ UNCHANGED <<root, folder, name, temp, empty, writer, bounds>>

-----------------------------------------------------------------------------
(* Somebody else *)

MoveRoot ==
    /\ Spend("moves", MaxMoves)
    /\ root' = bounds'["moves"]
    /\ folder' = [folder EXCEPT ![root'] = root']
    /\ UNCHANGED <<name, temp, empty, writer, reader>>

MoveFolder(r) ==
    /\ r = root \/ \E w \in Writers : writer[w].root = r
    /\ Spend("moves", MaxMoves)
    /\ folder' = [folder EXCEPT ![r] = bounds'["moves"]]
    /\ UNCHANGED <<root, name, temp, empty, writer, reader>>

-----------------------------------------------------------------------------

FilesInit ==
    /\ root = 0
    /\ folder = [r \in Directories |-> 0]
    /\ name \in {[f \in Directories |-> IF f = 0 THEN old ELSE None] :
                    old \in {Old, None}}
    /\ temp = [f \in Directories |-> None]
    /\ empty = {}
    /\ writer = [w \in Writers |->
          [kind |-> "exclusive", stage |-> "idle", root |-> 0, folder |-> 0,
           under |-> "none", answer |-> "none"]]
    /\ reader = [r \in Readers |->
          [stage |-> "idle", root |-> 0, inode |-> None, answer |-> None,
           failed |-> {}]]
    /\ stood = {}
    /\ bounds = [b \in {"moves", "faults", "deaths"} |-> 0]

Write(w) ==
    \/ \E kind \in Kinds : Pin(w, kind)
    \/ OpenParent(w) \/ Fill(w) \/ Publish(w) \/ Reopen(w) \/ Replace(w)
    \/ VerifyFile(w) \/ VerifyAncestry(w) \/ VerifyRoot(w)
    \/ Fail(w) \/ Unlink(w) \/ Truncate(w) \/ Die(w)

FilesNext ==
    /\ \/ \E w \in Writers : Write(w)
       \/ \E r \in Readers : PinRead(r) \/ OpenRead(r) \/ Read(r)
       \/ MoveRoot \/ \E r \in Directories : MoveFolder(r)
    /\ Note

FilesSpec == FilesInit /\ [][FilesNext]_filesVars

-----------------------------------------------------------------------------
(* Properties *)

(* What a write answers is what has happened to the file, whichever        *)
(* directories are moved meanwhile and whichever single system call fails: *)
(* after a success the configured path has led to it, and after a failure  *)
(* its payload is under no name, also where the directories have gone to,  *)
(* so that a read begun later never returns it.                            *)
WritesAreHonest ==
    /\ \A w \in Writers :
          /\ writer[w].answer = "ok" => w \in stood
          /\ writer[w].answer = "failed" /\ writer[w].kind # "directory" =>
                \A f \in Directories :
                   w \in {name[f], temp[f]} => w \in empty
    /\ \A r \in Readers : reader[r].answer \notin reader[r].failed
=============================================================================
