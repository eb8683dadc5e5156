--------------------------- MODULE SourceIntegrity ---------------------------
(***************************************************************************)
(* The proof that a command of the Workflow Lab left the checkout alone    *)
(* (adapters/adk/source_integrity.py, the POSIX half): a capture before    *)
(* it, one after it, and their comparison.  A capture reads the checkout   *)
(* object by object, several of its parts cover the same object, and       *)
(* nothing keeps others from changing the checkout meanwhile.              *)
(*                                                                         *)
(* An object is one path; an edit gives it a type and a content that it    *)
(* never had.  A file is read as one step: its identity is looked at       *)
(* before and after.                                                       *)
(***************************************************************************)
EXTENDS Naturals, Sequences, SequencesExt

CONSTANTS
    Paths,          \* the paths
    Index, Catalog, \* .git/index and the workflow catalog, a tracked file
    Tracked,        \* paths that Git tracks
    Source, Published,  \* paths under src, and under developer_workflows
    Skipped,        \* paths under .git, and allowlisted ones
    Parent,         \* tmp, the directory that holds the allowlisted ones
    Types,          \* what an object may be: see Readable
    MaxEdits        \* bound: edits of objects and of the allowlist

VARIABLES
    tree,       \* the object under each path
    links,      \* allowlisted directories that were made or removed in tmp
    phase,      \* what the command does
    at,         \* the next object of the capture under way
    taken,      \* what the two captures have read
    entered,    \* st_nlink of tmp when the walk entered it
    answer,
    edits,      \* bound: edits so far
    kept,       \* history: the checkout after the first capture
    found       \* history: the checkout before the second one

integrityVars ==
    <<tree, links, phase, at, taken, entered, answer, edits, kept,
      found>>

(* The other types, "special" and "missing", have nothing to read. *)
Readable == {"regular", "symlink"}

(* _stable_descriptor_content, readlink, _special_kind, <missing> *)
Digest(object) ==
    IF object.type \in Readable THEN object
    ELSE [object EXCEPT !.content = 0]

-----------------------------------------------------------------------------
(* What a capture reads, in its order *)

(* The code sorts the paths of a part; nothing depends on which order it   *)
(* is, as long as both captures have the same one.                         *)
Part(name, S) ==
    LET paths == SetToSeq(S)
    IN  [i \in DOMAIN paths |-> <<name, paths[i]>>]

FaultWalk == << <<"enter", Parent>>, <<"leave", Parent>> >>

(* _filesystem_state_digest: a tracked path was read by name already; tmp   *)
(* is opened, walked, and looked at again.                                 *)
Walk ==
    Part("state", Paths \ (Tracked \cup Skipped \cup {Parent}))
    \o << <<"enter", Parent>>, <<"leave", Parent>> >>

(* capture_source_integrity *)
Capture ==
    << <<"index", Index>> >>
    \o Part("tracked", Tracked)
    \o << <<"porcelain", Index>> >>
    \o Part("source", Source) \o Part("published", Published)
    \o << <<"catalog", Catalog>> >>
    \o Walk

(* git status: of a tracked file, whether it differs from the index. *)
Porcelain == [path \in Tracked |-> Digest(tree[path])]

Read(step) ==
    IF step[1] = "porcelain" THEN <<step, Porcelain>>
    ELSE IF step[1] \in {"enter", "leave"} THEN <<step, "directory">>
    ELSE <<step, Digest(tree[step[2]])>>

-----------------------------------------------------------------------------

IntegrityInit ==
    /\ tree = [path \in Paths |-> [type |-> "regular", content |-> 0]]
    /\ links = 0
    /\ phase = "before" /\ at = 1
    /\ taken = [before |-> <<>>, after |-> <<>>]
    /\ entered = 0
    /\ answer = "none" /\ edits = 0
    /\ kept = tree /\ found = tree

(* The walk raises when a directory has another identity, of which its     *)
(* links are a part, when it is left than when it was entered.             *)
Raced(step) == step[1] = "leave" /\ links # entered

Take ==
    LET capture == Capture
        step == capture[at]
    IN
    /\ phase \in {"before", "after"} /\ at <= Len(capture)
    /\ ~Raced(step)
    /\ taken' = [taken EXCEPT ![phase] = Append(@, Read(step))]
    /\ entered' = IF step[1] = "enter" THEN links ELSE entered
    /\ at' = at + 1
    /\ UNCHANGED <<tree, links, phase, answer, edits, kept, found>>

Race ==
    /\ phase \in {"before", "after"} /\ at <= Len(Capture)
    /\ Raced(Capture[at])
    /\ phase' = "over" /\ answer' = "raced"
    /\ UNCHANGED <<tree, links, at, taken, entered, edits, kept, found>>

(* The command itself, between the captures. *)
Work ==
    /\ phase = "before" /\ at > Len(Capture)
    /\ phase' = "working" /\ kept' = tree
    /\ UNCHANGED <<tree, links, at, taken, entered, answer, edits, found>>

CaptureAgain ==
    /\ phase = "working"
    /\ phase' = "after" /\ at' = 1 /\ found' = tree
    /\ UNCHANGED <<tree, links, taken, entered, answer, edits, kept>>

(* assert_source_integrity_unchanged *)
Compare ==
    /\ phase = "after" /\ at > Len(Capture)
    /\ phase' = "over"
    /\ answer' = IF taken.before = taken.after THEN "unchanged" ELSE "changed"
    /\ UNCHANGED <<tree, links, at, taken, entered, edits, kept, found>>

(* Anybody, at any time, and the command on what is allowlisted. *)
Edit(path, type) ==
    /\ edits < MaxEdits
    /\ edits' = edits + 1
    /\ tree' = [tree EXCEPT ![path] = [type |-> type, content |-> edits']]
    /\ UNCHANGED <<links, phase, at, taken, entered, answer, kept, found>>

(* The first draft of all, or the first export, makes its directory. *)
MakeAllowlisted ==
    /\ edits < MaxEdits
    /\ edits' = edits + 1
    /\ links' = links + 1
    /\ UNCHANGED <<tree, phase, at, taken, entered, answer, kept, found>>

IntegrityNext ==
    \/ Take \/ Race \/ Work \/ CaptureAgain \/ Compare
    \/ \E path \in Paths, type \in Types : Edit(path, type)
    \/ MakeAllowlisted

IntegritySpec == IntegrityInit /\ [][IntegrityNext]_integrityVars

-----------------------------------------------------------------------------
(* Properties *)

(* The paths the captures answer for. *)
Protected ==
    (Paths \ (Skipped \cup {Parent})) \cup {Index, Catalog} \cup Tracked

(* What the two captures have read of a path, by name. *)
Reading(path, n) ==
    /\ Capture[n] \in {"index", "tracked", "source", "published", "catalog",
                       "state"} \X {path}
    /\ taken.before[n] = taken.after[n]

(* "Unchanged" means that every path outside of the allowlist, tracked or  *)
(* not, was read by both captures, and that every file or link they read   *)
(* was there when the first had ended and when the second began, whatever  *)
(* was edited while either was under way.  (A path that was missing or     *)
(* special both times may have been a file in between.)  And who changes   *)
(* only what is allowlisted is never told of a change.                     *)
IntegrityIsTold ==
    /\ answer = "unchanged" => \A path \in Protected :
          /\ \E n \in DOMAIN Capture : Reading(path, n)
          /\ \A n \in DOMAIN Capture :
                LET object == taken.after[n][2] IN
                Reading(path, n) /\ object.type \in Readable =>
                   kept[path] = object /\ found[path] = object
    /\ answer = "changed" =>
          \E path \in Protected : tree[path].content > 0
=============================================================================
