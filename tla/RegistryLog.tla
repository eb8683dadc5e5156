----------------------------- MODULE RegistryLog -----------------------------
(***************************************************************************)
(* What storage/registry_transactions.py promises the writers of the run   *)
(* registry: the file behaves as a log.  A transaction adds its change to  *)
(* everything written before it or changes nothing, and a caller is told   *)
(* of success only for a change the file holds.                            *)
(***************************************************************************)
EXTENDS Naturals, Sequences

CONSTANT Items      \* the changes transactions make

VARIABLES log,      \* the changes the file holds, oldest first
          acked     \* the changes whose callers were told of success

vars == <<log, acked>>

Holds(l, x) == \E i \in 1 .. Len(l) : l[i] = x

Init == log = <<>> /\ acked = {}

Commit(x) ==
    /\ log' = Append(log, x)
    /\ UNCHANGED acked

Acknowledge(x) ==
    /\ Holds(log, x)
    /\ acked' = acked \cup {x}
    /\ UNCHANGED log

Next == \E x \in Items : Commit(x) \/ Acknowledge(x)

Spec == Init /\ [][Next]_vars
=============================================================================
