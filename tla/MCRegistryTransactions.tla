----------------------- MODULE MCRegistryTransactions -----------------------
(* Two threads of one process and one thread of another. *)
EXTENDS RegistryTransactions, TLC

CONSTANTS p1, p2, a1, a2, b1

MCProcesses == {p1, p2}
MCThreads == {a1, a2, b1}
MCProcessOf == (a1 :> p1) @@ (a2 :> p1) @@ (b1 :> p2)
=============================================================================
