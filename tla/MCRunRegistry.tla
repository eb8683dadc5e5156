---------------------------- MODULE MCRunRegistry ----------------------------
(* Small instances of RunRegistry for TLC. *)
EXTENDS RunRegistry, TLC

\* Run ids, keys, invocations, tickets and callers are interchangeable, and
\* no liveness is checked, so the permutations of each set are a symmetry.
Symmetry ==
    Permutations(RunIds) \cup Permutations(Keys) \cup
    Permutations(Invocations) \cup Permutations(Tickets) \cup
    Permutations(Callers)
=============================================================================
