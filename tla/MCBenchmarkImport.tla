------------------------- MODULE MCBenchmarkImport -------------------------
(* Instance of BenchmarkImport for TLC. *)
EXTENDS BenchmarkImport, TLC

Pinned == <<"submission", "policy">>

Symmetry == Permutations(Importers) \cup Permutations(Versions)
=============================================================================
