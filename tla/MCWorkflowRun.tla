--------------------------- MODULE MCWorkflowRun ---------------------------
(* Small instances of WorkflowRun: the two-step built-in workflow. *)
EXTENDS WorkflowRun, TLC

MCStepKinds == <<"validate", "operator">>

\* One step is enough where two kinds of run share the registry.
MCOneStep == <<"operator">>

\* The sets whose members are interchangeable, for the safety runs.
Symmetry ==
    Permutations(RunIds) \cup Permutations(Invocations) \cup
    Permutations(Tickets) \cup Permutations(Jobs)
=============================================================================
