------------------------- MODULE MCExecutionRunner -------------------------
(***************************************************************************)
(* Instances of ExecutionRunner for TLC.                                   *)
(***************************************************************************)
EXTENDS ExecutionRunner, TLC

CONSTANTS a, b, l1, l2, l3

\* Sound for invariants only; the runs for liveness do without it.
Symmetry == Permutations(Executions) \cup Permutations(Loops)
=============================================================================
