------------------------- MODULE MCSandboxPipeline -------------------------
(***************************************************************************)
(* Instances of SandboxPipeline for TLC.                                   *)
(***************************************************************************)
EXTENDS SandboxPipeline, TLC

CONSTANTS j1, j2, j3, w1, w2

\* Sound for invariants only; the run for liveness does without it.
Symmetry == Permutations(Workers)
=============================================================================
