------------------------- MODULE MCSandboxExecutor -------------------------
(***************************************************************************)
(* Instances of SandboxExecutor for TLC.                                   *)
(***************************************************************************)
EXTENDS SandboxExecutor
=============================================================================
