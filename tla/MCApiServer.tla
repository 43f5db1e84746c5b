---------------------------- MODULE MCApiServer ----------------------------
(***************************************************************************)
(* An instance of ApiServer for TLC: one client may try twice, the other   *)
(* once.  Liveness is checked, which rules out symmetry.                   *)
(***************************************************************************)
EXTENDS ApiServer

CONSTANTS r1, r2, r3, x, y

MCPrograms ==
  {[header |-> "1", payload |-> "valid"], [header |-> "3", payload |-> "invalid"],
   [header |-> "2", payload |-> "valid"]}

TwoClients == [r \in Requests |-> IF r = r3 THEN y ELSE x]
=============================================================================
