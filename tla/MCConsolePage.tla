--------------------------- MODULE MCConsolePage ---------------------------
(***************************************************************************)
(* Instances of ConsolePage for TLC.                                       *)
(***************************************************************************)
EXTENDS ConsolePage

CONSTANTS a, b, l1, l2

\* Templates that matter only as valid programs, and ones told apart.
AnyStarter == [l \in Languages |-> "starter"]
OwnStarter == [l \in Languages |-> l]
=============================================================================
