---------------------------- MODULE MCRunHistory ----------------------------
(***************************************************************************)
(* An instance of RunHistory for TLC.                                      *)
(***************************************************************************)
EXTENDS RunHistory, TLC

CONSTANTS a, b, c, l1, l2, l3

\* Nothing; an outcome; two entries on either side of junk.
SmallLists ==
  {<<>>}
    \cup {<<Entry(e, "completed")>> : e \in Executions}
    \cup {<<Entry(e, "queued"), Junk, Entry(f, "queued")>> :
            <<e, f>> \in {p \in Executions \X Executions : p[1] # p[2]}}

\* Sound for invariants.
Symmetry == Permutations(Executions) \cup Permutations(Loops)
=============================================================================
