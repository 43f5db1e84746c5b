-------------------------- MODULE MCStatusStream --------------------------
(***************************************************************************)
(* An instance of StatusStream for TLC.                                    *)
(***************************************************************************)
EXTENDS StatusStream, TLC

CONSTANT q1

\* A record without a status of its own has every combination of flags; one with
\* a status has none, or contradicts it with one.
ManyRecords ==
  LegacyRecord \cup
  {r \in ScopedRecord :
     \/ r.status = ""
     \/ ~r.timedOut /\ r.exitCode = "nil" /\ (r.timeout => r.succeeded = "nil")}
=============================================================================
