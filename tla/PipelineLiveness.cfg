\* A legacy queue without dead-lettering, a malformed job and a program that
\* may never end, one process whose results overlap.
CONSTANTS
  j1 = j1
  j2 = j2
  j3 = j3
  w1 = w1
  w2 = w2
  None = None
  Jobs = {j1, j2, j3}
  Malformed = {j1}
  Hanging = {j2}
  Workers = {w1}
  InitialQueue = "plain"
  MaxRetries = 1
  MaxLate = 0
  Outcomes = {"completed", "timeout"}
  MaxFaults = 2
SPECIFICATION FairSpec
CHECK_DEADLOCK FALSE
INVARIANTS
  Bookkeeping
  LossBound
PROPERTY
  NoLimbo
