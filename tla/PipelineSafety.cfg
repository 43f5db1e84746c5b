\* Two processes share a queue that does not exist until one of them declares
\* it, with a dead-letter exchange; one job is malformed, the SETs of the other are
\* sent again and applied late; two faults.
CONSTANTS
  j1 = j1
  j2 = j2
  j3 = j3
  w1 = w1
  w2 = w2
  None = None
  Jobs = {j1, j2}
  Malformed = {j2}
  Hanging = {}
  Workers = {w1, w2}
  InitialQueue = "absent"
  MaxRetries = 1
  MaxLate = 1
  Outcomes = {"completed", "failed"}
  MaxFaults = 2
SPECIFICATION Spec
SYMMETRY Symmetry
CHECK_DEADLOCK FALSE
INVARIANTS
  TypeOK
  DeliveryOwned
  Accounts
PROPERTY
  ImplementsAtLeastOnce
