\* The user turns from one execution to another.
CONSTANTS
  a = a
  b = b
  l1 = l1
  l2 = l2
  l3 = l3
  None = None
  Executions = {a, b}
  Outcomes = {"completed"}
  Loops = {l1, l2}
  MaxWatches = 2
  MaxSubmits = 1
  MaxFailures = 1
SPECIFICATION FairSpec
CHECK_DEADLOCK FALSE
PROPERTY
  Followed
