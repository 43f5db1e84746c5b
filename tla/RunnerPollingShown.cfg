\* The user stops tracking while a poll request is out.
CONSTANTS
  a = a
  b = b
  l1 = l1
  l2 = l2
  l3 = l3
  None = None
  Executions = {a}
  Outcomes = {"completed"}
  Loops = {l1}
  MaxWatches = 1
  MaxSubmits = 1
  MaxFailures = 1
SPECIFICATION Spec
CHECK_DEADLOCK FALSE
INVARIANT
  PollingIsTruthful
