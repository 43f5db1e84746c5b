\* Three executions, watched in turn and again, with a late poll answer; a
\* list of recent runs that only two of them fit into; another tab.
CONSTANTS
  a = a
  b = b
  c = c
  l1 = l1
  l2 = l2
  l3 = l3
  None = None
  Executions = {a, b, c}
  Outcomes = {"completed"}
  Loops = {l1}
  MaxWatches = 3
  MaxSubmits = 1
  MaxFailures = 1
  HistoryLimit = 2
  StoredLists <- SmallLists
SPECIFICATION RunSpec
CHECK_DEADLOCK FALSE
SYMMETRY Symmetry
INVARIANTS
  TypeOK
  HistoryTruthful
  RecentRuns
  ShownIsStored
PROPERTIES
  StaysAttended
