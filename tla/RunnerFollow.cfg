\* One execution is followed, and followed again while its poll loop has a
\* request out and while two submits overlap, over a network that fails now and then.
CONSTANTS
  a = a
  b = b
  l1 = l1
  l2 = l2
  l3 = l3
  None = None
  Executions = {a}
  Outcomes = {"completed", "failed"}
  Loops = {l1, l2}
  MaxWatches = 2
  MaxSubmits = 2
  MaxFailures = 3
SPECIFICATION FairSpec
CHECK_DEADLOCK FALSE
INVARIANTS
  OneTransport
  IndicatorTruthful
PROPERTIES
  Followed
  StrayLoopsEnd
