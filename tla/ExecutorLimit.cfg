\* A job that forks, and a descendant that may keep the pipe.
CONSTANTS
  MaxHolders = 1
  MaxCalls = 1
SPECIFICATION LimitSpec
CHECK_DEADLOCK FALSE
PROPERTY
  TimeLimitEnds
