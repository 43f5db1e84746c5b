\* The user writes a program of their own, or turns to another language, and
\* presses Ctrl/Cmd + Enter.
CONSTANTS
  a = a
  b = b
  l1 = l1
  l2 = l2
  None = None
  Executions = {a}
  Outcomes = {"completed"}
  Loops = {l1}
  MaxWatches = 1
  MaxSubmits = 1
  MaxFailures = 0
  Languages = {"javascript", "c"}
  StarterTemplates <- OwnStarter
  Compiled = {"c"}
  FirstLanguage = "javascript"
  Typed = {"mine"}
  Diagnosed = {}
  Silent = {}
SPECIFICATION PageFairSpec
CHECK_DEADLOCK FALSE
PROPERTY
  SubmitsWhatIsShown
