\* One execution that fails to compile is submitted or watched while programs are
\* edited, a second submit overlaps the first, and polls answer late or fail.
CONSTANTS
  a = a
  b = b
  l1 = l1
  l2 = l2
  None = None
  Executions = {a}
  Outcomes = {"failed"}
  Loops = {l1}
  MaxWatches = 2
  MaxSubmits = 2
  MaxFailures = 2
  Languages = {"javascript", "c"}
  StarterTemplates <- AnyStarter
  Compiled = {"c"}
  FirstLanguage = "javascript"
  Typed = {"blank"}
  Diagnosed = {a}
  Silent = {a}
SPECIFICATION PageSpec
CHECK_DEADLOCK FALSE
INVARIANTS
  PageTypeOK
  ShownTogether
  ButtonComesBack
  LanguagesAgree
PROPERTIES
  LanguageKept
  OutcomeStays
