\* A request, and a record that changes under it from any shape to any other.
CONSTANTS
  q1 = q1
  None = None
  Requests = {q1}
  Records <- ManyRecords
  MaxOutages = 1
SPECIFICATION FairSpec
CHECK_DEADLOCK FALSE
INVARIANTS
  TypeOK
  ResultsReadBack
  AnswersWereTrue
PROPERTIES
  FinalIsLast
  StreamsEnd
