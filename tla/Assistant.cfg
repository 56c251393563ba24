SPECIFICATION FairChat
CONSTANTS
  n1 = n1
  n2 = n2
  Kind = {"namespace", "workload"}
  Real = {n1, n2}
  Mode = {"sanitized", "raw"}
  MaxToolRounds = 3
  MaxCalls = 2
INVARIANTS
  AnswerIsMeant
  CallsAreAnswered
  EventsTellWhatHappened
PROPERTIES
  EveryQuestionEnds
CHECK_DEADLOCK FALSE
