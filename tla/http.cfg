SPECIFICATION Spec
CONSTANTS
  Session = {s1, s2}
  NULL = NULL
  CacheSize = 1
  MaxAttempts = 1
  MaxCount = 2
  Production = TRUE
  MaxChanges = 1
  Together = FALSE
  Sent <- AnEmail
INVARIANTS
  HandlerAuthorized
  RightsSuffice
  RightHandler
  HeadersFit
  CountersEnd
  AnswerMatches
PROPERTY RequestsAnswered
