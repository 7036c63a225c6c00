SPECIFICATION FairSpec
CONSTANTS
  NetworkTries = 2
  MaxCmds = 1
  MaxLines = 2
  MaxNotes = 1
INVARIANTS
  TypeOK
  OwnAnswers
  Truthful
  NotWild
PROPERTIES
  QueryReturns
CHECK_DEADLOCK FALSE
