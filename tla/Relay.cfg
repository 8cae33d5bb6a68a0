CONSTANTS
  Cap = 2
  ReplyLen = 3
  MaxSent <- MCMaxSent
SPECIFICATION RelayFairSpec
INVARIANTS DrainedAtEnd
PROPERTIES RequestsAnswered RelayEnds
CHECK_DEADLOCK FALSE
