CONSTANTS
  Streams <- MCStreams
  MaxLen = 9
SPECIFICATION ReaderFairSpec
INVARIANTS ReaderTypeOK ExactFrames NoReadAhead CleanEnd
PROPERTIES AllReturned
CHECK_DEADLOCK FALSE
