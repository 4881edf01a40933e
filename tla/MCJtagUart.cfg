SPECIFICATION Spec
CONSTANTS
  BUF_LEN = 3
  Depth = 2
  Threshold = 1
  INT_MAX = 4
  MaxPut = 3
  Counts = {0, 1, 3}
  Starts = {2}
  Smalls = {TRUE, FALSE}
  Rereads = {TRUE}
PROPERTIES BothAreStreams AllShown WaitingReaderGets CallsEnd
CHECK_DEADLOCK FALSE
