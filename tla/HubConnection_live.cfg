SPECIFICATION LiveSpec
CONSTANTS
  i1 = i1
  p1 = p1
  Calls = {i1}
  Stoppers = {p1}
  Policy = TRUE
  Retries = 2
  InherentKeepAlive = FALSE
  Overlap = FALSE
  StopInOnReconnecting = FALSE
INVARIANTS TypeOK ConnectedIsShaken TimersFit NoCallForgotten
PROPERTIES StopIsFinal Settles StopReturned
CHECK_DEADLOCK FALSE
