SPECIFICATION LiveSpec
CONSTANTS
  m1 = m1
  m2 = m2
  s1 = s1
  Offers <- AllOffers
  Supported = {"ws", "sse", "lp"}
  Slots <- TwoSlots
  Sources = {s1}
  MaxRedirects = 2
  Sends = {m1, m2}
  SkipNegotiation = FALSE
  RestartOnClose = TRUE
  FirstPollMayEnd = FALSE
INVARIANTS TypeOK OwnTransport QueueOfTransport
PROPERTIES PromisesSettle ImplementsConnection
CHECK_DEADLOCK FALSE
