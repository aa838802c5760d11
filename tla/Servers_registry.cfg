CONSTANTS
  s1 = s1
  s2 = s2
  Servers = {s1, s2}
  Watchdogs = {s2}
  Punctual = {s1}
  MaxSilence = 1
  MaxLatency = 1
  Timeout = 2
  Remote = {s2}
  MaxClock = 1
  MinError = 0
  MaxError = 1
SPECIFICATION LiveSpec
INVARIANTS
  TypeOK
  PunctualIsKnown
PROPERTIES
  OnlySilentRemoved
  DeadAreRemoved
