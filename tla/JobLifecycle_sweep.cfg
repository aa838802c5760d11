CONSTANTS
  j1 = j1
  c1 = c1
  c2 = c2
  Jobs = {j1}
  Clients = {c1, c2}
  MaxRows = 4
  JobTtl = 1
  BatchSize = 1
SPECIFICATION LiveSpec
INVARIANTS
  TypeOK
  EnqueuedIsQueued
  CurrentInHistory
PROPERTIES
  SweepsOnlyExpired
  ExpiredIsSwept
