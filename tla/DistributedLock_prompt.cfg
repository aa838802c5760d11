CONSTANTS
  c1 = c1
  c2 = c2
  c3 = c3
  p1 = p1
  p2 = p2
  r1 = r1
  r2 = r2
  i1 = i1
  i2 = i2
  i3 = i3
  i4 = i4
  None = None
  Processes = {p1, p2}
  Clients = {c1, c2, c3}
  ProcOf <- TwoAndOne
  Resources = {r1, r2}
  Ids = {i1, i2, i3, i4}
  Lease = 1
  WaitTimeout = 0
  Prompt = TRUE
  Sweeping = FALSE
SPECIFICATION Spec
SYMMETRY LockSymmetry
INVARIANTS
  TypeOK
  MutualExclusion
PROPERTIES
  ImplementsExclusiveLock
