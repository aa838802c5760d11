CONSTANTS
  c1 = c1
  c2 = c2
  k1 = k1
  n1 = n1
  n2 = n2
  Clients = {c1, c2}
  Kinds = {"set", "list"}
  Keys = {k1}
  Names = {n1, n2}
  MaxId = 3
  MaxTtl = 0
  BatchSize = 1
  Serializable = FALSE
SPECIFICATION Spec
SYMMETRY RowSymmetry
INVARIANTS
  TypeOK
  OneRowPerName
PROPERTIES
  TrimKeepsRange
  SweepSparesNew
