CONSTANTS
  a1 = a1
  a2 = a2
  k1 = k1
  k2 = k2
  n1 = n1
  n2 = n2
  n3 = n3
  n4 = n4
  Aggregators = {a1, a2}
  Keys = {k1, k2}
  Rows = {n1, n3, n4}
  KeyOf <- RowKeys
  ValueOf <- Values
  TtlOf <- RowTtls
  MaxTtl = 0
  BatchSize = 2
  Sweeping = TRUE
  ReadKeys = {k2}
SPECIFICATION LiveSpec
INVARIANTS
  TypeOK
  Conservation
  NothingMissed
PROPERTIES
  AllAggregated
