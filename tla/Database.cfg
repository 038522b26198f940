SPECIFICATION DbSpec
CONSTANTS
  User = {u1, u2}
  Name = {n1, n2}
  MaxId = 2
  Faults = {"insert", "freedrow"}
SYMMETRY Symmetry
INVARIANTS DbTypeOK KeysHold
PROPERTY CatalogueSpec
CHECK_DEADLOCK FALSE
