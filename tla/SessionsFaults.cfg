SPECIFICATION Spec
CONSTANTS
  Conn = {c1, c2}
  User = {u1, u2}
  Name = {n1}
  None = None
  Inode = {1}
  MaxId = 1
  MaxFiles = 1
  MaxSize = 0
  Extra = 0
  BufferSize = 1
  GetLists <- MCSingleGets
  Faults <- MCFaultKinds
SYMMETRY Symmetry
INVARIANT ClashesAreOfOnePath
PROPERTIES DbSpec OnlyOwnersPublish
CHECK_DEADLOCK FALSE
