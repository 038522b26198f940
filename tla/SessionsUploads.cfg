SPECIFICATION DisciplinedSpec
CONSTANTS
  Conn = {c1, c2}
  User = {u1}
  Name = {n1, n2}
  None = None
  Inode = {1, 2, 3, 4}
  MaxId = 3
  MaxFiles = 2
  MaxSize = 2
  Extra = 1
  BufferSize = 1
  GetLists = {}
  Faults = {}
SYMMETRY Symmetry
INVARIANTS TypeOK FilesAreComplete
PROPERTIES LoggingTakesEffect
CHECK_DEADLOCK FALSE
