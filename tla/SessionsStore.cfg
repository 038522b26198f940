SPECIFICATION DisciplinedSpec
CONSTANTS
  Conn = {c1, c2}
  User = {u1, u2}
  Name = {n1}
  None = None
  Inode = {1, 2}
  MaxId = 1
  MaxFiles = 1
  MaxSize = 2
  Extra = 0
  BufferSize = 1
  GetLists <- MCSingleGets
  Faults <- MCSafeFaults
SYMMETRY Symmetry
INVARIANTS RowsHaveFiles FilesAreWhole SentAsAnnounced
CHECK_DEADLOCK FALSE
