SPECIFICATION Spec
CONSTANTS
  Conn = {c1, c2}
  User = {u1}
  Name = {n1}
  None = None
  Inode = {1, 2}
  MaxId = 1
  MaxFiles = 1
  MaxSize = 1
  Extra = 0
  BufferSize = 1
  GetLists = {}
  Faults = {"mkdir"}
PROPERTY LoggedWasWritten
CHECK_DEADLOCK FALSE
