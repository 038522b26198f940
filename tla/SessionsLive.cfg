SPECIFICATION FairSpec
CONSTANTS
  Conn = {c1, c2}
  User = {u1}
  Name = {n1}
  None = None
  Inode = {1, 2}
  MaxId = 1
  MaxFiles = 1
  MaxSize = 2
  Extra = 1
  BufferSize = 2
  GetLists <- MCOwnGets
  Faults = {"library", "open", "crash"}
PROPERTIES GetEnds LoggedFilesKept LoggingTakesEffect
CHECK_DEADLOCK FALSE
