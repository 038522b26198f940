SPECIFICATION FairSpec
CONSTANTS
  Conn = {c1, c2, c3}
  Workers = 2
  MaxIdle = 1
INVARIANTS TypeOK HandlersNeverOverlap ActiveAreOpen NothingRunsAtTheEnd
PROPERTY StopEnds
CHECK_DEADLOCK FALSE
