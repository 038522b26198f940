SPECIFICATION FairSpec
CONSTANTS
  Text <- MCText
  Numeral <- MCNumeral
  Modulus = 16
  BufferSize = 6
  MaxRequestSize = 10
  MaxFiles = 2
  MaxSaid = 4
  MaxRushed = 2
INVARIANTS TypeOK HeardAsSaid RepliesIntact
 
CHECK_DEADLOCK FALSE
