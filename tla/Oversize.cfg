SPECIFICATION Spec
CONSTANTS
  Text <- MCText
  Numeral <- MCNumeral
  Modulus = 16
  BufferSize = 6
  MaxRequestSize = 2
  MaxFiles = 2
  MaxSaid = 4
  MaxRushed = 2
INVARIANT OversizeRefused
CHECK_DEADLOCK FALSE
