SPECIFICATION Spec
CONSTANTS
  Char <- Characters
  Line <- Lines
  Key <- Names
  DefaultText <- Defaults
  Database <- Databases
  MaxNumber = 5000
  MaxFiles = 2
  MaxLines = 2
  MaxIdle = 1
INVARIANTS TypeOK SettingsAsWritten AcceptsReady
CHECK_DEADLOCK FALSE
