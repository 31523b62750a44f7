\* Two cartridges swapped at any time while the operator works.
CONSTANTS
  Cartridges = {A, B}
  NoCartridge = NoCartridge
  TimeUnset = TRUE
  SwitchOn = TRUE
  PlaysOn = TRUE
SPECIFICATION Spec
INVARIANTS
  TypeOK
  AbsenceIsKnown
  RecordsByItsOwnTable
PROPERTIES
  RemovalEndsRecording
CHECK_DEADLOCK FALSE
