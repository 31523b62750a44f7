CONSTANTS
  AutoRecords = {FALSE, TRUE}
  MaxMoves = 2
  MaxCommands = 1
SPECIFICATION Spec
INVARIANTS TypeOK RemembersOwn
PROPERTIES ReleaseStops BlinkEnds
