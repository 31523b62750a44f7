CONSTANTS
  Panels = {"1", "2", "airbus", "4", "zero", "lockheed", "P3"}
  AutoRecords = {TRUE, FALSE}
  MaxChanges = 1
  MaxMoves = 3
SPECIFICATION Spec
INVARIANT TypeOK
PROPERTIES EraseNeedsSwitches ReleasedEnds FaultShows
CHECK_DEADLOCK FALSE
