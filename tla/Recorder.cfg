\* One source of commands at a time: a COM port, or the switch.
CONSTANTS
  Deployments = {{"com"}, {"switch"}}
  BitPasses = 2
  RootTries = 2
  NamedWhileRecording = FALSE
SPECIFICATION Spec
INVARIANTS
  TypeOK
  HardwareFollowsState
PROPERTIES
  FaultStopsRecording
  StopStops
