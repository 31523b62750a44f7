\* The operator gives .RECORD with a name during a recording.
CONSTANTS
  Deployments = {{"com"}}
  BitPasses = 2
  RootTries = 2
  NamedWhileRecording = TRUE
SPECIFICATION Spec
PROPERTY
  StopStops
