CONSTANTS
  HwStates <- MCHwStates
  Sites <- MCSites
  SilentPasses = 1
  SyncLoopMax = 1
  Critical = {"NO_SIGNAL", "NO_CLOCK", "SYNC_ERROR", "CONFIG_FAIL"}
SPECIFICATION HealthSpec
INVARIANTS HealthTypeOK OnlyConfigured
PROPERTIES SilenceShows GoodShows
