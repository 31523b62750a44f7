SPECIFICATION Spec
CONSTANTS
  GoodSetups = {0, 1}
  BadSetups = {2}
  WithChannel = {1}
  FirstConfigs = {"other"}
  MaxSets = 1
  MaxStores = 2
INVARIANTS
  TypeOK
PROPERTIES
  SavedComesBack
  UnsavedStaysOut
  FileMended
