CONSTANTS
  Slots <- MCSlots
  Ids <- MCIds
  SetupNumbers = {0, 1}
  Disks <- MCDisks
  Texts <- MCTexts
  Cartridges <- MCCartridges
  MaxEdits = 1
SPECIFICATION FilesSpec
INVARIANTS ConfiguredAsStated TypesAsStated RecordedAsConfigured
