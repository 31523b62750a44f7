\* Four blocks of two entries; the last block of the table stays empty.
CONSTANTS
  EntriesPerBlock = 2
  MaxStanagBlocks = 4
  ReservedBlocks = 5
  BlockSize = 2
  MaxBytes = 3
  FileLimit = 6
  MaxUnstored = 2
SPECIFICATION Spec
INVARIANTS
  TypeOK
  SlotsMatchCounter
  RecoveryAppends
PROPERTY Implements
