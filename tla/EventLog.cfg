\* A ring that fills and rolls over; events and an erase come at any time.
CONSTANTS
  RingSize = 6
  Batch = 2
  MaxEvents = 7
SPECIFICATION Spec
INVARIANTS
  TypeOK
  HandedInOrder
  NothingElseForgotten
PROPERTY BacklogDrains
