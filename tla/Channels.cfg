CONSTANTS
  BoardLists <- MCBoardLists
  Setups <- MCSetups
  Slots <- MCSlots
  Requests <- MCRequests
  Addresses = {here, there}
  Four = 1
SPECIFICATION Spec
INVARIANTS TypeOK PublishedIsAsked
PROPERTIES DroppedStops PauseIsSeen
