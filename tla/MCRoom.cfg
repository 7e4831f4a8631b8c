SPECIFICATION SystemSpec
CONSTANTS
  Requests <- RoomRequests
  Command <- RoomCommand
  Resource <- MCResource
  Decisions <- RoomDecisions
  Decision <- RoomDecision
  Expiries = 0
  Faults = 0
INVARIANTS
  OverbookingNeedsARace
CHECK_DEADLOCK FALSE
