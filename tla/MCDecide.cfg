SPECIFICATION SystemSpec
CONSTANTS
  Requests <- LabRequests
  Command <- LabCommand
  Resource <- MCResource
  Decisions <- LabDecisions
  Decision <- LabDecision
  Expiries = 0
  Faults = 2
INVARIANTS
  SystemTypeOK
  OverbookingNeedsARace
  DecisionsAccount
  ListingsShowDecisions
  NothingUnreadable
  AnswersHold
PROPERTIES
  DecisionsStand
CHECK_DEADLOCK FALSE
