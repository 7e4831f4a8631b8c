SPECIFICATION SystemSpec
CONSTANTS
  Requests <- RaceRequests
  Command <- RaceCommand
  Resource <- MCResource
  Decisions <- NoDecisions
  Decision <- NoDecision
  Expiries = 0
  Faults = 0
INVARIANT NeverOverbooked
CHECK_DEADLOCK FALSE
