SPECIFICATION SystemSpec
CONSTANTS
  Requests <- AgainRequests
  Command <- AgainCommand
  Resource <- MCResource
  Decisions <- AgainDecisions
  Decision <- AgainDecision
  Expiries = 0
  Faults = 0
INVARIANT EveryTransitionHasEvent
CHECK_DEADLOCK FALSE
