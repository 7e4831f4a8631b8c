SPECIFICATION SystemSpec
CONSTANTS
  Requests <- AgainRequests
  Command <- AgainCommand
  Resource <- MCResource
  Decisions <- AgainDecisions
  Decision <- AgainDecision
  Expiries = 0
  Faults = 1
INVARIANT RetryNeverConflicts
CHECK_DEADLOCK FALSE
