SPECIFICATION Spec
CONSTANTS
  Requests <- DeskRequests
  Command <- DeskCommand
  Resource <- MCResource
  Expiries = 1
  Faults = 2
INVARIANTS
  SuccessIsDurable
  PromisedReservationExists
PROPERTIES
  TerminalRecordsStay
CHECK_DEADLOCK FALSE
