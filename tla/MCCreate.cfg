SPECIFICATION FairSpec
CONSTANTS
  Requests <- RivalRequests
  Command <- RivalCommand
  Resource <- MCResource
  Expiries = 0
  Faults = 1
INVARIANTS
  TypeOK
  OneReservationPerKey
  RejectionLeavesNothing
  RepliesAgree
  PayloadsKeptApart
  AbandonedOnlyByFault
PROPERTIES
  ClaimsResolve
  ImplementsPromise
CHECK_DEADLOCK FALSE
