SPECIFICATION WorkerFairSpec
CONSTANTS
  Events <- MCEvents
  Reservation <- MCReservation
  Publishers = {p1, p2}
  BatchSize = 2
  Crashes = 1
  StoreFaults = 1
  KafkaFaults = 1
  Resends = 1
  QueryFaults = 1
  kMaxInt = 20000
  Environments <- MCEnvironments
  Unreadable = {2}
INVARIANTS
  ServingStaysReady
  QuietWhenStopped
  TimeoutFitsInt
PROPERTIES
  ImplementsRelay
  StopEnds
  OnlyUnreadableBlocks
CHECK_DEADLOCK FALSE
