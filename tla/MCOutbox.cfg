SPECIFICATION FairSpec
CONSTANTS
  Events <- PairEvents
  Reservation <- PairReservation
  Publishers = {p1, p2}
  BatchSize = 1
  Crashes = 1
  StoreFaults = 1
  KafkaFaults = 2
  Resends = 1
INVARIANTS
  TypeOK
  ExclusiveClaim
  PublishedWasDelivered
  CopiesCounted
  StrandedOnlyByFault
PROPERTIES
  NoResendAfterAck
  ImplementsDelivery
  PublishedOrStranded
CHECK_DEADLOCK FALSE
