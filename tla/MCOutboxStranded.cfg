SPECIFICATION FairSpec
CONSTANTS
  Events <- PairEvents
  Reservation <- PairReservation
  Publishers = {p1}
  BatchSize = 1
  Crashes = 1
  StoreFaults = 0
  KafkaFaults = 0
  Resends = 0
PROPERTIES
  EventuallyPublished
CHECK_DEADLOCK FALSE
