SPECIFICATION Spec
CONSTANTS
  Events <- PairEvents
  Reservation <- PairReservation
  Publishers = {p1}
  BatchSize = 2
  Crashes = 0
  StoreFaults = 0
  KafkaFaults = 1
  Resends = 0
INVARIANT OrderPerReservation
CHECK_DEADLOCK FALSE
