SPECIFICATION Spec
CONSTANTS
  a = a
  b = b
  c = c
  admin = admin
  desk = desk
  Requests = {a, b, c}
  Staff = {admin}
  Resources = {desk}
  Calls <- MCCalls
  Lifetime = 2
  Ttl = 1
  MaxTime = 2
  Faults = 1
INVARIANTS
  CatalogTypeOK
  OneAccountPerAddress
  OwnerGetsIn
  SessionsEnd
  LostUpdateNeedsARace
  StalenessBounded
  ImportsAreListed
CHECK_DEADLOCK FALSE
