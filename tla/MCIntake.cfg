SPECIFICATION Spec
CONSTANTS
  a = a  b = b  elsewhere = elsewhere  unnamed = unnamed  ann = ann  bob = bob
  Events <- MCEvents
  Users <- MCUsers
  UserOf <- MCUserOf
  Unnamed <- MCUnnamed
  Elsewhere <- MCElsewhere
  Broken <- MCBroken
  Ttl = 2
  CacheSize = 2
  Window = 2
  Limit = 2
  MaxTime = 5
  MaxDeliveries = 6
INVARIANT RateIsExact
PROPERTY RedeliveryIsDropped
CHECK_DEADLOCK FALSE
