SPECIFICATION FairSpec
CONSTANTS
  p1 = p1
  p2 = p2
  c1 = c1
  c2 = c2
  daemon = daemon
  Payload <- MCPayload
  Caller <- MCOneCaller
  Daemon <- daemon
  BufferSize = 2
  MaxRetries = 2
  MaxRetryBuffer = 1
INVARIANTS
  TypeOK
  OnePlace
PROPERTIES
  DeliverySpec
  EventuallySettled
  StopReturns
