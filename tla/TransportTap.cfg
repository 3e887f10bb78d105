SPECIFICATION FairSpec
CONSTANTS
  c1 = c1
  c2 = c2
  c3 = c3
  Call <- MCCall
  MaxBuffer = 2
  BatchSize = 2
  MaxRetries = 2
  MaxRetryBuffer = 2
CONSTRAINT MCInOrder
INVARIANTS
  TypeOK
  Accounted
  ReceiptsTrue
PROPERTIES
  DeliverySpec
  EventuallySettled
