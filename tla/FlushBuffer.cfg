SPECIFICATION FairSpec
CONSTANTS
  p1 = p1
  p2 = p2
  Payload <- MCPayload
  Conforming <- MCConforming
  Tokens <- MCTokens
  BufferSize = 2
  TokenBudget = 4
  MaxRetries = 2
  MaxRetryBuffer = 1
INVARIANTS
  TypeOK
  OnePlace
  QueueIsNewest
  DuplicateOnlyAfterFailure
PROPERTIES
  DeliverySpec
  EventuallySettled
  StopReturns
