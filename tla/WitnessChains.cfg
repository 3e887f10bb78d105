SPECIFICATION Spec
CONSTANTS
  s1 = s1
  s2 = s2
  Methods = {}
  Inference <- MCNone
  Levels = {2}
  Sampled <- MCSampled
  Never = {}
  Scopes = {}
  MaxMints = 4
  MaxTime = 0
  MaxTokens = 0
  ColdStart = 1
  MinAnchors = 1
  RateLimit = 1
  PerThousand = 1
  MaxGap = 1
  Begun <- MCBegun
  MaxHandles = 2
  TrustLevels = {1, 2, 3}
  MinTrust = 2
  Strict = TRUE
  Versions = {0, 1}
  MaxHandoffs = 3
CHECK_DEADLOCK FALSE
INVARIANTS
  LineOfOneHandle
  ParentsOlder
  TrustTrail
