SPECIFICATION Spec
CONSTANTS
  s1 = s1
  s2 = s2
  Methods <- MCMethods
  Inference <- MCInference
  Levels = {2, 3}
  Sampled <- MCSampled
  Never <- MCNever
  Scopes <- MCScopes
  MaxMints = 3
  MaxTime = 2
  MaxTokens = 1
  ColdStart = 1
  MinAnchors = 1
  RateLimit = 1
  PerThousand = 1
  MaxGap = 1
  Begun <- MCBegun
  MaxHandles = 1
  TrustLevels = {}
  MinTrust = 2
  Strict = FALSE
  Versions = {}
  MaxHandoffs = 0
CHECK_DEADLOCK FALSE
SYMMETRY Symmetry
INVARIANTS
  TypeOK
  Accounted
  FactorsOnly
