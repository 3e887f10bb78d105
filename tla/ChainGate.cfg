SPECIFICATION GateSpec
CONSTANTS
  s1 = s1
  s2 = s2
  k1 = k1
  k2 = k2
  Servers <- OneProcess
  Starts <- MCStarts
  Home <- OneHome
  Records <- MCRecords
  MaxStream = 3
  MaxTime = 1
  MaxDelay = 0
  MaxEntries = 2
  TTL = 0
  ReadCount = 2
  Callers <- MCCallers
  TokenCounts = {1000}
  MaxGap = 0
  SigningKey = TRUE
  PerThousand = 2
  RequiredProviders = {"openai"}
  PolicyGap = 1
  RequireSigning = TRUE
CHECK_DEADLOCK FALSE
SYMMETRY Symmetry
INVARIANTS
  IndexTypeOK
  IndexWhole
  ReadByOne
  FailureRemembered
