SPECIFICATION GateSpec
CONSTANTS
  s1 = s1
  s2 = s2
  k1 = k1
  k2 = k2
  Servers <- TwoProcesses
  Starts <- MCStarts
  Home <- TwoHomes
  Records <- RevokedRecords
  MaxStream = 3
  MaxTime = 1
  MaxDelay = 1
  MaxEntries = 2
  TTL = 0
  ReadCount = 2
  Callers <- MCCallers
  TokenCounts = {1000}
  MaxGap = 1
  SigningKey = TRUE
  PerThousand = 1
  RequiredProviders = {"openai"}
  PolicyGap = 1
  RequireSigning = FALSE
CHECK_DEADLOCK FALSE
INVARIANT RevokedNotValid
