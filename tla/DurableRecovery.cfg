SPECIFICATION Spec
CONSTANTS
  a1 = a1
  a2 = a2
  Anchor <- MCAnchor
  ReplayWindow = 1
  RotateAt = 2
  BufferSize = 2
  MaxRetries = 1
  MaxRetryBuffer = 2
  MaxSeq = 3
  MaxFaults = 1
INVARIANT UnsentReplayed
