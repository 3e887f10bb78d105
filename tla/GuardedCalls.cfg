SPECIFICATION Spec
CONSTANTS
  c1 = c1
  c2 = c2
  c3 = c3
  Calls <- MCCalls
  HooksOfCall <- MCHooks
  Tools = {"search", "watched", "shell"}
  Blocklist = {"shell"}
  Allowlist = {"search", "watched"}
  RuleOf <- MCRuleOf
  Limit = 2
  Span = 1
  MaxDepth = 2
  Budget = 1
  MaxTime = 1
  MaxResets = 1
CHECK_DEADLOCK FALSE
SYMMETRY Symmetry
INVARIANTS
  TypeOK
  RecordedOnce
  VelocityHeld
  DepthHeld
