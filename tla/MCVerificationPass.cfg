SPECIFICATION Spec
CONSTANTS
  HOLD_TRAILING_ERROR_SAMPLES = 2
  NumEntries = 6
  Kind <- MCKind
  Window <- MCWindow
  PollInterval <- MCPollInterval
  VERIFICATION_TIMEOUT_SEC = 3
  MIN_LEAF_BUDGET_SECONDS = 2
  Overrides <- MCOverrides
  MaxLag = 1
  MaxOverrun = 1
  MaxCall = 2
INVARIANTS
  TypeOK
  NoEntryStarves
  UnobservedStaysUnresolved
  EveryEntryIsReported
  SoakCoversWindow
  SoakStaysInGrant
