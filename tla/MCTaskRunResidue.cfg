SPECIFICATION FairSpec
CONSTANTS
  VerifyRefs = {"known"}
  Transports = {"local"}
  MaxCalls = 1
  Clusters = {"kept"}
  Boundaries = {"sandboxed"}
INVARIANTS
  ResidueIsAlwaysSurfaced
