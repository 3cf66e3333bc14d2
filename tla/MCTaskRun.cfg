SPECIFICATION FairSpec
CONSTANTS
  VerifyRefs = {"known"}
  Transports = {"local"}
  MaxCalls = 1
  Clusters = {"no_infra", "noop", "kept", "destroyed"}
  Boundaries = {"ambient", "sandboxed", "exempt"}
INVARIANTS
  TypeOK
  VerificationStatusIsTruthful
  SandboxedIsTruthful
  ResidueIsSurfaced
PROPERTIES
  ImplementsLifecycle
  RunEnds
