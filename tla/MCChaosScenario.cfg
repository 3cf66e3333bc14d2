SPECIFICATION ScenarioFairSpec
CONSTANTS
  VerifyRefs = {"none", "known", "unknown"}
  Transports = {"skip", "local", "remote"}
  MaxCalls = 3
INVARIANTS
  ScenarioTypeOK
  ReportsAgree
  SuccessMeansLoadLanded
  UrlFollowsTunnel
PROPERTIES
  ScenarioEnds
