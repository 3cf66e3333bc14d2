SPECIFICATION Spec
CONSTANTS
  Runs = {r1, r2}
  Nobody = Nobody
  Namespaces = {app, sys}
  Exempt = {sys}
  Plans <- MCPlans
  MaxFailures = 1
  MaxCrashes = 1
SYMMETRY Symmetry
INVARIANTS
  TypeOK
  CleanMeansRemoved
  EnforcedWhileAgentRuns
  QuotaFollowsTask
PROPERTY
  SettledLevelsSurvive
CHECK_DEADLOCK FALSE
