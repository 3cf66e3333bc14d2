SPECIFICATION Spec
CONSTANTS
  A = "A"
  B = "B"
  report = "report"
  seed = "seed"
  skills = "skills"
  Tasks <- MCTasks
  Names <- MCNames
  Baseline <- MCBaseline
  Plans <- MCPlans
  MaxK = 3
INVARIANTS
  FlagsAreDeserved
  ResultsOutliveScoring
  LatestAttemptCounts
  SandboxIsLeftClean
