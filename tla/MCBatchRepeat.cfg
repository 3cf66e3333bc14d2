SPECIFICATION Spec
CONSTANTS
  A = "A"
  B = "B"
  report = "report"
  seed = "seed"
  skills = "skills"
  Tasks <- MCTasks
  Names <- MCNames
  Baseline <- MCBaseline
  Plans <- MCMixed
  MaxK = 3
INVARIANTS
  HonestRunsPass
