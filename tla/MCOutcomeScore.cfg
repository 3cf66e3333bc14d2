SPECIFICATION Spec
CONSTANTS
  DefaultInterval = 3
  Specs <- MCSpecs
  Questions <- MCQuestions
  Items = 2
  Unit = 6
INVARIANTS
  ScoreIsEarned
  VerdictFollowsEvidence
  ChecksExplainScores
