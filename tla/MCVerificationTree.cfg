SPECIFICATION Spec
CONSTANTS
  Entries <- MCEntries
  MinLeaf = 1
  Grace = 3
  Ceiling = 4
  InitialDelay = 1
  MaxDelay = 2
  MaxChanges = 1
  MaxErrors = 1
INVARIANTS
  TypeOK
  VerdictIsJustified
  EndsInTime
  VerdictIsTrue
