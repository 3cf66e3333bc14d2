SPECIFICATION FairSpec
CONSTANTS
  HOLD_TRAILING_ERROR_SAMPLES = 2
  NumEntries = 2
  Interval <- MCInterval
  SCHEDULER_TICK_SEC = 1
  MaxStops = 2
  MaxTime = 3
INVARIANTS
  TypeOK
  ObservationIsFaithful
  SamplesAreSpaced
  AtMostOneLateSample
  WindowCoversViolation
PROPERTIES
  HarnessIsNotHeld
  ThreadEnds
