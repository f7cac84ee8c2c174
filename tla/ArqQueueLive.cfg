CONSTANTS
  q1 = q1
  sweep = sweep
  u1 = u1
  w1 = w1
  w2 = w2
  Workers = {w1, w2}
  Retriers = {q1}
  Uploaders = {u1}
  Reaper = sweep
  SlowWorkers = FALSE
  RetryRaces = FALSE
  MaxAttempts = 2
  MaxClaims = 3
  DiesOwing = FALSE
  TriesMargin = 1
SPECIFICATION FairArqSpec
INVARIANTS TypeOK AtMostOneRun ProfileIsKept ExtractedIsBacked
PROPERTY GivingUpCostsOne
PROPERTY ImplementsWorkItem
PROPERTY DispatchIsKept
PROPERTY EveryResumeSettles
CHECK_DEADLOCK FALSE
