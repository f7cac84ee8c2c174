CONSTANTS
  q1 = q1
  sweep = sweep
  w1 = w1
  w2 = w2
  Workers = {w1, w2}
  Retriers = {q1}
  Uploaders = {}
  Reaper = sweep
  SlowWorkers = FALSE
  RetryRaces = FALSE
  MaxAttempts = 3
  MaxClaims = 6
  DiesOwing = FALSE
  TriesMargin = 2
SPECIFICATION ArqSpec
INVARIANT PendingIsDispatched
CHECK_DEADLOCK FALSE
SYMMETRY Symmetry
