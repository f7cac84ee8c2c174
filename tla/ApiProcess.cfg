CONSTANTS
  q1 = q1
  sweep = sweep
  w1 = w1
  Workers = {w1}
  Retriers = {q1}
  Uploaders = {}
  Reaper = sweep
  SlowWorkers = FALSE
  RetryRaces = FALSE
  MaxAttempts = 2
  MaxClaims = 3
SPECIFICATION ApiSpec
INVARIANTS AnswerHasItsProfile PendingIsDue
PROPERTIES WaitEnds PageNeverGoesBack EveryRowSettles
CHECK_DEADLOCK FALSE
