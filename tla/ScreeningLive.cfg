CONSTANTS
  w1 = w1
  a1 = a1
  d1 = d1
  p1 = p1
  sweep = sweep
  none = none
  Workers = {w1}
  Askers = {a1}
  Deciders = {d1}
  Reaper = sweep
  Postings = {p1}
  NoPosting = none
  OwnResume = TRUE
  Races = {"log"}
  MaxAttempts = 2
  MaxClaims = 3
  MaxEvents = 9
SPECIFICATION FairSpec
INVARIANT EveryEventWasLegal
PROPERTIES ScreeningEnds PartOnlyByOvertaking
CHECK_DEADLOCK FALSE
