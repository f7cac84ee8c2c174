CONSTANTS
  w1 = w1
  a1 = a1
  a2 = a2
  d1 = d1
  p1 = p1
  p2 = p2
  sweep = sweep
  none = none
  Workers = {w1}
  Askers = {a1, a2}
  Deciders = {d1}
  Reaper = sweep
  Postings = {p1, p2}
  NoPosting = none
  OwnResume = FALSE
  Races = {}
  MaxAttempts = 2
  MaxClaims = 3
  MaxEvents = 5
SPECIFICATION Spec
SYMMETRY Symmetric
INVARIANTS InStep LogReplays ScreenedHasResult
PROPERTY TerminalStands
CHECK_DEADLOCK FALSE
