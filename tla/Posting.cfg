CONSTANTS
  owner = owner
  m1 = m1
  m2 = m2
  p1 = p1
  d1 = d1
  d2 = d2
  r1 = r1
  r2 = r2
  Owner = owner
  Admins = {m1, m2}
  Applicants = {p1}
  Documents = {d1, d2}
  Requests = {r1, r2}
  MaxMoves = 4
SPECIFICATION PostingSpec
INVARIANTS PublishedHasDate AppliedAfterPublication CreatedStands
PROPERTY OnlyAdminPublishes
SYMMETRY PostingSymmetry
CHECK_DEADLOCK FALSE
