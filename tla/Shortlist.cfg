CONSTANTS
  e1 = e1
  e2 = e2
  Questions = {1, 2}
  Stakes <- TwoStakes
  Screenings = {1, 2}
  Editors = {e1, e2}
  MaxJudgings = 2
  MaxRequirements = 2
  MaxRows = 3
  MaxEdits = 2
  MaxAttempts = 2
  MaxVersion = 2
SPECIFICATION ShortlistSpec
INVARIANTS RankedAnswersItsQuestion RanksAreTotal
PROPERTY WeightsAreFree
SYMMETRY EditorSymmetry
CHECK_DEADLOCK FALSE
