CONSTANTS
  w1 = w1
  w2 = w2
  upper = upper
  other = other
  Writers = {w1, w2}
  Texts = {w1, w2}
  Setters = {w1, w2}
  FilterTexts = {upper, other}
  Match <- LineContains
  NoText = NoText
  None = None
  MaxFilters = 2
  MaxEvents = 2
SPECIFICATION LogSpec
INVARIANT SelectionAsDrawn
INVARIANT QuietLogComplete
PROPERTY FilterCatchesUp
CHECK_DEADLOCK TRUE
