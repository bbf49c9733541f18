SPECIFICATION Spec
CONSTANTS
  Sentences = {1}
  None = None
  MaxMoves = 3
PROPERTY AutoPrefillSparesHandWork
CHECK_DEADLOCK FALSE
