SPECIFICATION Spec
CONSTANTS
  None = None
  Gone = Gone
  Refused = Refused
  Anchors = {a1}
  Themes = {t1, t2}
  Levels = {}
  MaxEdits = 2
  MaxFaults = 1
  MaxCloses = 1
  MaxAttempts = 1
  MaxRounds = 4
  MayLoseAnswers = FALSE
  MayDisconnect = FALSE
  MayLeave = TRUE
INVARIANT NothingDeletedUnasked
CHECK_DEADLOCK FALSE
