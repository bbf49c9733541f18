SPECIFICATION Spec
CONSTANTS
  None = None
  Gone = Gone
  Refused = Refused
  Anchors = {a1, a2}
  Themes = {t1}
  Levels = {l1}
  MaxEdits = 2
  MaxFaults = 1
  MaxCloses = 1
  MaxAttempts = 1
  MaxRounds = 4
  MayLoseAnswers = TRUE
  MayDisconnect = TRUE
  MayLeave = TRUE
INVARIANT PassesAreSound
PROPERTY SubmittedIsRecent
CHECK_DEADLOCK FALSE
