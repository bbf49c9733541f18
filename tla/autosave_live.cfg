SPECIFICATION FairSpec
CONSTANTS
  None = None
  Gone = Gone
  Refused = Refused
  Anchors = {a1}
  Themes = {t1, t2}
  Levels = {}
  MaxEdits = 2
  MaxFaults = 2
  MaxCloses = 1
  MaxAttempts = 2
  MaxRounds = 6
  MayLoseAnswers = TRUE
  MayDisconnect = FALSE
  MayLeave = FALSE
PROPERTY BehindSpec
PROPERTY EventuallySavedOrShown
CHECK_DEADLOCK FALSE
