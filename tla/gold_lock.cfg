CONSTANTS
  lead = lead
  reviewer = reviewer
  ann1 = ann1
  ann2 = ann2
  noUser = noUser
  noTheme = noTheme
  unread = unread
  Themes <- MCThemes
  Annotators <- MCAnnotators
  Expected <- MCAnnotators
  NoTheme <- noTheme
  Users <- MCUsers
  Arbiters <- MCUsers
  Leads <- MCLeads
  NoUser <- noUser
  Unread <- unread
  Sentences <- TwoSentences
  Ballots <- MCBallots
  Configs <- TwoConfigs
  LeaseTicks = 2
  MaxRevisions = 1
  MaxRequests = 2
SPECIFICATION MCSpec
INVARIANTS
  TypeOK
PROPERTIES
  NobodyWritesUnderAnothersLock
  LockSpec
ACTION_CONSTRAINT LockScope
CHECK_DEADLOCK FALSE
