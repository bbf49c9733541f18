CONSTANTS
  lead = lead
  reviewer = reviewer
  ann1 = ann1
  ann2 = ann2
  noUser = noUser
  noTheme = noTheme
  unread = unread
  Themes <- MCThemes
  Annotators <- MCAnnotators
  Expected <- MCAnnotators
  NoTheme <- noTheme
  Users <- MCUsers
  Arbiters <- MCUsers
  Leads <- MCLeads
  NoUser <- noUser
  Unread <- unread
  Sentences <- OneSentence
  Ballots <- MCBallots
  Configs <- OneConfig
  LeaseTicks = 1
  MaxRevisions = 1
  MaxRequests = 3
SPECIFICATION MCSpec
INVARIANTS
  AutoGoldIsTheProposal
  HumanDecisionStands
  FrozenGoldIsComplete
PROPERTIES
  FrozenGoldResistsDecisions
  OnlyStaleReadsUndoDecisions
  AutoGoldNeedsVoices
ACTION_CONSTRAINT RaceScope
CHECK_DEADLOCK FALSE
