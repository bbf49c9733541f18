CONSTANTS
  Clients = {tab1, tab2, reviewer}
  Owners = {tab1, tab2}
  Reviewers = {reviewer}
  Sentences = {s1, s2}
  Themes = {term, law}
  Seeds = {seed}
  NoKey = noKey
  NoClause = noClause
  MaxRequests = 4
SPECIFICATION Spec
INVARIANTS
  TypeOK
  SubmittedContentIsOnRecord
  LockFollowsStatus
  AssignmentMirrorsAnnotation
PROPERTY
  RegularMovesFollowMachine
CONSTRAINT UpToFirstIrregularity
CHECK_DEADLOCK FALSE
