SPECIFICATION Spec
CONSTANTS
  None = None
  a = a
  b = b
  j1 = j1
  j2 = j2
  j3 = j3
  Themes = {1, 2, 3}
  Annotators = {j1, j2, j3}
  NoTheme = None
  Configurations <- SmallConfigurations
  CastBallots <- SmallBallots
  TriageRefuges = {"preamble"}
  TriageClusters <- SmallClusters
  TriageOver <- SmallOver
  TriageRank <- SmallRank
  MaxTriage = 4
  LaunchPresets = {"small", "wide"}
  LaunchLarge = {"wide"}
  LaunchDatasets <- SmallDatasets
  MaxMade = 2
  MaxLaunches = 7
  TalkSentences = {0, 1}
  TalkTexts = {"t1"}
  TalkEarlier <- SmallEarlier
  MaxTalk = 4
  FigureRuns = {1, 2}
  MaxFigures = 4
  MaxFigureFaults = 1
  TranslationAdmins = {j1, j2}
  TranslationSets = {"bySentence", "whole"}
  WholeTranslations = {"whole"}
  TranslationSentences = {0, 1}
  TranslationFiles <- SmallFiles
  BlankLine = 9
  MaxTranslations = 4
  DeskRows = {0, 2}
  DeskFavoured = "content"
  DeskRival = "licence"
  DeskRefuge = "other"
  MaxDesk = 4
  BacklogSentences = {0, 1, 2}
  BacklogLevels = {"C1", "C2", "C3", "C5"}
  BacklogMajor = "content"
  BacklogMinor = "licence"
  MaxBacklog = 3
  PlanSentences = {0, 1, 2}
  MaxPlan = 4
  DatasetCriteria <- SmallCriteria
  MaxDatasetVersion = 2
  MaxDatasetMoves = 5
  ComputeLogins = {"jdoe"}
  ComputeSecrets = {"old", "new"}
  MaxCompute = 7
  SettingsMembers <- SmallMembers
  SettingsPolicies = {"advisory", "required"}
  MaxSettings = 4
  CampaignDocuments <- SmallDocuments
  CampaignUsers <- SmallUsers
  CampaignOpenings <- SmallOpenings
  CampaignInvited = {"u1"}
  MaxCampaign = 3
  AidSentences = 3
  AidJudges = {j1, j2, j3}
  AidJudged <- SmallJudged
  AidMarked = {1}
  AidFrench = {0}
  MaxAids = 4
INVARIANT ProposalsAreEarned
INVARIANT TwinsAgree
INVARIANT WalksMissNothing
INVARIANT OperationsStayInBounds
INVARIANT LateAnswersMisleadNobody
INVARIANT ChosenByAHuman
INVARIANT DoneOnce
PROPERTY StepsDoWhatTheyShow
CHECK_DEADLOCK FALSE
