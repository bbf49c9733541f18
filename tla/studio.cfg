SPECIFICATION Spec
CONSTANTS
  None = None
  Sent = Sent
  LabRuns = {r1, r2}
  LabWorkers = {w1, w2}
  GridRuns = {r1}
  MaxAttempts = 2
  MaxLabCrashes = 1
  LabStages = {"queued"}
  LabVerdicts = {"succeeded", "cancelled"}
  MaxLabFaults = 1
  MaxLabAsks = 1
  PageSentences = {1}
  MaxPageMoves = 3
  MaxWrites = 2
  MaxCacheFaults = 1
  MaxCacheCalls = 2
  MaxViews = 1
  MaxParallel = 1
  QueueMax = 1
  DemoTexts = {t1, t2}
  Wrong = {t2}
  Contracts = {"c1"}
  MaxDemoMoves = 3
  MaxThreads = 2
  MaxExportMoves = 3
  AnalysisIds = {1, 2}
  AnalysisWorkers = {w1, w2}
  Metrics = 1
  MaxAnalysisCrashes = 1
CONSTRAINT Uncontested
CONSTRAINT OneDialog
CONSTRAINT FaultsAlone
INVARIANT PageShowsOwnWrites
INVARIANT TurnsAreKept
INVARIANT ShownIsTrue
PROPERTY LifeSpec
PROPERTY HandWorkIsConfirmed
PROPERTY RunsEnd
PROPERTY EndIsShown
CHECK_DEADLOCK FALSE
