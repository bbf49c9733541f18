------------------------------ MODULE MCReading ------------------------------
(***************************************************************************)
(* The pages of the studio that only answer their user and the             *)
(* calculations they rest on, one at a time: the state of the others is    *)
(* not there.                                                              *)
(***************************************************************************)
EXTENDS Naturals, FiniteSets, Sequences, GoldScoring

CONSTANTS None, a, b, j1, j2, j3
\* The pages the proofs are about have any size (see the modules for what each is).
CONSTANTS
  Configurations, CastBallots,
  TriageRefuges, TriageClusters, TriageOver, TriageRank, MaxTriage,
  LaunchPresets, LaunchLarge, LaunchDatasets, MaxMade, MaxLaunches,
  TalkSentences, TalkTexts, TalkEarlier, MaxTalk,
  FigureRuns, MaxFigures, MaxFigureFaults,
  TranslationAdmins, TranslationSets, WholeTranslations, TranslationSentences, TranslationFiles,
    BlankLine, MaxTranslations,
  DeskRows, DeskFavoured, DeskRival, DeskRefuge, MaxDesk,
  BacklogSentences, BacklogLevels, BacklogMajor, BacklogMinor, MaxBacklog,
  PlanSentences, MaxPlan,
  DatasetCriteria, MaxDatasetVersion, MaxDatasetMoves,
  ComputeLogins, ComputeSecrets, MaxCompute,
  SettingsMembers, SettingsPolicies, MaxSettings,
  CampaignDocuments, CampaignUsers, CampaignOpenings, CampaignInvited, MaxCampaign,
  AidSentences, AidJudges, AidJudged, AidMarked, AidFrench, MaxAids
VARIABLES here,
  drafts, readOnly, source, sel, mouse, ui, gestures,
  ballots, cfg,
  votes,
  themes, annotation, unsure, edits,
  pointer, hover, hoverTimer, lens, lensTimer, pinned, popup, marks, orphan, focus, aidsSource,
    panel, version, arrived, ruler, lang, translated, moves,
  tab, armed, open, launcherArrived, form, asked, disturbed, made, taken, lost, launcherMoves,
  mock, server, projectLocked, apart, requests,
  kinds, goldServer, rows, finalized, mine, selected, filter, park, draft, request, refused,
    confirming, pointed, goldMoves,
  stored, config, fetched, settingsDraft, touched, saving, success, applied, query, settingsOpen,
    active, closing, settingsMoves,
  datasetVersion, criteria, waiting, previews, report, loading, builds, datasets, building,
    message, datasetMoves,
  computeStored, tests, overlapped, configured, known, login, secret, busy, computeAsked,
    computeMoves,
  levels, ready, backlogOpen, pos, pushed, fresh, done, focused, selection, written, helping,
    backlogMoves,
  label, gold, resultVotes, taxonomy, onlyDisagreements,
  members, assigned, project, sessions, shown, fetch, writes, unheard, campaignBusy, campaignMoves,
  place, tags, pickerQuery, pickerActive, pickerMouse, timer, tooltip, pickerFocus, gesture,
    pickerMoves,
  file, translationsRows, status, syncs, translationsWritten, page, translationsMoves,
  clauses, commentsFocused, commentsSelection, clause, commentsStored, commentsShown,
    commentsFetch, posts, resolving, commentsUnheard, commentsPanel, thread, commentsLost,
    commentsMoves,
  planClauses, planFocused, chosen, walk, planMoves,
  run, pdf, saves, figuresShown, seen, printed, loaded, calls, figuresMoves, faults

docClause(t, o) == [theme |-> t, ok |-> o]
Document == INSTANCE DocumentGestures WITH NSentences <- 4, Themes <- {a, b}, MaxGestures <- 4,
  Judged <- [i \in {0, 2} |-> IF i = 0 THEN a ELSE b],
  Openings <- {[i \in 0 .. 3 |-> CASE i = 0 -> docClause(a, FALSE) [] i = 1 -> docClause(None, FALSE)
                                   [] i = 2 -> docClause(a, TRUE) [] i = 3 -> docClause(b, FALSE)]}
Scoring == INSTANCE MCGoldScoring
Triage == INSTANCE Triage WITH Refuges <- TriageRefuges, MinJudges <- 2, MaxJudges <- MaxTriage,
  Clusters <- TriageClusters, Over <- TriageOver, Rank <- TriageRank
Views == INSTANCE MCViews WITH NSentences <- 3, MaxEdits <- 2
Aids == INSTANCE ReadingAids WITH NSentences <- AidSentences, Judges <- AidJudges, Judged <- AidJudged,
  Marked <- AidMarked, French <- AidFrench, MaxMoves <- MaxAids, source <- aidsSource
Launcher == INSTANCE LabForms WITH Presets <- LaunchPresets, Large <- LaunchLarge, Datasets <- LaunchDatasets,
  MaxMoves <- MaxLaunches, arrived <- launcherArrived, moves <- launcherMoves
Mock == INSTANCE MockServer WITH Anchors <- {0}, Themes <- {"licence", "content"}, MaxRequests <- 4
Desk == INSTANCE GoldDesk WITH Rows <- DeskRows, Favoured <- DeskFavoured, Rival <- DeskRival,
  Refuge <- DeskRefuge, MaxMoves <- MaxDesk, server <- goldServer, moves <- goldMoves
Settings == INSTANCE GoldSettings WITH Members <- SettingsMembers, Policies <- SettingsPolicies, MaxMoves <- MaxSettings,
  draft <- settingsDraft, open <- settingsOpen, moves <- settingsMoves
Datasets == INSTANCE DatasetForm WITH Criteria <- DatasetCriteria, MaxVersion <- MaxDatasetVersion,
  MaxMoves <- MaxDatasetMoves, version <- datasetVersion, moves <- datasetMoves
Compute == INSTANCE ComputeForm WITH Logins <- ComputeLogins, Secrets <- ComputeSecrets, MaxMoves <- MaxCompute,
  stored <- computeStored, asked <- computeAsked, moves <- computeMoves
Backlog == INSTANCE TriageQueue WITH Sentences <- BacklogSentences, Levels <- BacklogLevels, Major <- BacklogMajor,
  Minor <- BacklogMinor, MaxMoves <- MaxBacklog, open <- backlogOpen, moves <- backlogMoves
Result == INSTANCE DemoResult WITH Indexes <- {1, 2, 4}, Coarse <- {"x", "y"}, Fine <- {"x1", "x2", "y1"}, Projected <- [f \in {"x1", "x2", "y1"} |-> IF f = "y1" THEN "y" ELSE "x"], Annotators <- {"A1", "A2"},
  votes <- resultVotes
Campaign == INSTANCE CampaignAdmin WITH Documents <- CampaignDocuments, Users <- CampaignUsers,
  Openings <- CampaignOpenings, Invited <- CampaignInvited, MaxMoves <- MaxCampaign,
  busy <- campaignBusy, moves <- campaignMoves
PickerMatches(q, t) == q = "t" /\ t \in {"t1", "t2"}
Picker == INSTANCE ThemePicker WITH Themes <- <<"t1", "t2", "r1">>, Refuges <- {"r1"}, Filters <- {"", "z", "t"}, Matches <- PickerMatches, MaxMoves <- 4,
  Openings <- {[labels |-> <<>>, lead |-> None], [labels |-> <<"t1", "t2">>, lead |-> "t2"], [labels |-> <<"r1", "t1">>, lead |-> "r1"]},
  query <- pickerQuery, active <- pickerActive, mouse <- pickerMouse, focus <- pickerFocus, moves <- pickerMoves
Translated == INSTANCE Translations WITH Admins <- TranslationAdmins, Sets <- TranslationSets,
  WholeSets <- WholeTranslations, Sentences <- TranslationSentences, Files <- TranslationFiles,
  Blank <- BlankLine, MaxMoves <- MaxTranslations,
  rows <- translationsRows, written <- translationsWritten, moves <- translationsMoves
Talk == INSTANCE Comments WITH Sentences <- TalkSentences, Texts <- TalkTexts, Earlier <- TalkEarlier,
  MaxMoves <- MaxTalk, focused <- commentsFocused, selection <- commentsSelection,
  stored <- commentsStored, shown <- commentsShown, fetch <- commentsFetch, panel <- commentsPanel,
  unheard <- commentsUnheard, lost <- commentsLost, moves <- commentsMoves
Plan == INSTANCE PlanPanel WITH Sentences <- PlanSentences, MaxMoves <- MaxPlan,
  clauses <- planClauses, focused <- planFocused, moves <- planMoves
Figures == INSTANCE AnalysisScreen WITH Runs <- FigureRuns, MaxMoves <- MaxFigures, MaxFaults <- MaxFigureFaults,
  shown <- figuresShown, moves <- figuresMoves

\* Runs are numbered as they are asked for, and None is the number of none.
ASSUME FiguresAssumption == FigureRuns \subseteq Nat /\ None \notin FigureRuns

\* There is a dataset, and 0 is the number of none.
ASSUME LaunchAssumption == LaunchDatasets \in Seq(Nat \ {0}) /\ LaunchDatasets # << >>

\* Sentences are numbered: those of the gold desk and of the queue with indexes missing, where
\* the gold has no block or the judges no opinion, those of the plan without.
ASSUME WalksAssumption ==
  /\ DeskRows \subseteq Nat /\ IsFiniteSet(DeskRows) /\ DeskRows # {}
  /\ BacklogSentences \subseteq Nat /\ IsFiniteSet(BacklogSentences)
  /\ None \notin DeskRows \cup BacklogSentences \cup {0}
  /\ Cardinality(PlanSentences) \in Nat /\ PlanSentences = 0 .. Cardinality(PlanSentences) - 1

\* What the settings and the pages let through.
ASSUME ScoringAssumption == Configurations \subseteq EngineConfig /\ CastBallots \subseteq Ballot
ASSUME TriageAssumption == TriageRank \in [DOMAIN TriageRank -> Nat]

\* The values of the constants that reading.cfg cannot write.
SmallConfigurations ==
  {[weight |-> [v \in Annotators |-> IF v = j1 THEN n ELSE 1], secondaryMin |-> m] : n \in 0 .. 3, m \in {1, 2}}
  \cup {[weight |-> [v \in Annotators |-> 0], secondaryMin |-> 1]}
SmallBallots ==
  {Abstention} \cup {v \in Ballot : /\ v.primary # NoTheme
                                    /\ v.primary \notin v.secondaries
                                    /\ Cardinality(v.secondaries) <= 1}
SmallClusters == {<<"licence", "content">>, <<"use", "licence">>, <<"use", "content">>}
SmallOver == {<<"licence", "content">>, <<"licence", "use">>}
SmallRank == [t \in {"licence", "content", "use", "fees", "preamble"} |->
  CASE t = "licence" -> 1 [] t = "content" -> 2 [] t = "fees" -> 3 [] t = "use" -> 4 [] OTHER -> 5]
SmallDatasets == <<1, 2>>
SmallEarlier == {[text |-> "r1", on |-> <<"clause", 0>>], [text |-> "r2", on |-> <<"document">>]}
SmallFiles == {None, <<9, 9>>, <<0, 1>>, <<9, 1>>, <<0, 1, 2>>}
SmallCriteria == [complete |-> 1 .. 2, finished |-> 0 .. 1]
SmallMembers == <<"ana", "bob">>
SmallDocuments == <<"d1", "d2">>
SmallUsers == <<"u1", "u2", "u3", "u4">>
SmallOpenings == {[u \in {"u1", "u2", "u3", "u4"} |-> IF u = "u1" THEN "reviewer" ELSE None],
  [u \in {"u1", "u2", "u3", "u4"} |-> CASE u = "u3" -> "lead" [] u = "u4" -> "reviewer" [] OTHER -> "annotator"]}
aidClauses(x, y) == [j \in {j1, j2, j3} |-> CASE j = j1 -> x [] j = j2 -> y [] j = j3 -> [i \in {0} |-> a]]
SmallJudged ==
  [v \in {1, 2} |-> IF v = 1 THEN aidClauses([i \in {0, 2} |-> a], [i \in {0, 1, 2} |-> IF i = 1 THEN a ELSE b])
                    ELSE aidClauses(<< >>, << >>)]

documentVars == <<drafts, readOnly, source, sel, mouse, ui, gestures>>
scoringVars == <<ballots, cfg>>
triageVars == <<votes>>
viewsVars == <<themes, annotation, unsure, edits>>
aidsVars == <<pointer, hover, hoverTimer, lens, lensTimer, pinned, popup, marks, orphan, focus, aidsSource,
    panel, version, arrived, ruler, lang, translated, moves>>
launcherVars == <<tab, armed, open, launcherArrived, form, asked, disturbed, made, taken, lost, launcherMoves>>
mockVars == <<mock, server, projectLocked, apart, requests>>
goldVars == <<kinds, goldServer, rows, finalized, mine, selected, filter, park, draft, request, refused,
    confirming, pointed, goldMoves>>
settingsVars == <<stored, config, fetched, settingsDraft, touched, saving, success, applied, query, settingsOpen,
    active, closing, settingsMoves>>
datasetVars == <<datasetVersion, criteria, waiting, previews, report, loading, builds, datasets, building,
    message, datasetMoves>>
computeVars == <<computeStored, tests, overlapped, configured, known, login, secret, busy, computeAsked,
    computeMoves>>
backlogVars == <<levels, ready, backlogOpen, pos, pushed, fresh, done, focused, selection, written, helping,
    backlogMoves>>
resultVars == <<label, gold, resultVotes, taxonomy, onlyDisagreements>>
campaignVars == <<members, assigned, project, sessions, shown, fetch, writes, unheard, campaignBusy, campaignMoves>>
pickerVars == <<place, tags, pickerQuery, pickerActive, pickerMouse, timer, tooltip, pickerFocus, gesture,
    pickerMoves>>
translationsVars == <<file, translationsRows, status, syncs, translationsWritten, page, translationsMoves>>
commentsVars == <<clauses, commentsFocused, commentsSelection, clause, commentsStored, commentsShown,
    commentsFetch, posts, resolving, commentsUnheard, commentsPanel, thread, commentsLost,
    commentsMoves>>
planVars == <<planClauses, planFocused, chosen, walk, planMoves>>
figuresVars == <<run, pdf, saves, figuresShown, seen, printed, loaded, calls, figuresMoves, faults>>
vars == <<here, documentVars, scoringVars, triageVars, viewsVars, aidsVars, launcherVars, mockVars, goldVars,
    settingsVars, datasetVars, computeVars, backlogVars, resultVars, campaignVars, pickerVars,
    translationsVars, commentsVars, planVars, figuresVars>>

NoDocument == drafts = None /\ readOnly = None /\ source = None /\ sel = None /\ mouse = None /\ ui = None /\
    gestures = None
NoScoring == ballots = None /\ cfg = None
NoTriage == votes = None
NoViews == themes = None /\ annotation = None /\ unsure = None /\ edits = None
NoAids == pointer = None /\ hover = None /\ hoverTimer = None /\ lens = None /\ lensTimer = None /\ pinned
    = None /\ popup = None /\ marks = None /\ orphan = None /\ focus = None /\ aidsSource = None /\
    panel = None /\ version = None /\ arrived = None /\ ruler = None /\ lang = None /\ translated =
    None /\ moves = None
NoLauncher == tab = None /\ armed = None /\ open = None /\ launcherArrived = None /\ form = None /\ asked =
    None /\ disturbed = None /\ made = None /\ taken = None /\ lost = None /\ launcherMoves = None
NoMock == mock = None /\ server = None /\ projectLocked = None /\ apart = None /\ requests = None
NoDesk == kinds = None /\ goldServer = None /\ rows = None /\ finalized = None /\ mine = None /\ selected
    = None /\ filter = None /\ park = None /\ draft = None /\ request = None /\ refused = None /\
    confirming = None /\ pointed = None /\ goldMoves = None
NoSettings == stored = None /\ config = None /\ fetched = None /\ settingsDraft = None /\ touched = None /\
    saving = None /\ success = None /\ applied = None /\ query = None /\ settingsOpen = None /\
    active = None /\ closing = None /\ settingsMoves = None
NoDatasets == datasetVersion = None /\ criteria = None /\ waiting = None /\ previews = None /\ report = None
    /\ loading = None /\ builds = None /\ datasets = None /\ building = None /\ message = None /\
    datasetMoves = None
NoCompute == computeStored = None /\ tests = None /\ overlapped = None /\ configured = None /\ known = None
    /\ login = None /\ secret = None /\ busy = None /\ computeAsked = None /\ computeMoves = None
NoBacklog == levels = None /\ ready = None /\ backlogOpen = None /\ pos = None /\ pushed = None /\ fresh =
    None /\ done = None /\ focused = None /\ selection = None /\ written = None /\ helping = None /\
    backlogMoves = None
NoResult == label = None /\ gold = None /\ resultVotes = None /\ taxonomy = None /\ onlyDisagreements = None
NoCampaign == members = None /\ assigned = None /\ project = None /\ sessions = None /\ shown = None /\ fetch
    = None /\ writes = None /\ unheard = None /\ campaignBusy = None /\ campaignMoves = None
NoPicker == place = None /\ tags = None /\ pickerQuery = None /\ pickerActive = None /\ pickerMouse = None
    /\ timer = None /\ tooltip = None /\ pickerFocus = None /\ gesture = None /\ pickerMoves = None
NoTranslated == file = None /\ translationsRows = None /\ status = None /\ syncs = None /\ translationsWritten =
    None /\ page = None /\ translationsMoves = None
NoTalk == clauses = None /\ commentsFocused = None /\ commentsSelection = None /\ clause = None /\
    commentsStored = None /\ commentsShown = None /\ commentsFetch = None /\ posts = None /\
    resolving = None /\ commentsUnheard = None /\ commentsPanel = None /\ thread = None /\ commentsLost = None /\
    commentsMoves = None
NoPlan == planClauses = None /\ planFocused = None /\ chosen = None /\ walk = None /\ planMoves = None
NoFigures == run = None /\ pdf = None /\ saves = None /\ figuresShown = None /\ seen = None /\ printed = None
    /\ loaded = None /\ calls = None /\ figuresMoves = None /\ faults = None

Init ==
  \/ here = "document" /\ Document!Init
     /\ NoScoring /\ NoTriage /\ NoViews /\ NoAids /\ NoLauncher /\ NoMock /\ NoDesk /\ NoSettings
        /\ NoDatasets /\ NoCompute /\ NoBacklog /\ NoResult /\ NoCampaign /\ NoPicker /\
        NoTranslated /\ NoTalk /\ NoPlan /\ NoFigures
  \/ here = "scoring" /\ Scoring!Init
     /\ NoDocument /\ NoTriage /\ NoViews /\ NoAids /\ NoLauncher /\ NoMock /\ NoDesk /\ NoSettings
        /\ NoDatasets /\ NoCompute /\ NoBacklog /\ NoResult /\ NoCampaign /\ NoPicker /\
        NoTranslated /\ NoTalk /\ NoPlan /\ NoFigures
  \/ here = "triage" /\ Triage!Init
     /\ NoDocument /\ NoScoring /\ NoViews /\ NoAids /\ NoLauncher /\ NoMock /\ NoDesk /\ NoSettings
        /\ NoDatasets /\ NoCompute /\ NoBacklog /\ NoResult /\ NoCampaign /\ NoPicker /\
        NoTranslated /\ NoTalk /\ NoPlan /\ NoFigures
  \/ here = "views" /\ Views!Init
     /\ NoDocument /\ NoScoring /\ NoTriage /\ NoAids /\ NoLauncher /\ NoMock /\ NoDesk /\
        NoSettings /\ NoDatasets /\ NoCompute /\ NoBacklog /\ NoResult /\ NoCampaign /\ NoPicker /\
        NoTranslated /\ NoTalk /\ NoPlan /\ NoFigures
  \/ here = "aids" /\ Aids!Init
     /\ NoDocument /\ NoScoring /\ NoTriage /\ NoViews /\ NoLauncher /\ NoMock /\ NoDesk /\
        NoSettings /\ NoDatasets /\ NoCompute /\ NoBacklog /\ NoResult /\ NoCampaign /\ NoPicker /\
        NoTranslated /\ NoTalk /\ NoPlan /\ NoFigures
  \/ here = "launcher" /\ Launcher!Init
     /\ NoDocument /\ NoScoring /\ NoTriage /\ NoViews /\ NoAids /\ NoMock /\ NoDesk /\ NoSettings
        /\ NoDatasets /\ NoCompute /\ NoBacklog /\ NoResult /\ NoCampaign /\ NoPicker /\
        NoTranslated /\ NoTalk /\ NoPlan /\ NoFigures
  \/ here = "mock" /\ Mock!Init
     /\ NoDocument /\ NoScoring /\ NoTriage /\ NoViews /\ NoAids /\ NoLauncher /\ NoDesk /\
        NoSettings /\ NoDatasets /\ NoCompute /\ NoBacklog /\ NoResult /\ NoCampaign /\ NoPicker /\
        NoTranslated /\ NoTalk /\ NoPlan /\ NoFigures
  \/ here = "gold" /\ Desk!Init
     /\ NoDocument /\ NoScoring /\ NoTriage /\ NoViews /\ NoAids /\ NoLauncher /\ NoMock /\
        NoSettings /\ NoDatasets /\ NoCompute /\ NoBacklog /\ NoResult /\ NoCampaign /\ NoPicker /\
        NoTranslated /\ NoTalk /\ NoPlan /\ NoFigures
  \/ here = "settings" /\ Settings!Init
     /\ NoDocument /\ NoScoring /\ NoTriage /\ NoViews /\ NoAids /\ NoLauncher /\ NoMock /\ NoDesk
        /\ NoDatasets /\ NoCompute /\ NoBacklog /\ NoResult /\ NoCampaign /\ NoPicker /\
        NoTranslated /\ NoTalk /\ NoPlan /\ NoFigures
  \/ here = "dataset" /\ Datasets!Init
     /\ NoDocument /\ NoScoring /\ NoTriage /\ NoViews /\ NoAids /\ NoLauncher /\ NoMock /\ NoDesk
        /\ NoSettings /\ NoCompute /\ NoBacklog /\ NoResult /\ NoCampaign /\ NoPicker /\
        NoTranslated /\ NoTalk /\ NoPlan /\ NoFigures
  \/ here = "compute" /\ Compute!Init
     /\ NoDocument /\ NoScoring /\ NoTriage /\ NoViews /\ NoAids /\ NoLauncher /\ NoMock /\ NoDesk
        /\ NoSettings /\ NoDatasets /\ NoBacklog /\ NoResult /\ NoCampaign /\ NoPicker /\
        NoTranslated /\ NoTalk /\ NoPlan /\ NoFigures
  \/ here = "backlog" /\ Backlog!Init
     /\ NoDocument /\ NoScoring /\ NoTriage /\ NoViews /\ NoAids /\ NoLauncher /\ NoMock /\ NoDesk
        /\ NoSettings /\ NoDatasets /\ NoCompute /\ NoResult /\ NoCampaign /\ NoPicker /\
        NoTranslated /\ NoTalk /\ NoPlan /\ NoFigures
  \/ here = "result" /\ Result!Init
     /\ NoDocument /\ NoScoring /\ NoTriage /\ NoViews /\ NoAids /\ NoLauncher /\ NoMock /\ NoDesk
        /\ NoSettings /\ NoDatasets /\ NoCompute /\ NoBacklog /\ NoCampaign /\ NoPicker /\
        NoTranslated /\ NoTalk /\ NoPlan /\ NoFigures
  \/ here = "campaign" /\ Campaign!Init
     /\ NoDocument /\ NoScoring /\ NoTriage /\ NoViews /\ NoAids /\ NoLauncher /\ NoMock /\ NoDesk
        /\ NoSettings /\ NoDatasets /\ NoCompute /\ NoBacklog /\ NoResult /\ NoPicker /\
        NoTranslated /\ NoTalk /\ NoPlan /\ NoFigures
  \/ here = "picker" /\ Picker!Init
     /\ NoDocument /\ NoScoring /\ NoTriage /\ NoViews /\ NoAids /\ NoLauncher /\ NoMock /\ NoDesk
        /\ NoSettings /\ NoDatasets /\ NoCompute /\ NoBacklog /\ NoResult /\ NoCampaign /\
        NoTranslated /\ NoTalk /\ NoPlan /\ NoFigures
  \/ here = "translations" /\ Translated!Init
     /\ NoDocument /\ NoScoring /\ NoTriage /\ NoViews /\ NoAids /\ NoLauncher /\ NoMock /\ NoDesk
        /\ NoSettings /\ NoDatasets /\ NoCompute /\ NoBacklog /\ NoResult /\ NoCampaign /\ NoPicker
        /\ NoTalk /\ NoPlan /\ NoFigures
  \/ here = "comments" /\ Talk!Init
     /\ NoDocument /\ NoScoring /\ NoTriage /\ NoViews /\ NoAids /\ NoLauncher /\ NoMock /\ NoDesk
        /\ NoSettings /\ NoDatasets /\ NoCompute /\ NoBacklog /\ NoResult /\ NoCampaign /\ NoPicker
        /\ NoTranslated /\ NoPlan /\ NoFigures
  \/ here = "plan" /\ Plan!Init
     /\ NoDocument /\ NoScoring /\ NoTriage /\ NoViews /\ NoAids /\ NoLauncher /\ NoMock /\ NoDesk
        /\ NoSettings /\ NoDatasets /\ NoCompute /\ NoBacklog /\ NoResult /\ NoCampaign /\ NoPicker
        /\ NoTranslated /\ NoTalk /\ NoFigures
  \/ here = "figures" /\ Figures!Init
     /\ NoDocument /\ NoScoring /\ NoTriage /\ NoViews /\ NoAids /\ NoLauncher /\ NoMock /\ NoDesk
        /\ NoSettings /\ NoDatasets /\ NoCompute /\ NoBacklog /\ NoResult /\ NoCampaign /\ NoPicker
        /\ NoTranslated /\ NoTalk /\ NoPlan
DocumentNext == here = "document" /\ Document!Next
  /\ UNCHANGED <<here, scoringVars, triageVars, viewsVars, aidsVars, launcherVars, mockVars, goldVars,
      settingsVars, datasetVars, computeVars, backlogVars, resultVars, campaignVars, pickerVars,
      translationsVars, commentsVars, planVars, figuresVars>>
ScoringNext == here = "scoring" /\ Scoring!Next
  /\ UNCHANGED <<here, documentVars, triageVars, viewsVars, aidsVars, launcherVars, mockVars, goldVars,
      settingsVars, datasetVars, computeVars, backlogVars, resultVars, campaignVars, pickerVars,
      translationsVars, commentsVars, planVars, figuresVars>>
TriageNext == here = "triage" /\ Triage!Next
  /\ UNCHANGED <<here, documentVars, scoringVars, viewsVars, aidsVars, launcherVars, mockVars, goldVars,
      settingsVars, datasetVars, computeVars, backlogVars, resultVars, campaignVars, pickerVars,
      translationsVars, commentsVars, planVars, figuresVars>>
ViewsNext == here = "views" /\ Views!Next
  /\ UNCHANGED <<here, documentVars, scoringVars, triageVars, aidsVars, launcherVars, mockVars, goldVars,
      settingsVars, datasetVars, computeVars, backlogVars, resultVars, campaignVars, pickerVars,
      translationsVars, commentsVars, planVars, figuresVars>>
AidsNext == here = "aids" /\ Aids!Next
  /\ UNCHANGED <<here, documentVars, scoringVars, triageVars, viewsVars, launcherVars, mockVars, goldVars,
      settingsVars, datasetVars, computeVars, backlogVars, resultVars, campaignVars, pickerVars,
      translationsVars, commentsVars, planVars, figuresVars>>
LauncherNext == here = "launcher" /\ Launcher!Next
  /\ UNCHANGED <<here, documentVars, scoringVars, triageVars, viewsVars, aidsVars, mockVars, goldVars,
      settingsVars, datasetVars, computeVars, backlogVars, resultVars, campaignVars, pickerVars,
      translationsVars, commentsVars, planVars, figuresVars>>
MockNext == here = "mock" /\ Mock!Next
  /\ UNCHANGED <<here, documentVars, scoringVars, triageVars, viewsVars, aidsVars, launcherVars, goldVars,
      settingsVars, datasetVars, computeVars, backlogVars, resultVars, campaignVars, pickerVars,
      translationsVars, commentsVars, planVars, figuresVars>>
DeskNext == here = "gold" /\ Desk!Next
  /\ UNCHANGED <<here, documentVars, scoringVars, triageVars, viewsVars, aidsVars, launcherVars, mockVars,
      settingsVars, datasetVars, computeVars, backlogVars, resultVars, campaignVars, pickerVars,
      translationsVars, commentsVars, planVars, figuresVars>>
SettingsNext == here = "settings" /\ Settings!Next
  /\ UNCHANGED <<here, documentVars, scoringVars, triageVars, viewsVars, aidsVars, launcherVars, mockVars,
      goldVars, datasetVars, computeVars, backlogVars, resultVars, campaignVars, pickerVars,
      translationsVars, commentsVars, planVars, figuresVars>>
DatasetsNext == here = "dataset" /\ Datasets!Next
  /\ UNCHANGED <<here, documentVars, scoringVars, triageVars, viewsVars, aidsVars, launcherVars, mockVars,
      goldVars, settingsVars, computeVars, backlogVars, resultVars, campaignVars, pickerVars,
      translationsVars, commentsVars, planVars, figuresVars>>
ComputeNext == here = "compute" /\ Compute!Next
  /\ UNCHANGED <<here, documentVars, scoringVars, triageVars, viewsVars, aidsVars, launcherVars, mockVars,
      goldVars, settingsVars, datasetVars, backlogVars, resultVars, campaignVars, pickerVars,
      translationsVars, commentsVars, planVars, figuresVars>>
BacklogNext == here = "backlog" /\ Backlog!Next
  /\ UNCHANGED <<here, documentVars, scoringVars, triageVars, viewsVars, aidsVars, launcherVars, mockVars,
      goldVars, settingsVars, datasetVars, computeVars, resultVars, campaignVars, pickerVars,
      translationsVars, commentsVars, planVars, figuresVars>>
ResultNext == here = "result" /\ Result!Next
  /\ UNCHANGED <<here, documentVars, scoringVars, triageVars, viewsVars, aidsVars, launcherVars, mockVars,
      goldVars, settingsVars, datasetVars, computeVars, backlogVars, campaignVars, pickerVars,
      translationsVars, commentsVars, planVars, figuresVars>>
CampaignNext == here = "campaign" /\ Campaign!Next
  /\ UNCHANGED <<here, documentVars, scoringVars, triageVars, viewsVars, aidsVars, launcherVars, mockVars,
      goldVars, settingsVars, datasetVars, computeVars, backlogVars, resultVars, pickerVars,
      translationsVars, commentsVars, planVars, figuresVars>>
PickerNext == here = "picker" /\ Picker!Next
  /\ UNCHANGED <<here, documentVars, scoringVars, triageVars, viewsVars, aidsVars, launcherVars, mockVars,
      goldVars, settingsVars, datasetVars, computeVars, backlogVars, resultVars, campaignVars,
      translationsVars, commentsVars, planVars, figuresVars>>
TranslatedNext == here = "translations" /\ Translated!Next
  /\ UNCHANGED <<here, documentVars, scoringVars, triageVars, viewsVars, aidsVars, launcherVars, mockVars,
      goldVars, settingsVars, datasetVars, computeVars, backlogVars, resultVars, campaignVars,
      pickerVars, commentsVars, planVars, figuresVars>>
TalkNext == here = "comments" /\ Talk!Next
  /\ UNCHANGED <<here, documentVars, scoringVars, triageVars, viewsVars, aidsVars, launcherVars, mockVars,
      goldVars, settingsVars, datasetVars, computeVars, backlogVars, resultVars, campaignVars,
      pickerVars, translationsVars, planVars, figuresVars>>
PlanNext == here = "plan" /\ Plan!Next
  /\ UNCHANGED <<here, documentVars, scoringVars, triageVars, viewsVars, aidsVars, launcherVars, mockVars,
      goldVars, settingsVars, datasetVars, computeVars, backlogVars, resultVars, campaignVars,
      pickerVars, translationsVars, commentsVars, figuresVars>>
FiguresNext == here = "figures" /\ Figures!Next
  /\ UNCHANGED <<here, documentVars, scoringVars, triageVars, viewsVars, aidsVars, launcherVars, mockVars,
      goldVars, settingsVars, datasetVars, computeVars, backlogVars, resultVars, campaignVars,
      pickerVars, translationsVars, commentsVars, planVars>>
Next == DocumentNext \/ ScoringNext \/ TriageNext \/ ViewsNext \/ AidsNext \/ LauncherNext \/
        MockNext \/ DeskNext \/ SettingsNext \/ DatasetsNext \/ ComputeNext \/ BacklogNext \/
        ResultNext \/ CampaignNext \/ PickerNext \/ TranslatedNext \/ TalkNext \/ PlanNext \/
        FiguresNext

Spec == Init /\ [][Next]_vars

-----------------------------------------------------------------------------

\* No theme is proposed, nor written without an arbiter, on less than the judges and the
\* annotators gave it.
ProposalsAreEarned ==
  \* A label the engine may write without an arbiter is never one of several themes sharing
  \* the lead (gold_scoring.py, _argmax).
  /\ here = "scoring" => Scoring!AutoIsNeverATie
  \* A label the engine may write without an arbiter has more than half of the weight and
  \* two thirds of the heads behind it (gold_scoring.py, score_sentence).
  /\ here = "scoring" => Scoring!AutoHasBothMajorities
  \* The proposal is the heaviest theme, the first in order among equals (gold_scoring.py,
  \* _argmax).
  /\ here = "scoring" => Scoring!PrimaryIsFirstHeaviest
  \* A secondary theme proposed was named by enough annotators and is not the primary
  \* (gold_scoring.py).
  /\ here = "scoring" => Scoring!SecondariesAreShared
  \* A refuge, the theme given for want of a better one, is proposed only when every judge
  \* gave it (triage/engine.ts).
  /\ here = "triage" => Triage!RefugeNeverImposed
  \* The level of a sentence, which decides who looks at it, does not depend on the order
  \* in which the judges are listed (triage/engine.ts).
  /\ here = "triage" => Triage!LevelIgnoresOrder

\* What two programs compute apart is the same.
TwinsAgree ==
  \* The engine the screens run and the engine of the server decide the same
  \* (lib/goldScoring.ts, « miroir EXACT »).
  /\ here = "scoring" => Scoring!MirrorAgrees
  \* The server of the tests ends where the real one would, after any requests but those of
  \* the kinds known to be treated differently (handlers.ts, « FIDÈLE au backend »).
  /\ here = "mock" => Mock!MockIsFaithful
  \* The rows that show a divergence, the anchors the keys walk through and the strip
  \* beside the comparison tell the same divergences (DocumentPanel.tsx, runs.ts,
  \* ComparePanel.tsx).
  /\ here = "views" => Views!RowsShowTheZones
  \* A kappa is at most one, and is one exactly when the judges agree on everything either
  \* of them covers (llmAgreement.ts).
  /\ here = "views" => Views!KappaOneIsAgreement
  \* A rail drawn firm promises that its block can be submitted (DocumentPanel.tsx,
  \* validation.ts).
  /\ here = "views" => Views!FirmRailIsValidated
  \* A sentence where the model is marked as differing from the gold stays among the
  \* disagreements (ResultsViewer.tsx).
  /\ here = "result" => Result!MarkedModelIsListed
  \* The lines that name a theme in the text are where the contents say a segment begins,
  \* and the segments share out the sentences (demo/logic.ts, segments; ResultsViewer.tsx).
  /\ here = "result" => Result!BoundariesAreSegments

\* A walk through what is left to do passes by all of it, and stands where the document
\* does.
WalksMissNothing ==
  \* The keys reach every undecided sentence, whatever indexes are missing, and p comes
  \* back where n left (lib/gold/blocks.ts).
  /\ here = "gold" => Desk!KeysWalkTheQueue
  \* Once anything has placed the queue, its card is the sentence focused in the document,
  \* whenever that sentence has one (TriageQueue.tsx, lastPushedFocus).
  /\ here = "backlog" => Backlog!QueueFollowsFocus
  \* The button goes through every sentence without a clause before it comes back to one
  \* (planCoverage.ts, nextUncovered).
  /\ here = "plan" => Plan!WalkVisitsEveryGap
  \* A key of the comparison goes to the next divergence and the opposite one comes back,
  \* through the end of the document too (divergence.ts).
  /\ here = "views" => Views!NextThenPrevReturns

\* An operation on several sentences, themes or documents changes those it names, evenly,
\* and no other.
OperationsStayInBounds ==
  \* « Jusqu'à la frontière » never selects past the next boundary that is shown, whichever
  \* source the document shows (DocumentPanel.tsx, onToBoundary).
  /\ here = "document" => Document!ReachStopsAtBoundary
  \* Adopting a proposal gives its whole segment the theme of the judge, and leaves every
  \* other sentence as it was (DocumentPanel.tsx, adoptAtFocus).
  /\ here = "views" => Views!AdoptionFillsTheSegment
  \* An option that lets itself be clicked adds or removes its theme and no other one
  \* (ThemeMultiPicker.tsx, isRefugeDisabled; store/workspace.ts, sanitizeThemeSet).
  /\ here = "picker" => Picker!ToggleIsOfOneTheme
  \* A promoted theme leads, and only a refuge that led is lost (SentenceMenu.tsx,
  \* onPromoteTheme).
  /\ here = "picker" => Picker!PromotionKeepsTheOthers
  \* The assignment in bulk shares the documents out: the gap between two annotators is at
  \* most the overlap, and at most the annotators it leaves out (projects/views.py,
  \* assignments_bulk).
  /\ here = "campaign" => Campaign!BulkIsShared
  \* The focus, the selection, the menus and the drag stay on sentences and blocks of the
  \* document, and have their types.
  /\ here = "document" => Document!TypeOK
  \* The previews, timers and rulers have their types.
  /\ here = "aids" => Aids!TypeOK

\* Whatever the order in which answers and timers come, what a page shows at rest is of
\* what it shows it for.
LateAnswersMisleadNobody ==
  \* While a report is selected the figures are its own, or none: those of a run never pass
  \* for it while it loads, whatever answers come (AnalysisLab.tsx, effectiveRun, result).
  /\ here = "figures" => Figures!FiguresAreOfTheChoice
  \* The preview at rest is of the criteria shown, whatever the order the answers came in
  \* (DatasetBuilder.tsx).
  /\ here = "dataset" => Datasets!ReportIsOfTheCriteria
  \* The verdict kept with a credential is that of its secret, unless one was saved while
  \* another was being tested (lab/views.py, compute_credentials).
  /\ here = "compute" => Compute!VerdictIsOfTheSecret
  \* The dataset and the estimate shown are those of the experiment the form launches,
  \* unless the form changed while it was created (ExperimentLauncher.tsx).
  /\ here = "launcher" => Launcher!FormShowsTheExperiment
  \* The configuration the guided mode creates is of the dataset and the preset shown, but
  \* for a preset armed before the catalog (ExperimentLauncher.tsx).
  /\ here = "launcher" => Launcher!GuidedConfigIsTheForm
  \* What the administrator did not touch is what the page last received: the whole form is
  \* sent, and reverts nothing the page had seen (GoldConfigStudio.tsx).
  /\ here = "settings" => Settings!UntouchedFieldsFollow
  \* A list of the campaign that is not on its way is the server's, whatever the order in
  \* which writes and fetches crossed, but for a write whose answer has not come or was lost
  \* and a list that failed, until it is read again (admin/projects/[slug]/page.tsx:
  \* invalidateQueries after each success).
  /\ here = "campaign" => Campaign!PageSettles
  \* When no list is on its way, the comments the server keeps are shown, whatever the order
  \* in which answers and lists crossed, but for the writes whose answer has not come or was
  \* lost and a list that failed, until a list is read again (hooks.ts, useAddComment,
  \* useResolveComment: onSuccess).
  /\ here = "comments" => Talk!NoCommentIsHidden
  \* A preview is of what the mouse is on, or a timer is about to take it away
  \* (DocumentPanel.tsx, hoverTimer, injusticeTimer).
  /\ here = "aids" => Aids!PreviewsExpire

\* What is said to be somebody's decision was one.
ChosenByAHuman ==
  \* A tie the page decides got the theme someone chose for it, never the one the alphabet
  \* puts first (GoldDecisionComposer.tsx, « EXCEPTION VOLONTAIRE »).
  /\ here = "gold" => Desk!TieIsChosen
  \* What the judges leave open is never accepted, one by one nor in a batch
  \* (TriageQueue.tsx, « Jamais C5 »).
  /\ here = "backlog" => Backlog!ArbitrationIsChosen
  \* A clause marked as decided without assistance was themed by the annotator, and no
  \* decision of the engine passes for one (validationDisplay.ts, provenanceOf).
  /\ here = "plan" => Plan!HumanMarkIsHuman

\* What is asked once is done once, however often the button is pressed, the answer lost
\* or the work shared.
DoneOnce ==
  \* An experiment is launched twice only when the answer to its first launch was lost
  \* (ExperimentLauncher.tsx).
  /\ here = "launcher" => Launcher!LaunchedOnce
  \* A comment is not sent twice, however often the button is pressed while the answer is
  \* on its way (CommentsPanel.tsx, submit).
  /\ here = "comments" => Talk!PostedOnce
  \* A run is kept as one report, whatever is clicked while the answer travels, unless a
  \* request failed (AnalysisLab.tsx, saveReport).
  /\ here = "figures" => Figures!SavedOnce
  \* Two synchronisations at once leave one translation of a sentence in a set
  \* (translations/services.py, sync_translation_set; models.py, the constraint).
  /\ here = "translations" => Translated!OneTextPerSentence
  \* What a set has of the document is the file the last synchronisation read
  \* (translations/services.py).
  /\ here = "translations" => Translated!RowsAreTheFile

\* A gesture does what the screen shows it will.
StepsDoWhatTheyShow == [][
  \* A change in bulk reaches only sentences the selection shows (SelectionToolbar.tsx).
  /\ here = "document" => Document!BulkStaysOnSelection
  \* A drag with the right button that selected blocks does not open the menu of the
  \* sentence where it ends (useBlockDragSelect.ts).
  /\ here = "document" => Document!DragOpensNoMenu
  \* « Valider et suivant » goes on to the next clause while there is one after the
  \* sentence validated (DocumentPanel.tsx, QuickActionRail.tsx).
  /\ here = "document" => Document!QuickChainNeverBreaks
  \* A key of the comparison goes to a sentence where the judges compared differ, and the
  \* count of the banner goes up by one or starts again (DocumentPanel.tsx,
  \* DivergenceNav.tsx).
  /\ here = "aids" => Aids!NextAdvancesTheCount
  \* An annotator rallying to the proposal never changes it and never turns an automatic
  \* label back into one to decide (gold_scoring.py).
  /\ here = "scoring" => Scoring!RallyingKeeps
  \* A user who prefilled everything from one judge matches it at least as well as the
  \* others, and has gaps only where that judge says nothing (concordance.ts,
  \* planCoverage.ts).
  /\ here = "views" => Views!PrefillMatches]_vars
=============================================================================
