------------------------------ MODULE MCStudio ------------------------------
(***************************************************************************)
(* The pages of the studio that wait for something, one mounted at a time: *)
(* a session opens one page and stays on it; the state of the others is    *)
(* not there.                                                              *)
(***************************************************************************)
EXTENDS Naturals, FiniteSets

CONSTANTS
  None, Sent,
  LabRuns, LabWorkers, GridRuns, MaxAttempts, MaxLabCrashes,   \* the queue of the Lab
  LabStages, LabVerdicts, MaxLabFaults, MaxLabAsks,            \* the screens of the Lab
  PageSentences, MaxPageMoves,                                 \* the annotation page
  MaxWrites, MaxCacheFaults, MaxCacheCalls, MaxViews,          \* the cache of the queries
  MaxParallel, QueueMax, DemoTexts, Wrong, Contracts, MaxDemoMoves, \* the demo
  MaxThreads, MaxExportMoves,                                  \* the exports
  AnalysisIds, AnalysisWorkers, Metrics, MaxAnalysisCrashes    \* the analysis runs

ASSUME BoundsAssumption ==
  /\ MaxAttempts \in Nat \ {0}
  /\ {MaxLabCrashes, MaxPageMoves, MaxWrites, MaxCacheFaults, MaxParallel, Metrics, MaxAnalysisCrashes} \subseteq Nat
\* The runs of the screens go through the statuses of the queue.
ASSUME LabAssumption ==
  /\ LabStages \subseteq {"queued", "waiting", "running"}
  /\ LabVerdicts \subseteq {"succeeded", "partial", "failed", "cancelled"}
ASSUME NoneAssumption == None # Sent /\ None \notin LabRuns /\ None \notin {"save", "version", "publish"}
                           /\ {None, Sent} \cap Nat = {}

VARIABLES here,
  run, worker, admitted, usurped, crashes,
  life, contested, accepted, view, focus, shown, asked, cancelling, sent, stray, selected, comparing,
    compared, blind, faults,
  server, cached, workspaceAsked, store, prefill, dialog, stage, calls, strays, moves,
  page, clock, cache, fetch, mounted, owed, cacheCalls, cacheFaults,
  jobs, queue, looping, running, tab, text, file, reads, contracts, document, phase, job, last,
    posts, timer, polls, late, demoMoves,
  status, artifact, old, threads, tried, exportJob, live, call, list, invalid, retrying,
    exportMoves,
  analysisRun, posting, analysisCancelling, analysisWorker, swept, analysisCrashes

Queue == INSTANCE LabQueue WITH Runs <- LabRuns, Workers <- LabWorkers, Remote <- GridRuns,
  MaxCrashes <- MaxLabCrashes
Screens == INSTANCE LabScreens WITH Runs <- LabRuns, Stages <- LabStages, Verdicts <- LabVerdicts,
  MaxFaults <- MaxLabFaults, MaxAsks <- MaxLabAsks
Workspace == INSTANCE WorkspacePage WITH Sentences <- PageSentences, MaxMoves <- MaxPageMoves,
  asked <- workspaceAsked
Cache == INSTANCE QueryCache WITH MaxFaults <- MaxCacheFaults, MaxCalls <- MaxCacheCalls,
  calls <- cacheCalls, faults <- cacheFaults
Demo == INSTANCE DemoPage WITH Texts <- DemoTexts, MaxMoves <- MaxDemoMoves, moves <- demoMoves
Export == INSTANCE ExportJob WITH MaxMoves <- MaxExportMoves, job <- exportJob, moves <- exportMoves
Analysis == INSTANCE AnalysisRuns WITH Runs <- AnalysisIds, Workers <- AnalysisWorkers,
  MaxCrashes <- MaxAnalysisCrashes, run <- analysisRun, cancelling <- analysisCancelling,
  worker <- analysisWorker, crashes <- analysisCrashes

\* The tables of the cache.
ASSUME KeysAssumption == Cache!KeysCoverWrites

queueVars == <<run, worker, admitted, usurped, crashes>>
screensVars == <<life, contested, accepted, view, focus, shown, asked, cancelling, sent, stray, selected, comparing,
    compared, blind, faults>>
workspaceVars == <<server, cached, workspaceAsked, store, prefill, dialog, stage, calls, strays, moves>>
cacheVars == <<page, clock, cache, fetch, mounted, owed, cacheCalls, cacheFaults>>
demoVars == <<jobs, queue, looping, running, tab, text, file, reads, contracts, document, phase, job, last,
    posts, timer, polls, late, demoMoves>>
exportVars == <<status, artifact, old, threads, tried, exportJob, live, call, list, invalid, retrying,
    exportMoves>>
analysisVars == <<analysisRun, posting, analysisCancelling, analysisWorker, swept, analysisCrashes>>
vars == <<here, queueVars, screensVars, workspaceVars, cacheVars, demoVars, exportVars, analysisVars>>

NoQueue == run = None /\ worker = None /\ admitted = None /\ usurped = None /\ crashes = None
NoScreens == life = None /\ contested = None /\ accepted = None /\ view = None /\ focus = None /\ shown = None /\ asked = None
    /\ cancelling = None /\ sent = None /\ stray = None /\ selected = None /\ comparing = None /\
    compared = None /\ blind = None /\ faults = None
NoWorkspace == server = None /\ cached = None /\ workspaceAsked = None /\ store = None /\ prefill = None /\
    dialog = None /\ stage = None /\ calls = None /\ strays = None /\ moves = None
NoCache == page = None /\ clock = None /\ cache = None /\ fetch = None /\ mounted = None /\ owed = None /\
    cacheCalls = None /\ cacheFaults = None
NoDemo == jobs = None /\ queue = None /\ looping = None /\ running = None /\ tab = None /\ text = None /\
    file = None /\ reads = None /\ contracts = None /\ document = None /\ phase = None /\ job = None
    /\ last = None /\ posts = None /\ timer = None /\ polls = None /\ late = None /\ demoMoves =
    None
NoExport == status = None /\ artifact = None /\ old = None /\ threads = None /\ tried = None /\ exportJob =
    None /\ live = None /\ call = None /\ list = None /\ invalid = None /\ retrying = None /\
    exportMoves = None
NoAnalysis == analysisRun = None /\ posting = None /\ analysisCancelling = None /\ analysisWorker = None /\
    swept = None /\ analysisCrashes = None

Init ==
  \/ here = "queue" /\ Queue!Init
     /\ NoScreens /\ NoWorkspace /\ NoCache /\ NoDemo /\ NoExport /\ NoAnalysis
  \/ here = "screens" /\ Screens!ScreenInit
     /\ NoQueue /\ NoWorkspace /\ NoCache /\ NoDemo /\ NoExport /\ NoAnalysis
  \/ here = "workspace" /\ Workspace!Init
     /\ NoQueue /\ NoScreens /\ NoCache /\ NoDemo /\ NoExport /\ NoAnalysis
  \/ here = "cache" /\ Cache!Init
     /\ NoQueue /\ NoScreens /\ NoWorkspace /\ NoDemo /\ NoExport /\ NoAnalysis
  \/ here = "demo" /\ Demo!Init
     /\ NoQueue /\ NoScreens /\ NoWorkspace /\ NoCache /\ NoExport /\ NoAnalysis
  \/ here = "export" /\ Export!Init
     /\ NoQueue /\ NoScreens /\ NoWorkspace /\ NoCache /\ NoDemo /\ NoAnalysis
  \/ here = "analysis" /\ Analysis!Init
     /\ NoQueue /\ NoScreens /\ NoWorkspace /\ NoCache /\ NoDemo /\ NoExport
QueueNext == here = "queue" /\ Queue!Next
  /\ UNCHANGED <<here, screensVars, workspaceVars, cacheVars, demoVars, exportVars, analysisVars>>
ScreensNext == here = "screens" /\ Screens!ScreenNext
  /\ UNCHANGED <<here, queueVars, workspaceVars, cacheVars, demoVars, exportVars, analysisVars>>
WorkspaceNext == here = "workspace" /\ Workspace!Next
  /\ UNCHANGED <<here, queueVars, screensVars, cacheVars, demoVars, exportVars, analysisVars>>
CacheNext == here = "cache" /\ Cache!Next
  /\ UNCHANGED <<here, queueVars, screensVars, workspaceVars, demoVars, exportVars, analysisVars>>
DemoNext == here = "demo" /\ Demo!Next
  /\ UNCHANGED <<here, queueVars, screensVars, workspaceVars, cacheVars, exportVars, analysisVars>>
ExportNext == here = "export" /\ Export!Next
  /\ UNCHANGED <<here, queueVars, screensVars, workspaceVars, cacheVars, demoVars, analysisVars>>
AnalysisNext == here = "analysis" /\ Analysis!Next
  /\ UNCHANGED <<here, queueVars, screensVars, workspaceVars, cacheVars, demoVars, exportVars>>
Next == QueueNext \/ ScreensNext \/ WorkspaceNext \/ CacheNext \/ DemoNext \/ ExportNext \/
        AnalysisNext

Fairness ==
  /\ \A w \in LabWorkers : WF_queueVars(here = "queue" /\ Queue!Ends(w))
  /\ \A r \in LabRuns : WF_queueVars(here = "queue" /\ Queue!Lapse(r))
  /\ \A r \in LabRuns : WF_screensVars(here = "screens" /\ Screens!Ending(r))
  /\ WF_screensVars(here = "screens" /\ Screens!Polling)
  /\ WF_screensVars(here = "screens" /\ Screens!Answered)
  /\ WF_workspaceVars(here = "workspace" /\ Workspace!Stages)
  /\ WF_cacheVars(here = "cache" /\ Cache!Fetches)
  /\ WF_demoVars(here = "demo" /\ Demo!Poll)
  /\ WF_demoVars(here = "demo" /\ Demo!PostsEnd)
  /\ WF_demoVars(here = "demo" /\ Demo!Answers)
  /\ WF_demoVars(here = "demo" /\ Demo!ThreeMinutes)
  /\ WF_exportVars(here = "export" /\ Export!Ages)
  /\ WF_exportVars(here = "export" /\ Export!Poll)
  /\ WF_exportVars(here = "export" /\ Export!Answers)
  /\ WF_exportVars(here = "export" /\ Export!History)
  /\ \A w \in AnalysisWorkers : WF_analysisVars(here = "analysis" /\ Analysis!Works(w))
  /\ \A r \in AnalysisIds : WF_analysisVars(here = "analysis" /\ Analysis!Lapse(r))
Spec == Init /\ [][Next]_vars /\ Fairness

Uncontested == here = "screens" => contested = {}
OneDialog == here = "workspace" => Cardinality(dialog) <= 1
FaultsAlone == here = "cache" => (cacheFaults > 0 => clock <= 1 /\ Cardinality({m \in DOMAIN cacheCalls : cacheCalls[m] # None}) <= 1)
-----------------------------------------------------------------------------

\* The workers make a run go only through the life RunLife gives it.
LifeSpec == [][here = "queue" => [Queue!Life!Next]_<<Queue!life, usurped, admitted>>]_vars

\* The prefilling of the toolbar replaces clauses made by hand only after its
\* confirmation (WorkspaceToolbar.tsx, requestPrefill).
HandWorkIsConfirmed == [][here = "workspace" => Workspace!HandWorkIsConfirmed]_vars

\* A view that shows data as valid shows every write the page was told had succeeded
\* (lib/api/hooks.ts: the keys the mutations invalidate).
PageShowsOwnWrites == here = "cache" => Cache!PageShowsOwnWrites

\* Nothing is done twice at once, and nothing that can be done waits.
TurnsAreKept ==
  \* One cancellation of a run at most is on its way from a screen (RunList.tsx,
  \* pendingCancels).
  /\ here = "screens" => Screens!OneCancelInFlight
  \* Two publications of one toolbar never run together, whatever dialog is left open or
  \* tried again (WorkspaceToolbar.tsx).
  /\ here = "workspace" => Workspace!OneSubmission
  \* Two workers compute an analysis together only when its heartbeat had lapsed
  \* (analysis/services.py, run_analysis: « sûr face à deux workers concurrents »).
  /\ here = "analysis" => Analysis!OneWorkerComputes
  \* A classification waits without a thread for it only while every thread allowed is at
  \* work (demo/runner.py, _drain).
  /\ here = "demo" => Demo!NoneWaitsInVain
  \* Types of the queue.
  /\ here = "queue" => Queue!TypeOK
  \* Types of the analysis runs.
  /\ here = "analysis" => Analysis!TypeOK

\* What a page says of what stands behind it is so.
ShownIsTrue ==
  \* The banner says « Ma session — édition » exactly when the store takes edits, whatever
  \* the order in which the queries answer and fail (AnnotationWorkspace.tsx).
  /\ here = "workspace" => Workspace!BannerTellsTheStore
  \* The runs a comparison was asked for had their results (RunResults.tsx).
  /\ here = "screens" => Screens!ComparedHaveResults
  \* The result on screen is that of the last request of the visitor (useDemoJob.ts:
  \* neither a new request nor the closing of a result cancels the questions of the
  \* former).
  /\ here = "demo" => Demo!ResultIsOfTheLast
  \* The file named beside the text is the one the text was read from (DemoPanel.tsx,
  \* onFile).
  /\ here = "demo" => Demo!NamedFileIsRead
  \* Types of the annotation page.
  /\ here = "workspace" => Workspace!TypeOK
  \* Types of the cache.
  /\ here = "cache" => Cache!TypeOK

\* What a worker takes ends, whatever workers crash.
Unended == {r \in LabRuns : run[r].status \in Queue!ACTIVE /\ r \notin usurped}
Pending == {r \in AnalysisIds : analysisRun[r].status \in Analysis!Active}
RunsEnd ==
  (
     \* Every run of the lab ends (each is launched once: when none is left, each has
     \* ended), except when a slow worker has written over another's claim.
     \/ here = "queue" /\ Unended # {}
     \* An analysis that waits or runs ends, whatever a late cancellation writes
     \* (analysis_worker.py sweeps what has no heartbeat).
     \/ here = "analysis" /\ Pending # {})
  ~> (
     /\ here = "queue" => Unended = {}
     /\ here = "analysis" => Pending = {})

\* Who waits for an end is shown it.
Expected == {r \in Screens!Watched : shown[r].status \in Queue!ACTIVE}
EndIsShown ==
  (
     \* The screens see the end of every run they show, unless a poll failed
     \* (LabWorkspace.tsx, RunList.tsx).
     \/ here = "screens" /\ Expected # {}
     \* A publication ends: in the success, or in an error that can be tried again
     \* (SubmissionProgressDialog.tsx).
     \/ here = "workspace" /\ Workspace!Busy
     \* An invalidated view on screen is fetched again, or shows an error, or leaves the
     \* screen: it never stays stale in silence (hooks.ts).
     \/ here = "cache" /\ Cache!Stale
     \* A visitor who asked for a classification sees an end to it, even when the server
     \* restarts and forgets it (useDemoJob.ts).
     \/ here = "demo" /\ Demo!Busy
     \* A row that shows an export going on comes to show its end, even when its thread died
     \* with the server, unless the history ended the row before its own answer did
     \* (exports/views.py, _self_heal; hooks.ts, useExportJob).
     \/ here = "export" /\ Export!Shown \in Export!Going)
  ~> (
     /\ here = "screens" => Expected = {} \/ blind
     /\ here = "workspace" => ~Workspace!Busy
     /\ here = "cache" => ~Cache!Stale
     /\ here = "demo" => ~Demo!Busy
     /\ here = "export" => Export!Shown \in Export!Ended \/ Export!Overtaken)
=============================================================================
