--------------------------- MODULE AnalysisScreen ---------------------------
(***************************************************************************)
(* The analysis lab on screen (frontend/src/features/analysis): one run or *)
(* one report at a time, the run asked for, the report it becomes, and the *)
(* PDF of a report.  Answers come when they may, after the visitor has     *)
(* looked elsewhere.  The report of a run bears its number; report 0 is an *)
(* older one.                                                              *)
(***************************************************************************)
EXTENDS Naturals, FiniteSets

CONSTANTS
  Runs,         \* from 1, in the order they are asked for
  None,
  MaxMoves,     \* bound on what the visitor does
  MaxFaults     \* bound on the answers lost and the requests refused

VARIABLES
  run, pdf,     \* the server: status of each run, and of the PDF of each report
  saves,        \* how many reports each run was saved as
  shown,        \* currentRun, selectedReportId, artifactId (by its report)
  seen, printed, \* what the queries last told of runs and PDFs
  loaded,       \* the reports whose contents are there
  calls,        \* the mutations in flight
  moves, faults

vars == <<run, pdf, saves, shown, seen, printed, loaded, calls, moves, faults>>

Reports == {0} \cup {r \in Runs : saves[r] > 0}
Going == {"queued", "running"}
Call(kind, on) == [kind |-> kind, on |-> on, served |-> FALSE]
InFlight(kind) == \E c \in calls : c.kind = kind
Shows(r, p, a) == shown' = [run |-> r, report |-> p, pdf |-> a]

Init ==
  /\ run = [r \in Runs |-> "absent"] /\ seen = run
  /\ pdf = [p \in {0} \cup Runs |-> "absent"] /\ printed = pdf
  /\ saves = [r \in Runs |-> 0] /\ loaded = {}
  /\ shown = [run |-> None, report |-> None, pdf |-> None]
  /\ calls = {} /\ moves = 0 /\ faults = 0

Server == <<run, pdf, saves>>
Told == <<seen, printed, loaded>>
Moved == moves < MaxMoves /\ moves' = moves + 1 /\ UNCHANGED <<Server, Told, faults>>
Sends(c) == calls' = calls \cup {c}

-----------------------------------------------------------------------------
(* The visitor.  A button whose mutation is pending takes no click.        *)
AnalyzeNow ==
  /\ Moved /\ ~InFlight("analyze") /\ \E r \in Runs : run[r] = "absent"
  /\ Sends(Call("analyze", CHOOSE r \in Runs : run[r] = "absent" /\ \A q \in Runs : q < r => run[q] # "absent"))
  /\ UNCHANGED shown
\* Mutant of OpenReport: the run stays beside the report that is opened.
OpenBeside(p) ==
  /\ Moved /\ p \in Reports /\ Shows(shown.run, p, None) /\ UNCHANGED calls
OpenReport(p) ==
  /\ Moved /\ p \in Reports /\ Shows(None, p, None) /\ UNCHANGED calls
\* Mutant of MaySave: the button takes a click while a report is being saved.
MaySaveAgain == shown.run # None /\ seen[shown.run] = "succeeded" /\ shown.report = None
MaySave ==
  /\ shown.run # None /\ seen[shown.run] = "succeeded" /\ shown.report = None
  /\ ~InFlight("save")
SaveReport ==
  /\ Moved /\ MaySave /\ Sends(Call("save", shown.run)) /\ UNCHANGED shown
HasPdf == shown.pdf # None /\ printed[shown.pdf] # "absent"
RequestPdf ==
  /\ Moved /\ shown.report # None /\ ~HasPdf /\ ~InFlight("pdf")
  /\ Sends(Call("pdf", shown.report)) /\ UNCHANGED shown

(* The server does what is asked, and computes.                            *)
Serve(c) ==
  /\ c \in calls /\ ~c.served /\ calls' = (calls \ {c}) \cup {[c EXCEPT !.served = TRUE]}
  /\ CASE c.kind = "analyze" -> run' = [run EXCEPT ![c.on] = "queued"] /\ UNCHANGED <<pdf, saves>>
       [] c.kind = "save" -> saves' = [saves EXCEPT ![c.on] = @ + 1] /\ UNCHANGED <<run, pdf>>
       [] OTHER -> /\ pdf' = [pdf EXCEPT ![c.on] = IF @ \in {"absent", "failed"} THEN "queued" ELSE @]
                   /\ UNCHANGED <<run, saves>>
  /\ UNCHANGED <<shown, Told, moves, faults>>
RunMoves(r) ==
  /\ run[r] \in Going
  /\ run' = [run EXCEPT ![r] = IF @ = "queued" THEN "running" ELSE "succeeded"]
  /\ UNCHANGED <<pdf, saves, shown, Told, calls, moves, faults>>
RunFails(r) ==
  /\ run[r] = "running" /\ run' = [run EXCEPT ![r] = "failed"]
  /\ UNCHANGED <<pdf, saves, shown, Told, calls, moves, faults>>
PdfEnds(p) ==
  /\ pdf[p] = "queued" /\ \E s \in {"ready", "failed"} : pdf' = [pdf EXCEPT ![p] = s]
  /\ UNCHANGED <<run, saves, shown, Told, calls, moves, faults>>

(* The answers put on screen what they are about.                          *)
Answered(c) == c \in calls /\ c.served /\ calls' = calls \ {c} /\ UNCHANGED <<Server, moves, faults>>
AnalysisCreated(c) ==
  /\ c.kind = "analyze" /\ Answered(c)
  /\ Shows(c.on, None, None) /\ seen' = [seen EXCEPT ![c.on] = run[c.on]] /\ UNCHANGED <<printed, loaded>>
ReportSaved(c) ==
  /\ c.kind = "save" /\ Answered(c)
  /\ Shows(None, c.on, None) /\ loaded' = loaded \cup {c.on} /\ UNCHANGED <<seen, printed>>
\* A PDF that failed is not taken again: the new one has told nothing yet.
PdfAsked(c) ==
  /\ c.kind = "pdf" /\ Answered(c) /\ Shows(shown.run, shown.report, c.on)
  /\ printed' = [printed EXCEPT ![c.on] = IF @ = "failed" THEN "absent" ELSE @]
  /\ UNCHANGED <<seen, loaded>>
Fails(c) ==
  /\ c \in calls /\ faults < MaxFaults /\ faults' = faults + 1 /\ calls' = calls \ {c}
  /\ UNCHANGED <<Server, shown, Told, moves>>

\* The queries of what is on screen; runs and PDFs are asked again while they go on.
Fetched == UNCHANGED <<Server, shown, calls, moves, faults>>
PollRun ==
  /\ shown.run # None /\ seen[shown.run] \in Going /\ seen[shown.run] # run[shown.run]
  /\ seen' = [seen EXCEPT ![shown.run] = run[shown.run]] /\ UNCHANGED <<printed, loaded>> /\ Fetched
PollPdf ==
  /\ shown.pdf # None /\ printed[shown.pdf] \in {"absent", "queued"}
  /\ printed[shown.pdf] # pdf[shown.pdf]
  /\ printed' = [printed EXCEPT ![shown.pdf] = pdf[shown.pdf]] /\ UNCHANGED <<seen, loaded>> /\ Fetched
ReportLoads ==
  /\ shown.report # None /\ shown.report \notin loaded
  /\ loaded' = loaded \cup {shown.report} /\ UNCHANGED <<seen, printed>> /\ Fetched

Next ==
  \/ AnalyzeNow \/ SaveReport \/ RequestPdf
  \/ \E p \in Reports : OpenReport(p) \/ PdfEnds(p)
  \/ \E c \in calls : Serve(c) \/ AnalysisCreated(c) \/ ReportSaved(c) \/ PdfAsked(c) \/ Fails(c)
  \/ \E r \in Runs : RunMoves(r) \/ RunFails(r)
  \/ PollRun \/ PollPdf \/ ReportLoads

-----------------------------------------------------------------------------
Nothing == [of |-> "nothing", id |-> 0]
\* The figures on screen, and the badge beside them.
Figures ==
  IF shown.report # None /\ shown.report \in loaded THEN [of |-> "report", id |-> shown.report]
  ELSE IF shown.run # None /\ seen[shown.run] = "succeeded" THEN [of |-> "run", id |-> shown.run]
  ELSE Nothing
Downloadable == shown.report # None /\ HasPdf /\ printed[shown.pdf] = "ready"

\* While a report is selected the figures are its own, or none: those of a run never pass
\* for it while it loads, whatever answers come (AnalysisLab.tsx, effectiveRun, result).
FiguresAreOfTheChoice ==
  shown.report # None => Figures \in {Nothing, [of |-> "report", id |-> shown.report]}

\* A run is kept as one report, whatever is clicked while the answer travels, unless a
\* request failed (AnalysisLab.tsx, saveReport).
SavedOnce == faults = 0 => \A r \in Runs : saves[r] <= 1

\* The PDF offered beside a report is its own. The answer to a request names the PDF of
\* the report that was selected then (requestPdf).
PdfIsOfTheReport == Downloadable => shown.pdf = shown.report

\* What leaves the screen without a click was kept: no list names the runs. The answer to
\* a save takes away the run on screen, even when it is another one (saveReport).
RunIsKeptOrShown ==
  moves' = moves /\ shown.run # None /\ shown'.run = None => saves[shown.run] > 0

\* A failed run is said to have failed (effectiveRun).
FailureIsTold == ~(shown.run # None /\ seen[shown.run] = "failed" /\ Figures = Nothing)

\* A PDF that failed can be asked for again (« Préparer le PDF »).
PdfIsOfferedAgain == ~(shown.report # None /\ HasPdf /\ printed[shown.pdf] = "failed" /\ faults = 0)
=============================================================================
