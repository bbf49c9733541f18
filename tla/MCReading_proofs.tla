--------------------------- MODULE MCReading_proofs ---------------------------
(***************************************************************************)
(* Proofs about the pages of MCReading, for any lists, texts, sentences,   *)
(* users and bounds: what is asked once is done once, late answers mislead *)
(* nobody, no walk misses a stop, no proposal lacks its support, and what  *)
(* is said to be somebody's decision was one.  A page is                   *)
(* proved about alone, from the actions of its module; the end of this     *)
(* module puts the pages together.                                         *)
(***************************************************************************)
EXTENDS MCReading, FiniteSetTheorems, SequenceTheorems, WellFoundedInduction, TLAPS
-----------------------------------------------------------------------------
(* The analysis on screen: a run is kept once, and a report shows its own  *)
(* figures.                                                                *)
FiguresCall == [kind : {"analyze", "save"}, on : FigureRuns, served : BOOLEAN]
                 \cup [kind : {"pdf"}, on : {0} \cup FigureRuns, served : BOOLEAN]
FiguresReport == {0, None} \cup FigureRuns

FiguresTypes ==
  /\ run \in [FigureRuns -> {"absent", "queued", "running", "succeeded", "failed"}]
  /\ saves \in [FigureRuns -> Nat]
  /\ figuresShown \in [run : {None} \cup FigureRuns, report : FiguresReport, pdf : FiguresReport]
  /\ calls \subseteq FiguresCall
  /\ faults \in Nat

\* What is shown, saved or being saved of a run.
FiguresSaving(r) == \E c \in calls : c.kind = "save" /\ c.on = r
\* One answer of each kind is awaited.
FiguresOneCall ==
  \A c, d \in calls : c.kind = d.kind /\ c.kind \in {"analyze", "save"} => c = d
\* A run asked for is there only once it was served, and a run that is not there is nowhere.
FiguresAsked ==
  /\ \A c \in calls : c.kind = "analyze" =>
       /\ c.served => run[c.on] # "absent"
       /\ saves[c.on] = 0 /\ figuresShown.run # c.on /\ ~FiguresSaving(c.on)
  /\ \A r \in FigureRuns : run[r] = "absent" =>
       saves[r] = 0 /\ figuresShown.run # r /\ ~FiguresSaving(r)
\* A run on screen, or being saved, was not saved before.
FiguresUnsaved ==
  /\ \A r \in FigureRuns : figuresShown.run = r /\ ~FiguresSaving(r) => saves[r] = 0
  /\ \A c \in calls : c.kind = "save" /\ ~c.served => saves[c.on] = 0
  /\ \A r \in FigureRuns : saves[r] <= 1

FiguresInv ==
  /\ FiguresTypes /\ Figures!FiguresAreOfTheChoice
  /\ figuresShown.report # None => figuresShown.run = None
  /\ faults = 0 => FiguresOneCall /\ FiguresAsked /\ FiguresUnsaved

LEMMA FiguresInitial == ASSUME Figures!Init, FiguresAssumption PROVE FiguresInv
BY DEF Figures!Init, FiguresInv, FiguresTypes, FiguresReport, Figures!FiguresAreOfTheChoice, Figures!Figures,
       FiguresOneCall, FiguresAsked, FiguresUnsaved, FiguresSaving, FiguresAssumption

\* AnalyzeNow asks for the least run that is not there.
LEMMA FiguresLeast ==
  ASSUME NEW r \in FigureRuns, run[r] = "absent", FiguresAssumption
  PROVE  \E q \in FigureRuns : run[q] = "absent" /\ \A p \in FigureRuns : p < q => run[p] # "absent"
<1> DEFINE T == {q \in FigureRuns : run[q] = "absent"}
<1>1. T \subseteq Nat /\ T # {}
  BY DEF FiguresAssumption
<1>2. PICK q \in T : \A p \in T : ~ (<<p, q>> \in OpToRel(<, Nat))
  BY <1>1, NatLessThanWellFounded, WFMin
<1>3. ASSUME NEW p \in FigureRuns, p < q PROVE run[p] # "absent"
  BY <1>1, <1>2, <1>3 DEF OpToRel, FiguresAssumption
<1> QED BY <1>2, <1>3

\* What leaves the runs, the reports and the calls as they were.
LEMMA FiguresOnlyTold ==
  ASSUME FiguresInv, UNCHANGED <<run, saves, calls, faults>>,
         figuresShown'.run = figuresShown.run \/ figuresShown'.run = None,
         FiguresTypes', figuresShown'.report # None => figuresShown'.run = None, FiguresAssumption
  PROVE  FiguresInv'
<1>1. faults' = 0 => FiguresOneCall' /\ FiguresAsked' /\ FiguresUnsaved'
  <2> HAVE faults' = 0
  <2>1. \A r \in FigureRuns : figuresShown'.run = r => figuresShown.run = r
    BY DEF FiguresAssumption
  <2>2. \A r \in FigureRuns : FiguresSaving(r)' <=> FiguresSaving(r)
    BY DEF FiguresSaving
  <2>3. \A c \in calls : c.kind = "analyze" => c.on \in FigureRuns
    BY DEF FiguresInv, FiguresTypes, FiguresCall
  <2>4. FiguresOneCall'
    BY DEF FiguresInv, FiguresOneCall
  <2>5. FiguresAsked'
    BY <2>1, <2>2, <2>3 DEF FiguresInv, FiguresAsked
  <2>6. FiguresUnsaved'
    BY <2>1, <2>2 DEF FiguresInv, FiguresUnsaved
  <2> QED BY <2>4, <2>5, <2>6
<1>2. Figures!FiguresAreOfTheChoice'
  BY DEF Figures!FiguresAreOfTheChoice, Figures!Figures, Figures!Nothing
<1> QED BY <1>1, <1>2 DEF FiguresInv

\* Shows puts a record on screen, and the answers and the polls tell what they are about.
LEMMA FiguresLooks ==
  ASSUME FiguresInv, FiguresAssumption,
         \/ \E p \in Figures!Reports : Figures!OpenReport(p) \/ Figures!PdfEnds(p)
         \/ Figures!PollRun \/ Figures!PollPdf \/ Figures!ReportLoads
  PROVE  FiguresInv'
<1>1. ASSUME NEW p \in Figures!Reports, Figures!OpenReport(p) PROVE FiguresInv'
  <2>1. /\ UNCHANGED <<run, saves, calls, faults>>
        /\ figuresShown' = [run |-> None, report |-> p, pdf |-> None]
    BY <1>1 DEF Figures!OpenReport, Figures!Moved, Figures!Server, Figures!Shows
  <2>2. p \in FiguresReport
    BY DEF Figures!Reports, FiguresReport
  <2>3. FiguresTypes'
    BY <2>1, <2>2 DEF FiguresInv, FiguresTypes, FiguresReport
  <2> QED BY <2>1, <2>3, FiguresOnlyTold
<1>2. ASSUME UNCHANGED <<run, saves, calls, faults, figuresShown>> PROVE FiguresInv'
  BY <1>2, FiguresOnlyTold DEF FiguresInv, FiguresTypes
<1>3. ASSUME NEW p \in Figures!Reports, Figures!PdfEnds(p) PROVE FiguresInv'
  BY <1>2, <1>3 DEF Figures!PdfEnds
<1> QED
  BY <1>1, <1>2, <1>3 DEF Figures!PollRun, Figures!PollPdf, Figures!ReportLoads, Figures!Fetched, Figures!Server

LEMMA FiguresAsks ==
  ASSUME FiguresInv, FiguresAssumption, Figures!AnalyzeNow \/ Figures!SaveReport \/ Figures!RequestPdf
  PROVE  FiguresInv'
<1>0. UNCHANGED <<run, saves, faults, figuresShown>> /\ FiguresTypes
  BY DEF Figures!AnalyzeNow, Figures!SaveReport, Figures!RequestPdf, Figures!Moved, Figures!Server, FiguresInv
<1>1. PICK kind \in {"analyze", "save", "pdf"}, on \in FiguresReport \ {None} :
      /\ calls' = calls \cup {[kind |-> kind, on |-> on, served |-> FALSE]}
      /\ \A c \in calls : c.kind # kind
      /\ kind = "analyze" => on \in FigureRuns /\ run[on] = "absent"
      /\ kind = "save" => on \in FigureRuns /\ figuresShown.run = on
  <2>1. CASE Figures!AnalyzeNow
    <3>1. PICK r \in FigureRuns : run[r] = "absent" /\ \A p \in FigureRuns : p < r => run[p] # "absent"
      BY <2>1, FiguresLeast DEF Figures!AnalyzeNow
    <3> DEFINE least == CHOOSE q \in FigureRuns : run[q] = "absent" /\ \A p \in FigureRuns : p < q => run[p] # "absent"
    <3>2. least \in FigureRuns /\ run[least] = "absent"
      BY <3>1
    <3>3. calls' = calls \cup {[kind |-> "analyze", on |-> least, served |-> FALSE]}
          /\ \A c \in calls : c.kind # "analyze"
      BY <2>1 DEF Figures!AnalyzeNow, Figures!Sends, Figures!Call, Figures!InFlight
    <3> HIDE DEF least
    <3> QED BY <3>2, <3>3 DEF FiguresReport, FiguresAssumption
  <2>2. CASE Figures!SaveReport
    BY <2>2, <1>0 DEF Figures!SaveReport, Figures!MaySave, Figures!Sends, Figures!Call, Figures!InFlight, FiguresReport, FiguresTypes
  <2>3. CASE Figures!RequestPdf
    BY <2>3, <1>0 DEF Figures!RequestPdf, Figures!Sends, Figures!Call, Figures!InFlight, FiguresReport, FiguresTypes
  <2> QED BY <2>1, <2>2, <2>3
<1> DEFINE new == [kind |-> kind, on |-> on, served |-> FALSE]
<1>2. new \in FiguresCall /\ new.kind = kind /\ new.on = on /\ ~new.served
  BY <1>1 DEF FiguresCall, FiguresReport
<1>3. calls' = calls \cup {new}
  BY <1>1
<1> HIDE DEF new
<1>4. FiguresTypes' /\ Figures!FiguresAreOfTheChoice'
  BY <1>0, <1>2, <1>3 DEF FiguresInv, FiguresTypes, Figures!FiguresAreOfTheChoice, Figures!Figures, Figures!Nothing
<1>5. faults' = 0 => FiguresOneCall' /\ FiguresAsked' /\ FiguresUnsaved'
  <2> HAVE faults' = 0
  <2>1. FiguresOneCall /\ FiguresAsked /\ FiguresUnsaved
    BY <1>0 DEF FiguresInv
  <2>2. FiguresOneCall'
    BY <1>1, <1>2, <1>3, <2>1 DEF FiguresOneCall
  <2>3. \A r \in FigureRuns : FiguresSaving(r)' <=> FiguresSaving(r) \/ (kind = "save" /\ on = r)
    BY <1>2, <1>3 DEF FiguresSaving
  <2>4. \A c \in calls : c.kind = "analyze" => c.on \in FigureRuns
    BY <1>0 DEF FiguresTypes, FiguresCall
  <2>5. FiguresAsked'
    BY <1>0, <1>1, <1>2, <1>3, <2>1, <2>3, <2>4 DEF FiguresAsked
  <2>6. FiguresUnsaved'
    <3>1. kind = "save" => saves[on] = 0
      BY <1>1, <2>1 DEF FiguresUnsaved, FiguresSaving
    <3>2. \A c \in calls' : c.kind = "save" /\ ~c.served => saves[c.on] = 0
      BY <1>2, <1>3, <2>1, <3>1 DEF FiguresUnsaved
    <3> QED BY <1>0, <2>1, <2>3, <3>2 DEF FiguresUnsaved
  <2> QED BY <2>2, <2>5, <2>6
<1> QED BY <1>0, <1>4, <1>5 DEF FiguresInv

LEMMA FiguresServe ==
  ASSUME FiguresInv, FiguresAssumption, NEW c \in calls, Figures!Serve(c)
  PROVE  FiguresInv'
<1> DEFINE new == [c EXCEPT !.served = TRUE]
<1>0. FiguresTypes /\ c \in FiguresCall /\ ~c.served
  BY DEF FiguresInv, FiguresTypes, Figures!Serve
<1>1. new \in FiguresCall /\ new.kind = c.kind /\ new.on = c.on /\ new.served
  BY <1>0 DEF FiguresCall
<1>2. /\ calls' = (calls \ {c}) \cup {new} /\ UNCHANGED <<figuresShown, faults, seen, loaded>>
      /\ run' = IF c.kind = "analyze" THEN [run EXCEPT ![c.on] = "queued"] ELSE run
      /\ saves' = IF c.kind = "save" THEN [saves EXCEPT ![c.on] = @ + 1] ELSE saves
      /\ c.kind \in {"analyze", "save"} => c.on \in FigureRuns
  BY <1>0 DEF Figures!Serve, Figures!Told, FiguresCall
<1> HIDE DEF new
<1>3. FiguresTypes' /\ Figures!FiguresAreOfTheChoice'
  <2>0. run' = [run EXCEPT ![c.on] = "queued"] \/ run' = run
    BY <1>2
  <2>1. run' \in [FigureRuns -> {"absent", "queued", "running", "succeeded", "failed"}]
        /\ saves' \in [FigureRuns -> Nat]
    <3>1. saves' = [saves EXCEPT ![c.on] = @ + 1] \/ saves' = saves
      BY <1>2
    <3>2. saves' \in [FigureRuns -> Nat]
      BY <3>1, <1>0 DEF FiguresTypes
    <3> QED BY <2>0, <3>2, <1>0 DEF FiguresTypes
  <2>2. FiguresTypes'
    BY <1>0, <1>1, <1>2, <2>1 DEF FiguresTypes
  <2> QED BY <1>2, <2>2 DEF FiguresInv, Figures!FiguresAreOfTheChoice, Figures!Figures, Figures!Nothing
<1>4. faults' = 0 => FiguresOneCall' /\ FiguresAsked' /\ FiguresUnsaved'
  <2> HAVE faults' = 0
  <2>1. FiguresOneCall /\ FiguresAsked /\ FiguresUnsaved
    BY <1>2 DEF FiguresInv
  <2>2. FiguresOneCall'
    BY <1>1, <1>2, <2>1 DEF FiguresOneCall
  <2>3. \A r \in FigureRuns : FiguresSaving(r)' <=> FiguresSaving(r)
    BY <1>1, <1>2 DEF FiguresSaving
  <2>4. \A d \in calls : d.kind = "analyze" => d.on \in FigureRuns
    BY <1>0 DEF FiguresTypes, FiguresCall
  <2>5. \A r \in FigureRuns : /\ run'[r] = IF c.kind = "analyze" /\ r = c.on THEN "queued" ELSE run[r]
                              /\ saves'[r] = IF c.kind = "save" /\ r = c.on THEN saves[r] + 1 ELSE saves[r]
    BY <1>0, <1>2 DEF FiguresTypes
  <2>6. FiguresAsked'
    <3>1. c.kind = "save" => FiguresSaving(c.on)
      BY DEF FiguresSaving
    <3>2. \A r \in FigureRuns : saves'[r] # saves[r] => FiguresSaving(r)
      BY <1>0, <2>5, <3>1
    <3>3. \A r \in FigureRuns : run'[r] = "absent" => run[r] = "absent"
      BY <2>5
    <3>4. c.kind = "analyze" => c.on \in FigureRuns /\ run'[c.on] # "absent"
      <4>1. c.kind = "analyze" => c.on \in FigureRuns
        BY <1>2
      <4>2. c.kind = "analyze" => run'[c.on] = "queued"
        BY <4>1, <2>5
      <4> QED BY <4>1, <4>2
    <3>5. ASSUME NEW d \in calls', d.kind = "analyze"
          PROVE  /\ d.served => run'[d.on] # "absent"
                 /\ saves'[d.on] = 0 /\ figuresShown'.run # d.on /\ ~FiguresSaving(d.on)'
      <4>1. CASE d \in calls
        BY <4>1, <3>5, <1>2, <2>1, <2>3, <2>4, <3>2, <3>3 DEF FiguresAsked
      <4>2. CASE d = new
        BY <4>2, <3>5, <1>1, <1>2, <2>1, <2>3, <2>4, <3>2, <3>4 DEF FiguresAsked
      <4> QED BY <4>1, <4>2, <1>2
    <3>6. \A r \in FigureRuns : run'[r] = "absent" =>
            saves'[r] = 0 /\ figuresShown'.run # r /\ ~FiguresSaving(r)'
      BY <1>2, <2>1, <2>3, <3>2, <3>3 DEF FiguresAsked
    <3> QED BY <3>5, <3>6 DEF FiguresAsked
  <2>7. FiguresUnsaved'
    BY <1>0, <1>1, <1>2, <2>1, <2>3, <2>5 DEF FiguresUnsaved, FiguresSaving, FiguresOneCall, FiguresTypes, FiguresCall
  <2> QED BY <2>2, <2>6, <2>7
<1> QED BY <1>2, <1>3, <1>4 DEF FiguresInv

LEMMA FiguresAnswers ==
  ASSUME FiguresInv, FiguresAssumption, NEW c \in calls,
         Figures!AnalysisCreated(c) \/ Figures!ReportSaved(c) \/ Figures!PdfAsked(c)
  PROVE  FiguresInv'
<1>0. /\ FiguresTypes /\ c \in FiguresCall /\ c.served
      /\ calls' = calls \ {c} /\ UNCHANGED <<run, saves, faults>>
      /\ c.kind \in {"analyze", "save"} => c.on \in FigureRuns
  BY DEF FiguresInv, FiguresTypes, FiguresCall, Figures!AnalysisCreated, Figures!ReportSaved, Figures!PdfAsked, Figures!Answered, Figures!Server
<1>1. figuresShown' = CASE c.kind = "analyze" -> [run |-> c.on, report |-> None, pdf |-> None]
                        [] c.kind = "save" -> [run |-> None, report |-> c.on, pdf |-> None]
                        [] OTHER -> [run |-> figuresShown.run, report |-> figuresShown.report, pdf |-> c.on]
  BY DEF Figures!AnalysisCreated, Figures!ReportSaved, Figures!PdfAsked, Figures!Shows
<1>2. FiguresTypes'
  BY <1>0, <1>1 DEF FiguresTypes, FiguresCall, FiguresReport
<1>3. figuresShown'.report # None => figuresShown'.run = None
  BY <1>1 DEF FiguresInv
<1>4. Figures!FiguresAreOfTheChoice'
  BY <1>3 DEF Figures!FiguresAreOfTheChoice, Figures!Figures, Figures!Nothing
<1>5. faults' = 0 => FiguresOneCall' /\ FiguresAsked' /\ FiguresUnsaved'
  <2> HAVE faults' = 0
  <2>1. FiguresOneCall /\ FiguresAsked /\ FiguresUnsaved
    BY <1>0 DEF FiguresInv
  <2>2. FiguresOneCall'
    BY <1>0, <2>1 DEF FiguresOneCall
  <2>3. \A r \in FigureRuns : figuresShown'.run = r =>
          IF c.kind = "analyze" THEN r = c.on ELSE figuresShown.run = r /\ c.kind # "save"
    BY <1>0, <1>1 DEF FiguresAssumption
  <2>4. \A d \in calls : d.kind = "analyze" => d.on \in FigureRuns
    BY <1>0 DEF FiguresTypes, FiguresCall
  <2>5. FiguresAsked'
    <3>1. \A r \in FigureRuns : FiguresSaving(r)' => FiguresSaving(r)
      BY <1>0 DEF FiguresSaving
    <3> QED BY <1>0, <2>1, <2>3, <2>4, <3>1 DEF FiguresAsked, FiguresOneCall
  <2>6. FiguresUnsaved'
    BY <1>0, <2>1, <2>3 DEF FiguresUnsaved, FiguresSaving, FiguresAsked
  <2> QED BY <2>2, <2>5, <2>6
<1> QED BY <1>2, <1>3, <1>4, <1>5 DEF FiguresInv

LEMMA FiguresGoesOn ==
  ASSUME FiguresInv, FiguresAssumption,
         (\E r \in FigureRuns : Figures!RunMoves(r) \/ Figures!RunFails(r)) \/ \E c \in calls : Figures!Fails(c)
  PROVE  FiguresInv'
<1>1. ASSUME NEW r \in FigureRuns, Figures!RunMoves(r) \/ Figures!RunFails(r) PROVE FiguresInv'
  <2>1. /\ UNCHANGED <<saves, calls, faults, figuresShown, seen, loaded>> /\ run[r] # "absent"
        /\ \E s \in {"running", "succeeded", "failed"} : run' = [run EXCEPT ![r] = s]
    BY <1>1 DEF Figures!RunMoves, Figures!RunFails, Figures!Told, Figures!Going
  <2>2. FiguresTypes' /\ \A q \in FigureRuns : run'[q] = "absent" <=> run[q] = "absent"
    BY <2>1 DEF FiguresInv, FiguresTypes
  <2>3. \A c \in calls : c.kind = "analyze" => c.on \in FigureRuns
    BY DEF FiguresInv, FiguresTypes, FiguresCall
  <2>4. faults' = 0 => FiguresOneCall' /\ FiguresAsked' /\ FiguresUnsaved'
    BY <2>1, <2>2, <2>3 DEF FiguresInv, FiguresOneCall, FiguresAsked, FiguresUnsaved, FiguresSaving
  <2> QED BY <2>1, <2>2, <2>4 DEF FiguresInv, Figures!FiguresAreOfTheChoice, Figures!Figures, Figures!Nothing
<1>2. ASSUME NEW c \in calls, Figures!Fails(c) PROVE FiguresInv'
  <2>1. faults' # 0 /\ FiguresTypes'
    BY <1>2 DEF Figures!Fails, Figures!Server, FiguresInv, FiguresTypes
  <2> QED BY <1>2, <2>1 DEF FiguresInv, Figures!Fails, Figures!Server, Figures!Told, Figures!FiguresAreOfTheChoice, Figures!Figures, Figures!Nothing
<1> QED BY <1>1, <1>2

LEMMA FiguresStep == ASSUME FiguresInv, FiguresAssumption, Figures!Next PROVE FiguresInv'
BY FiguresLooks, FiguresAsks, FiguresServe, FiguresAnswers, FiguresGoesOn DEF Figures!Next

\* A run is kept once unless a request failed.
LEMMA FiguresSaved == ASSUME FiguresInv PROVE Figures!SavedOnce /\ Figures!FiguresAreOfTheChoice
BY DEF FiguresInv, FiguresUnsaved, Figures!SavedOnce
-----------------------------------------------------------------------------
(* The form of the experiments: one launch, and the experiment it shows.   *)
LauncherPreset == LaunchPresets \cup {"none"}
LauncherConfig == [preset : LaunchPresets \cup {"none", "typed"}, ds : Nat]
LauncherForm == [mode : {"guided", "expert"}, ds : Nat, preset : LauncherPreset, config : LauncherConfig,
                 experiment : Nat, estimate : Nat, code : BOOLEAN, launched : BOOLEAN]
LauncherResult == {"none", "failed", "too large", "duplicate", "taken", "lost"}

LauncherTypes ==
  /\ armed \in LauncherPreset /\ launcherArrived \subseteq {"datasets", "catalog"}
  /\ form \in LauncherForm /\ disturbed \in BOOLEAN
  /\ asked \in [what : {"nothing", "create", "estimate", "launch"}, exp : Nat, result : LauncherResult]
  /\ made \in Seq([ds : Nat \ {0}, config : LauncherConfig]) /\ taken \in Seq(Nat) /\ Len(taken) = Len(made)

\* The experiments named are there, and what is asked says what for.
LauncherNamed ==
  /\ form.experiment <= Len(made) /\ asked.exp <= Len(made)
  /\ asked.what = "nothing" => asked = Launcher!Nothing
  /\ asked.what = "estimate" => asked.exp # 0
  /\ asked.what = "create" /\ asked.exp # 0 => taken[asked.exp] = 0

\* An experiment that is launched, and known to be, cannot be launched from the form.
LauncherOnce ==
  /\ Launcher!LaunchedOnce
  /\ \A n \in 1 .. Len(made) : taken[n] >= 1 /\ n \notin lost /\ form.experiment = n =>
       /\ ~form.code
       /\ \/ form.launched /\ asked = Launcher!Nothing
          \/ asked = Launcher!Request("launch", n, "taken")

\* While nobody changes the form, it waits for what it shows.
LauncherShows == ~disturbed =>
  /\ form.experiment = 0 => form.estimate = 0
  /\ asked.what = "estimate" => form.experiment = asked.exp
  /\ asked.what = "create" => form.experiment = 0 /\ (asked.exp # 0 => form.ds = made[asked.exp].ds)
  /\ form.experiment # 0 => /\ form.ds = made[form.experiment].ds
                            /\ form.estimate # 0 => form.estimate = form.experiment

\* The configuration is that of the form, or a preset armed before its catalog.
LauncherConfigured ==
  /\ form.mode = "guided" /\ form.ds # 0 =>
       /\ form.config.ds = form.ds
       /\ form.config.preset = form.preset \/ (form.config.preset = "none" /\ form.preset = armed)
  /\ form.preset # "none" /\ "catalog" \notin launcherArrived => form.preset = armed

LauncherInv == LauncherTypes /\ LauncherNamed /\ LauncherOnce /\ LauncherShows /\ LauncherConfigured

LEMMA LauncherInitial == ASSUME Launcher!Init PROVE LauncherInv
<1>1. made = << >> /\ taken = << >> /\ Len(made) = 0 /\ Len(taken) = 0
  BY DEF Launcher!Init
<1>2. form = Launcher!Blank /\ asked = Launcher!Nothing
  BY DEF Launcher!Init
<1>3. form.experiment = 0 /\ form.estimate = 0 /\ form.ds = 0 /\ form.preset = "none" /\ form \in LauncherForm
  BY <1>2 DEF Launcher!Blank, LauncherForm, LauncherPreset, LauncherConfig, Launcher!NoConfig, Launcher!Config
<1>4. LauncherTypes
  <2>1. asked \in [what : {"nothing", "create", "estimate", "launch"}, exp : Nat, result : LauncherResult]
    BY <1>2 DEF Launcher!Nothing, LauncherResult
  <2>2. armed \in LauncherPreset /\ launcherArrived \subseteq {"datasets", "catalog"} /\ disturbed \in BOOLEAN
    BY DEF Launcher!Init, LauncherPreset
  <2>3. made \in Seq([ds : Nat \ {0}, config : LauncherConfig]) /\ taken \in Seq(Nat)
    BY <1>1
  <2> QED BY <1>1, <1>3, <2>1, <2>2, <2>3 DEF LauncherTypes
<1>5. LauncherNamed /\ LauncherShows
  BY <1>1, <1>2, <1>3 DEF LauncherNamed, LauncherShows, Launcher!Nothing
<1>6. LauncherOnce /\ LauncherConfigured
  BY <1>1, <1>3 DEF LauncherOnce, Launcher!LaunchedOnce, LauncherConfigured
<1> QED BY <1>4, <1>5, <1>6 DEF LauncherInv

\* The effect of the guided mode writes the configuration and nothing else.
LEMMA LauncherRegenerated ==
  ASSUME LauncherTypes, LauncherConfigured, NEW f \in LauncherForm,
         f.config # form.config => f.mode = "expert",
         f.preset # form.preset => f.preset = "none" \/ "catalog" \in launcherArrived
  PROVE  LET g == Launcher!Regenerated(f)
         IN  /\ g \in LauncherForm
             /\ g.mode = f.mode /\ g.ds = f.ds /\ g.preset = f.preset /\ g.experiment = f.experiment
             /\ g.estimate = f.estimate /\ g.code = f.code /\ g.launched = f.launched
             /\ g.mode = "guided" /\ g.ds # 0 =>
                  /\ g.config.ds = g.ds
                  /\ g.config.preset = g.preset \/ (g.config.preset = "none" /\ g.preset = armed)
             /\ g.preset # "none" /\ "catalog" \notin launcherArrived => g.preset = armed
<1> DEFINE g == Launcher!Regenerated(f)
<1>1. Launcher!Config(Launcher!Selected(f.preset), f.ds) \in LauncherConfig
  BY DEF Launcher!Config, Launcher!Selected, LauncherConfig, LauncherForm, LauncherPreset
<1>2. CASE f.mode = "guided" /\ f.ds # 0 /\ (f.preset # form.preset \/ f.mode # form.mode \/ f.ds # form.ds)
  <2>1. g = [f EXCEPT !.config = Launcher!Config(Launcher!Selected(f.preset), f.ds)]
    BY <1>2 DEF Launcher!Regenerated
  <2>2. g \in LauncherForm /\ g.config = Launcher!Config(Launcher!Selected(f.preset), f.ds)
        /\ g.mode = f.mode /\ g.ds = f.ds /\ g.preset = f.preset /\ g.experiment = f.experiment
        /\ g.estimate = f.estimate /\ g.code = f.code /\ g.launched = f.launched
    BY <2>1, <1>1 DEF LauncherForm
  <2> QED BY <2>2 DEF Launcher!Config, Launcher!Selected, LauncherConfigured
<1>3. CASE ~(f.mode = "guided" /\ f.ds # 0 /\ (f.preset # form.preset \/ f.mode # form.mode \/ f.ds # form.ds))
  <2>1. g = f
    BY <1>3 DEF Launcher!Regenerated
  <2> QED BY <2>1, <1>3 DEF LauncherConfigured
<1> QED BY <1>2, <1>3

\* A change of the form by its user: nothing is launched, and what is awaited is disturbed.
LEMMA LauncherEdited ==
  ASSUME LauncherInv, NEW f \in LauncherForm, form' = Launcher!Regenerated(f),
         disturbed' = (disturbed \/ Launcher!Busy), UNCHANGED <<armed, launcherArrived, asked, made, taken, lost>>,
         f.config # form.config => f.mode = "expert",
         f.preset # form.preset => f.preset = "none" \/ "catalog" \in launcherArrived,
         f.experiment = 0, form.experiment = 0 => f.estimate = form.estimate, form.experiment # 0 => f.estimate = 0
  PROVE  LauncherInv'
<1>1. /\ form' \in LauncherForm /\ form'.experiment = 0 /\ form'.estimate = f.estimate
      /\ LauncherConfigured'
  BY LauncherRegenerated DEF LauncherInv, LauncherConfigured
<1>2. LauncherTypes'
  BY <1>1 DEF LauncherInv, LauncherTypes
<1>3. LauncherNamed'
  BY <1>1 DEF LauncherInv, LauncherNamed, LauncherTypes
<1>4. LauncherOnce'
  BY <1>1 DEF LauncherInv, LauncherOnce, Launcher!LaunchedOnce, LauncherTypes
<1>5. ~disturbed' => ~disturbed /\ asked.what = "nothing"
  <2>1. CASE Launcher!Busy
    BY <2>1
  <2>2. CASE ~Launcher!Busy
    <3>1. asked.what = "nothing"
      BY <2>2 DEF Launcher!Busy, Launcher!Nothing
    <3>2. ~disturbed' => ~disturbed
      OBVIOUS
    <3> QED BY <3>1, <3>2
  <2> QED BY <2>1, <2>2
<1>6. LauncherShows'
  <2>1. ~disturbed => f.estimate = 0
    BY DEF LauncherInv, LauncherShows
  <2> QED BY <1>1, <1>5, <2>1 DEF LauncherShows
<1> QED BY <1>1, <1>2, <1>3, <1>4, <1>6 DEF LauncherInv

LEMMA LauncherEdits ==
  ASSUME LauncherInv, LaunchAssumption,
         \/ \E p \in LaunchPresets : Launcher!ChoosePreset(p)
         \/ \E i \in 1 .. Len(LaunchDatasets) : Launcher!ChooseDataset(LaunchDatasets[i])
         \/ \E m \in {"guided", "expert"} : Launcher!ChooseMode(m)
         \/ \E d \in {LaunchDatasets[i] : i \in 1 .. Len(LaunchDatasets)} : Launcher!TypeConfig(Launcher!Config("typed", d))
         \/ Launcher!Close \/ Launcher!Reset
  PROVE  LauncherInv'
<1>0. form \in LauncherForm /\ \A i \in 1 .. Len(LaunchDatasets) : LaunchDatasets[i] \in Nat
  BY DEF LauncherInv, LauncherTypes, LaunchAssumption
<1>1. ASSUME NEW f, Launcher!Edit(f)
      PROVE  form' = Launcher!Regenerated(f) /\ disturbed' = (disturbed \/ Launcher!Busy)
             /\ UNCHANGED <<armed, launcherArrived, asked, made, taken, lost>>
  BY <1>1 DEF Launcher!Edit, Launcher!server
<1>2. ASSUME NEW p \in LaunchPresets, Launcher!ChoosePreset(p) PROVE LauncherInv'
  <2> DEFINE f == [form EXCEPT !.preset = p]
  <2>1. /\ f \in LauncherForm /\ f.config = form.config /\ f.experiment = form.experiment /\ f.estimate = form.estimate
    BY <1>0 DEF LauncherForm, LauncherPreset
  <2>2. Launcher!Edit(f) /\ form.experiment = 0 /\ "catalog" \in launcherArrived
    BY <1>2 DEF Launcher!ChoosePreset, Launcher!Editable
  <2> HIDE DEF f
  <2> QED BY <1>1, <2>1, <2>2, LauncherEdited
<1>3. ASSUME NEW d \in Nat, Launcher!ChooseDataset(d) PROVE LauncherInv'
  <2> DEFINE f == [form EXCEPT !.ds = d]
  <2>1. /\ f \in LauncherForm /\ f.config = form.config /\ f.experiment = form.experiment /\ f.estimate = form.estimate
        /\ f.preset = form.preset
    BY <1>0 DEF LauncherForm
  <2>2. Launcher!Edit(f) /\ form.experiment = 0
    BY <1>3 DEF Launcher!ChooseDataset, Launcher!Editable
  <2> HIDE DEF f
  <2> QED BY <1>1, <2>1, <2>2, LauncherEdited
<1>4. ASSUME NEW m \in {"guided", "expert"}, Launcher!ChooseMode(m) PROVE LauncherInv'
  <2> DEFINE f == [form EXCEPT !.mode = m]
  <2>1. /\ f \in LauncherForm /\ f.config = form.config /\ f.experiment = form.experiment /\ f.estimate = form.estimate
        /\ f.preset = form.preset
    BY <1>0 DEF LauncherForm
  <2>2. Launcher!Edit(f) /\ form.experiment = 0
    BY <1>4 DEF Launcher!ChooseMode, Launcher!Editable
  <2> HIDE DEF f
  <2> QED BY <1>1, <2>1, <2>2, LauncherEdited
<1>5. ASSUME NEW d \in Nat, Launcher!TypeConfig(Launcher!Config("typed", d)) PROVE LauncherInv'
  <2> DEFINE f == [form EXCEPT !.config = Launcher!Config("typed", d)]
  <2>0. Launcher!Config("typed", d) \in LauncherConfig
    BY DEF LauncherConfig, Launcher!Config
  <2>1. /\ f \in LauncherForm /\ f.mode = form.mode /\ f.experiment = form.experiment /\ f.estimate = form.estimate
        /\ f.preset = form.preset
    BY <1>0, <2>0 DEF LauncherForm
  <2>2. Launcher!Edit(f) /\ form.experiment = 0 /\ form.mode = "expert"
    BY <1>5 DEF Launcher!TypeConfig, Launcher!Editable
  <2> HIDE DEF f
  <2> QED BY <1>1, <2>1, <2>2, LauncherEdited
<1>6. ASSUME Launcher!Close \/ Launcher!Reset PROVE LauncherInv'
  <2> DEFINE f == Launcher!Emptied(form)
  <2>1. /\ f \in LauncherForm /\ f.config = form.config /\ f.experiment = 0 /\ f.estimate = 0 /\ f.preset = "none"
    BY <1>0 DEF LauncherForm, LauncherPreset, Launcher!Emptied
  <2>2. form' = Launcher!Regenerated(f) /\ disturbed' = (disturbed \/ Launcher!Busy)
        /\ UNCHANGED <<armed, launcherArrived, asked, made, taken, lost>>
    BY <1>1, <1>6 DEF Launcher!Close, Launcher!Reset, Launcher!server
  <2> HIDE DEF f
  <2>3. CASE form.experiment = 0 /\ form.estimate # 0
    <3>1. disturbed
      BY <2>3 DEF LauncherInv, LauncherShows, LauncherTypes
    <3>2. /\ form' \in LauncherForm /\ form'.experiment = 0 /\ LauncherConfigured'
      BY <2>1, <2>2, LauncherRegenerated DEF LauncherInv, LauncherConfigured
    <3>3. LauncherTypes' /\ LauncherNamed'
      BY <2>2, <3>2 DEF LauncherInv, LauncherTypes, LauncherNamed
    <3>4. LauncherOnce'
      BY <2>2, <3>2 DEF LauncherInv, LauncherOnce, Launcher!LaunchedOnce, LauncherTypes
    <3>5. LauncherShows'
      BY <2>2, <3>1 DEF LauncherShows
    <3> QED BY <3>2, <3>3, <3>4, <3>5 DEF LauncherInv
  <2> QED BY <2>1, <2>2, <2>3, LauncherEdited
<1> QED BY <1>0, <1>2, <1>3, <1>4, <1>5, <1>6

\* A form mounted anew waits for nothing.
LEMMA LauncherMounts ==
  ASSUME LauncherInv,
         (\E p \in LaunchPresets : Launcher!OnLaunchPreset(p)) \/ Launcher!ShowRuns \/ Launcher!ShowPrograms
  PROVE  LauncherInv'
<1>0. \A p \in LauncherPreset : LET f == [Launcher!Blank EXCEPT !.preset = p]
         IN f \in LauncherForm /\ f.experiment = 0 /\ f.estimate = 0 /\ f.ds = 0 /\ f.preset = p
  BY DEF Launcher!Blank, LauncherForm, LauncherConfig, Launcher!NoConfig, Launcher!Config
<1>1. /\ form' \in LauncherForm /\ form'.experiment = 0 /\ form'.estimate = 0 /\ form'.ds = 0
      /\ form'.preset # "none" => armed' = form'.preset
      /\ armed' \in LauncherPreset
      /\ launcherArrived' = {} /\ asked' = Launcher!Nothing /\ disturbed' = FALSE /\ UNCHANGED <<made, taken, lost>>
  <2>1. CASE Launcher!ShowPrograms
    <3>1. Launcher!Blank \in LauncherForm
      BY DEF Launcher!Blank, LauncherForm, LauncherPreset, LauncherConfig, Launcher!NoConfig, Launcher!Config
    <3>2. Launcher!Blank.experiment = 0 /\ Launcher!Blank.estimate = 0 /\ Launcher!Blank.ds = 0 /\ Launcher!Blank.preset = "none"
      BY DEF Launcher!Blank
    <3> QED BY <2>1, <3>1, <3>2 DEF Launcher!ShowPrograms, Launcher!server, LauncherInv, LauncherTypes
  <2>2. ASSUME NEW p \in LauncherPreset, Launcher!Mount(p)
        PROVE  /\ form' = [Launcher!Blank EXCEPT !.preset = p] /\ armed' = p
               /\ launcherArrived' = {} /\ asked' = Launcher!Nothing /\ disturbed' = FALSE /\ UNCHANGED <<made, taken, lost>>
    BY <2>2 DEF Launcher!Mount, Launcher!server
  <2>3. CASE ~Launcher!ShowPrograms
    <3>1. PICK p \in LauncherPreset : Launcher!Mount(p)
      BY <2>3 DEF Launcher!ShowRuns, Launcher!OnLaunchPreset, LauncherPreset, LauncherInv, LauncherTypes
    <3> QED BY <3>1, <2>2, <1>0
  <2> QED BY <2>1, <2>3
<1>2. /\ form' \in LauncherForm /\ form'.experiment = 0 /\ form'.estimate = 0 /\ form'.ds = 0
  BY <1>1
<1>3. LauncherTypes'
  <2>1. asked' \in [what : {"nothing", "create", "estimate", "launch"}, exp : Nat, result : LauncherResult]
    BY <1>1 DEF Launcher!Nothing, LauncherResult
  <2> QED BY <1>1, <1>2, <2>1 DEF LauncherInv, LauncherTypes
<1>4. LauncherNamed' /\ LauncherShows'
  BY <1>1, <1>2 DEF LauncherInv, LauncherNamed, LauncherShows, Launcher!Nothing, LauncherTypes
<1>5. LauncherOnce' /\ LauncherConfigured'
  BY <1>1, <1>2 DEF LauncherInv, LauncherOnce, Launcher!LaunchedOnce, LauncherConfigured, LauncherTypes
<1> QED BY <1>3, <1>4, <1>5 DEF LauncherInv

LEMMA LauncherArrivals ==
  ASSUME LauncherInv, LaunchAssumption, Launcher!DatasetsArrive \/ Launcher!CatalogArrives \/ Launcher!Open
  PROVE  LauncherInv'
<1>0. UNCHANGED <<armed, asked, disturbed, made, taken, lost>>
  BY DEF Launcher!DatasetsArrive, Launcher!CatalogArrives, Launcher!Open, Launcher!server
<1>1. CASE Launcher!CatalogArrives \/ Launcher!Open
  <2>1. form' = form /\ (launcherArrived' = launcherArrived \cup {"catalog"} \/ launcherArrived' = launcherArrived)
    BY <1>1 DEF Launcher!CatalogArrives, Launcher!Open
  <2> QED BY <1>0, <2>1 DEF LauncherInv, LauncherTypes, LauncherNamed, LauncherOnce, Launcher!LaunchedOnce,
               LauncherShows, LauncherConfigured
<1>2. CASE Launcher!DatasetsArrive
  <2>1. launcherArrived' = launcherArrived \cup {"datasets"}
    BY <1>2 DEF Launcher!DatasetsArrive
  <2>2. /\ form' \in LauncherForm /\ form'.experiment = form.experiment /\ form'.estimate = form.estimate
        /\ form'.code = form.code /\ form'.launched = form.launched /\ (form.ds # 0 => form'.ds = form.ds)
        /\ LauncherConfigured'
    <3>1. CASE form.ds # 0
      BY <3>1, <1>0, <1>2, <2>1 DEF Launcher!DatasetsArrive, LauncherInv, LauncherTypes, LauncherConfigured
    <3>2. CASE form.ds = 0
      <4> DEFINE f == [form EXCEPT !.ds = LaunchDatasets[1]]
      <4>0. LaunchDatasets[1] \in Nat
        BY DEF LaunchAssumption
      <4>1. /\ f \in LauncherForm /\ f.config = form.config /\ f.preset = form.preset /\ f.experiment = form.experiment
            /\ f.estimate = form.estimate /\ f.code = form.code /\ f.launched = form.launched
        BY <4>0 DEF LauncherInv, LauncherTypes, LauncherForm
      <4>2. form' = Launcher!Regenerated(f)
        BY <3>2, <1>2 DEF Launcher!DatasetsArrive
      <4> HIDE DEF f
      <4>3. LET g == Launcher!Regenerated(f)
            IN  /\ g \in LauncherForm
                /\ g.mode = f.mode /\ g.ds = f.ds /\ g.preset = f.preset /\ g.experiment = f.experiment
                /\ g.estimate = f.estimate /\ g.code = f.code /\ g.launched = f.launched
                /\ g.mode = "guided" /\ g.ds # 0 =>
                     /\ g.config.ds = g.ds
                     /\ g.config.preset = g.preset \/ (g.config.preset = "none" /\ g.preset = armed)
                /\ g.preset # "none" /\ "catalog" \notin launcherArrived => g.preset = armed
        BY <4>1, LauncherRegenerated DEF LauncherInv
      <4>4. LauncherConfigured'
        BY <1>0, <2>1, <4>2, <4>3 DEF LauncherConfigured
      <4> QED BY <3>2, <4>1, <4>2, <4>3, <4>4
    <3> QED BY <3>1, <3>2
  <2>3. LauncherTypes'
    BY <1>0, <2>1, <2>2 DEF LauncherInv, LauncherTypes
  <2>4. LauncherNamed' /\ LauncherOnce'
    BY <1>0, <2>2 DEF LauncherInv, LauncherNamed, LauncherOnce, Launcher!LaunchedOnce
  <2>5. LauncherShows'
    <3>1. \A n \in 1 .. Len(made) : made[n].ds # 0
      <4> DEFINE S == [ds : Nat \ {0}, config : LauncherConfig]
      <4>1. made \in Seq(S)
        BY DEF LauncherInv, LauncherTypes
      <4>2. \A e \in S : e.ds # 0
        OBVIOUS
      <4> HIDE DEF S
      <4>3. \A n \in 1 .. Len(made) : made[n] \in S
        BY <4>1, ElementOfSeq
      <4> QED BY <4>2, <4>3
    <3>2. form.experiment \in Nat /\ form.experiment <= Len(made) /\ asked.exp \in Nat /\ asked.exp <= Len(made)
      BY DEF LauncherInv, LauncherTypes, LauncherNamed, LauncherForm
    <3>3. ~disturbed /\ form.experiment # 0 => form.ds # 0
      BY <3>1, <3>2 DEF LauncherInv, LauncherShows, LauncherTypes
    <3>4. ~disturbed /\ asked.what = "create" /\ asked.exp # 0 => form.ds # 0
      BY <3>1, <3>2 DEF LauncherInv, LauncherShows, LauncherTypes
    <3> QED BY <1>0, <2>2, <3>3, <3>4 DEF LauncherInv, LauncherShows
  <2> QED BY <2>2, <2>3, <2>4, <2>5 DEF LauncherInv
<1> QED BY <1>1, <1>2

LEMMA LauncherCreate ==
  ASSUME LauncherInv, Launcher!Create PROVE LauncherInv'
<1>0. /\ UNCHANGED <<armed, launcherArrived, form, disturbed, lost>> /\ asked = Launcher!Nothing
      /\ form.experiment = 0 /\ form.ds # 0 /\ LauncherTypes
  BY DEF Launcher!Create, Launcher!Busy, LauncherInv
<1>1. PICK ok \in BOOLEAN :
       /\ asked' = Launcher!Request("create", IF ok THEN Len(made) + 1 ELSE 0, "none")
       /\ made' = IF ok THEN Append(made, [ds |-> form.ds, config |-> form.config]) ELSE made
       /\ taken' = IF ok THEN Append(taken, 0) ELSE taken
  BY DEF Launcher!Create
<1>2. asked'.what = "create" /\ asked'.exp = IF ok THEN Len(made) + 1 ELSE 0
  BY <1>1 DEF Launcher!Request
<1>3. [ds |-> form.ds, config |-> form.config] \in [ds : Nat \ {0}, config : LauncherConfig]
  BY <1>0 DEF LauncherTypes, LauncherForm
<1>4. LauncherTypes'
  <2>1. asked' \in [what : {"nothing", "create", "estimate", "launch"}, exp : Nat, result : LauncherResult]
    <3>1. Len(made) \in Nat
      BY <1>0 DEF LauncherTypes
    <3>2. CASE ok
      BY <1>1, <3>1, <3>2 DEF Launcher!Request, LauncherResult
    <3>3. CASE ~ok
      BY <1>1, <3>3 DEF Launcher!Request, LauncherResult
    <3> QED BY <3>2, <3>3
  <2>2. /\ made' \in Seq([ds : Nat \ {0}, config : LauncherConfig]) /\ taken' \in Seq(Nat) /\ Len(taken') = Len(made')
    <3>1. CASE ok
      BY <1>0, <1>1, <1>3, <3>1 DEF LauncherTypes
    <3>2. CASE ~ok
      BY <1>0, <1>1, <3>2 DEF LauncherTypes
    <3> QED BY <3>1, <3>2
  <2> QED BY <1>0, <2>1, <2>2 DEF LauncherTypes
<1>5. /\ Len(made') = (IF ok THEN Len(made) + 1 ELSE Len(made)) /\ Len(made) \in Nat
      /\ \A n \in 1 .. Len(made) : taken'[n] = taken[n]
      /\ ok => taken'[Len(made) + 1] = 0 /\ made'[Len(made) + 1].ds = form.ds
  BY <1>0, <1>1, <1>3 DEF LauncherTypes
<1>6. LauncherNamed'
  BY <1>0, <1>2, <1>5 DEF LauncherInv, LauncherNamed
<1>7. LauncherOnce'
  <2>1. \A n \in 1 .. Len(made') : taken'[n] > 1 => n \in lost'
    BY <1>0, <1>5 DEF LauncherInv, LauncherOnce, Launcher!LaunchedOnce
  <2> QED BY <1>0, <2>1 DEF LauncherOnce, Launcher!LaunchedOnce
<1>8. LauncherShows'
  BY <1>0, <1>2, <1>5 DEF LauncherInv, LauncherShows
<1>9. LauncherConfigured'
  BY <1>0 DEF LauncherInv, LauncherConfigured
<1> QED BY <1>4, <1>6, <1>7, <1>8, <1>9 DEF LauncherInv

LEMMA LauncherLaunch ==
  ASSUME LauncherInv, NEW force \in BOOLEAN, Launcher!Launch(force) PROVE LauncherInv'
<1> DEFINE n == form.experiment
<1>0. /\ UNCHANGED <<armed, launcherArrived, disturbed, made>> /\ asked = Launcher!Nothing
      /\ n \in 1 .. Len(made) /\ form' = [form EXCEPT !.code = FALSE] /\ Launcher!Offered(force) /\ LauncherTypes
  BY DEF Launcher!Launch, Launcher!Busy, LauncherInv, LauncherTypes, LauncherNamed, LauncherForm
<1>1. PICK result \in Launcher!Results(n, force) :
       /\ asked' = Launcher!Request("launch", n, result)
       /\ taken' = IF result \in {"taken", "lost"} /\ taken[n] < 2 THEN [taken EXCEPT ![n] = @ + 1] ELSE taken
       /\ lost' = IF result = "lost" THEN lost \cup {n} ELSE lost
  BY DEF Launcher!Launch
<1>2. result \in LauncherResult
  BY DEF Launcher!Results, LauncherResult
<1>3. form' \in LauncherForm /\ form'.experiment = n /\ ~form'.code /\ form'.estimate = form.estimate /\ form'.ds = form.ds
      /\ form'.config = form.config /\ form'.mode = form.mode /\ form'.preset = form.preset
  BY <1>0 DEF LauncherTypes, LauncherForm
<1>4. n \in Nat \ {0} /\ asked'.what = "launch" /\ asked'.exp = n
      /\ asked' \in [what : {"nothing", "create", "estimate", "launch"}, exp : Nat, result : LauncherResult]
  BY <1>0, <1>1, <1>2 DEF Launcher!Request, LauncherTypes
<1>5. taken' \in Seq(Nat) /\ Len(taken') = Len(taken)
      /\ \A k \in 1 .. Len(taken) : taken'[k] =
           IF k = n /\ result \in {"taken", "lost"} /\ taken[n] < 2 THEN taken[k] + 1 ELSE taken[k]
  <2>1. n \in 1 .. Len(taken) /\ taken \in Seq(Nat) /\ taken[n] + 1 \in Nat
    BY <1>0 DEF LauncherTypes
  <2>2. CASE result \in {"taken", "lost"} /\ taken[n] < 2
    <3> DEFINE v == taken[n] + 1
    <3>1. taken' = [taken EXCEPT ![n] = v]
      BY <1>1, <2>2
    <3>2. v \in Nat
      BY <2>1
    <3> HIDE DEF v
    <3>3. taken' \in Seq(Nat) /\ Len(taken') = Len(taken) /\ \A k \in 1 .. Len(taken) : taken'[k] = IF k = n THEN v ELSE taken[k]
      BY <2>1, <3>1, <3>2, ExceptSeq
    <3> QED BY <2>2, <3>3 DEF v
  <2>3. CASE ~(result \in {"taken", "lost"} /\ taken[n] < 2)
    BY <1>1, <2>1, <2>3
  <2> QED BY <2>2, <2>3
<1> HIDE DEF n
<1>6. LauncherTypes'
  BY <1>0, <1>3, <1>4, <1>5 DEF LauncherTypes
<1>7. LauncherNamed'
  BY <1>0, <1>3, <1>4 DEF LauncherNamed, LauncherTypes, n
<1>8. LauncherOnce'
  <2>1. taken[n] >= 1 /\ n \notin lost => ~form.code /\ form.launched
    BY <1>0 DEF LauncherInv, LauncherOnce, Launcher!Nothing, Launcher!Request, n
  <2>2. ~(taken[n] >= 1 /\ n \notin lost)
    BY <2>1, <1>0 DEF Launcher!Offered
  <2>3. \A k \in 1 .. Len(made) : taken[k] \in Nat /\ (taken[k] > 1 => k \in lost)
    BY <1>0 DEF LauncherInv, LauncherOnce, Launcher!LaunchedOnce, LauncherTypes
  <2>4. Launcher!LaunchedOnce'
    <3> SUFFICES ASSUME NEW k \in 1 .. Len(made'), taken'[k] > 1 PROVE k \in lost'
      BY DEF Launcher!LaunchedOnce
    <3>1. k \in 1 .. Len(made) /\ k \in 1 .. Len(taken)
      BY <1>0 DEF LauncherTypes
    <3> QED BY <1>0, <1>1, <1>5, <2>2, <2>3, <3>1
  <2>5. taken'[n] >= 1 /\ n \notin lost' => result = "taken"
    <3>1. n \in 1 .. Len(taken)
      BY <1>0 DEF LauncherTypes
    <3> QED BY <1>0, <1>1, <1>5, <2>2, <2>3, <3>1
  <2> QED BY <1>0, <1>1, <1>3, <2>4, <2>5 DEF LauncherOnce
<1>9. LauncherShows'
  BY <1>0, <1>3, <1>4 DEF LauncherInv, LauncherShows, n
<1>10. LauncherConfigured'
  BY <1>0, <1>3 DEF LauncherInv, LauncherConfigured
<1> QED BY <1>6, <1>7, <1>8, <1>9, <1>10 DEF LauncherInv

LEMMA LauncherAnswers ==
  ASSUME LauncherInv, Launcher!Created \/ Launcher!Estimated \/ Launcher!Launched PROVE LauncherInv'
<1>0. /\ UNCHANGED <<armed, launcherArrived, disturbed, made, taken, lost>> /\ LauncherTypes /\ form \in LauncherForm
      /\ asked.exp \in 0 .. Len(made) /\ form.experiment \in 0 .. Len(made) /\ asked.result \in LauncherResult
  BY DEF Launcher!Created, Launcher!Estimated, Launcher!Launched, Launcher!server, LauncherInv, LauncherTypes, LauncherNamed, LauncherForm
\* What an answer may change in the form.
<1>1. ASSUME NEW e \in 0 .. Len(made), NEW m \in Nat, NEW c \in BOOLEAN, NEW l \in BOOLEAN, form' \in LauncherForm,
             form'.experiment = e, form'.estimate = m, form'.code = c, form'.launched = l, form'.ds = form.ds,
             form'.mode = form.mode, form'.preset = form.preset, form'.config = form.config,
             asked' = Launcher!Nothing \/ (asked' = Launcher!Request("estimate", e, "none") /\ e # 0),
             \A n \in 1 .. Len(made) : taken[n] >= 1 /\ n \notin lost /\ e = n => ~c /\ l /\ asked' = Launcher!Nothing,
             ~disturbed => /\ e = 0 => m = 0
                           /\ e # 0 => form.ds = made[e].ds /\ (m # 0 => m = e)
      PROVE  LauncherInv'
  <2>1. asked' \in [what : {"nothing", "create", "estimate", "launch"}, exp : Nat, result : LauncherResult]
        /\ \/ asked'.what = "nothing" /\ asked' = Launcher!Nothing /\ asked'.exp = 0
           \/ asked'.what = "estimate" /\ asked'.exp = e /\ e # 0
    <3>1. CASE asked' = Launcher!Nothing
      BY <3>1 DEF Launcher!Nothing, LauncherResult
    <3>2. CASE asked' = Launcher!Request("estimate", e, "none") /\ e # 0
      <4>1. e \in Nat
        BY <1>0
      <4> QED BY <3>2, <4>1 DEF Launcher!Request, LauncherResult
    <3> QED BY <1>1, <3>1, <3>2
  <2>2. LauncherTypes'
    BY <1>0, <1>1, <2>1 DEF LauncherTypes
  <2>3. LauncherNamed'
    BY <1>0, <1>1, <2>1 DEF LauncherNamed
  <2>4. LauncherOnce'
    BY <1>0, <1>1, <2>1 DEF LauncherInv, LauncherOnce, Launcher!LaunchedOnce
  <2>5. LauncherShows'
    BY <1>0, <1>1, <2>1 DEF LauncherShows
  <2>6. LauncherConfigured'
    BY <1>0, <1>1 DEF LauncherInv, LauncherConfigured
  <2> QED BY <2>2, <2>3, <2>4, <2>5, <2>6 DEF LauncherInv
<1>2. CASE Launcher!Created
  <2>1. asked.what = "create" /\ asked # Launcher!Nothing /\ \A n : asked # Launcher!Request("launch", n, "taken")
    BY <1>2 DEF Launcher!Created, Launcher!Nothing, Launcher!Request
  <2>2. CASE asked.exp = 0
    <3>1. asked' = Launcher!Nothing /\ form' = [form EXCEPT !.code = FALSE]
      BY <1>2, <2>2 DEF Launcher!Created
    <3>2. /\ form' \in LauncherForm /\ form'.experiment = form.experiment /\ form'.estimate = form.estimate
          /\ form'.code = FALSE /\ form'.launched = form.launched /\ form'.ds = form.ds
          /\ form'.mode = form.mode /\ form'.preset = form.preset /\ form'.config = form.config
          /\ form.estimate \in Nat /\ form.launched \in BOOLEAN
      BY <1>0, <3>1 DEF LauncherForm
    <3>3. \A n \in 1 .. Len(made) : ~(taken[n] >= 1 /\ n \notin lost /\ form.experiment = n)
      BY <2>1 DEF LauncherInv, LauncherOnce
    <3>4. ~disturbed => /\ form.experiment = 0 => form.estimate = 0
                        /\ form.experiment # 0 => form.ds = made[form.experiment].ds /\ (form.estimate # 0 => form.estimate = form.experiment)
      BY DEF LauncherInv, LauncherShows
    <3> QED BY <1>0, <1>1, <3>1, <3>2, <3>3, <3>4
  <2>3. CASE asked.exp # 0
    <3>1. asked' = Launcher!Request("estimate", asked.exp, "none") /\ form' = [form EXCEPT !.experiment = asked.exp]
      BY <1>2, <2>3 DEF Launcher!Created
    <3>2. /\ form' \in LauncherForm /\ form'.experiment = asked.exp /\ form'.estimate = form.estimate
          /\ form'.code = form.code /\ form'.launched = form.launched /\ form'.ds = form.ds
          /\ form'.mode = form.mode /\ form'.preset = form.preset /\ form'.config = form.config
          /\ form.estimate \in Nat /\ form.launched \in BOOLEAN /\ form.code \in BOOLEAN
      BY <1>0, <3>1 DEF LauncherForm
    <3>3. taken[asked.exp] = 0
      BY <2>1, <2>3 DEF LauncherInv, LauncherNamed
    <3>4. ~disturbed => form.estimate = 0 /\ form.ds = made[asked.exp].ds
      BY <2>1, <2>3 DEF LauncherInv, LauncherShows
    <3>5. \A n \in 1 .. Len(made) : ~(taken[n] >= 1 /\ n \notin lost /\ asked.exp = n)
      BY <3>3
    <3> QED BY <1>0, <1>1, <2>3, <3>1, <3>2, <3>4, <3>5
  <2> QED BY <2>2, <2>3
<1>3. CASE Launcher!Estimated
  <2>1. asked.what = "estimate" /\ asked # Launcher!Nothing /\ (\A n : asked # Launcher!Request("launch", n, "taken"))
        /\ asked' = Launcher!Nothing /\ asked.exp # 0
    BY <1>3 DEF Launcher!Estimated, Launcher!Nothing, Launcher!Request, LauncherInv, LauncherNamed
  <2>2. PICK m \in Nat, c \in BOOLEAN :
          /\ form' \in LauncherForm /\ form'.experiment = form.experiment /\ form'.estimate = m
          /\ form'.code = c /\ form'.launched = form.launched /\ form'.ds = form.ds
          /\ form'.mode = form.mode /\ form'.preset = form.preset /\ form'.config = form.config
          /\ form.launched \in BOOLEAN /\ m \in {form.estimate, asked.exp}
    <3>1. CASE form' = [form EXCEPT !.estimate = asked.exp]
      BY <1>0, <3>1 DEF LauncherForm
    <3>2. CASE form' = [form EXCEPT !.code = FALSE]
      BY <1>0, <3>2 DEF LauncherForm
    <3> QED BY <1>3, <3>1, <3>2 DEF Launcher!Estimated
  <2>3. \A n \in 1 .. Len(made) : ~(taken[n] >= 1 /\ n \notin lost /\ form.experiment = n)
    BY <2>1 DEF LauncherInv, LauncherOnce
  <2>4. ~disturbed => /\ form.experiment = 0 => m = 0
                      /\ form.experiment # 0 => form.ds = made[form.experiment].ds /\ (m # 0 => m = form.experiment)
    BY <2>1, <2>2 DEF LauncherInv, LauncherShows
  <2> QED BY <1>0, <1>1, <2>1, <2>2, <2>3, <2>4
<1>4. CASE Launcher!Launched
  <2>1. asked.what = "launch" /\ asked' = Launcher!Nothing /\ form' = Launcher!Answered(form, asked.result) /\ asked # Launcher!Nothing
    BY <1>4 DEF Launcher!Launched, Launcher!Nothing
  <2>2. PICK c \in BOOLEAN, l \in BOOLEAN :
          /\ form' \in LauncherForm /\ form'.experiment = form.experiment /\ form'.estimate = form.estimate
          /\ form'.code = c /\ form'.launched = l /\ form'.ds = form.ds
          /\ form'.mode = form.mode /\ form'.preset = form.preset /\ form'.config = form.config
          /\ form.estimate \in Nat /\ (asked.result = "taken" => ~c /\ l)
    <3> DEFINE c == asked.result = "too large"
               l == form.launched \/ asked.result = "taken"
    <3>1. form' = [form EXCEPT !.launched = l, !.code = c]
      BY <2>1 DEF Launcher!Answered
    <3>2. c \in BOOLEAN /\ l \in BOOLEAN /\ (asked.result = "taken" => ~c /\ l)
      OBVIOUS
    <3> HIDE DEF c, l
    <3> QED BY <1>0, <3>1, <3>2 DEF LauncherForm
  <2>3. \A n \in 1 .. Len(made) : taken[n] >= 1 /\ n \notin lost /\ form.experiment = n => ~c /\ l
    BY <2>1, <2>2 DEF LauncherInv, LauncherOnce, Launcher!Request
  <2>4. ~disturbed => /\ form.experiment = 0 => form.estimate = 0
                      /\ form.experiment # 0 => form.ds = made[form.experiment].ds /\ (form.estimate # 0 => form.estimate = form.experiment)
    BY DEF LauncherInv, LauncherShows
  <2> QED BY <1>0, <1>1, <2>1, <2>2, <2>3, <2>4
<1> QED BY <1>2, <1>3, <1>4

LEMMA LauncherStep == ASSUME LauncherInv, LaunchAssumption, Launcher!Next PROVE LauncherInv'
BY LauncherEdits, LauncherMounts, LauncherArrivals, LauncherCreate, LauncherLaunch, LauncherAnswers DEF Launcher!Next

LEMMA LauncherHolds ==
  ASSUME LauncherInv
  PROVE  Launcher!LaunchedOnce /\ Launcher!FormShowsTheExperiment /\ Launcher!GuidedConfigIsTheForm
BY DEF LauncherInv, LauncherOnce, LauncherShows, LauncherConfigured, Launcher!FormShowsTheExperiment, Launcher!GuidedConfigIsTheForm
-----------------------------------------------------------------------------
(* The comments: sent once, and shown unless the page was not told of them.  *)
TalkPost(p) == p = [text |-> p.text, on |-> p.on, aim |-> p.aim, copy |-> p.copy, done |-> p.done]
TalkComment(c) == c = [text |-> c.text, on |-> c.on, aim |-> c.aim, resolved |-> c.resolved, copy |-> c.copy]

TalkTypes ==
  /\ \A p \in posts : TalkPost(p)
  /\ \A c \in commentsStored : TalkComment(c)
  /\ commentsPanel = [scope |-> commentsPanel.scope, body |-> commentsPanel.body, filter |-> commentsPanel.filter]
  /\ thread = [body |-> thread.body, aim |-> thread.aim]

\* A text is in one form, or was sent once.
TalkOnce ==
  /\ \A c, d \in commentsStored \cup posts : c.text = d.text => c.copy = d.copy
  /\ \A c \in commentsStored \cup posts : /\ commentsPanel.body # None => c.text # commentsPanel.body
                                          /\ thread.body # None => c.text # thread.body
  /\ commentsPanel.body # None => commentsPanel.body # thread.body

\* The list on its way was read after the last change the page may know of, or will be.
TalkFresh ==
  /\ commentsFetch.stage = "read" => commentsStored \subseteq commentsFetch.value \cup commentsUnheard
  /\ Talk!NoCommentIsHidden

TalkInv == TalkTypes /\ TalkOnce /\ TalkFresh

LEMMA TalkInitial == ASSUME Talk!Init PROVE TalkInv
<1>1. \A c \in commentsStored : TalkComment(c) /\ c.copy = 0
  BY DEF Talk!Init, TalkComment
<1>2. posts = {} /\ commentsPanel = [scope |-> "document", body |-> None, filter |-> "all"]
      /\ thread = [body |-> None, aim |-> None]
  BY DEF Talk!Init
<1>3. TalkTypes /\ TalkOnce
  BY <1>1, <1>2 DEF TalkTypes, TalkOnce
<1>4. TalkFresh
  BY DEF Talk!Init, TalkFresh, Talk!NoFetch, Talk!NoCommentIsHidden
<1> QED BY <1>3, <1>4 DEF TalkInv

\* What neither writes nor sends.
LEMMA TalkQuiet ==
  ASSUME TalkInv, UNCHANGED <<commentsShown, commentsFetch, commentsUnheard, thread>>, TalkTypes', commentsPanel'.body = commentsPanel.body,
         commentsStored' \subseteq commentsStored,
         \A p \in posts' : \E q \in posts : p.text = q.text /\ p.copy = q.copy
  PROVE  TalkInv'
<1>1. \A c \in commentsStored' \cup posts' : \E d \in commentsStored \cup posts : c.text = d.text /\ c.copy = d.copy
  OBVIOUS
<1>2. TalkOnce'
  BY <1>1 DEF TalkInv, TalkOnce
<1>3. TalkFresh'
  BY DEF TalkInv, TalkFresh, Talk!NoCommentIsHidden, Talk!NoFetch
<1> QED BY <1>2, <1>3 DEF TalkInv

LEMMA TalkAnnotates ==
  ASSUME TalkInv, NEW i \in TalkSentences,
         \/ Talk!SelectClause(i) \/ Talk!SetBoundary(i) \/ Talk!RemoveBoundary(i) \/ Talk!Saved(i)
         \/ \E s \in SUBSET TalkSentences : Talk!SelectSentences(i, s)
  PROVE  TalkInv'
<1>0. UNCHANGED <<commentsShown, commentsFetch, commentsUnheard, thread, commentsPanel>>
  BY DEF Talk!SelectClause, Talk!SetBoundary, Talk!RemoveBoundary, Talk!Saved, Talk!SelectSentences, Talk!Annotating, Talk!server
<1>1. CASE Talk!RemoveBoundary(i)
  <2> DEFINE sent(p) == IF p.on = <<"clause", i>> THEN [p EXCEPT !.on = <<"gone">>] ELSE p
  <2>1. commentsStored' \subseteq commentsStored /\ posts' = {sent(p) : p \in posts}
    BY <1>1 DEF Talk!RemoveBoundary
  <2>2. \A p \in posts : TalkPost(sent(p)) /\ sent(p).text = p.text /\ sent(p).copy = p.copy
    BY DEF TalkInv, TalkTypes, TalkPost
  <2> HIDE DEF sent
  <2>3. TalkTypes'
    BY <1>0, <2>1, <2>2 DEF TalkInv, TalkTypes
  <2> QED BY <1>0, <2>1, <2>2, <2>3, TalkQuiet
<1>2. CASE ~Talk!RemoveBoundary(i)
  <2>1. UNCHANGED <<commentsStored, posts>>
    BY <1>2 DEF Talk!SelectClause, Talk!SetBoundary, Talk!Saved, Talk!SelectSentences, Talk!server
  <2>2. TalkTypes'
    BY <1>0, <2>1 DEF TalkInv, TalkTypes
  <2> QED BY <1>0, <2>1, <2>2, TalkQuiet
<1> QED BY <1>1, <1>2

LEMMA TalkWrites ==
  ASSUME TalkInv, \/ \E s \in {"document", "sentence", "range", "clause"} : Talk!SetScope(s)
                  \/ \E t \in TalkTexts : Talk!TypeInPanel(t) \/ Talk!TypeInThread(t)
                  \/ Talk!Filter \/ \E c \in commentsShown : Talk!Resolve(c)
  PROVE  TalkInv'
<1>0. UNCHANGED <<commentsShown, commentsFetch, commentsUnheard, commentsStored, posts>>
  BY DEF Talk!SetScope, Talk!TypeInPanel, Talk!TypeInThread, Talk!Filter, Talk!Resolve, Talk!Writing, Talk!server
<1>1. CASE (\E s \in {"document", "sentence", "range", "clause"} : Talk!SetScope(s)) \/ Talk!Filter
           \/ \E c \in commentsShown : Talk!Resolve(c)
  <2>1. /\ UNCHANGED thread
        /\ \/ \E s : commentsPanel' = [commentsPanel EXCEPT !.scope = s]
           \/ \E f : commentsPanel' = [commentsPanel EXCEPT !.filter = f]
           \/ UNCHANGED commentsPanel
    BY <1>1 DEF Talk!SetScope, Talk!Filter, Talk!Resolve
  <2>2. commentsPanel'.body = commentsPanel.body /\ TalkTypes'
    BY <1>0, <2>1 DEF TalkInv, TalkTypes
  <2> QED BY <1>0, <2>1, <2>2, TalkQuiet
<1>2. ASSUME NEW t \in TalkTexts, Talk!TypeInPanel(t) \/ Talk!TypeInThread(t) PROVE TalkInv'
  <2>1. Talk!New(t)
    BY <1>2 DEF Talk!TypeInPanel, Talk!TypeInThread
  <2>2. (\A c \in commentsStored \cup posts : c.text # t) /\ t # commentsPanel.body /\ t # thread.body
    BY <2>1 DEF Talk!New
  <2>3. TalkFresh'
    BY <1>0 DEF TalkInv, TalkFresh, Talk!NoCommentIsHidden, Talk!NoFetch
  <2>4. CASE Talk!TypeInPanel(t)
    <3>1. commentsPanel' = [commentsPanel EXCEPT !.body = t] /\ UNCHANGED thread
      BY <2>4 DEF Talk!TypeInPanel
    <3>2. TalkTypes' /\ commentsPanel'.body = t
      BY <1>0, <3>1 DEF TalkInv, TalkTypes
    <3>3. TalkOnce'
      BY <1>0, <2>2, <3>1, <3>2 DEF TalkInv, TalkOnce
    <3> QED BY <2>3, <3>2, <3>3 DEF TalkInv
  <2>5. CASE Talk!TypeInThread(t)
    <3>1. PICK x : thread' = [body |-> t, aim |-> x] /\ UNCHANGED commentsPanel
      BY <2>5 DEF Talk!TypeInThread
    <3>2. TalkTypes' /\ thread'.body = t
      BY <1>0, <3>1 DEF TalkInv, TalkTypes
    <3>3. TalkOnce'
      BY <1>0, <2>2, <3>1, <3>2 DEF TalkInv, TalkOnce
    <3> QED BY <2>3, <3>2, <3>3 DEF TalkInv
  <2> QED BY <1>2, <2>4, <2>5
<1> QED BY <1>1, <1>2

\* A form is emptied as it sends: its text is then on its way, and nowhere else.
LEMMA TalkSubmits == ASSUME TalkInv, Talk!Submit \/ Talk!SubmitThread PROVE TalkInv'
<1>1. CASE Talk!Submit
  <2>1. PICK on, aim, copy :
          /\ posts' = posts \cup {[text |-> commentsPanel.body, on |-> on, aim |-> aim, copy |-> copy, done |-> FALSE]}
          /\ commentsPanel' = [commentsPanel EXCEPT !.body = None] /\ commentsPanel.body # None
          /\ UNCHANGED <<commentsStored, commentsShown, commentsFetch, commentsUnheard, thread>>
    BY <1>1 DEF Talk!Submit, Talk!Post, Talk!Emptied
  <2> DEFINE new == [text |-> commentsPanel.body, on |-> on, aim |-> aim, copy |-> copy, done |-> FALSE]
  <2>2. TalkPost(new) /\ new.text = commentsPanel.body /\ posts' = posts \cup {new}
    BY <2>1 DEF TalkPost
  <2> HIDE DEF new
  <2>3. commentsPanel'.body = None /\ TalkTypes'
    BY <2>1, <2>2 DEF TalkInv, TalkTypes
  <2>4. TalkOnce'
    BY <2>1, <2>2, <2>3 DEF TalkInv, TalkOnce
  <2>5. TalkFresh'
    BY <2>1 DEF TalkInv, TalkFresh, Talk!NoCommentIsHidden, Talk!NoFetch
  <2> QED BY <2>3, <2>4, <2>5 DEF TalkInv
<1>2. CASE Talk!SubmitThread
  <2>1. PICK on, aim, copy :
          /\ posts' = posts \cup {[text |-> thread.body, on |-> on, aim |-> aim, copy |-> copy, done |-> FALSE]}
          /\ thread' = [thread EXCEPT !.body = None] /\ thread.body # None
          /\ UNCHANGED <<commentsStored, commentsShown, commentsFetch, commentsUnheard, commentsPanel>>
    BY <1>2 DEF Talk!SubmitThread, Talk!Post
  <2> DEFINE new == [text |-> thread.body, on |-> on, aim |-> aim, copy |-> copy, done |-> FALSE]
  <2>2. TalkPost(new) /\ new.text = thread.body /\ posts' = posts \cup {new}
    BY <2>1 DEF TalkPost
  <2> HIDE DEF new
  <2>3. thread'.body = None /\ TalkTypes'
    BY <2>1, <2>2 DEF TalkInv, TalkTypes
  <2>4. TalkOnce'
    BY <2>1, <2>2, <2>3 DEF TalkInv, TalkOnce
  <2>5. TalkFresh'
    BY <2>1 DEF TalkInv, TalkFresh, Talk!NoCommentIsHidden, Talk!NoFetch
  <2> QED BY <2>3, <2>4, <2>5 DEF TalkInv
<1> QED BY <1>1, <1>2

LEMMA TalkMarked ==
  ASSUME NEW c, NEW v, c = [text |-> c.text, on |-> c.on, aim |-> c.aim, resolved |-> c.resolved, copy |-> c.copy]
  PROVE  [c EXCEPT !.resolved = v] = [text |-> c.text, on |-> c.on, aim |-> c.aim, resolved |-> v, copy |-> c.copy]
OBVIOUS

LEMMA TalkSent ==
  ASSUME NEW p, NEW v, p = [text |-> p.text, on |-> p.on, aim |-> p.aim, copy |-> p.copy, done |-> p.done]
  PROVE  [p EXCEPT !.done = v] = [text |-> p.text, on |-> p.on, aim |-> p.aim, copy |-> p.copy, done |-> v]
OBVIOUS

\* What the server takes is not heard of yet.
LEMMA TalkTakes ==
  ASSUME TalkInv, \/ \E p \in posts : Talk!Posted(p)
                  \/ \E r \in resolving : Talk!Resolved(r)
  PROVE  TalkInv'
<1>0. UNCHANGED <<commentsPanel, thread, commentsShown, commentsFetch>>
  BY DEF Talk!Posted, Talk!Resolved, Talk!Quietly
<1>1. ASSUME commentsStored' \subseteq commentsStored \cup commentsUnheard', commentsUnheard \subseteq commentsUnheard'
      PROVE  TalkFresh'
  BY <1>0, <1>1 DEF TalkInv, TalkFresh, Talk!NoCommentIsHidden, Talk!NoFetch
<1>2. ASSUME NEW p \in posts, Talk!Posted(p) PROVE TalkInv'
  <2> DEFINE new == [text |-> p.text, on |-> p.on, aim |-> p.aim, resolved |-> FALSE, copy |-> p.copy]
             sent == [p EXCEPT !.done = TRUE]
  <2>1. /\ posts' = (posts \ {p}) \cup {sent} /\ commentsStored' = commentsStored \cup {new}
        /\ commentsUnheard' = commentsUnheard \cup {new}
    BY <1>2 DEF Talk!Posted
  <2>2. TalkComment(new) /\ new.text = p.text /\ new.copy = p.copy
    BY DEF TalkComment
  <2>3. TalkPost(sent) /\ sent.text = p.text /\ sent.copy = p.copy
    <3>1. p = [text |-> p.text, on |-> p.on, aim |-> p.aim, copy |-> p.copy, done |-> p.done]
      BY DEF TalkInv, TalkTypes, TalkPost
    <3>2. sent = [text |-> p.text, on |-> p.on, aim |-> p.aim, copy |-> p.copy, done |-> TRUE]
      BY <3>1, TalkSent
    <3> QED BY <3>2 DEF TalkPost
  <2> HIDE DEF new, sent
  <2>4. TalkTypes'
    BY <1>0, <2>1, <2>2, <2>3 DEF TalkInv, TalkTypes
  <2>5. \A c \in commentsStored' \cup posts' : \E d \in commentsStored \cup posts : c.text = d.text /\ c.copy = d.copy
    BY <2>1, <2>2, <2>3
  <2>6. TalkOnce'
    BY <1>0, <2>5 DEF TalkInv, TalkOnce
  <2> QED BY <1>1, <2>1, <2>4, <2>6 DEF TalkInv
<1>3. ASSUME NEW r \in resolving, Talk!Resolved(r) PROVE TalkInv'
  <2> DEFINE marked(c) == IF c.text = r.text THEN [c EXCEPT !.resolved = TRUE] ELSE c
  <2>1. /\ UNCHANGED posts /\ commentsStored' = {marked(c) : c \in commentsStored}
        /\ commentsUnheard' = commentsUnheard \cup (commentsStored' \ commentsStored)
    BY <1>3 DEF Talk!Resolved
  <2>2. ASSUME NEW c \in commentsStored
        PROVE  TalkComment(marked(c)) /\ marked(c).text = c.text /\ marked(c).copy = c.copy
    <3>1. c = [text |-> c.text, on |-> c.on, aim |-> c.aim, resolved |-> c.resolved, copy |-> c.copy]
      BY DEF TalkInv, TalkTypes, TalkComment
    <3>2. [c EXCEPT !.resolved = TRUE] = [text |-> c.text, on |-> c.on, aim |-> c.aim, resolved |-> TRUE, copy |-> c.copy]
      BY <3>1, TalkMarked
    <3> QED BY <3>1, <3>2 DEF TalkComment
  <2> HIDE DEF marked
  <2>3. TalkTypes'
    BY <1>0, <2>1, <2>2 DEF TalkInv, TalkTypes
  <2>4. \A x \in commentsStored' \cup posts' : \E d \in commentsStored \cup posts : x.text = d.text /\ x.copy = d.copy
    BY <2>1, <2>2
  <2>5. TalkOnce'
    BY <1>0, <2>4 DEF TalkInv, TalkOnce
  <2>6. commentsStored' \subseteq commentsStored \cup commentsUnheard' /\ commentsUnheard \subseteq commentsUnheard'
    BY <2>1
  <2> QED BY <1>1, <2>3, <2>5, <2>6 DEF TalkInv
<1> QED BY <1>2, <1>3

\* An answer asks the list again; one that is lost leaves what it told unheard.
LEMMA TalkAnswers ==
  ASSUME TalkInv, \/ \E p \in posts : Talk!PostAnswered(p) \/ Talk!PostFails(p)
                  \/ \E r \in resolving : Talk!ResolveAnswered(r) \/ Talk!ResolveFails(r)
                  \/ Talk!Fetch \/ Talk!Come \/ Talk!FetchFails
  PROVE  TalkInv'
<1>0. UNCHANGED <<commentsPanel, thread, commentsStored>> /\ posts' \subseteq posts
  BY DEF Talk!PostAnswered, Talk!PostFails, Talk!ResolveAnswered, Talk!ResolveFails, Talk!Fetch, Talk!Come,
         Talk!FetchFails, Talk!Quietly
<1>1. TalkTypes' /\ TalkOnce'
  BY <1>0 DEF TalkInv, TalkTypes, TalkOnce
<1>2. CASE commentsFetch' = Talk!Asked
  BY <1>1, <1>2 DEF TalkInv, TalkFresh, Talk!NoCommentIsHidden, Talk!NoFetch, Talk!Asked
<1>3. CASE UNCHANGED <<commentsShown, commentsFetch, commentsUnheard>>
  BY <1>0, <1>1, <1>3 DEF TalkInv, TalkFresh, Talk!NoCommentIsHidden, Talk!NoFetch
<1>4. CASE Talk!Fetch
  BY <1>0, <1>1, <1>4 DEF TalkInv, TalkFresh, Talk!Fetch, Talk!NoCommentIsHidden, Talk!NoFetch
<1>5. CASE Talk!Come
  BY <1>0, <1>1, <1>5 DEF TalkInv, TalkFresh, Talk!Come, Talk!NoCommentIsHidden, Talk!NoFetch
<1>6. CASE Talk!FetchFails
  BY <1>0, <1>1, <1>6 DEF TalkInv, TalkFresh, Talk!FetchFails, Talk!NoCommentIsHidden, Talk!NoFetch
<1> QED BY <1>2, <1>3, <1>4, <1>5, <1>6 DEF Talk!PostAnswered, Talk!PostFails, Talk!ResolveAnswered, Talk!ResolveFails, Talk!Invalidate

LEMMA TalkStep == ASSUME TalkInv, Talk!Next PROVE TalkInv'
BY TalkAnnotates, TalkWrites, TalkSubmits, TalkTakes, TalkAnswers DEF Talk!Next

LEMMA TalkHolds == ASSUME TalkInv PROVE Talk!PostedOnce /\ Talk!NoCommentIsHidden
<1>1. ASSUME NEW t \in TalkTexts
      PROVE  Cardinality({c.copy : c \in {x \in commentsStored : x.text = t}}
                           \cup {p.copy : p \in {x \in posts : x.text = t}}) <= 1
  <2> DEFINE S == {c.copy : c \in {x \in commentsStored : x.text = t}} \cup {p.copy : p \in {x \in posts : x.text = t}}
  <2>1. \A x, y \in S : x = y
    BY DEF TalkInv, TalkOnce
  <2> HIDE DEF S
  <2>2. CASE S = {}
    BY <2>2, FS_EmptySet DEF S
  <2>3. CASE S # {}
    <3>1. PICK x \in S : S = {x}
      BY <2>1, <2>3
    <3>2. Cardinality(S) = 1
      BY <3>1, FS_Singleton
    <3> QED BY <3>2 DEF S
  <2> QED BY <2>2, <2>3
<1>2. Talk!PostedOnce
  BY <1>1 DEF Talk!PostedOnce, Talk!Cardinality, Cardinality
<1> QED BY <1>2 DEF TalkInv, TalkFresh
-----------------------------------------------------------------------------
(* The translations: a sentence has one text in a set, and a set is what   *)
(* the last synchronisation read.                                          *)
TranslatedSync(y) == y = [set |-> y.set, read |-> y.read, cleared |-> y.cleared, alone |-> y.alone, after |-> y.after]
TranslatedPage(p) == p = [view |-> p.view, asked |-> p.asked, shown |-> p.shown, form |-> p.form]

TranslatedTypes ==
  /\ DOMAIN translationsRows = TranslationSets /\ DOMAIN translationsWritten = TranslationSets
  /\ DOMAIN syncs = TranslationAdmins /\ DOMAIN page = TranslationAdmins
  /\ \A d \in TranslationAdmins :
       /\ syncs[d] # None => TranslatedSync(syncs[d]) /\ syncs[d].set \in TranslationSets
       /\ TranslatedPage(page[d])
       /\ page[d].asked # None => page[d].asked \in TranslationSets

\* A synchronisation that went on alone deletes all its set has.
TranslatedAlone ==
  \A d \in TranslationAdmins : syncs[d] # None /\ syncs[d].alone =>
    /\ translationsRows[syncs[d].set] \subseteq syncs[d].cleared
    /\ \A c \in TranslationAdmins : syncs[c] # None /\ syncs[c].set = syncs[d].set => c = d

TranslatedInv == TranslatedTypes /\ TranslatedAlone /\ Translated!OneTextPerSentence /\ Translated!RowsAreTheFile

LEMMA TranslatedInitial == ASSUME Translated!Init PROVE TranslatedInv
<1>1. \A d \in TranslationAdmins : syncs[d] = None /\ page[d].asked = None /\ TranslatedPage(page[d])
  BY DEF Translated!Init, TranslatedPage
<1>2. TranslatedTypes
  BY <1>1 DEF Translated!Init, TranslatedTypes
<1>3. TranslatedAlone
  BY <1>1 DEF TranslatedAlone
<1>4. Translated!OneTextPerSentence /\ Translated!RowsAreTheFile
  BY DEF Translated!Init, Translated!OneTextPerSentence, Translated!RowsAreTheFile
<1> QED BY <1>2, <1>3, <1>4 DEF TranslatedInv

\* What changes neither the rows nor a synchronisation.
LEMMA TranslatedQuiet ==
  ASSUME TranslatedInv, UNCHANGED <<translationsRows, translationsWritten, syncs>>, TranslatedTypes'
  PROVE  TranslatedInv'
<1>1. TranslatedAlone'
  BY DEF TranslatedInv, TranslatedAlone
<1>2. Translated!OneTextPerSentence' /\ Translated!RowsAreTheFile'
  BY DEF TranslatedInv, Translated!OneTextPerSentence, Translated!RowsAreTheFile
<1> QED BY <1>1, <1>2 DEF TranslatedInv

\* A page is one after its administrator, or the answer, changed it.
LEMMA TranslatedPages ==
  ASSUME TranslatedInv, UNCHANGED <<translationsRows, translationsWritten, syncs>>, NEW d \in TranslationAdmins, NEW p,
         page' = [page EXCEPT ![d] = p], TranslatedPage(p), p.asked # None => p.asked \in TranslationSets
  PROVE  TranslatedInv'
<1>1. TranslatedTypes'
  BY DEF TranslatedInv, TranslatedTypes
<1> QED BY <1>1, TranslatedQuiet

LEMMA TranslatedForm ==
  ASSUME NEW p, TranslatedPage(p), NEW v, NEW w
  PROVE  /\ [p EXCEPT !.asked = v] = [view |-> p.view, asked |-> v, shown |-> p.shown, form |-> p.form]
         /\ [p EXCEPT !.form = v] = [view |-> p.view, asked |-> p.asked, shown |-> p.shown, form |-> v]
         /\ [p EXCEPT !.shown = v] = [view |-> p.view, asked |-> p.asked, shown |-> v, form |-> p.form]
         /\ [[p EXCEPT !.asked = v] EXCEPT !.view = w] = [view |-> w, asked |-> v, shown |-> p.shown, form |-> p.form]
<1>1. [p EXCEPT !.asked = v] = [view |-> p.view, asked |-> v, shown |-> p.shown, form |-> p.form]
  BY DEF TranslatedPage
<1>2. [p EXCEPT !.form = v] = [view |-> p.view, asked |-> p.asked, shown |-> p.shown, form |-> v]
  BY DEF TranslatedPage
<1>3. [p EXCEPT !.shown = v] = [view |-> p.view, asked |-> p.asked, shown |-> v, form |-> p.form]
  BY DEF TranslatedPage
<1> DEFINE q == [view |-> p.view, asked |-> v, shown |-> p.shown, form |-> p.form]
<1>4. [q EXCEPT !.view = w] = [view |-> w, asked |-> v, shown |-> p.shown, form |-> p.form]
  OBVIOUS
<1> QED BY <1>1, <1>2, <1>3, <1>4

LEMMA TranslatedCrashed ==
  ASSUME NEW x, NEW y, NEW z, NEW v, NEW w
  PROVE  [[view |-> x, asked |-> v, shown |-> y, form |-> z] EXCEPT !.view = w]
           = [view |-> w, asked |-> v, shown |-> y, form |-> z]
OBVIOUS

LEMMA TranslatedClicks ==
  ASSUME TranslatedInv, NEW d \in TranslationAdmins,
         \/ \E s \in TranslationSets : Translated!RunSync(d, s)
         \/ Translated!Declare(d) \/ Translated!Refused(d) \/ Translated!NothingMatched(d)
         \/ Translated!FolderMissing(d) \/ Translated!Reload(d) \/ Translated!ListCome(d)
  PROVE  TranslatedInv'
<1> DEFINE Turned == \E p : /\ page' = [page EXCEPT ![d] = p] /\ TranslatedPage(p)
                            /\ p.asked # None => p.asked \in TranslationSets
<1>1. UNCHANGED <<translationsRows, translationsWritten, syncs>>
  BY DEF Translated!RunSync, Translated!Declare, Translated!Refused, Translated!NothingMatched,
         Translated!FolderMissing, Translated!Reload, Translated!ListCome, Translated!server
<1>2. TranslatedPage(page[d]) /\ (page[d].asked # None => page[d].asked \in TranslationSets) /\ DOMAIN page = TranslationAdmins
  BY DEF TranslatedInv, TranslatedTypes
<1>3. ASSUME NEW v, NEW x, NEW y, NEW z, x # None => x \in TranslationSets,
             page' = [page EXCEPT ![d] = [view |-> v, asked |-> x, shown |-> y, form |-> z]]
      PROVE  Turned
  <2> DEFINE p == [view |-> v, asked |-> x, shown |-> y, form |-> z]
  <2>1. TranslatedPage(p) /\ p.asked = x
    BY DEF TranslatedPage
  <2> QED BY <1>3, <2>1
<1>4. Turned
  <2>1. ASSUME NEW s \in TranslationSets, Translated!RunSync(d, s) PROVE Turned
    <3>1. page' = [page EXCEPT ![d] = [page[d] EXCEPT !.asked = s]]
      BY <2>1 DEF Translated!RunSync
    <3>2. page' = [page EXCEPT ![d] = [view |-> page[d].view, asked |-> s, shown |-> page[d].shown, form |-> page[d].form]]
      BY <1>2, <3>1, TranslatedForm
    <3> QED BY <1>3, <3>2
  <2>2. CASE Translated!Declare(d) \/ Translated!Refused(d)
    <3>1. PICK v : page' = [page EXCEPT ![d] = [page[d] EXCEPT !.form = v]]
      BY <2>2 DEF Translated!Declare, Translated!Refused
    <3>2. page' = [page EXCEPT ![d] = [view |-> page[d].view, asked |-> page[d].asked, shown |-> page[d].shown, form |-> v]]
      BY <1>2, <3>1, TranslatedForm
    <3> QED BY <1>2, <1>3, <3>2
  <2>3. CASE Translated!NothingMatched(d) \/ Translated!FolderMissing(d)
    <3>1. page' = [page EXCEPT ![d] = [[page[d] EXCEPT !.asked = None] EXCEPT !.view = "crashed"]]
      BY <1>2, <2>3 DEF Translated!NothingMatched, Translated!FolderMissing, Translated!Answered
    <3> DEFINE p(w) == [[page[d] EXCEPT !.asked = None] EXCEPT !.view = w]
               q(w) == [view |-> w, asked |-> None, shown |-> page[d].shown, form |-> page[d].form]
    <3>2. \A w : p(w) = q(w)
      <4>1. [page[d] EXCEPT !.asked = None] = [view |-> page[d].view, asked |-> None, shown |-> page[d].shown, form |-> page[d].form]
        BY <1>2, TranslatedForm
      <4>2. \A w : p(w) = [[view |-> page[d].view, asked |-> None, shown |-> page[d].shown, form |-> page[d].form] EXCEPT !.view = w]
        BY <4>1
      <4> HIDE DEF p
      <4> QED BY <4>2, TranslatedCrashed
    <3>3. page' = [page EXCEPT ![d] = p("crashed")]
      BY <3>1
    <3> HIDE DEF p
    <3>4. page' = [page EXCEPT ![d] = q("crashed")]
      BY <3>2, <3>3
    <3> QED BY <1>3, <3>4
  <2>4. CASE Translated!Reload(d)
    <3>1. page' = [page EXCEPT ![d] = [view |-> "sets", asked |-> None, shown |-> status, form |-> FALSE]]
      BY <2>4 DEF Translated!Reload
    <3> QED BY <1>3, <3>1
  <2>5. CASE Translated!ListCome(d)
    <3>1. page' = [page EXCEPT ![d] = [page[d] EXCEPT !.shown = status]]
      BY <2>5 DEF Translated!ListCome
    <3>2. page' = [page EXCEPT ![d] = [view |-> page[d].view, asked |-> page[d].asked, shown |-> status, form |-> page[d].form]]
      BY <1>2, <3>1, TranslatedForm
    <3> QED BY <1>2, <1>3, <3>2
  <2> QED BY <2>1, <2>2, <2>3, <2>4, <2>5
<1> QED BY <1>1, <1>4, TranslatedPages

LEMMA TranslatedMet ==
  ASSUME NEW y, NEW v, TranslatedSync(y)
  PROVE  [y EXCEPT !.alone = v] = [set |-> y.set, read |-> y.read, cleared |-> y.cleared, alone |-> v, after |-> y.after]
BY DEF TranslatedSync

LEMMA TranslatedWaits ==
  ASSUME NEW y, NEW v, TranslatedSync(y)
  PROVE  [y EXCEPT !.after = v] = [set |-> y.set, read |-> y.read, cleared |-> y.cleared, alone |-> y.alone, after |-> v]
BY DEF TranslatedSync

\* A synchronisation is alone when no other of its set is there as it begins.
LEMMA TranslatedBegins == ASSUME TranslatedInv, NEW d \in TranslationAdmins, Translated!Clear(d) PROVE TranslatedInv'
<1> DEFINE with == {c \in TranslationAdmins : syncs[c] # None /\ syncs[c].set = page[d].asked}
           new == [set |-> page[d].asked, read |-> file, cleared |-> translationsRows[page[d].asked],
                   alone |-> with = {}, after |-> {c \in with : syncs[c].cleared # {}}]
           met(y) == [y EXCEPT !.alone = FALSE]
<1>1. /\ syncs' = [c \in TranslationAdmins |-> CASE c = d -> new [] c \in with -> met(syncs[c]) [] OTHER -> syncs[c]]
      /\ UNCHANGED <<translationsRows, translationsWritten, page>> /\ page[d].asked # None /\ d \notin with
  BY DEF Translated!Clear, Translated!Begins, Translated!Together
<1>2. /\ TranslatedSync(new) /\ new.set = page[d].asked /\ new.cleared = translationsRows[page[d].asked]
      /\ new.alone = (with = {})
  BY DEF TranslatedSync
<1>3. \A c \in with : TranslatedSync(met(syncs[c])) /\ met(syncs[c]).set = syncs[c].set /\ ~met(syncs[c]).alone
  <2> TAKE c \in with
  <2>1. TranslatedSync(syncs[c])
    BY DEF TranslatedInv, TranslatedTypes
  <2>2. met(syncs[c]) = [set |-> syncs[c].set, read |-> syncs[c].read, cleared |-> syncs[c].cleared,
                         alone |-> FALSE, after |-> syncs[c].after]
    BY <2>1, TranslatedMet
  <2> QED BY <2>2 DEF TranslatedSync
<1> HIDE DEF new, met
<1>4. /\ syncs'[d] = new /\ \A c \in with : c # d => syncs'[c] = met(syncs[c])
      /\ \A c \in TranslationAdmins \ with : c # d => syncs'[c] = syncs[c]
      /\ DOMAIN syncs' = TranslationAdmins
  <2> DEFINE next(c) == CASE c = d -> new [] c \in with -> met(syncs[c]) [] OTHER -> syncs[c]
  <2>1. syncs' = [c \in TranslationAdmins |-> next(c)]
    BY <1>1
  <2>2. \A c : /\ c = d => next(c) = new
               /\ c # d /\ c \in with => next(c) = met(syncs[c])
               /\ c # d /\ c \notin with => next(c) = syncs[c]
    BY <1>1
  <2> HIDE DEF next
  <2> QED BY <2>1, <2>2
<1>5. TranslatedTypes'
  BY <1>1, <1>2, <1>3, <1>4 DEF TranslatedInv, TranslatedTypes
<1>6. TranslatedAlone'
  <2> SUFFICES ASSUME NEW x \in TranslationAdmins, syncs'[x] # None, syncs'[x].alone
               PROVE  /\ translationsRows[syncs'[x].set] \subseteq syncs'[x].cleared
                      /\ \A c \in TranslationAdmins : syncs'[c] # None /\ syncs'[c].set = syncs'[x].set => c = x
    BY <1>1 DEF TranslatedAlone
  <2>1. CASE x = d
    BY <1>2, <1>4, <2>1
  <2>2. CASE x # d
    <3>1. x \notin with /\ syncs'[x] = syncs[x]
      BY <1>3, <1>4, <2>2
    <3>2. /\ translationsRows[syncs[x].set] \subseteq syncs[x].cleared
          /\ \A c \in TranslationAdmins : syncs[c] # None /\ syncs[c].set = syncs[x].set => c = x
          /\ syncs[x].set # page[d].asked
      BY <3>1 DEF TranslatedInv, TranslatedAlone
    <3> QED BY <1>2, <1>3, <1>4, <3>1, <3>2
  <2> QED BY <2>1, <2>2
<1>7. Translated!OneTextPerSentence' /\ Translated!RowsAreTheFile'
  BY <1>1 DEF TranslatedInv, Translated!OneTextPerSentence, Translated!RowsAreTheFile
<1> QED BY <1>5, <1>6, <1>7 DEF TranslatedInv

\* The end of a synchronisation leaves the others as they were, but for what they wait for.
LEMMA TranslatedEnds ==
  ASSUME TranslatedInv, NEW d \in TranslationAdmins, Translated!Ends(d)
  PROVE  /\ DOMAIN syncs' = TranslationAdmins
         /\ \A c \in TranslationAdmins : syncs'[c] # None =>
              /\ c # d /\ syncs[c] # None
              /\ TranslatedSync(syncs'[c]) /\ syncs'[c].set = syncs[c].set
              /\ syncs'[c].cleared = syncs[c].cleared /\ syncs'[c].alone = syncs[c].alone
<1> DEFINE on(c) == [syncs[c] EXCEPT !.after = syncs[c].after \ {d}]
<1>1. syncs' = [c \in TranslationAdmins |-> IF c = d \/ syncs[c] = None THEN None ELSE on(c)]
  BY DEF Translated!Ends
<1>2. ASSUME NEW c \in TranslationAdmins, syncs[c] # None
      PROVE  /\ TranslatedSync(on(c)) /\ on(c).set = syncs[c].set
             /\ on(c).cleared = syncs[c].cleared /\ on(c).alone = syncs[c].alone
  <2>1. TranslatedSync(syncs[c])
    BY <1>2 DEF TranslatedInv, TranslatedTypes
  <2>2. on(c) = [set |-> syncs[c].set, read |-> syncs[c].read, cleared |-> syncs[c].cleared,
                 alone |-> syncs[c].alone, after |-> syncs[c].after \ {d}]
    BY <2>1, TranslatedWaits
  <2> QED BY <2>2 DEF TranslatedSync
<1> HIDE DEF on
<1>3. \A c \in TranslationAdmins : syncs'[c] = IF c = d \/ syncs[c] = None THEN None ELSE on(c)
  BY <1>1
<1> QED BY <1>1, <1>2, <1>3

\* What the answer makes of the page.
LEMMA TranslatedAnswer ==
  ASSUME TranslatedInv, NEW d \in TranslationAdmins, Translated!Answered(d) \/ Translated!Erred(d)
  PROVE  /\ DOMAIN page' = TranslationAdmins
         /\ \A c \in TranslationAdmins :
              TranslatedPage(page'[c]) /\ (page'[c].asked # None => page'[c].asked \in TranslationSets)
<1>1. \A c \in TranslationAdmins : TranslatedPage(page[c]) /\ (page[c].asked # None => page[c].asked \in TranslationSets)
  BY DEF TranslatedInv, TranslatedTypes
<1>2. DOMAIN page = TranslationAdmins
  BY DEF TranslatedInv, TranslatedTypes
<1> DEFINE p == [page[d] EXCEPT !.asked = None]
           q(w) == [p EXCEPT !.view = w]
<1>3. p = [view |-> page[d].view, asked |-> None, shown |-> page[d].shown, form |-> page[d].form]
  BY <1>1, TranslatedForm
<1>4. TranslatedPage(p) /\ p.asked = None
  BY <1>3 DEF TranslatedPage
<1>5. \A w : q(w) = [view |-> w, asked |-> None, shown |-> page[d].shown, form |-> page[d].form]
  <2> DEFINE r == [view |-> page[d].view, asked |-> None, shown |-> page[d].shown, form |-> page[d].form]
  <2>1. \A w : q(w) = [r EXCEPT !.view = w]
    BY <1>3
  <2> HIDE DEF p, q
  <2> QED BY <2>1, TranslatedCrashed
<1>6. TranslatedPage(q("crashed")) /\ q("crashed").asked = None
  <2> HIDE DEF p, q
  <2> QED BY <1>5 DEF TranslatedPage
<1>7. page' = [page EXCEPT ![d] = p] \/ page' = [page EXCEPT ![d] = q("crashed")]
  BY <1>2 DEF Translated!Answered, Translated!Erred
<1> HIDE DEF p, q
<1> QED BY <1>1, <1>2, <1>4, <1>6, <1>7

\* The rows of a set after a synchronisation of it: those it did not delete, and its own.
LEMMA TranslatedCommits == ASSUME TranslatedInv, NEW d \in TranslationAdmins, Translated!Commit(d) PROVE TranslatedInv'
<1> DEFINE s == syncs[d].set
           lines == syncs[d].read
           left == translationsRows[s] \ syncs[d].cleared
           new == Translated!Copies(s, lines, d)
<1>1. /\ syncs[d] # None /\ ~Translated!Conflicts(d)
      /\ translationsRows' = [translationsRows EXCEPT ![s] = left \cup new]
      /\ translationsWritten' = [translationsWritten EXCEPT ![s] = IF syncs[d].alone THEN lines ELSE None]
      /\ Translated!Ends(d) /\ Translated!Answered(d)
  BY DEF Translated!Commit
<1>2. s \in TranslationSets
  BY <1>1 DEF TranslatedInv, TranslatedTypes
<1>3. /\ translationsRows'[s] = left \cup new
      /\ translationsWritten'[s] = IF syncs[d].alone THEN lines ELSE None
      /\ \A t \in TranslationSets : t # s => /\ translationsRows'[t] = translationsRows[t]
                                              /\ translationsWritten'[t] = translationsWritten[t]
      /\ DOMAIN translationsRows' = TranslationSets /\ DOMAIN translationsWritten' = TranslationSets
  BY <1>1, <1>2 DEF TranslatedInv, TranslatedTypes
<1>4. TranslatedTypes'
  BY <1>1, <1>3, TranslatedEnds, TranslatedAnswer DEF TranslatedInv, TranslatedTypes
<1>5. TranslatedAlone'
  <2> SUFFICES ASSUME NEW x \in TranslationAdmins, syncs'[x] # None, syncs'[x].alone
               PROVE  /\ translationsRows'[syncs'[x].set] \subseteq syncs'[x].cleared
                      /\ \A c \in TranslationAdmins : syncs'[c] # None /\ syncs'[c].set = syncs'[x].set => c = x
    BY DEF TranslatedAlone
  <2>1. /\ x # d /\ syncs[x] # None /\ syncs[x].alone
        /\ syncs'[x].set = syncs[x].set /\ syncs'[x].cleared = syncs[x].cleared
    BY <1>1, TranslatedEnds
  <2>2. /\ translationsRows[syncs[x].set] \subseteq syncs[x].cleared
        /\ \A c \in TranslationAdmins : syncs[c] # None /\ syncs[c].set = syncs[x].set => c = x
    BY <2>1 DEF TranslatedInv, TranslatedAlone
  <2>3. syncs[x].set # s /\ syncs[x].set \in TranslationSets
    BY <1>1, <2>1, <2>2 DEF TranslatedInv, TranslatedTypes
  <2>4. \A c \in TranslationAdmins : syncs'[c] # None => syncs[c] # None /\ syncs'[c].set = syncs[c].set
    BY <1>1, TranslatedEnds
  <2> QED BY <1>3, <2>1, <2>2, <2>3, <2>4
<1>6. Translated!OneTextPerSentence'
  <2>1. \A r, q \in new : r.sentence = q.sentence /\ r.sentence # None => r = q
    BY DEF Translated!Copies
  <2>2. \A r \in left, q \in new : r.sentence # q.sentence \/ r.sentence = None
    BY <1>1 DEF Translated!Conflicts
  <2>3. \A t \in TranslationSets : \A r, q \in translationsRows[t] : r.sentence = q.sentence /\ r.sentence # None => r = q
    BY DEF TranslatedInv, Translated!OneTextPerSentence
  <2> HIDE DEF new
  <2>4. \A r, q \in left \cup new : r.sentence = q.sentence /\ r.sentence # None => r = q
    BY <1>2, <2>1, <2>2, <2>3
  <2> HIDE DEF left, s
  <2>5. \A t \in TranslationSets : \A r, q \in translationsRows'[t] : r.sentence = q.sentence /\ r.sentence # None => r = q
    BY <1>3, <2>3, <2>4
  <2> QED BY <2>5 DEF Translated!OneTextPerSentence
<1>7. Translated!RowsAreTheFile'
  <2> SUFFICES ASSUME NEW t \in TranslationSets \ WholeTranslations, translationsWritten'[t] # None
               PROVE  {<<r.sentence, r.text[1]>> : r \in translationsRows'[t]}
                        = {<<i, Translated!Kept(translationsWritten'[t])[i + 1]>> : i \in Translated!InFile(translationsWritten'[t])}
    BY DEF Translated!RowsAreTheFile
  <2>1. CASE t = s
    <3>1. syncs[d].alone /\ translationsWritten'[t] = lines
      BY <1>3, <2>1
    <3>2. left = {}
      BY <1>1, <3>1 DEF TranslatedInv, TranslatedAlone
    <3>3. translationsRows'[t] = {[sentence |-> i, text |-> <<Translated!Kept(lines)[i + 1]>>, by |-> <<d, translationsMoves>>] :
                                     i \in Translated!InFile(lines)}
      BY <1>3, <2>1, <3>2 DEF Translated!Copies
    <3> DEFINE row(i) == [sentence |-> i, text |-> <<Translated!Kept(lines)[i + 1]>>, by |-> <<d, translationsMoves>>]
    <3>4. \A i : row(i).sentence = i /\ row(i).text[1] = Translated!Kept(lines)[i + 1]
      OBVIOUS
    <3> HIDE DEF row, lines
    <3>5. translationsRows'[t] = {row(i) : i \in Translated!InFile(lines)}
      BY <3>3 DEF row
    <3> QED BY <3>1, <3>4, <3>5
  <2>2. CASE t # s
    BY <1>3, <2>2 DEF TranslatedInv, Translated!RowsAreTheFile
  <2> QED BY <2>1, <2>2
<1> QED BY <1>4, <1>5, <1>6, <1>7 DEF TranslatedInv

LEMMA TranslatedRollsBack == ASSUME TranslatedInv, NEW d \in TranslationAdmins, Translated!Rollback(d) PROVE TranslatedInv'
<1>1. Translated!Ends(d) /\ Translated!Erred(d) /\ UNCHANGED <<translationsRows, translationsWritten>>
  BY DEF Translated!Rollback
<1>2. TranslatedTypes'
  BY <1>1, TranslatedEnds, TranslatedAnswer DEF TranslatedInv, TranslatedTypes
<1>3. TranslatedAlone'
  BY <1>1, TranslatedEnds DEF TranslatedInv, TranslatedAlone
<1>4. Translated!OneTextPerSentence' /\ Translated!RowsAreTheFile'
  BY <1>1 DEF TranslatedInv, Translated!OneTextPerSentence, Translated!RowsAreTheFile
<1> QED BY <1>2, <1>3, <1>4 DEF TranslatedInv

LEMMA TranslatedStep == ASSUME TranslatedInv, Translated!Next PROVE TranslatedInv'
<1>1. ASSUME NEW f \in TranslationFiles, Translated!Translate(f) PROVE TranslatedInv'
  <2>1. UNCHANGED <<translationsRows, translationsWritten, syncs, page>>
    BY <1>1 DEF Translated!Translate, Translated!server
  <2>2. TranslatedTypes'
    BY <2>1 DEF TranslatedInv, TranslatedTypes
  <2> QED BY <2>1, <2>2, TranslatedQuiet
<1> QED BY <1>1, TranslatedClicks, TranslatedBegins, TranslatedCommits, TranslatedRollsBack DEF Translated!Next
-----------------------------------------------------------------------------
(* The gold desk: a tie gets a theme somebody chose for it.  What the walk *)
(* of the keys computes is left to TLC: nothing is asked here of the row   *)
(* it selects, which may be none.                                          *)
DeskServer ==
  /\ DOMAIN goldServer = DeskRows
  /\ \A i \in DeskRows : kinds[i] = "tie" /\ (goldServer[i].primary # None \/ goldServer[i].by = "me") =>
       <<i, goldServer[i].primary>> \in pointed
DeskShown == \A i \in DeskRows : kinds[i] = "tie" /\ rows[i].primary # None => <<i, rows[i].primary>> \in pointed
DeskAsked ==
  request # None /\ request.index \in DeskRows /\ kinds[request.index] = "tie" =>
    <<request.index, request.primary>> \in pointed
DeskDraft ==
  draft # None /\ draft.primary # None /\ selected \in DeskRows /\ kinds[selected] = "tie" =>
    <<selected, draft.primary>> \in pointed

DeskInv == DeskServer /\ DeskShown /\ DeskAsked /\ DeskDraft

LEMMA DeskInitial == ASSUME Desk!Init PROVE DeskInv
<1>1. \A i \in DeskRows : goldServer[i].primary = None /\ goldServer[i].by = "nobody" /\ rows[i].primary = None
  BY DEF Desk!Init, Desk!Nothing
<1>2. DOMAIN goldServer = DeskRows /\ request = None /\ draft = None
  BY DEF Desk!Init
<1> QED BY <1>1, <1>2 DEF DeskInv, DeskServer, DeskShown, DeskAsked, DeskDraft

\* The composer of another sentence starts with its decision, and with nothing for a tie.
LEMMA DeskComposes ==
  ASSUME DeskInv, DeskShown', kinds' = kinds, pointed \subseteq pointed',
         Desk!Composer \/ UNCHANGED <<draft, selected>>
  PROVE  DeskDraft'
<1>1. CASE UNCHANGED <<draft, selected>>
  BY <1>1 DEF DeskInv, DeskDraft
<1>2. CASE Desk!Composer
  <2>1. CASE draft' = draft /\ selected' = selected
    BY <2>1 DEF DeskInv, DeskDraft
  <2>2. CASE draft' = None
    BY <2>2 DEF DeskDraft
  <2>3. CASE draft' = Desk!InitialSelection(selected', rows'[selected'])
    <3>1. CASE rows'[selected'].primary # None
      <4>1. draft'.primary = rows'[selected'].primary
        BY <2>3, <3>1 DEF Desk!InitialSelection, Desk!Decided
      <4> QED BY <3>1, <4>1 DEF DeskShown, DeskDraft
    <3>2. CASE rows'[selected'].primary = None /\ kinds[selected'] = "tie"
      <4>1. draft'.primary = None
        BY <2>3, <3>2 DEF Desk!InitialSelection, Desk!Decided
      <4> QED BY <4>1 DEF DeskDraft
    <3>3. CASE kinds[selected'] # "tie"
      BY <3>3 DEF DeskDraft
    <3> QED BY <3>1, <3>2, <3>3
  <2> QED BY <1>2, <2>1, <2>2, <2>3 DEF Desk!Composer
<1> QED BY <1>1, <1>2

\* What neither decides nor answers.
LEMMA DeskQuiet ==
  ASSUME DeskInv, UNCHANGED <<kinds, goldServer, rows, pointed>>, UNCHANGED request \/ request' = None,
         Desk!Composer \/ UNCHANGED <<draft, selected>>
  PROVE  DeskInv'
<1>1. DeskServer' /\ DeskShown' /\ DeskAsked'
  BY DEF DeskInv, DeskServer, DeskShown, DeskAsked
<1> QED BY <1>1, DeskComposes DEF DeskInv

LEMMA DeskCommits ==
  ASSUME DeskInv, NEW i, NEW t, NEW s, NEW r, Desk!Commit(i, t, s, r), pointed \subseteq pointed',
         i \in DeskRows /\ kinds[i] = "tie" => <<i, t>> \in pointed'
  PROVE  DeskInv'
<1>1. /\ UNCHANGED <<kinds, goldServer, rows>> /\ Desk!Composer
      /\ request' = [index |-> i, primary |-> t, secondaries |-> s]
  BY DEF Desk!Commit, Desk!document
<1>2. request'.index = i /\ request'.primary = t
  BY <1>1
<1>3. DeskServer' /\ DeskShown' /\ DeskAsked'
  BY <1>1, <1>2 DEF DeskInv, DeskServer, DeskShown, DeskAsked
<1> QED BY <1>1, <1>3, DeskComposes DEF DeskInv

LEMMA DeskArbiter == ASSUME DeskInv, Desk!Arbiter PROVE DeskInv'
<1>1. ASSUME NEW i \in DeskRows, Desk!Select(i) PROVE DeskInv'
  BY <1>1, DeskQuiet DEF Desk!Select, Desk!document
<1>2. ASSUME NEW i \in DeskRows, Desk!Validate(i) PROVE DeskInv'
  <2>1. kinds[i] # "tie" /\ pointed \subseteq pointed' /\ Desk!Commit(i, DeskFavoured, Desk!ProposedSecondaries(i), TRUE)
    BY <1>2 DEF Desk!Validate, Desk!Arbitrary
  <2> QED BY <2>1, DeskCommits
<1>3. ASSUME NEW dir, Desk!Jump(dir) PROVE DeskInv'
  BY <1>3, DeskQuiet DEF Desk!Jump, Desk!document
<1>4. ASSUME NEW f, Desk!SetFilter(f) PROVE DeskInv'
  BY <1>4, DeskQuiet DEF Desk!SetFilter, Desk!document
<1>5. ASSUME NEW t, Desk!AdoptCandidate(t) PROVE DeskInv'
  <2>1. /\ pointed' = pointed \cup {<<selected, t>>}
        /\ Desk!Commit(selected, t, Desk!ProposedSecondaries(selected), FALSE)
    BY <1>5 DEF Desk!AdoptCandidate
  <2> QED BY <2>1, DeskCommits
<1>6. CASE Desk!AcceptProposal \/ Desk!EnterOnControl
  <2>1. /\ kinds[selected] # "tie" /\ pointed \subseteq pointed'
        /\ Desk!Commit(selected, DeskFavoured, Desk!ProposedSecondaries(selected), FALSE)
    BY <1>6 DEF Desk!AcceptProposal, Desk!EnterOnControl
  <2> QED BY <2>1, DeskCommits
<1>7. CASE Desk!Submit
  <2>1. /\ draft # None /\ draft.primary # None /\ pointed' = pointed
        /\ Desk!Commit(selected, draft.primary, draft.secondaries, FALSE)
    BY <1>7 DEF Desk!Submit
  <2>2. selected \in DeskRows /\ kinds[selected] = "tie" => <<selected, draft.primary>> \in pointed'
    BY <2>1 DEF DeskInv, DeskDraft
  <2> QED BY <2>1, <2>2, DeskCommits
<1>8. ASSUME NEW d, Desk!Compose(d) PROVE DeskInv'
  <2>1. /\ draft' = d /\ UNCHANGED <<kinds, goldServer, rows, request, selected>>
        /\ pointed' = IF d.primary = None THEN pointed ELSE pointed \cup {<<selected, d.primary>>}
    BY <1>8 DEF Desk!Compose, Desk!document
  <2>2. DeskDraft'
    BY <2>1 DEF DeskDraft
  <2>3. DeskServer' /\ DeskShown' /\ DeskAsked'
    BY <2>1 DEF DeskInv, DeskServer, DeskShown, DeskAsked
  <2> QED BY <2>2, <2>3 DEF DeskInv
<1>9. ASSUME NEW t, Desk!Toggle(t) \/ Desk!Promote(t) PROVE DeskInv'
  BY <1>8, <1>9 DEF Desk!Toggle, Desk!Promote
<1>10. CASE Desk!Comment \/ Desk!Clear
  BY <1>8, <1>10 DEF Desk!Comment, Desk!Clear
<1>11. CASE Desk!AutoResolve
  <2>1. /\ UNCHANGED <<kinds, rows, request, draft, selected, pointed>> /\ DOMAIN goldServer' = DeskRows
        /\ \A i \in DeskRows : kinds[i] = "tie" => goldServer'[i] = goldServer[i]
    BY <1>11 DEF Desk!AutoResolve
  <2>2. DeskServer' /\ DeskShown' /\ DeskAsked' /\ DeskDraft'
    BY <2>1 DEF DeskInv, DeskServer, DeskShown, DeskAsked, DeskDraft
  <2> QED BY <2>2 DEF DeskInv
<1>12. CASE Desk!Dismiss \/ Desk!AskToFinalize \/ Desk!CancelFinalize \/ Desk!Reopen
  BY <1>12, DeskQuiet DEF Desk!Dismiss, Desk!AskToFinalize, Desk!CancelFinalize, Desk!Reopen, Desk!document
<1> QED BY <1>1, <1>2, <1>3, <1>4, <1>5, <1>6, <1>7, <1>9, <1>10, <1>11, <1>12 DEF Desk!Arbiter

LEMMA DeskStep == ASSUME DeskInv, Desk!Next PROVE DeskInv'
<1>1. ASSUME NEW y, Desk!Finalize(y) \/ Desk!Refuse(y) \/ Desk!LockChanged PROVE DeskInv'
  BY <1>1, DeskQuiet DEF Desk!Finalize, Desk!Refuse, Desk!LockChanged, Desk!document
<1>2. CASE Desk!Accept
  <2> DEFINE new == [primary |-> request.primary, secondaries |-> request.secondaries \ {request.primary}, by |-> "me"]
  <2>1. /\ goldServer' = [goldServer EXCEPT ![request.index] = new] /\ request # None /\ request' = None
        /\ UNCHANGED <<kinds, rows, pointed>> /\ Desk!Composer
    BY <1>2 DEF Desk!Accept
  <2>2. new.primary = request.primary
    OBVIOUS
  <2> HIDE DEF new
  <2>3. DeskServer'
    BY <2>1, <2>2 DEF DeskInv, DeskServer, DeskAsked
  <2>4. DeskShown' /\ DeskAsked'
    BY <2>1 DEF DeskInv, DeskShown, DeskAsked
  <2> QED BY <2>1, <2>3, <2>4, DeskComposes DEF DeskInv
<1>3. CASE Desk!Refetch
  <2>1. rows' = goldServer /\ UNCHANGED <<kinds, goldServer, request, pointed>> /\ Desk!Composer
    BY <1>3 DEF Desk!Refetch
  <2>2. DeskServer' /\ DeskShown' /\ DeskAsked'
    BY <2>1 DEF DeskInv, DeskServer, DeskShown, DeskAsked
  <2> QED BY <2>1, <2>2, DeskComposes DEF DeskInv
<1>4. ASSUME NEW i \in DeskRows, NEW t, Desk!OtherDecides(i, t) PROVE DeskInv'
  <2> DEFINE new == [primary |-> t, secondaries |-> {}, by |-> "other"]
  <2>1. /\ goldServer' = [goldServer EXCEPT ![i] = new] /\ pointed' = pointed \cup {<<i, t>>}
        /\ UNCHANGED <<kinds, rows, request, draft, selected>>
    BY <1>4 DEF Desk!OtherDecides
  <2>2. new.primary = t
    OBVIOUS
  <2> HIDE DEF new
  <2>3. DeskServer'
    BY <2>1, <2>2 DEF DeskInv, DeskServer
  <2>4. DeskShown' /\ DeskAsked' /\ DeskDraft'
    BY <2>1 DEF DeskInv, DeskShown, DeskAsked, DeskDraft
  <2> QED BY <2>3, <2>4 DEF DeskInv
<1> QED BY <1>1, <1>2, <1>3, <1>4, DeskArbiter DEF Desk!Next

LEMMA DeskHolds == ASSUME DeskInv PROVE Desk!TieIsChosen
BY DEF DeskInv, DeskServer, Desk!TieIsChosen
-----------------------------------------------------------------------------
(* The queue beside the document: what the judges leave open is chosen.    *)
BacklogWritten(w, i) == w[i] # None => ~(w[i].how = "accept" /\ w[i].level = "C5")
BacklogInv == DOMAIN written = BacklogSentences /\ \A i \in BacklogSentences : BacklogWritten(written, i)

LEMMA BacklogInitial == ASSUME Backlog!Init PROVE BacklogInv
BY DEF Backlog!Init, BacklogInv, BacklogWritten

\* A decision of the card that is not the acceptance of an open one.
LEMMA BacklogPersists ==
  ASSUME BacklogInv, NEW ts, NEW how, Backlog!Persist(ts, how),
         how = "accept" => levels[Backlog!Current] # "C5"
  PROVE  BacklogInv'
<1> DEFINE new == Backlog!Write(Backlog!Current, ts, how)
<1>1. written' = [written EXCEPT ![Backlog!Current] = new]
  BY DEF Backlog!Persist
<1>2. new.how = how /\ new.level = levels[Backlog!Current]
  BY DEF Backlog!Write
<1> HIDE DEF new
<1>3. \A i \in BacklogSentences : written'[i] = written[i] \/ written'[i] = new
  BY <1>1 DEF BacklogInv
<1>4. DOMAIN written' = BacklogSentences
  BY <1>1 DEF BacklogInv
<1> QED BY <1>2, <1>3, <1>4 DEF BacklogInv, BacklogWritten

LEMMA BacklogAcceptsMany == ASSUME BacklogInv, NEW lines, Backlog!AcceptBatch(lines) PROVE BacklogInv'
<1> DEFINE new(i) == Backlog!Write(i, Backlog!Labels(i), "accept")
           todo == Backlog!Acceptable(lines)
<1>1. written' = [i \in BacklogSentences |-> IF i \in todo THEN new(i) ELSE written[i]]
  BY DEF Backlog!AcceptBatch
<1>2. \A i \in todo : new(i).level # "C5"
  BY DEF Backlog!Write, Backlog!Acceptable
<1> HIDE DEF new, todo
<1> QED BY <1>1, <1>2 DEF BacklogInv, BacklogWritten

LEMMA BacklogStep == ASSUME BacklogInv, Backlog!Next PROVE BacklogInv'
<1>1. ASSUME UNCHANGED written PROVE BacklogInv'
  BY <1>1 DEF BacklogInv, BacklogWritten
<1>2. ASSUME NEW ls, Backlog!Judged(ls) PROVE BacklogInv'
  BY <1>1, <1>2 DEF Backlog!Judged
<1>3. ASSUME NEW i, Backlog!Focus(i) \/ Backlog!Select(i) \/ Backlog!Move(i) \/ Backlog!Help(i) PROVE BacklogInv'
  BY <1>1, <1>3 DEF Backlog!Focus, Backlog!Select, Backlog!Move, Backlog!Help
<1>4. CASE Backlog!Open \/ Backlog!Close
  BY <1>1, <1>4 DEF Backlog!Open, Backlog!Close
<1>5. ASSUME NEW i \in BacklogSentences, Backlog!AnnotateByHand(i) PROVE BacklogInv'
  <2> DEFINE new == [primary |-> BacklogMinor, secondaries |-> {}, how |-> "hand", level |-> None]
  <2>1. written' = [written EXCEPT ![i] = new] /\ new.how = "hand"
    BY <1>5 DEF Backlog!AnnotateByHand
  <2> HIDE DEF new
  <2> QED BY <2>1 DEF BacklogInv, BacklogWritten
<1>6. CASE Backlog!Accept
  BY <1>6, BacklogPersists DEF Backlog!Accept
<1>7. ASSUME NEW ts, Backlog!Persist(ts, "choose") PROVE BacklogInv'
  BY <1>7, BacklogPersists
<1>8. CASE Backlog!Swap \/ Backlog!RemoveSecondary \/ Backlog!Multi \/ Backlog!UndoOverride
  BY <1>7, <1>8 DEF Backlog!Swap, Backlog!RemoveSecondary, Backlog!Multi, Backlog!UndoOverride
<1>9. ASSUME NEW t, Backlog!Choose(t) PROVE BacklogInv'
  BY <1>7, <1>9 DEF Backlog!Choose
<1>10. CASE Backlog!BatchAcceptC1 \/ Backlog!BatchAcceptSelection
  BY <1>10, BacklogAcceptsMany DEF Backlog!BatchAcceptC1, Backlog!BatchAcceptSelection
<1> QED BY <1>2, <1>3, <1>4, <1>5, <1>6, <1>8, <1>9, <1>10 DEF Backlog!Next

LEMMA BacklogHolds == ASSUME BacklogInv PROVE Backlog!ArbitrationIsChosen
BY DEF BacklogInv, BacklogWritten, Backlog!ArbitrationIsChosen
-----------------------------------------------------------------------------
(* The plan: who decided a clause leaves its trace.                        *)
PlanRecord(c) == c = [id |-> c.id, validated |-> c.validated, seeded |-> c.seeded, adopted |-> c.adopted,
                      level |-> c.level, by |-> c.by]
PlanTraced(c) ==
  /\ c.by \in {"seed", "human", "engine", "judge"}
  /\ c.by = "seed" => c.seeded = TRUE
  /\ c.by = "engine" => c.level = TRUE
  /\ c.by = "judge" => c.adopted = TRUE
PlanClause(c) == PlanRecord(c) /\ PlanTraced(c)

PlanInv ==
  /\ DOMAIN planClauses = PlanSentences
  /\ \A i \in PlanSentences : planClauses[i] # None => PlanClause(planClauses[i])

LEMMA PlanInitial == ASSUME Plan!Init PROVE PlanInv
<1>1. \A i : PlanClause(Plan!Prefilled(i))
  BY DEF Plan!Prefilled, PlanClause, PlanRecord, PlanTraced
<1>2. PICK s \in SUBSET PlanSentences : planClauses = [i \in PlanSentences |-> IF i \in s THEN Plan!Prefilled(i) ELSE None]
  BY DEF Plan!Init
<1> QED BY <1>1, <1>2 DEF PlanInv

\* What a decision, or its absence, leaves of a clause.
PlanRewrites(c, v, l, w, y) ==
  [id |-> c.id, validated |-> v, seeded |-> c.seeded, adopted |-> w, level |-> l, by |-> y]
LEMMA PlanRewritten ==
  ASSUME NEW c, PlanRecord(c), NEW v, NEW l, NEW w, NEW y,
         y \in {"human", "engine", "judge"} \/ (y = c.by /\ PlanClause(c)),
         y = "engine" => l = TRUE, y = "judge" => w = TRUE
  PROVE  PlanClause(PlanRewrites(c, v, l, w, y))
<1> DEFINE d == PlanRewrites(c, v, l, w, y)
<1>1. d.seeded = c.seeded /\ d.level = l /\ d.adopted = w /\ d.by = y
  BY DEF PlanRewrites
<1>2. PlanRecord(d)
  BY DEF PlanRewrites, PlanRecord
<1> HIDE DEF d
<1>3. PlanTraced(d)
  BY <1>1 DEF PlanClause, PlanTraced
<1>4. PlanClause(d)
  BY <1>2, <1>3 DEF PlanClause
<1> QED BY <1>4 DEF d

LEMMA PlanMarks ==
  ASSUME NEW c, PlanRecord(c), NEW v
  PROVE  [c EXCEPT !.validated = v] = PlanRewrites(c, v, c.level, c.adopted, c.by)
BY DEF PlanRecord, PlanRewrites

LEMMA PlanLevels ==
  ASSUME NEW c, PlanRecord(c), NEW l
  PROVE  [c EXCEPT !.level = l] = PlanRewrites(c, c.validated, l, c.adopted, c.by)
BY DEF PlanRecord, PlanRewrites

LEMMA PlanThemes ==
  ASSUME NEW c, PlanRecord(c), NEW v, NEW y
  PROVE  [c EXCEPT !.validated = v, !.by = y] = PlanRewrites(c, v, c.level, c.adopted, y)
<1>1. [PlanRewrites(c, v, c.level, c.adopted, c.by) EXCEPT !.by = y] = PlanRewrites(c, v, c.level, c.adopted, y)
  BY DEF PlanRewrites
<1> QED BY <1>1, PlanMarks

LEMMA PlanDecides ==
  ASSUME NEW c, PlanRecord(c), NEW v, NEW l, NEW y
  PROVE  [c EXCEPT !.validated = v, !.level = l, !.by = y] = PlanRewrites(c, v, l, c.adopted, y)
<1>1. [PlanRewrites(c, v, c.level, c.adopted, c.by) EXCEPT !.level = l] = PlanRewrites(c, v, l, c.adopted, c.by)
  BY DEF PlanRewrites
<1>2. [PlanRewrites(c, v, l, c.adopted, c.by) EXCEPT !.by = y] = PlanRewrites(c, v, l, c.adopted, y)
  BY DEF PlanRewrites
<1> QED BY <1>1, <1>2, PlanMarks

LEMMA PlanAdopts ==
  ASSUME NEW c, PlanRecord(c), NEW v, NEW w, NEW y
  PROVE  [c EXCEPT !.validated = v, !.adopted = w, !.by = y] = PlanRewrites(c, v, c.level, w, y)
<1>1. [PlanRewrites(c, v, c.level, c.adopted, c.by) EXCEPT !.adopted = w] = PlanRewrites(c, v, c.level, w, c.by)
  BY DEF PlanRewrites
<1>2. [PlanRewrites(c, v, c.level, w, c.by) EXCEPT !.by = y] = PlanRewrites(c, v, c.level, w, y)
  BY DEF PlanRewrites
<1> QED BY <1>1, <1>2, PlanMarks

LEMMA PlanInspects ==
  ASSUME NEW c, PlanRecord(c), NEW l, NEW y
  PROVE  [c EXCEPT !.level = l, !.by = y] = PlanRewrites(c, c.validated, l, c.adopted, y)
<1>1. [PlanRewrites(c, c.validated, l, c.adopted, c.by) EXCEPT !.by = y] = PlanRewrites(c, c.validated, l, c.adopted, y)
  BY DEF PlanRewrites
<1> QED BY <1>1, PlanLevels

\* The clause of a sentence is none, or one rewritten.
LEMMA PlanBecomes ==
  ASSUME PlanInv, NEW i \in PlanSentences, NEW c, Plan!Becomes(i, c), c # None => PlanClause(c)
  PROVE  PlanInv'
<1>1. planClauses' = [planClauses EXCEPT ![i] = c]
  BY DEF Plan!Becomes
<1> QED BY <1>1 DEF PlanInv

LEMMA PlanFresh ==
  ASSUME NEW m, NEW n, NEW v, NEW l, NEW w, NEW x, NEW y, NEW z
  PROVE  [[[id |-> m, validated |-> v, seeded |-> x, adopted |-> w, level |-> l, by |-> y] EXCEPT !.id = n] EXCEPT !.seeded = z]
           = [id |-> n, validated |-> v, seeded |-> z, adopted |-> w, level |-> l, by |-> y]
<1>1. [[id |-> m, validated |-> v, seeded |-> x, adopted |-> w, level |-> l, by |-> y] EXCEPT !.id = n]
        = [id |-> n, validated |-> v, seeded |-> x, adopted |-> w, level |-> l, by |-> y]
  OBVIOUS
<1>2. [[id |-> n, validated |-> v, seeded |-> x, adopted |-> w, level |-> l, by |-> y] EXCEPT !.seeded = z]
        = [id |-> n, validated |-> v, seeded |-> z, adopted |-> w, level |-> l, by |-> y]
  OBVIOUS
<1> QED BY <1>1, <1>2

LEMMA PlanDecisions ==
  ASSUME PlanInv, NEW i \in PlanSentences,
         Plan!Retheme(i) \/ Plan!Inspect(i) \/ Plan!Decide(i) \/ Plan!Adopt(i) \/ Plan!Clear(i)
  PROVE  PlanInv'
<1> DEFINE c == Plan!Was(i)
<1>1. PlanRecord(c)
  <2>1. CASE planClauses[i] = None
    <3> DEFINE f(x, n) == [id |-> n, validated |-> FALSE, seeded |-> x, adopted |-> FALSE, level |-> FALSE, by |-> "seed"]
    <3>1. c = [[f(TRUE, <<i, 0>>) EXCEPT !.id = <<i, planMoves + 1>>] EXCEPT !.seeded = FALSE]
      BY <2>1 DEF Plan!Was, Plan!Fresh, Plan!Prefilled
    <3>2. c = f(FALSE, <<i, planMoves + 1>>)
      BY <3>1, PlanFresh
    <3> QED BY <3>2 DEF PlanRecord
  <2>2. CASE planClauses[i] # None
    BY <2>2 DEF PlanInv, PlanClause, Plan!Was
  <2> QED BY <2>1, <2>2
<1> DEFINE themed(v, l, y) == [c EXCEPT !.validated = v, !.level = l, !.by = y]
           looked(l, y) == [c EXCEPT !.level = l, !.by = y]
           adopted(v, w, y) == [c EXCEPT !.validated = v, !.adopted = w, !.by = y]
<1> HIDE DEF c
<1>a. \A v, l, y : themed(v, l, y) = PlanRewrites(c, v, l, c.adopted, y)
  BY <1>1, PlanDecides
<1>b. \A l, y : looked(l, y) = PlanRewrites(c, c.validated, l, c.adopted, y)
  BY <1>1, PlanInspects
<1>c. \A v, w, y : adopted(v, w, y) = PlanRewrites(c, v, c.level, w, y)
  BY <1>1, PlanAdopts
<1> HIDE DEF themed, looked, adopted
<1>2. CASE Plan!Retheme(i)
  <2>1. Plan!Becomes(i, themed(TRUE, FALSE, "human"))
    BY <1>2 DEF Plan!Retheme, c, themed
  <2>2. themed(TRUE, FALSE, "human") = PlanRewrites(c, TRUE, FALSE, c.adopted, "human") /\ PlanClause(PlanRewrites(c, TRUE, FALSE, c.adopted, "human"))
    BY <1>1, <1>a, <1>b, <1>c, PlanRewritten
  <2> QED BY <2>1, <2>2, PlanBecomes
<1>3. CASE Plan!Inspect(i)
  <2>1. Plan!Becomes(i, looked(FALSE, "human"))
    BY <1>3 DEF Plan!Inspect, c, looked
  <2>2. looked(FALSE, "human") = PlanRewrites(c, c.validated, FALSE, c.adopted, "human") /\ PlanClause(PlanRewrites(c, c.validated, FALSE, c.adopted, "human"))
    BY <1>1, <1>a, <1>b, <1>c, PlanRewritten
  <2> QED BY <2>1, <2>2, PlanBecomes
<1>4. CASE Plan!Decide(i)
  <2>1. Plan!Becomes(i, themed(TRUE, TRUE, "engine"))
    BY <1>4 DEF Plan!Decide, c, themed
  <2>2. themed(TRUE, TRUE, "engine") = PlanRewrites(c, TRUE, TRUE, c.adopted, "engine") /\ PlanClause(PlanRewrites(c, TRUE, TRUE, c.adopted, "engine"))
    BY <1>1, <1>a, <1>b, <1>c, PlanRewritten
  <2> QED BY <2>1, <2>2, PlanBecomes
<1>5. CASE Plan!Adopt(i)
  <2>1. Plan!Becomes(i, adopted(TRUE, TRUE, "judge"))
    BY <1>5 DEF Plan!Adopt, c, adopted
  <2>2. adopted(TRUE, TRUE, "judge") = PlanRewrites(c, TRUE, c.level, TRUE, "judge") /\ PlanClause(PlanRewrites(c, TRUE, c.level, TRUE, "judge"))
    BY <1>1, <1>a, <1>b, <1>c, PlanRewritten
  <2> QED BY <2>1, <2>2, PlanBecomes
<1>6. CASE Plan!Clear(i)
  BY <1>6, PlanBecomes DEF Plan!Clear
<1> QED BY <1>2, <1>3, <1>4, <1>5, <1>6

LEMMA PlanStep == ASSUME PlanInv, Plan!Next PROVE PlanInv'
<1>1. ASSUME UNCHANGED planClauses PROVE PlanInv'
  BY <1>1 DEF PlanInv
<1>2. ASSUME NEW i \in PlanSentences, Plan!EmptyBlock(i) \/ Plan!Chip(i) \/ Plan!CtrlChip(i) \/ Plan!RightChip(i) PROVE PlanInv'
  BY <1>1, <1>2 DEF Plan!EmptyBlock, Plan!Chip, Plan!CtrlChip, Plan!RightChip, Plan!Looks
<1>3. CASE Plan!GoToNextGap \/ Plan!ForgetChosen
  BY <1>1, <1>3 DEF Plan!GoToNextGap, Plan!ForgetChosen, Plan!Looks
<1>4. CASE Plan!AnnotateChosen
  <2> DEFINE t(c) == PlanRewrites(c, TRUE, c.level, c.adopted, "human")
             f(c, v, y) == [c EXCEPT !.validated = v, !.by = y]
             e(c) == f(c, TRUE, "human")
  <2>1. planClauses' = [i \in PlanSentences |->
             IF i \in Plan!Annotated /\ planClauses[i].id \in chosen THEN e(planClauses[i]) ELSE planClauses[i]]
    BY <1>4 DEF Plan!AnnotateChosen, Plan!OnChosen
  <2>2. ASSUME NEW c, PlanClause(c) PROVE e(c) = t(c) /\ PlanClause(t(c))
    <3>1. PlanRecord(c)
      BY <2>2 DEF PlanClause
    <3>2. \A v, y : f(c, v, y) = PlanRewrites(c, v, c.level, c.adopted, y)
      BY <3>1, PlanThemes
    <3>3. PlanClause(t(c))
      BY <3>1, PlanRewritten
    <3> HIDE DEF f
    <3> QED BY <3>2, <3>3
  <2> HIDE DEF t, e
  <2> QED BY <2>1, <2>2 DEF PlanInv, Plan!Annotated
<1>5. CASE Plan!ValidateChosen
  <2> DEFINE t(c) == PlanRewrites(c, TRUE, c.level, c.adopted, c.by)
             f(c, v) == [c EXCEPT !.validated = v]
             e(c) == f(c, TRUE)
  <2>1. planClauses' = [i \in PlanSentences |->
             IF i \in Plan!Annotated /\ planClauses[i].id \in chosen THEN e(planClauses[i]) ELSE planClauses[i]]
    BY <1>5 DEF Plan!ValidateChosen, Plan!OnChosen
  <2>2. ASSUME NEW c, PlanClause(c) PROVE e(c) = t(c) /\ PlanClause(t(c))
    <3>1. PlanRecord(c) /\ (c.by = "engine" => c.level = TRUE) /\ (c.by = "judge" => c.adopted = TRUE)
      BY <2>2 DEF PlanClause, PlanTraced
    <3>2. PlanClause(t(c))
      BY <2>2, <3>1, PlanRewritten
    <3>3. \A v : f(c, v) = PlanRewrites(c, v, c.level, c.adopted, c.by)
      BY <3>1, PlanMarks
    <3> HIDE DEF f
    <3> QED BY <3>2, <3>3
  <2> HIDE DEF t, e
  <2> QED BY <2>1, <2>2 DEF PlanInv, Plan!Annotated
<1>6. CASE Plan!ClearChosen
  BY <1>6 DEF Plan!ClearChosen, Plan!OnChosen, PlanInv
<1> QED BY <1>2, <1>3, <1>4, <1>5, <1>6, PlanDecisions DEF Plan!Next

LEMMA PlanHolds == ASSUME PlanInv PROVE Plan!HumanMarkIsHuman
<1> SUFFICES ASSUME NEW i \in PlanSentences, planClauses[i] # None, Plan!Mark(planClauses[i]) = "human"
             PROVE  planClauses[i].by = "human"
  BY DEF Plan!HumanMarkIsHuman, Plan!Annotated
<1> DEFINE c == planClauses[i]
<1>1. PlanTraced(c)
  BY DEF PlanInv, PlanClause
<1>2. c.validated /\ ~c.level /\ ~(c.seeded \/ c.adopted)
  BY DEF Plan!Mark
<1> QED BY <1>1, <1>2 DEF PlanTraced
-----------------------------------------------------------------------------
(* The building of a dataset: a preview still wanted is of the criteria.   *)
DatasetsPreview(p) == p = [criteria |-> p.criteria, wanted |-> p.wanted]
DatasetsInv ==
  /\ \A p \in previews : DatasetsPreview(p) /\ (p.wanted => p.criteria = criteria)
  /\ Datasets!ReportIsOfTheCriteria

LEMMA DatasetsInitial == ASSUME Datasets!Init PROVE DatasetsInv
BY DEF Datasets!Init, DatasetsInv, Datasets!ReportIsOfTheCriteria

LEMMA DatasetsLeft ==
  ASSUME NEW p, DatasetsPreview(p), NEW v
  PROVE  [p EXCEPT !.wanted = v] = [criteria |-> p.criteria, wanted |-> v]
BY DEF DatasetsPreview

LEMMA DatasetsStep == ASSUME DatasetsInv, Datasets!Next PROVE DatasetsInv'
<1>1. ASSUME UNCHANGED <<criteria, previews, report, loading>> PROVE DatasetsInv'
  BY <1>1 DEF DatasetsInv, Datasets!ReportIsOfTheCriteria
<1>2. ASSUME NEW y, Datasets!SetCriteria(y) PROVE DatasetsInv'
  <2> DEFINE left(p, v) == [p EXCEPT !.wanted = v]
  <2>1. previews' = {left(p, FALSE) : p \in previews} /\ loading' = TRUE
    BY <1>2 DEF Datasets!SetCriteria, Datasets!Abandon
  <2>2. ASSUME NEW p \in previews PROVE DatasetsPreview(left(p, FALSE)) /\ ~left(p, FALSE).wanted
    <3>1. \A v : left(p, v) = [criteria |-> p.criteria, wanted |-> v]
      BY DatasetsLeft DEF DatasetsInv
    <3> HIDE DEF left
    <3> DEFINE new == [criteria |-> p.criteria, wanted |-> FALSE]
    <3>2. left(p, FALSE) = new
      BY <3>1
    <3>3. DatasetsPreview(new) /\ new.wanted = FALSE
      BY DEF DatasetsPreview
    <3> HIDE DEF new
    <3> QED BY <3>2, <3>3
  <2> HIDE DEF left
  <2> QED BY <2>1, <2>2 DEF DatasetsInv, Datasets!ReportIsOfTheCriteria
<1>3. CASE Datasets!AskPreview
  <2> DEFINE new == [criteria |-> criteria, wanted |-> TRUE]
  <2>1. previews' = previews \cup {new} /\ UNCHANGED <<criteria, report, loading>>
    BY <1>3 DEF Datasets!AskPreview
  <2>2. DatasetsPreview(new) /\ new.criteria = criteria
    BY DEF DatasetsPreview
  <2> HIDE DEF new
  <2> QED BY <2>1, <2>2 DEF DatasetsInv, Datasets!ReportIsOfTheCriteria
<1>4. ASSUME NEW p \in previews, NEW r, Datasets!Answer(p, r), r # None => r.criteria = p.criteria PROVE DatasetsInv'
  <2>1. /\ previews' \subseteq previews /\ criteria' = criteria
        /\ IF p.wanted THEN report' = r ELSE UNCHANGED <<report, loading>>
    BY <1>4 DEF Datasets!Answer
  <2>2. Datasets!ReportIsOfTheCriteria'
    BY <1>4, <2>1 DEF DatasetsInv, Datasets!ReportIsOfTheCriteria
  <2> QED BY <2>1, <2>2 DEF DatasetsInv
<1>5. ASSUME NEW p \in previews, Datasets!Preflight(p) \/ Datasets!PreflightFails(p) PROVE DatasetsInv'
  <2>1. [criteria |-> p.criteria, version |-> datasetVersion].criteria = p.criteria
    OBVIOUS
  <2> QED BY <1>4, <1>5, <2>1 DEF Datasets!Preflight, Datasets!PreflightFails
<1>6. ASSUME NEW y \in builds, Datasets!DryPass(y) \/ Datasets!WritePass(y) PROVE DatasetsInv'
  BY <1>1, <1>6 DEF Datasets!DryPass, Datasets!WritePass, Datasets!form
<1>7. CASE Datasets!Build \/ Datasets!Annotate
  BY <1>1, <1>7 DEF Datasets!Build, Datasets!Annotate, Datasets!form
<1> QED BY <1>2, <1>3, <1>5, <1>6, <1>7 DEF Datasets!Next
-----------------------------------------------------------------------------
(* The credentials: until one is saved while another is tested, what is    *)
(* tested is the secret stored.                                            *)
ComputeCredential(c) == c = [login |-> c.login, secret |-> c.secret, verdict |-> c.verdict]
ComputeTested ==
  /\ computeStored = None => tests = {}
  /\ computeStored # None => /\ ComputeCredential(computeStored) /\ tests \subseteq {computeStored.secret}
                             /\ computeStored.verdict \in {None, computeStored.secret}
ComputeInv == overlapped \in BOOLEAN /\ (~overlapped => ComputeTested)

LEMMA ComputeInitial == ASSUME Compute!Init PROVE ComputeInv
BY DEF Compute!Init, ComputeInv, ComputeTested

LEMMA ComputeVerdict ==
  ASSUME NEW c, ComputeCredential(c), NEW v
  PROVE  [c EXCEPT !.verdict = v] = [login |-> c.login, secret |-> c.secret, verdict |-> v]
BY DEF ComputeCredential

LEMMA ComputeStep == ASSUME ComputeInv, Compute!Next PROVE ComputeInv'
<1>1. ASSUME UNCHANGED <<computeStored, tests, overlapped>> PROVE ComputeInv'
  BY <1>1 DEF ComputeInv, ComputeTested
<1>2. ASSUME NEW y, Compute!TypeLogin(y) \/ Compute!TypeSecret(y) PROVE ComputeInv'
  BY <1>1, <1>2 DEF Compute!TypeLogin, Compute!TypeSecret, Compute!server
<1>3. CASE Compute!Refresh \/ Compute!RefreshFails \/ Compute!Save \/ Compute!SaveFails \/ Compute!Reopen
  BY <1>1, <1>3 DEF Compute!Refresh, Compute!RefreshFails, Compute!Save, Compute!SaveFails, Compute!Reopen, Compute!server
<1>4. CASE Compute!Saved
  <2>1. PICK x, y : computeStored' = [login |-> x, secret |-> y, verdict |-> None]
    BY <1>4 DEF Compute!Saved, Compute!Written
  <2>2. ComputeCredential(computeStored') /\ computeStored'.verdict = None
    BY <2>1 DEF ComputeCredential
  <2>3. (overlapped' <=> overlapped \/ tests # {}) /\ overlapped' \in BOOLEAN /\ tests' = tests
    BY <1>4 DEF Compute!Saved, ComputeInv
  <2> QED BY <2>2, <2>3 DEF ComputeInv, ComputeTested
<1>5. CASE Compute!Test
  BY <1>5 DEF Compute!Test, ComputeInv, ComputeTested
<1>6. ASSUME NEW s \in tests, Compute!Tested(s) PROVE ComputeInv'
  <2>1. computeStored' = [computeStored EXCEPT !.verdict = s] /\ tests' = tests \ {s} /\ overlapped' = overlapped
    BY <1>6 DEF Compute!Tested
  <2>2. CASE ~overlapped
    <3>1. computeStored # None /\ ComputeCredential(computeStored) /\ tests \subseteq {computeStored.secret}
      BY <2>2 DEF ComputeInv, ComputeTested
    <3>2. computeStored' = [login |-> computeStored.login, secret |-> computeStored.secret, verdict |-> s]
      BY <2>1, <3>1, ComputeVerdict
    <3>3. ComputeCredential(computeStored') /\ computeStored'.verdict = s /\ computeStored'.secret = computeStored.secret
      BY <3>2 DEF ComputeCredential
    <3>4. s = computeStored.secret /\ tests' = {}
      BY <2>1, <3>1
    <3> QED BY <2>1, <3>3, <3>4 DEF ComputeInv, ComputeTested
  <2>3. CASE overlapped
    BY <2>1, <2>3 DEF ComputeInv
  <2> QED BY <2>2, <2>3
<1>7. CASE Compute!Delete
  BY <1>7 DEF Compute!Delete, ComputeInv, ComputeTested
<1> QED BY <1>2, <1>3, <1>4, <1>5, <1>6, <1>7 DEF Compute!Next

LEMMA ComputeHolds == ASSUME ComputeInv PROVE Compute!VerdictIsOfTheSecret
BY DEF ComputeInv, ComputeTested, Compute!VerdictIsOfTheSecret
-----------------------------------------------------------------------------
(* The configuration of the gold: a field nobody touched follows.          *)
SettingsHas(c) == {"arbiters", "policy"} \subseteq DOMAIN c
SettingsInv ==
  /\ SettingsHas(stored) /\ SettingsHas(settingsDraft)
  /\ saving # None => SettingsHas(saving)
  /\ fetched # None => SettingsHas(fetched)
  /\ Settings!UntouchedFieldsFollow

LEMMA SettingsInitial == ASSUME Settings!Init PROVE SettingsInv
<1>1. settingsDraft = config /\ saving = None /\ fetched = None /\ settingsDraft = stored
  BY DEF Settings!Init
<1>2. SettingsHas(stored)
  BY DEF Settings!Init, SettingsHas
<1> QED BY <1>1, <1>2 DEF SettingsInv, Settings!UntouchedFieldsFollow

LEMMA SettingsSame ==
  ASSUME SettingsInv, UNCHANGED <<config, settingsDraft, touched>>, SettingsHas(stored'),
         saving' # None => SettingsHas(saving'), fetched' # None => SettingsHas(fetched')
  PROVE  SettingsInv'
BY DEF SettingsInv, SettingsHas, Settings!UntouchedFieldsFollow

LEMMA SettingsPatched == ASSUME SettingsInv, NEW f, NEW v, Settings!Patch(f, v) PROVE SettingsInv'
<1>1. /\ settingsDraft' = [settingsDraft EXCEPT ![f] = v] /\ touched' = touched \cup {f}
      /\ UNCHANGED <<config, stored, saving, fetched>>
  BY DEF Settings!Patch, Settings!server
<1>2. \A g \in DOMAIN settingsDraft : g # f => settingsDraft'[g] = settingsDraft[g]
  BY <1>1
<1>3. DOMAIN settingsDraft' = DOMAIN settingsDraft
  BY <1>1
<1>4. Settings!UntouchedFieldsFollow'
  BY <1>1, <1>2 DEF SettingsInv, SettingsHas, Settings!UntouchedFieldsFollow, Settings!Fields
<1> QED BY <1>1, <1>3, <1>4 DEF SettingsInv, SettingsHas

\* A configuration that differs fills the form.
LEMMA SettingsCached ==
  ASSUME SettingsInv, NEW c, Settings!Cached(c), SettingsHas(c), SettingsHas(stored'),
         saving' # None => SettingsHas(saving'), fetched' # None => SettingsHas(fetched')
  PROVE  SettingsInv'
<1>1. Settings!UntouchedFieldsFollow' /\ SettingsHas(settingsDraft')
  BY DEF Settings!Cached, SettingsInv, Settings!UntouchedFieldsFollow
<1> QED BY <1>1 DEF SettingsInv, SettingsHas

LEMMA SettingsPicked ==
  ASSUME SettingsInv,
         \/ \E q : Settings!Type(q) \/ Settings!Hover(q)
         \/ Settings!Focus \/ Settings!ArrowDown \/ Settings!ArrowUp \/ Settings!Escape \/ Settings!Blur \/ Settings!Close
  PROVE  SettingsInv'
<1>1. UNCHANGED <<config, settingsDraft, touched, stored, saving, fetched>>
  BY DEF Settings!Type, Settings!Hover, Settings!Focus, Settings!ArrowDown, Settings!ArrowUp, Settings!Escape,
         Settings!Blur, Settings!Close, Settings!Unchanged, Settings!server
<1> QED BY <1>1, SettingsSame DEF SettingsInv

LEMMA SettingsEdited ==
  ASSUME SettingsInv,
         \/ \E m : Settings!SetPolicy(m) \/ Settings!RemoveArbiter(m) \/ Settings!Pick(m)
         \/ Settings!Enter \/ Settings!Backspace
  PROVE  SettingsInv'
<1>1. \E f, v : Settings!Patch(f, v)
  BY DEF Settings!SetPolicy, Settings!RemoveArbiter, Settings!Pick, Settings!Enter, Settings!Backspace, Settings!Add
<1> QED BY <1>1, SettingsPatched

LEMMA SettingsWritten ==
  ASSUME NEW c, SettingsHas(c), NEW f, NEW v
  PROVE  SettingsHas(Settings!Written(c)) /\ SettingsHas([c EXCEPT ![f] = v])
BY DEF SettingsHas, Settings!Written

LEMMA SettingsStep == ASSUME SettingsInv, Settings!Next PROVE SettingsInv'
<1>0. SettingsHas(stored) /\ SettingsHas(settingsDraft) /\ (saving # None => SettingsHas(saving))
      /\ (fetched # None => SettingsHas(fetched))
  BY DEF SettingsInv
<1>1. ASSUME NEW f, NEW v, Settings!OtherSaves(f, v) PROVE SettingsInv'
  <2>1. stored' = Settings!Written([stored EXCEPT ![f] = v]) /\ UNCHANGED <<config, settingsDraft, touched, saving, fetched>>
    BY <1>1 DEF Settings!OtherSaves
  <2>2. SettingsHas([stored EXCEPT ![f] = v])
    BY <1>0, SettingsWritten
  <2>3. SettingsHas(stored')
    BY <2>1, <2>2, SettingsWritten
  <2> QED BY <1>0, <2>1, <2>3, SettingsSame
<1>2. CASE Settings!Save \/ Settings!SaveRefused \/ Settings!Refetch \/ Settings!Recompute
  <2>1. UNCHANGED <<config, settingsDraft, touched, stored>> /\ saving' \in {saving, settingsDraft, None} /\ fetched' \in {fetched, stored}
    BY <1>2 DEF Settings!Save, Settings!SaveRefused, Settings!Refetch, Settings!Recompute
  <2> QED BY <1>0, <2>1, SettingsSame
<1>3. CASE Settings!Saved
  <2>1. /\ saving # None /\ saving' = None /\ fetched' = fetched
        /\ stored' = Settings!Written(saving) /\ Settings!Cached(Settings!Written(saving))
    BY <1>3 DEF Settings!Saved
  <2>2. SettingsHas(Settings!Written(saving))
    BY <1>0, <2>1, SettingsWritten
  <2> QED BY <1>0, <2>1, <2>2, SettingsCached
<1>4. CASE Settings!Fetched
  <2>1. fetched # None /\ fetched' = None /\ Settings!Cached(fetched) /\ UNCHANGED <<stored, saving>>
    BY <1>4 DEF Settings!Fetched
  <2> QED BY <1>0, <2>1, SettingsCached
<1> QED BY <1>1, <1>2, <1>3, <1>4, SettingsPicked, SettingsEdited DEF Settings!Next
-----------------------------------------------------------------------------
(* The campaign: a list that is not on its way is the server's, unless the   *)
(* page was not told of a write to it.                                      *)
CampaignFollows(f, had, there) == (f.stage = "none" => had = there) /\ (f.stage = "come" => f.value[1] = there)
CampaignInv ==
  /\ DOMAIN fetch = {"members", "assignments", "project"}
  /\ shown = [members |-> shown.members, assignments |-> shown.assignments, project |-> shown.project]
  /\ "members" \notin unheard => CampaignFollows(fetch["members"], shown.members, members)
  /\ "assignments" \notin unheard => CampaignFollows(fetch["assignments"], shown.assignments, assigned)
  /\ "project" \notin unheard => CampaignFollows(fetch["project"], shown.project, project)

LEMMA CampaignInitial == ASSUME Campaign!Init PROVE CampaignInv
<1>1. shown = [members |-> members, assignments |-> assigned, project |-> project]
  BY DEF Campaign!Init, Campaign!There
<1>2. DOMAIN fetch = {"members", "assignments", "project"} /\ \A l \in {"members", "assignments", "project"} : fetch[l] = Campaign!NoFetch
  BY DEF Campaign!Init, Campaign!Lists
<1>3. Campaign!NoFetch.stage = "none"
  BY DEF Campaign!NoFetch
<1> QED BY <1>1, <1>2, <1>3 DEF CampaignInv, CampaignFollows

LEMMA CampaignQuiet == ASSUME CampaignInv, UNCHANGED <<members, assigned, project, shown, fetch, unheard>> PROVE CampaignInv'
BY DEF CampaignInv, CampaignFollows

\* A write the server takes changes one list, unheard from then on.
LEMMA CampaignWritten == ASSUME CampaignInv, NEW w, Campaign!Written(w) PROVE CampaignInv'
<1> DEFINE list == Campaign!ListOf(w.kind)
<1>1. unheard' = unheard \cup {list} /\ UNCHANGED <<fetch, shown>>
  BY DEF Campaign!Written
<1>3. \/ list = "members" /\ UNCHANGED <<assigned, project>>
      \/ list = "assignments" /\ UNCHANGED <<members, project>>
      \/ list = "project" /\ UNCHANGED <<members, assigned>>
  <2>1. CASE w.kind \in {"create", "delete", "bulk"}
    <3>1. list = "assignments"
      BY <2>1 DEF Campaign!ListOf
    <3>2. UNCHANGED <<members, project>>
      BY <2>1 DEF Campaign!Written
    <3> QED BY <3>1, <3>2
  <2>2. CASE w.kind \in {"add", "remove"}
    <3>1. list = "members"
      BY <2>2 DEF Campaign!ListOf
    <3>2. UNCHANGED <<assigned, project>>
      BY <2>2 DEF Campaign!Written
    <3> QED BY <3>1, <3>2
  <2>3. CASE w.kind \notin {"create", "delete", "bulk", "add", "remove"}
    <3>1. list = "project"
      BY <2>3 DEF Campaign!ListOf
    <3>2. UNCHANGED <<members, assigned>>
      BY <2>3 DEF Campaign!Written
    <3> QED BY <3>1, <3>2
  <2> QED BY <2>1, <2>2, <2>3
<1> HIDE DEF list
<1> QED BY <1>1, <1>3 DEF CampaignInv, CampaignFollows

\* Its answer asks the list again.
LEMMA CampaignAnswered == ASSUME CampaignInv, NEW w, Campaign!Answered(w) PROVE CampaignInv'
<1> DEFINE wanted == [Campaign!NoFetch EXCEPT !.stage = "asked"]
           list == Campaign!ListOf(w.kind)
<1>1. /\ fetch' = [fetch EXCEPT ![list] = wanted] /\ unheard' = unheard \ {list}
      /\ UNCHANGED <<members, assigned, project, shown>>
  BY DEF Campaign!Answered, Campaign!Invalidate, Campaign!server
<1>2. wanted.stage = "asked"
  BY DEF Campaign!NoFetch
<1> HIDE DEF wanted, list
<1> QED BY <1>1, <1>2 DEF CampaignInv, CampaignFollows

\* A list that fails is not heard of.
LEMMA CampaignUnfetched == ASSUME CampaignInv, NEW list, Campaign!FetchFails(list) PROVE CampaignInv'
<1>1. /\ fetch' = [fetch EXCEPT ![list] = Campaign!NoFetch] /\ unheard' = unheard \cup {list}
      /\ UNCHANGED <<members, assigned, project, shown>>
  BY DEF Campaign!FetchFails, Campaign!server
<1> HIDE DEF Campaign!NoFetch
<1> QED BY <1>1 DEF CampaignInv, CampaignFollows

LEMMA CampaignFetched ==
  ASSUME CampaignInv, NEW list \in {"members", "assignments", "project"}, Campaign!Fetch(list)
  PROVE  CampaignInv'
<1> DEFINE come == [stage |-> "come", value |-> <<Campaign!There[list]>>]
<1>1. /\ fetch' = [fetch EXCEPT ![list] = come]
      /\ UNCHANGED <<members, assigned, project, shown>>
      /\ unheard' = unheard \ {list}
  BY DEF Campaign!Fetch, Campaign!server
<1>2. come.stage = "come" /\ come.value[1] = Campaign!There[list]
  OBVIOUS
<1>3. /\ list = "members" => Campaign!There[list] = members
      /\ list = "assignments" => Campaign!There[list] = assigned
      /\ list = "project" => Campaign!There[list] = project
  BY DEF Campaign!There
<1> HIDE DEF come
<1> QED BY <1>1, <1>2, <1>3 DEF CampaignInv, CampaignFollows

LEMMA CampaignCome ==
  ASSUME CampaignInv, NEW list \in {"members", "assignments", "project"}, Campaign!Come(list)
  PROVE  CampaignInv'
<1> DEFINE got == fetch[list].value[1]
<1>1. /\ shown' = [shown EXCEPT ![list] = got] /\ fetch[list].stage = "come"
      /\ fetch' = [fetch EXCEPT ![list] = Campaign!NoFetch] /\ UNCHANGED <<members, assigned, project, unheard>>
  BY DEF Campaign!Come, Campaign!server
<1>2. Campaign!NoFetch.stage = "none"
  BY DEF Campaign!NoFetch
<1>3. DOMAIN fetch' = {"members", "assignments", "project"}
  BY <1>1 DEF CampaignInv
<1>4. /\ fetch'[list].stage = "none"
      /\ \A l \in {"members", "assignments", "project"} : l # list => fetch'[l] = fetch[l]
  BY <1>1, <1>2 DEF CampaignInv
<1>5. list \notin unheard => /\ list = "members" => got = members
                             /\ list = "assignments" => got = assigned
                             /\ list = "project" => got = project
  BY <1>1 DEF CampaignInv, CampaignFollows
<1> HIDE DEF got
<1>6. shown = [members |-> shown.members, assignments |-> shown.assignments, project |-> shown.project]
  BY DEF CampaignInv
<1>a. /\ "members" \notin unheard => CampaignFollows(fetch["members"], shown.members, members)
      /\ "assignments" \notin unheard => CampaignFollows(fetch["assignments"], shown.assignments, assigned)
      /\ "project" \notin unheard => CampaignFollows(fetch["project"], shown.project, project)
  BY DEF CampaignInv
<1>7. CASE list = "members"
  <2>1. shown' = [members |-> got, assignments |-> shown.assignments, project |-> shown.project]
    BY <1>1, <1>6, <1>7
  <2>2. shown'.members = got /\ shown'.assignments = shown.assignments /\ shown'.project = shown.project
    BY <2>1
  <2>3. shown' = [members |-> shown'.members, assignments |-> shown'.assignments, project |-> shown'.project]
    BY <2>1
  <2> QED BY <1>a, <1>1, <1>3, <1>4, <1>5, <1>7, <2>2, <2>3 DEF CampaignInv, CampaignFollows
<1>8. CASE list = "assignments"
  <2>1. shown' = [members |-> shown.members, assignments |-> got, project |-> shown.project]
    BY <1>1, <1>6, <1>8
  <2>2. shown'.members = shown.members /\ shown'.assignments = got /\ shown'.project = shown.project
    BY <2>1
  <2>3. shown' = [members |-> shown'.members, assignments |-> shown'.assignments, project |-> shown'.project]
    BY <2>1
  <2> QED BY <1>a, <1>1, <1>3, <1>4, <1>5, <1>8, <2>2, <2>3 DEF CampaignInv, CampaignFollows
<1>9. CASE list = "project"
  <2>1. shown' = [members |-> shown.members, assignments |-> shown.assignments, project |-> got]
    BY <1>1, <1>6, <1>9
  <2>2. shown'.members = shown.members /\ shown'.assignments = shown.assignments /\ shown'.project = got
    BY <2>1
  <2>3. shown' = [members |-> shown'.members, assignments |-> shown'.assignments, project |-> shown'.project]
    BY <2>1
  <2> QED BY <1>a, <1>1, <1>3, <1>4, <1>5, <1>9, <2>2, <2>3 DEF CampaignInv, CampaignFollows
<1> QED BY <1>7, <1>8, <1>9

LEMMA CampaignStep == ASSUME CampaignInv, Campaign!Next PROVE CampaignInv'
<1>1. ASSUME NEW x, NEW y, Campaign!Toggle(x, y) \/ Campaign!AddMember(x, y) \/ Campaign!Write(x, y) PROVE CampaignInv'
  BY <1>1, CampaignQuiet DEF Campaign!Toggle, Campaign!AddMember, Campaign!Write, Campaign!server
<1>2. ASSUME NEW x, Campaign!RemoveMember(x) \/ Campaign!AssignOverlap(x) \/ Campaign!ToggleProject(x) PROVE CampaignInv'
  BY <1>1, <1>2 DEF Campaign!RemoveMember, Campaign!AssignOverlap, Campaign!ToggleProject
<1>3. ASSUME NEW x, Campaign!WriteFails(x) \/ Campaign!Annotate(x) PROVE CampaignInv'
  BY <1>3, CampaignQuiet DEF Campaign!WriteFails, Campaign!Annotate, Campaign!server, Campaign!page
<1> QED BY <1>1, <1>2, <1>3, CampaignWritten, CampaignAnswered, CampaignFetched, CampaignUnfetched,
   CampaignCome DEF Campaign!Next, Campaign!Lists

LEMMA CampaignHolds == ASSUME CampaignInv PROVE Campaign!PageSettles
BY DEF CampaignInv, CampaignFollows, Campaign!PageSettles, Campaign!Lists, Campaign!There
-----------------------------------------------------------------------------
(* The previews of a reader: each is of what the mouse is on, or about to  *)
(* go; a timer that is to open one is of what the mouse is on too.         *)
AidsPlace == pointer = Aids!Place(pointer.on, pointer.at) /\ orphan \in BOOLEAN
AidsHover ==
  /\ \A i \in hover : Aids!OnRow(pointer, i) \/ hoverTimer # Aids!NoTimer
  /\ hoverTimer.goes = "open" => Aids!OnRow(pointer, hoverTimer.at)
AidsLens ==
  /\ \A i \in lens : orphan \/ pointer.on = "card" \/ pointer = Aids!Place("mark", i) \/ lensTimer # Aids!NoTimer
  /\ lensTimer.goes = "open" => orphan \/ pointer = Aids!Place("mark", lensTimer.at)

AidsInv == AidsPlace /\ AidsHover /\ AidsLens

LEMMA AidsForms ==
  /\ \A x, i : Aids!Place(x, i).on = x /\ Aids!Place(x, i).at = i
  /\ Aids!NoTimer.goes = "none" /\ Aids!Closes.goes = "close"
  /\ \A i : Aids!Opens(i).goes = "open" /\ Aids!Opens(i).at = i
  /\ Aids!Away = Aids!Place("away", 0)
BY DEF Aids!Place, Aids!NoTimer, Aids!Closes, Aids!Opens, Aids!Away

LEMMA AidsInitial == ASSUME Aids!Init PROVE AidsInv
<1>1. pointer = Aids!Place("away", 0) /\ orphan = FALSE
  BY AidsForms DEF Aids!Init
<1>2. AidsPlace
  BY <1>1, AidsForms DEF AidsPlace
<1>3. hover = {} /\ lens = {} /\ hoverTimer.goes = "none" /\ lensTimer.goes = "none"
  BY AidsForms DEF Aids!Init
<1> QED BY <1>2, <1>3 DEF AidsInv, AidsHover, AidsLens

LEMMA AidsQuiet ==
  ASSUME AidsInv, UNCHANGED <<pointer, hover, hoverTimer, lens, lensTimer, orphan>>
  PROVE  AidsInv'
BY DEF AidsInv, AidsPlace, AidsHover, AidsLens

\* A preview, or a timer that opens one, is left where the mouse still is, or with a timer that closes it.
LEMMA AidsPointed == ASSUME AidsInv, NEW q \in Aids!Places, Aids!PointTo(q) PROVE AidsInv'
<1>1. q = Aids!Place(q.on, q.at)
  BY AidsForms DEF Aids!Places
<1>2. /\ pointer' = q /\ UNCHANGED <<hover, lens>>
      /\ hoverTimer' = Aids!HoverTimer(pointer, q) /\ lensTimer' = Aids!LensTimer(pointer, q)
      /\ orphan' = (orphan /\ q.on \notin {"mark", "card"})
  BY DEF Aids!PointTo
<1>3. AidsPlace'
  BY <1>1, <1>2 DEF AidsPlace
<1>4. AidsHover'
  <2>1. CASE hoverTimer' = Aids!Closes
    BY <1>2, <2>1, AidsForms DEF AidsHover
  <2>2. CASE hoverTimer' = Aids!Opens(q.at) /\ Aids!EntersRow(pointer, q)
    <3>1. hoverTimer'.goes = "open" /\ hoverTimer'.at = q.at /\ hoverTimer' # Aids!NoTimer
      BY <2>2, AidsForms
    <3>2. Aids!OnRow(q, q.at)
      BY <2>2 DEF Aids!EntersRow, Aids!OnRow
    <3> QED BY <1>2, <3>1, <3>2 DEF AidsHover
  <2>3. CASE hoverTimer' = hoverTimer /\ ~Aids!LeavesRow(pointer, q)
    <3>1. \A i : Aids!OnRow(pointer, i) => Aids!OnRow(q, i)
      BY <2>3 DEF Aids!LeavesRow, Aids!OnRow
    <3> QED BY <1>2, <2>3, <3>1 DEF AidsInv, AidsHover
  <2> QED BY <1>2, <2>1, <2>2, <2>3 DEF Aids!HoverTimer
<1>5. AidsLens'
  <2>1. CASE lensTimer' = Aids!Closes
    BY <1>2, <2>1, AidsForms DEF AidsLens
  <2>2. CASE lensTimer' = Aids!Opens(q.at) /\ q.on = "mark"
    <3>1. lensTimer'.goes = "open" /\ lensTimer'.at = q.at /\ lensTimer' # Aids!NoTimer
      BY <2>2, AidsForms
    <3> QED BY <1>1, <1>2, <2>2, <3>1 DEF AidsLens
  <2>3. CASE lensTimer' = Aids!NoTimer /\ q.on = "card"
    BY <1>2, <2>3, AidsForms DEF AidsLens
  <2>4. CASE lensTimer' = lensTimer /\ q.on \notin {"mark", "card"} /\ pointer.on \notin {"mark", "card"}
    <3>1. \A i : pointer # Aids!Place("mark", i)
      BY <2>4, AidsForms
    <3>2. orphan => orphan'
      BY <1>2, <2>4
    <3> QED BY <1>2, <2>4, <3>1, <3>2 DEF AidsInv, AidsLens
  <2> QED BY <1>2, <2>1, <2>2, <2>3, <2>4 DEF Aids!LensTimer
<1> QED BY <1>3, <1>4, <1>5 DEF AidsInv

\* What a step that may take the card away leaves of the mouse.
LEMMA AidsCarded ==
  ASSUME AidsInv, Aids!Carded, orphan' \in BOOLEAN
  PROVE  /\ AidsPlace'
         /\ \A i : Aids!OnRow(pointer, i) => Aids!OnRow(pointer', i)
         /\ \A i : pointer = Aids!Place("mark", i) => pointer' = Aids!Place("mark", i)
         /\ Aids!CardGoes \/ pointer' = pointer
<1>1. CASE pointer' = pointer
  BY <1>1 DEF AidsInv, AidsPlace
<1>2. CASE Aids!CardGoes /\ pointer' = Aids!Away
  <2>1. pointer.on = "card"
    BY <1>2 DEF Aids!CardGoes
  <2>2. \A i : ~Aids!OnRow(pointer, i) /\ pointer # Aids!Place("mark", i)
    BY <2>1, AidsForms DEF Aids!OnRow
  <2>3. AidsPlace'
    BY <1>2, AidsForms DEF AidsPlace
  <2> QED BY <1>2, <2>2, <2>3
<1> QED BY <1>1, <1>2 DEF Aids!Carded

LEMMA AidsTimers ==
  ASSUME AidsInv, Aids!HoverFires \/ Aids!LensFires
  PROVE  AidsInv'
<1>1. CASE Aids!HoverFires
  <2>1. /\ hover' = Aids!Fired(hoverTimer, hover) /\ hoverTimer' = Aids!NoTimer
        /\ UNCHANGED <<pointer, lens, lensTimer, orphan>>
    BY <1>1 DEF Aids!HoverFires
  <2>2. \A i \in hover' : Aids!OnRow(pointer, i)
    BY <2>1 DEF Aids!Fired, AidsInv, AidsHover
  <2>3. AidsHover'
    BY <2>1, <2>2, AidsForms DEF AidsHover
  <2> QED BY <2>1, <2>3 DEF AidsInv, AidsPlace, AidsLens
<1>2. CASE Aids!LensFires
  <2>1. /\ lens' = Aids!Fired(lensTimer, lens) /\ lensTimer' = Aids!NoTimer /\ Aids!Carded
        /\ orphan' = (orphan /\ lens' # {}) /\ UNCHANGED <<hover, hoverTimer>>
    BY <1>2 DEF Aids!LensFires
  <2>2. orphan' \in BOOLEAN
    BY <2>1 DEF AidsInv, AidsPlace
  <2>3. \A i \in lens' : orphan \/ pointer = Aids!Place("mark", i)
    BY <2>1 DEF Aids!Fired, AidsInv, AidsLens
  <2>4. \A i \in lens' : orphan' \/ pointer' = Aids!Place("mark", i)
    BY <2>1, <2>2, <2>3, AidsCarded
  <2>5. AidsLens'
    BY <2>1, <2>4, AidsForms DEF AidsLens
  <2>6. AidsHover'
    BY <2>1, <2>2, AidsCarded DEF AidsInv, AidsHover
  <2> QED BY <2>1, <2>2, <2>5, <2>6, AidsCarded DEF AidsInv
<1> QED BY <1>1, <1>2

LEMMA AidsCards == ASSUME AidsInv, Aids!Cards PROVE AidsInv'
<1>1. ASSUME NEW i, Aids!Pin(i) PROVE AidsInv'
  <2>1. /\ lens' = {} /\ lensTimer' = Aids!NoTimer /\ Aids!Carded /\ orphan' = FALSE /\ UNCHANGED <<hover, hoverTimer>>
    BY <1>1 DEF Aids!Pin
  <2>2. AidsLens'
    BY <2>1, AidsForms DEF AidsLens
  <2>3. AidsHover'
    BY <2>1, AidsCarded DEF AidsInv, AidsHover
  <2> QED BY <2>1, <2>2, <2>3, AidsCarded DEF AidsInv
<1>2. CASE Aids!Unpin
  BY <1>2, AidsQuiet DEF Aids!Unpin
<1>3. ASSUME NEW kind, Aids!Popup(kind) PROVE AidsInv'
  <2>1. /\ Aids!Carded /\ orphan' = (orphan \/ (Aids!CardGoes /\ lens # {}))
        /\ UNCHANGED <<hover, hoverTimer, lens, lensTimer>>
    BY <1>3 DEF Aids!Popup
  <2>2. orphan' \in BOOLEAN
    BY <2>1 DEF AidsInv, AidsPlace
  <2>3. AidsHover'
    BY <2>1, <2>2, AidsCarded DEF AidsInv, AidsHover
  <2>4. AidsLens'
    BY <2>1, <2>2, AidsCarded DEF AidsInv, AidsLens
  <2> QED BY <2>1, <2>2, <2>3, <2>4, AidsCarded DEF AidsInv
<1>4. CASE Aids!ToggleMarks
  <2>1. /\ orphan' = (orphan \/ pointer.on = "mark") /\ UNCHANGED <<hover, hoverTimer, lens, lensTimer>>
        /\ pointer' = IF pointer.on = "mark" THEN Aids!Place("row", pointer.at) ELSE pointer
    BY <1>4 DEF Aids!ToggleMarks
  <2>2. \A i : Aids!OnRow(pointer, i) => Aids!OnRow(pointer', i)
    BY <2>1, AidsForms DEF Aids!OnRow
  <2>3. AidsHover'
    BY <2>1, <2>2 DEF AidsInv, AidsHover
  <2>4. \A i : pointer = Aids!Place("mark", i) => orphan'
    BY <2>1, AidsForms
  <2>5. AidsLens'
    BY <2>1, <2>4 DEF AidsInv, AidsLens
  <2>6. AidsPlace'
    BY <2>1, AidsForms DEF AidsInv, AidsPlace
  <2> QED BY <2>3, <2>5, <2>6 DEF AidsInv
<1> QED BY <1>1, <1>2, <1>3, <1>4 DEF Aids!Cards

LEMMA AidsStep == ASSUME AidsInv, Aids!Next PROVE AidsInv'
<1>1. CASE Aids!Mouse
  BY <1>1, AidsPointed, AidsTimers DEF Aids!Mouse
<1>2. CASE Aids!Comparing
  <2>1. UNCHANGED <<pointer, hover, hoverTimer, lens, lensTimer, orphan>>
    BY <1>2 DEF Aids!Comparing, Aids!Arrive, Aids!ToggleComparePanel, Aids!NextDivergence, Aids!PrevDivergence,
       Aids!Jump, Aids!SetLlmVersion, Aids!SetLlmSource, Aids!ToggleGutterModel, Aids!GoTo, Aids!aids
  <2> QED BY <2>1, AidsQuiet
<1>3. CASE Aids!Speaking
  <2>1. UNCHANGED <<pointer, hover, hoverTimer, lens, lensTimer, orphan>>
    BY <1>3 DEF Aids!Speaking, Aids!SetDisplayLang, Aids!SetTranslated, Aids!HideTranslation, Aids!aids
  <2> QED BY <2>1, AidsQuiet
<1> QED BY <1>1, <1>2, <1>3, AidsCards DEF Aids!Next

LEMMA AidsHolds == ASSUME AidsInv PROVE Aids!PreviewsExpire
BY DEF AidsInv, AidsHover, AidsLens, Aids!PreviewsExpire
-----------------------------------------------------------------------------
(* The walks.  What a search along the sentences computes is a recursive   *)
(* function: the function that is what the search should give satisfies    *)
(* its equation, and no other does, for the first place where two          *)
(* solutions differ would be one where they agree.                         *)
LEMMA LeastNatural == ASSUME NEW T \in SUBSET Nat, T # {} PROVE \E q \in T : \A p \in T : q <= p
<1>1. PICK q \in T : \A p \in T : ~ (<<p, q>> \in OpToRel(<, Nat))
  BY NatLessThanWellFounded, WFMin
<1>2. ASSUME NEW p \in T PROVE q <= p
  <2>1. p \in Nat /\ q \in Nat
    OBVIOUS
  <2>2. ~ (p < q)
    BY <1>1, <2>1 DEF OpToRel
  <2> QED BY <2>1, <2>2
<1> QED BY <1>2

LEMMA GreatestNatural ==
  ASSUME NEW T \in SUBSET Nat, T # {}, NEW n \in Nat, \A p \in T : p <= n
  PROVE  \E q \in T : \A p \in T : p <= q
<1> DEFINE U == {k \in Nat : n - k \in T}
<1>1. U # {}
  <2>1. PICK p \in T : TRUE
    OBVIOUS
  <2>2. n - p \in Nat /\ n - (n - p) = p
    BY <2>1
  <2> QED BY <2>1, <2>2
<1>2. PICK k \in U : \A j \in U : k <= j
  <2> HIDE DEF U
  <2>1. U \in SUBSET Nat
    BY DEF U
  <2> QED BY <1>1, <2>1, LeastNatural
<1>3. ASSUME NEW p \in T PROVE p <= n - k
  <2>1. n - p \in Nat /\ n - (n - p) = p
    OBVIOUS
  <2>2. n - p \in U
    BY <2>1
  <2> QED BY <1>2, <2>2
<1> QED BY <1>2, <1>3

LEMMA FiniteBounded ==
  ASSUME NEW S \in SUBSET Nat, IsFiniteSet(S)
  PROVE  \E m \in Nat : \A p \in S : p <= m
<1> DEFINE Below(k) == {p \in S : p < k}
           Has == {c \in Nat : \E m \in Nat : Cardinality(S) - Cardinality(Below(m)) = c}
<1>1. \A m \in Nat : IsFiniteSet(Below(m)) /\ Cardinality(Below(m)) \in Nat /\ Cardinality(Below(m)) <= Cardinality(S)
                       /\ (Cardinality(Below(m)) = Cardinality(S) => Below(m) = S)
  <2> SUFFICES ASSUME NEW m \in Nat
               PROVE  IsFiniteSet(Below(m)) /\ Cardinality(Below(m)) \in Nat /\ Cardinality(Below(m)) <= Cardinality(S)
                      /\ (Cardinality(Below(m)) = Cardinality(S) => Below(m) = S)
    OBVIOUS
  <2>1. Below(m) \in SUBSET S
    OBVIOUS
  <2> HIDE DEF Below
  <2> QED BY <2>1, FS_Subset, FS_CardinalityType
<1>2. Cardinality(S) \in Nat
  BY FS_CardinalityType
<1>3. Has # {}
  <2>1. Cardinality(S) - Cardinality(Below(0)) \in Nat
    BY <1>1, <1>2
  <2> QED BY <2>1
<1>4. PICK c \in Has : \A d \in Has : c <= d
  <2> HIDE DEF Has
  <2>1. Has \in SUBSET Nat
    BY DEF Has
  <2> QED BY <1>3, <2>1, LeastNatural
<1>5. PICK m \in Nat : Cardinality(S) - Cardinality(Below(m)) = c
  BY <1>4
<1>6. ASSUME NEW p \in S, p > m PROVE FALSE
  <2>0. p \in Nat /\ p + 1 \in Nat /\ \A x \in S : x \in Nat
    OBVIOUS
  <2>5. Below(m) \in SUBSET Below(p + 1)
    <3>1. \A x \in S : x < m => x < p + 1
      BY <1>6, <2>0
    <3> QED BY <3>1
  <2>6. p \in Below(p + 1) /\ p \notin Below(m)
    BY <1>6, <2>0
  <2>1. Below(m) \in SUBSET Below(p + 1) /\ p \in Below(p + 1) /\ p \notin Below(m) /\ p + 1 \in Nat
    BY <2>0, <2>5, <2>6
  <2>2. IsFiniteSet(Below(p + 1)) /\ Cardinality(Below(p + 1)) \in Nat /\ Cardinality(Below(p + 1)) <= Cardinality(S)
    BY <1>1, <2>1
  <2>3. Cardinality(Below(m)) <= Cardinality(Below(p + 1)) /\ Cardinality(Below(m)) # Cardinality(Below(p + 1))
    <3> HIDE DEF Below
    <3> QED BY <2>1, <2>2, FS_Subset
  <2>7. Cardinality(Below(m)) \in Nat
    BY <1>1
  <2>4. Cardinality(S) - Cardinality(Below(p + 1)) \in Nat /\ Cardinality(S) - Cardinality(Below(p + 1)) < c
    <3> HIDE DEF Below
    <3> QED BY <2>7, <1>2, <1>5, <2>2, <2>3
  <2>8. Cardinality(S) - Cardinality(Below(p + 1)) \in Has
    BY <2>1, <2>4
  <2>9. c \in Nat
    BY <1>4
  <2>10. c <= Cardinality(S) - Cardinality(Below(p + 1))
    <3> HIDE DEF Has, Below
    <3> QED BY <1>4, <2>8
  <2> HIDE DEF Below
  <2> QED BY <1>2, <2>2, <2>4, <2>9, <2>10
<1> QED BY <1>6

\* A search that goes up, or down, the sentences 0 .. n, and returns the first it wants.
Ascends(n, W, w) ==
  w = [i \in -1 .. n + 1 |-> IF i \notin 0 .. n THEN None ELSE IF i \in W THEN i ELSE w[i + 1]]
Descends(n, W, w) ==
  w = [i \in -1 .. n + 1 |-> IF i \notin 0 .. n THEN None ELSE IF i \in W THEN i ELSE w[i + -1]]
FirstFrom(S) == IF S = {} THEN None ELSE CHOOSE x \in S : \A y \in S : x <= y
LastFrom(S) == IF S = {} THEN None ELSE CHOOSE x \in S : \A y \in S : x >= y

LEMMA AscendsOnce ==
  ASSUME NEW n \in Nat, NEW W \in SUBSET (0 .. n), NEW v, NEW w, Ascends(n, W, v), Ascends(n, W, w)
  PROVE  v = w
<1> DEFINE Bad == {k \in Nat : k <= n + 2 /\ v[n + 1 - k] # w[n + 1 - k]}
<1>1. ASSUME Bad # {} PROVE FALSE
  <2>1. Bad \in SUBSET Nat
    OBVIOUS
  <2>2. PICK k \in Bad : \A j \in Bad : k <= j
    <3> HIDE DEF Bad
    <3> QED BY <1>1, <2>1, LeastNatural
  <2>3. n + 1 - k \in -1 .. n + 1
    BY <2>2
  <2>4. n + 1 - k \in 0 .. n /\ n + 1 - k \notin W
    BY <2>2, <2>3 DEF Ascends
  <2>5. k - 1 \in Nat /\ k - 1 <= n + 2 /\ (n + 1 - k) + 1 = n + 1 - (k - 1) /\ k - 1 < k
    BY <2>2, <2>4
  <2>6. v[(n + 1 - k) + 1] = w[(n + 1 - k) + 1]
    BY <2>2, <2>5
  <2>7. v[n + 1 - k] = v[(n + 1 - k) + 1]
    BY <2>3, <2>4 DEF Ascends
  <2>8. w[n + 1 - k] = w[(n + 1 - k) + 1]
    BY <2>3, <2>4 DEF Ascends
  <2> QED BY <2>2, <2>6, <2>7, <2>8
<1>2. ASSUME NEW i \in -1 .. n + 1 PROVE v[i] = w[i]
  <2>1. n + 1 - i \in Nat /\ n + 1 - i <= n + 2 /\ n + 1 - (n + 1 - i) = i
    OBVIOUS
  <2> QED BY <1>1, <2>1
<1>3. DOMAIN v = -1 .. n + 1 /\ DOMAIN w = -1 .. n + 1 /\ v = [i \in DOMAIN v |-> v[i]] /\ w = [i \in DOMAIN w |-> w[i]]
  BY DEF Ascends
<1> QED BY <1>2, <1>3

LEMMA AscendsFirst ==
  ASSUME NEW n \in Nat, NEW W \in SUBSET (0 .. n)
  PROVE  Ascends(n, W, [i \in -1 .. n + 1 |-> IF i \notin 0 .. n THEN None ELSE FirstFrom({j \in W : j >= i})])
<1> DEFINE w == [i \in -1 .. n + 1 |-> IF i \notin 0 .. n THEN None ELSE FirstFrom({j \in W : j >= i})]
<1>1. ASSUME NEW i \in 0 .. n, i \in W PROVE FirstFrom({j \in W : j >= i}) = i
  <2>1. i \in {j \in W : j >= i} /\ \A y \in {j \in W : j >= i} : i <= y
    BY <1>1
  <2>2. \A x \in {j \in W : j >= i} : (\A y \in {j \in W : j >= i} : x <= y) => x = i
    BY <1>1
  <2> QED BY <2>1, <2>2 DEF FirstFrom
<1>2. ASSUME NEW i \in 0 .. n, i \notin W PROVE FirstFrom({j \in W : j >= i}) = w[i + 1]
  <2>0. \A j \in W : j \in 0 .. n
    OBVIOUS
  <2>1. \A j \in W : j >= i <=> j >= i + 1
    BY <1>2, <2>0
  <2>4. {j \in W : j >= i} = {j \in W : j >= i + 1}
    BY <2>1, Zenon
  <2>5. i + 1 \in -1 .. n + 1
    OBVIOUS
  <2>2. CASE i + 1 \in 0 .. n
    BY <2>4, <2>5, <2>2
  <2>3. CASE i + 1 \notin 0 .. n
    <3>1. i = n
      BY <2>3
    <3>2. \A j \in W : ~ (j >= i + 1)
      BY <2>0, <3>1
    <3>3. {j \in W : j >= i + 1} = {}
      BY <3>2, Zenon
    <3> QED BY <2>4, <2>3, <2>5, <3>3 DEF FirstFrom
  <2> QED BY <2>2, <2>3
<1>3. \A i \in -1 .. n + 1 : w[i] = IF i \notin 0 .. n THEN None ELSE IF i \in W THEN i ELSE w[i + 1]
  BY <1>1, <1>2
<1> HIDE DEF w
<1>4. DOMAIN w = -1 .. n + 1 /\ w = [i \in DOMAIN w |-> w[i]]
  BY DEF w
<1>5. Ascends(n, W, w)
  BY <1>3, <1>4 DEF Ascends
<1> QED BY <1>5 DEF w

LEMMA DescendsOnce ==
  ASSUME NEW n \in Nat, NEW W \in SUBSET (0 .. n), NEW v, NEW w, Descends(n, W, v), Descends(n, W, w)
  PROVE  v = w
<1> DEFINE Bad == {k \in Nat : k <= n + 2 /\ v[k - 1] # w[k - 1]}
<1>1. ASSUME Bad # {} PROVE FALSE
  <2>1. Bad \in SUBSET Nat
    OBVIOUS
  <2>2. PICK k \in Bad : \A j \in Bad : k <= j
    <3> HIDE DEF Bad
    <3> QED BY <1>1, <2>1, LeastNatural
  <2>3. k - 1 \in -1 .. n + 1
    BY <2>2
  <2>4. k - 1 \in 0 .. n /\ k - 1 \notin W
    BY <2>2, <2>3 DEF Descends
  <2>5. k - 1 \in Nat /\ k - 1 <= n + 2 /\ (k - 1) + -1 = (k - 1) - 1 /\ k - 1 < k
    BY <2>2, <2>4
  <2>6. v[(k - 1) + -1] = w[(k - 1) + -1]
    BY <2>2, <2>5
  <2>7. v[k - 1] = v[(k - 1) + -1]
    BY <2>3, <2>4 DEF Descends
  <2>8. w[k - 1] = w[(k - 1) + -1]
    BY <2>3, <2>4 DEF Descends
  <2> QED BY <2>2, <2>6, <2>7, <2>8
<1>2. ASSUME NEW i \in -1 .. n + 1 PROVE v[i] = w[i]
  <2>1. i + 1 \in Nat /\ i + 1 <= n + 2 /\ (i + 1) - 1 = i
    OBVIOUS
  <2> QED BY <1>1, <2>1
<1>3. DOMAIN v = -1 .. n + 1 /\ DOMAIN w = -1 .. n + 1 /\ v = [i \in DOMAIN v |-> v[i]] /\ w = [i \in DOMAIN w |-> w[i]]
  BY DEF Descends
<1> QED BY <1>2, <1>3

LEMMA DescendsLast ==
  ASSUME NEW n \in Nat, NEW W \in SUBSET (0 .. n)
  PROVE  Descends(n, W, [i \in -1 .. n + 1 |-> IF i \notin 0 .. n THEN None ELSE LastFrom({j \in W : j <= i})])
<1> DEFINE w == [i \in -1 .. n + 1 |-> IF i \notin 0 .. n THEN None ELSE LastFrom({j \in W : j <= i})]
<1>1. ASSUME NEW i \in 0 .. n, i \in W PROVE LastFrom({j \in W : j <= i}) = i
  <2>1. i \in {j \in W : j <= i} /\ \A y \in {j \in W : j <= i} : i >= y
    BY <1>1
  <2>2. \A x \in {j \in W : j <= i} : (\A y \in {j \in W : j <= i} : x >= y) => x = i
    BY <1>1
  <2> QED BY <2>1, <2>2 DEF LastFrom
<1>2. ASSUME NEW i \in 0 .. n, i \notin W PROVE LastFrom({j \in W : j <= i}) = w[i + -1]
  <2>0. \A j \in W : j \in 0 .. n
    OBVIOUS
  <2>1. \A j \in W : j <= i <=> j <= i + -1
    BY <1>2, <2>0
  <2>4. {j \in W : j <= i} = {j \in W : j <= i + -1}
    BY <2>1, Zenon
  <2>5. i + -1 \in -1 .. n + 1
    OBVIOUS
  <2>2. CASE i + -1 \in 0 .. n
    BY <2>4, <2>5, <2>2
  <2>3. CASE i + -1 \notin 0 .. n
    <3>1. i = 0
      BY <2>3
    <3>2. \A j \in W : ~ (j <= i + -1)
      BY <2>0, <3>1
    <3>3. {j \in W : j <= i + -1} = {}
      BY <3>2, Zenon
    <3> QED BY <2>4, <2>3, <2>5, <3>3 DEF LastFrom
  <2> QED BY <2>2, <2>3
<1>3. \A i \in -1 .. n + 1 : w[i] = IF i \notin 0 .. n THEN None ELSE IF i \in W THEN i ELSE w[i + -1]
  BY <1>1, <1>2
<1> HIDE DEF w
<1>4. DOMAIN w = -1 .. n + 1 /\ w = [i \in DOMAIN w |-> w[i]]
  BY DEF w
<1>5. Descends(n, W, w)
  BY <1>3, <1>4 DEF Descends
<1> QED BY <1>5 DEF w
LEMMA DeskSearches ==
  ASSUME DeskRows \in SUBSET Nat, IsFiniteSet(DeskRows), DeskRows # {}, NEW W \in SUBSET DeskRows, NEW i \in DeskRows
  PROVE  /\ Desk!FindIndex(i, 1, W) = FirstFrom({j \in W : j >= i + 1})
         /\ Desk!FindIndex(i, -1, W) = LastFrom({j \in W : j <= i + -1})
<1> DEFINE n == Desk!Top
<1>1. n \in DeskRows /\ \A y \in DeskRows : y <= n
  <2>1. PICK x \in DeskRows : \A y \in DeskRows : y <= x
    <3>1. \E m \in Nat : \A p \in DeskRows : p <= m
      BY FiniteBounded
    <3> QED BY <3>1, GreatestNatural
  <2>2. \A y \in DeskRows : x >= y
    BY <2>1
  <2>3. Desk!Top = CHOOSE z \in DeskRows : \A y \in DeskRows : z >= y
    BY DEF Desk!Top, Desk!Max
  <2>4. n \in DeskRows /\ \A y \in DeskRows : n >= y
    BY <2>2, <2>3
  <2> QED BY <2>4
<1> HIDE DEF n
<1>2. n \in Nat /\ W \in SUBSET (0 .. n) /\ i \in 0 .. n
  BY <1>1
<1>3. Desk!FindIndex(i, 1, W) = FirstFrom({j \in W : j >= i + 1})
  <2> DEFINE w == [k \in -1 .. n + 1 |-> IF k \notin 0 .. n THEN None ELSE FirstFrom({j \in W : j >= k})]
  <2> DEFINE f == CHOOSE g : Ascends(n, W, g)
  <2>1. Ascends(n, W, w)
    BY <1>2, AscendsFirst
  <2> HIDE DEF w
  <2>2. Ascends(n, W, f)
    BY <2>1
  <2>3. f = w
    <3> HIDE DEF f
    <3> QED BY <1>2, <2>1, <2>2, AscendsOnce
  <2>4. Desk!FindIndex(i, 1, W) = f[i + 1]
    BY DEF Desk!FindIndex, Ascends, n
  <2> HIDE DEF f
  <2>5. i + 1 \in -1 .. n + 1
    BY <1>2
  <2>6. CASE i + 1 \in 0 .. n
    BY <2>3, <2>4, <2>5, <2>6 DEF w
  <2>7. CASE i + 1 \notin 0 .. n
    <3>1. \A j \in W : ~ (j >= i + 1)
      BY <1>2, <2>7
    <3>2. {j \in W : j >= i + 1} = {}
      BY <3>1, Zenon
    <3> QED BY <2>3, <2>4, <2>5, <2>7, <3>2 DEF w, FirstFrom
  <2> QED BY <2>6, <2>7
<1>4. Desk!FindIndex(i, -1, W) = LastFrom({j \in W : j <= i + -1})
  <2> DEFINE w == [k \in -1 .. n + 1 |-> IF k \notin 0 .. n THEN None ELSE LastFrom({j \in W : j <= k})]
  <2> DEFINE f == CHOOSE g : Descends(n, W, g)
  <2>1. Descends(n, W, w)
    BY <1>2, DescendsLast
  <2> HIDE DEF w
  <2>2. Descends(n, W, f)
    BY <2>1
  <2>3. f = w
    <3> HIDE DEF f
    <3> QED BY <1>2, <2>1, <2>2, DescendsOnce
  <2>4. Desk!FindIndex(i, -1, W) = f[i + -1]
    BY DEF Desk!FindIndex, Descends, n
  <2> HIDE DEF f
  <2>5. i + -1 \in -1 .. n + 1
    BY <1>2
  <2>6. CASE i + -1 \in 0 .. n
    BY <2>3, <2>4, <2>5, <2>6 DEF w
  <2>7. CASE i + -1 \notin 0 .. n
    <3>1. \A j \in W : ~ (j <= i + -1)
      BY <1>2, <2>7
    <3>2. {j \in W : j <= i + -1} = {}
      BY <3>1, Zenon
    <3> QED BY <2>3, <2>4, <2>5, <2>7, <3>2 DEF w, LastFrom
  <2> QED BY <2>6, <2>7
<1> QED BY <1>3, <1>4

\* The keys leave no undecided row behind, and p comes back where n left.
LEMMA DeskWalks ==
  ASSUME DeskRows \in SUBSET Nat, IsFiniteSet(DeskRows), DeskRows # {}, None \notin DeskRows
  PROVE  Desk!KeysWalkTheQueue
<1> SUFFICES ASSUME NEW i \in DeskRows
             PROVE  LET next == Desk!NextTodo(rows, i)
                        after == {j \in Desk!Todo(rows) : j > i}
                    IN /\ (next = None) = (after = {})
                       /\ next # None => next = Desk!Min(after) /\ (~Desk!Decided(rows[i]) => Desk!PrevTodo(rows, next) = i)
  BY DEF Desk!KeysWalkTheQueue
<1> DEFINE W == Desk!Todo(rows)
           next == Desk!NextTodo(rows, i)
           after == {j \in W : j > i}
<1>1. W \in SUBSET DeskRows /\ (i \in W <=> ~Desk!Decided(rows[i]))
  BY DEF Desk!Todo
<1>0. \A j \in W : j \in Nat
  BY <1>1
<1>2. next = FirstFrom(after)
  <2>1. next = FirstFrom({j \in W : j >= i + 1})
    BY <1>1, DeskSearches DEF Desk!NextTodo
  <2>2. \A j \in W : j > i <=> j >= i + 1
    BY <1>0
  <2>3. {j \in W : j > i} = {j \in W : j >= i + 1}
    BY <2>2, Zenon
  <2> QED BY <2>1, <2>3
<1>3. after \in SUBSET DeskRows
  BY <1>1
<1>4. ASSUME after # {} PROVE next \in after /\ \A y \in after : next <= y
  <2>1. \E x \in after : \A y \in after : x <= y
    BY <1>3, <1>4, LeastNatural
  <2> HIDE DEF after, next
  <2> QED BY <1>2, <1>4, <2>1 DEF FirstFrom
<1>5. (next = None) = (after = {})
  <2>1. after = {} => next = None
    BY <1>2 DEF FirstFrom
  <2>2. after # {} => next # None
    BY <1>3, <1>4
  <2> QED BY <2>1, <2>2
<1>6. ASSUME next # None PROVE next = Desk!Min(after)
  <2> HIDE DEF after, next
  <2> QED BY <1>2, <1>6 DEF FirstFrom, Desk!Min
<1>7. ASSUME next # None, i \in W PROVE Desk!PrevTodo(rows, next) = i
  <2>1. next \in W /\ next > i /\ \A y \in after : next <= y
    BY <1>4, <1>5, <1>7
  <2> HIDE DEF next
  <2>2. Desk!PrevTodo(rows, next) = LastFrom({j \in W : j <= next + -1})
    BY <1>1, <2>1, DeskSearches DEF Desk!PrevTodo
  <2> DEFINE before == {j \in W : j <= next + -1}
  <2>3. i \in before
    BY <1>1, <1>7, <2>1
  <2>4. \A y \in before : i >= y
    <3>1. \A y \in W : y <= next + -1 /\ y > i => FALSE
      <4>1. \A y \in W : y > i => next <= y
        BY <2>1
      <4>2. next \in Nat
        BY <1>0, <2>1
      <4> QED BY <1>0, <4>1, <4>2
    <3> QED BY <1>0, <3>1
  <2>5. \A x \in before : (\A y \in before : x >= y) => x = i
    BY <1>0, <2>3, <2>4
  <2> HIDE DEF before
  <2>6. LastFrom(before) = i
    BY <2>3, <2>4, <2>5 DEF LastFrom
  <2> QED BY <2>2, <2>6 DEF before
<1> QED BY <1>1, <1>5, <1>6, <1>7

\* The divergences are walked in a circle, and the opposite key comes back, among any
\* anchors that are bounded.
LEMMA AnchorsReturn ==
  ASSUME NEW A \in SUBSET Nat, NEW n \in Nat, \A x \in A : x <= n, NEW i \in A
  PROVE  /\ Views!PrevAnchor(A, Views!NextAnchor(A, i)) = i
         /\ Views!NextAnchor(A, i) = i => A = {i}
<1> DEFINE after == {x \in A : x > i}
           next == Views!NextAnchor(A, i)
<1>0. \A x \in A : x \in Nat
  OBVIOUS
<1>1. PICK least \in A : \A y \in A : least <= y
  BY LeastNatural
<1>2. PICK last \in A : \A y \in A : last >= y
  BY GreatestNatural, <1>0
<1>3. \A x \in A : (\A y \in A : x <= y) => x = least
  BY <1>0, <1>1
<1>4. \A x \in A : (\A y \in A : x >= y) => x = last
  BY <1>0, <1>2
<1>5. Views!Min(A) = least
  BY <1>1, <1>3 DEF Views!Min
<1>6. Views!Max(A) = last
  BY <1>2, <1>4 DEF Views!Max
<1>7. CASE after = {}
  <2>1. next = least
    BY <1>5, <1>7 DEF Views!NextAnchor, Views!Least
  <2>2. i = last
    BY <1>0, <1>2, <1>7
  <2>6. \A x \in A : ~ (x < least)
    BY <1>0, <1>1
  <2>3. {x \in A : x < least} = {}
    BY <2>6, Zenon
  <2>4. Views!PrevAnchor(A, least) = last
    BY <1>6, <2>3 DEF Views!PrevAnchor
  <2>5. next = i => \A y \in A : y = i
    BY <1>0, <1>1, <1>2, <2>1, <2>2
  <2> QED BY <2>1, <2>2, <2>4, <2>5
<1>8. CASE after # {}
  <2>1. PICK x \in after : \A y \in after : x <= y
    <3>1. after \in SUBSET Nat
      BY <1>0
    <3> HIDE DEF after
    <3> QED BY <1>8, <3>1, LeastNatural
  <2>2. \A z \in after : (\A y \in after : z <= y) => z = x
    BY <1>0, <2>1
  <2>3. next = x
    <3>1. Views!Min(after) = x
      BY <2>1, <2>2 DEF Views!Min
    <3> QED BY <1>8, <3>1 DEF Views!NextAnchor, Views!Least
  <2> DEFINE before == {y \in A : y < x}
  <2>4. i \in before
    BY <2>1
  <2>5. \A y \in before : i >= y
    BY <1>0, <2>1
  <2>6. \A z \in before : (\A y \in before : z >= y) => z = i
    BY <1>0, <2>4, <2>5
  <2>7. Views!Max(before) = i
    <3> HIDE DEF before
    <3> QED BY <2>4, <2>5, <2>6 DEF Views!Max
  <2>8. Views!PrevAnchor(A, x) = i
    BY <2>4, <2>7 DEF Views!PrevAnchor
  <2>9. x # i
    BY <1>0, <2>1
  <2> QED BY <2>3, <2>8, <2>9
<1> QED BY <1>7, <1>8

LEMMA ViewsReturn == Views!NextThenPrevReturns
<1>1. ASSUME NEW S \in Views!Compared
      PROVE  Views!ZoneHeads(Views!ZonesOf(themes, S)) \in SUBSET (0 .. 2)
  <2> DEFINE zones == Views!ZonesOf(themes, S)
  <2>1. zones \in SUBSET (Views!Sentences \X Views!Sentences)
    BY DEF Views!ZonesOf, Views!Zones
  <2>2. Views!Sentences = 0 .. 2
    BY DEF Views!Sentences
  <2> HIDE DEF zones
  <2>3. \A z \in zones : z[1] \in 0 .. 2
    BY <2>1, <2>2
  <2>4. Views!ZoneHeads(zones) \in SUBSET (0 .. 2)
    BY <2>3 DEF Views!ZoneHeads
  <2> QED BY <2>4 DEF zones
<1>2. ASSUME NEW S \in Views!Compared, NEW i \in Views!ZoneHeads(Views!ZonesOf(themes, S))
      PROVE  LET anchors == Views!ZoneHeads(Views!ZonesOf(themes, S))
             IN /\ Views!PrevAnchor(anchors, Views!NextAnchor(anchors, i)) = i
                /\ Views!NextAnchor(anchors, i) = i => anchors = {i}
  <2> DEFINE anchors == Views!ZoneHeads(Views!ZonesOf(themes, S))
  <2>1. anchors \in SUBSET (0 .. 2) /\ i \in anchors
    BY <1>1, <1>2
  <2> HIDE DEF anchors
  <2>2. anchors \in SUBSET Nat /\ \A x \in anchors : x <= 2
    BY <2>1
  <2>3. Views!PrevAnchor(anchors, Views!NextAnchor(anchors, i)) = i /\ (Views!NextAnchor(anchors, i) = i => anchors = {i})
    BY <2>1, <2>2, AnchorsReturn
  <2> QED BY <2>3 DEF anchors
<1> QED BY <1>2 DEF Views!NextThenPrevReturns

-----------------------------------------------------------------------------
(* The queue follows the focus.  The sentences kept are ordered: a place   *)
(* is taken by one of them at most, and there are as many places, so that  *)
(* each place has its card.                                                *)
BacklogSorted == BacklogSentences \in SUBSET Nat /\ IsFiniteSet(BacklogSentences) /\ None \notin BacklogSentences \cup {0}

LEMMA BacklogRanks == \A l : Backlog!Rank(l) \in Nat
BY DEF Backlog!Rank

LEMMA BacklogKept ==
  ASSUME BacklogSorted, NEW ls
  PROVE  /\ \A i \in Backlog!Kept(ls) : i \in BacklogSentences /\ i \in Nat /\ i # None
         /\ IsFiniteSet(Backlog!Kept(ls)) /\ Cardinality(Backlog!Kept(ls)) \in Nat
<1>1. Backlog!Kept(ls) \in SUBSET BacklogSentences
  BY DEF Backlog!Kept
<1>2. IsFiniteSet(Backlog!Kept(ls)) /\ Cardinality(Backlog!Kept(ls)) \in Nat
  BY <1>1, FS_Subset, FS_CardinalityType DEF BacklogSorted
<1> QED BY <1>1, <1>2 DEF BacklogSorted

LEMMA BacklogOrdered ==
  ASSUME BacklogSorted, NEW ls
  PROVE  /\ \A i, j \in Backlog!Kept(ls) : i = j \/ Backlog!Precedes(ls, i, j) \/ Backlog!Precedes(ls, j, i)
         /\ \A i \in Backlog!Kept(ls) : ~ Backlog!Precedes(ls, i, i)
         /\ \A i, j, k \in Backlog!Kept(ls) :
              Backlog!Precedes(ls, i, j) /\ Backlog!Precedes(ls, j, k) => Backlog!Precedes(ls, i, k)
<1>1. \A i \in Backlog!Kept(ls) : i \in Nat /\ Backlog!Rank(ls[i]) \in Nat
  BY BacklogKept, BacklogRanks
<1> QED BY <1>1 DEF Backlog!Precedes

LEMMA BacklogPlaces ==
  ASSUME BacklogSorted, NEW ls, NEW k \in 1 .. Cardinality(Backlog!Kept(ls))
  PROVE  Backlog!Items(ls)[k] \in Backlog!Kept(ls)
<1> DEFINE K == Backlog!Kept(ls)
           n == Cardinality(K)
           Pre(i) == {j \in K : Backlog!Precedes(ls, j, i)}
           slot == [i \in K |-> Cardinality(Pre(i))]
<1>1. IsFiniteSet(K) /\ n \in Nat
  BY BacklogKept
<1>2. ASSUME NEW i \in K PROVE IsFiniteSet(Pre(i)) /\ Cardinality(Pre(i)) \in 0 .. n - 1
  <2>1. Pre(i) \in SUBSET (K \ {i}) /\ i \in K
    BY BacklogOrdered
  <2>2. IsFiniteSet(K \ {i}) /\ Cardinality(K \ {i}) = n - 1
    <3> HIDE DEF K
    <3> QED BY <1>1, <1>2, FS_RemoveElement
  <2>3. IsFiniteSet(Pre(i)) /\ Cardinality(Pre(i)) <= n - 1
    <3> HIDE DEF K, Pre
    <3> QED BY <2>1, <2>2, FS_Subset
  <2>4. Cardinality(Pre(i)) \in Nat
    BY <2>3, FS_CardinalityType
  <2> HIDE DEF Pre, K
  <2> QED BY <1>1, <2>3, <2>4
<1>8. ASSUME NEW i \in K PROVE IsFiniteSet(Pre(i)) /\ Cardinality(Pre(i)) \in Nat
  <2>1. IsFiniteSet(Pre(i)) /\ Cardinality(Pre(i)) \in 0 .. n - 1
    BY <1>2
  <2> HIDE DEF Pre, n
  <2> QED BY <1>1, <2>1
<1>3. ASSUME NEW i \in K, NEW j \in K, Backlog!Precedes(ls, i, j) PROVE Cardinality(Pre(i)) < Cardinality(Pre(j))
  <2>1. Pre(i) \in SUBSET Pre(j) /\ i \in Pre(j) /\ i \notin Pre(i)
    BY <1>3, BacklogOrdered
  <2>2. IsFiniteSet(Pre(j)) /\ Cardinality(Pre(j)) \in Nat /\ Cardinality(Pre(i)) \in Nat
    BY <1>8
  <2>3. Cardinality(Pre(i)) <= Cardinality(Pre(j)) /\ Cardinality(Pre(i)) # Cardinality(Pre(j))
    <3> HIDE DEF Pre
    <3> QED BY <2>1, <2>2, FS_Subset
  <2> HIDE DEF Pre
  <2> QED BY <2>2, <2>3
<1>4. slot \in Injection(K, 0 .. n - 1)
  <2>1. slot \in [K -> 0 .. n - 1]
    BY <1>2
  <2>2. ASSUME NEW i \in K, NEW j \in K, slot[i] = slot[j] PROVE i = j
    <3>1. Cardinality(Pre(i)) = Cardinality(Pre(j))
      BY <2>2
    <3>2. Cardinality(Pre(i)) \in Nat /\ Cardinality(Pre(j)) \in Nat
      BY <1>8
    <3>3. ~ Backlog!Precedes(ls, i, j) /\ ~ Backlog!Precedes(ls, j, i)
      <4> HIDE DEF Pre
      <4> QED BY <1>3, <3>1, <3>2
    <3> QED BY <3>3, BacklogOrdered
  <2> HIDE DEF slot, K
  <2> QED BY <2>1, <2>2 DEF Injection, IsInjective
<1>5. slot \in Surjection(K, 0 .. n - 1)
  <2>1. IsFiniteSet(0 .. n - 1) /\ Cardinality(0 .. n - 1) = n
    <3> HIDE DEF n
    <3> QED BY <1>1, FS_Interval
  <2> HIDE DEF slot, K
  <2> QED BY <1>1, <1>4, <2>1, FS_Injection DEF n
<1>6. \E i \in K : slot[i] = k - 1
  <2>1. k - 1 \in 0 .. n - 1
    BY <1>1
  <2> HIDE DEF slot, K
  <2> QED BY <1>5, <2>1 DEF Surjection
<1>7. \E i \in K : Backlog!Place(ls, i) = k - 1
  BY <1>6 DEF Backlog!Place, Backlog!Cardinality, Cardinality
<1> QED BY <1>7 DEF Backlog!Items, Backlog!Cardinality, Cardinality

BacklogListed(cards) == Len(cards) \in Nat /\ DOMAIN cards = 1 .. Len(cards)

\* Each card is a sentence, and the place of a sentence among the cards is its own.
LEMMA BacklogCards ==
  ASSUME BacklogSorted
  PROVE  /\ \A k \in 1 .. Len(Backlog!Cards) : Backlog!Cards[k] # None
         /\ BacklogListed(Backlog!Cards) /\ \A ls : BacklogListed(Backlog!Items(ls))
<1>1. ASSUME NEW ls
      PROVE  /\ BacklogListed(Backlog!Items(ls))
             /\ \A k \in 1 .. Len(Backlog!Items(ls)) : Backlog!Items(ls)[k] # None
  <2> DEFINE s == Backlog!Items(ls)
             n == Cardinality(Backlog!Kept(ls))
  <2>1. n \in Nat
    BY BacklogKept
  <2>2. DOMAIN s = 1 .. n
    BY DEF Backlog!Items, Backlog!Cardinality, Cardinality
  <2>3. \A k \in 1 .. n : s[k] \in Backlog!Kept(ls)
    BY BacklogPlaces
  <2>4. s = [k \in 1 .. n |-> s[k]]
    BY <2>2 DEF Backlog!Items, Backlog!Cardinality, Cardinality
  <2> HIDE DEF s, n
  <2>5. s \in Seq(Backlog!Kept(ls))
    BY <2>1, <2>3, <2>4
  <2>6. Len(s) = n
    BY <2>1, <2>2, <2>5
  <2>7. Len(s) \in Nat /\ DOMAIN s = 1 .. Len(s)
    BY <2>1, <2>5, <2>6
  <2>8. \A k \in 1 .. Len(s) : s[k] # None
    BY <2>1, <2>3, <2>6, BacklogKept
  <2> QED BY <2>7, <2>8 DEF s, BacklogListed
<1>2. BacklogListed(<< >>) /\ \A k \in 1 .. Len(<< >>) : FALSE
  BY DEF BacklogListed
<1> QED BY <1>1, <1>2 DEF Backlog!Cards

LEMMA BacklogDealt == ASSUME BacklogSorted, Backlog!Cards # << >> PROVE Len(Backlog!Cards) # 0
<1>1. CASE ready
  <2> DEFINE s == Backlog!Items(levels)
             n == Cardinality(Backlog!Kept(levels))
  <2>1. s = [k \in 1 .. n |-> s[k]]
    BY DEF Backlog!Items, Backlog!Cardinality, Cardinality
  <2>2. \A k \in 1 .. n : s[k] \in Backlog!Kept(levels)
    BY BacklogPlaces
  <2>3. n \in Nat
    BY BacklogKept
  <2> HIDE DEF s, n
  <2>4. s \in Seq(Backlog!Kept(levels))
    BY <2>1, <2>2, <2>3
  <2>5. s = << >> \/ Len(s) # 0
    BY <2>4
  <2> QED BY <1>1, <2>5 DEF s, Backlog!Cards
<1>2. CASE ~ready
  BY <1>2 DEF Backlog!Cards
<1> QED BY <1>1, <1>2

LEMMA BacklogFound ==
  ASSUME NEW cards, BacklogListed(cards), NEW f, f \in Backlog!Range(cards)
  PROVE  /\ Backlog!PosOf(cards, f) \in Nat /\ Backlog!PosOf(cards, f) < Len(cards)
         /\ cards[Backlog!PosOf(cards, f) + 1] = f
<1> DEFINE k == CHOOSE x \in 1 .. Len(cards) : cards[x] = f
<1>1. k \in 1 .. Len(cards) /\ cards[k] = f
  BY DEF Backlog!Range, BacklogListed
<1>2. Backlog!PosOf(cards, f) = k - 1
  BY DEF Backlog!PosOf
<1> HIDE DEF k
<1>3. k - 1 \in Nat /\ k - 1 < Len(cards) /\ (k - 1) + 1 = k
  BY <1>1 DEF BacklogListed
<1> QED BY <1>1, <1>2, <1>3

BacklogShows(cards, f, p) == f \in Backlog!Range(cards) => p < Len(cards) /\ cards[p + 1] = f
BacklogFollows ==
  /\ pushed = None /\ focused # None /\ pos \in Nat
  /\ backlogOpen /\ ~fresh => BacklogShows(Backlog!Cards, focused, pos)

LEMMA BacklogFollowed ==
  ASSUME NEW cards, BacklogListed(cards), NEW f, f # None, NEW p \in Nat, pushed = None,
         Backlog!Follow(f, cards, pushed, p)
  PROVE  pushed' = None /\ pos' \in Nat /\ BacklogShows(cards, f, pos')
<1>1. pushed' = None /\ pos' = IF f \in Backlog!Range(cards) THEN Backlog!PosOf(cards, f) ELSE p
  BY DEF Backlog!Follow
<1> QED BY <1>1, BacklogFound DEF BacklogShows

\* Going to a card leaves it shown, and its sentence focused.
LEMMA BacklogGoes ==
  ASSUME BacklogSorted, BacklogFollows, Backlog!Cards # << >>, NEW p \in Nat, Backlog!GoTo(p),
         UNCHANGED <<levels, ready, backlogOpen>>
  PROVE  BacklogFollows'
<1> DEFINE n == Len(Backlog!Cards)
           q == IF p < n THEN p ELSE n - 1
<1>1. n \in Nat /\ n # 0
  <2>1. n \in Nat
    BY BacklogCards
  <2> QED BY <2>1, BacklogDealt
<1>2. q \in Nat /\ q < n /\ q + 1 \in 1 .. n
  BY <1>1
<1>3. fresh' = FALSE /\ focused' = Backlog!Cards[q + 1] /\ pos' = q /\ pushed' = None
  BY DEF Backlog!GoTo, Backlog!Follow, BacklogFollows
<1>4. focused' # None
  BY <1>2, <1>3, BacklogCards
<1>5. Backlog!Cards' = Backlog!Cards
  BY DEF Backlog!Cards, Backlog!Items, Backlog!Kept, Backlog!Place, Backlog!Precedes
<1> HIDE DEF q
<1>6. BacklogShows(Backlog!Cards, focused', pos')
  BY <1>2, <1>3 DEF BacklogShows
<1> QED BY <1>2, <1>3, <1>4, <1>5, <1>6 DEF BacklogFollows, BacklogShows, Backlog!Range

LEMMA BacklogPersisted ==
  ASSUME BacklogSorted, BacklogFollows, NEW ts, NEW how, Backlog!Persist(ts, how)
  PROVE  BacklogFollows'
<1>1. pos + 1 \in Nat
  BY DEF BacklogFollows
<1> QED BY <1>1, BacklogGoes DEF Backlog!Persist, Backlog!Usable

LEMMA BacklogStays ==
  ASSUME BacklogFollows, UNCHANGED <<levels, ready, pos, pushed, fresh, focused>>, backlogOpen' => backlogOpen
  PROVE  BacklogFollows'
<1>1. Backlog!Cards' = Backlog!Cards
  BY DEF Backlog!Cards, Backlog!Items, Backlog!Kept, Backlog!Place, Backlog!Precedes
<1> QED BY <1>1 DEF BacklogFollows, BacklogShows, Backlog!Range

LEMMA BacklogWalks == ASSUME BacklogSorted, BacklogFollows, Backlog!Next PROVE BacklogFollows'
<1>1. ASSUME NEW ls, Backlog!Judged(ls) PROVE BacklogFollows'
  <2>1. CASE backlogOpen
    <3>1. Backlog!Follow(focused, Backlog!Items(ls), pushed, pos)
      BY <1>1, <2>1 DEF Backlog!Judged
    <3>2. pushed' = None /\ pos' \in Nat /\ BacklogShows(Backlog!Items(ls), focused, pos')
      BY <3>1, BacklogFollowed, BacklogCards DEF BacklogFollows
    <3>3. Backlog!Cards' = Backlog!Items(ls)
      BY <1>1 DEF Backlog!Judged, Backlog!Cards, Backlog!Items, Backlog!Kept, Backlog!Place, Backlog!Precedes
    <3>4. focused' = focused
      BY <1>1 DEF Backlog!Judged
    <3> QED BY <3>2, <3>3, <3>4 DEF BacklogFollows, BacklogShows, Backlog!Range
  <2>2. CASE ~backlogOpen
    BY <1>1, <2>2 DEF Backlog!Judged, BacklogFollows
  <2> QED BY <2>1, <2>2
<1>2. ASSUME NEW i \in BacklogSentences, Backlog!Focus(i) PROVE BacklogFollows'
  <2>0. i # None /\ focused' = i /\ Backlog!Cards' = Backlog!Cards
    BY <1>2 DEF Backlog!Focus, BacklogSorted, Backlog!Cards, Backlog!Items, Backlog!Kept, Backlog!Place, Backlog!Precedes
  <2>1. CASE backlogOpen
    <3>1. Backlog!Follow(i, Backlog!Cards, pushed, pos)
      BY <1>2, <2>1 DEF Backlog!Focus
    <3>2. pushed' = None /\ pos' \in Nat /\ BacklogShows(Backlog!Cards, i, pos')
      BY <2>0, <3>1, BacklogFollowed, BacklogCards DEF BacklogFollows
    <3> QED BY <2>0, <3>2 DEF BacklogFollows, BacklogShows, Backlog!Range
  <2>2. CASE ~backlogOpen
    BY <1>2, <2>0, <2>2 DEF Backlog!Focus, BacklogFollows
  <2> QED BY <2>1, <2>2
<1>3. ASSUME NEW delta, Backlog!Move(delta) PROVE BacklogFollows'
  <2> DEFINE p == IF delta = 1 THEN Backlog!Shown + 1 ELSE IF Backlog!Shown = 0 THEN 0 ELSE Backlog!Shown - 1
  <2>1. Backlog!Cards # << >> /\ Backlog!GoTo(p) /\ UNCHANGED <<levels, ready, backlogOpen>>
    BY <1>3 DEF Backlog!Move, Backlog!Usable
  <2>2. Len(Backlog!Cards) \in Nat /\ Len(Backlog!Cards) # 0
    BY <2>1, BacklogCards, BacklogDealt
  <2>3. Backlog!Shown \in Nat
    BY <2>2 DEF Backlog!Shown, BacklogFollows
  <2>4. p \in Nat
    BY <2>3
  <2> HIDE DEF p
  <2> QED BY <2>1, <2>4, BacklogGoes
<1>4. ASSUME NEW ts, Backlog!Persist(ts, "choose") \/ Backlog!Persist(ts, "accept") PROVE BacklogFollows'
  BY <1>4, BacklogPersisted
<1>5. CASE Backlog!Open
  <2>1. pushed' = None /\ pos' = 0 /\ fresh' = TRUE /\ focused' = focused
    BY <1>5 DEF Backlog!Open, Backlog!Follow
  <2> QED BY <2>1 DEF BacklogFollows
<1>6. CASE Backlog!Close
  BY <1>6, BacklogStays DEF Backlog!Close
<1>7. CASE Backlog!BatchAcceptC1 \/ Backlog!BatchAcceptSelection
  <2>1. UNCHANGED <<levels, ready, backlogOpen, pos, pushed, fresh, focused>>
    BY <1>7 DEF Backlog!BatchAcceptC1, Backlog!BatchAcceptSelection, Backlog!AcceptBatch
  <2> QED BY <2>1, BacklogStays
<1>8. ASSUME NEW i \in BacklogSentences, Backlog!Select(i) \/ Backlog!AnnotateByHand(i) PROVE BacklogFollows'
  BY <1>8, BacklogStays DEF Backlog!Select, Backlog!AnnotateByHand
<1>9. ASSUME NEW on, Backlog!Help(on) PROVE BacklogFollows'
  BY <1>9, BacklogStays DEF Backlog!Help
<1> QED
  BY <1>1, <1>2, <1>3, <1>4, <1>5, <1>6, <1>7, <1>8, <1>9
     DEF Backlog!Next, Backlog!Choose, Backlog!Accept, Backlog!Swap, Backlog!RemoveSecondary, Backlog!Multi,
         Backlog!UndoOverride

LEMMA BacklogStarts == ASSUME Backlog!Init, BacklogSorted PROVE BacklogFollows
BY DEF Backlog!Init, BacklogSorted, BacklogFollows

LEMMA BacklogFollowsFocus == ASSUME BacklogFollows, BacklogSorted PROVE Backlog!QueueFollowsFocus
<1> SUFFICES ASSUME backlogOpen, ~fresh, focused \in Backlog!Range(Backlog!Cards) PROVE Backlog!Current = focused
  BY DEF Backlog!QueueFollowsFocus
<1>1. pos < Len(Backlog!Cards) /\ Backlog!Cards[pos + 1] = focused
  BY DEF BacklogFollows, BacklogShows
<1> QED BY <1>1 DEF Backlog!Current, Backlog!Shown
-----------------------------------------------------------------------------
(* The walk of the plan.  A gap has a rank among the gaps; the button goes *)
(* to the gap of the next rank, or from the last to the first.             *)
PlanNumbered == Cardinality(PlanSentences) \in Nat /\ PlanSentences = 0 .. Cardinality(PlanSentences) - 1

LEMMA Modulo ==
  ASSUME NEW n \in Nat, NEW i \in Nat, i < n
  PROVE  i % n = i /\ (i + n) % n = i
OBVIOUS

GapsBefore(G, i) == {g \in G : g < i}
Rank(G, i) == Cardinality(GapsBefore(G, i))

LEMMA RankBounded ==
  ASSUME NEW G \in SUBSET Nat, IsFiniteSet(G), NEW i \in G
  PROVE  /\ Cardinality(G) \in Nat /\ Rank(G, i) \in Nat /\ Rank(G, i) < Cardinality(G)
         /\ IsFiniteSet(GapsBefore(G, i)) /\ i \notin GapsBefore(G, i)
<1>1. GapsBefore(G, i) \in SUBSET G
  BY DEF GapsBefore
<1>2. i \notin GapsBefore(G, i)
  BY DEF GapsBefore
<1>3. Cardinality(G) \in Nat /\ Cardinality(GapsBefore(G, i)) \in Nat /\ IsFiniteSet(GapsBefore(G, i))
  BY <1>1, FS_Subset, FS_CardinalityType
<1>4. Cardinality(GapsBefore(G, i)) <= Cardinality(G) /\ Cardinality(GapsBefore(G, i)) # Cardinality(G)
  BY <1>1, <1>2, FS_Subset
<1> QED BY <1>2, <1>3, <1>4 DEF Rank

\* Between two gaps that have none between them, the rank grows by one.
LEMMA RankNext ==
  ASSUME NEW G \in SUBSET Nat, IsFiniteSet(G), NEW i \in G, NEW j \in G, i < j, \A k \in G : ~ (i < k /\ k < j)
  PROVE  Rank(G, j) = Rank(G, i) + 1
<1>0. \A k \in G : k \in Nat
  OBVIOUS
<1>1. \A k \in G : k < j <=> (k < i \/ k = i)
  BY <1>0
<1>2. GapsBefore(G, j) = GapsBefore(G, i) \cup {i}
  BY <1>1 DEF GapsBefore
<1> QED BY <1>2, RankBounded, FS_AddElement DEF Rank

LEMMA RankFirst ==
  ASSUME NEW G \in SUBSET Nat, IsFiniteSet(G), NEW i \in G, \A k \in G : i <= k
  PROVE  Rank(G, i) = 0
<1>1. \A k \in G : ~ (k < i)
  OBVIOUS
<1>2. GapsBefore(G, i) = {}
  BY <1>1 DEF GapsBefore
<1> QED BY <1>2, FS_EmptySet DEF Rank

LEMMA RankLast ==
  ASSUME NEW G \in SUBSET Nat, IsFiniteSet(G), NEW i \in G, \A k \in G : k <= i
  PROVE  Rank(G, i) = Cardinality(G) - 1
<1>1. \A k \in G : k < i \/ k = i
  OBVIOUS
<1>2. G = GapsBefore(G, i) \cup {i}
  BY <1>1 DEF GapsBefore
<1>3. Cardinality(G) = Rank(G, i) + 1
  BY <1>2, RankBounded, FS_AddElement DEF Rank
<1> QED BY <1>3, RankBounded

LEMMA RankOnce ==
  ASSUME NEW G \in SUBSET Nat, IsFiniteSet(G), NEW i \in G, NEW j \in G, i < j
  PROVE  Rank(G, i) # Rank(G, j)
<1>1. GapsBefore(G, i) \in SUBSET GapsBefore(G, j)
  <2>1. \A k \in G : k \in Nat
    OBVIOUS
  <2>2. \A k \in G : k < i => k < j
    BY <2>1
  <2> QED BY <2>2 DEF GapsBefore
<1>2. i \in GapsBefore(G, j) /\ i \notin GapsBefore(G, i)
  BY DEF GapsBefore
<1>3. IsFiniteSet(GapsBefore(G, j))
  BY RankBounded
<1> QED BY <1>1, <1>2, <1>3, FS_Subset DEF Rank

\* The button: from a gap to the one of the next rank, or from the last to the first.
LEMMA NextGapNext ==
  ASSUME PlanNumbered, Plan!Gaps # {}, planFocused \in PlanSentences
  PROVE  /\ Plan!NextGap \in Plan!Gaps
         /\ \/ planFocused < Plan!NextGap /\ \A k \in Plan!Gaps : ~ (planFocused < k /\ k < Plan!NextGap)
            \/ (\A k \in Plan!Gaps : k <= planFocused) /\ \A k \in Plan!Gaps : Plan!NextGap <= k
<1> DEFINE n == Cardinality(PlanSentences)
           f == planFocused
           G == Plan!Gaps
           Far(i) == (i - f - 1 + n) % n
<1>1. n \in Nat /\ f \in Nat /\ f < n /\ G \in SUBSET Nat /\ \A i \in G : i \in Nat /\ i < n
  BY DEF PlanNumbered, Plan!Gaps
<1>2. Plan!NextGap = CHOOSE i \in G : \A k \in G : Far(i) <= Far(k)
  BY DEF Plan!NextGap, Plan!N, Plan!Cardinality, Cardinality
<1> HIDE DEF n, f, G
<1>3. ASSUME NEW i \in G PROVE Far(i) = IF i > f THEN i - f - 1 ELSE i - f - 1 + n
  <2>1. CASE i > f
    <3>1. i - f - 1 \in Nat /\ i - f - 1 < n
      BY <1>1, <2>1
    <3> QED BY <1>1, <2>1, <3>1, Modulo
  <2>2. CASE ~ (i > f)
    <3>1. i - f - 1 + n \in Nat /\ i - f - 1 + n < n
      BY <1>1, <2>2
    <3> QED BY <1>1, <2>2, <3>1, Modulo
  <2> QED BY <2>1, <2>2
<1>4. \A i \in G : Far(i) \in Nat
  BY <1>1, <1>3
<1> HIDE DEF Far
<1>5. PICK i \in G : \A k \in G : Far(i) <= Far(k)
  <2> DEFINE T == {Far(i) : i \in G}
  <2>1. T \in SUBSET Nat /\ T # {}
    BY <1>4 DEF G
  <2> HIDE DEF T
  <2>2. PICK q \in T : \A p \in T : q <= p
    BY <2>1, LeastNatural
  <2> QED BY <2>2 DEF T
<1>6. Plan!NextGap \in G /\ \A k \in G : Far(Plan!NextGap) <= Far(k)
  BY <1>2, <1>5
<1> DEFINE g == Plan!NextGap
<1> HIDE DEF g
<1>7. g \in G /\ \A k \in G : Far(g) <= Far(k)
  BY <1>6 DEF g
<1>8. CASE g > f
  <2>1. ASSUME NEW k \in G, f < k, k < g PROVE FALSE
    BY <1>1, <1>3, <1>7, <1>8, <2>1
  <2> QED BY <1>1, <1>7, <1>8, <2>1 DEF g, f, G
<1>9. CASE ~ (g > f)
  <2>1. ASSUME NEW k \in G PROVE k <= f
    BY <1>1, <1>3, <1>7, <1>9
  <2>2. ASSUME NEW k \in G PROVE g <= k
    <3>1. k <= f /\ k \in Nat /\ g \in Nat
      BY <1>1, <1>7, <2>1
    <3>2. Far(k) = k - f - 1 + n /\ Far(g) = g - f - 1 + n /\ Far(g) <= Far(k)
      BY <1>1, <1>3, <1>7, <1>9, <3>1
    <3> QED BY <1>1, <3>1, <3>2
  <2> QED BY <1>7, <2>1, <2>2 DEF g, f, G
<1> QED BY <1>8, <1>9

\* Of a walk: two stops less than a round apart are as far apart as their ranks, round the gaps.
PlanStops(w, G, f) ==
  /\ w \in Seq(G)
  /\ w # <<>> => w[Len(w)] = f
  /\ \A j, k \in 1 .. Len(w) :
       j <= k /\ k - j < Cardinality(G) =>
         Rank(G, w[k]) - Rank(G, w[j]) \in {k - j, k - j - Cardinality(G)}
PlanWalked ==
  /\ planFocused \in PlanSentences
  /\ PlanStops(walk, Plan!Gaps, planFocused)

LEMMA StopsNone == ASSUME NEW w, NEW G, NEW f, w = <<>> PROVE PlanStops(w, G, f)
BY DEF PlanStops

LEMMA StopsNext ==
  ASSUME NEW G \in SUBSET Nat, IsFiniteSet(G), NEW w, NEW f, PlanStops(w, G, f), NEW g \in G,
         \/ f < g /\ \A k \in G : ~ (f < k /\ k < g)
         \/ (\A k \in G : k <= f) /\ \A k \in G : g <= k
  PROVE  PlanStops(Append(w, g), G, g)
<1> DEFINE v == Append(w, g)
           R == Cardinality(G)
           L == Len(w)
<1>1. w \in Seq(G) /\ L \in Nat /\ Len(v) = L + 1 /\ v \in Seq(G) /\ v[L + 1] = g /\ \A k \in 1 .. L : v[k] = w[k] /\ w[k] \in G
  BY DEF PlanStops
<1>2. R \in Nat /\ \A i \in G : Rank(G, i) \in Nat /\ Rank(G, i) < R
  BY RankBounded
<1>3. ASSUME w # <<>> PROVE w[L] \in G /\ (Rank(G, g) = Rank(G, w[L]) + 1 \/ (Rank(G, g) = 0 /\ Rank(G, w[L]) = R - 1))
  <2>1. w[L] = f /\ L \in 1 .. L
    BY <1>1, <1>3 DEF PlanStops
  <2>2. f \in G
    BY <1>1, <2>1
  <2>3. CASE f < g /\ \A k \in G : ~ (f < k /\ k < g)
    BY <2>1, <2>2, <2>3, RankNext
  <2>4. CASE (\A k \in G : k <= f) /\ \A k \in G : g <= k
    BY <2>1, <2>2, <2>4, RankFirst, RankLast
  <2> QED BY <2>3, <2>4
<1> DEFINE r(k) == Rank(G, v[k])
<1>4. \A k \in 1 .. L + 1 : r(k) \in Nat /\ r(k) < R
  <2>1. \A k \in 1 .. L + 1 : k = L + 1 \/ k \in 1 .. L
    BY <1>1
  <2>2. \A k \in 1 .. L + 1 : v[k] \in G
    <3> HIDE DEF v
    <3> QED BY <1>1, <2>1
  <2> HIDE DEF v, R
  <2> QED BY <1>2, <2>2 DEF R
<1>5. \A j, k \in 1 .. L : j <= k /\ k - j < R => r(k) - r(j) \in {k - j, k - j - R}
  BY <1>1 DEF PlanStops
<1>6. L # 0 => L \in 1 .. L /\ (r(L + 1) = r(L) + 1 \/ (r(L + 1) = 0 /\ r(L) = R - 1))
  BY <1>1, <1>3
<1> HIDE DEF r, v, R, L
<1>7. ASSUME NEW j \in 1 .. L + 1, NEW k \in 1 .. L + 1, j <= k, k - j < R
      PROVE  r(k) - r(j) \in {k - j, k - j - R}
  <2>1. CASE k <= L
    BY <1>1, <1>5, <1>7, <2>1
  <2>2. CASE k = L + 1 /\ j = L + 1
    BY <1>1, <1>4, <2>2
  <2>3. CASE k = L + 1 /\ j <= L
    <3>1. L # 0 /\ j \in 1 .. L /\ L \in 1 .. L /\ j <= L /\ L - j < R
      BY <1>1, <1>2, <1>7, <2>3 DEF R
    <3>2. r(L) - r(j) \in {L - j, L - j - R}
      BY <1>5, <3>1
    <3>3. r(L) \in Nat /\ r(j) \in Nat /\ r(j) < R /\ r(L) < R /\ R \in Nat /\ j \in Nat /\ L \in Nat
      BY <1>1, <1>2, <1>4, <3>1 DEF R
    <3>4. CASE r(L + 1) = r(L) + 1
      BY <2>3, <3>2, <3>3, <3>4
    <3>5. CASE r(L + 1) = 0 /\ r(L) = R - 1
      BY <1>7, <2>3, <3>2, <3>3, <3>5
    <3> QED BY <1>6, <3>1, <3>4, <3>5
  <2> QED BY <1>1, <1>7, <2>1, <2>2, <2>3
<1>8. \A j, k \in 1 .. Len(v) : j <= k /\ k - j < R => Rank(G, v[k]) - Rank(G, v[j]) \in {k - j, k - j - R}
  BY <1>1, <1>7 DEF r
<1>9. v # <<>> /\ v[Len(v)] = g
  BY <1>1
<1> QED BY <1>1, <1>8, <1>9 DEF PlanStops, v, R

LEMMA PlanGaps == ASSUME PlanNumbered PROVE Plan!Gaps \in SUBSET Nat /\ IsFiniteSet(Plan!Gaps) /\ Plan!Gaps \in SUBSET PlanSentences
<1> DEFINE n == Cardinality(PlanSentences)
<1>1. n \in Nat /\ PlanSentences = 0 .. n - 1
  BY DEF PlanNumbered
<1> HIDE DEF n
<1>2. 0 \in Int /\ n - 1 \in Int
  BY <1>1
<1>3. IsFiniteSet(0 .. n - 1)
  BY <1>2, FS_Interval
<1>4. 0 .. n - 1 \in SUBSET Nat
  BY <1>1
<1> QED BY <1>1, <1>3, <1>4, FS_Subset DEF Plan!Gaps

LEMMA PlanWalkStarts == ASSUME Plan!Init PROVE PlanWalked
BY StopsNone DEF Plan!Init, PlanWalked

LEMMA PlanWalkStays ==
  ASSUME PlanWalked, UNCHANGED <<planClauses, planFocused, walk>> PROVE PlanWalked'
BY DEF PlanWalked, Plan!Gaps, Plan!Annotated

LEMMA PlanWalks ==
  ASSUME PlanNumbered, PlanWalked, Plan!Next PROVE PlanWalked'
<1>1. ASSUME walk' = <<>>, planFocused' \in PlanSentences PROVE PlanWalked'
  BY <1>1, StopsNone DEF PlanWalked
<1>2. ASSUME NEW i \in PlanSentences,
             Plan!Retheme(i) \/ Plan!Inspect(i) \/ Plan!Decide(i) \/ Plan!Adopt(i) \/ Plan!Clear(i)
      PROVE  PlanWalked'
  BY <1>1, <1>2
     DEF Plan!Retheme, Plan!Inspect, Plan!Decide, Plan!Adopt, Plan!Clear, Plan!Edits, Plan!Becomes
<1>3. ASSUME NEW i \in PlanSentences, Plan!EmptyBlock(i) \/ Plan!Chip(i) PROVE PlanWalked'
  BY <1>1, <1>3 DEF Plan!EmptyBlock, Plan!Chip
<1>4. ASSUME NEW i \in PlanSentences, Plan!CtrlChip(i) \/ Plan!RightChip(i) PROVE PlanWalked'
  BY <1>4, PlanWalkStays DEF Plan!CtrlChip, Plan!RightChip, Plan!Looks
<1>5. CASE Plan!GoToNextGap
  <2>1. /\ Plan!Gaps # {} /\ planFocused' = Plan!NextGap /\ walk' = Append(walk, Plan!NextGap)
        /\ planClauses' = planClauses
    BY <1>5 DEF Plan!GoToNextGap, Plan!Looks
  <2>2. planFocused \in PlanSentences /\ PlanStops(walk, Plan!Gaps, planFocused)
    BY DEF PlanWalked
  <2>3. PlanStops(Append(walk, Plan!NextGap), Plan!Gaps, Plan!NextGap)
    <3>1. Plan!Gaps \in SUBSET Nat /\ IsFiniteSet(Plan!Gaps)
      BY PlanGaps
    <3> QED BY <2>1, <2>2, <3>1, NextGapNext, StopsNext
  <2>4. Plan!Gaps' = Plan!Gaps
    BY <2>1 DEF Plan!Gaps, Plan!Annotated
  <2>5. planFocused' \in PlanSentences
    BY <2>1, <2>2, NextGapNext, PlanGaps
  <2> QED BY <2>1, <2>3, <2>4, <2>5 DEF PlanWalked
<1>6. CASE Plan!AnnotateChosen \/ Plan!ValidateChosen \/ Plan!ClearChosen
  <2>1. walk' = <<>> /\ planFocused' = planFocused
    BY <1>6 DEF Plan!AnnotateChosen, Plan!ValidateChosen, Plan!ClearChosen, Plan!OnChosen
  <2> QED BY <1>1, <2>1 DEF PlanWalked
<1>7. CASE Plan!ForgetChosen
  BY <1>7, PlanWalkStays DEF Plan!ForgetChosen, Plan!Looks
<1> QED BY <1>2, <1>3, <1>4, <1>5, <1>6, <1>7 DEF Plan!Next

\* As many stops as there are gaps, one after the other, are all of them.
LEMMA RoundIsAll ==
  ASSUME NEW G \in SUBSET Nat, IsFiniteSet(G), NEW w, NEW f, PlanStops(w, G, f), Len(w) >= Cardinality(G)
  PROVE  \A g \in G : \E k \in 1 .. Len(w) : w[k] = g
<1> DEFINE R == Cardinality(G)
           V == {w[k] : k \in 1 .. R}
           e == [k \in 1 .. R |-> w[k]]
<1>1. R \in Nat /\ w \in Seq(G) /\ Len(w) \in Nat /\ \A k \in 1 .. R : k \in 1 .. Len(w) /\ w[k] \in G
  BY FS_CardinalityType DEF PlanStops
<1>2. ASSUME NEW j \in 1 .. R, NEW k \in 1 .. R, j < k PROVE w[j] # w[k]
  <2>1. j <= k /\ k - j < R /\ k - j # 0 /\ k - j # R
    BY <1>1, <1>2
  <2>2. Rank(G, w[k]) - Rank(G, w[j]) \in {k - j, k - j - R}
    BY <1>1, <2>1 DEF PlanStops
  <2>3. Rank(G, w[j]) \in Nat /\ Rank(G, w[k]) \in Nat
    BY <1>1, RankBounded
  <2>4. Rank(G, w[k]) - Rank(G, w[j]) # 0
    <3> HIDE DEF R
    <3> QED BY <1>1, <2>1, <2>2
  <2> QED BY <2>3, <2>4
<1>3. V \in SUBSET G
  BY <1>1
<1>4. e \in Bijection(1 .. R, V)
  <2>1. e \in [1 .. R -> V] /\ \A y \in V : \E k \in 1 .. R : e[k] = y
    OBVIOUS
  <2>2. ASSUME NEW j \in 1 .. R, NEW k \in 1 .. R, e[j] = e[k] PROVE j = k
    <3>1. j < k \/ k < j \/ j = k
      BY <1>1
    <3> HIDE DEF R
    <3> QED BY <1>2, <2>2, <3>1
  <2> HIDE DEF e, V, R
  <2> QED BY <2>1, <2>2 DEF Bijection, Injection, Surjection, IsInjective
<1>5. IsFiniteSet(1 .. R) /\ Cardinality(1 .. R) = R
  BY <1>1, FS_Interval
<1>6. Cardinality(V) = R /\ IsFiniteSet(V)
  <2> HIDE DEF e, V, R
  <2> QED BY <1>4, <1>5, FS_Bijection DEF ExistsBijection
<1>7. V = G
  <2> HIDE DEF e, V
  <2> QED BY <1>3, <1>6, FS_Subset
<1> QED BY <1>1, <1>7

LEMMA PlanVisits == ASSUME PlanNumbered, PlanWalked PROVE Plan!WalkVisitsEveryGap
<1> DEFINE G == Plan!Gaps
           R == Cardinality(G)
<1>1. G \in SUBSET Nat /\ IsFiniteSet(G) /\ PlanStops(walk, G, planFocused)
  BY PlanGaps DEF PlanWalked
<1>0. Plan!Remaining = R
  BY DEF Plan!Remaining, Plan!Cardinality, Cardinality
<1> HIDE DEF G
<1>2. R \in Nat /\ walk \in Seq(G) /\ Len(walk) \in Nat /\ DOMAIN walk = 1 .. Len(walk)
  BY <1>1, FS_CardinalityType DEF PlanStops
<1>3. ASSUME NEW j \in DOMAIN walk, NEW k \in DOMAIN walk, j < k, walk[j] = walk[k] PROVE k - j >= R
  <2>1. SUFFICES ASSUME k - j < R PROVE FALSE
    BY <1>2
  <2>2. Rank(G, walk[k]) - Rank(G, walk[j]) \in {k - j, k - j - R}
    BY <1>1, <1>2, <1>3, <2>1 DEF PlanStops
  <2>3. Rank(G, walk[j]) \in Nat
    <3>1. walk[j] \in G
      BY <1>2
    <3> QED BY <1>1, <3>1, RankBounded
  <2>4. Rank(G, walk[k]) - Rank(G, walk[j]) = 0
    BY <1>3, <2>3
  <2> QED BY <1>2, <1>3, <2>1, <2>2, <2>4
<1>4. ASSUME Len(walk) >= R PROVE \A g \in G : g \in Plan!Range(walk)
  <2>1. \A g \in G : \E k \in 1 .. Len(walk) : walk[k] = g
    BY <1>1, <1>4, RoundIsAll
  <2> QED BY <1>2, <2>1 DEF Plan!Range
<1> QED BY <1>0, <1>3, <1>4 DEF Plan!WalkVisitsEveryGap, G
-----------------------------------------------------------------------------
(* Sums over finite sets, as the scoring engine takes them: element after  *)
(* element, in an order of its own, which does not matter.                 *)
SumsTo(w, S, g) ==
  g = [s \in SUBSET S |-> IF s = {} THEN 0 ELSE w[CHOOSE x \in s : TRUE] + g[s \ {CHOOSE x \in s : TRUE}]]
SumOf(w, S) == (CHOOSE g : SumsTo(w, S, g))[S]

LEMMA SumIs == ASSUME NEW w, NEW S PROVE Scoring!MapThenSumSet(LAMBDA x : w[x], S) = SumOf(w, S)
BY DEF Scoring!MapThenSumSet, Scoring!MapThenFoldSet, SumOf, SumsTo

\* The equation, as far as sets of n elements.
SumsUpTo(w, S, g, n) ==
  \A s \in SUBSET S : Cardinality(s) <= n =>
    g[s] = IF s = {} THEN 0 ELSE w[CHOOSE x \in s : TRUE] + g[s \ {CHOOSE x \in s : TRUE}]

LEMMA Fewer ==
  ASSUME NEW S, IsFiniteSet(S), NEW s \in SUBSET S, NEW x \in s
  PROVE  /\ s \ {x} \in SUBSET S /\ IsFiniteSet(s) /\ IsFiniteSet(s \ {x})
         /\ Cardinality(s) \in Nat /\ Cardinality(s \ {x}) \in Nat /\ Cardinality(s) = Cardinality(s \ {x}) + 1
<1>1. IsFiniteSet(s)
  BY FS_Subset
<1>2. IsFiniteSet(s \ {x}) /\ Cardinality(s) \in Nat /\ Cardinality(s \ {x}) \in Nat
  BY <1>1, FS_Subset, FS_CardinalityType
<1>3. Cardinality(s \ {x}) = Cardinality(s) - 1
  BY <1>1, FS_RemoveElement
<1> QED BY <1>1, <1>2, <1>3

LEMMA SumsExist ==
  ASSUME NEW S, IsFiniteSet(S), NEW w \in [S -> Nat]
  PROVE  \E g \in [SUBSET S -> Nat] : SumsTo(w, S, g)
<1> DEFINE F(g, s) == IF s = {} THEN 0 ELSE w[CHOOSE x \in s : TRUE] + g[s \ {CHOOSE x \in s : TRUE}]
           Bad == {n \in Nat : ~ \E g \in [SUBSET S -> Nat] : SumsUpTo(w, S, g, n)}
<1>1. ASSUME Bad # {} PROVE FALSE
  <2>1. Bad \in SUBSET Nat
    OBVIOUS
  <2> HIDE DEF Bad
  <2>2. PICK n \in Bad : \A p \in Bad : n <= p
    BY <1>1, <2>1, LeastNatural
  <2>3. n \in Nat /\ ~ \E g \in [SUBSET S -> Nat] : SumsUpTo(w, S, g, n)
    BY DEF Bad
  <2>4. CASE n = 0
    <3> DEFINE g == [s \in SUBSET S |-> 0]
    <3>1. \A s \in SUBSET S : Cardinality(s) <= 0 => s = {}
      <4> SUFFICES ASSUME NEW s \in SUBSET S, Cardinality(s) <= 0 PROVE s = {}
        OBVIOUS
      <4>1. IsFiniteSet(s) /\ Cardinality(s) \in Nat
        BY FS_Subset, FS_CardinalityType
      <4> QED BY <4>1, FS_EmptySet
    <3>2. g \in [SUBSET S -> Nat]
      OBVIOUS
    <3>3. SumsUpTo(w, S, g, 0)
      BY <3>1 DEF SumsUpTo
    <3> QED BY <2>3, <2>4, <3>2, <3>3
  <2>5. CASE n # 0
    <3>1. n - 1 \in Nat /\ n - 1 \notin Bad
      BY <2>2, <2>3, <2>5
    <3>2. PICK g \in [SUBSET S -> Nat] : SumsUpTo(w, S, g, n - 1)
      BY <3>1 DEF Bad
    <3> DEFINE h == [s \in SUBSET S |-> IF Cardinality(s) = n THEN F(g, s) ELSE g[s]]
    <3>3. ASSUME NEW s \in SUBSET S, s # {}
          PROVE  LET x == CHOOSE x \in s : TRUE IN x \in s /\ s \ {x} \in SUBSET S /\ Cardinality(s) \in Nat
                   /\ Cardinality(s \ {x}) \in Nat /\ Cardinality(s) = Cardinality(s \ {x}) + 1
                   /\ w[x] \in Nat /\ g[s \ {x}] \in Nat
      <4> DEFINE x == CHOOSE x \in s : TRUE
      <4>1. x \in s
        BY <3>3
      <4> HIDE DEF x
      <4>2. s \ {x} \in SUBSET S /\ Cardinality(s) \in Nat
                   /\ Cardinality(s \ {x}) \in Nat /\ Cardinality(s) = Cardinality(s \ {x}) + 1
        BY <4>1, Fewer
      <4>3. x \in S
        BY <4>1
      <4>4. w[x] \in Nat /\ g[s \ {x}] \in Nat
        BY <4>2, <4>3
      <4> QED BY <4>1, <4>2, <4>4 DEF x
    <3>4. \A s \in SUBSET S : F(g, s) \in Nat
      BY <3>3
    <3>5. h \in [SUBSET S -> Nat]
      <4> HIDE DEF F
      <4> QED BY <3>4
    <3>6. ASSUME NEW s \in SUBSET S, Cardinality(s) <= n PROVE h[s] = F(h, s)
      <4>1. CASE s = {}
        <5>1. Cardinality(s) = 0
          BY <4>1, FS_EmptySet
        <5>2. g[s] = 0
          BY <3>1, <3>2, <4>1, <5>1 DEF SumsUpTo
        <5> QED BY <2>5, <4>1, <5>1, <5>2
      <4>2. CASE s # {}
        <5> DEFINE x == CHOOSE x \in s : TRUE
        <5>1. x \in s /\ s \ {x} \in SUBSET S /\ Cardinality(s) \in Nat
                   /\ Cardinality(s \ {x}) \in Nat /\ Cardinality(s) = Cardinality(s \ {x}) + 1
          BY <3>3, <4>2
        <5>2. Cardinality(s \ {x}) # n
          BY <2>3, <3>6, <5>1
        <5>3. h[s \ {x}] = g[s \ {x}]
          BY <5>1, <5>2
        <5>4. F(h, s) = F(g, s)
          BY <4>2, <5>3
        <5>5. CASE Cardinality(s) = n
          BY <5>4, <5>5
        <5>6. CASE Cardinality(s) # n
          <6>1. Cardinality(s) <= n - 1
            BY <2>3, <3>6, <5>1, <5>6
          <6>2. g[s] = F(g, s)
            BY <3>2, <6>1 DEF SumsUpTo
          <6> QED BY <5>4, <5>6, <6>2
        <5> QED BY <5>5, <5>6
      <4> QED BY <4>1, <4>2
    <3>7. SumsUpTo(w, S, h, n)
      <4> HIDE DEF h
      <4> QED BY <3>6 DEF SumsUpTo
    <3> QED BY <2>3, <3>5, <3>7
  <2> QED BY <2>4, <2>5
<1>2. Cardinality(S) \in Nat /\ Cardinality(S) \notin Bad
  BY <1>1, FS_CardinalityType
<1>3. PICK g \in [SUBSET S -> Nat] : SumsUpTo(w, S, g, Cardinality(S))
  BY <1>2
<1>4. \A s \in SUBSET S : Cardinality(s) <= Cardinality(S)
  BY FS_Subset
<1>5. \A s \in SUBSET S : g[s] = F(g, s)
  BY <1>3, <1>4 DEF SumsUpTo
<1>6. SumsTo(w, S, g)
  <2>1. g = [s \in SUBSET S |-> g[s]]
    OBVIOUS
  <2> QED BY <1>5, <2>1 DEF SumsTo
<1> QED BY <1>6

LEMMA SumsOnce ==
  ASSUME NEW S, IsFiniteSet(S), NEW w, NEW g, NEW h, NEW T \in SUBSET S, SumsTo(w, S, g), SumsTo(w, T, h)
  PROVE  \A s \in SUBSET T : g[s] = h[s]
<1> DEFINE Bad == {n \in Nat : \E s \in SUBSET T : Cardinality(s) = n /\ g[s] # h[s]}
<1>1. ASSUME Bad # {} PROVE FALSE
  <2>1. Bad \in SUBSET Nat
    OBVIOUS
  <2> HIDE DEF Bad
  <2>2. PICK n \in Bad : \A p \in Bad : n <= p
    BY <1>1, <2>1, LeastNatural
  <2>3. PICK s \in SUBSET T : Cardinality(s) = n /\ g[s] # h[s]
    BY DEF Bad
  <2>4. s # {}
    BY <2>3 DEF SumsTo
  <2> DEFINE x == CHOOSE x \in s : TRUE
  <2>5. x \in s
    BY <2>4
  <2>6. g[s] = w[x] + g[s \ {x}] /\ h[s] = w[x] + h[s \ {x}]
    BY <2>4 DEF SumsTo
  <2> HIDE DEF x
  <2>7. s \in SUBSET S
    OBVIOUS
  <2>8. Cardinality(s \ {x}) \in Nat /\ Cardinality(s) = Cardinality(s \ {x}) + 1 /\ s \ {x} \in SUBSET T
    BY <2>5, <2>7, Fewer
  <2>9. Cardinality(s \ {x}) \in Bad
    BY <2>3, <2>6, <2>8 DEF Bad
  <2>10. n <= Cardinality(s \ {x})
    BY <2>2, <2>9
  <2>11. n = Cardinality(s)
    BY <2>3
  <2> QED BY <2>8, <2>10, <2>11
<1>2. ASSUME NEW s \in SUBSET T PROVE Cardinality(s) \in Nat
  <2>1. IsFiniteSet(s)
    BY FS_Subset
  <2> QED BY <2>1, FS_CardinalityType
<1> QED BY <1>1, <1>2

\* What one function sums to over the subsets of S.
Sums(w, S, g) == SumsTo(w, S, g) /\ g \in [SUBSET S -> Nat] /\ \A s \in SUBSET S : SumOf(w, s) = g[s]
LEMMA SumsAre ==
  ASSUME NEW S, IsFiniteSet(S), NEW w \in [S -> Nat]
  PROVE  \E g : Sums(w, S, g)
<1>1. PICK g \in [SUBSET S -> Nat] : SumsTo(w, S, g)
  BY SumsExist
<1>2. ASSUME NEW s \in SUBSET S PROVE SumOf(w, s) = g[s]
  <2> DEFINE f == CHOOSE f : SumsTo(w, s, f)
             u == [x \in s |-> w[x]]
  <2>1. IsFiniteSet(s)
    BY FS_Subset
  <2>2. SumsTo(w, s, [t \in SUBSET s |-> g[t]])
    <3>1. \A t \in SUBSET s : t \in SUBSET S /\ t \ {CHOOSE x \in t : TRUE} \in SUBSET s
      OBVIOUS
    <3> QED BY <1>1, <3>1 DEF SumsTo
  <2>3. SumsTo(w, s, f)
    BY <2>2
  <2> HIDE DEF f
  <2>4. g[s] = f[s]
    BY <1>1, <2>3, SumsOnce
  <2> QED BY <2>4 DEF SumOf, f
<1> QED BY <1>1, <1>2 DEF Sums

LEMMA SumNat == ASSUME NEW S, IsFiniteSet(S), NEW w \in [S -> Nat] PROVE SumOf(w, S) \in Nat
<1>1. PICK g : Sums(w, S, g)
  BY SumsAre
<1>2. S \in SUBSET S
  OBVIOUS
<1> QED BY <1>1, <1>2 DEF Sums

LEMMA SumEmpty == ASSUME NEW w PROVE SumOf(w, {}) = 0
<1> DEFINE f == CHOOSE f : SumsTo(w, {}, f)
<1>1. SumsTo(w, {}, [s \in SUBSET {} |-> 0])
  BY DEF SumsTo
<1>2. SumsTo(w, {}, f)
  BY <1>1
<1> HIDE DEF f
<1>3. f[{}] = 0
  BY <1>2 DEF SumsTo
<1> QED BY <1>3 DEF SumOf, f

LEMMA SumAdd ==
  ASSUME NEW S, IsFiniteSet(S), NEW w \in [S -> Nat], NEW T \in SUBSET S, NEW x \in S \ T
  PROVE  SumOf(w, T \cup {x}) = w[x] + SumOf(w, T)
<1>1. PICK g : Sums(w, S, g)
  BY SumsAre
<1> DEFINE Bad == {n \in Nat : \E s \in SUBSET S : Cardinality(s) = n /\ \E y \in S \ s : g[s \cup {y}] # w[y] + g[s]}
<1>2. ASSUME Bad # {} PROVE FALSE
  <2>1. Bad \in SUBSET Nat
    OBVIOUS
  <2> HIDE DEF Bad
  <2>2. PICK n \in Bad : \A p \in Bad : n <= p
    BY <1>2, <2>1, LeastNatural
  <2>3. PICK s \in SUBSET S : Cardinality(s) = n /\ \E y \in S \ s : g[s \cup {y}] # w[y] + g[s]
    BY DEF Bad
  <2>4. PICK y \in S \ s : g[s \cup {y}] # w[y] + g[s]
    BY <2>3
  <2> DEFINE u == s \cup {y}
             c == CHOOSE c \in u : TRUE
  <2>5. c \in u /\ u \in SUBSET S
    BY <2>4
  <2>6. g[u] = w[c] + g[u \ {c}]
    BY <1>1, <2>5 DEF Sums, SumsTo
  <2> HIDE DEF c
  <2>7. c # y
    <3>1. u \ {y} = s
      BY <2>4
    <3> QED BY <2>4, <2>6, <3>1
  <2>8. c \in s /\ u \ {c} = (s \ {c}) \cup {y} /\ s = (s \ {c}) \cup {c} /\ y \notin s \ {c} /\ c \notin s \ {c}
    BY <2>4, <2>5, <2>7
  <2>9. s \ {c} \in SUBSET S /\ Cardinality(s \ {c}) \in Nat /\ Cardinality(s) = Cardinality(s \ {c}) + 1
    BY <2>8, Fewer
  <2>10. Cardinality(s \ {c}) \notin Bad
    <3>1. n = Cardinality(s)
      BY <2>3
    <3>2. ~ (n <= Cardinality(s \ {c}))
      BY <2>9, <3>1
    <3> QED BY <2>2, <3>2
  <2>11. \A z \in S \ (s \ {c}) : g[(s \ {c}) \cup {z}] = w[z] + g[s \ {c}]
    BY <2>9, <2>10 DEF Bad
  <2>12. g[u \ {c}] = w[y] + g[s \ {c}]
    BY <2>4, <2>8, <2>11
  <2>13. g[s] = w[c] + g[s \ {c}]
    BY <2>8, <2>11
  <2>14. w[c] \in Nat /\ w[y] \in Nat /\ g[s \ {c}] \in Nat
    BY <1>1, <2>4, <2>5, <2>9 DEF Sums
  <2>15. g[u] = w[c] + (w[y] + g[s \ {c}]) /\ w[y] + g[s] = w[y] + (w[c] + g[s \ {c}])
    BY <2>6, <2>12, <2>13
  <2>16. g[u] = w[y] + g[s]
    BY <2>14, <2>15
  <2> QED BY <2>4, <2>16
<1>3. Cardinality(T) \in Nat
  <2>1. IsFiniteSet(T)
    BY FS_Subset
  <2> QED BY <2>1, FS_CardinalityType
<1>4. g[T \cup {x}] = w[x] + g[T]
  BY <1>2, <1>3
<1>5. T \cup {x} \in SUBSET S
  OBVIOUS
<1> QED BY <1>1, <1>4, <1>5 DEF Sums

\* Two parts that share nothing.
LEMMA SumUnion ==
  ASSUME NEW S, IsFiniteSet(S), NEW w \in [S -> Nat], NEW T \in SUBSET S, NEW U \in SUBSET S, T \cap U = {}
  PROVE  SumOf(w, T \cup U) = SumOf(w, T) + SumOf(w, U)
<1> DEFINE Holds(V) == SumOf(w, T \cup V) = SumOf(w, T) + SumOf(w, V)
           Bad == {n \in Nat : \E V \in SUBSET U : Cardinality(V) = n /\ ~Holds(V)}
<1>0. \A V \in SUBSET S : SumOf(w, V) \in Nat /\ IsFiniteSet(V) /\ Cardinality(V) \in Nat
  <2> SUFFICES ASSUME NEW V \in SUBSET S PROVE SumOf(w, V) \in Nat /\ IsFiniteSet(V) /\ Cardinality(V) \in Nat
    OBVIOUS
  <2>1. IsFiniteSet(V)
    BY FS_Subset
  <2>2. PICK g : Sums(w, S, g)
    BY SumsAre
  <2> QED BY <2>1, <2>2, FS_CardinalityType DEF Sums
<1>1. ASSUME Bad # {} PROVE FALSE
  <2>1. Bad \in SUBSET Nat
    OBVIOUS
  <2> HIDE DEF Bad
  <2>2. PICK n \in Bad : \A p \in Bad : n <= p
    BY <1>1, <2>1, LeastNatural
  <2>3. PICK V \in SUBSET U : Cardinality(V) = n /\ ~Holds(V)
    BY DEF Bad
  <2>4. V # {}
    <3>1. SumOf(w, T \cup {}) = SumOf(w, T) + SumOf(w, {})
      <4>1. T \cup {} = T
        OBVIOUS
      <4> QED BY <1>0, <4>1, SumEmpty
    <3> QED BY <2>3, <3>1
  <2>5. PICK x \in V : TRUE
    BY <2>4
  <2> DEFINE R == V \ {x}
  <2>6. R \in SUBSET U /\ R \in SUBSET S /\ V = R \cup {x} /\ x \in S \ R /\ T \cup V = (T \cup R) \cup {x} /\ x \in S \ (T \cup R)
        /\ T \cup R \in SUBSET S
    BY <2>5
  <2>7. V \in SUBSET S
    OBVIOUS
  <2>8. Cardinality(R) \in Nat /\ Cardinality(V) = Cardinality(R) + 1
    BY <2>5, <2>7, Fewer
  <2> HIDE DEF R
  <2>9. Cardinality(R) \notin Bad
    <3>1. n = Cardinality(V)
      BY <2>3
    <3>2. ~ (n <= Cardinality(R))
      BY <2>8, <3>1
    <3> QED BY <2>2, <3>2
  <2>10. Holds(R)
    BY <2>6, <2>8, <2>9 DEF Bad
  <2>11. SumOf(w, V) = w[x] + SumOf(w, R) /\ SumOf(w, T \cup V) = w[x] + SumOf(w, T \cup R)
    BY <2>6, SumAdd
  <2>12. w[x] \in Nat /\ SumOf(w, R) \in Nat /\ SumOf(w, T) \in Nat
    BY <1>0, <2>6
  <2>13. SumOf(w, T \cup V) = SumOf(w, T) + SumOf(w, V)
    BY <2>10, <2>11, <2>12
  <2> QED BY <2>3, <2>13
<1> QED BY <1>0, <1>1

LEMMA SumGrows ==
  ASSUME NEW S, IsFiniteSet(S), NEW w \in [S -> Nat], NEW U \in SUBSET S, NEW T \in SUBSET U
  PROVE  SumOf(w, T) \in Nat /\ SumOf(w, U) \in Nat /\ SumOf(w, T) <= SumOf(w, U)
<1>1. T \in SUBSET S /\ U \ T \in SUBSET S /\ T \cap (U \ T) = {} /\ T \cup (U \ T) = U
  OBVIOUS
<1>2. SumOf(w, U) = SumOf(w, T) + SumOf(w, U \ T)
  BY <1>1, SumUnion
<1>3. PICK g : Sums(w, S, g)
  BY SumsAre
<1>4. SumOf(w, T) \in Nat /\ SumOf(w, U \ T) \in Nat
  BY <1>1, <1>3 DEF Sums
<1> QED BY <1>2, <1>4

\* The sum of the sums of the groups is the sum of all.
LEMMA SumGroups ==
  ASSUME NEW S, IsFiniteSet(S), NEW w \in [S -> Nat], NEW T \in SUBSET S, NEW V, IsFiniteSet(V), NEW k \in [T -> V],
         NEW u \in [V -> Nat], \A v \in V : u[v] = SumOf(w, {x \in T : k[x] = v})
  PROVE  SumOf(u, V) = SumOf(w, T)
<1> DEFINE Of(P) == {x \in T : k[x] \in P}
           Bad == {n \in Nat : \E P \in SUBSET V : Cardinality(P) = n /\ SumOf(u, P) # SumOf(w, Of(P))}
<1>1. ASSUME Bad # {} PROVE FALSE
  <2>1. Bad \in SUBSET Nat
    OBVIOUS
  <2> HIDE DEF Bad
  <2>2. PICK n \in Bad : \A p \in Bad : n <= p
    BY <1>1, <2>1, LeastNatural
  <2>3. PICK P \in SUBSET V : Cardinality(P) = n /\ SumOf(u, P) # SumOf(w, Of(P))
    BY DEF Bad
  <2>4. P # {}
    <3>1. Of({}) = {}
      OBVIOUS
    <3> QED BY <2>3, <3>1, SumEmpty
  <2>5. PICK v \in P : TRUE
    BY <2>4
  <2> DEFINE R == P \ {v}
             Q == {x \in T : k[x] = v}
  <2>6. R \in SUBSET V /\ P = R \cup {v} /\ v \in V \ R
    BY <2>5
  <2>7. Cardinality(R) \in Nat /\ Cardinality(P) = Cardinality(R) + 1
    BY <2>5, Fewer
  <2>8. Of(R) \in SUBSET S /\ Q \in SUBSET S /\ Of(R) \cap Q = {} /\ Of(P) = Of(R) \cup Q
    BY <2>6
  <2>14. u[v] = SumOf(w, Q)
    BY <2>6
  <2> HIDE DEF R, Q
  <2>9. Cardinality(R) \notin Bad
    <3>1. n = Cardinality(P)
      BY <2>3
    <3>2. ~ (n <= Cardinality(R))
      BY <2>7, <3>1
    <3> QED BY <2>2, <3>2
  <2>10. SumOf(u, R) = SumOf(w, Of(R))
    BY <2>6, <2>7, <2>9 DEF Bad
  <2> HIDE DEF Of
  <2>11. SumOf(u, P) = u[v] + SumOf(u, R)
    BY <2>6, SumAdd
  <2>12. SumOf(w, Of(P)) = SumOf(w, Of(R)) + SumOf(w, Q)
    BY <2>8, SumUnion
  <2>13. u[v] \in Nat /\ SumOf(w, Of(R)) \in Nat
    <3>1. PICK g : Sums(w, S, g)
      BY SumsAre
    <3> QED BY <2>6, <2>8, <3>1 DEF Sums
  <2> QED BY <2>3, <2>10, <2>11, <2>12, <2>13, <2>14
<1>2. Cardinality(V) \in Nat /\ Of(V) = T
  BY FS_CardinalityType
<1> QED BY <1>1, <1>2
-----------------------------------------------------------------------------
(* The scoring engine: whatever the weights and the ballots, the masses of *)
(* the themes share out the weight of those who voted.                     *)
ScoringInv == ballots \in [Annotators -> Ballot] /\ cfg \in EngineConfig
ScoringRanks == ThemesAreRanks /\ NoThemeIsNoRank /\ AnnotatorsFinite

LEMMA ScoringInitial ==
  ASSUME Scoring!Init, Configurations \subseteq EngineConfig, NoThemeIsNoRank
  PROVE  ScoringInv
BY DEF Scoring!Init, ScoringInv, Scoring!Abstention, Ballot

LEMMA ScoringStep ==
  ASSUME ScoringInv, Scoring!Next, CastBallots \subseteq Ballot
  PROVE  ScoringInv'
BY DEF ScoringInv, Scoring!Next, Scoring!Revise

LEMMA ScoringVotes ==
  ASSUME ScoringInv, ScoringRanks
  PROVE  LET C == Scoring!Covering(ballots)
             V == Scoring!VotedThemes(ballots)
         IN /\ C \in SUBSET Annotators /\ IsFiniteSet(C) /\ IsFiniteSet(Annotators)
            /\ V \in SUBSET Themes /\ V \in SUBSET Nat /\ IsFiniteSet(V) /\ NoTheme \notin V
            /\ \A t \in V : Scoring!Supporters(ballots, t) \in SUBSET C
            /\ C = {} <=> V = {}
<1> DEFINE C == Scoring!Covering(ballots)
           V == Scoring!VotedThemes(ballots)
<1>1. C \in SUBSET Annotators
  BY DEF Scoring!Covering
<1>2. IsFiniteSet(C) /\ IsFiniteSet(Annotators)
  BY <1>1, FS_Subset DEF ScoringRanks, AnnotatorsFinite
<1>3. V \in SUBSET Themes
  BY DEF Scoring!VotedThemes, Scoring!Covering, ScoringInv, Ballot
<1>4. V \in SUBSET Nat /\ IsFiniteSet(V) /\ NoTheme \notin V
  BY <1>3, FS_Subset DEF ScoringRanks, ThemesAreRanks, NoThemeIsNoRank
<1>5. \A t \in V : Scoring!Supporters(ballots, t) \in SUBSET C
  BY DEF Scoring!Supporters
<1>6. C = {} <=> V = {}
  BY DEF Scoring!VotedThemes
<1> QED BY <1>1, <1>2, <1>3, <1>4, <1>5, <1>6

LEMMA ScoringTally ==
  ASSUME ScoringInv
  PROVE  LET w == cfg.weight
             V == Scoring!VotedThemes(ballots)
             tally == Scoring!Tally(ballots, cfg)
         IN w \in [Annotators -> Nat] /\ tally = [t \in V |-> SumOf(w, Scoring!Supporters(ballots, t))]
<1>1. cfg.weight \in [Annotators -> Nat]
  BY DEF ScoringInv, EngineConfig
<1>2. Scoring!Tally(ballots, cfg) = [t \in Scoring!VotedThemes(ballots) |-> SumOf(cfg.weight, Scoring!Supporters(ballots, t))]
  BY DEF Scoring!Tally, Scoring!MapThenSumSet, Scoring!MapThenFoldSet, SumOf, SumsTo
<1> QED BY <1>1, <1>2

LEMMA ScoringMass == ASSUME NEW S PROVE Scoring!Mass(S) = SumOf(cfg.weight, S)
BY DEF Scoring!Mass, Scoring!MapThenSumSet, Scoring!MapThenFoldSet, SumOf, SumsTo

\* Each theme has its part of the whole.
LEMMA ScoringShares ==
  ASSUME ScoringInv, ScoringRanks
  PROVE  LET w == cfg.weight
             C == Scoring!Covering(ballots)
             V == Scoring!VotedThemes(ballots)
             tally == Scoring!Tally(ballots, cfg)
         IN /\ tally \in [V -> Nat] /\ SumOf(w, C) \in Nat
            /\ \A t \in V : tally[t] = SumOf(w, Scoring!Supporters(ballots, t)) /\ tally[t] <= SumOf(w, C)
            /\ Scoring!TotalMass(tally) = SumOf(w, C) /\ SumOf(tally, V) = SumOf(w, C)
<1> DEFINE w == cfg.weight
           C == Scoring!Covering(ballots)
           V == Scoring!VotedThemes(ballots)
           tally == Scoring!Tally(ballots, cfg)
           k == [x \in C |-> ballots[x].primary]
<1>1. C \in SUBSET Annotators /\ IsFiniteSet(C) /\ IsFiniteSet(Annotators) /\ IsFiniteSet(V)
      /\ \A t \in V : Scoring!Supporters(ballots, t) \in SUBSET C
  BY ScoringVotes
<1>2. w \in [Annotators -> Nat] /\ tally = [t \in V |-> SumOf(w, Scoring!Supporters(ballots, t))]
  BY ScoringTally
<1>3. k \in [C -> V] /\ \A t \in V : {x \in C : k[x] = t} = Scoring!Supporters(ballots, t)
  BY DEF Scoring!VotedThemes, Scoring!Supporters
<1>9. \A g : Scoring!TotalMass(g) = SumOf(g, DOMAIN g)
  BY DEF Scoring!TotalMass, Scoring!MapThenSumSet, Scoring!MapThenFoldSet, SumOf, SumsTo
<1> HIDE DEF w, C, V, tally, k
<1>4. ASSUME NEW t \in V
      PROVE  /\ tally[t] = SumOf(w, Scoring!Supporters(ballots, t)) /\ tally[t] <= SumOf(w, C)
             /\ tally[t] \in Nat /\ SumOf(w, C) \in Nat
  <2>1. Scoring!Supporters(ballots, t) \in SUBSET C
    BY <1>1
  <2>2. SumOf(w, Scoring!Supporters(ballots, t)) \in Nat /\ SumOf(w, C) \in Nat
        /\ SumOf(w, Scoring!Supporters(ballots, t)) <= SumOf(w, C)
    BY <1>1, <1>2, <2>1, SumGrows
  <2> QED BY <1>2, <2>2
<1>5. SumOf(w, C) \in Nat
  BY <1>1, <1>2, SumGrows
<1>6. tally \in [V -> Nat]
  BY <1>2, <1>4
<1>7. \A t \in V : tally[t] = SumOf(w, {x \in C : k[x] = t})
  BY <1>3, <1>4
<1>8. SumOf(tally, V) = SumOf(w, C)
  BY <1>1, <1>2, <1>3, <1>6, <1>7, SumGroups
<1>10. Scoring!TotalMass(tally) = SumOf(w, C)
  BY <1>6, <1>8, <1>9
<1> QED BY <1>4, <1>5, <1>6, <1>8, <1>10 DEF w, C, V, tally

\* The engine finds the heaviest theme, the first in order among equals.
LEMMA ScoringTop ==
  ASSUME ScoringInv, ScoringRanks
  PROVE  LET V == Scoring!VotedThemes(ballots)
             tally == Scoring!Tally(ballots, cfg)
             top == Scoring!Argmax(tally)
         IN /\ V = {} => top = NoTheme
            /\ V # {} => /\ top \in V
                         /\ \A o \in V : tally[o] < tally[top] \/ (tally[o] = tally[top] /\ top <= o)
<1> DEFINE V == Scoring!VotedThemes(ballots)
           tally == Scoring!Tally(ballots, cfg)
           T == {tally[t] : t \in V}
           top == Scoring!Argmax(tally)
           n == SumOf(cfg.weight, Scoring!Covering(ballots))
<1>1. V \in SUBSET Nat
  BY ScoringVotes
<1>2. tally \in [V -> Nat] /\ n \in Nat /\ \A t \in V : tally[t] <= n
  BY ScoringShares
<1>3. (V = {} => top = NoTheme)
      /\ (V # {} => top = CHOOSE t \in V : \A o \in V : tally[o] < tally[t] \/ (tally[o] = tally[t] /\ t <= o))
  BY <1>2 DEF Scoring!Argmax
<1> HIDE DEF V, tally, top, n
<1>4. ASSUME V # {} PROVE \E t \in V : \A o \in V : tally[o] < tally[t] \/ (tally[o] = tally[t] /\ t <= o)
  <2>1. T \in SUBSET Nat /\ T # {} /\ \A p \in T : p <= n
    BY <1>2, <1>4
  <2>2. PICK m \in T : \A p \in T : p <= m
    <3> HIDE DEF T
    <3> QED BY <1>2, <2>1, GreatestNatural
  <2> DEFINE U == {t \in V : tally[t] = m}
  <2>3. U \in SUBSET Nat /\ U # {}
    BY <1>1, <2>2
  <2>4. PICK t \in U : \A o \in U : t <= o
    <3> HIDE DEF U
    <3> QED BY <2>3, LeastNatural
  <2>5. ASSUME NEW o \in V PROVE tally[o] < tally[t] \/ (tally[o] = tally[t] /\ t <= o)
    <3>1. tally[o] \in Nat /\ tally[t] \in Nat /\ tally[o] <= m /\ tally[t] = m
      BY <1>2, <2>2, <2>4
    <3>2. CASE tally[o] = m
      <4>1. o \in U
        BY <3>2
      <4> QED BY <2>4, <3>1, <3>2, <4>1
    <3> QED BY <3>1, <3>2
  <2> QED BY <2>4, <2>5
<1> QED BY <1>3, <1>4 DEF V, tally, top

\* Two themes that share the lead have at most half of the weight each.
LEMMA ScoringTie ==
  ASSUME ScoringInv, ScoringRanks, Scoring!IsTie(Scoring!Tally(ballots, cfg))
  PROVE  ~ Scoring!IsMajority(Scoring!Tally(ballots, cfg), Scoring!Argmax(Scoring!Tally(ballots, cfg)))
<1> DEFINE V == Scoring!VotedThemes(ballots)
           tally == Scoring!Tally(ballots, cfg)
           top == Scoring!Argmax(tally)
           total == Scoring!TotalMass(tally)
<1>1. tally \in [V -> Nat] /\ total = SumOf(tally, V) /\ IsFiniteSet(V)
  BY ScoringShares, ScoringVotes
<1>2. PICK t \in V, o \in V : t # o /\ tally[t] = tally[o] /\ \A x \in V : tally[x] <= tally[t]
  BY <1>1 DEF Scoring!IsTie
<1>3. top \in V
  BY <1>2, ScoringTop
<1>4. Scoring!IsMajority(tally, top) <=> 2 * tally[top] > total
  BY DEF Scoring!IsMajority
<1> HIDE DEF V, tally, top, total
<1>5. SumOf(tally, {o}) = tally[o]
  <2>1. o \in V \ {} /\ {} \in SUBSET V /\ {} \cup {o} = {o}
    OBVIOUS
  <2>4. \A P \in SUBSET V : \A y \in V \ P : SumOf(tally, P \cup {y}) = tally[y] + SumOf(tally, P)
    BY <1>1, SumAdd
  <2>2. SumOf(tally, {o}) = tally[o] + SumOf(tally, {})
    BY <2>1, <2>4
  <2>3. tally[o] \in Nat
    BY <1>1
  <2> QED BY <2>1, <2>2, <2>3, SumEmpty
<1>6. SumOf(tally, {o} \cup {t}) = tally[t] + tally[o]
  <2>1. t \in V \ {o} /\ {o} \in SUBSET V
    BY <1>2
  <2> QED BY <1>1, <1>5, <2>1, SumAdd
<1>7. SumOf(tally, V) \in Nat /\ tally[t] + tally[o] <= SumOf(tally, V)
  <2>1. {o} \cup {t} \in SUBSET V /\ V \in SUBSET V
    OBVIOUS
  <2>2. SumOf(tally, V) \in Nat /\ SumOf(tally, {o} \cup {t}) <= SumOf(tally, V)
    BY <1>1, <2>1, SumGrows
  <2> QED BY <1>6, <2>2
<1>8. tally[t] \in Nat /\ tally[o] \in Nat /\ tally[top] \in Nat /\ tally[top] <= tally[t] /\ tally[t] = tally[o]
  BY <1>1, <1>2, <1>3
<1>9. ~ (2 * tally[top] > total)
  BY <1>1, <1>7, <1>8
<1> QED BY <1>4, <1>9 DEF tally, top, total

\* The cases of the class of agreement, in their order.
LEMMA ScoringClass ==
  LET tally == Scoring!Tally(ballots, cfg)
  IN Scoring!AgreementClass(ballots, cfg) =
       IF Scoring!Covering(ballots) = {} THEN "empty"
       ELSE IF Scoring!Cardinality(Scoring!VotedThemes(ballots)) = 1 /\ Scoring!SameSecondaries(ballots) THEN "strict"
       ELSE IF Scoring!IsMajority(tally, Scoring!Argmax(tally)) THEN "majority" ELSE "divergence"
<1> DEFINE tally == Scoring!Tally(ballots, cfg)
           one == Scoring!Cardinality(Scoring!VotedThemes(ballots)) = 1 /\ Scoring!SameSecondaries(ballots)
           none == Scoring!Covering(ballots) = {}
           more == IF Scoring!IsMajority(tally, Scoring!Argmax(tally)) THEN "majority" ELSE "divergence"
           class == Scoring!AgreementClass(ballots, cfg)
<1>1. class = CASE none -> "empty" [] one -> "strict" [] OTHER -> more
  BY DEF Scoring!AgreementClass
<1>2. none => ~one
  <2>1. none => Scoring!VotedThemes(ballots) = {}
    BY DEF Scoring!VotedThemes
  <2>2. Cardinality({}) = 0 /\ Scoring!Cardinality({}) = Cardinality({})
    BY FS_EmptySet DEF Scoring!Cardinality, Cardinality
  <2>3. Scoring!Cardinality({}) # 1
    BY <2>2
  <2> QED BY <2>1, <2>3
<1>3. class = IF none THEN "empty" ELSE IF one THEN "strict" ELSE more
  <2> HIDE DEF class, none, one, more
  <2>1. CASE none
    BY <1>1, <1>2, <2>1
  <2>2. CASE ~none /\ one
    BY <1>1, <2>2
  <2>3. CASE ~none /\ ~one
    BY <1>1, <2>3
  <2> QED BY <2>1, <2>2, <2>3
<1> QED BY <1>3

\* What a level written without an arbiter rests on.
LEMMA ScoringAuto ==
  ASSUME ScoringInv, Scoring!score.level \in Scoring!AutoLevels
  PROVE  LET V == Scoring!VotedThemes(ballots)
             tally == Scoring!Tally(ballots, cfg)
             top == Scoring!Argmax(tally)
         IN /\ Scoring!Covering(ballots) # {}
            /\ \/ Cardinality(V) = 1
               \/ Scoring!IsMajority(tally, top) /\ Scoring!TwoThirdsAgree(ballots, top)
<1> DEFINE class == Scoring!AgreementClass(ballots, cfg)
           tally == Scoring!Tally(ballots, cfg)
           top == Scoring!Argmax(tally)
<1>1. Scoring!AutoLevel(ballots, cfg) \in {"auto_1click", "auto"}
  BY DEF Scoring!score, Scoring!Score, Scoring!AutoLevels
<1>2. class = "strict" \/ (class = "majority" /\ Scoring!TwoThirdsAgree(ballots, top))
  BY <1>1 DEF Scoring!AutoLevel
<1>3. class = "strict" => Scoring!Covering(ballots) # {} /\ Cardinality(Scoring!VotedThemes(ballots)) = 1
  BY ScoringClass DEF Scoring!Cardinality, Cardinality
<1>4. class = "majority" => Scoring!Covering(ballots) # {} /\ Scoring!IsMajority(tally, top)
  BY ScoringClass
<1> QED BY <1>2, <1>3, <1>4

LEMMA ScoringNoTie == ASSUME ScoringInv, ScoringRanks PROVE Scoring!AutoIsNeverATie
<1> SUFFICES ASSUME Scoring!score.level \in Scoring!AutoLevels, Scoring!IsTie(Scoring!score.tally) PROVE FALSE
  BY DEF Scoring!AutoIsNeverATie
<1> DEFINE V == Scoring!VotedThemes(ballots)
           tally == Scoring!Tally(ballots, cfg)
<1>1. Scoring!score.tally = tally /\ DOMAIN tally = V
  BY DEF Scoring!score, Scoring!Score, Scoring!Tally
<1>2. Cardinality(V) >= 2
  BY <1>1 DEF Scoring!IsTie, Scoring!Cardinality, Cardinality
<1>3. ~ Scoring!IsMajority(tally, Scoring!Argmax(tally))
  BY <1>1, ScoringTie
<1>4. Cardinality(V) = 1
  BY <1>3, ScoringAuto
<1> QED BY <1>2, <1>4

LEMMA ScoringMajorities == ASSUME ScoringInv, ScoringRanks PROVE Scoring!AutoHasBothMajorities
<1> SUFFICES ASSUME Scoring!score.level \in Scoring!AutoLevels PROVE Scoring!AutoHasBothMajorities
  BY DEF Scoring!AutoHasBothMajorities
<1> DEFINE w == cfg.weight
           C == Scoring!Covering(ballots)
           V == Scoring!VotedThemes(ballots)
           tally == Scoring!Tally(ballots, cfg)
           top == Scoring!Argmax(tally)
           S == Scoring!Supporters(ballots, top)
<1>1. C # {} /\ V # {} /\ IsFiniteSet(C) /\ IsFiniteSet(V)
  BY ScoringAuto, ScoringVotes
<1>2. top \in V /\ S \in SUBSET C
  BY <1>1, ScoringTop, ScoringVotes
<1>3. Scoring!Mass(S) = SumOf(w, S) /\ Scoring!Mass(C) = SumOf(w, C) /\ SumOf(w, C) \in Nat
      /\ Scoring!TotalMass(tally) = SumOf(w, C) /\ tally[top] = SumOf(w, S)
  BY <1>2, ScoringMass, ScoringShares
<1>4. Scoring!score.primary = top
  BY DEF Scoring!score, Scoring!Score
<1>5. Cardinality(C) \in Nat
  BY <1>1, FS_CardinalityType
<1>6. CASE Cardinality(V) = 1
  <2>1. PICK x : V = {x}
    BY <1>1, <1>6, FS_Singleton
  <2>2. S = C
    BY <1>2, <2>1 DEF Scoring!Supporters, Scoring!VotedThemes
  <2>3. Scoring!Count(top) = Cardinality(C)
    BY <2>2 DEF Scoring!Count, Scoring!Cardinality, Cardinality
  <2> HIDE DEF C, S
  <2>4. 3 * Cardinality(C) >= 2 * Cardinality(C)
    BY <1>5
  <2>5. 2 * SumOf(w, C) > SumOf(w, C) \/ SumOf(w, C) = 0
    BY <1>3
  <2>6. 3 * Scoring!Count(top) >= 2 * Cardinality(C)
    BY <2>3, <2>4
  <2> QED BY <1>3, <1>4, <2>2, <2>5, <2>6 DEF Scoring!AutoHasBothMajorities, Scoring!Cardinality, Cardinality, C, S
<1>7. CASE Scoring!IsMajority(tally, top) /\ Scoring!TwoThirdsAgree(ballots, top)
  <2>1. 3 * Scoring!Count(top) >= 2 * Scoring!Cardinality(C)
    BY <1>7 DEF Scoring!TwoThirdsAgree, Scoring!Count
  <2>2. 2 * Scoring!Mass(S) > Scoring!Mass(C)
    BY <1>3, <1>7 DEF Scoring!IsMajority
  <2> QED BY <1>4, <2>1, <2>2 DEF Scoring!AutoHasBothMajorities
<1> QED BY <1>6, <1>7, ScoringAuto

LEMMA ScoringFirst == ASSUME ScoringInv, ScoringRanks PROVE Scoring!PrimaryIsFirstHeaviest
<1> DEFINE V == Scoring!VotedThemes(ballots)
           C == Scoring!Covering(ballots)
           tally == Scoring!Tally(ballots, cfg)
           top == Scoring!Argmax(tally)
<1>1. Scoring!score.primary = top
  BY DEF Scoring!score, Scoring!Score
<1>2. C = {} <=> V = {}
  BY ScoringVotes
<1>3. C = {} => top = NoTheme
  BY <1>2, ScoringTop
<1>4. ASSUME C # {}, NEW t \in V
      PROVE  /\ Scoring!Mass(Scoring!Supporters(ballots, t)) <= Scoring!Mass(Scoring!Supporters(ballots, top))
             /\ Scoring!Mass(Scoring!Supporters(ballots, t)) = Scoring!Mass(Scoring!Supporters(ballots, top)) => top <= t
  <2>1. top \in V /\ (tally[t] < tally[top] \/ (tally[t] = tally[top] /\ top <= t))
    BY <1>2, <1>4, ScoringTop
  <2>2. tally[t] \in Nat /\ tally[top] \in Nat
        /\ tally[t] = SumOf(cfg.weight, Scoring!Supporters(ballots, t))
        /\ tally[top] = SumOf(cfg.weight, Scoring!Supporters(ballots, top))
    BY <2>1, ScoringShares
  <2>3. Scoring!Mass(Scoring!Supporters(ballots, t)) = tally[t] /\ Scoring!Mass(Scoring!Supporters(ballots, top)) = tally[top]
    BY <2>2, ScoringMass
  <2> HIDE DEF tally, top
  <2> QED BY <2>1, <2>2, <2>3
<1> HIDE DEF V, C, top
<1> QED BY <1>1, <1>3, <1>4 DEF Scoring!PrimaryIsFirstHeaviest, V, C

LEMMA ScoringSecondaries == ASSUME ScoringInv PROVE Scoring!SecondariesAreShared
<1> DEFINE top == Scoring!Argmax(Scoring!Tally(ballots, cfg))
<1>1. Scoring!score.primary = top /\ Scoring!score.secondaries = Scoring!SharedSecondaries(ballots, cfg, top)
  BY DEF Scoring!score, Scoring!Score
<1> HIDE DEF top
<1>2. ASSUME NEW t \in Scoring!SharedSecondaries(ballots, cfg, top)
      PROVE  t # top /\ Scoring!Cardinality({x \in Scoring!Covering(ballots) : t \in ballots[x].secondaries}) >= cfg.secondaryMin
  BY DEF Scoring!SharedSecondaries
<1>3. ASSUME NEW t \in Scoring!SharedSecondaries(ballots, cfg, top)
      PROVE  cfg.secondaryMin <= Scoring!Cardinality({x \in Scoring!Covering(ballots) : t \in ballots[x].secondaries})
  BY <1>2
<1> QED BY <1>1, <1>2, <1>3 DEF Scoring!SecondariesAreShared

LEMMA ScoringHolds ==
  ASSUME ScoringInv, ScoringRanks
  PROVE  /\ Scoring!AutoIsNeverATie /\ Scoring!AutoHasBothMajorities
         /\ Scoring!PrimaryIsFirstHeaviest /\ Scoring!SecondariesAreShared
BY ScoringNoTie, ScoringMajorities, ScoringFirst, ScoringSecondaries

\* The search of the screens finds the theme the engine of the server chooses, and no other.
LEMMA ScoringHeaviest ==
  ASSUME ScoringInv, ScoringRanks
  PROVE  LET V == Scoring!VotedThemes(ballots)
             tally == Scoring!Tally(ballots, cfg)
         IN Scoring!Heaviest(tally) = IF V = {} THEN {} ELSE {Scoring!Argmax(tally)}
<1> DEFINE V == Scoring!VotedThemes(ballots)
           tally == Scoring!Tally(ballots, cfg)
           top == Scoring!Argmax(tally)
<1>1. V \in SUBSET Nat
  BY ScoringVotes
<1>2. tally \in [V -> Nat]
  BY ScoringShares
<1>3. V # {} => top \in V /\ \A o \in V : tally[o] < tally[top] \/ (tally[o] = tally[top] /\ top <= o)
  BY ScoringTop
<1> HIDE DEF V, tally, top
<1>4. Scoring!Heaviest(tally) = {t \in V : (\A u \in V : tally[u] <= tally[t]) /\ \A u \in V : u < t => tally[u] < tally[t]}
  BY <1>2 DEF Scoring!Heaviest
<1>5. ASSUME V # {} PROVE top \in Scoring!Heaviest(tally)
  <2>1. ASSUME NEW u \in V PROVE tally[u] <= tally[top] /\ (u < top => tally[u] < tally[top])
    <3>1. u \in Nat /\ top \in Nat /\ tally[u] \in Nat /\ tally[top] \in Nat
      BY <1>1, <1>2, <1>3, <1>5
    <3>2. tally[u] < tally[top] \/ (tally[u] = tally[top] /\ top <= u)
      BY <1>3, <1>5
    <3> QED BY <3>1, <3>2
  <2> QED BY <1>3, <1>4, <1>5, <2>1
<1>6. ASSUME V # {}, NEW t \in Scoring!Heaviest(tally) PROVE t = top
  <2>1. t \in V /\ tally[top] <= tally[t] /\ (top < t => tally[top] < tally[t])
    BY <1>3, <1>4, <1>6
  <2>2. t \in Nat /\ top \in Nat /\ tally[t] \in Nat /\ tally[top] \in Nat
    BY <1>1, <1>2, <1>3, <1>6, <2>1
  <2>3. tally[t] < tally[top] \/ (tally[t] = tally[top] /\ top <= t)
    BY <1>3, <1>6, <2>1
  <2> QED BY <2>1, <2>2, <2>3
<1>7. V = {} => Scoring!Heaviest(tally) = {}
  BY <1>4
<1> QED BY <1>5, <1>6, <1>7 DEF V, tally, top

\* The class and the level of the screens are the server's.
LEMMA ScoringMirrored ==
  ASSUME ScoringInv, ScoringRanks
  PROVE  /\ Scoring!Weighed(ballots, cfg) = Scoring!Tally(ballots, cfg)
         /\ Scoring!MirrorClass(ballots, cfg) = Scoring!AgreementClass(ballots, cfg)
         /\ Scoring!MirrorLevel(ballots, cfg) = Scoring!AutoLevel(ballots, cfg)
<1> DEFINE C == Scoring!Covering(ballots)
           V == Scoring!VotedThemes(ballots)
           tally == Scoring!Tally(ballots, cfg)
           top == Scoring!Argmax(tally)
           same == Scoring!SameSecondaries(ballots)
           H == Scoring!Heaviest(tally)
           class == Scoring!AgreementClass(ballots, cfg)
<1>1. Scoring!Weighed(ballots, cfg) = tally
  BY DEF Scoring!Weighed, Scoring!Tally, Scoring!VotedThemes, Scoring!Supporters, Scoring!MapThenSumSet,
         Scoring!MapThenFoldSet
<1>2. DOMAIN tally = V /\ (same <=> Scoring!Cardinality(Scoring!SecKeys(ballots)) = 1)
  BY DEF Scoring!Tally, Scoring!SameSecondaries, Scoring!SecKeys
<1>3. C # {} => H = {top}
  BY ScoringHeaviest, ScoringVotes
<1>4. C # {} => ((\E t \in H : 2 * tally[t] > Scoring!TotalMass(tally)) <=> Scoring!IsMajority(tally, top))
  <2> HIDE DEF C, tally, top, H
  <2> QED BY <1>3 DEF Scoring!IsMajority
<1>5. Scoring!MirrorClass(ballots, cfg) =
        IF C = {} THEN "empty"
        ELSE IF Scoring!Cardinality(V) = 1 /\ same THEN "strict"
        ELSE IF \E t \in H : 2 * tally[t] > Scoring!TotalMass(tally) THEN "majority" ELSE "divergence"
  <2> DEFINE w == Scoring!Weighed(ballots, cfg)
  <2>1. Scoring!MirrorClass(ballots, cfg) =
          IF C = {} THEN "empty"
          ELSE IF Scoring!Cardinality(DOMAIN w) = 1 /\ Scoring!Cardinality(Scoring!SecKeys(ballots)) = 1 THEN "strict"
          ELSE IF \E t \in Scoring!Heaviest(w) : 2 * w[t] > Scoring!TotalMass(w) THEN "majority" ELSE "divergence"
    BY DEF Scoring!MirrorClass, Scoring!TotalMass, Scoring!MapThenSumSet, Scoring!MapThenFoldSet
  <2> HIDE DEF C, V, tally, same, w
  <2>2. w = tally
    BY <1>1 DEF w
  <2> QED BY <1>2, <2>1, <2>2
<1>6. class = IF C = {} THEN "empty"
              ELSE IF Scoring!Cardinality(V) = 1 /\ same THEN "strict"
              ELSE IF Scoring!IsMajority(tally, top) THEN "majority" ELSE "divergence"
  BY ScoringClass
<1>7. Scoring!MirrorClass(ballots, cfg) = class
  <2> HIDE DEF C, V, tally, top, same, H, class
  <2> QED BY <1>4, <1>5, <1>6
<1>8. C # {} => ((\E t \in H : 3 * Scoring!Cardinality(Scoring!Supporters(ballots, t)) >= 2 * Scoring!Cardinality(C))
                   <=> Scoring!TwoThirdsAgree(ballots, top))
  <2> HIDE DEF tally, top, H
  <2> QED BY <1>3 DEF Scoring!TwoThirdsAgree
<1>9. Scoring!MirrorLevel(ballots, cfg) =
        IF class = "strict" /\ same THEN "auto_1click"
        ELSE IF class = "majority" /\ \E t \in H : 3 * Scoring!Cardinality(Scoring!Supporters(ballots, t)) >= 2 * Scoring!Cardinality(C)
        THEN "auto" ELSE "manual"
  <2> HIDE DEF class, same, tally
  <2> QED BY <1>1, <1>2, <1>7 DEF Scoring!MirrorLevel, Scoring!Supporters
<1>10. class = "majority" => C # {}
  <2> HIDE DEF C, V, tally, top, same
  <2> QED BY <1>6
<1>11. Scoring!AutoLevel(ballots, cfg) =
         IF class = "strict" /\ same THEN "auto_1click"
         ELSE IF class = "majority" /\ Scoring!TwoThirdsAgree(ballots, top) THEN "auto" ELSE "manual"
  <2>1. Scoring!AutoLevel(ballots, cfg) =
          CASE class = "strict" /\ same -> "auto_1click"
            [] class = "majority" /\ Scoring!TwoThirdsAgree(ballots, top) -> "auto"
            [] OTHER -> "manual"
    BY DEF Scoring!AutoLevel
  <2> HIDE DEF class, same, top
  <2> QED BY <2>1
<1>12. Scoring!MirrorLevel(ballots, cfg) = Scoring!AutoLevel(ballots, cfg)
  <2> HIDE DEF class, same, top, H, C
  <2> QED BY <1>8, <1>9, <1>10, <1>11
<1> QED BY <1>1, <1>7, <1>12

\* A theme somebody names as secondary is one of those of the campaign.
LEMMA ScoringNamed ==
  ASSUME ScoringInv, ScoringRanks
  PROVE  Scoring!MirrorSecondaries(ballots, cfg) =
           Scoring!SharedSecondaries(ballots, cfg, Scoring!Argmax(Scoring!Tally(ballots, cfg)))
<1> DEFINE C == Scoring!Covering(ballots)
           tally == Scoring!Tally(ballots, cfg)
           top == Scoring!Argmax(tally)
           named(t) == {x \in C : t \in ballots[x].secondaries}
<1>1. Scoring!MirrorSecondaries(ballots, cfg) =
        {t \in UNION Scoring!SecKeys(ballots) : t \notin Scoring!Heaviest(tally) /\ Scoring!Cardinality(named(t)) >= cfg.secondaryMin}
  <2> HIDE DEF tally
  <2> QED BY ScoringMirrored DEF Scoring!MirrorSecondaries, tally
<1>2. Scoring!SharedSecondaries(ballots, cfg, top) =
        {t \in Themes \ {top} : named(t) # {} /\ Scoring!Cardinality(named(t)) >= cfg.secondaryMin}
  <2> HIDE DEF top
  <2> QED BY DEF Scoring!SharedSecondaries
<1>3. C # {} => Scoring!Heaviest(tally) = {top}
  BY ScoringHeaviest, ScoringVotes
<1>4. \A t : t \in UNION Scoring!SecKeys(ballots) <=> named(t) # {}
  BY DEF Scoring!SecKeys
<1>5. \A t : named(t) # {} => t \in Themes /\ C # {}
  BY DEF Scoring!Covering, ScoringInv, Ballot
<1> HIDE DEF C, tally, top, named
<1>6. ASSUME NEW t
      PROVE  t \in Scoring!MirrorSecondaries(ballots, cfg) <=> t \in Scoring!SharedSecondaries(ballots, cfg, top)
  <2>1. CASE named(t) = {}
    BY <1>1, <1>2, <1>4, <2>1
  <2>2. CASE named(t) # {}
    BY <1>1, <1>2, <1>3, <1>4, <1>5, <2>2
  <2> QED BY <2>1, <2>2
<1>7. Scoring!MirrorSecondaries(ballots, cfg) = Scoring!SharedSecondaries(ballots, cfg, top)
  <2> DEFINE M == Scoring!MirrorSecondaries(ballots, cfg)
             S == Scoring!SharedSecondaries(ballots, cfg, top)
  <2>1. \A t : t \in M <=> t \in S
    BY <1>6
  <2> HIDE DEF M, S
  <2>2. M = S
    BY <2>1
  <2> QED BY <2>2 DEF M, S
<1> QED BY <1>7 DEF top, tally

LEMMA ScoringMirrors == ASSUME ScoringInv, ScoringRanks PROVE Scoring!MirrorAgrees
<1> DEFINE tally == Scoring!Tally(ballots, cfg)
           top == Scoring!Argmax(tally)
           mirror == Scoring!MirrorScore(ballots, cfg)
<1>1. /\ mirror.primary = Scoring!Heaviest(tally) /\ mirror.class = Scoring!AgreementClass(ballots, cfg)
      /\ mirror.level = Scoring!AutoLevel(ballots, cfg) /\ mirror.secondaries = Scoring!SharedSecondaries(ballots, cfg, top)
  BY ScoringMirrored, ScoringNamed DEF Scoring!MirrorScore
<1>2. /\ Scoring!score.primary = top /\ Scoring!score.class = Scoring!AgreementClass(ballots, cfg)
      /\ Scoring!score.level = Scoring!AutoLevel(ballots, cfg)
      /\ Scoring!score.secondaries = Scoring!SharedSecondaries(ballots, cfg, top)
  BY DEF Scoring!score, Scoring!Score
<1>3. Scoring!Heaviest(tally) = {top} \ {NoTheme}
  <2> DEFINE V == Scoring!VotedThemes(ballots)
  <2>1. Scoring!Heaviest(tally) = (IF V = {} THEN {} ELSE {top})
    BY ScoringHeaviest
  <2>2. (V = {} => top = NoTheme) /\ (V # {} => top \in V) /\ NoTheme \notin V
    BY ScoringTop, ScoringVotes
  <2> HIDE DEF V, top, tally
  <2> QED BY <2>1, <2>2
<1> HIDE DEF mirror, top, tally
<1>4. /\ mirror.primary = {Scoring!score.primary} \ {NoTheme}
      /\ mirror.class = Scoring!score.class /\ mirror.level = Scoring!score.level
      /\ mirror.secondaries = Scoring!score.secondaries
  BY <1>1, <1>2, <1>3
<1> QED BY <1>4 DEF Scoring!MirrorAgrees, mirror
-----------------------------------------------------------------------------
(* The triage engine: whatever the themes, the pairs that overlap and the  *)
(* number of judges.                                                       *)
TriageVotes == [theme : DOMAIN TriageRank, starts : BOOLEAN]
TriageInv == votes \in Seq(TriageVotes)

LEMMA TriageInitial == ASSUME Triage!Init PROVE TriageInv
BY DEF Triage!Init, TriageInv

LEMMA TriageStep == ASSUME TriageInv, Triage!Next PROVE TriageInv'
<1>1. PICK t \in DOMAIN TriageRank, s \in BOOLEAN : Triage!Speak(t, s)
  BY DEF Triage!Next
<1>2. Triage!Vote(t, s) \in TriageVotes
  BY DEF Triage!Vote, TriageVotes
<1>3. votes' = Append(votes, Triage!Vote(t, s))
  BY <1>1 DEF Triage!Speak
<1> QED BY <1>2, <1>3 DEF TriageInv

LEMMA TriageJudges ==
  ASSUME NEW w \in Seq(TriageVotes)
  PROVE  /\ Len(w) \in Nat /\ DOMAIN w = 1 .. Len(w)
         /\ IsFiniteSet(1 .. Len(w)) /\ Cardinality(1 .. Len(w)) = Len(w)
<1>1. Len(w) \in Nat /\ DOMAIN w = 1 .. Len(w)
  OBVIOUS
<1> DEFINE n == Len(w)
<1> HIDE DEF n
<1>2. n \in Nat
  BY <1>1 DEF n
<1>3. IsFiniteSet(1 .. n) /\ Cardinality(1 .. n) = IF 1 > n THEN 0 ELSE n - 1 + 1
  BY <1>2, FS_Interval
<1>4. Cardinality(1 .. n) = n
  BY <1>2, <1>3
<1> QED BY <1>1, <1>3, <1>4 DEF n

\* The judges who gave a theme.
Givers(w, t) == {i \in DOMAIN w : w[i].theme = t}
LEMMA TriageSupport ==
  ASSUME NEW w \in Seq(TriageVotes), NEW t
  PROVE  /\ Triage!Support(w, t) = Cardinality(Givers(w, t)) /\ IsFiniteSet(Givers(w, t))
         /\ Triage!Support(w, t) \in Nat /\ Triage!Support(w, t) <= Len(w)
<1>1. Givers(w, t) \in SUBSET (1 .. Len(w)) /\ Len(w) \in Nat
  BY TriageJudges DEF Givers
<1>2. IsFiniteSet(1 .. Len(w)) /\ Cardinality(1 .. Len(w)) = Len(w)
  BY TriageJudges
<1>3. IsFiniteSet(Givers(w, t)) /\ Cardinality(Givers(w, t)) \in Nat /\ Cardinality(Givers(w, t)) <= Len(w)
  BY <1>1, <1>2, FS_Subset, FS_CardinalityType
<1>4. Triage!Support(w, t) = Cardinality(Givers(w, t))
  BY DEF Triage!Support, Givers, Triage!Cardinality, Cardinality
<1> QED BY <1>3, <1>4

LEMMA TriageThemes ==
  ASSUME NEW w \in Seq(TriageVotes)
  PROVE  Triage!ThemesOf(w) \in SUBSET DOMAIN TriageRank
<1>1. ASSUME NEW i \in DOMAIN w PROVE w[i].theme \in DOMAIN TriageRank
  <2>1. w[i] \in TriageVotes
    OBVIOUS
  <2> QED BY <2>1 DEF TriageVotes
<1> QED BY <1>1 DEF Triage!ThemesOf

\* Among the themes given, one comes before the others.
LEMMA TriageFirst ==
  ASSUME NEW w \in Seq(TriageVotes), NEW S \in SUBSET DOMAIN TriageRank, S # {}, TriageAssumption
  PROVE  \E t \in S : \A u \in S : Triage!Before(w, t, u)
<1> DEFINE sup == [t \in S |-> Triage!Support(w, t)]
           M == {sup[t] : t \in S}
<1>1. \A t \in S : sup[t] = Triage!Support(w, t) /\ sup[t] \in Nat /\ sup[t] <= Len(w) /\ TriageRank[t] \in Nat
  BY TriageSupport DEF TriageAssumption
<1> HIDE DEF sup
<1>2. M \in SUBSET Nat /\ M # {} /\ \A p \in M : p <= Len(w)
  BY <1>1
<1>3. PICK m \in M : \A p \in M : p <= m
  <2> HIDE DEF M
  <2>1. Len(w) \in Nat
    OBVIOUS
  <2> QED BY <1>2, <2>1, GreatestNatural
<1> DEFINE R == {TriageRank[t] : t \in {x \in S : sup[x] = m}}
<1>4. R \in SUBSET Nat /\ R # {}
  BY <1>1, <1>3
<1>5. PICK r \in R : \A p \in R : r <= p
  <2> HIDE DEF R
  <2> QED BY <1>4, LeastNatural
<1>6. PICK t \in S : sup[t] = m /\ TriageRank[t] = r
  BY <1>5
<1>7. ASSUME NEW u \in S PROVE Triage!Before(w, t, u)
  <2>1. sup[u] \in Nat /\ sup[t] \in Nat /\ sup[u] <= sup[t]
    BY <1>1, <1>3, <1>6
  <2>2. sup[u] = sup[t] => TriageRank[t] <= TriageRank[u]
    BY <1>5, <1>6
  <2>3. Triage!Support(w, t) = sup[t] /\ Triage!Support(w, u) = sup[u]
    BY <1>1
  <2> QED BY <2>1, <2>2, <2>3 DEF Triage!Before
<1> QED BY <1>7

LEMMA TriageTop ==
  ASSUME NEW w \in Seq(TriageVotes), w # << >>, TriageAssumption
  PROVE  /\ Triage!Top(w) \in Triage!ThemesOf(w)
         /\ \A u \in Triage!ThemesOf(w) : Triage!Support(w, u) <= Triage!Support(w, Triage!Top(w))
<1> DEFINE S == Triage!ThemesOf(w)
           top == Triage!Top(w)
<1>1. S \in SUBSET DOMAIN TriageRank /\ S # {}
  <2>1. 1 \in DOMAIN w
    OBVIOUS
  <2> QED BY <2>1, TriageThemes DEF Triage!ThemesOf
<1>2. \E t \in S : \A u \in S : Triage!Before(w, t, u)
  <2> HIDE DEF S
  <2> QED BY <1>1, TriageFirst
<1>3. top \in S /\ \A u \in S : Triage!Before(w, top, u)
  BY <1>2 DEF Triage!Top
<1> HIDE DEF S, top
<1>4. ASSUME NEW u \in S PROVE Triage!Support(w, u) <= Triage!Support(w, top)
  <2>1. Triage!Support(w, u) \in Nat /\ Triage!Support(w, top) \in Nat
    BY TriageSupport
  <2>2. Triage!Before(w, top, u)
    BY <1>3
  <2> QED BY <2>1, <2>2 DEF Triage!Before
<1> QED BY <1>3, <1>4 DEF S, top

\* Two themes cannot have more than half of the judges each.
LEMMA TriageHalves ==
  ASSUME NEW w \in Seq(TriageVotes), NEW t, NEW u, t # u
  PROVE  Triage!Support(w, t) + Triage!Support(w, u) <= Len(w)
<1> DEFINE A == Givers(w, t)
           B == Givers(w, u)
<1>1. A \cap B = {} /\ A \cup B \in SUBSET (1 .. Len(w)) /\ Len(w) \in Nat
  BY TriageJudges DEF Givers
<1>2. IsFiniteSet(A) /\ IsFiniteSet(B) /\ Triage!Support(w, t) = Cardinality(A) /\ Triage!Support(w, u) = Cardinality(B)
  BY TriageSupport
<1>3. IsFiniteSet(1 .. Len(w)) /\ Cardinality(1 .. Len(w)) = Len(w)
  BY TriageJudges
<1> HIDE DEF A, B
<1>4. Cardinality(A \cup B) <= Len(w)
  BY <1>1, <1>3, FS_Subset
<1>5. Cardinality(A \cup B) = Cardinality(A) + Cardinality(B) - Cardinality(A \cap B)
  BY <1>2, FS_Union
<1>6. Cardinality(A \cap B) = 0 /\ Cardinality(A) \in Nat /\ Cardinality(B) \in Nat
  BY <1>1, <1>2, FS_EmptySet, FS_CardinalityType
<1> QED BY <1>2, <1>4, <1>5, <1>6

LEMMA TriagePartner ==
  ASSUME NEW w \in Seq(TriageVotes), NEW top, Triage!Partners(w, top) # {}, TriageAssumption
  PROVE  Triage!Pairable(top, Triage!Partner(w, top))
<1> DEFINE S == Triage!Partners(w, top)
<1>1. S \in SUBSET DOMAIN TriageRank
  BY TriageThemes DEF Triage!Partners
<1>2. \E t \in S : \A u \in S : Triage!Before(w, t, u)
  BY <1>1, TriageFirst
<1>3. Triage!Partner(w, top) \in S
  BY <1>2 DEF Triage!Partner
<1> QED BY <1>3 DEF Triage!Partners

\* The first pair of themes that overlap is there as soon as two do.
LEMMA TriagePair ==
  ASSUME NEW w \in Seq(TriageVotes), Triage!PairsMet(w) # {}
  PROVE  Triage!FirstPair(w) \in Triage!PairsMet(w)
<1> DEFINE P == Triage!PairsMet(w)
           L == {p[1] : p \in P}
<1>1. \A p \in P : p = <<p[1], p[2]>> /\ p[1] \in Nat /\ p[2] \in Nat
  BY DEF Triage!PairsMet
<1> HIDE DEF P
<1>0. P # {}
  BY DEF P
<1>2. L \in SUBSET Nat /\ L # {}
  BY <1>0, <1>1
<1>3. PICK k \in L : \A j \in L : k <= j
  <2> HIDE DEF L
  <2> QED BY <1>2, LeastNatural
<1> DEFINE M == {p[2] : p \in {q \in P : q[1] = k}}
<1>4. M \in SUBSET Nat /\ M # {}
  BY <1>1, <1>3
<1>5. PICK m \in M : \A j \in M : m <= j
  <2> HIDE DEF M
  <2> QED BY <1>4, LeastNatural
<1>6. PICK p \in P : p[1] = k /\ p[2] = m
  BY <1>5
<1>7. ASSUME NEW q \in P PROVE p[1] < q[1] \/ (p[1] = q[1] /\ p[2] <= q[2])
  <2>1. k <= q[1] /\ k \in Nat /\ q[1] \in Nat
    BY <1>1, <1>2, <1>3
  <2>2. q[1] = k => m <= q[2]
    BY <1>5
  <2> QED BY <1>6, <2>1, <2>2
<1>8. \E x \in P : \A q \in P : x[1] < q[1] \/ (x[1] = q[1] /\ x[2] <= q[2])
  BY <1>6, <1>7
<1> QED BY <1>8 DEF Triage!FirstPair, P

LEMMA TriageUnanimous ==
  ASSUME NEW w \in Seq(TriageVotes), NEW t, Triage!Support(w, t) = Len(w)
  PROVE  Triage!ThemesOf(w) \in SUBSET {t}
<1>1. Givers(w, t) \in SUBSET (1 .. Len(w)) /\ IsFiniteSet(1 .. Len(w)) /\ Cardinality(1 .. Len(w)) = Len(w)
  BY TriageJudges DEF Givers
<1>2. Cardinality(Givers(w, t)) = Len(w)
  BY TriageSupport
<1>3. Givers(w, t) = 1 .. Len(w)
  <2> DEFINE G == Givers(w, t)
             J == 1 .. Len(w)
  <2> HIDE DEF G, J
  <2>1. G \in SUBSET J /\ IsFiniteSet(J) /\ Cardinality(J) = Cardinality(G)
    BY <1>1, <1>2 DEF G, J
  <2>2. Cardinality(J) \in Nat
    BY <2>1, FS_CardinalityType
  <2>3. G = J
    BY <2>1, <2>2, FS_Subset
  <2> QED BY <2>3 DEF G, J
<1> QED BY <1>3, TriageJudges DEF Givers, Triage!ThemesOf

LEMMA TriageRefuge == ASSUME TriageInv, TriageAssumption PROVE Triage!RefugeNeverImposed
<1> DEFINE w == votes
           top == Triage!Top(w)
           r == Triage!Decide(w)
<1> SUFFICES ASSUME ~(Len(w) < 2), Triage!Cardinality(Triage!ThemesOf(w)) > 1 PROVE r.labels \cap TriageRefuges = {}
  BY DEF Triage!RefugeNeverImposed, Triage!Triaged
<1>1. w \in Seq(TriageVotes) /\ w # << >>
  BY DEF TriageInv
<1>2. Triage!Support(w, top) # Len(w)
  <2>1. ASSUME Triage!Support(w, top) = Len(w) PROVE FALSE
    <3>1. Triage!ThemesOf(w) \in SUBSET {top}
      BY <1>1, <2>1, TriageUnanimous
    <3>2. top \in Triage!ThemesOf(w)
      BY <1>1, TriageTop
    <3>3. Triage!ThemesOf(w) = {top}
      BY <3>1, <3>2
    <3>4. Cardinality({top}) = 1
      BY FS_Singleton
    <3>5. Triage!Cardinality({top}) = 1
      BY <3>4 DEF Triage!Cardinality, Cardinality
    <3> QED BY <3>3, <3>5
  <2> QED BY <2>1
<1>3. r = IF Triage!Support(w, top) * 2 > Len(w) THEN Triage!Majority(w, top) ELSE Triage!Split(w)
  BY <1>2 DEF Triage!Decide
<1>4. \A t, u : Triage!Pairable(t, u) => Triage!Pair(w, t, u).labels \cap TriageRefuges = {}
  BY DEF Triage!Pairable, Triage!Pair, Triage!Result
<1>5. Triage!Open.labels \cap TriageRefuges = {}
  BY DEF Triage!Open, Triage!Result
<1>6. Triage!Majority(w, top).labels \cap TriageRefuges = {}
  <2>1. CASE Triage!Partners(w, top) # {}
    <3>1. Triage!Pairable(top, Triage!Partner(w, top))
      BY <1>1, <2>1, TriagePartner
    <3>2. Triage!Majority(w, top) = Triage!Pair(w, top, Triage!Partner(w, top))
      BY <2>1 DEF Triage!Majority
    <3> QED BY <1>4, <3>1, <3>2
  <2>2. CASE Triage!Partners(w, top) = {}
    <3>1. \A level : top \notin TriageRefuges => Triage!Mono(level, top).labels \cap TriageRefuges = {}
      BY DEF Triage!Mono, Triage!Result
    <3> QED BY <1>5, <2>2, <3>1 DEF Triage!Majority
  <2> QED BY <2>1, <2>2
<1>7. Triage!Split(w).labels \cap TriageRefuges = {}
  <2>1. CASE Triage!PairsMet(w) # {}
    <3> DEFINE p == Triage!FirstPair(w)
    <3>1. p \in Triage!PairsMet(w)
      BY <1>1, <2>1, TriagePair
    <3> HIDE DEF p
    <3>2. Triage!Pairable(w[p[1]].theme, w[p[2]].theme)
      BY <3>1 DEF Triage!PairsMet
    <3>3. Triage!Split(w) = Triage!Pair(w, w[p[1]].theme, w[p[2]].theme)
      BY <2>1 DEF Triage!Split, p
    <3> QED BY <1>4, <3>2, <3>3
  <2>2. CASE Triage!PairsMet(w) = {}
    BY <1>5, <2>2 DEF Triage!Split
  <2> QED BY <2>1, <2>2
<1> HIDE DEF r
<1> QED BY <1>3, <1>6, <1>7

\* What the level rests on: nothing of it has an order.
Level(w) ==
  LET top == Triage!Top(w)
  IN IF Triage!Support(w, top) = Len(w) THEN (IF Triage!Boundary(w) = "hard" THEN "C1" ELSE "C2")
     ELSE IF Triage!Support(w, top) * 2 > Len(w)
     THEN (IF Triage!Partners(w, top) # {} THEN "C3"
           ELSE IF top \in TriageRefuges THEN "C5"
           ELSE IF Triage!ThemesOf(w) \ {top} \subseteq TriageRefuges THEN "C2" ELSE "C4")
     ELSE IF Triage!PairsMet(w) = {} THEN "C5" ELSE "C3"

LEMMA TriageLevel == ASSUME NEW w PROVE Triage!Decide(w).level = Level(w)
<1> DEFINE top == Triage!Top(w)
<1>1. \A t, u : Triage!Pair(w, t, u).level = "C3"
  BY DEF Triage!Pair, Triage!Result
<1>2. \A level, t : Triage!Mono(level, t).level = level
  BY DEF Triage!Mono, Triage!Result
<1>3. Triage!Open.level = "C5"
  BY DEF Triage!Open, Triage!Result
<1>4. Triage!Majority(w, top).level =
        IF Triage!Partners(w, top) # {} THEN "C3"
        ELSE IF top \in TriageRefuges THEN "C5"
        ELSE IF Triage!ThemesOf(w) \ {top} \subseteq TriageRefuges THEN "C2" ELSE "C4"
  BY <1>1, <1>2, <1>3 DEF Triage!Majority
<1>5. Triage!Split(w).level = IF Triage!PairsMet(w) = {} THEN "C5" ELSE "C3"
  BY <1>1, <1>3 DEF Triage!Split
<1> QED BY <1>2, <1>4, <1>5 DEF Triage!Decide, Level

\* Some pair is met exactly when two of the themes given overlap.
LEMMA TriageMeets ==
  ASSUME NEW w \in Seq(TriageVotes)
  PROVE  Triage!PairsMet(w) # {} <=> \E t, u \in Triage!ThemesOf(w) : t # u /\ Triage!Pairable(t, u)
<1>0. Len(w) \in Nat /\ DOMAIN w = 1 .. Len(w)
  OBVIOUS
<1>1. ASSUME NEW p \in Triage!PairsMet(w) PROVE \E t, u \in Triage!ThemesOf(w) : t # u /\ Triage!Pairable(t, u)
  <2>1. p[1] \in DOMAIN w /\ p[2] \in DOMAIN w /\ p[1] < p[2] /\ Triage!Met(w)[p[2]]
        /\ Triage!Pairable(w[p[1]].theme, w[p[2]].theme)
    BY DEF Triage!PairsMet
  <2>2. p[1] \in 1 .. p[2] - 1
    BY <1>0, <2>1
  <2>3. w[p[1]].theme # w[p[2]].theme
    BY <2>1, <2>2 DEF Triage!Met
  <2> QED BY <2>1, <2>3 DEF Triage!ThemesOf
<1>2. ASSUME NEW t \in Triage!ThemesOf(w) PROVE \E i \in DOMAIN w : w[i].theme = t /\ Triage!Met(w)[i]
  <2>1. Givers(w, t) \in SUBSET Nat /\ Givers(w, t) # {}
    BY <1>0 DEF Givers, Triage!ThemesOf
  <2>2. PICK i \in Givers(w, t) : \A j \in Givers(w, t) : i <= j
    BY <2>1, LeastNatural
  <2>3. i \in DOMAIN w /\ w[i].theme = t /\ i \in Nat
    BY <2>1, <2>2 DEF Givers
  <2>4. ASSUME NEW m \in 1 .. i - 1 PROVE w[m].theme # t
    <3>1. m \in DOMAIN w /\ ~(i <= m)
      BY <1>0, <2>3
    <3> QED BY <2>2, <3>1 DEF Givers
  <2> QED BY <2>3, <2>4 DEF Triage!Met
<1>3. ASSUME NEW t \in Triage!ThemesOf(w), NEW u \in Triage!ThemesOf(w), t # u, Triage!Pairable(t, u)
      PROVE  Triage!PairsMet(w) # {}
  <2>1. PICK i \in DOMAIN w : w[i].theme = t /\ Triage!Met(w)[i]
    BY <1>2
  <2>2. PICK j \in DOMAIN w : w[j].theme = u /\ Triage!Met(w)[j]
    BY <1>2
  <2>3. Triage!Pairable(u, t)
    BY <1>3 DEF Triage!Pairable, Triage!Clustered
  <2>4. i < j \/ j < i
    BY <1>0, <1>3, <2>1, <2>2
  <2>5. CASE i < j
    <3>1. <<i, j>> \in Triage!PairsMet(w)
      BY <1>3, <2>1, <2>2, <2>5 DEF Triage!PairsMet
    <3> QED BY <3>1
  <2>6. CASE j < i
    <3>1. <<j, i>> \in Triage!PairsMet(w)
      BY <2>1, <2>2, <2>3, <2>6 DEF Triage!PairsMet
    <3> QED BY <3>1
  <2> QED BY <2>4, <2>5, <2>6
<1> QED BY <1>1, <1>3

\* The same votes in another order have the same level.
LEMMA TriageSame ==
  ASSUME NEW w \in Seq(TriageVotes), NEW v \in Seq(TriageVotes), w # << >>, TriageAssumption,
         Len(v) = Len(w), Triage!ThemesOf(v) = Triage!ThemesOf(w), Triage!Boundary(v) = Triage!Boundary(w),
         \A t \in Triage!ThemesOf(w) : Triage!Support(v, t) = Triage!Support(w, t)
  PROVE  Level(v) = Level(w)
<1> DEFINE S == Triage!ThemesOf(w)
           top == Triage!Top(w)
           other == Triage!Top(v)
<1>1. v # << >>
  OBVIOUS
<1>2. top \in S /\ \A u \in S : Triage!Support(w, u) <= Triage!Support(w, top)
  BY TriageTop
<1>3. other \in S /\ \A u \in S : Triage!Support(v, u) <= Triage!Support(v, other)
  BY <1>1, TriageTop
<1>4. Triage!Support(w, top) \in Nat /\ Triage!Support(w, other) \in Nat /\ Triage!Support(w, other) = Triage!Support(v, other)
      /\ Triage!Support(v, top) = Triage!Support(w, top)
  BY <1>2, <1>3, TriageSupport
<1>5. Triage!Support(v, other) = Triage!Support(w, top)
  <2>1. Triage!Support(w, other) <= Triage!Support(w, top) /\ Triage!Support(v, top) <= Triage!Support(v, other)
    BY <1>2, <1>3
  <2> QED BY <1>4, <2>1
<1>6. ASSUME Triage!Support(w, top) * 2 > Len(w) PROVE other = top
  <2>1. ASSUME other # top PROVE FALSE
    <3>1. Triage!Support(w, top) + Triage!Support(w, other) <= Len(w)
      BY <2>1, TriageHalves
    <3>2. Triage!Support(w, other) = Triage!Support(w, top) /\ Len(w) \in Nat
      BY <1>4, <1>5
    <3> QED BY <1>4, <1>6, <3>1, <3>2
  <2> QED BY <2>1
<1>7. Triage!PairsMet(v) # {} <=> Triage!PairsMet(w) # {}
  BY TriageMeets
<1>8. \A t : Triage!Partners(v, t) = Triage!Partners(w, t)
  BY DEF Triage!Partners
<1> HIDE DEF S, top, other
<1>9. CASE Triage!Support(w, top) = Len(w)
  BY <1>5, <1>9 DEF Level, top, other
<1>10. CASE Triage!Support(w, top) # Len(w) /\ Triage!Support(w, top) * 2 > Len(w)
  BY <1>5, <1>6, <1>8, <1>10 DEF Level, top, other
<1>11. CASE Triage!Support(w, top) # Len(w) /\ ~(Triage!Support(w, top) * 2 > Len(w))
  BY <1>5, <1>7, <1>11 DEF Level, top, other
<1> QED BY <1>9, <1>10, <1>11

\* Two neighbours exchanged: the same votes in another order.
LEMMA TriageSwap ==
  ASSUME TriageInv, NEW k \in 1 .. Len(votes) - 1
  PROVE  LET v == Triage!Swapped(k)
         IN /\ v \in Seq(TriageVotes) /\ Len(v) = Len(votes)
            /\ Triage!ThemesOf(v) = Triage!ThemesOf(votes) /\ Triage!Boundary(v) = Triage!Boundary(votes)
            /\ \A t : Triage!Support(v, t) = Triage!Support(votes, t)
<1> DEFINE w == votes
           v == Triage!Swapped(k)
           n == Len(w)
           pi(i) == IF i = k THEN k + 1 ELSE IF i = k + 1 THEN k ELSE i
<1>1. w \in Seq(TriageVotes)
  BY DEF TriageInv
<1>2. n \in Nat /\ DOMAIN w = 1 .. n /\ k \in Nat /\ k \in 1 .. n /\ k + 1 \in 1 .. n /\ k + 1 # k
  BY <1>1
<1>3. v = [w EXCEPT ![k] = w[k + 1], ![k + 1] = w[k]]
  BY DEF Triage!Swapped
<1>14. w \in [1 .. n -> TriageVotes]
  BY <1>1
<1> HIDE DEF w, v, n
<1>4. \A i \in 1 .. n : pi(i) \in 1 .. n /\ pi(pi(i)) = i
  BY <1>2
<1>5. v \in [1 .. n -> TriageVotes] /\ \A i \in 1 .. n : v[i] = w[pi(i)]
  BY <1>2, <1>3, <1>14
<1>6. v \in Seq(TriageVotes) /\ Len(v) = n
  BY <1>2, <1>5
<1>7. DOMAIN v = 1 .. n /\ DOMAIN w = 1 .. n
  BY <1>2, <1>5
<1> HIDE DEF pi
<1>8. Triage!ThemesOf(v) = Triage!ThemesOf(w)
  <2>1. \A x : (\E i \in 1 .. n : v[i].theme = x) <=> (\E i \in 1 .. n : w[i].theme = x)
    BY <1>4, <1>5
  <2> QED BY <1>7, <2>1 DEF Triage!ThemesOf
<1>9. Triage!Boundary(v) = Triage!Boundary(w)
  <2>1. (\A i \in 1 .. n : v[i].starts) <=> (\A i \in 1 .. n : w[i].starts)
    BY <1>4, <1>5
  <2> QED BY <1>7, <2>1 DEF Triage!Boundary
<1>10. ASSUME NEW t PROVE Triage!Support(v, t) = Triage!Support(w, t)
  <2> DEFINE A == Givers(v, t)
             B == Givers(w, t)
             f == [i \in A |-> pi(i)]
  <2>1. IsFiniteSet(A) /\ IsFiniteSet(B) /\ Triage!Support(v, t) = Cardinality(A) /\ Triage!Support(w, t) = Cardinality(B)
    BY <1>1, <1>6, TriageSupport
  <2>2. f \in Bijection(A, B)
    <3>1. f \in [A -> B]
      BY <1>4, <1>5, <1>7 DEF Givers
    <3>2. \A i, j \in A : f[i] = f[j] => i = j
      <4>1. ASSUME NEW i \in A, NEW j \in A, pi(i) = pi(j) PROVE i = j
        <5>1. i \in 1 .. n /\ j \in 1 .. n
          BY <1>7 DEF Givers
        <5> QED BY <1>4, <4>1, <5>1
      <4> QED BY <4>1
    <3>3. \A j \in B : \E i \in A : f[i] = j
      <4>1. ASSUME NEW j \in B PROVE pi(j) \in A /\ pi(pi(j)) = j
        <5>1. j \in 1 .. n /\ w[j].theme = t
          BY <1>7 DEF Givers
        <5>2. pi(j) \in 1 .. n /\ pi(pi(j)) = j
          BY <1>4, <5>1
        <5>3. v[pi(j)] = w[j]
          BY <1>5, <5>2
        <5> QED BY <1>7, <5>1, <5>2, <5>3 DEF Givers
      <4> QED BY <4>1
    <3> HIDE DEF A, B, f
    <3> QED BY <3>1, <3>2, <3>3 DEF Bijection, Injection, Surjection, IsInjective
  <2> HIDE DEF A, B, f
  <2>3. Cardinality(A) = Cardinality(B)
    BY <2>1, <2>2, FS_Bijection DEF ExistsBijection
  <2> QED BY <2>1, <2>3
<1> QED BY <1>6, <1>8, <1>9, <1>10 DEF v, w, n

LEMMA TriageOrder == ASSUME TriageInv, TriageAssumption PROVE Triage!LevelIgnoresOrder
<1> SUFFICES ASSUME NEW k \in 1 .. Len(votes) - 1
    PROVE {r.level : r \in Triage!Triaged(Triage!Swapped(k))} = {r.level : r \in Triage!Triaged(votes)}
  BY DEF Triage!LevelIgnoresOrder, Triage!Pairs
<1> DEFINE v == Triage!Swapped(k)
<1>1. votes \in Seq(TriageVotes) /\ votes # << >>
  BY DEF TriageInv
<1>2. /\ v \in Seq(TriageVotes) /\ Len(v) = Len(votes)
      /\ Triage!ThemesOf(v) = Triage!ThemesOf(votes) /\ Triage!Boundary(v) = Triage!Boundary(votes)
      /\ \A t : Triage!Support(v, t) = Triage!Support(votes, t)
  BY TriageSwap
<1> HIDE DEF v
<1>3. Level(v) = Level(votes)
  BY <1>1, <1>2, TriageSame
<1>4. Triage!Decide(v).level = Triage!Decide(votes).level
  BY <1>3, TriageLevel
<1>5. CASE Len(votes) < 2
  BY <1>2, <1>5 DEF Triage!Triaged, v
<1>6. CASE ~(Len(votes) < 2)
  <2>1. Triage!Triaged(v) = {Triage!Decide(v)} /\ Triage!Triaged(votes) = {Triage!Decide(votes)}
    BY <1>2, <1>6 DEF Triage!Triaged
  <2> QED BY <1>4, <2>1 DEF v
<1> QED BY <1>5, <1>6
-----------------------------------------------------------------------------
(* The pages together.                                                     *)
ReadingInv ==
  /\ here = "figures" => FiguresInv
  /\ here = "launcher" => LauncherInv
  /\ here = "comments" => TalkInv
  /\ here = "translations" => TranslatedInv
  /\ here = "gold" => DeskInv
  /\ here = "backlog" => BacklogInv
  /\ here = "plan" => PlanInv
  /\ here = "backlog" => BacklogFollows
  /\ here = "plan" => PlanWalked
  /\ here = "dataset" => DatasetsInv
  /\ here = "compute" => ComputeInv
  /\ here = "settings" => SettingsInv
  /\ here = "campaign" => CampaignInv
  /\ here = "aids" => AidsInv
  /\ here = "scoring" => ScoringInv
  /\ here = "triage" => TriageInv

LEMMA Walked == ASSUME WalksAssumption PROVE BacklogSorted /\ PlanNumbered
BY DEF WalksAssumption, BacklogSorted, PlanNumbered

\* The page that is there starts as its module says.
LEMMA ReadingStarts ==
  ASSUME Init
  PROVE  /\ here = "figures" => Figures!Init
         /\ here = "launcher" => Launcher!Init
         /\ here = "comments" => Talk!Init
         /\ here = "translations" => Translated!Init
         /\ here = "gold" => Desk!Init
         /\ here = "backlog" => Backlog!Init
         /\ here = "plan" => Plan!Init
         /\ here = "dataset" => Datasets!Init
         /\ here = "compute" => Compute!Init
         /\ here = "settings" => Settings!Init
         /\ here = "campaign" => Campaign!Init
         /\ here = "aids" => Aids!Init
         /\ here = "scoring" => Scoring!Init
         /\ here = "triage" => Triage!Init
BY DEF Init

LEMMA ReadingInit ==
  ASSUME Init, FiguresAssumption, WalksAssumption, ScoringAssumption, NoThemeIsNoRank
  PROVE  ReadingInv
BY ScoringAssumption, ScoringInitial, TriageInitial, Walked, BacklogStarts, PlanWalkStarts, ReadingStarts, FiguresInitial, LauncherInitial, TalkInitial, TranslatedInitial, DeskInitial, BacklogInitial,
   PlanInitial, DatasetsInitial, ComputeInitial, SettingsInitial, CampaignInitial, AidsInitial DEF ReadingInv, ScoringAssumption

\* A step of the studio is a step of the page that is there, or none.
LEMMA ReadingPages ==
  ASSUME [Next]_vars
  PROVE  /\ here' = here
         /\ here = "figures" => Figures!Next \/ UNCHANGED figuresVars
         /\ here = "launcher" => Launcher!Next \/ UNCHANGED launcherVars
         /\ here = "comments" => Talk!Next \/ UNCHANGED commentsVars
         /\ here = "translations" => Translated!Next \/ UNCHANGED translationsVars
         /\ here = "gold" => Desk!Next \/ UNCHANGED goldVars
         /\ here = "backlog" => Backlog!Next \/ UNCHANGED backlogVars
         /\ here = "plan" => Plan!Next \/ UNCHANGED planVars
         /\ here = "dataset" => Datasets!Next \/ UNCHANGED datasetVars
         /\ here = "compute" => Compute!Next \/ UNCHANGED computeVars
         /\ here = "settings" => Settings!Next \/ UNCHANGED settingsVars
         /\ here = "campaign" => Campaign!Next \/ UNCHANGED campaignVars
         /\ here = "aids" => Aids!Next \/ UNCHANGED aidsVars
         /\ here = "scoring" => Scoring!Next \/ UNCHANGED scoringVars
         /\ here = "triage" => Triage!Next \/ UNCHANGED triageVars
<1>1. CASE UNCHANGED vars
  BY <1>1 DEF vars
<1>2. CASE Next
  BY <1>2 DEF Next, DocumentNext, ScoringNext, TriageNext, ViewsNext, AidsNext, LauncherNext, MockNext, DeskNext,
     SettingsNext, DatasetsNext, ComputeNext, BacklogNext, ResultNext, CampaignNext, PickerNext, TranslatedNext,
     TalkNext, PlanNext, FiguresNext
<1> QED BY <1>1, <1>2

LEMMA ReadingStep ==
  ASSUME ReadingInv, [Next]_vars, FiguresAssumption, LaunchAssumption, WalksAssumption, ScoringAssumption
  PROVE  ReadingInv'
<1>0. here' = here
  BY ReadingPages
<1>1. ASSUME here = "figures" PROVE FiguresInv'
  <2>1. FiguresInv /\ (Figures!Next \/ UNCHANGED figuresVars)
    BY <1>1, ReadingPages DEF ReadingInv
  <2>2. CASE UNCHANGED figuresVars
    BY <2>1, <2>2
       DEF figuresVars, FiguresInv, FiguresTypes, Figures!FiguresAreOfTheChoice, Figures!Figures, FiguresOneCall, FiguresAsked,
         FiguresUnsaved, FiguresSaving
  <2> QED BY <2>1, <2>2, FiguresStep, FiguresAssumption
<1>2. ASSUME here = "launcher" PROVE LauncherInv'
  <2>1. LauncherInv /\ (Launcher!Next \/ UNCHANGED launcherVars)
    BY <1>2, ReadingPages DEF ReadingInv
  <2>2. CASE UNCHANGED launcherVars
    BY <2>1, <2>2
       DEF launcherVars, LauncherInv, LauncherTypes, LauncherNamed, LauncherOnce, LauncherShows, LauncherConfigured,
         Launcher!LaunchedOnce
  <2> QED BY <2>1, <2>2, LauncherStep, LaunchAssumption
<1>3. ASSUME here = "comments" PROVE TalkInv'
  <2>1. TalkInv /\ (Talk!Next \/ UNCHANGED commentsVars)
    BY <1>3, ReadingPages DEF ReadingInv
  <2>2. CASE UNCHANGED commentsVars
    BY <2>1, <2>2
       DEF commentsVars, TalkInv, TalkTypes, TalkOnce, TalkFresh, Talk!NoCommentIsHidden, Talk!NoFetch
  <2> QED BY <2>1, <2>2, TalkStep
<1>4. ASSUME here = "translations" PROVE TranslatedInv'
  <2>1. TranslatedInv /\ (Translated!Next \/ UNCHANGED translationsVars)
    BY <1>4, ReadingPages DEF ReadingInv
  <2>2. CASE UNCHANGED translationsVars
    BY <2>1, <2>2
       DEF translationsVars, TranslatedInv, TranslatedTypes, TranslatedAlone, Translated!OneTextPerSentence,
         Translated!RowsAreTheFile
  <2> QED BY <2>1, <2>2, TranslatedStep
<1>5. ASSUME here = "gold" PROVE DeskInv'
  <2>1. DeskInv /\ (Desk!Next \/ UNCHANGED goldVars)
    BY <1>5, ReadingPages DEF ReadingInv
  <2>2. CASE UNCHANGED goldVars
    BY <2>1, <2>2
       DEF goldVars, DeskInv, DeskServer, DeskShown, DeskAsked, DeskDraft
  <2> QED BY <2>1, <2>2, DeskStep
<1>6. ASSUME here = "backlog" PROVE BacklogInv'
  <2>1. BacklogInv /\ (Backlog!Next \/ UNCHANGED backlogVars)
    BY <1>6, ReadingPages DEF ReadingInv
  <2>2. CASE UNCHANGED backlogVars
    BY <2>1, <2>2
       DEF backlogVars, BacklogInv
  <2> QED BY <2>1, <2>2, BacklogStep
<1>7. ASSUME here = "plan" PROVE PlanInv'
  <2>1. PlanInv /\ (Plan!Next \/ UNCHANGED planVars)
    BY <1>7, ReadingPages DEF ReadingInv
  <2>2. CASE UNCHANGED planVars
    BY <2>1, <2>2
       DEF planVars, PlanInv
  <2> QED BY <2>1, <2>2, PlanStep
<1>8. ASSUME here = "dataset" PROVE DatasetsInv'
  <2>1. DatasetsInv /\ (Datasets!Next \/ UNCHANGED datasetVars)
    BY <1>8, ReadingPages DEF ReadingInv
  <2>2. CASE UNCHANGED datasetVars
    BY <2>1, <2>2
       DEF datasetVars, DatasetsInv, Datasets!ReportIsOfTheCriteria
  <2> QED BY <2>1, <2>2, DatasetsStep
<1>9. ASSUME here = "compute" PROVE ComputeInv'
  <2>1. ComputeInv /\ (Compute!Next \/ UNCHANGED computeVars)
    BY <1>9, ReadingPages DEF ReadingInv
  <2>2. CASE UNCHANGED computeVars
    BY <2>1, <2>2
       DEF computeVars, ComputeInv, ComputeTested
  <2> QED BY <2>1, <2>2, ComputeStep
<1>10. ASSUME here = "settings" PROVE SettingsInv'
  <2>1. SettingsInv /\ (Settings!Next \/ UNCHANGED settingsVars)
    BY <1>10, ReadingPages DEF ReadingInv
  <2>2. CASE UNCHANGED settingsVars
    BY <2>1, <2>2
       DEF settingsVars, SettingsInv, Settings!UntouchedFieldsFollow
  <2> QED BY <2>1, <2>2, SettingsStep
<1>11. ASSUME here = "campaign" PROVE CampaignInv'
  <2>1. CampaignInv /\ (Campaign!Next \/ UNCHANGED campaignVars)
    BY <1>11, ReadingPages DEF ReadingInv
  <2>2. CASE UNCHANGED campaignVars
    BY <2>1, <2>2
       DEF campaignVars, CampaignInv
  <2> QED BY <2>1, <2>2, CampaignStep
<1>12. ASSUME here = "aids" PROVE AidsInv'
  <2>1. AidsInv /\ (Aids!Next \/ UNCHANGED aidsVars)
    BY <1>12, ReadingPages DEF ReadingInv
  <2>2. CASE UNCHANGED aidsVars
    BY <2>1, <2>2
       DEF aidsVars, AidsInv, AidsPlace, AidsHover, AidsLens
  <2> QED BY <2>1, <2>2, AidsStep
<1>13. ASSUME here = "backlog" PROVE BacklogFollows'
  <2>1. BacklogFollows /\ (Backlog!Next \/ UNCHANGED backlogVars)
    BY <1>13, ReadingPages DEF ReadingInv
  <2>2. CASE UNCHANGED backlogVars
    <3>1. UNCHANGED <<levels, ready, pos, pushed, fresh, focused>> /\ backlogOpen' = backlogOpen
      BY <2>2 DEF backlogVars
    <3> QED BY <2>1, <3>1, BacklogStays
  <2> QED BY <2>1, <2>2, BacklogWalks, Walked, WalksAssumption
<1>14. ASSUME here = "plan" PROVE PlanWalked'
  <2>1. PlanWalked /\ (Plan!Next \/ UNCHANGED planVars)
    BY <1>14, ReadingPages DEF ReadingInv
  <2>2. CASE UNCHANGED planVars
    BY <2>1, <2>2, PlanWalkStays DEF planVars
  <2> QED BY <2>1, <2>2, PlanWalks, Walked, WalksAssumption
<1>15. ASSUME here = "scoring" PROVE ScoringInv'
  <2>1. ScoringInv /\ (Scoring!Next \/ UNCHANGED scoringVars)
    BY <1>15, ReadingPages DEF ReadingInv
  <2>2. CASE UNCHANGED scoringVars
    BY <2>1, <2>2 DEF scoringVars, ScoringInv
  <2> QED BY <2>1, <2>2, ScoringStep DEF ScoringAssumption
<1>16. ASSUME here = "triage" PROVE TriageInv'
  <2>1. TriageInv /\ (Triage!Next \/ UNCHANGED triageVars)
    BY <1>16, ReadingPages DEF ReadingInv
  <2>2. CASE UNCHANGED triageVars
    BY <2>1, <2>2 DEF triageVars, TriageInv
  <2> QED BY <2>1, <2>2, TriageStep
<1> QED BY <1>0, <1>1, <1>2, <1>3, <1>4, <1>5, <1>6, <1>7, <1>8, <1>9, <1>10, <1>11, <1>12, <1>13, <1>14, <1>15, <1>16 DEF ReadingInv

LEMMA ReadingInvariance == Spec => []ReadingInv
<1>1. Init => ReadingInv
  BY ReadingInit, FiguresAssumption, WalksAssumption, ScoringAssumption, NoThemeIsNoRank
<1>2. ReadingInv /\ [Next]_vars => ReadingInv'
  BY ReadingStep, FiguresAssumption, LaunchAssumption, WalksAssumption, ScoringAssumption
<1> QED BY <1>1, <1>2, PTL DEF Spec

\* What is asked once is done once, however often the button is pressed, the answer lost or
\* the work shared: launches, comments, reports and translations.
THEOREM AskedOnceDoneOnce == Spec => []DoneOnce
<1>1. ReadingInv => DoneOnce
  BY LauncherHolds, TalkHolds, FiguresSaved DEF ReadingInv, TranslatedInv, DoneOnce
<1> QED BY <1>1, ReadingInvariance, PTL

\* What is said to be somebody's decision was one: the theme of a tie, a sentence the judges
\* leave open, a clause marked as decided without assistance.
THEOREM DecisionsAreHuman == Spec => []ChosenByAHuman
<1>1. ReadingInv => ChosenByAHuman
  BY DeskHolds, BacklogHolds, PlanHolds DEF ReadingInv, ChosenByAHuman
<1> QED BY <1>1, ReadingInvariance, PTL

\* What a page shows at rest is of what it shows it for, whatever the order in which answers
\* and timers came.
THEOREM LateAnswersAreHarmless == Spec => []LateAnswersMisleadNobody
<1>1. ReadingInv => LateAnswersMisleadNobody
  BY FiguresSaved, ComputeHolds, LauncherHolds, CampaignHolds, TalkHolds, AidsHolds
     DEF ReadingInv, DatasetsInv, SettingsInv, LateAnswersMisleadNobody
<1> QED BY <1>1, ReadingInvariance, PTL

\* No walk misses a stop: the keys of the gold desk, the queue that follows the document, the
\* button of the plan and the divergences of the comparison.
THEOREM WalksAreWhole == Spec => []WalksMissNothing
<1>1. ReadingInv => WalksMissNothing
  <2>1. DeskRows \in SUBSET Nat /\ IsFiniteSet(DeskRows) /\ DeskRows # {} /\ None \notin DeskRows
    BY WalksAssumption
  <2>2. Desk!KeysWalkTheQueue
    BY <2>1, DeskWalks
  <2>3. BacklogSorted /\ PlanNumbered
    BY Walked, WalksAssumption
  <2> QED BY <2>2, <2>3, BacklogFollowsFocus, PlanVisits, ViewsReturn DEF ReadingInv, WalksMissNothing
<1> QED BY <1>1, ReadingInvariance, PTL

\* No theme is proposed, nor written without an arbiter, on less than the annotators and the
\* judges gave it, whatever the weights and the ballots: not on a tie, not on half of the
\* heads, not on a refuge, and not because of the order in which the judges are listed.
THEOREM ProposalsAreSupported == Spec => []ProposalsAreEarned
<1>1. ReadingInv => ProposalsAreEarned
  <2>1. ScoringRanks
    BY ThemesAreRanks, NoThemeIsNoRank, AnnotatorsFinite DEF ScoringRanks
  <2> QED BY <2>1, ScoringHolds, TriageRefuge, TriageOrder, TriageAssumption DEF ReadingInv, ProposalsAreEarned
<1> QED BY <1>1, ReadingInvariance, PTL

\* The engine of the screens is the « miroir EXACT » of the server's (lib/goldScoring.ts): what
\* the page proposes on any ballots is what the recompute would write.
THEOREM EnginesAgree == Spec => [](here = "scoring" => Scoring!MirrorAgrees)
<1>1. ReadingInv => (here = "scoring" => Scoring!MirrorAgrees)
  <2>1. ScoringRanks
    BY ThemesAreRanks, NoThemeIsNoRank, AnnotatorsFinite DEF ScoringRanks
  <2> QED BY <2>1, ScoringMirrors DEF ReadingInv
<1> QED BY <1>1, ReadingInvariance, PTL
=============================================================================
