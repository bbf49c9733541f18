------------------------------- MODULE LabForms -------------------------------
(***************************************************************************)
(* The form that creates, estimates and launches an experiment             *)
(* (features/lab/ExperimentLauncher.tsx), mounted each time the tab of the *)
(* runs is shown (LabWorkspace.tsx) and armed from a program               *)
(* (ProgramsPanel.tsx).  An experiment is what the server keeps of it: its *)
(* dataset and its configuration, the preset and the dataset named in it.  *)
(***************************************************************************)
EXTENDS Naturals, Sequences

CONSTANTS Presets,
          Large,        \* presets whose sweep is too large for the remote cluster
          Datasets,     \* a sequence of numbers, the most recent first
          MaxMade,      \* bound: experiments created
          MaxMoves      \* bound: clicks of the user

VARIABLES tab, armed,          \* launcherPreset
          open, arrived,       \* which of the two lists have arrived
          form,                \* what the form holds
          asked,               \* the request the form waits for, with what the server did of it
          disturbed,           \* the form changed while a request was on its way
          made, taken, lost,   \* the experiments, how often each was launched, answers lost
          moves
vars == <<tab, armed, open, arrived, form, asked, disturbed, made, taken, lost, moves>>
server == <<made, taken, lost>>

Nothing == [what |-> "nothing", exp |-> 0, result |-> "none"]
Request(what, exp, result) == [what |-> what, exp |-> exp, result |-> result]
Busy == asked # Nothing
Config(preset, ds) == [preset |-> preset, ds |-> ds]
NoConfig == Config("none", 0)          \* the text is empty: no JSON
Blank == [mode |-> "guided", ds |-> 0, preset |-> "none", config |-> NoConfig,
          experiment |-> 0, estimate |-> 0, code |-> FALSE, launched |-> FALSE]

\* selectedPreset: the preset chosen, once the catalog is there.
Selected(preset) == IF "catalog" \in arrived THEN preset ELSE "none"
\* Mutant of Regenerated: the text is not written again for another dataset.
RegeneratedForThePreset(f) ==
  IF f.mode = "guided" /\ f.ds # 0 /\ (f.preset # form.preset \/ f.mode # form.mode \/ form.ds = 0)
  THEN [f EXCEPT !.config = Config(Selected(f.preset), f.ds)] ELSE f
\* The effect that writes the configuration of the guided mode.
Regenerated(f) ==
  IF f.mode = "guided" /\ f.ds # 0 /\ (f.preset # form.preset \/ f.mode # form.mode \/ f.ds # form.ds)
  THEN [f EXCEPT !.config = Config(Selected(f.preset), f.ds)] ELSE f
\* Mutant of Emptied: the estimate stays.
EmptiedButTheEstimate(f) == [f EXCEPT !.experiment = 0, !.launched = FALSE, !.preset = "none"]
\* reset
Emptied(f) ==
  [f EXCEPT !.experiment = 0, !.estimate = 0, !.launched = FALSE, !.preset = "none"]

Init ==
  /\ tab = "programs" /\ armed = "none" /\ open = FALSE /\ arrived = {} /\ form = Blank
  /\ asked = Nothing /\ disturbed = FALSE
  /\ made = << >> /\ taken = << >> /\ lost = {} /\ moves = 0
Move == moves < MaxMoves /\ moves' = moves + 1
\* A change of the form while it waits is seen in disturbed.
Edit(f) ==
  /\ Move /\ open /\ f # form /\ form' = Regenerated(f) /\ disturbed' = (disturbed \/ Busy)
  /\ UNCHANGED <<tab, armed, arrived, asked, server>>

---------------------------------------------------------------------------
\* The tabs.  The form is mounted again, with nothing in it; an answer on its way is not
\* read by anybody.  A preset armed once is armed at every visit.
Mount(preset) ==
  /\ Move /\ tab' = "runs" /\ armed' = preset
  /\ open' = (preset # "none") /\ form' = [Blank EXCEPT !.preset = preset]
  /\ arrived' = {} /\ asked' = Nothing /\ disturbed' = FALSE /\ UNCHANGED server
OnLaunchPreset(p) == tab = "programs" /\ Mount(p)
ShowRuns == tab = "programs" /\ Mount(armed)
ShowPrograms ==
  /\ Move /\ tab = "runs" /\ tab' = "programs" /\ open' = FALSE /\ form' = Blank
  /\ arrived' = {} /\ asked' = Nothing /\ disturbed' = FALSE /\ UNCHANGED <<armed, server>>

Open ==
  /\ Move /\ tab = "runs" /\ ~open /\ open' = TRUE
  /\ UNCHANGED <<tab, armed, arrived, form, asked, disturbed, server>>
DatasetsArrive ==
  /\ open /\ "datasets" \notin arrived /\ arrived' = arrived \cup {"datasets"}
  /\ form' = IF form.ds = 0 THEN Regenerated([form EXCEPT !.ds = Datasets[1]]) ELSE form
  /\ UNCHANGED <<tab, armed, open, asked, disturbed, server, moves>>
\* The catalog does not write the configuration again.
CatalogArrives ==
  /\ open /\ "catalog" \notin arrived /\ arrived' = arrived \cup {"catalog"}
  /\ UNCHANGED <<tab, armed, open, form, asked, disturbed, server, moves>>

Editable == form.experiment = 0
ChooseDataset(d) ==
  /\ Editable /\ "datasets" \in arrived /\ Edit([form EXCEPT !.ds = d]) /\ UNCHANGED open
ChooseMode(m) == Editable /\ Edit([form EXCEPT !.mode = m]) /\ UNCHANGED open
ChoosePreset(p) ==
  /\ Editable /\ form.mode = "guided" /\ "catalog" \in arrived
  /\ Edit([form EXCEPT !.preset = p]) /\ UNCHANGED open
TypeConfig(c) ==
  /\ Editable /\ form.mode = "expert" /\ Edit([form EXCEPT !.config = c]) /\ UNCHANGED open
\* « Fermer ».  Requests on their way will answer to an empty form.
Close == /\ Move /\ open /\ open' = FALSE /\ form' = Regenerated(Emptied(form))
         /\ disturbed' = (disturbed \/ Busy) /\ UNCHANGED <<tab, armed, arrived, asked, server>>
\* « Annuler » and « Modifier la configuration »
Reset == /\ form.experiment # 0 /\ ((form.estimate # 0 /\ ~form.launched) \/ form.code)
         /\ Edit(Emptied(form)) /\ UNCHANGED open

---------------------------------------------------------------------------
\* onCreate: the creation, then the estimate.  Its code of error is not cleared.
Create ==
  /\ open /\ ~Busy /\ form.experiment = 0 /\ form.ds # 0 /\ form.config # NoConfig
  /\ Len(made) < MaxMade /\ Move
  /\ \E ok \in BOOLEAN :
       /\ asked' = Request("create", IF ok THEN Len(made) + 1 ELSE 0, "none")
       /\ made' = IF ok THEN Append(made, [ds |-> form.ds, config |-> form.config]) ELSE made
       /\ taken' = IF ok THEN Append(taken, 0) ELSE taken
  /\ UNCHANGED <<tab, armed, open, arrived, form, disturbed, lost>>
Created ==
  /\ asked.what = "create"
  /\ IF asked.exp = 0 THEN asked' = Nothing /\ form' = [form EXCEPT !.code = FALSE]
     ELSE asked' = Request("estimate", asked.exp, "none")
          /\ form' = [form EXCEPT !.experiment = asked.exp]
  /\ UNCHANGED <<tab, armed, open, arrived, disturbed, server, moves>>
Estimated ==
  /\ asked.what = "estimate" /\ asked' = Nothing
  /\ form' \in {[form EXCEPT !.estimate = asked.exp], [form EXCEPT !.code = FALSE]}
  /\ UNCHANGED <<tab, armed, open, arrived, disturbed, server, moves>>

\* experiment_run (lab/views.py): refused when too large, run again only when forced.
Results(exp, force) ==
  {"failed"} \cup IF made[exp].config.preset \in Large /\ ~force THEN {"too large"}
                  ELSE IF taken[exp] > 0 /\ ~force THEN {"duplicate"} ELSE {"taken", "lost"}
Offered(force) ==
  IF force THEN form.code ELSE form.estimate # 0 /\ ~form.launched
\* onLaunch
Launch(force) ==
  /\ open /\ ~Busy /\ form.experiment # 0 /\ Offered(force) /\ Move
  /\ \E result \in Results(form.experiment, force) :
       /\ asked' = Request("launch", form.experiment, result)
       /\ taken' = IF result \in {"taken", "lost"} /\ taken[form.experiment] < 2
                   THEN [taken EXCEPT ![form.experiment] = @ + 1] ELSE taken
       /\ lost' = IF result = "lost" THEN lost \cup {form.experiment} ELSE lost
  /\ form' = [form EXCEPT !.code = FALSE]
  /\ UNCHANGED <<tab, armed, open, arrived, disturbed, made>>
\* Mutant of Answered: the form does not remember that the runs were launched.
AnsweredForgotten(f, result) == [f EXCEPT !.code = result = "too large"]
Answered(f, result) ==
  [f EXCEPT !.launched = @ \/ result = "taken", !.code = result = "too large"]
Launched ==
  /\ asked.what = "launch" /\ asked' = Nothing /\ form' = Answered(form, asked.result)
  /\ UNCHANGED <<tab, armed, open, arrived, disturbed, server, moves>>

Next ==
  \/ \E p \in Presets : OnLaunchPreset(p) \/ ChoosePreset(p)
  \/ ShowRuns \/ ShowPrograms \/ Open \/ DatasetsArrive \/ CatalogArrives
  \/ \E i \in 1..Len(Datasets) : ChooseDataset(Datasets[i])
  \/ \E m \in {"guided", "expert"} : ChooseMode(m)
  \/ \E d \in {Datasets[i] : i \in 1..Len(Datasets)} : TypeConfig(Config("typed", d))
  \/ Close \/ Reset \/ Create \/ Created \/ Estimated
  \/ \E force \in BOOLEAN : Launch(force)
  \/ Launched

---------------------------------------------------------------------------
\* Form the guided mode shows is the one it sends, but for a preset armed before the
\* catalog: the default configuration is then sent under the name of the preset.
GuidedConfigIsTheForm ==
  open /\ form.mode = "guided" /\ form.ds # 0 /\ form.experiment = 0 =>
    /\ form.config.ds = form.ds
    /\ form.config.preset = form.preset \/ (form.config.preset = "none" /\ form.preset = armed)
\* What the form shows of an experiment, its dataset and its estimate, is of the experiment
\* it launches, unless the form changed while it was being created.
FormShowsTheExperiment ==
  form.experiment # 0 /\ ~disturbed =>
    /\ form.ds = made[form.experiment].ds
    /\ form.estimate # 0 => form.estimate = form.experiment
\* An experiment is launched twice only when the answer to the first launch was lost.
LaunchedOnce == \A n \in 1..Len(made) : taken[n] > 1 => n \in lost
\* Refuted: it takes a change of the form while an experiment is being created.
EstimateIsOfTheExperiment ==
  form.experiment # 0 /\ form.estimate # 0 => form.estimate = form.experiment
\* Refuted: a preset armed from a program before the catalog arrives is not sent.
ArmedPresetIsSent ==
  open /\ form.mode = "guided" /\ form.ds # 0 /\ form.experiment = 0
    => form.config.preset = form.preset
\* Refuted: the code of a refusal outlives the experiment that was refused.
ForceFollowsARefusal ==
  form.code /\ form.experiment # 0 => made[form.experiment].config.preset \in Large
=============================================================================
