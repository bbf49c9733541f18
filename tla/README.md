# Claire Studio: the TLA+ project

Claire Studio is a web application for annotating legal documents. Annotators
segment a document into clauses and give each themes; arbiters turn what they
submit into a gold standard; a lab trains and compares models on it. The backend
is Django/DRF on PostgreSQL (`src/backend/claire`), the frontend is Next.js with
React Query and Zustand (`src/frontend/src`).

Two facts shape every module.

- **Backend.** `ATOMIC_REQUESTS` is off: a request is a sequence of separate
  queries at READ COMMITTED. A handler loads a row, tests that *copy*, and writes
  later; only some last steps take a row lock. A request in flight is therefore
  part of the state, with what it has read.
- **Frontend.** A component sends a request, goes on with its user, and applies
  the answer to whatever it shows when the answer comes. Requests served, answers
  delivered and gestures of the user are separate actions in any order.

## Inventory

| Part | State | Operations | Hard behaviour | Module |
|---|---|---|---|---|
| Scoring engine, `projects/gold_scoring.py`, and its mirror `lib/goldScoring.ts` | none | `score_sentence` | majorities, two-thirds of the heads, ties | GoldScoring, MCGoldScoring |
| Gold arbitration, `gold/services.py`, `projects/views.py` | resolution, sentences, events | workshop, decide, auto-resolve, finalize, reopen | rows read before the row lock, votes that change | GoldArbitration |
| Arbitration lock, same files | holder, lease | acquire, heartbeat, release, steal | a lease lost while a request waits | ArbitrationLock, GoldArbitration |
| Annotation lifecycle, `annotations/` | annotation, clauses, versions, assignment | clause writes, submit, lock, review, PUT | tests on copies, two transactions | AnnotationLifecycle |
| Workspace store, `store/workspace.ts` | drafts, selection, history | 30 mutators, undo, redo | whole states brought back | WorkspaceStore |
| Autosave, `useAutosave.ts`, `lib/autosave.ts` | baseline, passes, timers | plan, pass, flush, retry | passes that overlap, lost answers | WriteBehind, Autosave |
| Annotation page, `AnnotationWorkspace.tsx`, `WorkspaceToolbar.tsx` | queries, dialogs, publication | mount, prefill, publish | answers in any order | WorkspacePage |
| Document, `DocumentPanel.tsx` and what it mounts | selection, menus, previews | clicks, drags, keys, comparison of judges | one gesture ends in the event of another | DocumentGestures, ReadingAids, JudgeViews, ThemePicker, PlanPanel |
| Triage, `lib/triage`, `components/workspace/triage` | queue, selection | level, decide, batch | order of the judges; two views that move each other | Triage, TriageQueue |
| Comments, `CommentsPanel.tsx`, `annotations/views.py` | threads | post, resolve, list | lists older than the writes | Comments |
| Gold desk and settings, `components/gold` | lock belief, queue, composer, form | acquire, decide, finalize, save | late answers, ties | ArbiterDesk, GoldDesk, GoldSettings |
| Query cache, `lib/api/hooks.ts` | one entry per view | fetch, mutate, invalidate | a key forgotten, an answer read before a write | QueryCache |
| Lab queue and workers, `lab/services.py`, `lab/worker.py` | runs | queue, claim, submit, wait, fetch, ingest, cancel | slow workers taken for dead ones | RunLife, LabQueue |
| Lab screens and forms, `features/lab` | polls, forms | follow, cancel, compare, launch, build, test | polls that cross, forms that change under an answer | LabScreens, LabForms, DatasetForm, ComputeForm |
| Analysis lab, `analysis/`, `features/analysis` | runs, reports | queue, sweep, claim, cancel, save, print | a cancellation that writes a stale status | AnalysisRuns, AnalysisScreen |
| Demonstration, `demo/`, `features/demo` | list in memory, jobs | enqueue, drain, poll, show | restart; the last answer wins | DemoPage, DemoResult |
| Exports, `exports/` | job, thread, history | launch, retry, self-heal | a thread that dies with the server | ExportJob |
| Campaign, `admin/projects/[slug]`, `projects/views.py` | members, assignments | toggle, bulk, lock | fetches that cross writes, uneven shares | CampaignAdmin |
| Translations, `translations/` | files, rows | synchronise | two synchronisations at once | Translations |
| Mock server, `mocks/handlers.ts` | annotation | clause writes, transitions | tests run against it instead of the server | MockServer |
| Collaboration sockets, accounts, audit, corpora, schemes | presence, rows, logs | | | not modelled |

How they interact. Annotation statuses and clauses are the votes of the gold
recompute. The project lock guards clause writes, submissions and arbitration,
each by a test on a loaded copy. Saving an annotation or a clause sends a signal
that recomputes the assignment. The gestures of the document, the picker, the
triage queue and the prefilling all end in mutators of the workspace store;
autosave is the store's only way to the server; the publication flushes it, then
creates a version and submits. The desk is the client of the arbitration lock.
Every page reads through the query cache. The screens of the lab and of the
analysis follow by polling what workers write.

What makes each part correct: the engine labels alone only what has both
majorities; a human decision and a finalized gold survive recomputes; what was
submitted is locked and on record; the server ends with what the user did, or the
indicator says it does not; a view never passes for up to date when it is not;
what is on screen belongs to what was asked for last; a run keeps its verdict and
ends; nobody waits for ever.

## Modules

**Gold and annotations (backend).** `GoldScoring` is `score_sentence` as
operators, a theme being the rank of its code. `GoldArbitration` is the
arbitration of one document: `ReadVotes`, `ReadReady`, `ReadRows`,
`WriteRecompute` are the successive queries of `recompute_document` behind its
three endpoints, `OpenDecide`/`WriteDecide` and `OpenFinalize`/`WriteFinalize`
are requests up to the row lock and under it, the lock's endpoints are single
transactions. `ArbitrationLock` is the abstract lock it implements.
`AnnotationLifecycle` is one annotation: `Open...` are the tests a handler makes
on its copy, `Write...` its later transactions. Two history variables,
`overlapped` and `irregular`, say when a write relied on a stale read; properties
read them, guards never do.

**Workspace (frontend).** `WorkspaceStore` has one action per mutator of the
clauses, the stacks of undo and redo, and the answers to saves. `Autosave` is the
hook with its passes, the timers, the flush of a submission, a lock or a
departure, over a server that creates, updates and deletes; `WriteBehind` is what
it promises for one clause: the server's copy is always something the user had,
and moves forward only. `WorkspacePage` mounts the store when the queries answer,
fails, prefills, and publishes in three stages. `DocumentGestures`,
`ReadingAids`, `ThemePicker`, `PlanPanel`, `TriageQueue` and `Comments` are the
parts of the page a user acts on; in each a clause is what its gestures tell
apart. `JudgeViews` and `Triage` are the calculations they show; `MCViews` gives
them all small inputs, as `MCGoldScoring` does for the scoring engine, whose mirror
in the frontend (`lib/goldScoring.ts`) it holds too.

**Gold (frontend).** `ArbiterDesk` is the client side of the lock over the
server's side; `GoldDesk` the page that decides; `GoldSettings` its
configuration.

**Lab, analysis, demonstration, exports.** `RunLife` is the abstract life of a
run; `LabQueue` (workers, claims, crashes, heartbeats) implements it, and
`LabScreens` follows runs that live so. A cancellation is two steps, as in the
code: the view tests the copy it has loaded (`LoadCancel`, `Accepted`), and
`cancel_run` saves the flag later, without a lock (`CancelRun`, `Flagged`); the
flag may reach a run that has ended, but only from a request that had found it
unfinished. `LabForms`, `DatasetForm`, `ComputeForm`
are the three forms. `AnalysisRuns` is the queue of the analysis lab with its
sweep, `AnalysisScreen` its page. `DemoPage` is the visitor and the queue of the
server together. `DemoResult` is what a result shows. `ExportJob` is the
export, its thread and its row in the history.

**Across.** `QueryCache` follows the views of one page at a time over tables,
keys and invalidations copied from the hooks: the workspace and its document
pane, review, history, comparison, the lists of projects and documents, the
insights, the gold pages, the exports and the administration. Timers (`Poll`) and
buttons (`Retry`) fetch a view again besides the invalidations; the list of
campaigns refetches its own view instead (`FetchesTheView`). `Unrefreshed` lists
the pairs the hooks do leave stale until the stale time passes, among them: the
autosave and the annotation it saved, the lock of a campaign and the list of
projects or the activity (`["projects"]` and `["activity"]` are not under the key
of the project), a remark on a document and the count of comments above it. A
table counts as written whatever the column. `MockServer` sends the same
requests to the mock and to the server. `CampaignAdmin` and `Translations` are
the administrators' pages with their endpoints.

**For TLC.** `MCGoldArbitration` and `MCWorkspaceStore` give inputs to one module
each; `AnnotationLifecycle`, `Autosave` and `ArbiterDesk` run as they are (a user of
the desk is the set of his tabs). `MCStudio` and
`MCReading` instantiate the pages that share no state: `here`, chosen in the
initial state and never changed, says which one a behaviour is about; the
variables of the others are `None`. A property of a page reads
`here = "page" => ...`. So each page is checked exactly as it would be alone, in
one run instead of twenty-six. `MCStudio` and `MCReading` take the bounds and sets of
the pages they are proved about as CONSTANTS (`studio.cfg` and `reading.cfg` give them),
so that what the runs check can be proved for all of them.

## Runs

| Run | Shows |
|---|---|
| `gold_races` | whatever overlaps: automatic labels match the proposal of their row, automatic gold needs complete submissions and two voices, a human decision yields only to another on the sentence or to a recompute that read the row before it (`OnlyStaleReadsUndoDecisions`); until an overlap, human decisions stand and a finalized gold is complete |
| `gold_lock` | the leased lock implements `ArbitrationLock`; writers respect it |
| `annotation` | versions, lock, assignment and status agree until a write from a stale copy |
| `store` | one clause per sentence in the drafts and in all that undo can bring back, no clause of another annotation; seeds await confirmation, sets of themes are well formed (`ClausesAreSound`); read-only drafts stay, every change can be undone but the seeds `seedFromPreAnnotation` adds, which wait for their confirmation (`ChangesCanBeUndone`) |
| `autosave` | with edits, retries, flushes, a departure and faults: the baseline stays what the server holds (`PassesAreSound`), and a submission freezes nothing older than its flush, except for clauses in doubt (below) |
| `autosave_live` | each clause refines `WriteBehind`; what the user did is saved in the end or the indicator shows an error, but for `Misled` and `Hidden` (below) |
| `desk` | a tab that says it holds the lock does, as long as the lease was not disturbed (`LockIsSound`); one that is wrong is told in the end |
| `studio` | queue, screens, annotation page, cache, demonstration, export, analysis: the exclusions that hold whatever crashes or comes late, and what ends under fairness |
| `reading` | nineteen pages and calculations that only answer their user |
| `gold_sacred` | a recompute overwrites a human decision taken since it read the rows, against `gold/services.py:6-7` |
| `autosave_leave` | a save in flight when the workspace closes is followed by one that deletes every clause, against `useAutosave.ts:4-5` |
| `prefill` | the automatic prefilling replaces hand work, against `PreferencesPopover.tsx:100` |

**What the pages promise.** The properties of `studio` and `reading` gather the
statements about single pages by what they promise. Each part stands under its own
comment in `MCStudio` and `MCReading`. Beside the definition a part depends on, an
operator whose comment begins « Mutant of » (or « A bug: ») is a plausible error in
that code: put in place of the definition, TLC finds the group violated, for every
part.

| Property | Of |
|---|---|
| `HandWorkIsConfirmed`, `PageShowsOwnWrites`, `LifeSpec` | the annotation page, the cache, the queue refining `RunLife` |
| `TurnsAreKept` | queue, screens, annotation page, analysis, demonstration: one cancellation, submission or worker at a time; no job waits beside a free place |
| `ShownIsTrue` | annotation page, cache, screens, demonstration: the banner, the runs compared, the result, the file named |
| `RunsEnd`, `EndIsShown` | queue and analysis; screens, annotation page, cache, demonstration, export |
| `ProposalsAreEarned` | scoring engine, triage: majorities, ties, the refuge never imposed, a level the order of judges does not change |
| `TwinsAgree` | scoring and its mirror, server and mock, ruler and zones, Kappa and agreement, rail and validation, guide and program, judges' boundaries and segments |
| `WalksMissNothing` | gold queue, triage queue, plan, divergences |
| `OperationsStayInBounds` | bulk assignment, drags, adoption of a segment, picker |
| `LateAnswersMisleadNobody` | dataset, reports, credentials, launch form and guide, gold settings, campaign, comments (but for what was not heard of, below), previews |
| `ChosenByAHuman` | gold page, triage queue, plan: what is marked as somebody's decision was one |
| `DoneOnce` | launches, comments, saved reports, translations |
| `StepsDoWhatTheyShow` | selections, drags and the quick chain of the document, the counter of gaps, rallying, prefilling |

**Bounds.** In `gold_races`, three requests (two in `gold_lock`) allow a recompute
overlapping a decision and a finalization; every counterexample found needs at
most three; one sentence suffices for races on a row, two where completeness
matters. `annotation`: four requests allow submit, reopen, edit, resubmit; each
history stops at its first irregular write, after which nothing is claimed.
`reading` scores three annotators, the weight of one going from 0 to 3 beside 1 and 1,
and nobody weighing anything, and up to four judges.
`store`: two sentences, three edits and an undo depth of two, so that the history
overflows. `autosave`: two clauses of one theme and one level, two edits, one fault, one
flush; `autosave_live`: one clause, two themes, no level, two faults. `desk`: two tabs of rivals,
two documents, two visits each, one lost answer. In `studio` and `reading` each
page has `MaxMoves` (3 to 7) gestures of its user, the lab and the analysis have
two runs, two workers and one crash (one attempt, one reclaim, one final
failure), the cache two writes and one fault. These let a user ask, change their
mind and ask again while the first answer travels, which is what each
counterexample found needed. Three constraints cut `studio`: a run contested by
two workers is left to the queue's page (`Uncontested`), dialogs of the page open
one at a time (`OneDialog`), and a fault of the cache is followed alone
(`FaultsAlone`). `CHECK_DEADLOCK FALSE` is given where the bounds make the system
stop.

**Fairness.** `autosave_live`: timers fire, the network serves and answers,
continuations run (the browser's event loop). `desk`: heartbeats are sent, and
each kind of request of a tab is served and answered. `studio`: each worker that
can take a step takes one (systemd restarts it), a heartbeat nobody renews lapses,
polls are sent and answered, a page's fetches end (React Query gives each an end),
the three minutes of the demonstration pass, an export ages. All are weak. No
fairness is assumed of users, nor of the choice between success and failure: what
must end may end in an error. The other runs state safety only and assume none.

## Proofs

Everything below holds for any value of the constants, from the named assumptions
of the modules, which TLC evaluates on every run. A module either holds its proofs
(`LabQueue`, `ArbiterDesk`) or has a module `..._proofs` beside it. Each argument
has the same shape: an inductive invariant, one lemma per action or kind of action,
and the property as a consequence of it; what follows says why the invariant is
more than the property.

- `GoldArbitration_proofs`: every property of `gold_races` and `gold_lock`, and that
  deciders are named exactly on human rows.
  A recompute in flight will write rows computed from a *copy*, so
  `IInv == TypeOK /\ RequestsOK /\ GoldOK` says of every copy what it says of the
  table, and that a request has read what its next step uses. `RescoredOK` shows
  that one turn of the loop maps a good row to a good row and keeps a human label;
  `WhoWrites` bounds the actions that change a row. `LockRefinement` maps a running
  lease to the holder.
- `AnnotationLifecycle_proofs`: every property of `annotation`. `RequestOK` keeps
  what a handler tested; a write that stays regular has a copy equal to the row
  (`FreshCopy`), so the test still holds when it writes.
- `WorkspaceStore_proofs`: every property of `store`. The invariant speaks of the
  drafts *and* of every snapshot in both stacks (a snapshot is a past draft, so what
  mutators preserve of drafts they preserve of history), and of the sum of the two
  stacks, since redo pushes without a cap. `SoundClauses` strengthens it with `HInv`:
  drafts and snapshots are honest for the clauses confirmed and painted *so far*,
  two sets that only grow, so a snapshot stays honest. `ChangesUndoable` needs `KInv`:
  a read-only annotation has no history, and an id is never given twice, so a step
  that adds or removes clauses is seen to have pushed the state before it, or to be the
  seeding, which only adds. Assumed
  of the inputs: a loaded set of themes is well formed (`LoadsAssumption`: the
  server stores what `annotations/services.py`, `set_clause_theme_tags`, lets
  through).
- `Autosave_proofs`: both properties of `autosave` and the refinement of
  `autosave_live`. `PassesSound`: the baseline is computed from answers, so the
  invariant says what an answer on its way will make of it (`Answered`), to which row
  an id remembered by the baseline, a request or an answer leads (`Homes`: without it
  an update could write another clause's row), and that nobody writes between the row
  of a clause and the answer about it unless its requests cross (`Alone`); then the
  baseline is what the server holds up to such an answer (`Truthful`), for every
  clause that is not in doubt. `SubmissionIsRecent` adds the
  place in the user's history each request quotes (`Quoted`), that none is older than
  what the server has (`Forward`), and that while a version is made every row and
  request about a clause that was not in doubt is of the return of the flush or later
  (`Recent`). `ServerRunsBehind` is
  the implementation of `WriteBehind`, under the hypothesis that the user does not
  leave: leaving breaks it, which `autosave_leave` shows. Both speak of a clause up
  to a level the content does not name (`Agrees`, `Said`): an update leaves it out
  (`useAutosave.ts:212`), and the server keeps the one it had.
- `ArbiterDesk`: the invariant of `desk`. That a tab's belief is backed is not
  inductive, because an answer on its way may convince the tab: `AnswersAreBacked`
  says the same of each such answer, and is preserved by what changes the lease
  because that marks the document as disturbed.
- `LabQueue`: `QueueImplementsLife`, the refinement of `RunLife`. A worker
  writes the status without looking at it, so the invariant has to say what it
  relies on: the run it holds is live unless it was taken from it (`Held`), and
  two workers hold one run only if it was (`Alone`). `WriteStep` reduces every step
  of a worker to the status it leaves, `ClaimStep` handles the claim that puts one
  run back and takes another. `QueueTypes`: the attempts never pass their maximum,
  because a run in the queue has one left (`Waits`).
- `MCStudio_proofs`: the three invariants of `studio` (`OwnWritesShown`, `EachInTurn`,
  `PagesTellTheTruth`) and its two action properties (`HandWorkSafe`,
  `WorkersKeepTheLife`). Only one page is mounted, so the invariant of the whole, `StudioInv`, is
  that of the page that is there, and a step is a step of that page or none
  (`PageSteps`). The queue brings the lemmas of its module. For the others:
  - analysis: a run a worker computes is running or was swept, which is what claims
    refuse, and the status a cancellation saves was active when loaded; a worker
    computes a metric only while one is left (`Counted`);
  - screens: what a screen was told of a run that has results stays true of it, in
    what it shows, in an answer on its way and in a comparison (`Informed`): a verdict
    changes only when two workers contest the run, which `ComparedHaveResults`
    therefore leaves out;
  - annotation page: the store is read-only exactly when the *cached* annotation and
    project say so (`ReadOnlyAsHeld`), which the banner reads too; and a publication
    is in flight exactly when its stage is on screen and has not failed
    (`Publications`), so the second one has no button left;
  - cache: an answer that was read but not received keeps the promise its view was
    made (`Promised`): a success that raises the promise either marks the view or
    sends its request again, by the tables of keys. That the keys of the hooks cover
    what the mutations write is the closed formula `KeysCoverWrites` about constant
    tables, written with `@@`, of which the provers know nothing: it is assumed here (`KeysAssumption`)
    and TLC evaluates it; the theorem is about the *protocol* of fetches, marks and answers
    over tables that satisfy it;
  - demonstration: while a visitor waits, exactly one request, timer or question of
    theirs is on its way and it is about the last classification asked for (`Token`);
    the list and the threads hold different classifications (`NoneTwice`), a thread
    more is allowed only below the maximum, and then the list is not longer than the
    threads about to look at it (`Served`).

- `MCReading_proofs`: five invariants of `reading` (`DoneOnce`, `ChosenByAHuman`,
  `LateAnswersMisleadNobody`, `WalksMissNothing`, `ProposalsAreEarned`), for pages of any
  size: `MCReading` takes what each of them works on as CONSTANTS. Assumed of them: runs
  and datasets are numbered (`FiguresAssumption`, `LaunchAssumption`), and so are
  sentences, with indexes missing where the code leaves some out (`WalksAssumption`);
  the weights and the ballots have the types of the engine (`ScoringAssumption`), and the
  triage ranks its themes by numbers (`TriageAssumption`). `ReadingInv` is, like
  `StudioInv`, the invariant of the page that is there:
  - figures: until a request fails, one answer of each kind is awaited, a run asked for
    is neither on screen nor being saved (`FiguresAsked`), and one on screen that nobody
    saves was not saved (`FiguresUnsaved`);
  - launch form: what is asked names an experiment that was made (`LauncherNamed`); one
    known to be launched cannot be launched from the form (`LauncherOnce`); undisturbed,
    the form waits for what it shows (`LauncherShows`);
  - comments: a list already read contains what is stored, but for what the page has not
    heard of (`TalkFresh`), and what is typed is neither stored nor on its way (`TalkOnce`);
    campaign: a list already read is the server's, with the same exception;
  - translations: a synchronisation nothing overlaps deletes all that its set has
    (`TranslatedAlone`);
  - gold desk: draft, request and queue are about a theme somebody pointed at (`DeskDraft`,
    `DeskAsked`);
  - plan: who decided a clause left its mark (`PlanTraced`); triage queue: no clause was
    accepted on an open level (`BacklogWritten`);
  - data set, credentials, settings, campaign, previews: a preview that is wanted is of
    the criteria, a test of the secret it was sent with, and timers run wherever the
    mouse has left.

  `WalksAreWhole` needs three arguments of its own. A search along the sentences is a
  recursive function, so that what it returns is shown to satisfy its equation, and to be
  the only one that does by the least place where two solutions differ
  (`LeastNatural`, `AscendsOnce`, `DescendsOnce`). The triage queue sorts by level and
  index: the place of a sentence is the number of those that precede it, so each is dealt
  one card (`BacklogPlaces`, `BacklogCards`); then `BacklogFollows` says that a queue something has placed
  shows the focused sentence's, whatever changes the levels. The button of the
  plan computes a minimum of distances modulo the number of sentences (`NextGapNext`);
  the rank of a gap among the gaps then goes up by one or from the last to 0, so two
  stops less than a round apart are as far apart as their ranks (`PlanStops`), and a
  round of stops is one to one, hence all gaps (`RoundIsAll`).

  `ProposalsAreSupported` needs none of the past: it holds of whatever was voted. It rests on
  sums over a finite set, which are recursive functions on its subsets: `SumsExist` and
  `SumsOnce` say by induction on the cardinality that there is one such function and only one,
  `SumAdd`, `SumUnion`, `SumGrows` and `SumGroups` give their laws. Then the masses of the
  themes share out the weight of those who vote (`ScoringShares`), so that two themes that
  share the lead have at most half of it each (`ScoringTie`, the same with heads for the
  triage in `TriageHalves`), and what is written without an arbiter has more than half
  (`ScoringAuto`). The level the triage gives is computed from the number of judges behind
  each theme and from which pairs of themes overlap (`TriageLevel`), and exchanging two
  judges keeps both (`TriageSame`, `TriageSwap`).

  `EnginesAgree` is the first part of `TwinsAgree`, for any ballots. The screens look for the
  heaviest theme by going through them, the server by sorting: both find the lowest rank among
  the heaviest and no other (`ScoringHeaviest`); the classes are then tested in another order
  on each side, and are the same because they exclude each other (`ScoringClass`).

With TLC only:

- liveness (`EventuallySavedOrShown`, `WrongBeliefEnds`, `RunsEnd`, `EndIsShown`): out of
  this prover's reach;
- `TwinsAgree`, `OperationsStayInBounds`, `StepsDoWhatTheyShow`: parts of them are
  calculations (kappas, segments, the rows of a result, shares of documents) on folds,
  whose value for every input is an induction over data; and the pages of
  `DocumentGestures`, `ThemePicker` and `MockServer`, which `MCReading` gives inputs of a
  fixed size.

## What the models show the code does differently from what it says

Three statements are checked as violation runs (above). The following were met
while modelling: each is a statement TLC refuted, or a branch the translation
follows as it is; the properties checked are worded around them.

*Gold.* A recompute that loaded the resolution before its finalization rewrites a
finalized row (`FinalizedGoldIsFrozen`), a decision may store « resolved » on a
reopened gold (`ResolvedOnlyByFinalize`). A clause write that tested the lock
before it was set changes a locked annotation (`LockedContentIsFrozen`); the
inherited PUT stores any status (`StatusFollowsMachine`). Enter on an option or a
button of the desk also adopts the engine's proposal, and takes a « manual »
proposal the rail refuses; a failed decision pulls the user back and loses the
draft; what is typed in the settings while they are saved is replaced.

*Autosave: clauses in doubt.* When the answer to a request is lost the client knows
no more what the server holds at that clause, and nothing in the code asks; nor does
it when a flush gives up waiting for a slow pass (8 s) and the two ask about the same
clause. Three history variables follow this, clause by clause: `crossed` (requests
of two passes about it), `doubted` (its last answer was lost, or it crossed), until
an answer about it is heard; and `mark`, 0 for a clause in doubt when the flush
returns. Guards never read them. What the properties then leave out is what the code
does not hold, and no more: the baseline of a clause in doubt; a submission's content
for a clause that is *still* in doubt when its flush returns, which takes the user to
have put back what the baseline says, so that the plan is empty, or a pass that
outlasts the flush; in the liveness property, a clause in doubt whose draft equals the
baseline (`Misled`). A lost answer followed by the usual retry is not excepted. The
liveness property also leaves out `Hidden`: the 4xx of one pass stops every save and
shows the error (`useAutosave.ts:238-239`), but a pass that overlaps it shows
« saving », then « saved », over it.

*Workspace.* `seedFromPreAnnotation` takes no snapshot and keeps the redo stack
(`store/workspace.ts:967-988`), although the stack is said to hold one « AVANT chaque
mutation » (`:190`); no page calls it, and the store's `SeedFromPreAnnotation` is in
`Next` all the same. A late answer rewrites an edited draft (`EditsSurviveAnswers`). A triage
level taken away by hand is never saved: the update does not name it
(`useAutosave.ts:212`), the server keeps it, and the comparison that plans the next
pass sees the difference (`lib/autosave.ts:86`), so the clause is sent again at each
pass, which the comment at `lib/autosave.ts:61-66` says cannot happen. With a level
TLC refutes `PassesEnd`; `autosave_live` has none. A
right-drag in a judge's view selects sentences that have no clause; the suppressed
context menu stays armed when the release falls outside. « Étendre ＋ » works once.
« Effacer », « Valider », « Traduire » leave the palette open. A lock of the
project that is lifted reloads the store from a stale cache (`ReopensFresh`). A
failed refetch replaces the page while a publication runs; a retried publication
makes a second version. A decision in the toolbar keeps the triage level of the
engine on a clause decided by hand (`EngineMarkIsTheEngine`), against the comment
at `store/workspace.ts:879`. In the picker Enter on ★ removes the theme, a refuge
that led is lost, « p » is a shortcut and not a letter of the filter.

*Judges.* The triage proposal depends on the order of the judges
(`ProposalIgnoresOrder` in `Triage`) while `triage/engine.ts:9` says
« ORDRE-INDÉPENDANT »; the level does not. Keys 1 and 2 of the comparison adopt
and set the certainty. Of two clauses on a sentence `computeRuns` keeps the first
and `useTriage` the last. The comparison and the rulers have opposite defaults.
Batches of the triage queue overwrite hand annotations (`HandIsKept`).

*Lab and analysis.* A cancellation answered « cancelling » may flag a run that
has ended since it was loaded. A run taken from a slow worker and written « waiting » by it
is stuck if that worker dies: `RunsEnd` excepts contested runs. A launched
experiment may be another than the preset armed, or the estimate shown another's
(`ArmedPresetIsSent`, `EstimateIsOfTheExperiment`). Files of a dataset may not be
those of its fingerprint; two builds make two datasets. A test of credentials in
flight stamps a newer secret. A cancellation that had read « running » writes it
over « succeeded », and the sweep then fails the run (`ResultIsKept`); two posts
make two runs of one computation. A PDF asked for one report is offered under
another, and a failed run shows « Aucune analyse sélectionnée ».

*Comments and campaign: what was not heard of.* Only a success fetches the list again
(`lib/api/hooks.ts:464`, `:552`, `admin/projects/[slug]/page.tsx:147`), and a list is
asked twice (`app/providers.tsx:38`). So a comment the server kept, a resolution, an
assignment or a member whose answer was lost, and whatever changed before a list that
failed, is not on the page until some later list is read. The server may also take a write
after the list was read and before its answer comes. The history variable `unheard` holds
these comments and these lists, until a list is read or asked again; guards never read it,
and what it leaves out of `NoCommentIsHidden` and `PageSettles` is what the code does not
hold. The annotator sees the error in the banner of `useApiErrorStore` and may write the
comment again, which makes two of them (`NoTextIsLost` fails: the form was emptied).
On the campaign page the writes go around the mutations and their errors are shown nowhere.

*Elsewhere.* Demonstration jobs queued at a restart stay queued in the database;
`queue_full` is tested before the enqueue. The age of an export is counted from
its creation, never from its retry; two retries run two threads. The assignment in
bulk is not balanced (two documents, four annotators, overlap 2: 1, 2, 1, 0).
Blank lines shift the translations of the sentences after them. Deleting a clause
deletes the reviewer's comments on it. The mock differs from the server on upserts
without tags, partial PATCHes, locked annotations and empty submissions:
`MockIsFaithful` excepts these kinds of requests (`apart`).

## Abstractions

*Gold.* The resolution row is there from the start; the number of sentences is
fixed; expected annotators, arbiters and leads are constant; the copies of
resolution, project and configuration are taken in one step; the documents a sweep
loops over are independent. Judges' confidence and the risk band take part in no
decision.

*Annotation.* A clause is its sentence and its primary theme; batch and swap are
edits under the same guard. Comments are in `Comments`. A pre-annotation appears
as seeded clauses; `EditLate` of GoldArbitration stands for the late write.

*Frontend.* A render and the effects it causes are one step, unless an effect
waits for a query or a timer. Languages, colours, scrolling and wording are left
out. A page that only needs to know whether the gold lock is held takes it as a
flag. The pages of `MCReading` are not composed with one another: what links them
is the store (`WorkspaceStore`) and the cache (`QueryCache`), each modelled with
the operations its pages use.

## Not modelled

Collaboration sockets (presence is display only; comments are fetched again, not
pushed). Accounts, audit, corpora, schemes: create, read, update of independent
rows, which `QueryCache` only reads. The preferences of the interface
(`useUiPrefsSync`). The rendering of PDFs by the analysis worker: it takes no lock and is swept
by nothing, so a worker that dies there leaves the document « running » for its
retention. The contents of exports, metrics, charts and the pages of text of the
lab: pure output. The answers 401 and 403 of autosave, which end the session.

## What is left

1. Composition of `AnnotationLifecycle` with the votes of `GoldArbitration`, in
   place of `Unlock`, `Submit`, `Reject` and `EditLate`.
2. Composition of `AnalysisScreen` with `AnalysisRuns`, and of `Comments` with
   `Autosave`, whose creations give clauses their identity.
3. More proofs about calculations: the kappas and the segments of the judges, with the sums
   over finite sets of `MCReading_proofs`.
