------------------------- MODULE DocumentGestures -------------------------
(***************************************************************************)
(* The gestures of the annotation workspace on the document: clicks on the *)
(* sentences, the drag with the right button, the sentence menu, the rail  *)
(* of quick actions, the floating toolbar, the plan and the shortcuts      *)
(* (components/workspace/).  What a gesture does to the clauses is         *)
(* WorkspaceStore's; here a clause is its theme and whether it is          *)
(* validated, and the question is WHICH sentences a gesture reaches.       *)
(***************************************************************************)
EXTENDS Naturals, FiniteSets, FiniteSetsExt

CONSTANTS NSentences,   \* sentences of the document
          Themes, None,
          Judged,       \* the segments of a judge: first sentence -> theme
          Openings,     \* the annotations the document may be opened with
          MaxGestures   \* bound: gestures of a session

Sentences == 0 .. NSentences - 1
Clause == [theme : Themes \cup {None}, ok : BOOLEAN]
Bare == [theme |-> None, ok |-> FALSE]
Typed(t) == [theme |-> t, ok |-> TRUE]

VARIABLES drafts,   \* sentence -> its clause, Bare where there is none
          readOnly,
          source,   \* llmSource: the clauses of the user, or a judge's
          sel,      \* focused sentence, selected sentences, blocks and clause
          mouse,    \* the drag with the right button
          ui,       \* what is open: menus and palette
          gestures

vars == <<drafts, readOnly, source, sel, mouse, ui, gestures>>

Id(o, i) == [owner |-> o, at |-> i]
Ids == {Id(o, i) : o \in {"human", "judge", "gone"}, i \in Sentences}
AtMostOne(S) == {T \in SUBSET S : Cardinality(T) <= 1}

---------------------------------------------------------------------------
\* Runs: what the rows show, and what a position under the mouse stands for.
Run(o, lo, hi, t) == [owner |-> o, lo |-> lo, hi |-> hi, theme |-> t]
Covered == {i \in Sentences : drafts[i].theme # None}
ThemeOf(i) == drafts[i].theme

\* humanRuns: one run per annotated sentence.
HumanRuns == {Run("human", i, i, ThemeOf(i)) : i \in Covered}

\* coalesceRuns over the segments of the judge: a segment of the same theme as the
\* one before it continues it.
Heads == {i \in DOMAIN Judged :
            LET before == {k \in DOMAIN Judged : k < i}
            IN before = {} \/ Judged[Max(before)] # Judged[i]}
JudgeRuns == {Run("judge", i, Min({k - 1 : k \in {h \in Heads : h > i}} \cup {NSentences - 1}),
                  Judged[i]) : i \in Heads}
Runs == IF source = "human" THEN HumanRuns ELSE JudgeRuns
RunAt(runs, i) == {r \in runs : r.lo <= i /\ i <= r.hi}

\* deriveBlocks, blockAt: the annotated sentences around i of the theme of i.
BlockAt(i) == IF i \notin Covered THEN {}
              ELSE {k \in Covered : \A x \in Min({i, k}) .. Max({i, k}) : ThemeOf(x) = ThemeOf(i)}
Starts == {Min(BlockAt(i)) : i \in Covered} \cup Heads
NextBoundary(i) == Min({s \in Starts : s > i} \cup {NSentences})

\* clauseRangeBetween: the runs a drag from i to k crosses.
Between(i, k) == {Id(r.owner, r.lo) : r \in {q \in Runs : /\ q.hi >= Min({i, k})
                                                          /\ q.lo <= Max({i, k})}}

\* The anchors of the selected blocks: the clauses of the annotation among them.
Anchors(ids) == {b.at : b \in {c \in ids : c.owner = "human"}}

\* What the row and the plan show as selected.
Highlighted == sel.picked \cup Anchors(sel.blocks) \cup sel.chip

\* validatable, nextUncovered: where « suivant » and the plan lead.
NextClause(i) == {Min(S) : S \in {{k \in Covered : k > i}} \ {{}}}
NextGap(i) == LET gaps == Sentences \ Covered
                  later == {k \in gaps : k > i}
              IN {Min(S) : S \in {IF later # {} THEN later ELSE gaps} \ {{}}}

---------------------------------------------------------------------------
Gesture == gestures < MaxGestures /\ gestures' = gestures + 1 /\ UNCHANGED readOnly
Idle == mouse.from = {} /\ Gesture

\* Every mutator refuses when read-only, and a clause that goes leaves the names
\* that the selections keep of it behind.
Alive(s, ds) ==
  [s EXCEPT !.blocks = {IF b.owner = "human" /\ ds[b.at].theme = None THEN Id("gone", b.at) ELSE b : b \in @},
            !.chip = {i \in @ : ds[i].theme # None}]
Edit(next, s) ==
  LET after == IF readOnly THEN drafts ELSE next
  IN drafts' = after /\ sel' = Alive(s, after)

Written(S, c) == [i \in Sentences |-> IF i \in S THEN c ELSE drafts[i]]
Validated(S) == [i \in Sentences |-> IF i \in S \cap Covered THEN [drafts[i] EXCEPT !.ok = TRUE]
                                     ELSE drafts[i]]

Unpicked == [sel EXCEPT !.picked = {}]
Unblocked == [sel EXCEPT !.blocks = {}]
Focused(s, i) == [s EXCEPT !.focus = i]
Show(i) == [Unblocked EXCEPT !.picked = {}, !.focus = i, !.chip = {i} \cap Covered]
Selects(s) == sel' = s /\ UNCHANGED <<drafts, source, mouse, ui>>
Closes(s) == ui' = s /\ UNCHANGED <<source, mouse>>

Init ==
  /\ drafts \in Openings
  /\ readOnly \in BOOLEAN
  /\ source = "human"
  /\ sel = [focus |-> 0, picked |-> {}, blocks |-> {}, chip |-> {}]
  /\ mouse = [from |-> {}, over |-> {}, moved |-> FALSE, suppress |-> FALSE]
  /\ ui = [menu |-> {}, toc |-> FALSE, palette |-> FALSE]
  /\ gestures = 0

---------------------------------------------------------------------------
\* The rows.
ClickRow(i) == Idle /\ Selects(Show(i))
KeyRow == Idle /\ Selects([sel EXCEPT !.chip = {sel.focus} \cap Covered])
ShiftClick(i) ==
  Idle /\ Selects(Focused([sel EXCEPT !.picked = Min({sel.focus, i}) .. Max({sel.focus, i})], i))
CtrlClick(i) ==
  Idle /\ Selects(Focused([sel EXCEPT !.picked = (@ \ {i}) \cup ({i} \ @)], i))
DoubleClick(i) ==
  Idle /\ Selects(IF i \in Covered THEN [sel EXCEPT !.blocks = {Id("human", k) : k \in BlockAt(i)}]
                  ELSE [Unblocked EXCEPT !.picked = {}])
\* The validation track and the rulers of the models only move the focus.
Jump(i) == Idle /\ i # sel.focus /\ Selects(Focused(sel, i))
MoveFocus == Gesture /\ \E i \in Sentences :
  (i = sel.focus + 1 \/ i + 1 = sel.focus) /\ Selects(Focused(sel, i))
SwitchSource == /\ Idle /\ source' = (IF source = "human" THEN "judge" ELSE "human")
                /\ UNCHANGED <<drafts, sel, mouse, ui>>

---------------------------------------------------------------------------
\* The drag with the right button (useBlockDragSelect).
RightPress(i) ==
  /\ Idle
  /\ mouse' = [mouse EXCEPT !.from = {i}, !.over = {i}, !.moved = FALSE]
  /\ UNCHANGED <<drafts, source, sel, ui>>

\* The row under the mouse; outside of the rows, the row where the drag began.
Aim == IF mouse.over = {} THEN mouse.from ELSE mouse.over
Swept(at) == UNION {Between(i, k) : i \in mouse.from, k \in IF at = {} THEN mouse.from ELSE at}

DragOver(at) ==
  /\ mouse.from # {} /\ Gesture
  /\ mouse' = [mouse EXCEPT !.over = at, !.moved = TRUE]
  /\ sel' = [sel EXCEPT !.blocks = Swept(at)]
  /\ UNCHANGED <<drafts, source, ui>>

\* Mutant of Arms: the drag over a single clause lets the menu come.
ArmsOnSelection(ids) == Cardinality(ids) >= 2
Arms(ids) == ids # {}

\* finalize on pointerup, and the contextmenu event the browser sends at once to the
\* row under the mouse, which opens the menu unless the drag has armed the refusal.
Release ==
  LET ids == IF mouse.moved THEN Swept(mouse.over) ELSE {}
      refused == mouse.suppress \/ Arms(ids)
  IN /\ mouse.from # {} /\ Gesture
     /\ sel' = IF mouse.moved
               THEN [sel EXCEPT !.blocks = IF Cardinality(ids) >= 2 THEN ids ELSE {}]
               ELSE sel
     /\ ui' = IF refused THEN ui ELSE [ui EXCEPT !.menu = mouse.over]
     /\ mouse' = [from |-> {}, over |-> {}, moved |-> FALSE,
                  suppress |-> mouse.over = {} /\ refused]
     /\ UNCHANGED <<drafts, source>>

PointerCancel ==
  /\ mouse.from # {} /\ Gesture
  /\ mouse' = [mouse EXCEPT !.from = {}, !.over = {}, !.moved = FALSE]
  /\ UNCHANGED <<drafts, source, sel, ui>>

---------------------------------------------------------------------------
\* The sentence menu, opened by a still right click or by a long press.
LongPress(i) == Idle /\ Closes([ui EXCEPT !.menu = {i}]) /\ UNCHANGED <<drafts, sel>>
CloseMenu == Idle /\ ui.menu # {} /\ Closes([ui EXCEPT !.menu = {}]) /\ UNCHANGED <<drafts, sel>>

\* onToggleTheme with one label: set, replaced through the multi-label set, or the
\* last label of the clause taken away.
MenuTheme(t) ==
  /\ Idle /\ ui.menu # {}
  /\ LET i == Max(ui.menu)
     IN Edit(Written({i}, IF ThemeOf(i) = t THEN Bare ELSE Typed(t)),
             [sel EXCEPT !.chip = IF ThemeOf(i) = t THEN {} ELSE {i}])
  /\ UNCHANGED <<source, mouse, ui>>
MenuValidate ==
  /\ Idle /\ ui.menu \cap Covered # {}
  /\ Edit(Validated(ui.menu), sel) /\ Closes([ui EXCEPT !.menu = {}])
MenuClear ==
  /\ Idle /\ ui.menu \cap Covered # {}
  /\ Edit(Written(ui.menu, Bare), [sel EXCEPT !.chip = {}]) /\ Closes([ui EXCEPT !.menu = {}])

---------------------------------------------------------------------------
\* The rail of quick actions: validate the clause of the row and go to the next one.
\* Mutant of Following: the next sentence instead of the next clause.
NextRow(i) == {k \in Sentences : k = i + 1}
Following(i) == NextClause(i)

QuickValidate(i) ==
  /\ Idle /\ i \in Covered
  /\ Edit(Validated({i}), [sel EXCEPT !.focus = IF Following(i) = {} THEN @ ELSE Max(Following(i))])
  /\ UNCHANGED <<source, mouse, ui>>
QuickAccept(i, t) ==
  /\ Idle /\ Edit(Written({i}, Typed(t)), [sel EXCEPT !.chip = {i}])
  /\ UNCHANGED <<source, mouse, ui>>

\* Adoption of the judge's segment around the focus: key 1 or 2, or the popover.
Adopt ==
  /\ Idle
  /\ \E r \in RunAt(JudgeRuns, sel.focus) : Edit(Written(r.lo .. r.hi, Typed(r.theme)), sel)
  /\ UNCHANGED <<source, mouse, ui>>

---------------------------------------------------------------------------
\* SelectionTools: the selections the bar of the document offers.
\* Mutant of ToBoundary: the first sentence of the next block is taken too.
ThroughBoundary == sel.focus .. Min({NextBoundary(sel.focus), NSentences - 1})
ToBoundary == sel.focus .. NextBoundary(sel.focus) - 1
CurrentSegment ==
  LET here == RunAt(Runs, sel.focus)
  IN IF here # {} THEN UNION {r.lo .. r.hi : r \in here}
     ELSE {k \in Sentences : Between(k, sel.focus) = {}}
WholeTheme == {i \in Sentences : \E r \in RunAt(Runs, i), q \in RunAt(Runs, sel.focus) : r.theme = q.theme}
SelectTool ==
  \E S \in {ToBoundary, CurrentSegment, WholeTheme, Sentences, {}} :
    /\ Idle /\ S # sel.picked
    /\ Selects([sel EXCEPT !.picked = S])

\* SelectionToolbar: on blocks when some are selected, else on sentences.
OnBlocks == Idle /\ sel.blocks # {} /\ UNCHANGED <<source, mouse>>
OnSentences == Idle /\ sel.blocks = {} /\ sel.picked # {} /\ UNCHANGED <<source, mouse>>
Folded == ui' = [ui EXCEPT !.palette = FALSE]

TogglePalette == (OnBlocks \/ OnSentences) /\ ui' = [ui EXCEPT !.palette = ~@] /\ UNCHANGED <<drafts, sel>>
AnnotatePicked(t) ==
  OnSentences /\ ui.palette /\ Edit(Written(sel.picked, Typed(t)), Unpicked) /\ Folded
ClearPicked == OnSentences /\ Edit(Written(sel.picked, Bare), Unpicked) /\ Folded
ValidatePicked == OnSentences /\ Edit(Validated(sel.picked), Unpicked) /\ UNCHANGED ui

\* Mutant of Targets: a range from the first to the last of the selected clauses.
TargetsSpan(ids) == IF Anchors(ids) = {} THEN {} ELSE Min(Anchors(ids)) .. Max(Anchors(ids))
Targets(ids) == Anchors(ids)

AnnotateBlocks(t) ==
  OnBlocks /\ ui.palette /\ Edit(Written(Targets(sel.blocks), Typed(t)), Unblocked) /\ Folded
ClearBlocks == OnBlocks /\ Edit(Written(Targets(sel.blocks), Bare), Unblocked) /\ UNCHANGED ui
ValidateBlocks == OnBlocks /\ Edit(Validated(Targets(sel.blocks)), Unblocked) /\ Folded

\* Étendre and Réduire: only for a block of one theme without a hole.
OneBlock == LET S == Anchors(sel.blocks)
            IN S # {} /\ S = Min(S) .. Max(S) /\ \A i, k \in S : ThemeOf(i) = ThemeOf(k)
Extend ==
  /\ OnBlocks /\ OneBlock /\ Max(Anchors(sel.blocks)) + 1 < NSentences
  /\ LET last == Max(Anchors(sel.blocks))
     IN Edit(Written({last + 1}, Typed(ThemeOf(last))), sel)
  /\ UNCHANGED ui
Shrink ==
  /\ OnBlocks /\ OneBlock /\ Cardinality(Anchors(sel.blocks)) > 1
  /\ Edit(Written({Max(Anchors(sel.blocks))}, Bare), sel)
  /\ UNCHANGED ui
DropBlocks == OnBlocks /\ sel' = Unblocked /\ UNCHANGED drafts /\ Folded

---------------------------------------------------------------------------
\* The plan (TocPanel): one chip per clause, one empty block per other sentence.
ChipClick(i) == Idle /\ i \in Covered /\ Selects([Unblocked EXCEPT !.chip = {i}, !.focus = i])
ChipToggle(i) ==
  /\ Idle /\ i \in Covered
  /\ Selects([sel EXCEPT !.blocks = (@ \ {Id("human", i)}) \cup ({Id("human", i)} \ @)])
ChipContext(i) ==
  /\ Idle /\ i \in Covered
  /\ sel' = [sel EXCEPT !.blocks = @ \cup {Id("human", i)}]
  /\ Closes([ui EXCEPT !.toc = ~readOnly]) /\ UNCHANGED drafts
EmptyChip(i) ==
  Idle /\ i \notin Covered /\ Selects([Unblocked EXCEPT !.chip = {}, !.focus = i])
GoToGap == Idle /\ \E i \in NextGap(sel.focus) : Selects([Unblocked EXCEPT !.chip = {}, !.focus = i])

InPlanMenu == Idle /\ ui.toc /\ Closes([ui EXCEPT !.toc = FALSE])
PlanAnnotate(t) == InPlanMenu /\ Edit(Written(Targets(sel.blocks), Typed(t)), Unblocked)
PlanClear == InPlanMenu /\ Edit(Written(Targets(sel.blocks), Bare), Unblocked)
PlanValidate == InPlanMenu /\ Edit(Validated(Targets(sel.blocks)), Unblocked)
PlanMenuCloses == InPlanMenu /\ UNCHANGED <<drafts, sel>>

Next ==
  \/ KeyRow \/ MoveFocus \/ SwitchSource \/ Release \/ PointerCancel \/ DragOver({})
  \/ CloseMenu \/ MenuValidate \/ MenuClear \/ Adopt \/ SelectTool
  \/ TogglePalette \/ ClearPicked \/ ValidatePicked \/ ClearBlocks \/ ValidateBlocks
  \/ Extend \/ Shrink \/ DropBlocks
  \/ GoToGap \/ PlanClear \/ PlanValidate \/ PlanMenuCloses
  \/ \E i \in Sentences :
       \/ ClickRow(i) \/ ShiftClick(i) \/ CtrlClick(i) \/ DoubleClick(i) \/ Jump(i)
       \/ RightPress(i) \/ DragOver({i}) \/ LongPress(i) \/ QuickValidate(i)
       \/ ChipClick(i) \/ ChipToggle(i) \/ ChipContext(i) \/ EmptyChip(i)
       \/ \E t \in Themes : QuickAccept(i, t)
  \/ \E t \in Themes : MenuTheme(t) \/ AnnotatePicked(t) \/ AnnotateBlocks(t) \/ PlanAnnotate(t)

Spec == Init /\ [][Next]_vars

---------------------------------------------------------------------------
\* Types of the state.
TypeOK ==
  /\ drafts \in [Sentences -> Clause]
  /\ readOnly \in BOOLEAN /\ source \in {"human", "judge"}
  /\ sel \in [focus : Sentences, picked : SUBSET Sentences, blocks : SUBSET Ids,
              chip : AtMostOne(Sentences)]
  /\ mouse \in [from : AtMostOne(Sentences), over : AtMostOne(Sentences),
                moved : BOOLEAN, suppress : BOOLEAN]
  /\ ui \in [menu : AtMostOne(Sentences), toc : BOOLEAN, palette : BOOLEAN]
  /\ gestures \in 0 .. MaxGestures

Changed == {i \in Sentences : drafts'[i] # drafts[i]}

\* A gesture that changes several sentences changes only sentences that were shown
\* as selected, or the segment of the judge around the focus (the adoption): what
\* lies between two selected blocks is never painted nor erased with them
\* (SelectionToolbar.tsx, TocPanel.tsx, applyBlockOp).
BulkStaysOnSelection ==
  Cardinality(Changed) > 1 =>
    Changed \subseteq Highlighted \/ \E r \in RunAt(JudgeRuns, sel.focus) : Changed \subseteq r.lo .. r.hi

\* A drag with the right button that has crossed a clause does not end in the
\* sentence menu, even when it is too short to select (useBlockDragSelect.ts).
DragOpensNoMenu ==
  mouse.moved /\ Swept(mouse.over) # {} /\ mouse'.from = {} => ui'.menu = ui.menu

\* « Valider + suivant » can be clicked again where it leads: as long as a later
\* sentence carries a clause, the focus lands on a row whose button is active.
QuickChainNeverBreaks ==
  \A i \in Covered : QuickValidate(i) /\ sel'.focus # sel.focus => sel'.focus \in Covered

\* « Jusqu'à la frontière » never reaches into the next block: the selection it makes
\* holds no sentence where a block of the user or a segment of the judge begins,
\* except the one it starts from (nextBoundaryFrom, lib/runs.ts).
ReachStopsAtBoundary == \A i \in ToBoundary : i # sel.focus => i \notin Starts
===========================================================================
