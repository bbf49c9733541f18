------------------------------ MODULE ThemePicker ------------------------------
(***************************************************************************)
(* The choice of the themes of a sentence: one option per theme, a filter, *)
(* the keyboard, the mouse and its tooltip.  In the menu of the sentence a *)
(* theme is added or removed; in the inspector a theme replaces the        *)
(* primary one.  The selection is the one of the clause of the sentence,   *)
(* in the store, which puts in order whatever set it is given.             *)
(***************************************************************************)
EXTENDS Integers, Sequences, FiniteSetsExt

CONSTANTS
  Themes,        \* in the order of the grid
  Refuges,       \* the themes that can only be primary
  Filters,       \* what may be typed
  Matches(_, _), \* whether a filter keeps a theme
  Openings,      \* the selections the menu may open on
  None,
  MaxMoves       \* bound on what the annotator does

VARIABLES
  place,      \* "menu" or "inspector"
  tags,       \* [labels, lead]: the themes of the clause and the primary one
  query, active,
  mouse,      \* the option under the mouse
  timer,      \* the option whose tooltip is about to be shown
  tooltip,
  focus,      \* <<element, theme>> that has the keyboard
  gesture,    \* the last gesture, and the themes it was made on
  moves

grid == <<query, active>>
hover == <<mouse, timer, tooltip>>
still == <<place, tags, focus>>
vars == <<still, grid, hover, gesture, moves>>

NoClause == [labels |-> <<>>, lead |-> None]
Selected(t) == t \in Range(tags.labels)
Secondaries == SelectSeq(tags.labels, LAMBDA t : t # tags.lead)
Options == SelectSeq(Themes, LAMBDA t : query = "" \/ Matches(query, t))
Shown(t) == t \in Range(Options)
Active == IF active \in DOMAIN Options THEN Options[active] ELSE None

\* Mutant of Disabled: a refuge is always offered.
NeverDisabled(t) == FALSE
Disabled(t) == place = "menu" /\ t \in Refuges /\ tags # NoClause /\ ~Selected(t)

Init ==
  /\ place \in {"menu", "inspector"} /\ tags \in Openings
  /\ query = "" /\ active = 1 /\ mouse = None /\ timer = None /\ tooltip = None
  /\ focus = <<"field", None>> /\ gesture = [kind |-> "none", on |-> None, before |-> NoClause] /\ moves = 0

Moved == moves < MaxMoves /\ moves' = moves + 1 /\ UNCHANGED place
Did(kind, t) == gesture' = [kind |-> kind, on |-> t, before |-> tags]
Looks == Did("look", None) /\ UNCHANGED tags

\* What the store makes of the set it is given: a primary, and no refuge behind it.
Sanitized(labels, lead) ==
  [labels |-> SelectSeq(labels, LAMBDA t : t = lead \/ t \notin Refuges), lead |-> lead]
\* Mutant of SetThemes: the first theme leads, whatever is asked.
FirstLeads(labels, lead) == tags' = Sanitized(labels, Head(labels))
SetThemes(labels, lead) == tags' = Sanitized(labels, lead)

\* Without a clause, one is created; without its last theme, it is removed;
\* without its primary, the first of the others leads.
ToggleTheme(t) ==
  LET left == SelectSeq(tags.labels, LAMBDA u : u # t)
  IN CASE tags = NoClause -> tags' = [labels |-> <<t>>, lead |-> t]
       [] tags # NoClause /\ ~Selected(t) -> SetThemes(Append(tags.labels, t), tags.lead)
       [] Selected(t) /\ left # <<>> -> SetThemes(left, IF t = tags.lead THEN Head(left) ELSE tags.lead)
       [] OTHER -> tags' = NoClause
PromoteTheme(t) == SetThemes(tags.labels, t)
ChooseTheme(t) ==
  IF tags = NoClause THEN tags' = [labels |-> <<t>>, lead |-> t]
  ELSE IF tags.lead = t THEN tags' = NoClause
  ELSE tags' = Sanitized(<<t>> \o SelectSeq(tags.labels, LAMBDA u : u # t), t)

\* The button that had the keyboard is gone with what it did.
Nowhere == <<"none", None>>
\* The inspector shows another palette when the clause comes or goes.
Mounted == query' = "" /\ active' = 1 /\ mouse' = None /\ timer' = None /\ tooltip' = None
Picks(t, where) ==
  IF place = "menu"
  THEN ToggleTheme(t) /\ Did("toggle", t) /\ focus' = where /\ UNCHANGED <<grid, hover>>
  ELSE /\ ChooseTheme(t) /\ Did("choose", t)
       /\ IF (tags = NoClause) # (tags' = NoClause)
          THEN Mounted /\ focus' = Nowhere
          ELSE focus' = where /\ UNCHANGED <<grid, hover>>

Click(t) == Moved /\ Shown(t) /\ ~Disabled(t) /\ Picks(t, <<"option", t>>)
ClickStar(t) ==
  /\ Moved /\ place = "menu" /\ Shown(t) /\ t \in Range(Secondaries) /\ PromoteTheme(t) /\ Did("promote", t)
  /\ focus' = Nowhere /\ UNCHANGED <<grid, hover>>
ClickCross(t) == Moved /\ place = "menu" /\ Shown(t) /\ Selected(t) /\ Picks(t, Nowhere)

\* The keyboard goes to the field, to an option, or to the star of a secondary.
Tab(el, t) ==
  /\ Moved /\ focus # <<el, t>>
  /\ \/ el = "field" /\ t = None
     \/ el = "option" /\ t \in Range(Options)
     \/ el = "star" /\ place = "menu" /\ t \in Range(Options) \cap Range(Secondaries)
  /\ focus' = <<el, t>> /\ Looks /\ UNCHANGED <<grid, hover>>
InField == Moved /\ focus[1] = "field"
Browses == InField /\ Looks /\ UNCHANGED <<hover, focus>>

Type(q) == Browses /\ q # query /\ query' = q /\ active' = 1
ArrowDown == Browses /\ active' = Min({active + 1, Len(Options)}) /\ UNCHANGED query
ArrowUp == Browses /\ active' = Max({active - 1, 1}) /\ UNCHANGED query
EnterInField == InField /\ Active # None /\ ~Disabled(Active) /\ Picks(Active, focus)

\* In the menu's filter the letter is a command when the active option is selected.
TypeP ==
  IF place = "menu" /\ Active # None /\ Selected(Active)
  THEN InField /\ PromoteTheme(Active) /\ Did("letter", Active) /\ UNCHANGED <<grid, hover, focus>>
  ELSE Browses /\ query' = "p" /\ active' = 1

\* On an option, or on its star whose key reaches the option first.
EnterOnOption ==
  /\ Moved /\ focus[1] = "option" /\ Shown(focus[2]) /\ ~Disabled(focus[2])
  /\ Picks(focus[2], focus)
EnterOnStar ==
  /\ Moved /\ focus[1] = "star" /\ Shown(focus[2]) /\ focus[2] \in Range(Secondaries)
  /\ ToggleTheme(focus[2]) /\ Did("star", focus[2])
  /\ focus' = Nowhere /\ UNCHANGED <<grid, hover>>

Hover(t) ==
  /\ Moved /\ Shown(t) /\ mouse # t
  /\ mouse' = t /\ active' = (CHOOSE i \in DOMAIN Options : Options[i] = t)
  /\ timer' = IF place = "menu" \/ tags # NoClause THEN t ELSE None
  /\ Looks /\ UNCHANGED <<query, tooltip, focus>>
Leave ==
  /\ Moved /\ mouse # None /\ mouse' = None /\ timer' = None
  /\ Looks /\ UNCHANGED <<grid, tooltip, focus>>
Expires ==
  /\ timer # None /\ tooltip' = timer /\ timer' = None
  /\ UNCHANGED <<still, grid, mouse, gesture, moves>>

Next ==
  \/ \E t \in Range(Themes) : Click(t) \/ ClickStar(t) \/ ClickCross(t) \/ Hover(t)
  \/ \E el \in {"field", "option", "star"}, t \in Range(Themes) \cup {None} : Tab(el, t)
  \/ \E q \in Filters : Type(q)
  \/ ArrowDown \/ ArrowUp \/ EnterInField \/ TypeP \/ EnterOnOption \/ EnterOnStar \/ Leave \/ Expires

-------------------------------------------------------------------------------
Had(t) == t \in Range(gesture.before.labels)
Changed == {t \in Range(Themes) : Selected(t) # Had(t)}

\* An option that lets itself be clicked adds or removes its theme and no other
\* one: what the grid offers is what the store accepts (ThemeMultiPicker.tsx,
\* isRefugeDisabled; store/workspace.ts, sanitizeThemeSet).
ToggleIsOfOneTheme == gesture.kind = "toggle" => Changed = {gesture.on}

\* A promoted theme leads, and only a refuge that led is lost: the others keep
\* their order behind it (SentenceMenu.tsx, onPromoteTheme).
PromotionKeepsTheOthers ==
  gesture.kind \in {"promote", "letter"} =>
    /\ tags.lead = gesture.on
    /\ tags.labels = SelectSeq(gesture.before.labels, LAMBDA t : t = gesture.on \/ t \notin Refuges)

\* What the header says of a promotion: the former primary becomes a secondary.
FormerPrimaryFollows ==
  gesture.kind = "promote" => gesture.before.lead \in Range(Secondaries)

\* A tooltip is of the option under the mouse.
TooltipIsOfTheOption == tooltip # None => mouse = tooltip

\* The star promotes, from the keyboard too.
StarPromotes == gesture.kind = "star" => Selected(gesture.on)

\* A letter typed in the filter filters.
LettersFilter == gesture.kind # "letter"
================================================================================
