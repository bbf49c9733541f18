----------------------------- MODULE ReadingAids -----------------------------
(***************************************************************************)
(* What helps to read the document of the annotation page: the preview of  *)
(* the rationale under the mouse, the lens on the clauses marked unfair,   *)
(* the menus, the comparison of the judges and its panel, the rulers, the  *)
(* language (components/workspace/DocumentPanel.tsx and what it mounts).   *)
(***************************************************************************)
EXTENDS JudgeViews

CONSTANTS Judges,
          Judged,      \* version of the judges -> judge -> its clauses
          Marked,      \* sentences marked unfair
          French,      \* sentences that have a translation
          MaxMoves     \* bound: moves of the user

VARIABLES pointer,     \* where the mouse is
          hover, hoverTimer,   \* the preview of the rationale and its only timer
          lens, lensTimer,     \* the preview of the lens and its only timer
          pinned, popup,       \* the card opened by the keyboard; the menu or the peek
          marks,               \* showUnfairness
          orphan,              \* what the mouse was on has been removed under it
          focus, source, panel,
          version, arrived,    \* the version of the judges asked for; its answer is here
          ruler,               \* gutterModels: what the user said of each judge
          lang, translated,
          moves

aids == <<hover, hoverTimer, lens, lensTimer, pinned, popup, marks, orphan>>
compare == <<focus, source, panel, version, arrived, ruler>>
text == <<lang, translated>>
vars == <<pointer, aids, compare, text, moves>>

Place(on, i) == [on |-> on, at |-> i]
Away == Place("away", 0)
NoTimer == [goes |-> "none", at |-> 0]
Opens(i) == [goes |-> "open", at |-> i]
Closes == [goes |-> "close", at |-> 0]
AtMostOne == {{}} \cup {{i} : i \in Sentences}

Init ==
  /\ pointer = Away
  /\ hover = {} /\ hoverTimer = NoTimer /\ lens = {} /\ lensTimer = NoTimer
  /\ pinned = {} /\ popup = "none" /\ marks = TRUE /\ orphan = FALSE
  /\ focus = 0 /\ source = "human" /\ panel = FALSE
  /\ version \in DOMAIN Judged /\ arrived = FALSE
  /\ ruler = [j \in Judges |-> "absent"]
  /\ lang = "orig" /\ translated = {} /\ moves = 0
Move == moves < MaxMoves /\ moves' = moves + 1

---------------------------------------------------------------------------
\* The mouse.  A row sees the mouse enter and leave once, its mark included; the mark and
\* the card of the lens see theirs.
OnRow(p, i) == p.on \in {"row", "mark"} /\ p.at = i
EntersRow(p, q) == q.on \in {"row", "mark"} /\ ~OnRow(p, q.at)
LeavesRow(p, q) == p.on \in {"row", "mark"} /\ ~OnRow(q, p.at)
\* openHover, closeHover: the mark closes the preview that entering its row opens.
HoverTimer(p, q) ==
  IF q.on = "mark" THEN Closes
  ELSE IF EntersRow(p, q) THEN Opens(q.at)
  ELSE IF LeavesRow(p, q) THEN Closes ELSE hoverTimer
\* Mutant of LensTimer: nothing happens when the mouse leaves the card.
LensTimerOnCard(p, q) ==
  IF q.on = "mark" THEN Opens(q.at)
  ELSE IF q.on = "card" THEN NoTimer
  ELSE IF p.on = "mark" THEN Closes ELSE lensTimer
\* openInjustice, closeInjustice, keepInjustice.
LensTimer(p, q) ==
  IF q.on = "mark" THEN Opens(q.at)
  ELSE IF q.on = "card" THEN NoTimer
  ELSE IF p.on \in {"mark", "card"} THEN Closes ELSE lensTimer

LensShown == lens # {} /\ pinned = {} /\ popup = "none"
Places == {Away} \cup {Place("row", i) : i \in Sentences}
            \cup {Place("mark", i) : i \in IF marks THEN Marked ELSE {}}
            \cup {Place("card", 0) : x \in IF LensShown THEN {0} ELSE {}}
PointTo(q) ==
  /\ Move /\ q # pointer /\ pointer' = q
  /\ hoverTimer' = HoverTimer(pointer, q)
  /\ lensTimer' = LensTimer(pointer, q)
  /\ orphan' = (orphan /\ q.on \notin {"mark", "card"})
  /\ UNCHANGED <<hover, lens, pinned, popup, marks, compare, text>>

Fired(timer, was) == IF timer.goes = "open" THEN {timer.at} ELSE {}
HoverFires ==
  /\ hoverTimer # NoTimer /\ hover' = Fired(hoverTimer, hover) /\ hoverTimer' = NoTimer
  /\ UNCHANGED <<pointer, lens, lensTimer, pinned, popup, marks, orphan, compare, text, moves>>
\* A card that goes under the mouse does not see it leave.
CardGoes == pointer.on = "card" /\ ~LensShown'
Carded == IF CardGoes THEN pointer' = Away ELSE UNCHANGED pointer
LensFires ==
  /\ lensTimer # NoTimer /\ lens' = Fired(lensTimer, lens) /\ lensTimer' = NoTimer
  /\ UNCHANGED <<hover, hoverTimer, pinned, popup, marks, compare, text, moves>>
  /\ Carded /\ orphan' = (orphan /\ lens' # {})

---------------------------------------------------------------------------
\* The keyboard on a mark opens the card for good; a menu or the peek at a boundary hides
\* both previews without closing them.
Pin(i) ==
  /\ Move /\ marks /\ i \in Marked /\ pinned' = {i} /\ lens' = {} /\ lensTimer' = NoTimer
  /\ UNCHANGED <<hover, hoverTimer, popup, marks, compare, text>>
  /\ Carded /\ orphan' = FALSE
Unpin ==
  /\ Move /\ pinned # {} /\ pinned' = {}
  /\ UNCHANGED <<pointer, hover, hoverTimer, lens, lensTimer, popup, marks, orphan, compare, text>>
Popup(kind) ==
  /\ Move /\ popup' = kind /\ popup # kind
  /\ kind = "menu" => popup = "none"
  /\ UNCHANGED <<hover, hoverTimer, lens, lensTimer, pinned, marks, compare, text>>
  /\ Carded /\ orphan' = (orphan \/ (CardGoes /\ lens # {}))
\* showUnfairness: the mark goes and the row does not know that the mouse was on it.
ToggleMarks ==
  /\ Move /\ marks' = ~marks
  /\ orphan' = (orphan \/ pointer.on = "mark")
  /\ pointer' = IF pointer.on = "mark" THEN Place("row", pointer.at) ELSE pointer
  /\ UNCHANGED <<hover, hoverTimer, lens, lensTimer, pinned, popup, compare, text>>

---------------------------------------------------------------------------
\* The judges of the version asked for, once they have arrived.
Clauses == [j \in Judges |-> IF arrived THEN Judged[version][j] ELSE << >>]
Available == {j \in Judges : DOMAIN Clauses[j] # {}}
\* The comparison takes a judge unless it was put aside, the ruler only if it was asked for.
Compared == {j \in Available : ruler[j] # "off"}
Ruled == {j \in Available : ruler[j] = "on"}
Ready == Cardinality(Available) >= 2
\* Mutant of Anchors: the divergences of all the judges there are.
AnchorsOfAll == ZoneHeads(ZonesOf(Clauses, Available))
Anchors == ZoneHeads(ZonesOf(Clauses, Compared))
Ordinal == IF focus \in Anchors THEN Cardinality({x \in Anchors : x <= focus}) ELSE 0

Arrive == /\ ~arrived /\ arrived' = TRUE
          /\ UNCHANGED <<pointer, aids, focus, source, panel, version, ruler, text, moves>>
SetLlmVersion(v) ==
  /\ Move /\ v # version /\ version' = v /\ arrived' = FALSE
  /\ UNCHANGED <<pointer, aids, focus, source, panel, ruler, text>>
SetLlmSource(s) ==
  /\ Move /\ s # source /\ source' = s
  /\ UNCHANGED <<pointer, aids, focus, panel, version, arrived, ruler, text>>
\* Key g works without judges; the button needs two.
ToggleComparePanel ==
  /\ Move /\ panel' = ~panel
  /\ UNCHANGED <<pointer, aids, focus, source, version, arrived, ruler, text>>
ToggleGutterModel(j) ==
  /\ Move /\ j \in Available
  /\ ruler' = [ruler EXCEPT ![j] = IF @ = "on" THEN "off" ELSE "on"]
  /\ UNCHANGED <<pointer, aids, focus, source, panel, version, arrived, text>>
GoTo(i) == /\ i # None /\ focus' = i
           /\ UNCHANGED <<pointer, aids, source, panel, version, arrived, ruler, text>>
\* Keys n and p, the arrows of the banner and those of the panel.
InComparison == source = "compare" \/ (panel /\ Ready /\ Cardinality(Compared) >= 2)
NextDivergence == Move /\ InComparison /\ GoTo(NextAnchor(Anchors, focus))
PrevDivergence == Move /\ InComparison /\ GoTo(PrevAnchor(Anchors, focus))
\* A cell of a ruler or of the panel, or the column of conflicts.
Jumps == UNION {RulerCells(Clauses, Ruled, i)[j] : j \in Ruled, i \in Sentences}
           \cup ({RulerConflict(Clauses, Ruled, i) : i \in Sentences} \ {None})
           \cup UNION {Starts(Clauses[j]) : j \in IF panel /\ Ready THEN Compared ELSE {}}
Jump == Move /\ \E i \in Jumps \ {focus} : GoTo(i)

---------------------------------------------------------------------------
\* The language of the document, and the sentences translated one by one.
SetDisplayLang(l) ==
  /\ Move /\ l # lang /\ lang' = l /\ UNCHANGED <<pointer, aids, compare, translated>>
SetTranslated(i) ==
  /\ Move /\ translated' = IF i \in translated THEN translated \ {i} ELSE translated \cup {i}
  /\ UNCHANGED <<pointer, aids, compare, lang>>
FrenchLine(i) == lang # "fr" /\ (lang = "both" \/ i \in translated) /\ i \in French
HideTranslation(i) ==
  /\ Move /\ FrenchLine(i) /\ translated' = translated \ {i} /\ UNCHANGED <<pointer, aids, compare, lang>>

Mouse == (\E q \in Places : PointTo(q)) \/ HoverFires \/ LensFires
Cards == \/ \E i \in Marked : Pin(i)
         \/ Unpin \/ ToggleMarks
         \/ \E kind \in {"none", "menu", "peek"} : Popup(kind)
Comparing == \/ Arrive \/ ToggleComparePanel \/ NextDivergence \/ PrevDivergence \/ Jump
             \/ \E v \in DOMAIN Judged : SetLlmVersion(v)
             \/ \E s \in {"human", "compare"} \cup Judges : SetLlmSource(s)
             \/ \E j \in Judges : ToggleGutterModel(j)
Speaking == \/ \E l \in {"orig", "both", "fr"} : SetDisplayLang(l)
            \/ \E i \in Sentences : SetTranslated(i) \/ HideTranslation(i)
Next == Mouse \/ Cards \/ Comparing \/ Speaking
Spec == Init /\ [][Next]_vars
-----------------------------------------------------------------------------
TypeOK ==
  /\ pointer \in Places /\ hover \in AtMostOne /\ lens \in AtMostOne /\ pinned \in AtMostOne
  /\ {hoverTimer, lensTimer} \subseteq {NoTimer, Closes} \cup {Opens(i) : i \in Sentences}
  /\ popup \in {"none", "menu", "peek"} /\ {marks, orphan, panel, arrived} \subseteq BOOLEAN
  /\ focus \in Sentences /\ source \in {"human", "compare"} \cup Judges
  /\ version \in DOMAIN Judged /\ ruler \in [Judges -> {"absent", "on", "off"}]
  /\ lang \in {"orig", "both", "fr"} /\ translated \subseteq Sentences /\ moves \in 0 .. MaxMoves

\* A preview is of what the mouse is on, or a timer is about to take it away: none stays on
\* the page of a reader who has gone elsewhere.  The exception is a mark or a card removed
\* under the mouse, which never tells that the mouse has left.
PreviewsExpire ==
  /\ \A i \in hover : OnRow(pointer, i) \/ hoverTimer # NoTimer
  /\ \A i \in lens : orphan \/ pointer.on = "card" \/ pointer = Place("mark", i) \/ lensTimer # NoTimer

\* A key of the comparison takes the reader to a sentence where the judges compared really
\* differ, and the count of the banner goes up by one or starts again.
NextAdvancesTheCount ==
  NextDivergence =>
    /\ RowState(Clauses, Compared, focus') = "differ"
    /\ Ordinal > 0 => Ordinal' = (Ordinal % Cardinality(Anchors)) + 1
=============================================================================
