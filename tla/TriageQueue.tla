---------------------------- MODULE TriageQueue ----------------------------
(***************************************************************************)
(* The queue beside a document where the judges' divergences are settled   *)
(* one card at a time: the order of the cards, the two-way link with the   *)
(* sentence focused in the document, the decisions of a card, the batches, *)
(* the keys.                                                               *)
(*                                                                         *)
(* Abstracted: the engine gives each sentence a level or none (Triage is   *)
(* its model); a card proposes Major, with Minor as a secondary at C3 and  *)
(* as a candidate from C2 on; what the document writes by hand is Minor.   *)
(***************************************************************************)
EXTENDS Naturals, FiniteSets, Sequences, Functions

CONSTANTS Sentences, Levels,   \* Levels: those the engine may give
  Major, Minor, None,
  MaxMoves    \* bound on what the user does

VARIABLES
  levels,     \* the level of each sentence, or None
  ready,      \* whether the judges have arrived
  open,
  pos,        \* the card shown, counted from 0
  pushed,     \* the focus the queue has itself set, not yet observed
  fresh,      \* whether nothing has placed the queue since it was opened
  done,       \* the sentences it has treated
  focused, selection,   \* in the document
  written,    \* the clause of each sentence: its themes, and how they were decided
  helping, moves

vars == <<levels, ready, open, pos, pushed, fresh, done, focused, selection, written, helping, moves>>

Rank(level) == CASE level = "C1" -> 1 [] level = "C2" -> 2 [] level = "C3" -> 3 [] level = "C4" -> 4 [] OTHER -> 5
Precedes(ls, i, j) == Rank(ls[i]) < Rank(ls[j]) \/ (Rank(ls[i]) = Rank(ls[j]) /\ i < j)
\* The sentences with a level, each at the place of those that precede it.
Kept(ls) == {i \in Sentences : ls[i] # None}
Place(ls, i) == Cardinality({j \in Kept(ls) : Precedes(ls, j, i)})
Items(ls) == [k \in 1 .. Cardinality(Kept(ls)) |-> CHOOSE i \in Kept(ls) : Place(ls, i) = k - 1]
Cards == IF ready THEN Items(levels) ELSE <<>>
Shown == IF pos < Len(Cards) THEN pos ELSE Len(Cards) - 1
Current == Cards[Shown + 1]
PosOf(cards, i) == (CHOOSE k \in 1 .. Len(cards) : cards[k] = i) - 1

Labels(i) == [primary |-> Major, secondaries |-> IF levels[i] = "C3" THEN {Minor} ELSE {}]
Candidates(i) == IF levels[i] = "C1" THEN {Major} ELSE {Major, Minor}
Alternatives(i) == Candidates(i) \ (IF levels[i] = "C5" THEN {} ELSE {Major})
-----------------------------------------------------------------------------
\* A bug: the guard is never released.
GuardKept(f, cards, push, p) ==
  /\ pushed' = push
  /\ pos' = IF f # push /\ f \in Range(cards) THEN PosOf(cards, f) ELSE p
\* What runs when the focus or the cards change: the queue's own push is consumed, any other
\* focus moves it.
Follow(f, cards, push, p) ==
  IF f = push THEN pushed' = None /\ pos' = p
  ELSE pushed' = push /\ pos' = IF f \in Range(cards) THEN PosOf(cards, f) ELSE p
\* Going to a card focuses its sentence.
GoTo(p) ==
  LET q == IF p < Len(Cards) THEN p ELSE Len(Cards) - 1
  IN /\ fresh' = FALSE /\ focused' = Cards[q + 1]
     /\ IF focused' = focused THEN pos' = q /\ UNCHANGED pushed ELSE Follow(focused', Cards, focused', q)

Init ==
  /\ levels \in [Sentences -> Levels \cup {None}]
  /\ ready = FALSE /\ open = FALSE /\ pos = 0 /\ pushed = None /\ fresh = TRUE
  /\ done = {} /\ focused = 0 /\ selection = {} /\ written = [i \in Sentences |-> None]
  /\ helping = FALSE /\ moves = 0

Moved == moves < MaxMoves /\ moves' = moves + 1
\* Opened, the queue consumes the focus it finds.
Open ==
  /\ Moved /\ ~open /\ open' = TRUE /\ done' = {} /\ fresh' = TRUE /\ Follow(focused, Cards, focused, 0)
  /\ UNCHANGED <<levels, ready, focused, selection, written, helping>>
Close ==
  /\ Moved /\ open /\ ~helping /\ open' = FALSE
  /\ UNCHANGED <<levels, ready, pos, pushed, fresh, done, focused, selection, written, helping>>
Help(on) ==
  /\ Moved /\ open /\ ready /\ helping # on /\ helping' = on
  /\ UNCHANGED <<levels, ready, open, pos, pushed, fresh, done, focused, selection, written>>
\* The judges arrive, or another version of them is chosen.
Judged(ls) ==
  /\ ~ready \/ (Moved /\ ls # levels)
  /\ ready' = TRUE /\ levels' = ls
  /\ IF open THEN fresh' = FALSE /\ Follow(focused, Items(ls), pushed, pos) ELSE UNCHANGED <<pos, pushed, fresh>>
  /\ (~ready => moves' = moves)
  /\ UNCHANGED <<open, done, focused, selection, written, helping>>

Focus(i) ==
  /\ Moved /\ i # focused /\ focused' = i
  /\ IF open THEN fresh' = FALSE /\ Follow(i, Cards, pushed, pos) ELSE UNCHANGED <<pos, pushed, fresh>>
  /\ UNCHANGED <<levels, ready, open, done, selection, written, helping>>
Select(i) ==
  /\ Moved /\ selection' = selection \cup {i} /\ i \notin selection
  /\ UNCHANGED <<levels, ready, open, pos, pushed, fresh, done, focused, written, helping>>
AnnotateByHand(i) ==
  /\ Moved
  /\ written' = [written EXCEPT ![i] = [primary |-> Minor, secondaries |-> {}, how |-> "hand", level |-> None]]
  /\ UNCHANGED <<levels, ready, open, pos, pushed, fresh, done, focused, selection, helping>>

Usable == open /\ Cards # <<>>
Move(delta) ==
  /\ Moved /\ Usable /\ ~helping
  /\ GoTo(IF delta = 1 THEN Shown + 1 ELSE IF Shown = 0 THEN 0 ELSE Shown - 1)
  /\ UNCHANGED <<levels, ready, open, done, selection, written, helping>>

Write(i, themes, how) == [primary |-> themes.primary, secondaries |-> themes.secondaries, how |-> how, level |-> levels[i]]
\* The decision is written, the card treated, and the next one shown.
Persist(themes, how) ==
  /\ Moved /\ Usable
  /\ written' = [written EXCEPT ![Current] = Write(Current, themes, how)]
  /\ done' = done \cup {Current}
  /\ GoTo(pos + 1)
  /\ UNCHANGED <<levels, ready, open, selection, helping>>
Single(t) == [primary |-> t, secondaries |-> {}]
\* The button of the card, or Enter wherever the focus is.
Accept == Usable /\ levels[Current] # "C5" /\ Persist(Labels(Current), "accept")
Swap == Usable /\ levels[Current] = "C3" /\ Persist([primary |-> Minor, secondaries |-> {Major}], "choose")
RemoveSecondary == Usable /\ levels[Current] = "C3" /\ Persist(Single(Major), "choose")
Choose(t) == Usable /\ t \in Alternatives(Current) /\ Persist(Single(t), "choose")
Multi == Usable /\ levels[Current] = "C5" /\ Persist([primary |-> Major, secondaries |-> {Minor}], "choose")
UndoOverride == Usable /\ levels[Current] = "C2" /\ Persist(Single(Minor), "choose")

\* A bug: every row of the batch is accepted.
AllOf(rows) == rows \ done
Acceptable(rows) == {i \in rows \ done : levels[i] # "C5"}
AcceptBatch(rows) ==
  LET todo == Acceptable(rows)
  IN /\ written' = [i \in Sentences |-> IF i \in todo THEN Write(i, Labels(i), "accept") ELSE written[i]]
     /\ done' = done \cup todo
     /\ UNCHANGED <<levels, ready, open, pos, pushed, fresh, focused, helping>>
BatchAcceptC1 ==
  LET rows == {i \in Range(Cards) : levels[i] = "C1"}
  IN Moved /\ Usable /\ Acceptable(rows) # {} /\ AcceptBatch(rows) /\ UNCHANGED selection
\* The selection is consumed, what could not be accepted included.
BatchAcceptSelection ==
  LET rows == Range(Cards) \cap selection
  IN Moved /\ Usable /\ Acceptable(rows) # {} /\ AcceptBatch(rows) /\ selection' = {}

Next ==
  \/ \E ls \in [Sentences -> Levels \cup {None}] : (ready \/ ls = levels) /\ Judged(ls)
  \/ \E i \in Sentences : Focus(i) \/ Select(i) \/ AnnotateByHand(i)
  \/ \E delta \in {0, 1} : Move(delta)
  \/ \E t \in {Major, Minor} : Choose(t)
  \/ \E on \in BOOLEAN : Help(on)
  \/ Open \/ Close \/ Accept \/ Swap \/ RemoveSecondary \/ Multi \/ UndoOverride
  \/ BatchAcceptC1 \/ BatchAcceptSelection
-----------------------------------------------------------------------------
\* Once anything has placed the queue, its card is the sentence focused in the document,
\* whenever that sentence has one.
QueueFollowsFocus ==
  open /\ ~fresh /\ focused \in Range(Cards) => Current = focused
\* What the judges leave open is never accepted, one by one nor in a batch.
ArbitrationIsChosen ==
  \A i \in Sentences : written[i] # None => ~(written[i].how = "accept" /\ written[i].level = "C5")
\* Refuted when the judges arrive after the queue was opened: the focus takes its place.
OpensOnTheFirst == open /\ moves = 1 => pos = 0
\* Refuted by a batch: what was annotated by hand is replaced.
HandIsKept == [][\A i \in Sentences : written[i] # None /\ written'[i] # written[i] =>
  ~(written[i].how = "hand" /\ written'[i].how = "accept")]_vars
=============================================================================
