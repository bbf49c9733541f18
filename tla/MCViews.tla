------------------------------- MODULE MCViews -------------------------------
(***************************************************************************)
(* Every answer of two judges about three sentences and two themes, a      *)
(* third judge that gives one clause or none, and a user who prefills from *)
(* a judge, adopts proposals and confirms what was prefilled.              *)
(***************************************************************************)
EXTENDS JudgeViews

CONSTANTS j1, j2, j3, a, b, MaxEdits

VARIABLES themes, annotation, unsure, edits
vars == <<themes, annotation, unsure, edits>>

Judges == {j1, j2, j3}
Answers == UNION {[S -> {a, b}] : S \in SUBSET Sentences}

Init ==
  /\ themes \in {[j \in Judges |-> CASE j = j1 -> x [] j = j2 -> y [] j = j3 -> z] :
                   x \in Answers, y \in Answers, z \in UNION {[S -> {a}] : S \in SUBSET {0}}}
  /\ annotation = [i \in Sentences |-> None] /\ unsure = {} /\ edits = 0

Edit == edits < MaxEdits /\ edits' = edits + 1 /\ UNCHANGED themes
\* The proposal of a judge for a sentence, taken in the comparison.
Adopt(j, i) ==
  /\ Edit /\ DetailAt(themes[j], i) # {}
  /\ annotation' = Adopted(annotation, themes[j], i)
  /\ unsure' = unsure \ {k \in Sentences : \E d \in DetailAt(themes[j], i) : d.from <= k /\ k <= d.to}
\* The page filled from a judge, to be confirmed sentence by sentence.
Prefill(j) ==
  /\ Edit /\ annotation' = [i \in Sentences |-> ThemeAt(themes[j], i)]
  /\ unsure' = Annotated(annotation')
Confirm(i) == Edit /\ i \in unsure /\ unsure' = unsure \ {i} /\ UNCHANGED annotation

Next == \/ \E j \in Judges, i \in Sentences : Adopt(j, i)
        \/ \E j \in Judges : Prefill(j)
        \/ \E i \in Sentences : Confirm(i)
Spec == Init /\ [][Next]_vars
-----------------------------------------------------------------------------
Compared == {S \in SUBSET Judges : Cardinality(S) >= 2}

\* The rows that show a divergence, the anchors the keys walk through and the strip beside
\* the comparison, computed by three programs, tell the same divergences.
RowsShowTheZones ==
  \A S \in Compared :
    /\ UNION {z[1] .. z[2] : z \in ZonesOf(themes, S)} = {i \in Sentences : RowState(themes, S, i) = "differ"}
    /\ ZoneHeads(ZonesOf(themes, S)) = StripHeads(themes, S, "diverge")
    /\ \A i \in Sentences : RowState(themes, S, i) = "differ" => RulerConflict(themes, S, i) # None

\* A key of the comparison goes to the next divergence and the opposite one comes back,
\* from any divergence, through the end of the document too.
NextThenPrevReturns ==
  \A S \in Compared : LET anchors == ZoneHeads(ZonesOf(themes, S)) IN
    \A i \in anchors : /\ PrevAnchor(anchors, NextAnchor(anchors, i)) = i
                       /\ NextAnchor(anchors, i) = i => anchors = {i}

\* Adopting a proposal gives its whole segment the theme of the judge, in one block of the
\* user, and leaves every other sentence as it was.
AdoptionFillsTheSegment ==
  \A j \in Judges, i \in Sentences : \A d \in DetailAt(themes[j], i) :
    LET adopted == Adopted(annotation, themes[j], i)
    IN /\ (d.from .. d.to) \subseteq BlockOf(adopted, i)
       /\ \A k \in Sentences \ (d.from .. d.to) : adopted[k] = annotation[k]

\* A kappa is at most one, and is one exactly when the judges cover something and agree on
\* everything either of them covers; the rate of the pair is then a hundred per cent too.
KappaOneIsAgreement ==
  LET k == Kappa(themes, j1, j2)
      rate == PairAgreement(themes, j1, j2)
  IN /\ k.n <= k.of
     /\ k.n = k.of <=> rate.of > 0 /\ rate.n = rate.of

\* A rail drawn firm promises that its block can be submitted: every sentence of it is
\* validated for the plan of coverage.
FirmRailIsValidated ==
  \A i \in Sentences : Rail("human", annotation, unsure, themes, Judges, i) = "firm" =>
    \A k \in BlockOf(annotation, i) : Statuses(annotation, unsure)[k] = "validated"

\* A user who prefilled everything from one judge matches it at least as well as the
\* others, and has gaps only where that judge says nothing.
PrefillMatches ==
  \A j \in Judges : annotation' = [i \in Sentences |-> ThemeAt(themes[j], i)] /\ Annotated(annotation') # {} =>
    /\ j \in BestMatches(annotation', themes, Judges)
    /\ \A i \in Sentences : Badge("compare", annotation', themes, Judges, i) = "none"
                              => i \in Gaps(annotation')
=============================================================================
