----------------------------- MODULE JudgeViews -----------------------------
(***************************************************************************)
(* What the pages compute from the segments the judges propose for a       *)
(* document (lib/runs.ts, lib/divergence.ts, lib/llmAgreement.ts,          *)
(* lib/concordance.ts and the panels that redo it): the theme of a         *)
(* sentence, the zones where judges differ, the marks, the badges and the  *)
(* figures of agreement.  A judge is a function from the first sentence of *)
(* each of its clauses to a theme; the user annotates sentence by          *)
(* sentence.                                                               *)
(***************************************************************************)
EXTENDS Integers, FiniteSets, FiniteSetsExt

CONSTANTS NSentences, None

Sentences == 0 .. NSentences - 1
Least(S) == IF S = {} THEN None ELSE Min(S)

---------------------------------------------------------------------------
\* computeRuns, coalesceRuns: the clause of a sentence is the last one begun before it;
\* clauses that follow one another with the same theme are one run.
Begun(clauses, i) == {k \in DOMAIN clauses : k <= i}
ThemeAt(clauses, i) == IF Begun(clauses, i) = {} THEN None ELSE clauses[Max(Begun(clauses, i))]
Starts(clauses) == {i \in DOMAIN clauses : i = 0 \/ ThemeAt(clauses, i - 1) # clauses[i]}
LastOf(clauses, i) == Min({k - 1 : k \in {s \in Starts(clauses) : s > i}} \cup {NSentences - 1})
RunsOf(clauses) == {[lo |-> i, hi |-> LastOf(clauses, i), theme |-> clauses[i]] : i \in Starts(clauses)}
RunOver(runs, i) == {r \in runs : r.lo <= i /\ i <= r.hi}

\* conflictZones: the stretches of sentences where two of the segments given differ.
Conflict(segments, i) == Cardinality({r.theme : r \in RunOver(segments, i)}) >= 2
Zones(segments) == {z \in Sentences \X Sentences :
  /\ z[1] <= z[2] /\ \A i \in z[1] .. z[2] : Conflict(segments, i)
  /\ z[1] = 0 \/ ~Conflict(segments, z[1] - 1)
  /\ z[2] = NSentences - 1 \/ ~Conflict(segments, z[2] + 1)}
\* Mutant of ZonesOf: the zones of a judge against the first one only.
ZonesOfPairs(themes, S) == UNION {Zones(UNION {RunsOf(themes[k]) : k \in {j, CHOOSE x \in S : TRUE}}) : j \in S}
ZonesOf(themes, S) == Zones(UNION {RunsOf(themes[j]) : j \in S})
ZoneHeads(zones) == {z[1] : z \in zones}

\* nextDivergence, prevDivergence: the anchors are walked in circles.
\* Mutant of NextAnchor: an anchor under the cursor is the next one.
NextAnchorFrom(anchors, i) == LET after == {a \in anchors : a >= i}
                              IN Least(IF after = {} THEN anchors ELSE after)
NextAnchor(anchors, i) == LET after == {a \in anchors : a > i}
                          IN Least(IF after = {} THEN anchors ELSE after)
PrevAnchor(anchors, i) == LET before == {a \in anchors : a < i}
                              from == IF before = {} THEN anchors ELSE before
                          IN IF from = {} THEN None ELSE Max(from)

---------------------------------------------------------------------------
\* The row of a sentence while judges are compared, and the strip beside the panel.
Present(themes, S, i) == {j \in S : ThemeAt(themes[j], i) # None}
Distinct(themes, S, i) == {ThemeAt(themes[j], i) : j \in Present(themes, S, i)}
RowState(themes, S, i) ==
  IF Cardinality(Distinct(themes, S, i)) >= 2 THEN "differ"
  ELSE IF Cardinality(Present(themes, S, i)) >= 2 THEN "agree" ELSE "none"
StripStatus(themes, S, i) ==
  IF Present(themes, S, i) = {} THEN "none"
  ELSE IF Cardinality(Distinct(themes, S, i)) >= 2 THEN "diverge"
  ELSE IF Present(themes, S, i) # S THEN "partial" ELSE "agree"
\* agreementSegments: neighbours of the same status are one segment of the strip.
StripHeads(themes, S, status) ==
  {i \in Sentences : /\ StripStatus(themes, S, i) = status
                     /\ i = 0 \/ StripStatus(themes, S, i - 1) # status}

\* The cells of the ruler beside a row: the segment of each judge, and the start of the
\* zone in conflict the row is in.
RulerCells(themes, S, i) == [j \in S |-> {r.lo : r \in RunOver(RunsOf(themes[j]), i)}]
RulerConflict(themes, S, i) == Least({z[1] : z \in {y \in ZonesOf(themes, S) : y[1] <= i /\ i <= y[2]}})

\* detailAt: what adopting the proposal of a judge on a sentence writes, and where.
DetailAt(clauses, i) ==
  {[from |-> r.lo, to |-> r.hi, theme |-> r.theme] : r \in RunOver(RunsOf(clauses), i)}
\* Mutant of Adopted: only the sentence that carries the clause of the judge.
AdoptedAnchor(annotation, clauses, i) ==
  [k \in Sentences |-> IF \E d \in DetailAt(clauses, i) : d.from = k
                       THEN ThemeAt(clauses, i) ELSE annotation[k]]
Adopted(annotation, clauses, i) ==
  [k \in Sentences |-> IF \E d \in DetailAt(clauses, i) : d.from <= k /\ k <= d.to
                       THEN ThemeAt(clauses, i) ELSE annotation[k]]

---------------------------------------------------------------------------
\* The runs of the user, of one sentence for the gestures, of a block for the rail.
Annotated(annotation) == {i \in Sentences : annotation[i] # None}
BlockHeads(annotation) == {i \in Annotated(annotation) : i = 0 \/ annotation[i - 1] # annotation[i]}
BlockOf(annotation, i) == {k \in Annotated(annotation) :
  \A x \in Min({i, k}) .. Max({i, k}) : annotation[x] = annotation[i]}

\* The rail of a row: a block of the user is firm when no sentence of it is a prefill left
\* unconfirmed; a judge only suggests; in comparison it tells whether the judges agree.
\* Mutant of Rail: firm as soon as its own sentence is confirmed.
RailOfRow(source, annotation, unsure, themes, S, i) ==
  IF annotation[i] = None THEN "none" ELSE IF i \in unsure THEN "suggested" ELSE "firm"
Rail(source, annotation, unsure, themes, S, i) ==
  IF source = "compare"
  THEN IF Present(themes, S, i) = {} THEN "none"
       ELSE IF RowState(themes, S, i) = "agree" THEN "agree" ELSE "differ"
  ELSE IF source \in S THEN IF ThemeAt(themes[source], i) = None THEN "none" ELSE "suggested"
  ELSE IF annotation[i] = None THEN "none"
  ELSE IF BlockOf(annotation, i) \cap unsure # {} THEN "suggested" ELSE "firm"

\* computeBadge: in comparison at the start of a clause of the user, otherwise where the
\* shown clause begins.
Badge(source, annotation, themes, S, i) ==
  IF source = "human" THEN IF annotation[i] = None THEN "none" ELSE "theme"
  ELSE IF source = "compare" /\ annotation[i] # None
  THEN IF Distinct(themes, S, i) = {} THEN "none"
       ELSE IF RowState(themes, S, i) = "none" THEN "partial" ELSE RowState(themes, S, i)
  ELSE IF source \in S /\ i \in Starts(themes[source]) THEN "theme" ELSE "none"

---------------------------------------------------------------------------
\* Figures of agreement, as a count over a support.
Rate(n, of) == [n |-> n, of |-> of]
AnyOf(themes, S) == {i \in Sentences : Present(themes, S, i) # {}}
\* agreementNway: judges that say nothing of a sentence do not disagree on it.
FullAgreement(themes, S) ==
  Rate(Cardinality({i \in AnyOf(themes, S) : Cardinality(Distinct(themes, S, i)) = 1}),
       Cardinality(AnyOf(themes, S)))
\* agreement: of two judges, where a sentence only one covers counts as a disagreement.
PairAgreement(themes, j, k) ==
  Rate(Cardinality({i \in AnyOf(themes, {j, k}) : ThemeAt(themes[j], i) = ThemeAt(themes[k], i)}),
       Cardinality(AnyOf(themes, {j, k})))
\* cohenKappa over the sentences at least one covers, multiplied by the square of their
\* number: (observed - expected) over (1 - expected).
\* Mutant of Counted: only the sentences both cover.
CountedByBoth(themes, j, k) == {i \in Sentences : Present(themes, {j, k}, i) = {j, k}}
Counted(themes, j, k) == AnyOf(themes, {j, k})
Kappa(themes, j, k) ==
  LET over == Counted(themes, j, k)
      total == Cardinality(over)
      labels == {ThemeAt(themes[x], i) : x \in {j, k}, i \in over}
      said(x, t) == Cardinality({i \in over : ThemeAt(themes[x], i) = t})
      expected == MapThenSumSet(LAMBDA t : said(j, t) * said(k, t), labels)
      observed == total * Cardinality({i \in over : ThemeAt(themes[j], i) = ThemeAt(themes[k], i)})
  IN IF total = 0 THEN Rate(0, 1)
     ELSE IF expected = total * total THEN Rate(IF observed = total * total THEN 1 ELSE 0, 1)
     ELSE Rate(observed - expected, total * total - expected)

\* concordanceReport: the user against a judge on the sentences both cover.
Shared(annotation, clauses) == {i \in Annotated(annotation) : ThemeAt(clauses, i) # None}
\* Mutant of Concordance: the user against the judge one sentence further.
ConcordanceShifted(annotation, clauses) ==
  Rate(Cardinality({i \in Shared(annotation, clauses) : annotation[i] = ThemeAt(clauses, i + 1)}),
       Cardinality(Shared(annotation, clauses)))
Concordance(annotation, clauses) ==
  Rate(Cardinality({i \in Shared(annotation, clauses) : annotation[i] = ThemeAt(clauses, i)}),
       Cardinality(Shared(annotation, clauses)))
Ahead(a, b) == a.of > 0 /\ (b.of = 0 \/ a.n * b.of >= b.n * a.of)
BestMatches(annotation, themes, S) ==
  {j \in S : LET own == Concordance(annotation, themes[j])
             IN own.of > 0 /\ \A k \in S : Ahead(own, Concordance(annotation, themes[k]))}

---------------------------------------------------------------------------
\* Where the plan finds sentences without a clause, and what may still be submitted.
Gaps(annotation) == Sentences \ Annotated(annotation)
CoverageGaps(annotation) == {z \in Sentences \X Sentences :
  /\ z[1] <= z[2] /\ \A i \in z[1] .. z[2] : i \in Gaps(annotation)
  /\ z[1] = 0 \/ z[1] - 1 \in Annotated(annotation)
  /\ z[2] = NSentences - 1 \/ z[2] + 1 \in Annotated(annotation)}
NextUncovered(annotation, i) == NextAnchor(Gaps(annotation), i)
Statuses(annotation, unsure) ==
  [i \in Sentences |-> IF annotation[i] = None THEN "uncovered"
                       ELSE IF i \in unsure THEN "pending" ELSE "validated"]
Complete(annotation, unsure) == \A i \in Sentences : Statuses(annotation, unsure)[i] = "validated"
=============================================================================
