------------------------------ MODULE DemoResult ------------------------------
(***************************************************************************)
(* The result of the demonstration: a theme per sentence, its segments,    *)
(* and for a contract held out the gold, the annotators and the judges in  *)
(* two taxonomies.  The model speaks the coarse one; the references, the   *)
(* fine one, projected when the coarse one is read.                        *)
(***************************************************************************)
EXTENDS Naturals, FiniteSets, SequencesExt

CONSTANTS
  Indexes,    \* the sentences classified, not always consecutive
  Coarse, Fine, Projected,   \* the two taxonomies, Projected \in [Fine -> Coarse]
  Annotators, None

VARIABLES
  label,      \* what the model gives each sentence
  gold, votes,\* the references, None when silent
  taxonomy, onlyDisagreements   \* what the reader chose

vars == <<label, gold, votes, taxonomy, onlyDisagreements>>

Sentences == SetToSortSeq(Indexes, <)
Project(code) == IF code = None \/ taxonomy = "T20" THEN code ELSE Projected[code]
\* The references of a sentence, in the taxonomy read.
Row(i) == [gold |-> Project(gold[i]), votes |-> [v \in Annotators |-> Project(votes[i][v])]]

\* A bug: a sentence that is missing does not end a segment.
LooseSegments(s) ==
  FoldLeft(LAMBDA out, i : IF out # <<>> /\ Last(out).label = label[i]
                           THEN Front(out) \o <<[Last(out) EXCEPT !.end = i, !.count = @ + 1]>>
                           ELSE Append(out, [label |-> label[i], start |-> i, end |-> i, count |-> 1]), <<>>, s)
\* Maximal runs of consecutive sentences with the same theme.
Segments(s) ==
  FoldLeft(LAMBDA out, i : IF out # <<>> /\ Last(out).label = label[i] /\ Last(out).end + 1 = i
                           THEN Front(out) \o <<[Last(out) EXCEPT !.end = i, !.count = @ + 1]>>
                           ELSE Append(out, [label |-> label[i], start |-> i, end |-> i, count |-> 1]), <<>>, s)
LabelCount(l) == Cardinality({i \in Indexes : label[i] = l})

\* A bug: only the annotators count.
AnnotatorsSplit(i) == Cardinality({Row(i).votes[v] : v \in Annotators} \ {None}) > 1
\* The model against the gold, in the coarse taxonomy only, or the annotators between them.
IsDisagreement(i) ==
  \/ taxonomy = "T11" /\ Row(i).gold # None /\ label[i] # Row(i).gold
  \/ Cardinality({Row(i).votes[v] : v \in Annotators} \ {None}) > 1
Visible == SelectSeq(Sentences, LAMBDA i : ~onlyDisagreements \/ IsDisagreement(i))
\* The sentences drawn under a line that names their theme.
Boundaries ==
  {Visible[k] : k \in {j \in DOMAIN Visible : \/ j = 1 \/ label[Visible[j - 1]] # label[Visible[j]]
                                             \/ Visible[j - 1] + 1 # Visible[j]}}
\* The marks of a cell that differs from the gold.
GoldMarked(i) == taxonomy = "T11" /\ Row(i).gold # None /\ Row(i).gold # label[i]
VoteMarked(i, v) == None \notin {Row(i).votes[v], Row(i).gold} /\ Row(i).votes[v] # Row(i).gold

Init ==
  /\ label \in [Indexes -> Coarse] /\ gold \in [Indexes -> Fine \cup {None}]
  /\ \E i \in Indexes, v \in [Annotators -> Fine \cup {None}] :
       votes = [j \in Indexes |-> IF j = i THEN v ELSE [a \in Annotators |-> gold[j]]]
  /\ taxonomy = "T11" /\ onlyDisagreements = FALSE
SetTaxonomy == taxonomy' = (IF taxonomy = "T11" THEN "T20" ELSE "T11") /\ UNCHANGED <<label, gold, votes, onlyDisagreements>>
Filter == onlyDisagreements' = ~onlyDisagreements /\ UNCHANGED <<label, gold, votes, taxonomy>>
Next == SetTaxonomy \/ Filter
-----------------------------------------------------------------------------
\* The lines that name a theme in the text are where the contents say a segment begins, and
\* the segments share out the sentences (logic.ts, segments; ResultsViewer.tsx, boundary).
BoundariesAreSegments ==
  LET segs == Segments(Sentences)
  IN  /\ ~onlyDisagreements => Boundaries = {segs[k].start : k \in DOMAIN segs}
      /\ \A k \in DOMAIN segs : segs[k].count = segs[k].end - segs[k].start + 1
      /\ \A l \in Coarse : FoldLeft(LAMBDA n, s : IF s.label = l THEN n + s.count ELSE n, 0, segs) = LabelCount(l)
\* A sentence where the model is marked as differing from the gold stays among the
\* disagreements (ResultsViewer.tsx, « Show disagreements only »).
MarkedModelIsListed == onlyDisagreements => \A i \in Indexes : GoldMarked(i) => i \in ToSet(Visible)
\* The same of every mark: refuted when the annotators agree against the gold.
EveryMarkIsListed ==
  onlyDisagreements => \A i \in Indexes, v \in Annotators : GoldMarked(i) \/ VoteMarked(i, v) => i \in ToSet(Visible)
=============================================================================
