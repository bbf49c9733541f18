------------------------------- MODULE PlanPanel -------------------------------
(***************************************************************************)
(* The plan of a document beside it: one block per sentence, with the mark *)
(* that says who decided its clause, the progress, the walk through the    *)
(* sentences that have none, and the clauses selected to be validated.     *)
(* The clauses change in the document meanwhile.                           *)
(***************************************************************************)
EXTENDS Integers, Sequences, Functions, FiniteSets

CONSTANTS
  Sentences,     \* from 0
  None,
  MaxMoves       \* bound on what the annotator does

VARIABLES
  clauses,    \* of each sentence: None or [id, validated, seeded, adopted, level, by]
  focused,
  chosen,     \* the identifiers of the clauses selected together
  walk,       \* the sentences the button went to since the document changed
  moves

vars == <<clauses, focused, chosen, walk, moves>>

N == Cardinality(Sentences)
Annotated == {i \in Sentences : clauses[i] # None}
Gaps == Sentences \ Annotated
\* "by" is who last decided the theme.
Prefilled(i) == [id |-> <<i, 0>>, validated |-> FALSE, seeded |-> TRUE, adopted |-> FALSE, level |-> FALSE, by |-> "seed"]

Init ==
  /\ clauses \in {[i \in Sentences |-> IF i \in s THEN Prefilled(i) ELSE None] : s \in SUBSET Sentences}
  /\ focused \in Sentences /\ chosen = {} /\ walk = <<>> /\ moves = 0

Moved == moves < MaxMoves /\ moves' = moves + 1
Edits == Moved /\ walk' = <<>> /\ UNCHANGED chosen
Fresh(i) == [Prefilled(i) EXCEPT !.id = <<i, moves + 1>>, !.seeded = FALSE]
Was(i) == IF clauses[i] = None THEN Fresh(i) ELSE clauses[i]
Becomes(i, c) == clauses' = [clauses EXCEPT ![i] = c] /\ focused' = i

\* What is done in the document, and what it leaves of who decided before.
Retheme(i) ==
  Edits /\ Becomes(i, [Was(i) EXCEPT !.validated = TRUE, !.level = FALSE, !.by = "human"])
Inspect(i) ==
  Edits /\ clauses[i] # None /\ Becomes(i, [Was(i) EXCEPT !.level = FALSE, !.by = "human"])
\* Mutant of Decide: the level of the engine is not kept with its decision.
DecideWithoutLevel(i) == Edits /\ Becomes(i, [Was(i) EXCEPT !.validated = TRUE, !.by = "engine"])
Decide(i) ==
  Edits /\ Becomes(i, [Was(i) EXCEPT !.validated = TRUE, !.level = TRUE, !.by = "engine"])
Adopt(i) ==
  Edits /\ Becomes(i, [Was(i) EXCEPT !.validated = TRUE, !.adopted = TRUE, !.by = "judge"])
Clear(i) == Edits /\ clauses[i] # None /\ Becomes(i, None)

\* Mutant of NextGap: the search starts on the sentence that has the focus.
FromFocus == CHOOSE i \in Gaps : \A k \in Gaps : (i - focused + N) % N <= (k - focused + N) % N
\* The first sentence without a clause after the focus, going round.
NextGap == CHOOSE i \in Gaps : \A k \in Gaps : (i - focused - 1 + N) % N <= (k - focused - 1 + N) % N

Looks == UNCHANGED clauses
GoToNextGap ==
  /\ Moved /\ Gaps # {} /\ focused' = NextGap /\ walk' = Append(walk, NextGap) /\ chosen' = {} /\ Looks
EmptyBlock(i) == Moved /\ i \in Gaps /\ focused' = i /\ walk' = <<>> /\ chosen' = {} /\ Looks
Chip(i) == Moved /\ i \in Annotated /\ focused' = i /\ walk' = <<>> /\ chosen' = {} /\ Looks
CtrlChip(i) ==
  /\ Moved /\ i \in Annotated
  /\ chosen' = (IF clauses[i].id \in chosen THEN chosen \ {clauses[i].id} ELSE chosen \cup {clauses[i].id})
  /\ Looks /\ UNCHANGED <<focused, walk>>
\* The menu of a chip: the chip is added to the clauses chosen, and the menu acts
\* on those of them that are there.
RightChip(i) ==
  /\ Moved /\ i \in Annotated /\ chosen' = chosen \cup {clauses[i].id}
  /\ Looks /\ UNCHANGED <<focused, walk>>
OnChosen(Of(_)) ==
  /\ Moved /\ chosen # {} /\ chosen' = {} /\ walk' = <<>> /\ UNCHANGED focused
  /\ clauses' = [i \in Sentences |-> IF i \in Annotated /\ clauses[i].id \in chosen THEN Of(clauses[i]) ELSE clauses[i]]
AnnotateChosen ==
  LET Themed(c) == [c EXCEPT !.validated = TRUE, !.by = "human"] IN OnChosen(Themed)
ValidateChosen == LET Valid(c) == [c EXCEPT !.validated = TRUE] IN OnChosen(Valid)
ClearChosen == LET Gone(c) == None IN OnChosen(Gone)
ForgetChosen == Moved /\ chosen # {} /\ chosen' = {} /\ Looks /\ UNCHANGED <<focused, walk>>

Next ==
  \/ \E i \in Sentences : \/ Retheme(i) \/ Inspect(i) \/ Decide(i) \/ Adopt(i) \/ Clear(i)
                          \/ EmptyBlock(i) \/ Chip(i) \/ CtrlChip(i) \/ RightChip(i)
  \/ GoToNextGap \/ AnnotateChosen \/ ValidateChosen \/ ClearChosen \/ ForgetChosen

\* The mark of a chip: pending, or who decided.
Mark(c) == CASE ~c.validated -> "pending"
             [] c.validated /\ c.level -> "engine"
             [] c.validated /\ ~c.level /\ (c.seeded \/ c.adopted) -> "assisted"
             [] OTHER -> "human"
\* Whether the chip is drawn as a proposal.
Ghost(c) == c.seeded /\ ~c.validated
Remaining == Cardinality(Gaps)
\* The bars, in percent, rounded.
Percent(k) == (200 * k + N) \div (2 * N)
SelectionBar == Cardinality(chosen)

-------------------------------------------------------------------------------
\* The button goes through every sentence without a clause before it comes back
\* to one (planCoverage.ts, nextUncovered).
WalkVisitsEveryGap ==
  /\ \A j, k \in DOMAIN walk : j < k /\ walk[j] = walk[k] => k - j >= Remaining
  /\ Len(walk) >= Remaining => Gaps \subseteq Range(walk)

\* A clause marked as decided without assistance was themed by the annotator, and
\* no decision of the engine passes for one (validationDisplay.ts, provenanceOf).
HumanMarkIsHuman == \A i \in Annotated : Mark(clauses[i]) = "human" => clauses[i].by = "human"

\* The mark of the engine is on its decisions only.
EngineMarkIsTheEngine == \A i \in Annotated : Mark(clauses[i]) = "engine" => clauses[i].by = "engine"

\* What the annotator themed is not marked as a pre-annotation.
AssistedMarkIsAssisted == \A i \in Annotated : Mark(clauses[i]) = "assisted" => clauses[i].by # "human"

\* The bar counts clauses that are there.
SelectionIsThere == SelectionBar = Cardinality({i \in Annotated : clauses[i].id \in chosen})
================================================================================
