---------------------------- MODULE GoldScoring ----------------------------
(***************************************************************************)
(* The pure engine that proposes the gold label of one sentence from the   *)
(* ballots of its annotators (projects/gold_scoring.py).  LLM judges are   *)
(* displayed next to the proposal but take no part in it, so they are not  *)
(* here.  A theme is the rank of its code in lexicographic order: the      *)
(* engine breaks ties by that order.  Weights are integers (the campaign   *)
(* configures multiples of a common unit), so the comparisons are exact.   *)
(***************************************************************************)
EXTENDS Naturals, FiniteSets, FiniteSetsExt

CONSTANTS Themes,       \* ranks of the theme codes, a finite set of naturals
          Annotators,   \* the human voters
          NoTheme       \* the primary of a ballot that does not cover the sentence

ASSUME ThemesAreRanks == Themes \subseteq Nat /\ IsFiniteSet(Themes)
ASSUME NoThemeIsNoRank == NoTheme \notin Themes
ASSUME AnnotatorsFinite == IsFiniteSet(Annotators)

\* One annotator's vote on one sentence.
Ballot == [primary: Themes \cup {NoTheme}, secondaries: SUBSET Themes]
Abstention == [primary |-> NoTheme, secondaries |-> {}]

\* The part of the campaign's configuration the engine reads.
EngineConfig == [weight: [Annotators -> Nat], secondaryMin: Nat]

---------------------------------------------------------------------------
Covering(ballots) == {a \in Annotators : ballots[a].primary # NoTheme}
VotedThemes(ballots) == {ballots[a].primary : a \in Covering(ballots)}
Supporters(ballots, t) == {a \in Covering(ballots) : ballots[a].primary = t}

\* Mass of weight per theme that some annotator named as primary.
Tally(ballots, cfg) ==
  [t \in VotedThemes(ballots) |->
      MapThenSumSet(LAMBDA a : cfg.weight[a], Supporters(ballots, t))]

\* Mutants of Argmax: the last of the heaviest themes; the lightest theme.
ArgmaxLast(tally) ==
  IF DOMAIN tally = {}
  THEN NoTheme
  ELSE CHOOSE t \in DOMAIN tally :
         \A o \in DOMAIN tally : tally[o] < tally[t] \/ (tally[o] = tally[t] /\ o <= t)
ArgmaxLightest(tally) ==
  IF DOMAIN tally = {}
  THEN NoTheme
  ELSE CHOOSE t \in DOMAIN tally :
         \A o \in DOMAIN tally : tally[t] < tally[o] \/ (tally[o] = tally[t] /\ t <= o)

\* The heaviest theme, the first in lexicographic order among equals.
Argmax(tally) ==
  IF DOMAIN tally = {}
  THEN NoTheme
  ELSE CHOOSE t \in DOMAIN tally :
         \A o \in DOMAIN tally : \/ tally[o] < tally[t]
                                 \/ tally[o] = tally[t] /\ t <= o

TotalMass(tally) == MapThenSumSet(LAMBDA t : tally[t], DOMAIN tally)

SameSecondaries(ballots) ==
  Cardinality({ballots[a].secondaries : a \in Covering(ballots)}) = 1

\* Mutant of IsMajority: half of the weight is enough.
IsHalf(tally, t) == 2 * tally[t] >= TotalMass(tally)
IsMajority(tally, t) == 2 * tally[t] > TotalMass(tally)

AgreementClass(ballots, cfg) ==
  LET tally == Tally(ballots, cfg)
  IN CASE Covering(ballots) = {} -> "empty"
       [] Cardinality(VotedThemes(ballots)) = 1 /\ SameSecondaries(ballots)
            -> "strict"
       [] OTHER
            -> IF IsMajority(tally, Argmax(tally)) THEN "majority" ELSE "divergence"

\* Mutant of SharedSecondaries: the primary is not set apart.
SharedThemes(ballots, cfg, primary) ==
  {t \in Themes :
     LET carriers == {a \in Covering(ballots) : t \in ballots[a].secondaries}
     IN carriers # {} /\ Cardinality(carriers) >= cfg.secondaryMin}

\* Secondary themes named by enough annotators, never the primary itself.
SharedSecondaries(ballots, cfg, primary) ==
  {t \in Themes \ {primary} :
     LET carriers == {a \in Covering(ballots) : t \in ballots[a].secondaries}
     IN carriers # {} /\ Cardinality(carriers) >= cfg.secondaryMin}

\* Mutant of TwoThirdsAgree: half of the heads are enough.
HalfAgrees(ballots, t) ==
  2 * Cardinality(Supporters(ballots, t)) >= Cardinality(Covering(ballots))

\* Two thirds of the annotators, by head count and not by weight.
TwoThirdsAgree(ballots, t) ==
  3 * Cardinality(Supporters(ballots, t)) >= 2 * Cardinality(Covering(ballots))

AutoLevel(ballots, cfg) ==
  LET class == AgreementClass(ballots, cfg)
  IN CASE class = "strict" /\ SameSecondaries(ballots) -> "auto_1click"
       [] class = "majority" /\ TwoThirdsAgree(ballots, Argmax(Tally(ballots, cfg)))
            -> "auto"
       [] OTHER -> "manual"

Score(ballots, cfg) ==
  LET tally == Tally(ballots, cfg)
      top   == Argmax(tally)
  IN [primary     |-> top,
      secondaries |-> SharedSecondaries(ballots, cfg, top),
      class       |-> AgreementClass(ballots, cfg),
      level       |-> AutoLevel(ballots, cfg),
      tally       |-> tally]

\* The levels the recompute may decide without an arbiter.
AutoLevels == {"auto_1click", "auto"}

\* Several themes share the lead: the proposal is then only the first of them
\* in lexicographic order, which the workshop must not offer as a consensus.
IsTie(tally) ==
  /\ Cardinality(DOMAIN tally) >= 2
  /\ \E t, o \in DOMAIN tally :
       /\ t # o
       /\ tally[t] = tally[o]
       /\ \A x \in DOMAIN tally : tally[x] <= tally[t]
=============================================================================
