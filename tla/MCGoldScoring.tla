--------------------------- MODULE MCGoldScoring ---------------------------
(***************************************************************************)
(* The scoring engine on every set of ballots, some annotators weighing    *)
(* more than others, or nothing: they revise their ballots one by one.     *)
(***************************************************************************)
EXTENDS GoldScoring

\* lib/goldScoring.ts, the scoring engine as the screens run it: the same decisions as the
\* server's, taken by another program in another order.

\* tally and argmax: the first of the keys in order that is strictly heavier than those
\* before it.
Weighed(votes, cfg) == [t \in {votes[a].primary : a \in Covering(votes)} |->
  MapThenSumSet(LAMBDA a : cfg.weight[a], {a \in Covering(votes) : votes[a].primary = t})]
Heaviest(w) == {t \in DOMAIN w : /\ \A u \in DOMAIN w : w[u] <= w[t]
                                 /\ \A u \in DOMAIN w : u < t => w[u] < w[t]}

\* The class of agreement: primaries and sets of secondaries all the same, a lead over half
\* of the weight, or neither.
SecKeys(votes) == {votes[a].secondaries : a \in Covering(votes)}
MirrorClass(votes, cfg) ==
  LET w == Weighed(votes, cfg)
      total == MapThenSumSet(LAMBDA t : w[t], DOMAIN w)
  IN IF Covering(votes) = {} THEN "empty"
     ELSE IF Cardinality(DOMAIN w) = 1 /\ Cardinality(SecKeys(votes)) = 1 THEN "strict"
     ELSE IF \E t \in Heaviest(w) : 2 * w[t] > total THEN "majority" ELSE "divergence"

\* Mutant of MirrorLevel: the two thirds taken of the weights.
MirrorLevelOfWeights(votes, cfg) ==
  LET w == Weighed(votes, cfg)
      total == MapThenSumSet(LAMBDA t : w[t], DOMAIN w)
  IN CASE MirrorClass(votes, cfg) = "strict" /\ Cardinality(SecKeys(votes)) = 1 -> "auto_1click"
       [] MirrorClass(votes, cfg) = "majority" /\ \E t \in Heaviest(w) : 3 * w[t] >= 2 * total -> "auto"
       [] OTHER -> "manual"
MirrorLevel(votes, cfg) ==
  LET heads(t) == Cardinality({a \in Covering(votes) : votes[a].primary = t})
  IN IF MirrorClass(votes, cfg) = "strict" /\ Cardinality(SecKeys(votes)) = 1 THEN "auto_1click"
     ELSE IF /\ MirrorClass(votes, cfg) = "majority"
             /\ \E t \in Heaviest(Weighed(votes, cfg)) : 3 * heads(t) >= 2 * Cardinality(Covering(votes))
     THEN "auto" ELSE "manual"

MirrorSecondaries(votes, cfg) ==
  LET named(t) == {a \in Covering(votes) : t \in votes[a].secondaries}
  IN {t \in UNION SecKeys(votes) : /\ t \notin Heaviest(Weighed(votes, cfg))
                                   /\ Cardinality(named(t)) >= cfg.secondaryMin}

MirrorScore(votes, cfg) ==
  [primary |-> Heaviest(Weighed(votes, cfg)), class |-> MirrorClass(votes, cfg),
   level |-> MirrorLevel(votes, cfg), secondaries |-> MirrorSecondaries(votes, cfg)]
-----------------------------------------------------------------------------
CONSTANTS
  Configurations,   \* the weights and the threshold a campaign may set
  CastBallots       \* what an annotator may say of the sentence

VARIABLES ballots, cfg

Init == cfg \in Configurations /\ ballots = [a \in Annotators |-> Abstention]

Revise(a) ==
  /\ \E b \in CastBallots : ballots' = [ballots EXCEPT ![a] = b]
  /\ UNCHANGED cfg

Next == \E a \in Annotators : Revise(a)
Spec == Init /\ [][Next]_<<ballots, cfg>>

---------------------------------------------------------------------------
score == Score(ballots, cfg)
Count(t) == Cardinality(Supporters(ballots, t))
Mass(S) == MapThenSumSet(LAMBDA a : cfg.weight[a], S)

\* A label the engine may write without an arbiter is never one of several
\* themes sharing the lead: the alphabetical tie-break of _argmax must not reach
\* the gold through the auto-resolution.
AutoIsNeverATie == score.level \in AutoLevels => ~IsTie(score.tally)

\* A label the engine may write without an arbiter has both more than half of
\* the weight and two thirds of the heads behind it, however the weights are set;
\* only annotators who weigh nothing and all agree do without a weight.
AutoHasBothMajorities ==
  score.level \in AutoLevels =>
    /\ 3 * Count(score.primary) >= 2 * Cardinality(Covering(ballots))
    /\ \/ 2 * Mass(Supporters(ballots, score.primary)) > Mass(Covering(ballots))
       \/ Mass(Covering(ballots)) = 0 /\ Supporters(ballots, score.primary) = Covering(ballots)

\* The proposal is the heaviest theme, and the first one in lexicographic order
\* among the heaviest, so that two recomputes on the same votes agree.
PrimaryIsFirstHeaviest ==
  IF Covering(ballots) = {}
  THEN score.primary = NoTheme
  ELSE \A t \in VotedThemes(ballots) :
         LET gap == Mass(Supporters(ballots, score.primary))
             own == Mass(Supporters(ballots, t))
         IN own <= gap /\ (own = gap => score.primary <= t)

\* An annotator rallying to the proposal never changes it, and never turns an
\* automatic label back into one an arbiter must decide.
RallyingKeeps ==
  (\E a \in Annotators :
     /\ ballots[a].primary # score.primary
     /\ ballots'[a] = [primary |-> score.primary, secondaries |-> {}]
     /\ \A o \in Annotators : ballots[o].secondaries = {}
     /\ \E o \in Annotators : ballots[o].primary # NoTheme)
     => /\ score'.primary = score.primary
        /\ score.level \in AutoLevels => score'.level \in AutoLevels

\* A secondary theme the engine proposes was named by enough annotators and is
\* not the primary they settled on, even when some named it as their primary.
SecondariesAreShared ==
  \A t \in score.secondaries :
    /\ t # score.primary
    /\ cfg.secondaryMin <= Cardinality({a \in Covering(ballots) :
                                          t \in ballots[a].secondaries})

\* The engine the screens run and the engine of the server decide the same, whatever
\* the weights: the proposal on the page is the one the recompute writes.
MirrorAgrees ==
  LET mirror == MirrorScore(ballots, cfg)
  IN /\ mirror.primary = {score.primary} \ {NoTheme}
     /\ mirror.class = score.class /\ mirror.level = score.level
     /\ mirror.secondaries = score.secondaries
=============================================================================
