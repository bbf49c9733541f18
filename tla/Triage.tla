------------------------------- MODULE Triage -------------------------------
(***************************************************************************)
(* lib/triage/engine.ts: from the themes the judges give to a sentence and *)
(* from where they begin a clause, a level of confidence C1 to C5, what is *)
(* proposed and whether somebody must look at it.  The votes are a         *)
(* sequence: the order in which the judges come in the answer.             *)
(***************************************************************************)
EXTENDS Naturals, Sequences, FiniteSets

CONSTANTS Refuges,    \* the themes of last resort
          Clusters,   \* the pairs of themes that really overlap
          Over,       \* precedence: <<a, b>> when a is primary against b
          Rank,       \* theme -> its place in the list of priorities
          MinJudges,
          MaxJudges   \* bound: judges that answer

Vote(t, s) == [theme |-> t, starts |-> s]
ThemesOf(votes) == {votes[k].theme : k \in DOMAIN votes}
Support(votes, t) == Cardinality({k \in DOMAIN votes : votes[k].theme = t})

\* rankStable: by support, then by priority.
Before(votes, a, b) == \/ Support(votes, a) > Support(votes, b)
                       \/ Support(votes, a) = Support(votes, b) /\ Rank[a] <= Rank[b]
Top(votes) == CHOOSE t \in ThemesOf(votes) : \A u \in ThemesOf(votes) : Before(votes, t, u)

Clustered(a, b) == <<a, b>> \in Clusters \/ <<b, a>> \in Clusters
Pairable(a, b) == {a, b} \cap Refuges = {} /\ Clustered(a, b)

\* findClusterPair: the first pair in the order in which the themes were met.
Met(votes) == [k \in DOMAIN votes |-> \A m \in 1 .. k - 1 : votes[m].theme # votes[k].theme]
PairsMet(votes) == {p \in (DOMAIN votes) \X (DOMAIN votes) :
  p[1] < p[2] /\ Met(votes)[p[1]] /\ Met(votes)[p[2]] /\ Pairable(votes[p[1]].theme, votes[p[2]].theme)}
FirstPair(votes) == CHOOSE p \in PairsMet(votes) :
  \A q \in PairsMet(votes) : p[1] < q[1] \/ (p[1] = q[1] /\ p[2] <= q[2])

\* choosePrimary: precedence, then the number of votes, then priority.
Primary(votes, a, b) ==
  IF <<a, b>> \in Over THEN a
  ELSE IF <<b, a>> \in Over THEN b
  ELSE IF Before(votes, a, b) THEN a ELSE b

Boundary(votes) == IF \A k \in DOMAIN votes : votes[k].starts THEN "hard" ELSE "soft"

Result(level, labels, primary) == [level |-> level, labels |-> labels, primary |-> primary]
Mono(level, t) == Result(level, {t}, {t})
Pair(votes, a, b) == Result("C3", {a, b}, {Primary(votes, a, b)})
Open == Result("C5", {}, {})

\* A theme more than half of the judges gave: the strongest dissident it overlaps with,
\* a refuge left to the arbiter, a theme only refuges dispute, or a theme to verify.
Partners(votes, top) == {t \in ThemesOf(votes) \ {top} : Pairable(top, t)}
Partner(votes, top) == CHOOSE t \in Partners(votes, top) :
                         \A u \in Partners(votes, top) : Before(votes, t, u)
\* Mutant of Majority: a refuge that has the majority is proposed like another theme.
MajorityOfAny(votes, top) ==
  CASE Partners(votes, top) # {} -> Pair(votes, top, Partner(votes, top))
    [] ThemesOf(votes) \ {top} \subseteq Refuges -> Mono("C2", top)
    [] OTHER -> Mono("C4", top)
Majority(votes, top) ==
  IF Partners(votes, top) # {} THEN Pair(votes, top, Partner(votes, top))
  ELSE IF top \in Refuges THEN Open
  ELSE IF ThemesOf(votes) \ {top} \subseteq Refuges THEN Mono("C2", top)
  ELSE Mono("C4", top)
\* No theme has the majority.
\* Mutant of Split: only the two first judges are looked at.
SplitOfTwo(votes) ==
  IF <<1, 2>> \in PairsMet(votes) THEN Pair(votes, votes[1].theme, votes[2].theme) ELSE Open
Split(votes) ==
  IF PairsMet(votes) = {} THEN Open
  ELSE Pair(votes, votes[FirstPair(votes)[1]].theme, votes[FirstPair(votes)[2]].theme)

\* triageEngine; nothing below the number of judges it takes.
Decide(votes) ==
  LET top == Top(votes)
  IN IF Support(votes, top) = Len(votes)
     THEN Mono(IF Boundary(votes) = "hard" THEN "C1" ELSE "C2", top)
     ELSE IF Support(votes, top) * 2 > Len(votes) THEN Majority(votes, top)
     ELSE Split(votes)
Triaged(votes) == IF Len(votes) < MinJudges THEN {} ELSE {Decide(votes)}
NeedsHuman(result) == result.level # "C1"
-----------------------------------------------------------------------------
\* The triage of a sentence as the judges come in, one after the other.
VARIABLE votes

Init == votes = <<>>
Speak(t, s) == Len(votes) < MaxJudges /\ votes' = Append(votes, Vote(t, s))
Next == \E t \in DOMAIN Rank, s \in BOOLEAN : Speak(t, s)
Spec == Init /\ [][Next]_votes

Swapped(k) == [votes EXCEPT ![k] = votes[k + 1], ![k + 1] = votes[k]]
Pairs == 1 .. Len(votes) - 1
-----------------------------------------------------------------------------
\* A refuge, the theme given for want of a better one, is proposed only when every judge
\* gave it: otherwise it would enter the annotation as a consensus.
RefugeNeverImposed ==
  \A r \in Triaged(votes) : Cardinality(ThemesOf(votes)) > 1 => r.labels \cap Refuges = {}

\* The level of a sentence, which decides who looks at it, does not depend on the order in
\* which the judges are listed in the answer.
LevelIgnoresOrder ==
  \A k \in Pairs : {r.level : r \in Triaged(Swapped(k))} = {r.level : r \in Triaged(votes)}

\* engine.ts says it is independent of the order of the judges: so are the themes it
\* proposes.
ProposalIgnoresOrder == \A k \in Pairs : Triaged(Swapped(k)) = Triaged(votes)
=============================================================================
