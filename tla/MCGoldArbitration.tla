------------------------- MODULE MCGoldArbitration -------------------------
(***************************************************************************)
(* Small instances of GoldArbitration for TLC.                             *)
(***************************************************************************)
EXTENDS GoldArbitration, TLC

CONSTANTS lead, reviewer, ann1, ann2, noUser, noTheme, unread

MCThemes == {1, 2}
MCAnnotators == {ann1, ann2}
MCUsers == {lead, reviewer}
MCLeads == {lead}

Plain(t) == [primary |-> t, secondaries |-> {}]
MCBallots == {Plain(noTheme), Plain(1), Plain(2)}

Unit == [a \in MCAnnotators |-> 1]
Permissive == [weight |-> Unit, secondaryMin |-> 2, absoluteAgreement |-> TRUE,
               majority |-> TRUE, promoteSecondaries |-> FALSE]
ByHand == [Permissive EXCEPT !.absoluteAgreement = FALSE]

OneSentence == {1}
TwoSentences == {1, 2}
OneConfig == {Permissive}
TwoConfigs == {Permissive, ByHand}

\* The campaign starts with every annotation submitted, and the first annotator
\* (any, by symmetry of the themes) having voted for the first theme.
CampaignSubmitted ==
  /\ submitted = MCAnnotators
  /\ \A s \in Sentences : vote[ann1][s] = Plain(1) /\ vote[ann2][s] # Plain(noTheme)
MCInit == Init /\ CampaignSubmitted
MCSpec == MCInit /\ [][Next]_vars

\* Bounds of the runs: what one instance leaves aside, another explores.
\* Without the arbitration lock "auto" and "sweep" take the same steps, so the
\* run about races keeps one of them, and one user to ask for it.
RaceScope ==
  /\ UNCHANGED <<lockVars, projectLocked>>
  /\ \A u \in Users : req'[u].op # "auto"
  /\ req'[reviewer].op # "sweep"
\* The run about the lock lets the votes rest.
LockScope == UNCHANGED annotatorVars
=============================================================================
