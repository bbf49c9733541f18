------------------------------ MODULE GoldDesk ------------------------------
(***************************************************************************)
(* The page where an arbiter decides the gold of one document: the rows    *)
(* and their filters, the queue walked by the keys, the rail that          *)
(* validates a proposal, the candidates and the composer of the inspector, *)
(* the toolbar and its confirmation.                                       *)
(*                                                                         *)
(* Abstracted: the lock, whose life is ArbiterDesk's, is held or not; a    *)
(* row proposes Favoured, and Rival as a secondary where it is not a tie;  *)
(* the comment is whether there is one in the composer; the language, the  *)
(* taxonomy and the scroll are left out.                                   *)
(***************************************************************************)
EXTENDS Integers, FiniteSets, FiniteSetsExt

CONSTANTS Rows, Favoured, Rival, Refuge, None,
  MaxMoves    \* bound on what the arbiter does

VARIABLES
  kinds,      \* what each row's votes are: "strict", "majority" or a "tie"
  server,     \* the decision of each row: its primary (or None), its secondaries, by whom (or "nobody")
  rows,       \* ... as the page has them
  finalized,  \* whether the document is frozen
  mine,       \* whether the page believes it holds the lock
  selected, filter,
  park,       \* whether the next row is to come under the mouse
  draft,      \* the composer's grid and comment; None where it is not mounted
  request,    \* the decision in flight
  refused,    \* whether the page shows a refusal
  confirming, \* whether the dialog that freezes the document is open
  pointed,    \* the themes someone chose, row by row
  moves

vars == <<kinds, server, rows, finalized, mine, selected, filter, park, draft, request, refused,
          confirming, pointed, moves>>
document == <<kinds, server, rows, finalized>>

SentenceThemes == {Favoured, Rival, Refuge}
Nothing == [primary |-> None, secondaries |-> {}, by |-> "nobody"]
Decided(r) == r.primary # None
Attention(i) == kinds[i] # "strict"
Todo(seen) == {i \in Rows : ~Decided(seen[i])}
Arbitrary(i) == kinds[i] = "tie"
ProposedSecondaries(i) == IF kinds[i] = "majority" THEN {Rival} ELSE {}
Candidates(i) == IF Attention(i) THEN {Favoured, Rival} ELSE {Favoured}

Top == Max(Rows)
\* A bug: the walk stops at the first index with no row.
StopAtHoles(from, dir, wanted) ==
  LET walk[i \in -1 .. Top + 1] ==
        IF i \notin Rows THEN None ELSE IF i \in wanted THEN i ELSE walk[i + dir]
  IN walk[from + dir]
FindIndex(from, dir, wanted) ==
  LET walk[i \in -1 .. Top + 1] ==
        IF i \notin 0 .. Top THEN None ELSE IF i \in wanted THEN i ELSE walk[i + dir]
  IN walk[from + dir]
NextTodo(seen, from) == FindIndex(from, 1, Todo(seen))
PrevTodo(seen, from) == FindIndex(from, -1, Todo(seen))

Visible == {i \in Rows : CASE filter = "conflicts" -> Attention(i)
                           [] filter = "todo" -> ~Decided(rows[i])
                           [] OTHER -> TRUE}
Stats == [decided |-> Cardinality(Rows \ Todo(rows)), pending |-> Cardinality(Todo(rows)),
          conflicts |-> Cardinality({i \in Rows : Attention(i)}),
          ties |-> Cardinality({i \in Todo(rows) : kinds[i] = "tie"})]
-----------------------------------------------------------------------------
CanDecide == mine /\ request = None

\* A bug: the engine's proposal is ticked, tie or not.
ProposalTicked(i, r) ==
  IF Decided(r) THEN [primary |-> r.primary, secondaries |-> r.secondaries, noted |-> FALSE]
  ELSE [primary |-> Favoured, secondaries |-> ProposedSecondaries(i), noted |-> FALSE]
InitialSelection(i, r) ==
  IF Decided(r) THEN [primary |-> r.primary, secondaries |-> r.secondaries, noted |-> FALSE]
  ELSE IF kinds[i] = "tie" THEN [primary |-> None, secondaries |-> {}, noted |-> FALSE]
  ELSE [primary |-> Favoured, secondaries |-> ProposedSecondaries(i), noted |-> FALSE]

\* The composer is there where the arbiter can decide, and starts anew for another sentence.
Composer ==
  draft' = IF ~CanDecide' THEN None
           ELSE IF draft # None /\ selected' = selected /\ rows'[selected'].primary = rows[selected].primary
             THEN draft
           ELSE InitialSelection(selected', rows'[selected'])

Toggled(d, t) ==
  IF t = d.primary THEN [d EXCEPT !.primary = None]
  ELSE IF t \in d.secondaries THEN [d EXCEPT !.secondaries = @ \ {t}]
  ELSE IF d.primary = None THEN [d EXCEPT !.primary = t]
  ELSE IF t = Refuge THEN d ELSE [d EXCEPT !.secondaries = @ \cup {t}]
Promoted(d, t) ==
  [d EXCEPT !.primary = t, !.secondaries = (@ \cup ({d.primary} \ {Refuge, None})) \ {t}]
-----------------------------------------------------------------------------
Init ==
  /\ kinds \in [Rows -> {"strict", "majority", "tie"}]
  /\ server = [i \in Rows |-> Nothing] /\ rows = server
  /\ selected = Min(Rows)
  /\ mine = FALSE /\ finalized = FALSE
  /\ filter = "all" /\ park = FALSE /\ draft = None
  /\ request = None /\ refused = FALSE /\ confirming = FALSE /\ pointed = {} /\ moves = 0

Moved == moves < MaxMoves /\ moves' = moves + 1

Commit(i, primary, secondaries, fromRail) ==
  LET next == NextTodo(rows, i)
  IN /\ request = None
     /\ request' = [index |-> i, primary |-> primary, secondaries |-> secondaries]
     /\ park' = fromRail
     /\ selected' = IF next = None THEN selected ELSE next
     /\ UNCHANGED <<document, mine, filter, refused, confirming>>
     /\ Composer

Select(i) ==
  /\ Moved /\ i \in Visible /\ i # selected
  /\ selected' = i /\ park' = FALSE
  /\ UNCHANGED <<document, mine, filter, request, refused, confirming, pointed>>
  /\ Composer
\* The keys n and p, and the arrows of the outline.
Jump(dir) ==
  LET target == IF dir = 1 THEN NextTodo(rows, selected) ELSE PrevTodo(rows, selected)
  IN /\ Moved /\ target # None
     /\ selected' = target /\ park' = FALSE
     /\ UNCHANGED <<document, mine, filter, request, refused, confirming, pointed>>
     /\ Composer
SetFilter(f) ==
  /\ Moved /\ f # filter /\ filter' = f
  /\ UNCHANGED <<document, mine, selected, park, draft, request, refused, confirming, pointed>>

\* The button in the rail of a row.
Validate(i) ==
  /\ Moved /\ CanDecide /\ i \in Visible /\ ~Decided(rows[i]) /\ ~Arbitrary(i)
  /\ pointed' = pointed \cup {<<i, Favoured>>}
  /\ Commit(i, Favoured, ProposedSecondaries(i), TRUE)
\* A click on a candidate of the inspector, or its digit.
AdoptCandidate(t) ==
  /\ Moved /\ CanDecide /\ t \in Candidates(selected)
  /\ pointed' = pointed \cup {<<selected, t>>}
  /\ Commit(selected, t, ProposedSecondaries(selected), FALSE)
\* Enter, away from any control.
AcceptProposal ==
  /\ Moved /\ CanDecide /\ kinds[selected] # "tie"
  /\ pointed' = pointed \cup {<<selected, Favoured>>}
  /\ Commit(selected, Favoured, ProposedSecondaries(selected), FALSE)
\* Enter on a theme of the grid, on a button of the composer or of the dialog: the document
\* hears it too, and takes it for the proposal.
EnterOnControl ==
  /\ Moved /\ CanDecide /\ kinds[selected] # "tie"
  /\ Commit(selected, Favoured, ProposedSecondaries(selected), FALSE)
  /\ UNCHANGED pointed

Compose(d) ==
  /\ Moved /\ draft # None
  /\ d # draft /\ draft' = d
  /\ pointed' = IF d.primary = None THEN pointed ELSE pointed \cup {<<selected, d.primary>>}
  /\ UNCHANGED <<document, mine, selected, filter, park, request, refused, confirming>>
Toggle(t) == draft # None /\ (t = Refuge => draft.primary \in {None, Refuge}) /\ Compose(Toggled(draft, t))
Promote(t) == draft # None /\ t \in draft.secondaries /\ Compose(Promoted(draft, t))
Comment == draft # None /\ Compose([draft EXCEPT !.noted = TRUE])
Clear == draft # None /\ Compose([draft EXCEPT !.primary = None, !.secondaries = {}])
Submit ==
  /\ Moved /\ draft # None /\ draft.primary # None
  /\ Commit(selected, draft.primary, draft.secondaries, FALSE)
  /\ UNCHANGED pointed
-----------------------------------------------------------------------------
\* The server's answers. A decision is written where the caller holds the lock, the document
\* is not frozen and no secondary is a refuge.
Accept ==
  /\ request # None /\ ~finalized /\ Refuge \notin request.secondaries
  /\ server' = [server EXCEPT ![request.index] =
       [primary |-> request.primary, secondaries |-> request.secondaries \ {request.primary}, by |-> "me"]]
  /\ request' = None /\ refused' = FALSE
  /\ UNCHANGED <<kinds, rows, finalized, mine, selected, filter, park, confirming, pointed, moves>>
  /\ Composer
\* Any failure: the selection comes back. A lock lost is then asked for again.
Refuse(lost) ==
  /\ request # None
  /\ request' = None /\ refused' = TRUE
  /\ park' = FALSE /\ selected' = request.index
  /\ mine' = (mine /\ ~lost)
  /\ UNCHANGED <<document, filter, confirming, pointed, moves>>
  /\ Composer
Dismiss ==
  /\ refused /\ refused' = FALSE
  /\ UNCHANGED <<document, mine, selected, filter, park, draft, request, confirming, pointed, moves>>
Refetch ==
  /\ rows # server /\ rows' = server
  /\ UNCHANGED <<kinds, server, finalized, mine, selected, filter, park, request, refused, confirming, pointed, moves>>
  /\ Composer

AutoResolve ==
  /\ Moved /\ mine /\ ~finalized
  /\ server' = [i \in Rows |-> IF Decided(server[i]) \/ kinds[i] # "strict" THEN server[i]
       ELSE [primary |-> Favoured, secondaries |-> ProposedSecondaries(i), by |-> "engine"]]
  /\ UNCHANGED <<kinds, rows, finalized, mine, selected, filter, park, draft, request, refused, confirming, pointed>>
AskToFinalize ==
  /\ Moved /\ mine /\ ~finalized /\ ~confirming /\ Todo(rows) = {}
  /\ confirming' = TRUE
  /\ UNCHANGED <<document, mine, selected, filter, park, draft, request, refused, pointed>>
\* The button of the dialog does not look at the lock; the server does.
Finalize(accepted) ==
  /\ confirming /\ confirming' = FALSE
  /\ finalized' = (finalized \/ (accepted /\ Todo(server) = {}))
  /\ UNCHANGED <<kinds, server, rows, mine, selected, filter, park, draft, request, refused, pointed, moves>>
CancelFinalize ==
  /\ confirming /\ confirming' = FALSE
  /\ UNCHANGED <<document, mine, selected, filter, park, draft, request, refused, pointed, moves>>
Reopen ==
  /\ finalized /\ finalized' = FALSE /\ Moved
  /\ UNCHANGED <<kinds, server, rows, mine, selected, filter, park, draft, request, refused, confirming, pointed>>
LockChanged ==
  /\ Moved /\ mine' = ~mine
  /\ UNCHANGED <<document, selected, filter, park, request, refused, confirming, pointed>>
  /\ Composer
\* While the lock is elsewhere, another arbiter decides.
OtherDecides(i, t) ==
  /\ Moved /\ ~mine /\ request = None /\ ~finalized
  /\ server' = [server EXCEPT ![i] = [primary |-> t, secondaries |-> {}, by |-> "other"]]
  /\ pointed' = pointed \cup {<<i, t>>}
  /\ UNCHANGED <<kinds, rows, finalized, mine, selected, filter, park, draft, request, refused, confirming>>

Arbiter ==
  \/ \E i \in Rows : Select(i) \/ Validate(i)
  \/ \E dir \in {1, -1} : Jump(dir)
  \/ \E f \in {"all", "conflicts", "todo"} : SetFilter(f)
  \/ \E t \in {Favoured, Rival} : AdoptCandidate(t)
  \/ \E t \in SentenceThemes : Toggle(t) \/ Promote(t)
  \/ AcceptProposal \/ EnterOnControl \/ Comment \/ Clear \/ Submit
  \/ Dismiss \/ AutoResolve \/ AskToFinalize \/ CancelFinalize \/ Reopen
Next ==
  \/ Arbiter
  \/ \E accepted \in BOOLEAN : Finalize(accepted)
  \/ \E lost \in BOOLEAN : Refuse(lost)
  \/ Accept \/ Refetch \/ LockChanged
  \/ \E i \in Rows, t \in {Favoured, Rival} : OtherDecides(i, t)
-----------------------------------------------------------------------------
\* A tie the page decides got the theme someone chose for it, never the first of the alphabet.
TieIsChosen ==
  \A i \in Rows : server[i].by = "me" /\ kinds[i] = "tie" => <<i, server[i].primary>> \in pointed
\* The keys leave no undecided sentence behind, and n undoes p.
KeysWalkTheQueue ==
  \A i \in Rows : LET next == NextTodo(rows, i) after == {j \in Todo(rows) : j > i}
    IN /\ (next = None) = (after = {})
       /\ next # None => next = Min(after) /\ (~Decided(rows[i]) => PrevTodo(rows, next) = i)
\* Refuted by EnterOnControl, and by a refusal that comes back to a fresh composer.
OnlyWhatWasMeant == \A i \in Rows : server[i].by = "me" => <<i, server[i].primary>> \in pointed
=============================================================================
