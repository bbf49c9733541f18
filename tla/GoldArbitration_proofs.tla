----------------------- MODULE GoldArbitration_proofs -----------------------
(***************************************************************************)
(* Proofs about GoldArbitration, for any number of users, sentences,       *)
(* annotators and themes, and for any bound.                               *)
(***************************************************************************)
EXTENDS GoldArbitration, FiniteSetTheorems, TLAPS

\* What every materialised row satisfies, in the table and in every copy of it
\* a recompute holds.
RowOK(row) ==
  /\ RowSupportsItsLabel(row)
  /\ IsHuman(row) <=> row.by # NoUser

\* A request has read what its next step uses, in the order of the code.
RequestOK(r) ==
  /\ r.op \in RecomputeOps => r.config \in Configs /\ ~r.finalized
  /\ r.op = "decide" => r.choice \in Sentences \X Decisions
  /\ r.rows # Unread =>
       /\ r.op \in RecomputeOps
       /\ r.votes # Unread
       /\ r.ready # Unread
       /\ \A s \in Sentences : r.rows[s] # Unread => RowOK(r.rows[s])

RequestsOK == \A u \in Users : RequestOK(req[u])
RowsOK == \A s \in Sentences : gold[s] # Unread => RowOK(gold[s])
GoldOK == RowsOK /\ HumanDecisionStands /\ FrozenGoldIsComplete

\* The inductive invariant: a copy held by a request in flight is as coherent,
\* row by row, as the table it was read from.
IInv == TypeOK /\ RequestsOK /\ GoldOK

---------------------------------------------------------------------------
(* The engine and the rows.                                                *)

\* The engine proposes themes of the scheme as secondaries.
LEMMA ScoreSecondaries ==
  ASSUME NEW b, NEW c
  PROVE  Score(b, c).secondaries \subseteq Themes
BY DEF Score, SharedSecondaries

\* A row is never mistaken for the absence of a row.
LEMMA UnreadRow == ASSUME NEW row \in Row PROVE row # Unread
BY UnreadIsNoRow

\* The row get_or_create inserts is in good order.
LEMMA FreshRowOK == FreshRow \in Row /\ RowOK(FreshRow)
BY DEF FreshRow, Row, RowOK, RowSupportsItsLabel, IsHuman

\* So is the row a request works on, whether it existed or is created.
LEMMA RowAtOK ==
  ASSUME NEW rows \in RowMaps, NEW s \in Sentences,
         rows[s] # Unread => RowOK(rows[s])
  PROVE  RowAt(rows, s) \in Row /\ RowOK(RowAt(rows, s))
<1>1. CASE rows[s] = Unread
  BY <1>1, FreshRowOK DEF RowAt
<1>2. CASE rows[s] # Unread
  BY <1>2 DEF RowAt, RowMaps
<1>3. QED
  BY <1>1, <1>2

\* A human row seen through a copy is that row itself.
LEMMA HumanRowAt ==
  ASSUME NEW rows, NEW s, IsHuman(rows[s])
  PROVE  RowAt(rows, s) = rows[s]
BY DEF IsHuman, RowAt

\* Refreshing the proposal changes the proposal alone.
LEMMA ProposedOK ==
  ASSUME NEW r, NEW s \in Sentences,
         r.rows \in RowMaps, r.votes \in VoteMaps, r.config \in Configs,
         r.rows[s] # Unread => RowOK(r.rows[s])
  PROVE  /\ Proposed(r, s) \in Row
         /\ Proposed(r, s) = [RowAt(r.rows, s) EXCEPT !.proposal = Proposed(r, s).proposal]
         /\ Proposed(r, s).proposal.secondaries \subseteq Themes
<1> DEFINE row == RowAt(r.rows, s)
           score == Score(r.votes[s], r.config)
<1>1. row \in Row
  BY RowAtOK
<1>2. score \in Proposals
  BY DEF Proposals, VoteMaps
<1>3. score.secondaries \subseteq Themes
  BY ScoreSecondaries
<1> HIDE DEF row, score
<1>4. [row EXCEPT !.proposal = score] \in Row
      /\ [row EXCEPT !.proposal = score].proposal = score
  BY <1>1, <1>2 DEF Row
<1>5. Proposed(r, s) = [row EXCEPT !.proposal = score]
  BY DEF Proposed, row, score
<1>6. QED
  BY <1>3, <1>4, <1>5 DEF row

\* One turn of the recompute's loop yields a row whose label its proposal
\* supports, and leaves the label of a row that a human decided.
LEMMA RescoredOK ==
  ASSUME NEW r, NEW s \in Sentences,
         r.rows \in RowMaps, r.votes \in VoteMaps, r.config \in Configs,
         r.rows[s] # Unread => RowOK(r.rows[s])
  PROVE  /\ Rescored(r, s) \in Row
         /\ RowOK(Rescored(r, s))
         /\ IsHuman(r.rows[s]) => /\ IsHuman(Rescored(r, s))
                                  /\ HumanLabel(Rescored(r, s)) = HumanLabel(r.rows[s])
<1> DEFINE row == RowAt(r.rows, s)
           prop == Proposed(r, s)
<1>1. row \in Row /\ RowOK(row)
  BY RowAtOK
<1>2. /\ prop \in Row
      /\ prop = [row EXCEPT !.proposal = prop.proposal]
      /\ prop.proposal.secondaries \subseteq Themes
  BY ProposedOK
<1>3. prop # Unread /\ row # Unread
  BY <1>1, <1>2, UnreadRow
<1>4. prop.decided = row.decided /\ prop.auto = row.auto /\ prop.by = row.by
      /\ prop.primary = row.primary /\ prop.secondaries = row.secondaries
  BY <1>1, <1>2 DEF Row
<1>5. IsHuman(r.rows[s]) => row = r.rows[s]
  BY HumanRowAt
<1>6. CASE IsHuman(row)
  <2>1. Rescored(r, s) = prop
    BY <1>6 DEF Rescored
  <2>2. RowOK(prop) /\ IsHuman(prop) /\ HumanLabel(prop) = HumanLabel(row)
    BY <1>1, <1>3, <1>4, <1>6
       DEF RowOK, RowSupportsItsLabel, IsHuman, HumanLabel
  <2>3. QED
    BY <1>2, <1>5, <2>1, <2>2
<1>7. CASE ~IsHuman(row) /\ AutoOk(r, s)
  <2>1. Rescored(r, s) = AutoDecided(prop, r)
    BY <1>7 DEF Rescored
  <2>2. prop.proposal.primary \in Themes /\ prop.proposal.level \in AutoLevels
    BY <1>7 DEF AutoOk, AllowsAuto, AutoLevels
  <2>3. AutoDecided(prop, r) \in Row
    BY <1>2, <2>2 DEF AutoDecided, Row
  <2>4. RowOK(AutoDecided(prop, r))
    BY <1>2, <2>2, NoThemeIsNoRank
       DEF AutoDecided, Row, RowOK, RowSupportsItsLabel, IsHuman
  <2>5. QED
    BY <1>5, <1>7, <2>1, <2>3, <2>4
<1>8. CASE ~IsHuman(row) /\ ~AutoOk(r, s)
  <2>1. Rescored(r, s) = LeftToArbiters(prop)
    BY <1>8 DEF Rescored
  <2>2. prop.by = NoUser
    BY <1>1, <1>4, <1>8 DEF RowOK
  <2>3. LeftToArbiters(prop) \in Row
    BY <1>2 DEF LeftToArbiters, Row
  <2>4. RowOK(LeftToArbiters(prop))
    BY <1>2, <2>2 DEF LeftToArbiters, Row, RowOK, RowSupportsItsLabel, IsHuman
  <2>5. QED
    BY <1>5, <1>8, <2>1, <2>3, <2>4
<1>9. QED
  BY <1>6, <1>7, <1>8

\* Deciding a sentence yields a human row with the arbiter's name.
LEMMA DecidedByHumanOK ==
  ASSUME NEW row \in Row, NEW b \in Decisions, NEW u \in Users
  PROVE  LET new == DecidedByHuman(row, b, u)
         IN /\ new \in Row
            /\ RowOK(new)
            /\ IsHuman(new)
            /\ HumanLabel(new) \in Label
<1> DEFINE new == DecidedByHuman(row, b, u)
<1>1. b.primary \in Themes \cup {NoTheme} /\ b.secondaries \subseteq Themes
  BY BallotsAreBallots DEF Decisions, Ballot
<1>2. new \in Row
  BY <1>1 DEF DecidedByHuman, Row
<1>3. new.decided /\ ~new.auto /\ new.by = u
  BY DEF DecidedByHuman, Row
<1>4. new # Unread
  BY <1>2, UnreadRow
<1> HIDE DEF new
<1>5. RowOK(new) /\ IsHuman(new)
  BY <1>3, <1>4, RolesAreNested DEF RowOK, RowSupportsItsLabel, IsHuman
<1>6. HumanLabel(new) \in Label
  BY <1>2 DEF HumanLabel, Label, Row
<1>7. QED
  BY <1>2, <1>5, <1>6 DEF new
---------------------------------------------------------------------------
(* The inductive invariant.                                                *)

\* The number of decided sentences is a number of sentences.
LEMMA DecidedCount ==
  ASSUME NEW rows
  PROVE  Cardinality(DecidedIn(rows)) \in 0..Cardinality(Sentences)
<1>1. DecidedIn(rows) \subseteq Sentences
  BY DEF DecidedIn
<1>2. IsFiniteSet(Sentences)
  BY DocumentHasSentences
<1>3. IsFiniteSet(DecidedIn(rows)) /\ Cardinality(DecidedIn(rows)) <= Cardinality(Sentences)
  BY <1>1, <1>2, FS_Subset
<1>4. QED
  BY <1>2, <1>3, FS_CardinalityType

\* What _refresh_status stores is a status of the model.
LEMMA StatusForType ==
  ASSUME NEW saw, NEW rows
  PROVE  StatusFor(saw, rows) \in Statuses
BY DEF StatusFor, Statuses

\* The absence of a request satisfies what is asked of requests.
LEMMA NoRequestOK == NoRequest \in Request /\ RequestOK(NoRequest)
BY DEF NoRequest, Request, RequestOK, RecomputeOps

\* A campaign starts with the inductive invariant: no row, no request.
LEMMA InitIInv == Init => IInv
<1> SUFFICES ASSUME Init PROVE IInv
  OBVIOUS
<1>1. DecidedIn(gold) = {}
  BY DEF Init, DecidedIn, IsDecided
<1>2. Cardinality(DecidedIn(gold)) = 0
  BY <1>1, FS_EmptySet
<1>3. pctResolved \in 0..Cardinality(Sentences)
  BY <1>2, DecidedCount DEF Init
<1>4. gold \in RowMaps /\ req \in [Users -> Request]
  BY NoRequestOK DEF Init, RowMaps
<1>5. TypeOK
  <2>1. /\ revisions \in 0..MaxRevisions
        /\ lease \in 0..LeaseTicks
        /\ opened \in 0..MaxRequests
    BY BoundsAreNaturals DEF Init
  <2>2. /\ status \in Statuses
        /\ lockedBy \in Users \cup {NoUser}
        /\ lastDecision \in [Sentences -> Label \cup {Unread}]
    BY DEF Init, Statuses
  <2>3. QED
    BY <1>3, <1>4, <2>1, <2>2, Zenon DEF Init, TypeOK
<1>6. RequestsOK
  BY NoRequestOK DEF Init, RequestsOK
<1>7. RowsOK /\ HumanDecisionStands
  BY DEF Init, RowsOK, HumanDecisionStands
<1>8. FrozenGoldIsComplete
  BY <1>2 DEF Init, FrozenGoldIsComplete
<1>9. QED
  BY <1>5, <1>6, <1>7, <1>8 DEF IInv, GoldOK

\* Steps that leave the gold alone.
LEMMA GoldKept ==
  ASSUME GoldOK, UNCHANGED goldVars
  PROVE  GoldOK'
BY DEF GoldOK, goldVars, RowsOK, HumanDecisionStands, FrozenGoldIsComplete,
       DecidedIn, IsDecided

\* Steps of the annotators, of the leads on the project, and of the lock.
LEMMA AroundKeeps ==
  ASSUME IInv,
         \/ \E a \in Annotators : EditVotes(a)
         \/ SaveConfig \/ ToggleProjectLock \/ LeaseTick
         \/ \E u \in Users : UseLock(u)
  PROVE  IInv'
<1>1. UNCHANGED goldVars /\ UNCHANGED requestVars
  BY DEF EditVotes, Unlock, Reject, Submit, EditLate, SaveConfig, ToggleProjectLock, LeaseTick, UseLock,
         AcquireLock, HeartbeatLock, ReleaseLock, StealLock, TakeLock
<1>2. GoldOK'
  BY <1>1, GoldKept DEF IInv
<1>3. RequestsOK'
  BY <1>1 DEF IInv, RequestsOK, requestVars
<1>4. TypeOK'
  <2>1. TypeOK
    BY DEF IInv
  <2>2. ASSUME NEW a \in Annotators, EditVotes(a)
        PROVE  TypeOK'
    BY <1>1, <2>1, <2>2, BoundsAreNaturals
       DEF TypeOK, EditVotes, Unlock, Reject, Submit, EditLate, goldVars, requestVars, projectVars, lockVars
  <2>3. CASE SaveConfig \/ ToggleProjectLock
    BY <1>1, <2>1, <2>3
       DEF TypeOK, SaveConfig, ToggleProjectLock, goldVars, requestVars,
           annotatorVars, lockVars
  <2>4. CASE LeaseTick
    BY <1>1, <2>1, <2>4, BoundsAreNaturals
       DEF TypeOK, LeaseTick, LockActive, goldVars, requestVars, annotatorVars,
           projectVars
  <2>5. ASSUME NEW u \in Users, UseLock(u)
        PROVE  TypeOK'
    BY <1>1, <2>1, <2>5, BoundsAreNaturals
       DEF TypeOK, UseLock, AcquireLock, HeartbeatLock, ReleaseLock, StealLock,
           TakeLock, goldVars, requestVars, annotatorVars, projectVars
  <2>6. QED
    BY <2>2, <2>3, <2>4, <2>5
<1>5. QED
  BY <1>2, <1>3, <1>4 DEF IInv

\* A step of one request leaves the others alone.
LEMMA RequestStep ==
  ASSUME IInv, NEW u \in Users, NEW r \in Request, RequestOK(r),
         Open(u, r) \/ Continue(u, r)
  PROVE  /\ RequestsOK'
         /\ req' \in [Users -> Request]
         /\ opened' \in 0..MaxRequests
<1>1. req \in [Users -> Request] /\ opened \in 0..MaxRequests /\ RequestsOK
  BY DEF IInv, TypeOK
<1>2. req' = [req EXCEPT ![u] = r]
  BY DEF Open, Continue
<1>3. opened' \in 0..MaxRequests
  BY <1>1, BoundsAreNaturals DEF Open, Continue
<1>4. \A v \in Users : req'[v] = IF v = u THEN r ELSE req[v]
  BY <1>1, <1>2
<1>5. RequestsOK'
  BY <1>1, <1>4 DEF RequestsOK
<1>6. QED
  BY <1>1, <1>2, <1>3, <1>5

\* Steps that change nothing but a request.
LEMMA RequestOnlyStep ==
  ASSUME IInv, NEW u \in Users, NEW r \in Request, RequestOK(r),
         Open(u, r) \/ Continue(u, r),
         UNCHANGED <<annotatorVars, projectVars, lockVars, goldVars>>
  PROVE  IInv'
<1>1. GoldOK'
  BY GoldKept DEF IInv
<1>2. RequestsOK' /\ req' \in [Users -> Request] /\ opened' \in 0..MaxRequests
  BY RequestStep
<1>3. TypeOK'
  BY <1>2 DEF IInv, TypeOK, annotatorVars, projectVars, lockVars, goldVars
<1>4. QED
  BY <1>1, <1>2, <1>3 DEF IInv
---------------------------------------------------------------------------
(* The actions of a request.                                               *)

\* Opening a request, reading for it and giving it up write no row.
LEMMA OpeningKeeps ==
  ASSUME IInv, NEW u \in Users,
         \/ OpenDetail(u) \/ OpenAuto(u) \/ OpenSweep(u) \/ OpenFinalize(u)
         \/ \E s \in Sentences, b \in Decisions : OpenDecide(u, s, b)
  PROVE  IInv'
<1>1. config \in Configs /\ finalized \in BOOLEAN
  BY DEF IInv, TypeOK
<1>2. ASSUME NEW op \in RecomputeOps,
             Open(u, [NoRequest EXCEPT !.op = op, !.config = config]),
             UNCHANGED <<annotatorVars, projectVars, lockVars, goldVars>>
      PROVE  IInv'
  <2> DEFINE r == [NoRequest EXCEPT !.op = op, !.config = config]
  <2>1. r \in Request /\ RequestOK(r)
    BY <1>1 DEF NoRequest, Request, RequestOK, RecomputeOps
  <2> HIDE DEF r
  <2>2. Open(u, r)
    BY <1>2 DEF r
  <2>3. QED
    BY <1>2, <2>1, <2>2, RequestOnlyStep
<1>3. ASSUME OpenFinalize(u)
      PROVE  IInv'
  <2> DEFINE r == [NoRequest EXCEPT !.op = "finalize"]
  <2>1. r \in Request /\ RequestOK(r)
    BY DEF NoRequest, Request, RequestOK, RecomputeOps
  <2> HIDE DEF r
  <2>2. Open(u, r) /\ UNCHANGED <<annotatorVars, projectVars, lockVars, goldVars>>
    BY <1>3 DEF OpenFinalize, r
  <2>3. QED
    BY <2>1, <2>2, RequestOnlyStep
<1>4. ASSUME NEW s \in Sentences, NEW b \in Decisions, OpenDecide(u, s, b)
      PROVE  IInv'
  <2> DEFINE r == [NoRequest EXCEPT !.op = "decide", !.finalized = finalized,
                                    !.choice = <<s, b>>]
  <2>1. <<s, b>> \in Sentences \X Decisions
    OBVIOUS
  <2>2. r \in Request /\ RequestOK(r)
    BY <1>1, <2>1 DEF NoRequest, Request, RequestOK, RecomputeOps
  <2> HIDE DEF r
  <2>3. Open(u, r) /\ UNCHANGED <<annotatorVars, projectVars, lockVars, goldVars>>
    BY <1>4 DEF OpenDecide, r
  <2>4. QED
    BY <2>2, <2>3, RequestOnlyStep
<1>5. OpenDetail(u) \/ OpenAuto(u) \/ OpenSweep(u) => IInv'
  BY <1>2 DEF OpenDetail, OpenAuto, OpenSweep, RecomputeOps
<1>6. QED
  BY <1>3, <1>4, <1>5

\* The votes a request reads are a table of ballots.
LEMMA VotesType ==
  ASSUME TypeOK
  PROVE  CurrentVotes \in VoteMaps
BY BallotsAreBallots DEF TypeOK, CurrentVotes, VoteMaps

\* Reading the votes, the readiness or the rows: the copy takes over the order of
\* the table it was read from.
LEMMA ReadingKeeps ==
  ASSUME IInv, NEW u \in Users, ReadVotes(u) \/ ReadReady(u) \/ ReadRows(u)
  PROVE  IInv'
<1>1. req[u] \in Request /\ RequestOK(req[u]) /\ TypeOK /\ RowsOK
  BY DEF IInv, TypeOK, RequestsOK, GoldOK
<1>2. CASE ReadVotes(u)
  <2> DEFINE r == [req[u] EXCEPT !.votes = CurrentVotes]
  <2>1. req[u].rows = Unread
    BY <1>1, <1>2 DEF ReadVotes, RequestOK
  <2>2. r \in Request
    BY <1>1, VotesType DEF Request
  <2>3. RequestOK(r)
    BY <1>1, <1>2, <2>1 DEF Request, RequestOK, ReadVotes, RecomputeOps
  <2> HIDE DEF r
  <2>4. Continue(u, r) /\ UNCHANGED <<annotatorVars, projectVars, lockVars, goldVars>>
    BY <1>2 DEF ReadVotes, r
  <2>5. QED
    BY <2>2, <2>3, <2>4, RequestOnlyStep
<1>3. CASE ReadReady(u)
  <2> DEFINE r == [req[u] EXCEPT !.ready = Ready]
  <2>1. req[u].rows = Unread
    BY <1>1, <1>3 DEF ReadReady, RequestOK
  <2>2. Ready \in BOOLEAN
    BY DEF Ready
  <2>3. r \in Request
    BY <1>1, <2>2 DEF Request
  <2>4. RequestOK(r)
    BY <1>1, <1>3, <2>1 DEF Request, RequestOK, ReadReady, RecomputeOps
  <2> HIDE DEF r
  <2>5. Continue(u, r) /\ UNCHANGED <<annotatorVars, projectVars, lockVars, goldVars>>
    BY <1>3 DEF ReadReady, r
  <2>6. QED
    BY <2>3, <2>4, <2>5, RequestOnlyStep
<1>4. CASE ReadRows(u)
  <2> DEFINE r == [req[u] EXCEPT !.rows = gold]
  <2>1. gold \in RowMaps
    BY <1>1 DEF TypeOK
  <2>2. r \in Request
    BY <1>1, <2>1 DEF Request
  <2>3. RequestOK(r)
    BY <1>1, <1>4 DEF Request, RequestOK, RowsOK, ReadRows, RecomputeOps
  <2> HIDE DEF r
  <2>4. Continue(u, r) /\ UNCHANGED <<annotatorVars, projectVars, lockVars, goldVars>>
    BY <1>4 DEF ReadRows, r
  <2>5. QED
    BY <2>2, <2>3, <2>4, RequestOnlyStep
<1>5. QED
  BY <1>2, <1>3, <1>4

\* Giving up a request that the row lock refuses.
LEMMA AbortingKeeps ==
  ASSUME IInv, NEW u \in Users,
         AbortRecompute(u) \/ AbortDecide(u) \/ AbortFinalize(u)
  PROVE  IInv'
<1>1. Continue(u, NoRequest)
      /\ UNCHANGED <<annotatorVars, projectVars, lockVars, goldVars>>
  BY DEF AbortRecompute, AbortDecide, AbortFinalize, Finish
<1>2. QED
  BY <1>1, NoRequestOK, RequestOnlyStep

\* What the locked part of a recompute starts from: a complete request, whose
\* rescored rows are rows in good order.
LEMMA RecomputeReady ==
  ASSUME IInv, NEW u \in Users, WriteRecompute(u), NEW s \in Sentences
  PROVE  LET r == req[u]
         IN /\ Rescored(r, s) \in Row
            /\ RowOK(Rescored(r, s))
            /\ IsHuman(r.rows[s]) => /\ IsHuman(Rescored(r, s))
                                     /\ HumanLabel(Rescored(r, s)) = HumanLabel(r.rows[s])
<1> DEFINE r == req[u]
<1>1. r \in Request /\ RequestOK(r) /\ r.op \in RecomputeOps /\ r.rows # Unread
  BY DEF IInv, TypeOK, RequestsOK, WriteRecompute
<1> HIDE DEF r
<1>2. r.rows \in RowMaps /\ r.votes \in VoteMaps /\ r.config \in Configs
  BY <1>1 DEF Request, RequestOK
<1>3. r.rows[s] # Unread => RowOK(r.rows[s])
  BY <1>1 DEF RequestOK
<1>4. QED
  BY <1>2, <1>3, RescoredOK DEF r

\* The write of a recompute: rows it changes are rescored rows, the others stay,
\* and if nothing overlapped the human rows among them carry the same labels.
LEMMA RecomputingKeeps ==
  ASSUME IInv, NEW u \in Users, WriteRecompute(u)
  PROVE  IInv'
<1> DEFINE r == req[u]
           rescored == [s \in Sentences |-> Rescored(r, s)]
<1>1. TypeOK /\ RequestsOK /\ RowsOK /\ HumanDecisionStands /\ gold \in RowMaps
  BY DEF IInv, GoldOK, TypeOK
<1>2. ~r.finalized
  BY <1>1 DEF RequestsOK, RequestOK, WriteRecompute
<1>3. /\ gold' = [s \in Sentences |->
                    IF rescored[s] # r.rows[s] THEN rescored[s] ELSE gold[s]]
      /\ status' = StatusFor(r.finalized, rescored)
      /\ pctResolved' = Cardinality(DecidedIn(rescored))
      /\ overlapped' = (overlapped \/ finalized \/ r.rows # gold)
      /\ Continue(u, NoRequest)
      /\ UNCHANGED <<annotatorVars, projectVars, lockVars, finalized, lastDecision>>
  BY DEF WriteRecompute, Finish
<1>4. /\ \A s \in Sentences : rescored[s] \in Row /\ RowOK(rescored[s])
      /\ \A s \in Sentences : IsHuman(r.rows[s]) =>
             /\ IsHuman(rescored[s])
             /\ HumanLabel(rescored[s]) = HumanLabel(r.rows[s])
  BY RecomputeReady
<1>5. rescored = [s \in Sentences |-> rescored[s]]
  OBVIOUS
<1> HIDE DEF r, rescored
<1>6. gold' \in RowMaps
  BY <1>1, <1>3, <1>4 DEF RowMaps
<1>7. TypeOK'
  <2>1. req' \in [Users -> Request] /\ opened' \in 0..MaxRequests
    BY <1>3, NoRequestOK, RequestStep
  <2>2. pctResolved' \in 0..Cardinality(Sentences) /\ status' \in Statuses
    BY <1>3, DecidedCount, StatusForType
  <2>3. overlapped' \in BOOLEAN
    BY <1>3
  <2>4. QED
    BY <1>1, <1>3, <1>6, <2>1, <2>2, <2>3
       DEF TypeOK, annotatorVars, projectVars, lockVars
<1>8. RequestsOK'
  BY <1>3, NoRequestOK, RequestStep
<1>9. RowsOK'
  BY <1>1, <1>3, <1>4 DEF RowsOK
<1>10. ASSUME ~overlapped'
       PROVE  ~overlapped /\ ~finalized /\ r.rows = gold /\ gold' = rescored
  <2>1. ~overlapped /\ ~finalized /\ r.rows = gold
    BY <1>1, <1>3, <1>10 DEF TypeOK
  <2>2. gold' = [s \in Sentences |-> rescored[s]]
    BY <1>3, <2>1
  <2>3. QED
    BY <1>5, <2>1, <2>2
<1>11. HumanDecisionStands'
  <2> SUFFICES ASSUME ~overlapped', NEW s \in Sentences, lastDecision'[s] # Unread
               PROVE  IsHuman(gold'[s]) /\ HumanLabel(gold'[s]) = lastDecision'[s]
    BY DEF HumanDecisionStands
  <2>1. IsHuman(gold[s]) /\ HumanLabel(gold[s]) = lastDecision[s]
    BY <1>1, <1>3, <1>10 DEF HumanDecisionStands
  <2>2. QED
    BY <1>3, <1>4, <1>10, <2>1
<1>12. FrozenGoldIsComplete'
  <2> SUFFICES ASSUME ~overlapped'
               PROVE  /\ ~finalized' /\ status' # "resolved"
                      /\ pctResolved' = Cardinality(DecidedIn(gold'))
    BY DEF FrozenGoldIsComplete
  <2>1. status' # "resolved"
    BY <1>2, <1>3 DEF StatusFor, r
  <2>2. QED
    BY <1>3, <1>10, <2>1
<1>13. QED
  BY <1>7, <1>8, <1>9, <1>11, <1>12 DEF IInv, GoldOK

\* The write of a decision: one row becomes a human row, recorded as such.
LEMMA DecidingKeeps ==
  ASSUME IInv, NEW u \in Users, WriteDecide(u)
  PROVE  IInv'
<1> DEFINE s == req[u].choice[1]
           b == req[u].choice[2]
           row == DecidedByHuman(RowAt(gold, s), b, u)
<1>1. TypeOK /\ RequestsOK /\ RowsOK /\ HumanDecisionStands
      /\ gold \in RowMaps /\ lastDecision \in [Sentences -> Label \cup {Unread}]
  BY DEF IInv, GoldOK, TypeOK
<1>2. /\ req[u].op = "decide"
      /\ ~finalized
      /\ gold' = [gold EXCEPT ![s] = row]
      /\ lastDecision' = [lastDecision EXCEPT ![s] = HumanLabel(row)]
      /\ status' = StatusFor(req[u].finalized, gold')
      /\ pctResolved' = Cardinality(DecidedIn(gold'))
      /\ overlapped' = (overlapped \/ req[u].finalized)
      /\ Continue(u, NoRequest)
      /\ UNCHANGED <<annotatorVars, projectVars, lockVars, finalized>>
  BY DEF WriteDecide, WriteDecideIf, Finish
<1>3. s \in Sentences /\ b \in Decisions
  BY <1>1, <1>2 DEF RequestsOK, RequestOK
<1>4. RowAt(gold, s) \in Row
  BY <1>1, <1>3, RowAtOK DEF RowsOK
<1>5. row \in Row /\ RowOK(row) /\ IsHuman(row) /\ HumanLabel(row) \in Label
  BY <1>3, <1>4, DecidedByHumanOK
<1>6. req[u].finalized \in BOOLEAN
  BY <1>1 DEF TypeOK, Request
<1> HIDE DEF s, b, row
<1>7. gold' \in RowMaps /\ \A x \in Sentences : gold'[x] = IF x = s THEN row ELSE gold[x]
  BY <1>1, <1>2, <1>3, <1>5 DEF RowMaps
<1>8. /\ lastDecision' \in [Sentences -> Label \cup {Unread}]
      /\ \A x \in Sentences :
           lastDecision'[x] = IF x = s THEN HumanLabel(row) ELSE lastDecision[x]
  BY <1>1, <1>2, <1>3, <1>5
<1>9. TypeOK'
  <2>1. req' \in [Users -> Request] /\ opened' \in 0..MaxRequests
    BY <1>2, NoRequestOK, RequestStep
  <2>2. pctResolved' \in 0..Cardinality(Sentences) /\ status' \in Statuses
    BY <1>2, DecidedCount, StatusForType
  <2>3. overlapped' \in BOOLEAN
    BY <1>1, <1>2, <1>6 DEF TypeOK
  <2>4. QED
    BY <1>1, <1>2, <1>7, <1>8, <2>1, <2>2, <2>3
       DEF TypeOK, annotatorVars, projectVars, lockVars
<1>10. RequestsOK'
  BY <1>2, NoRequestOK, RequestStep
<1>11. RowsOK'
  BY <1>1, <1>5, <1>7 DEF RowsOK
<1>12. ~overlapped' => ~overlapped /\ ~req[u].finalized
  BY <1>2
<1>13. HumanDecisionStands'
  BY <1>1, <1>5, <1>7, <1>8, <1>12 DEF HumanDecisionStands
<1>14. FrozenGoldIsComplete'
  <2> SUFFICES ASSUME ~overlapped'
               PROVE  ~finalized' /\ status' # "resolved"
    BY <1>2 DEF FrozenGoldIsComplete
  <2>1. QED
    BY <1>2, <1>12 DEF StatusFor
<1>15. QED
  BY <1>9, <1>10, <1>11, <1>13, <1>14 DEF IInv, GoldOK

\* The write of a finalization: every sentence is decided and the status follows.
LEMMA FinalizingKeeps ==
  ASSUME IInv, NEW u \in Users, WriteFinalize(u)
  PROVE  IInv'
<1>1. /\ DecidedIn(gold) = Sentences
      /\ finalized' = TRUE
      /\ status' = "resolved"
      /\ Continue(u, NoRequest)
      /\ UNCHANGED <<annotatorVars, projectVars, lockVars, pctResolved, gold,
                     lastDecision, overlapped>>
  BY DEF WriteFinalize, Finish
<1>2. RequestsOK' /\ req' \in [Users -> Request] /\ opened' \in 0..MaxRequests
  BY <1>1, NoRequestOK, RequestStep
<1>3. TypeOK'
  BY <1>1, <1>2
     DEF IInv, TypeOK, Statuses, annotatorVars, projectVars, lockVars
<1>4. DecidedIn(gold)' = DecidedIn(gold)
  BY <1>1 DEF DecidedIn, IsDecided
<1>5. GoldOK'
  BY <1>1, <1>4
     DEF IInv, GoldOK, RowsOK, HumanDecisionStands, FrozenGoldIsComplete
<1>6. QED
  BY <1>2, <1>3, <1>5 DEF IInv

\* Reopening realigns the status and the percentage with the rows.
LEMMA ReopeningKeeps ==
  ASSUME IInv, NEW u \in Users, Reopen(u)
  PROVE  IInv'
<1>1. /\ finalized' = FALSE
      /\ status' = StatusFor(FALSE, gold)
      /\ pctResolved' = Cardinality(DecidedIn(gold))
      /\ UNCHANGED <<annotatorVars, projectVars, lockVars, gold, lastDecision,
                     overlapped, requestVars>>
  BY DEF Reopen, ReopenedStatus
<1>2. status' \in Statuses /\ pctResolved' \in 0..Cardinality(Sentences)
  BY <1>1, DecidedCount, StatusForType
<1>3. status' # "resolved"
  BY <1>1 DEF StatusFor
<1>4. TypeOK'
  BY <1>1, <1>2
     DEF IInv, TypeOK, annotatorVars, projectVars, lockVars, requestVars
<1>5. RequestsOK'
  BY <1>1 DEF IInv, RequestsOK, requestVars
<1>6. DecidedIn(gold)' = DecidedIn(gold)
  BY <1>1 DEF DecidedIn, IsDecided
<1>7. GoldOK'
  BY <1>1, <1>3, <1>6
     DEF IInv, GoldOK, RowsOK, HumanDecisionStands, FrozenGoldIsComplete
<1>8. QED
  BY <1>4, <1>5, <1>7 DEF IInv

\* Every step keeps the inductive invariant.
LEMMA StepIInv == IInv /\ [Next]_vars => IInv'
<1> SUFFICES ASSUME IInv, [Next]_vars PROVE IInv'
  OBVIOUS
<1>1. CASE UNCHANGED vars
  <2>1. UNCHANGED goldVars
    BY <1>1 DEF vars
  <2>2. GoldOK'
    BY <2>1, GoldKept DEF IInv
  <2>3. TypeOK' /\ RequestsOK'
    BY <1>1 DEF IInv, TypeOK, RequestsOK, vars, annotatorVars, projectVars,
                lockVars, goldVars, requestVars
  <2>4. QED
    BY <2>2, <2>3 DEF IInv
<1>2. ASSUME NEW u \in Users, Recompute(u)
      PROVE  IInv'
  BY <1>2, OpeningKeeps, ReadingKeeps, RecomputingKeeps, AbortingKeeps DEF Recompute
<1>3. ASSUME NEW u \in Users, Arbitrate(u)
      PROVE  IInv'
  BY <1>3, OpeningKeeps, DecidingKeeps, FinalizingKeeps, ReopeningKeeps,
     AbortingKeeps DEF Arbitrate
<1>4. CASE Next
  BY <1>2, <1>3, <1>4, AroundKeeps DEF Next
<1>5. QED
  BY <1>1, <1>4

---------------------------------------------------------------------------
(* Theorems.                                                               *)

\* The inductive invariant holds in every reachable state.
THEOREM Invariance == Spec => []IInv
BY InitIInv, StepIInv, PTL DEF Spec

\* The database and the requests in flight keep their types: the number of
\* resolved sentences stays within the document, a lease within its length.
THEOREM TypeCorrect == Spec => []TypeOK
<1>1. IInv => TypeOK
  BY DEF IInv
<1>2. QED
  BY <1>1, Invariance, PTL

\* However recomputes and decisions interleave, an automatic label is the
\* proposal stored in the same row.
THEOREM AutoGoldCorrect == Spec => []AutoGoldIsTheProposal
<1>1. IInv => AutoGoldIsTheProposal
  BY DEF IInv, GoldOK, RowsOK, RowOK, AutoGoldIsTheProposal
<1>2. QED
  BY <1>1, Invariance, PTL

\* However recomputes and decisions interleave, the rows that name a decider are
\* the rows a human decided.
THEOREM DeciderCorrect == Spec => []DeciderIsNamed
<1>1. IInv => DeciderIsNamed
  BY DEF IInv, GoldOK, RowsOK, RowOK, DeciderIsNamed
<1>2. QED
  BY <1>1, Invariance, PTL

\* Human decisions are lost only through an overlap: as long as no recompute
\* writes from rows or over a gold that changed since it read them, every
\* sentence carries the last decision recorded about it.
THEOREM HumanDecisionsStand == Spec => []HumanDecisionStands
<1>1. IInv => HumanDecisionStands
  BY DEF IInv, GoldOK
<1>2. QED
  BY <1>1, Invariance, PTL

\* Under the same condition, a finalized gold is complete and its stored status
\* and percentage are those of its rows.
THEOREM FrozenGoldComplete == Spec => []FrozenGoldIsComplete
<1>1. IInv => FrozenGoldIsComplete
  BY DEF IInv, GoldOK
<1>2. QED
  BY <1>1, Invariance, PTL
---------------------------------------------------------------------------
(* Action properties and the refinement of the abstract lock.              *)

\* Which action of which user a step that writes the gold is.
LEMMA WhoWrites ==
  ASSUME [Next]_vars, gold' # gold \/ finalized' # finalized
  PROVE  \E u \in Users :
           WriteRecompute(u) \/ WriteDecide(u) \/ WriteFinalize(u) \/ Reopen(u)
<1>1. Next
  BY DEF vars, goldVars
<1>2. ~(UNCHANGED <<gold, finalized>>)
  OBVIOUS
<1>3. ~(\E a \in Annotators : EditVotes(a))
  BY <1>2 DEF EditVotes, Unlock, Reject, Submit, EditLate, goldVars
<1>4. ~(SaveConfig \/ ToggleProjectLock \/ LeaseTick)
  BY <1>2 DEF SaveConfig, ToggleProjectLock, LeaseTick, goldVars
<1>5. ~(\E u \in Users : UseLock(u))
  BY <1>2 DEF UseLock, AcquireLock, HeartbeatLock, ReleaseLock, StealLock,
              TakeLock, goldVars
<1>6. PICK u \in Users : Recompute(u) \/ Arbitrate(u)
  BY <1>1, <1>3, <1>4, <1>5 DEF Next
<1>7. CASE Recompute(u)
  BY <1>2, <1>7 DEF Recompute, OpenDetail, OpenAuto, OpenSweep, ReadVotes,
     ReadReady, ReadRows, AbortRecompute, goldVars
<1>8. CASE Arbitrate(u)
  BY <1>2, <1>8 DEF Arbitrate, OpenDecide, AbortDecide, OpenFinalize,
     AbortFinalize, goldVars
<1>9. QED
  BY <1>6, <1>7, <1>8

\* A request ends in its own step: a step of u leaves the requests of the others.
LEMMA OthersKeepTheirRequests ==
  ASSUME TypeOK, NEW u \in Users, NEW v \in Users, v # u, Finish(u)
  PROVE  req'[v] = req[v]
BY DEF TypeOK, Finish, Continue

\* Whatever overlaps, a human decision yields only to another decision on the same
\* sentence or to a recompute whose copy of the row is older than the decision.
THEOREM OnlyStaleReadsUndo == Spec => OnlyStaleReadsUndoDecisions
<1> DEFINE Explained(s) ==
      \E u \in Users :
        /\ req'[u] = NoRequest
        /\ \/ req[u].op = "decide" /\ req[u].choice[1] = s
           \/ /\ req[u].op \in RecomputeOps
              /\ Verdict(req[u].rows[s]) # Verdict(gold[s])
<1>1. ASSUME IInv, [Next]_vars, NEW s \in Sentences,
             Verdict(gold[s]) # {}, Verdict(gold'[s]) # Verdict(gold[s])
      PROVE  Explained(s)
  <2>1. PICK u \in Users :
          WriteRecompute(u) \/ WriteDecide(u) \/ WriteFinalize(u) \/ Reopen(u)
    BY <1>1, WhoWrites
  <2>2. ~(WriteFinalize(u) \/ Reopen(u))
    BY <1>1 DEF WriteFinalize, Reopen
  <2>3. req' = [req EXCEPT ![u] = NoRequest]
    BY <2>1, <2>2 DEF WriteRecompute, WriteDecide, WriteDecideIf, Finish, Continue
  <2>4. req'[u] = NoRequest
    BY <1>1, <2>3 DEF IInv, TypeOK
  <2>5. CASE WriteDecide(u)
    <3> DEFINE x == req[u].choice[1]
               row == DecidedByHuman(RowAt(gold, x), req[u].choice[2], u)
    <3>1. gold' = [gold EXCEPT ![x] = row] /\ req[u].op = "decide"
      BY <2>5 DEF WriteDecide, WriteDecideIf
    <3> HIDE DEF row
    <3>2. x = s
      BY <1>1, <3>1 DEF IInv, TypeOK, RowMaps
    <3>3. QED
      BY <2>4, <3>1, <3>2
  <2>6. CASE WriteRecompute(u)
    <3> DEFINE r == req[u]
    <3>1. /\ r.op \in RecomputeOps
          /\ r.rows # Unread
          /\ gold' = [x \in Sentences |->
                        IF Rescored(r, x) # r.rows[x] THEN Rescored(r, x) ELSE gold[x]]
      BY <2>6 DEF WriteRecompute
    <3>2. IsHuman(r.rows[s]) => Verdict(Rescored(r, s)) = Verdict(r.rows[s])
      BY <1>1, <2>6, RecomputeReady DEF Verdict
    <3> HIDE DEF r
    <3>3. gold'[s] = Rescored(r, s)
      BY <1>1, <3>1
    <3>4. Verdict(r.rows[s]) # Verdict(gold[s])
      BY <1>1, <3>2, <3>3 DEF Verdict
    <3>5. QED
      BY <2>4, <3>1, <3>4 DEF r
  <2>7. QED
    BY <2>1, <2>2, <2>5, <2>6
<1>2. IInv /\ [Next]_vars =>
        [\A s \in Sentences :
           Verdict(gold[s]) \notin {{}, Verdict(gold'[s])} => Explained(s)]_vars
  BY <1>1
<1>3. QED
  BY <1>2, Invariance, PTL DEF Spec, OnlyStaleReadsUndoDecisions

\* Whatever overlaps, a decision never changes a row of a finalized gold: only a
\* recompute that started before the finalization does.
THEOREM FrozenResistsDecisions == Spec => FrozenGoldResistsDecisions
<1> DEFINE Late == finalized /\ finalized' /\ gold' # gold =>
              \E u \in Users : req[u].op \in RecomputeOps /\ req'[u] = NoRequest
<1>1. ASSUME IInv, [Next]_vars, finalized, finalized', gold' # gold
      PROVE  \E u \in Users : req[u].op \in RecomputeOps /\ req'[u] = NoRequest
  <2>1. PICK u \in Users :
          WriteRecompute(u) \/ WriteDecide(u) \/ WriteFinalize(u) \/ Reopen(u)
    BY <1>1, WhoWrites
  <2>2. WriteRecompute(u)
    BY <1>1, <2>1 DEF WriteDecide, WriteDecideIf, WriteFinalize, Reopen
  <2>3. req[u].op \in RecomputeOps /\ req' = [req EXCEPT ![u] = NoRequest]
    BY <2>2 DEF WriteRecompute, Finish, Continue
  <2>4. req'[u] = NoRequest
    BY <1>1, <2>3 DEF IInv, TypeOK
  <2>5. QED
    BY <2>3, <2>4
<1>2. IInv /\ [Next]_vars => [Late]_vars
  BY <1>1
<1>3. QED
  BY <1>2, Invariance, PTL DEF Spec, FrozenGoldResistsDecisions

\* Whoever decides, auto-resolves or finalizes is not shut out by the lock at the
\* moment of writing, whatever happened to the lock since the request was opened.
THEOREM LockRespected == Spec => NobodyWritesUnderAnothersLock
<1>1. ASSUME IInv, [Next]_vars, NEW v \in Users,
             req[v].op \in {"decide", "auto", "finalize"},
             req'[v] = NoRequest,
             gold' # gold \/ finalized' # finalized
      PROVE  ~HeldByOther(v)
  <2>1. PICK u \in Users :
          WriteRecompute(u) \/ WriteDecide(u) \/ WriteFinalize(u) \/ Reopen(u)
    BY <1>1, WhoWrites
  <2>2. req'[v] # req[v]
    BY <1>1 DEF NoRequest
  <2>3. ~Reopen(u)
    BY <2>2 DEF Reopen, requestVars
  <2>4. Finish(u)
    BY <2>1, <2>3 DEF WriteRecompute, WriteDecide, WriteDecideIf, WriteFinalize
  <2>5. u = v
    BY <1>1, <2>2, <2>4, OthersKeepTheirRequests DEF IInv
  <2>6. CASE WriteRecompute(u)
    BY <1>1, <2>5, <2>6 DEF WriteRecompute, RecomputeOps
  <2>7. CASE WriteDecide(u) \/ WriteFinalize(u)
    BY <2>5, <2>7 DEF WriteDecide, WriteDecideIf, WriteFinalize
  <2>8. QED
    BY <2>1, <2>3, <2>6, <2>7
<1>2. IInv /\ [Next]_vars => [WritersNotLockedOut]_vars
  BY <1>1 DEF WritersNotLockedOut
<1>3. QED
  BY <1>2, Invariance, PTL DEF Spec, NobodyWritesUnderAnothersLock

\* The row with its lease implements the exclusive lock: the lock changes hands
\* only when it is free or when a lead takes it over.
THEOREM LockRefinement == Spec => LockSpec
<1> DEFINE mapped == IF LockActive THEN lockedBy ELSE NoUser
<1>1. Init => Lock!Init
  BY DEF Init, Lock!Init, LockActive
<1>2. ASSUME IInv, [Next]_vars
      PROVE  [Lock!Next]_mapped
  <2>1. lease \in 0..LeaseTicks /\ LeaseTicks \in Nat \ {0} /\ lockedBy \in Users \cup {NoUser}
    BY <1>2, BoundsAreNaturals DEF IInv, TypeOK
  <2>2. CASE UNCHANGED lockVars
    BY <2>2 DEF lockVars, LockActive
  <2>3. CASE LeaseTick
    BY <2>1, <2>3 DEF LeaseTick, LockActive, Lock!Next, Lock!Drop
  <2>4. ASSUME NEW u \in Users, AcquireLock(u)
        PROVE  [Lock!Next]_mapped
    BY <2>1, <2>4 DEF AcquireLock, HeldByOther, TakeLock, LockActive,
       Lock!Next, Lock!Take
  <2>5. ASSUME NEW u \in Users, HeartbeatLock(u)
        PROVE  [Lock!Next]_mapped
    BY <2>1, <2>5 DEF HeartbeatLock, LockActive
  <2>6. ASSUME NEW u \in Users, ReleaseLock(u)
        PROVE  [Lock!Next]_mapped
    BY <2>1, <2>6, RolesAreNested
       DEF ReleaseLock, HeldByOther, LockActive, Lock!Next, Lock!Drop
  <2>7. ASSUME NEW u \in Users, StealLock(u)
        PROVE  [Lock!Next]_mapped
    BY <2>1, <2>7, RolesAreNested
       DEF StealLock, TakeLock, LockActive, Lock!Next, Lock!TakeOver
  <2>8. CASE Next
    <3>1. ASSUME NEW u \in Users, UseLock(u)
          PROVE  [Lock!Next]_mapped
      BY <2>4, <2>5, <2>6, <2>7, <3>1 DEF UseLock
    <3>2. ASSUME NEW a \in Annotators, EditVotes(a)
          PROVE  UNCHANGED lockVars
      BY <3>2 DEF EditVotes, Unlock, Reject, Submit, EditLate, lockVars
    <3>3. SaveConfig \/ ToggleProjectLock => UNCHANGED lockVars
      BY DEF SaveConfig, ToggleProjectLock, lockVars
    <3>4. ASSUME NEW u \in Users, Recompute(u)
          PROVE  UNCHANGED lockVars
      BY <3>4 DEF Recompute, OpenDetail, OpenAuto, OpenSweep, ReadVotes,
         ReadReady, ReadRows, WriteRecompute, AbortRecompute, lockVars
    <3>5. ASSUME NEW u \in Users, Arbitrate(u)
          PROVE  UNCHANGED lockVars
      BY <3>5 DEF Arbitrate, OpenDecide, WriteDecide, WriteDecideIf, AbortDecide,
         OpenFinalize, WriteFinalize, AbortFinalize, Reopen,
         lockVars
    <3>6. QED
      BY <2>2, <2>3, <2>8, <3>1, <3>2, <3>3, <3>4, <3>5 DEF Next
  <2>9. CASE UNCHANGED vars
    BY <2>2, <2>9 DEF vars
  <2>10. QED
    BY <1>2, <2>8, <2>9
<1>3. IInv /\ [Next]_vars => [Lock!Next]_mapped
  BY <1>2
<1>4. QED
  BY <1>1, <1>3, Invariance, PTL DEF Spec, LockSpec, Lock!Spec

\* A sentence becomes automatic gold only on a complete set of submissions and on
\* at least two ballots, unless a single annotator was expected.
THEOREM LoneVoiceIsNotGold == Spec => AutoGoldNeedsVoices
<1> DEFINE Voiced ==
      \A s \in Sentences :
        (gold'[s] # gold[s] /\ gold'[s].auto) =>
          \E u \in Users :
            /\ req[u].rows # Unread
            /\ req'[u] = NoRequest
            /\ req[u].ready
            /\ 2 <= Cardinality(Covering(req[u].votes[s]))
               \/ Cardinality(Expected) = 1
<1>1. ASSUME IInv, IInv', [Next]_vars, NEW s \in Sentences,
             gold'[s] # gold[s], gold'[s].auto
      PROVE  \E u \in Users :
               /\ req[u].rows # Unread
               /\ req'[u] = NoRequest
               /\ req[u].ready
               /\ 2 <= Cardinality(Covering(req[u].votes[s]))
                  \/ Cardinality(Expected) = 1
  <2>1. PICK u \in Users :
          WriteRecompute(u) \/ WriteDecide(u) \/ WriteFinalize(u) \/ Reopen(u)
    BY <1>1, WhoWrites
  <2>2. ~(WriteFinalize(u) \/ Reopen(u))
    BY <1>1 DEF WriteFinalize, Reopen
  <2>3. ~WriteDecide(u)
    <3> SUFFICES ASSUME WriteDecide(u) PROVE FALSE
      OBVIOUS
    <3> DEFINE x == req[u].choice[1]
               row == DecidedByHuman(RowAt(gold, x), req[u].choice[2], u)
    <3>1. gold' = [gold EXCEPT ![x] = row] /\ req[u].op = "decide"
      BY DEF WriteDecide, WriteDecideIf
    <3>2. x \in Sentences /\ req[u].choice[2] \in Decisions
      BY <1>1, <3>1 DEF IInv, RequestsOK, RequestOK
    <3>3. RowAt(gold, x) \in Row
      BY <1>1, <3>2, RowAtOK DEF IInv, TypeOK, GoldOK, RowsOK
    <3>4. IsHuman(row)
      BY <3>2, <3>3, DecidedByHumanOK
    <3> HIDE DEF x, row
    <3>5. gold'[s] = row
      BY <1>1, <3>1, <3>2 DEF IInv, TypeOK, RowMaps
    <3>6. QED
      BY <1>1, <3>4, <3>5 DEF IsHuman
  <2>4. WriteRecompute(u)
    BY <2>1, <2>2, <2>3
  <2> DEFINE r == req[u]
  <2>5. /\ r \in Request /\ RequestOK(r) /\ r.op \in RecomputeOps
        /\ r.rows # Unread /\ r.rows \in RowMaps /\ r.votes \in VoteMaps
        /\ r.config \in Configs /\ (r.rows[s] # Unread => RowOK(r.rows[s]))
    BY <1>1, <2>4 DEF IInv, TypeOK, RequestsOK, WriteRecompute, RequestOK, Request
  <2>6. req'[u] = NoRequest
    BY <1>1, <2>4 DEF WriteRecompute, Finish, Continue, IInv, TypeOK
  <2>7. gold'[s] = Rescored(r, s)
    BY <1>1, <2>4 DEF WriteRecompute
  <2> HIDE DEF r
  <2>8. AutoOk(r, s)
    <3>1. RowAt(r.rows, s) \in Row /\ Proposed(r, s) \in Row
          /\ Proposed(r, s) = [RowAt(r.rows, s) EXCEPT !.proposal = Proposed(r, s).proposal]
      BY <2>5, RowAtOK, ProposedOK
    <3>2. CASE IsHuman(RowAt(r.rows, s))
      <4>1. Rescored(r, s) = Proposed(r, s)
        BY <3>2 DEF Rescored
      <4>2. Proposed(r, s).auto = RowAt(r.rows, s).auto
        BY <3>1 DEF Row
      <4>3. QED
        BY <1>1, <2>7, <3>2, <4>1, <4>2 DEF IsHuman
    <3>3. CASE ~IsHuman(RowAt(r.rows, s)) /\ ~AutoOk(r, s)
      <4>1. Rescored(r, s) = LeftToArbiters(Proposed(r, s))
        BY <3>3 DEF Rescored
      <4>2. QED
        BY <1>1, <2>7, <3>1, <4>1 DEF LeftToArbiters, Row
    <3>4. QED
      BY <3>2, <3>3
  <2>9. r.ready /\ Cardinality(Covering(r.votes[s])) >= MinCovering
    BY <2>8 DEF AutoOk, AllowsAuto
  <2>10. Cardinality(Expected) \in Nat \ {0} /\ Cardinality(Covering(r.votes[s])) \in Nat
    <3>1. IsFiniteSet(Expected) /\ Expected # {}
      BY ExpectedAnnotate, AnnotatorsFinite, FS_Subset
    <3>2. IsFiniteSet(Covering(r.votes[s]))
      BY AnnotatorsFinite, FS_Subset DEF Covering
    <3>3. QED
      BY <3>1, <3>2, FS_CardinalityType, FS_EmptySet
  <2>11. 2 <= Cardinality(Covering(r.votes[s])) \/ Cardinality(Expected) = 1
    BY <2>9, <2>10 DEF MinCovering
  <2>12. QED
    BY <2>5, <2>6, <2>9, <2>11 DEF r
<1>2. IInv /\ IInv' /\ [Next]_vars => [Voiced]_vars
  BY <1>1
<1>3. QED
  BY <1>2, Invariance, PTL DEF Spec, AutoGoldNeedsVoices
=============================================================================
