-------------------------- MODULE GoldArbitration --------------------------
(***************************************************************************)
(* The gold arbitration of one document (backend/claire/gold/services.py   *)
(* and the gold endpoints of projects/views.py).                           *)
(*                                                                         *)
(* Annotators submit, and reopen, their annotation of the document.  Any   *)
(* member may open the workshop, which recomputes the proposals; arbiters  *)
(* decide sentences, force the auto-resolution, re-apply the configuration *)
(* and finalize the gold; leads reopen it.  An arbitration lock with an    *)
(* expiring lease keeps two arbiters apart.                                *)
(*                                                                         *)
(* No request runs in a transaction as a whole: it reads the resolution,   *)
(* the project, the votes and the rows one query at a time, and only its   *)
(* last step holds the row lock of the resolution.  A request in flight is *)
(* req[u], with what it has read so far; each query is an action.          *)
(***************************************************************************)
EXTENDS GoldScoring

CONSTANTS
  Users,        \* members that may open the workshop
  Arbiters,     \* members for whom is_arbiter holds
  Leads,        \* leads and administrators
  NoUser,       \* no lock holder, no decider
  Expected,     \* annotators whose submission the document awaits
  Sentences,    \* the sentences of the document
  Ballots,      \* the ballots an annotator may cast on a sentence
  Configs,      \* the resolution configurations the leads may save
  Unread,       \* what a request has not read yet
  LeaseTicks,   \* periods a lease lasts without a heartbeat
  MaxRevisions, \* bound on the resubmissions of annotators
  MaxRequests   \* bound on the recomputes, decisions and finalizations asked

ASSUME RolesAreNested ==
  /\ Arbiters \subseteq Users
  /\ Leads \subseteq Arbiters
  /\ NoUser \notin Users
ASSUME DocumentHasSentences == Sentences # {} /\ IsFiniteSet(Sentences)
ASSUME ExpectedAnnotate == Expected \subseteq Annotators /\ Expected # {}
ASSUME BallotsAreBallots == Abstention \in Ballots /\ Ballots \subseteq Ballot
ASSUME ConfigsType ==
  /\ Configs # {}
  /\ Configs \subseteq [weight: [Annotators -> Nat], secondaryMin: Nat,
                        absoluteAgreement: BOOLEAN, majority: BOOLEAN,
                        promoteSecondaries: BOOLEAN]
ASSUME BoundsAreNaturals ==
  /\ LeaseTicks \in Nat \ {0}
  /\ MaxRevisions \in Nat
  /\ MaxRequests \in Nat

VARIABLES
  vote,          \* vote[a][s]: the ballot of annotator a on sentence s
  submitted,     \* annotators whose annotation has a counted status
  revisions,     \* resubmissions so far (bounded by MaxRevisions)
  config,        \* Project.settings["resolution"]
  projectLocked, \* Project.locked
  finalized,     \* GoldResolution.finalized_at is not null
  status,        \* GoldResolution.status, as stored
  pctResolved,   \* GoldResolution.pct_resolved, as a number of sentences
  lockedBy,      \* GoldResolution.locked_by
  lease,         \* periods left before lock_expires_at (0: free or expired)
  gold,          \* gold[s]: the GoldSentence row of s, or Unread if none
  lastDecision,  \* lastDecision[s]: last DECIDE/OVERRIDE event about s
  opened,        \* requests asked so far (bounded by MaxRequests)
  req,           \* req[u]: the request of user u in flight
  overlapped     \* history: a write relied on a row another write had changed

annotatorVars == <<vote, submitted, revisions>>
projectVars   == <<config, projectLocked>>
lockVars      == <<lockedBy, lease>>
goldVars      == <<finalized, status, pctResolved, gold, lastDecision, overlapped>>
requestVars   == <<opened, req>>
vars == <<annotatorVars, projectVars, lockVars, goldVars, requestVars>>

---------------------------------------------------------------------------
(* Rows and requests.                                                      *)

Statuses == {"unresolved", "in_progress", "resolved"}
Decisions == {b \in Ballots : b.primary # NoTheme}
VoteMaps == [Sentences -> [Annotators -> Ballots]]
NobodyVoted == [a \in Annotators |-> Abstention]

\* A proposal is whatever the engine can answer.
Proposals == {Score(b, c) : b \in [Annotators -> Ballots], c \in Configs}
NoProposal == Score(NobodyVoted, CHOOSE c \in Configs : TRUE)

Row == [proposal: Proposals \cup {NoProposal},
        decided: BOOLEAN, auto: BOOLEAN,
        primary: Themes \cup {NoTheme}, secondaries: SUBSET Themes,
        by: Users \cup {NoUser}]
RowMaps == [Sentences -> Row \cup {Unread}]
ASSUME UnreadIsNoRow == Unread \notin Row

\* get_or_create of a row the recompute has not materialised yet.
FreshRow == [proposal |-> NoProposal, decided |-> FALSE, auto |-> FALSE,
             primary |-> NoTheme, secondaries |-> {}, by |-> NoUser]

RowAt(rows, s) == IF rows[s] = Unread THEN FreshRow ELSE rows[s]
IsDecided(row) == row # Unread /\ row.decided
IsHuman(row) == row # Unread /\ row.decided /\ ~row.auto
DecidedIn(rows) == {s \in Sentences : IsDecided(rows[s])}

\* What a DECIDE or OVERRIDE event records about a sentence.
Label == [primary: Themes \cup {NoTheme}, secondaries: SUBSET Themes, by: Users \cup {NoUser}]
HumanLabel(row) ==
  [primary |-> row.primary, secondaries |-> row.secondaries, by |-> row.by]

RecomputeOps == {"detail", "auto", "sweep"}
Request ==
  [op: {"none", "decide", "finalize"} \cup RecomputeOps,
   finalized: BOOLEAN,                         \* the copy of the resolution
   config: Configs \cup {Unread},              \* the copy of the project
   ready: BOOLEAN \cup {Unread},
   votes: VoteMaps \cup {Unread},
   rows: RowMaps \cup {Unread},
   choice: (Sentences \X Decisions) \cup {Unread}]

NoRequest == [op |-> "none", finalized |-> FALSE, config |-> Unread,
              ready |-> Unread, votes |-> Unread, rows |-> Unread,
              choice |-> Unread]

Idle(u) == req[u].op = "none"
Open(u, r) ==
  /\ opened < MaxRequests
  /\ opened' = opened + 1
  /\ req' = [req EXCEPT ![u] = r]
Continue(u, r) == req' = [req EXCEPT ![u] = r] /\ UNCHANGED opened
Finish(u) == Continue(u, NoRequest)

---------------------------------------------------------------------------
(* What the queries of a request return.                                   *)

\* resolution_readiness: every expected annotator has submitted.
Ready == Expected \subseteq submitted

\* build_document_data: only submitted annotations vote.
CurrentVotes ==
  [s \in Sentences |->
     [a \in Annotators |-> IF a \in submitted THEN vote[a][s] ELSE Abstention]]

\* _assert_holder and _lock_active: another arbiter's lease is running.
LockActive == lease > 0
HeldByOther(u) == LockActive /\ lockedBy # u

\* _refresh_status, given the caller's copy of finalized_at.
StatusFor(sawFinalized, rows) ==
  IF sawFinalized THEN "resolved"
  ELSE IF DecidedIn(rows) # {} THEN "in_progress" ELSE "unresolved"

---------------------------------------------------------------------------
(* Annotators and leads.                                                   *)

\* POST /annotations/:id/unlock on a submitted annotation: back to draft.
Unlock(a) ==
  /\ a \in submitted
  /\ ~projectLocked
  /\ submitted' = submitted \ {a}
  /\ UNCHANGED <<vote, revisions, projectVars, lockVars, goldVars, requestVars>>

\* POST /annotations/:id/reviews with a rejection: the status no longer counts.
\* Reviews are not stopped by the lock of the project.
Reject(a) ==
  /\ a \in submitted
  /\ submitted' = submitted \ {a}
  /\ UNCHANGED <<vote, revisions, projectVars, lockVars, goldVars, requestVars>>

\* A clause write that found the draft unlocked lands after the submission (see
\* AnnotationLifecycle): the vote of a submitted annotation changes.
EditLate(a) ==
  /\ a \in submitted
  /\ revisions < MaxRevisions
  /\ \E s \in Sentences, b \in Ballots : vote' = [vote EXCEPT ![a][s] = b]
  /\ revisions' = revisions + 1
  /\ UNCHANGED <<submitted, projectVars, lockVars, goldVars, requestVars>>

\* POST /annotations/:id/submit, after editing the draft at leisure.
Submit(a) ==
  /\ a \notin submitted
  /\ ~projectLocked
  /\ revisions < MaxRevisions
  /\ \E b \in [Sentences -> Ballots] :
       /\ \E s \in Sentences : b[s] # Abstention
       /\ vote' = [vote EXCEPT ![a] = b]
  /\ submitted' = submitted \cup {a}
  /\ revisions' = revisions + 1
  /\ UNCHANGED <<projectVars, lockVars, goldVars, requestVars>>

\* PATCH gold/config.
SaveConfig ==
  /\ ~projectLocked
  /\ config' \in Configs
  /\ UNCHANGED <<annotatorVars, projectLocked, lockVars, goldVars, requestVars>>

\* An administrator freezes or releases the whole campaign.
ToggleProjectLock ==
  /\ projectLocked' = ~projectLocked
  /\ UNCHANGED <<annotatorVars, config, lockVars, goldVars, requestVars>>

---------------------------------------------------------------------------
(* The arbitration lock.  Each endpoint is one transaction under the row   *)
(* lock; a refused call changes nothing.                                   *)

TakeLock(u) ==
  /\ lockedBy' = u
  /\ lease' = LeaseTicks
  /\ UNCHANGED <<annotatorVars, projectVars, goldVars, requestVars>>

\* Mutant of AcquireLock: a running lease of another arbiter is not respected.
AcquireHeldLock(u) == u \in Arbiters /\ ~projectLocked /\ TakeLock(u)

AcquireLock(u) ==
  /\ u \in Arbiters
  /\ ~projectLocked
  /\ ~HeldByOther(u)
  /\ TakeLock(u)

HeartbeatLock(u) ==
  /\ u \in Arbiters
  /\ ~projectLocked
  /\ LockActive
  /\ lockedBy = u
  /\ lease' = LeaseTicks
  /\ UNCHANGED <<annotatorVars, projectVars, lockedBy, goldVars, requestVars>>

ReleaseLock(u) ==
  /\ u \in Arbiters
  /\ ~HeldByOther(u)
  /\ lockedBy' = NoUser
  /\ lease' = 0
  /\ UNCHANGED <<annotatorVars, projectVars, goldVars, requestVars>>

StealLock(u) ==
  /\ u \in Leads
  /\ ~projectLocked
  /\ TakeLock(u)

\* Mutant of LeaseTick: the countdown does not stop at zero.
LeaseTickForever ==
  /\ lockedBy # NoUser
  /\ lease' = lease - 1
  /\ UNCHANGED <<annotatorVars, projectVars, lockedBy, goldVars, requestVars>>

\* Time passes.  When the lease runs out, locked_by stays but no longer counts.
LeaseTick ==
  /\ LockActive
  /\ lease' = lease - 1
  /\ UNCHANGED <<annotatorVars, projectVars, lockedBy, goldVars, requestVars>>

---------------------------------------------------------------------------
(* The recompute, behind three endpoints: opening the workshop (detail),   *)
(* auto-resolve (auto) and re-applying the configuration (sweep).          *)

\* _gold_ctx and get_object: copies of the resolution and of the project.
\* recompute_document and recompute_project stop at a finalized copy.
OpenDetail(u) ==
  /\ Idle(u)
  /\ ~finalized
  /\ Open(u, [NoRequest EXCEPT !.op = "detail", !.config = config])
  /\ UNCHANGED <<annotatorVars, projectVars, lockVars, goldVars>>

OpenAuto(u) ==
  /\ Idle(u)
  /\ u \in Arbiters
  /\ ~projectLocked
  /\ Ready
  /\ ~finalized
  /\ Open(u, [NoRequest EXCEPT !.op = "auto", !.config = config])
  /\ UNCHANGED <<annotatorVars, projectVars, lockVars, goldVars>>

OpenSweep(u) ==
  /\ Idle(u)
  /\ u \in Arbiters
  /\ ~projectLocked
  /\ ~finalized
  /\ ~HeldByOther(u)
  /\ Ready
  /\ Open(u, [NoRequest EXCEPT !.op = "sweep", !.config = config])
  /\ UNCHANGED <<annotatorVars, projectVars, lockVars, goldVars>>

\* The workshop builds the votes before the recompute tests the readiness;
\* the two other callers leave it to the recompute, after the readiness.
ReadVotes(u) ==
  /\ req[u].op \in RecomputeOps
  /\ req[u].votes = Unread
  /\ req[u].op = "detail" \/ req[u].ready # Unread
  /\ Continue(u, [req[u] EXCEPT !.votes = CurrentVotes])
  /\ UNCHANGED <<annotatorVars, projectVars, lockVars, goldVars>>

ReadReady(u) ==
  /\ req[u].op \in RecomputeOps
  /\ req[u].ready = Unread
  /\ req[u].op = "detail" => req[u].votes # Unread
  /\ Continue(u, [req[u] EXCEPT !.ready = Ready])
  /\ UNCHANGED <<annotatorVars, projectVars, lockVars, goldVars>>

\* `existing`, read before the row lock is taken.
ReadRows(u) ==
  /\ req[u].op \in RecomputeOps
  /\ req[u].votes # Unread
  /\ req[u].ready # Unread
  /\ req[u].rows = Unread
  /\ Continue(u, [req[u] EXCEPT !.rows = gold])
  /\ UNCHANGED <<annotatorVars, projectVars, lockVars, goldVars>>

\* Mutant of MinCovering: one ballot is always an agreement.
LoneVoiceAgrees == 1

\* One voice is an agreement only where one voice was expected.
MinCovering == IF Cardinality(Expected) >= 2 THEN 2 ELSE 1

AllowsAuto(r, level) ==
  /\ r.ready
  /\ \/ level = "auto_1click" /\ r.config.absoluteAgreement
     \/ level = "auto" /\ r.config.majority

\* The proposal decided without an arbiter, and a row left to the arbiters.
AutoDecided(row, r) ==
  [row EXCEPT !.decided = TRUE, !.auto = TRUE, !.by = NoUser,
              !.primary = row.proposal.primary,
              !.secondaries = IF r.config.promoteSecondaries
                              THEN row.proposal.secondaries ELSE {}]
LeftToArbiters(row) ==
  [row EXCEPT !.decided = FALSE, !.auto = FALSE,
              !.primary = NoTheme, !.secondaries = {}]

Proposed(r, s) ==
  [RowAt(r.rows, s) EXCEPT !.proposal = Score(r.votes[s], r.config)]
AutoOk(r, s) ==
  /\ Proposed(r, s).proposal.primary \in Themes
  /\ AllowsAuto(r, Proposed(r, s).proposal.level)
  /\ Cardinality(Covering(r.votes[s])) >= MinCovering

\* Mutant of Rescored: whatever is decided, even automatically, is kept.
RescoredKeepingAuto(r, s) ==
  CASE IsDecided(RowAt(r.rows, s)) -> Proposed(r, s)
    [] AutoOk(r, s) -> AutoDecided(Proposed(r, s), r)
    [] OTHER -> LeftToArbiters(Proposed(r, s))

\* Mutant of Rescored: a row a human decided is decided again like the others.
RescoredAlike(r, s) ==
  IF AutoOk(r, s) THEN AutoDecided(Proposed(r, s), r) ELSE LeftToArbiters(Proposed(r, s))

\* One turn of the loop of recompute_document, on the row it had read: the
\* proposal is refreshed, and decided again unless a human decided the row.
Rescored(r, s) ==
  CASE IsHuman(RowAt(r.rows, s)) -> Proposed(r, s)
    [] ~IsHuman(RowAt(r.rows, s)) /\ AutoOk(r, s) -> AutoDecided(Proposed(r, s), r)
    [] OTHER -> LeftToArbiters(Proposed(r, s))

\* Inserting a row another request has inserted meanwhile violates the
\* unique constraint: the transaction rolls back.
InsertCollides(r) == \E s \in Sentences : r.rows[s] = Unread /\ gold[s] # Unread

\* The locked part of recompute_document.  Only rows that differ from what
\* was read are saved, each as a whole; the lock is tested for "auto" only.
WriteRecompute(u) ==
  LET r        == req[u]
      rescored == [s \in Sentences |-> Rescored(r, s)]
  IN /\ r.op \in RecomputeOps
     /\ r.rows # Unread
     /\ r.op = "auto" => ~HeldByOther(u)
     /\ ~InsertCollides(r)
     /\ gold' = [s \in Sentences |->
                   IF rescored[s] # r.rows[s] THEN rescored[s] ELSE gold[s]]
     /\ status' = StatusFor(r.finalized, rescored)
     /\ pctResolved' = Cardinality(DecidedIn(rescored))
     /\ overlapped' = (overlapped \/ finalized \/ r.rows # gold)
     /\ Finish(u)
     /\ UNCHANGED <<annotatorVars, projectVars, lockVars, finalized, lastDecision>>

\* 409: another arbiter holds the lock; 500: the insertion collided.
AbortRecompute(u) ==
  /\ req[u].op \in RecomputeOps
  /\ req[u].rows # Unread
  /\ \/ req[u].op = "auto" /\ HeldByOther(u)
     \/ InsertCollides(req[u])
  /\ Finish(u)
  /\ UNCHANGED <<annotatorVars, projectVars, lockVars, goldVars>>

---------------------------------------------------------------------------
(* Deciding a sentence, finalizing and reopening the gold.                 *)

OpenDecide(u, s, b) ==
  /\ Idle(u)
  /\ u \in Arbiters
  /\ ~projectLocked
  /\ Ready
  /\ Open(u, [NoRequest EXCEPT !.op = "decide", !.finalized = finalized,
                                !.choice = <<s, b>>])
  /\ UNCHANGED <<annotatorVars, projectVars, lockVars, goldVars>>

\* Mutant of DecidedByHuman: the row keeps its auto_resolved flag.
DecidedStillAuto(row, b, u) ==
  [row EXCEPT !.decided = TRUE, !.primary = b.primary,
              !.secondaries = b.secondaries \ {b.primary}, !.by = u]

DecidedByHuman(row, b, u) ==
  [row EXCEPT !.decided = TRUE, !.auto = FALSE, !.primary = b.primary,
              !.secondaries = b.secondaries \ {b.primary}, !.by = u]

\* The locked part of decide_sentence; the status is refreshed from the copy.
WriteDecideIf(u, allowed) ==
  LET s   == req[u].choice[1]
      row == DecidedByHuman(RowAt(gold, s), req[u].choice[2], u)
  IN /\ req[u].op = "decide"
     /\ allowed
     /\ gold' = [gold EXCEPT ![s] = row]
     /\ lastDecision' = [lastDecision EXCEPT ![s] = HumanLabel(row)]
     /\ status' = StatusFor(req[u].finalized, gold')
     /\ pctResolved' = Cardinality(DecidedIn(gold'))
     /\ overlapped' = (overlapped \/ req[u].finalized)
     /\ Finish(u)
     /\ UNCHANGED <<annotatorVars, projectVars, lockVars, finalized>>

\* Mutants of WriteDecide: the copy of the resolution is tested instead of the
\* locked row; the holder of the lock is not tested.
WriteDecideOnCopy(u) == WriteDecideIf(u, ~req[u].finalized /\ ~HeldByOther(u))
WriteDecideUnlocked(u) == WriteDecideIf(u, ~finalized)

WriteDecide(u) == WriteDecideIf(u, ~finalized /\ ~HeldByOther(u))

AbortDecide(u) ==
  /\ req[u].op = "decide"
  /\ finalized \/ HeldByOther(u)
  /\ Finish(u)
  /\ UNCHANGED <<annotatorVars, projectVars, lockVars, goldVars>>

\* The readiness is tested before the row lock is taken.
OpenFinalize(u) ==
  /\ Idle(u)
  /\ u \in Arbiters
  /\ ~projectLocked
  /\ Ready
  /\ Open(u, [NoRequest EXCEPT !.op = "finalize"])
  /\ UNCHANGED <<annotatorVars, projectVars, lockVars, goldVars>>

WriteFinalize(u) ==
  /\ req[u].op = "finalize"
  /\ ~finalized
  /\ ~HeldByOther(u)
  /\ DecidedIn(gold) = Sentences
  /\ finalized' = TRUE
  /\ status' = "resolved"
  /\ Finish(u)
  /\ UNCHANGED <<annotatorVars, projectVars, lockVars, pctResolved, gold,
                 lastDecision, overlapped>>

\* Already finalized (answered as is), held by another, or sentences left.
AbortFinalize(u) ==
  /\ req[u].op = "finalize"
  /\ finalized \/ HeldByOther(u) \/ DecidedIn(gold) # Sentences
  /\ Finish(u)
  /\ UNCHANGED <<annotatorVars, projectVars, lockVars, goldVars>>

\* Mutant of ReopenedStatus: the stored status is not realigned.
StatusKept == status
ReopenedStatus == StatusFor(FALSE, gold)

\* Unconditional under the row lock: neither the holder nor the state is tested.
Reopen(u) ==
  /\ u \in Leads
  /\ ~projectLocked
  /\ finalized' = FALSE
  /\ status' = ReopenedStatus
  /\ pctResolved' = Cardinality(DecidedIn(gold))
  /\ UNCHANGED <<annotatorVars, projectVars, lockVars, gold, lastDecision,
                 overlapped, requestVars>>

---------------------------------------------------------------------------
Init ==
  /\ vote \in [Annotators -> [Sentences -> Ballots]]
  /\ submitted \in SUBSET Annotators
  /\ revisions = 0
  /\ config \in Configs
  /\ projectLocked = FALSE
  /\ finalized = FALSE
  /\ status = "unresolved"
  /\ pctResolved = 0
  /\ lockedBy = NoUser
  /\ lease = 0
  /\ gold = [s \in Sentences |-> Unread]
  /\ lastDecision = [s \in Sentences |-> Unread]
  /\ opened = 0
  /\ req = [u \in Users |-> NoRequest]
  /\ overlapped = FALSE

EditVotes(a) == Unlock(a) \/ Reject(a) \/ Submit(a) \/ EditLate(a)

Recompute(u) ==
  \/ OpenDetail(u) \/ OpenAuto(u) \/ OpenSweep(u)
  \/ ReadVotes(u) \/ ReadReady(u) \/ ReadRows(u)
  \/ WriteRecompute(u) \/ AbortRecompute(u)

Arbitrate(u) ==
  \/ \E s \in Sentences, b \in Decisions : OpenDecide(u, s, b)
  \/ WriteDecide(u) \/ AbortDecide(u)
  \/ OpenFinalize(u) \/ WriteFinalize(u) \/ AbortFinalize(u)
  \/ Reopen(u)

UseLock(u) ==
  AcquireLock(u) \/ HeartbeatLock(u) \/ ReleaseLock(u) \/ StealLock(u)

Next ==
  \/ \E a \in Annotators : EditVotes(a)
  \/ SaveConfig \/ ToggleProjectLock \/ LeaseTick
  \/ \E u \in Users : Recompute(u) \/ Arbitrate(u) \/ UseLock(u)

Spec == Init /\ [][Next]_vars

---------------------------------------------------------------------------
(* Properties.                                                             *)

\* Types of the database state and of the requests in flight.
TypeOK ==
  /\ vote \in [Annotators -> [Sentences -> Ballots]]
  /\ submitted \subseteq Annotators
  /\ revisions \in 0..MaxRevisions
  /\ config \in Configs
  /\ projectLocked \in BOOLEAN
  /\ finalized \in BOOLEAN
  /\ status \in Statuses
  /\ pctResolved \in 0..Cardinality(Sentences)
  /\ lockedBy \in Users \cup {NoUser}
  /\ lease \in 0..LeaseTicks
  /\ opened \in 0..MaxRequests
  /\ gold \in RowMaps
  /\ lastDecision \in [Sentences -> Label \cup {Unread}]
  /\ req \in [Users -> Request]
  /\ overlapped \in BOOLEAN

\* An automatic label is the proposal of its row, at a level the engine may write.
RowSupportsItsLabel(row) ==
  row.auto => /\ row.decided
              /\ row.by = NoUser
              /\ row.proposal.level \in AutoLevels
              /\ row.primary = row.proposal.primary
              /\ row.primary # NoTheme
              /\ row.secondaries \subseteq row.proposal.secondaries

\* An automatically decided row carries exactly what the engine proposes in that
\* same row: a row is only ever saved whole, so no interleaving of recomputes and
\* decisions leaves an automatic label next to evidence that does not support it.
AutoGoldIsTheProposal ==
  \A s \in Sentences : gold[s] # Unread => RowSupportsItsLabel(gold[s])

\* A row names its decider exactly when a human decided it: no interleaving
\* leaves a decided_by on a row the engine decided or un-decided.
DeciderIsNamed ==
  \A s \in Sentences : gold[s] # Unread => (IsHuman(gold[s]) <=> gold[s].by # NoUser)

\* A human decision stands as last recorded, as long as no recompute has written
\* from rows, or over a gold, that changed after it had read them.
HumanDecisionStands ==
  ~overlapped =>
    \A s \in Sentences :
      lastDecision[s] # Unread =>
        IsHuman(gold[s]) /\ HumanLabel(gold[s]) = lastDecision[s]

\* Under the same condition a finalized gold has every sentence decided and its
\* stored status and percentage are those of its rows.
FrozenGoldIsComplete ==
  ~overlapped =>
    /\ finalized => DecidedIn(gold) = Sentences
    /\ finalized <=> status = "resolved"
    /\ pctResolved = Cardinality(DecidedIn(gold))

\* The decision an arbiter made on a row, if one did.
Verdict(row) == IF IsHuman(row) THEN {HumanLabel(row)} ELSE {}

\* Whatever overlaps, a human decision on a sentence yields only to another
\* decision on that sentence, or to a recompute that read the row before the
\* decision was made.  A recompute that saw the decision leaves it as it is,
\* although it saves whole rows, and so do finalizing and reopening: a stale read
\* is all that can lose a decision, and HumanDecisionSacred shows that it does.
OnlyStaleReadsUndoDecisions ==
  [][\A s \in Sentences :
       Verdict(gold[s]) \notin {{}, Verdict(gold'[s])} =>
         \E u \in Users :
           /\ req'[u] = NoRequest
           /\ \/ req[u].op = "decide" /\ req[u].choice[1] = s
              \/ /\ req[u].op \in RecomputeOps
                 /\ Verdict(req[u].rows[s]) # Verdict(gold[s])]_vars

\* Whatever overlaps, only a recompute that read the resolution before it was
\* finalized changes a row of a finalized gold: a decision never does.
FrozenGoldResistsDecisions ==
  [][finalized /\ finalized' /\ gold' # gold =>
       \E u \in Users : req[u].op \in RecomputeOps /\ req'[u] = NoRequest]_vars

\* A user whose exclusive request ends by a write was not locked out.
WritersNotLockedOut ==
  \A u \in Users :
    /\ req[u].op \in {"decide", "auto", "finalize"}
    /\ req'[u] = NoRequest
    /\ gold' # gold \/ finalized' # finalized
    => ~HeldByOther(u)

\* Whoever decides, auto-resolves or finalizes does so while no other arbiter's
\* lease is running, although the lock may change hands while a request waits.
NobodyWritesUnderAnothersLock == [][WritersNotLockedOut]_vars

\* A sentence becomes automatic gold only on a complete set of submissions, as
\* tested by the request, and on two voices where two are expected: one lone
\* ballot is unanimous for the engine and must not pass for an agreement.
AutoGoldNeedsVoices ==
  [][\A s \in Sentences :
       (gold'[s] # gold[s] /\ gold'[s].auto) =>
         \E u \in Users :
           /\ req[u].rows # Unread
           /\ req'[u] = NoRequest
           /\ req[u].ready
           /\ 2 <= Cardinality(Covering(req[u].votes[s]))
              \/ Cardinality(Expected) = 1]_vars

\* The row with its lease implements the abstract exclusive lock.
Lock == INSTANCE ArbitrationLock
          WITH Nobody <- NoUser, holder <- IF LockActive THEN lockedBy ELSE NoUser
LockSpec == Lock!Spec

---------------------------------------------------------------------------
(* What the documentation of the code promises and an interleaving breaks. *)

\* gold/models.py: a recompute never overwrites a human decision.
HumanDecisionSacred ==
  \A s \in Sentences : lastDecision[s] # Unread => IsHuman(gold[s])

\* recompute_document: a finalized gold is frozen, whatever the votes do.
FinalizedGoldIsFrozen ==
  [][finalized /\ finalized' => gold' = gold]_vars

\* _refresh_status: only finalize_resolution sets the status "resolved".
ResolvedOnlyByFinalize == status = "resolved" => finalized
=============================================================================
