------------------------ MODULE AnnotationLifecycle ------------------------
(***************************************************************************)
(* One annotator's annotation of one document: its status machine, its two *)
(* locks, its clauses, its versions and the assignment that mirrors it     *)
(* (backend/claire/annotations, projects/signals.py).                      *)
(*                                                                         *)
(* A request loads the annotation once (get_object), tests that copy, and  *)
(* writes in a later transaction without locking or reloading the row.     *)
(* Several requests are in flight at once: the owner's tabs and autosave,  *)
(* and the reviewers.  req[c] is the request of client c, with its copy.   *)
(***************************************************************************)
EXTENDS Naturals, Sequences, FiniteSets

CONSTANTS
  Clients,     \* connections: tabs of the owner and reviewers
  Owners,      \* those of the annotation's owner
  Reviewers,   \* those of reviewers and administrators
  Sentences,   \* sentences a clause may be anchored on
  Themes,      \* themes of the scheme
  Seeds,       \* keys of the clauses a pre-annotation may have seeded
  NoKey,       \* no clause
  NoClause,    \* a key without a row
  MaxRequests  \* bound on the requests asked

ASSUME ClientsAreOwnersOrReviewers == Owners \cup Reviewers = Clients
ASSUME MaxRequestsIsNatural == MaxRequests \in Nat
ASSUME SeedsAreApart == Seeds \cap (1..MaxRequests) = {}
ASSUME NoKeyIsNoKey == NoKey \notin Seeds \cup 1..MaxRequests
ASSUME NoClauseIsNoClause == NoClause \notin [anchor: Sentences, theme: Themes]

VARIABLES
  status,        \* Annotation.status
  locked,        \* Annotation.locked
  projectLocked, \* Project.locked
  clauses,       \* clauses[k]: the Clause row of key k, or NoClause
  version,       \* content of the last AnnotationVersion (empty if none)
  assignment,    \* Assignment.status
  opened,        \* requests asked so far (bounded by MaxRequests)
  req,           \* req[c]: the request of client c in flight
  irregular      \* history: a write from a stale copy, or past the machine

rowVars     == <<status, locked>>
requestVars == <<opened, req>>
vars == <<rowVars, projectLocked, clauses, version, assignment, requestVars, irregular>>

---------------------------------------------------------------------------
Statuses == {"draft", "submitted", "in_review", "approved", "rejected", "archived"}

AllowedTransitions ==
  {<<"draft", "submitted">>, <<"draft", "archived">>,
   <<"submitted", "in_review">>, <<"submitted", "draft">>, <<"submitted", "archived">>,
   <<"in_review", "approved">>, <<"in_review", "rejected">>, <<"in_review", "draft">>,
   <<"approved", "archived">>,
   <<"rejected", "draft">>, <<"rejected", "archived">>}

SnapshottingTransitions == {"submitted", "approved", "rejected"}

\* Primary keys: seeded clauses, and one per request that may create a clause.
Keys == Seeds \cup 1..MaxRequests
Clause == [anchor: Sentences, theme: Themes]
Tables == [Keys -> Clause \cup {NoClause}]
\* Mutant of ContentOf: a deleted clause still counts.
ContentWithDeleted(table) == {table[k] : k \in Keys}
ContentOf(table) == {table[k] : k \in Keys} \ {NoClause}
Anchored(table, s) == {k \in Keys : table[k] # NoClause /\ table[k].anchor = s}

Request ==
  [op: {"none", "save", "delete", "move", "lock", "lift", "put"},
   status: Statuses, locked: BOOLEAN,    \* the copy of the annotation
   key: Keys \cup {NoKey}, row: Clause \cup {NoClause},
   todo: Seq(Statuses)]                  \* transitions left to make

NoRequest == [op |-> "none", status |-> "draft", locked |-> FALSE,
              key |-> NoKey, row |-> NoClause, todo |-> <<>>]

\* get_object: the annotation and its project, in one query.
Loaded == [NoRequest EXCEPT !.status = status, !.locked = locked]

Open(c, r) ==
  /\ req[c].op = "none"
  /\ opened < MaxRequests
  /\ opened' = opened + 1
  /\ req' = [req EXCEPT ![c] = r]
  /\ UNCHANGED <<rowVars, projectLocked, clauses, version, assignment, irregular>>
Continue(c, r) == req' = [req EXCEPT ![c] = r] /\ UNCHANGED opened
Finish(c) == Continue(c, NoRequest)

\* recompute_assignment_status, called by the signals of every save: the status
\* is the caller's copy, the clauses are read afresh.
AssignmentFor(copyStatus, table) ==
  IF copyStatus \in {"submitted", "in_review", "approved"} THEN "done"
  ELSE IF ContentOf(table) # {} THEN "in_progress" ELSE "pending"

\* The copy a request writes from no longer is the stored row.
Stale(r) == r.status # status \/ r.locked # locked

---------------------------------------------------------------------------
(* The clauses: add with upsert, edit or move, delete.                     *)

\* Mutant of Editable: only the lock of the project is tested.
EditableUnlessFrozen == ~projectLocked
\* _assert_not_locked.
Editable == ~projectLocked /\ ~locked

\* Adding on a sentence that has a clause updates that clause (upsert).
OpenAdd(c, s, t) ==
  /\ c \in Owners
  /\ Editable
  /\ \E k \in Keys :
       /\ IF Anchored(clauses, s) # {} THEN k \in Anchored(clauses, s) ELSE k = opened + 1
       /\ Open(c, [Loaded EXCEPT !.op = "save", !.key = k,
                                 !.row = [anchor |-> s, theme |-> t]])

\* PATCH on a clause, moving it only to a sentence without one.
OpenEdit(c, k, s, t) ==
  /\ c \in Owners
  /\ Editable
  /\ clauses[k] # NoClause
  /\ Anchored(clauses, s) \subseteq {k}
  /\ Open(c, [Loaded EXCEPT !.op = "save", !.key = k,
                            !.row = [anchor |-> s, theme |-> t]])

OpenDelete(c, k) ==
  /\ c \in Owners
  /\ Editable
  /\ clauses[k] # NoClause
  /\ Open(c, [Loaded EXCEPT !.op = "delete", !.key = k])

\* save() inserts the row again when it was deleted meanwhile; the database
\* refuses a second clause on the sentence.
WriteSave(c) ==
  LET r == req[c]
  IN /\ r.op = "save"
     /\ Anchored(clauses, r.row.anchor) \subseteq {r.key}
     /\ clauses' = [clauses EXCEPT ![r.key] = r.row]
     /\ assignment' = AssignmentFor(r.status, clauses')
     /\ irregular' = (irregular \/ Stale(r))
     /\ Finish(c)
     /\ UNCHANGED <<rowVars, projectLocked, version>>

WriteDelete(c) ==
  LET r == req[c]
  IN /\ r.op = "delete"
     /\ clauses' = [clauses EXCEPT ![r.key] = NoClause]
     /\ assignment' = AssignmentFor(r.status, clauses')
     /\ irregular' = (irregular \/ Stale(r))
     /\ Finish(c)
     /\ UNCHANGED <<rowVars, projectLocked, version>>

---------------------------------------------------------------------------
(* The status machine.                                                     *)

\* PATCH status and POST submit; the emptiness is tested on the loaded clauses.
OpenMove(c, to) ==
  /\ c \in Owners
  /\ ~projectLocked
  /\ <<status, to>> \in AllowedTransitions
  /\ to = "submitted" => ContentOf(clauses) # {}
  /\ Open(c, [Loaded EXCEPT !.op = "move", !.todo = <<to>>])

OpenUnlockIf(c, reopens) ==
  /\ ~projectLocked
  /\ \/ reopens /\ Open(c, [Loaded EXCEPT !.op = "move", !.todo = <<"draft">>])
     \/ status = "draft" /\ locked /\ Open(c, [Loaded EXCEPT !.op = "lift"])

\* Mutant of OpenUnlock: whatever is locked is reopened.
OpenUnlockLocked(c) == OpenUnlockIf(c, status # "draft" /\ locked)
\* POST unlock: a submitted annotation is reopened, a locked draft is released.
OpenUnlock(c) == OpenUnlockIf(c, status = "submitted")

\* POST lock, by the owner or a reviewer.
OpenLock(c) ==
  /\ ~locked
  /\ Open(c, [Loaded EXCEPT !.op = "lock"])

\* POST reviews: a submitted annotation enters the review, then the decision
\* applies, in a transaction of its own.  Requested changes move nothing more.
Verdicts == {<<"approved">>, <<"rejected">>, <<>>}

OpenReview(c, verdict) ==
  /\ c \in Reviewers
  /\ \/ /\ status = "submitted"
        /\ Open(c, [Loaded EXCEPT !.op = "move", !.todo = <<"in_review">> \o verdict])
     \/ /\ status = "in_review"
        /\ verdict # <<>>
        /\ Open(c, [Loaded EXCEPT !.op = "move", !.todo = verdict])

\* Mutant of LockedAfter: submitting does not lock.
LockedUnlessSubmitted(to) == IF to = "draft" THEN FALSE ELSE locked
\* Entering "submitted" locks, returning to "draft" unlocks.
LockedAfter(to) ==
  IF to \in {"submitted", "draft"} THEN to = "submitted" ELSE locked

\* Mutant of VersionAfter: only the verdicts of the reviews are snapshotted.
VersionOnVerdict(to) == IF to \in {"approved", "rejected"} THEN ContentOf(clauses) ELSE version
VersionAfter(to) == IF to \in SnapshottingTransitions THEN ContentOf(clauses) ELSE version

\* Mutant of AssignmentAfter: the signal sees the status the request had loaded.
AssignmentBefore(r, to) == AssignmentFor(r.status, clauses)
AssignmentAfter(r, to) == AssignmentFor(to, clauses)

\* transition_status.  The machine is tested on the copy, so what it answers is
\* known when the annotation is loaded; the row is written whatever it holds.
WriteMove(c) ==
  LET r  == req[c]
      to == Head(r.todo)
  IN /\ r.op = "move"
     /\ status' = to
     /\ locked' = LockedAfter(to)
     /\ version' = VersionAfter(to)
     /\ assignment' = AssignmentAfter(r, to)
     /\ irregular' = (irregular \/ Stale(r))
     /\ \/ Len(r.todo) = 1 /\ Finish(c)
        \/ Len(r.todo) > 1 /\ Continue(c, [r EXCEPT !.status = to, !.todo = Tail(@)])
     /\ UNCHANGED <<projectLocked, clauses>>

\* The manual lock and its removal write the lock columns alone.
WriteLock(c) ==
  LET r == req[c]
  IN /\ r.op \in {"lock", "lift"}
     /\ locked' = (r.op = "lock")
     /\ assignment' = AssignmentFor(r.status, clauses)
     /\ irregular' = (irregular \/ Stale(r))
     /\ Finish(c)
     /\ UNCHANGED <<status, projectLocked, clauses, version>>

\* PUT, inherited from ModelViewSet: the serializer saves the whole row.
OpenPut(c, to) ==
  /\ c \in Owners
  /\ Open(c, [Loaded EXCEPT !.op = "put", !.todo = <<to>>])

WritePut(c) ==
  LET r == req[c]
  IN /\ r.op = "put"
     /\ status' = Head(r.todo)
     /\ locked' = r.locked
     /\ assignment' = AssignmentFor(Head(r.todo), clauses)
     /\ irregular' = TRUE
     /\ Finish(c)
     /\ UNCHANGED <<projectLocked, clauses, version>>

\* POST versions: one transaction, whatever the locks.
SaveVersion ==
  /\ version # ContentOf(clauses)
  /\ version' = ContentOf(clauses)
  /\ UNCHANGED <<rowVars, projectLocked, clauses, assignment, requestVars, irregular>>

\* A refused write (409, a violated constraint), or a worker that dies between
\* two transactions of a request.
Abort(c) ==
  /\ req[c].op # "none"
  /\ Finish(c)
  /\ UNCHANGED <<rowVars, projectLocked, clauses, version, assignment, irregular>>

ToggleProjectLock ==
  /\ projectLocked' = ~projectLocked
  /\ UNCHANGED <<rowVars, clauses, version, assignment, requestVars, irregular>>

---------------------------------------------------------------------------
\* A fresh session: empty, or seeded from a pre-annotation.
Init ==
  /\ status = "draft"
  /\ locked = FALSE
  /\ projectLocked = FALSE
  /\ clauses \in {table \in Tables :
                   /\ \A k \in 1..MaxRequests : table[k] = NoClause
                   /\ \A k, l \in Seeds : (table[k] = table[l] /\ table[k] # NoClause) => k = l
                   /\ \A s \in Sentences : Cardinality(Anchored(table, s)) <= 1}
  /\ version = {}
  /\ assignment = AssignmentFor("draft", clauses)
  /\ opened = 0
  /\ req = [c \in Clients |-> NoRequest]
  /\ irregular = FALSE

EditClauses(c) ==
  \/ \E s \in Sentences, t \in Themes :
       OpenAdd(c, s, t) \/ \E k \in Keys : OpenEdit(c, k, s, t)
  \/ \E k \in Keys : OpenDelete(c, k)
  \/ WriteSave(c) \/ WriteDelete(c)

MoveStatus(c) ==
  \/ \E to \in Statuses : OpenMove(c, to) \/ OpenPut(c, to)
  \/ \E verdict \in Verdicts : OpenReview(c, verdict)
  \/ OpenUnlock(c) \/ OpenLock(c)
  \/ WriteMove(c) \/ WriteLock(c) \/ WritePut(c)

Next ==
  \/ \E c \in Clients : EditClauses(c) \/ MoveStatus(c) \/ Abort(c)
  \/ SaveVersion
  \/ ToggleProjectLock

Spec == Init /\ [][Next]_vars

---------------------------------------------------------------------------
(* Properties.  A history is irregular once a request has written from a   *)
(* copy that no longer was the row, or a PUT has gone past the machine.    *)

TypeOK ==
  /\ status \in Statuses
  /\ locked \in BOOLEAN
  /\ projectLocked \in BOOLEAN
  /\ clauses \in Tables
  /\ version \subseteq Clause
  /\ assignment \in {"pending", "in_progress", "done"}
  /\ opened \in 0..MaxRequests
  /\ req \in [Clients -> Request]
  /\ irregular \in BOOLEAN

\* Submitted, reviewed, approved or rejected content is the content of the last
\* version, through any number of reopenings, edits, reviews and manual versions.
SubmittedContentIsOnRecord ==
  ~irregular =>
    (status \in {"submitted", "in_review", "approved", "rejected"}
       => version = ContentOf(clauses))

\* From the submission to the reopening the content is locked, whatever the
\* manual locks and unlocks in between.
LockFollowsStatus ==
  ~irregular =>
    (status \in {"submitted", "in_review", "approved", "rejected"} => locked)

\* The assignment shows the state of the annotation, though it is recomputed by
\* signals that only see the copy held by the request: done while the annotation
\* is submitted, in review or approved, and pending only without any clause.
AssignmentMirrorsAnnotation ==
  ~irregular =>
    /\ assignment = "done" <=> status \in {"submitted", "in_review", "approved"}
    /\ assignment = "pending" => ContentOf(clauses) = {}
    /\ assignment = "in_progress" => ContentOf(clauses) # {}

\* Every move of the stored status is one the machine allows.
RegularMovesFollowMachine ==
  [][~irregular' /\ status' # status => <<status, status'>> \in AllowedTransitions]_vars

\* Nothing is claimed of what follows an irregular write: TLC explores the first one
\* of a history and stops there.
UpToFirstIrregularity == ~irregular

---------------------------------------------------------------------------
(* What the documentation of the code promises and the code does not hold. *)

\* annotations/models.py: while locked, every write of a clause is refused.
LockedContentIsFrozen == [][locked /\ locked' => clauses' = clauses]_vars

\* annotations/services.py: all transitions go through the machine.
StatusFollowsMachine ==
  [][status' # status => <<status, status'>> \in AllowedTransitions]_vars
=============================================================================
