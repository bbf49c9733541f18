--------------------- MODULE AnnotationLifecycle_proofs ---------------------
(***************************************************************************)
(* Proofs about AnnotationLifecycle, for any number of clients, sentences, *)
(* themes, seeded clauses and requests.                                    *)
(***************************************************************************)
EXTENDS AnnotationLifecycle, SequenceTheorems, TLAPS

\* Every write of a move follows the machine from the copy it is made on.
MoveOK(r) ==
  \/ \E to \in Statuses : r.todo = <<to>> /\ <<r.status, to>> \in AllowedTransitions
  \/ /\ r.status = "submitted"
     /\ \E to \in {"approved", "rejected"} : r.todo = <<"in_review", to>>

\* What a request has tested on its copy when it was opened.
RequestOK(r) ==
  /\ r.op \in {"save", "delete"} => ~r.locked /\ r.key \in Keys
  /\ r.op = "save" => r.row \in Clause
  /\ r.op = "move" => MoveOK(r)
  /\ r.op = "lift" => r.status = "draft"
  /\ r.op = "put" => \E to \in Statuses : r.todo = <<to>>

RequestsOK == \A c \in Clients : RequestOK(req[c])
RecordOK ==
  SubmittedContentIsOnRecord /\ LockFollowsStatus /\ AssignmentMirrorsAnnotation

\* The inductive invariant: requests hold what they tested, and the annotation is
\* coherent as long as every write came from a fresh copy.
IInv == TypeOK /\ RequestsOK /\ RecordOK

---------------------------------------------------------------------------
(* Definitions.                                                            *)

\* The content of a table is made of clauses.
LEMMA ContentType ==
  ASSUME NEW table \in Tables
  PROVE  ContentOf(table) \subseteq Clause
BY DEF ContentOf, Tables

\* Two one-element sequences in a row: the moves of a review with a verdict.
LEMMA Pair ==
  ASSUME NEW x \in Statuses, NEW y \in Statuses
  PROVE  <<x>> \o <<y>> = <<x, y>>
<1> DEFINE a == <<x>>
           b == <<y>>
           ab == <<x, y>>
<1>1. a \in Seq(Statuses) /\ b \in Seq(Statuses) /\ ab \in Seq(Statuses)
  OBVIOUS
<1>2. Len(a) = 1 /\ Len(b) = 1 /\ Len(ab) = 2 /\ a[1] = x /\ b[1] = y /\ ab[1] = x /\ ab[2] = y
  OBVIOUS
<1> HIDE DEF a, b, ab
<1>3. /\ a \o b \in Seq(Statuses)
      /\ Len(a \o b) = 2
      /\ \A i \in 1..2 : (a \o b)[i] = IF i <= 1 THEN a[i] ELSE b[i - 1]
  BY <1>1, <1>2, ConcatProperties
<1>4. (a \o b)[1] = x /\ (a \o b)[2] = y
  BY <1>2, <1>3
<1>5. a \o b = ab
  BY <1>1, <1>2, <1>3, <1>4, SeqEqual
<1>6. QED
  BY <1>5 DEF a, b, ab

\* The absence of a request satisfies what is asked of requests.
LEMMA NoRequestOK == NoRequest \in Request /\ RequestOK(NoRequest)
BY DEF NoRequest, Request, RequestOK, Statuses

\* What recompute_assignment_status answers is an assignment status, done for the
\* statuses it takes as submitted, and otherwise according to the content.
LEMMA AssignmentForOK ==
  ASSUME NEW st, NEW table
  PROVE  LET a == AssignmentFor(st, table)
         IN /\ a \in {"pending", "in_progress", "done"}
            /\ a = "done" <=> st \in {"submitted", "in_review", "approved"}
            /\ a = "pending" => ContentOf(table) = {}
            /\ a = "in_progress" => ContentOf(table) # {}
BY DEF AssignmentFor

\* A fresh copy is a request.
LEMMA LoadedType ==
  ASSUME TypeOK
  PROVE  /\ Loaded \in Request
         /\ Loaded.status = status
         /\ Loaded.locked = locked
BY NoRequestOK DEF Loaded, Request, TypeOK, NoRequest

\* A session starts with the inductive invariant, seeded or not.
LEMMA InitIInv == Init => IInv
<1> SUFFICES ASSUME Init PROVE IInv
  OBVIOUS
<1>1. assignment = AssignmentFor("draft", clauses)
  BY DEF Init
<1>2. TypeOK
  <2>1. opened \in 0..MaxRequests
    BY MaxRequestsIsNatural DEF Init
  <2>2. req \in [Clients -> Request]
    BY NoRequestOK DEF Init
  <2>3. assignment \in {"pending", "in_progress", "done"}
    BY <1>1, AssignmentForOK
  <2>4. QED
    BY <2>1, <2>2, <2>3 DEF Init, TypeOK, Statuses
<1>3. RequestsOK
  BY NoRequestOK DEF Init, RequestsOK
<1>4. RecordOK
  BY <1>1, AssignmentForOK
     DEF Init, RecordOK, SubmittedContentIsOnRecord, LockFollowsStatus,
         AssignmentMirrorsAnnotation
<1>5. QED
  BY <1>2, <1>3, <1>4 DEF IInv

---------------------------------------------------------------------------
(* Steps.                                                                  *)

\* A step of one client leaves the requests of the others alone.
LEMMA RequestStep ==
  ASSUME IInv, NEW c \in Clients, NEW r \in Request, RequestOK(r),
         Open(c, r) \/ Continue(c, r)
  PROVE  /\ RequestsOK'
         /\ req' \in [Clients -> Request]
         /\ opened' \in 0..MaxRequests
<1>1. req \in [Clients -> Request] /\ opened \in 0..MaxRequests /\ RequestsOK
  BY DEF IInv, TypeOK
<1>2. req' = [req EXCEPT ![c] = r]
  BY DEF Open, Continue
<1>3. opened' \in 0..MaxRequests
  BY <1>1, MaxRequestsIsNatural DEF Open, Continue
<1>4. \A d \in Clients : req'[d] = IF d = c THEN r ELSE req[d]
  BY <1>1, <1>2
<1>5. RequestsOK'
  BY <1>1, <1>4 DEF RequestsOK
<1>6. QED
  BY <1>1, <1>2, <1>3, <1>5

\* What the record says depends on the stored annotation alone.
LEMMA RecordKept ==
  ASSUME RecordOK,
         UNCHANGED <<status, locked, clauses, version, assignment, irregular>>
  PROVE  RecordOK'
BY DEF RecordOK, SubmittedContentIsOnRecord, LockFollowsStatus,
       AssignmentMirrorsAnnotation, ContentOf

\* Opening a request changes nothing but the request.
LEMMA OpenStep ==
  ASSUME IInv, NEW c \in Clients, NEW r \in Request, RequestOK(r), Open(c, r)
  PROVE  IInv'
<1>1. UNCHANGED <<rowVars, projectLocked, clauses, version, assignment, irregular>>
  BY DEF Open
<1>2. RequestsOK' /\ req' \in [Clients -> Request] /\ opened' \in 0..MaxRequests
  BY RequestStep
<1>3. RecordOK'
  BY <1>1, RecordKept DEF IInv, rowVars
<1>4. QED
  BY <1>1, <1>2, <1>3 DEF IInv, TypeOK, rowVars

\* The requests on clauses have found the annotation unlocked.
LEMMA OpeningEditsKeeps ==
  ASSUME IInv, NEW c \in Clients,
         \/ \E s \in Sentences, t \in Themes :
              OpenAdd(c, s, t) \/ \E k \in Keys : OpenEdit(c, k, s, t)
         \/ \E k \in Keys : OpenDelete(c, k)
  PROVE  IInv'
<1>1. Loaded \in Request /\ Loaded.locked = locked
  BY LoadedType DEF IInv
<1>2. ASSUME NEW k \in Keys, NEW row \in Clause, ~locked,
             Open(c, [Loaded EXCEPT !.op = "save", !.key = k, !.row = row])
      PROVE  IInv'
  <2> DEFINE r == [Loaded EXCEPT !.op = "save", !.key = k, !.row = row]
  <2>1. r \in Request /\ RequestOK(r)
    BY <1>1, <1>2 DEF Request, RequestOK
  <2>2. QED
    BY <1>2, <2>1, OpenStep
<1>3. ASSUME NEW k \in Keys, ~locked,
             Open(c, [Loaded EXCEPT !.op = "delete", !.key = k])
      PROVE  IInv'
  <2> DEFINE r == [Loaded EXCEPT !.op = "delete", !.key = k]
  <2>1. r \in Request /\ RequestOK(r)
    BY <1>1, <1>3 DEF Request, RequestOK
  <2>2. QED
    BY <1>3, <2>1, OpenStep
<1>4. ASSUME NEW s \in Sentences, NEW t \in Themes
      PROVE  [anchor |-> s, theme |-> t] \in Clause
  BY DEF Clause
<1>5. QED
  BY <1>2, <1>3, <1>4 DEF OpenAdd, OpenEdit, OpenDelete, Editable

\* The requests on the status know a path of the machine from what they loaded.
LEMMA OpeningMovesKeeps ==
  ASSUME IInv, NEW c \in Clients,
         \/ \E to \in Statuses : OpenMove(c, to) \/ OpenPut(c, to)
         \/ \E verdict \in Verdicts : OpenReview(c, verdict)
         \/ OpenUnlock(c) \/ OpenLock(c)
  PROVE  IInv'
<1>1. Loaded \in Request /\ Loaded.status = status
  BY LoadedType DEF IInv
<1>2. ASSUME NEW todo \in Seq(Statuses), MoveOK([Loaded EXCEPT !.op = "move", !.todo = todo]),
             Open(c, [Loaded EXCEPT !.op = "move", !.todo = todo])
      PROVE  IInv'
  <2> DEFINE r == [Loaded EXCEPT !.op = "move", !.todo = todo]
  <2>1. r \in Request /\ r.op = "move"
    BY <1>1 DEF Request
  <2>2. RequestOK(r)
    BY <1>2, <2>1 DEF RequestOK
  <2>3. QED
    BY <1>2, <2>1, <2>2, OpenStep
<1>3. ASSUME NEW to \in Statuses, <<status, to>> \in AllowedTransitions,
             Open(c, [Loaded EXCEPT !.op = "move", !.todo = <<to>>])
      PROVE  IInv'
  <2>1. <<to>> \in Seq(Statuses)
    OBVIOUS
  <2>2. MoveOK([Loaded EXCEPT !.op = "move", !.todo = <<to>>])
    BY <1>1, <1>3 DEF MoveOK, Request
  <2>3. QED
    BY <1>2, <1>3, <2>1, <2>2
<1>4. ASSUME NEW to \in {"approved", "rejected"}, status = "submitted",
             Open(c, [Loaded EXCEPT !.op = "move", !.todo = <<"in_review", to>>])
      PROVE  IInv'
  <2>1. <<"in_review", to>> \in Seq(Statuses)
    BY DEF Statuses
  <2>2. MoveOK([Loaded EXCEPT !.op = "move", !.todo = <<"in_review", to>>])
    BY <1>1, <1>4 DEF MoveOK, Request
  <2>3. QED
    BY <1>2, <1>4, <2>1, <2>2
<1>5. ASSUME NEW to \in Statuses, OpenMove(c, to)
      PROVE  IInv'
  BY <1>3, <1>5 DEF OpenMove
<1>6. ASSUME NEW to \in Statuses, OpenPut(c, to)
      PROVE  IInv'
  <2> DEFINE r == [Loaded EXCEPT !.op = "put", !.todo = <<to>>]
  <2>1. <<to>> \in Seq(Statuses)
    OBVIOUS
  <2>2. r \in Request /\ r.op = "put" /\ r.todo = <<to>>
    BY <1>1, <2>1 DEF Request
  <2>3. RequestOK(r)
    BY <2>2 DEF RequestOK
  <2>4. QED
    BY <1>6, <2>2, <2>3, OpenStep DEF OpenPut
<1>7. ASSUME NEW verdict \in Verdicts, OpenReview(c, verdict)
      PROVE  IInv'
  <2>1. CASE verdict = <<>>
    <3>1. status = "submitted"
      BY <1>7, <2>1 DEF OpenReview
    <3>2. <<"in_review">> \o verdict = <<"in_review">>
      BY <2>1, ConcatEmptySeq, <<"in_review">> \in Seq(Statuses) DEF Statuses
    <3>3. Open(c, [Loaded EXCEPT !.op = "move", !.todo = <<"in_review">>])
      BY <1>7, <2>1, <3>2 DEF OpenReview
    <3>4. QED
      BY <1>3, <3>1, <3>3 DEF Statuses, AllowedTransitions
  <2>2. ASSUME NEW to \in {"approved", "rejected"}, verdict = <<to>>
        PROVE  IInv'
    <3>1. CASE status = "submitted"
      <4>1. <<"in_review">> \o verdict = <<"in_review", to>>
        BY <2>2, Pair DEF Statuses
      <4>2. Open(c, [Loaded EXCEPT !.op = "move", !.todo = <<"in_review", to>>])
        BY <1>7, <3>1, <4>1 DEF OpenReview
      <4>3. QED
        BY <1>4, <3>1, <4>2
    <3>2. CASE status = "in_review"
      BY <1>3, <1>7, <2>2, <3>2 DEF OpenReview, Statuses, AllowedTransitions
    <3>3. QED
      BY <1>7, <3>1, <3>2 DEF OpenReview
  <2>3. QED
    BY <2>1, <2>2 DEF Verdicts
<1>8. CASE OpenUnlock(c)
  <2>1. CASE status = "submitted" /\ Open(c, [Loaded EXCEPT !.op = "move", !.todo = <<"draft">>])
    BY <1>3, <2>1 DEF Statuses, AllowedTransitions
  <2>2. CASE status = "draft" /\ Open(c, [Loaded EXCEPT !.op = "lift"])
    <3> DEFINE r == [Loaded EXCEPT !.op = "lift"]
    <3>1. r \in Request /\ RequestOK(r)
      BY <1>1, <2>2 DEF Request, RequestOK
    <3>2. QED
      BY <2>2, <3>1, OpenStep
  <2>3. QED
    BY <1>8, <2>1, <2>2 DEF OpenUnlock, OpenUnlockIf
<1>9. CASE OpenLock(c)
  <2> DEFINE r == [Loaded EXCEPT !.op = "lock"]
  <2>1. r \in Request /\ RequestOK(r)
    BY <1>1 DEF Request, RequestOK
  <2>2. QED
    BY <1>9, <2>1, OpenStep DEF OpenLock
<1>10. QED
  BY <1>5, <1>6, <1>7, <1>8, <1>9


\* A write that leaves the request behind, the stored annotation typed and the
\* record coherent, keeps the invariant.
LEMMA WriteStep ==
  ASSUME IInv, NEW c \in Clients, NEW r \in Request, RequestOK(r), Continue(c, r),
         status' \in Statuses, locked' \in BOOLEAN, projectLocked' = projectLocked,
         clauses' \in Tables, version' \subseteq Clause,
         assignment' \in {"pending", "in_progress", "done"}, irregular' \in BOOLEAN,
         RecordOK'
  PROVE  IInv'
<1>1. RequestsOK' /\ req' \in [Clients -> Request] /\ opened' \in 0..MaxRequests
  BY RequestStep
<1>2. QED
  BY <1>1 DEF IInv, TypeOK

\* A write from a fresh copy without a PUT keeps what was true of the copy.
LEMMA FreshCopy ==
  ASSUME NEW r, irregular' = (irregular \/ Stale(r)), irregular \in BOOLEAN, ~irregular'
  PROVE  ~irregular /\ r.status = status /\ r.locked = locked
BY DEF Stale

\* Writing clauses: the fresh copy was unlocked, so nothing submitted changes.
LEMMA WritingEditsKeeps ==
  ASSUME IInv, NEW c \in Clients, WriteSave(c) \/ WriteDelete(c)
  PROVE  IInv'
<1> DEFINE r == req[c]
<1>1. /\ r \in Request /\ RequestOK(r)
      /\ irregular \in BOOLEAN /\ clauses \in Tables
      /\ status \in Statuses /\ locked \in BOOLEAN
  BY DEF IInv, TypeOK, RequestsOK
<1>2. ~r.locked /\ clauses' \in Tables
  <2>1. CASE WriteSave(c)
    BY <1>1, <2>1 DEF WriteSave, RequestOK, Tables
  <2>2. CASE WriteDelete(c)
    BY <1>1, <2>2 DEF WriteDelete, RequestOK, Tables
  <2>3. QED
    BY <2>1, <2>2
<1>3. /\ assignment' = AssignmentFor(r.status, clauses')
      /\ irregular' = (irregular \/ Stale(r))
      /\ Continue(c, NoRequest)
      /\ UNCHANGED <<status, locked, projectLocked, version>>
  BY DEF WriteSave, WriteDelete, Finish, rowVars
<1>4. RecordOK'
  <2> SUFFICES ASSUME ~irregular' PROVE RecordOK'
    BY DEF RecordOK, SubmittedContentIsOnRecord, LockFollowsStatus,
           AssignmentMirrorsAnnotation
  <2>1. ~irregular /\ r.status = status /\ ~locked
    BY <1>1, <1>2, <1>3, FreshCopy
  <2>2. status' \notin {"submitted", "in_review", "approved", "rejected"}
    BY <1>3, <2>1 DEF IInv, RecordOK, LockFollowsStatus
  <2>3. SubmittedContentIsOnRecord' /\ LockFollowsStatus'
    BY <2>2 DEF SubmittedContentIsOnRecord, LockFollowsStatus
  <2>4. AssignmentMirrorsAnnotation'
    <3>1. ContentOf(clauses)' = ContentOf(clauses')
      BY DEF ContentOf
    <3>2. QED
      BY <1>3, <2>1, <3>1, AssignmentForOK DEF AssignmentMirrorsAnnotation
  <2>5. QED
    BY <2>3, <2>4 DEF RecordOK
<1>5. irregular' \in BOOLEAN
  BY <1>1, <1>3 DEF Stale
<1>6. assignment' \in {"pending", "in_progress", "done"}
  BY <1>3, AssignmentForOK
<1>7. version' \subseteq Clause
  BY <1>3 DEF IInv, TypeOK
<1>8. QED
  BY <1>1, <1>2, <1>3, <1>4, <1>5, <1>6, <1>7, NoRequestOK, WriteStep

\* A move of a request is one the machine allows from its copy, and leaves a
\* request whose remaining moves are.
LEMMA MoveFollowsMachine ==
  ASSUME NEW r \in Request, r.op = "move", RequestOK(r)
  PROVE  /\ Head(r.todo) \in Statuses
         /\ <<r.status, Head(r.todo)>> \in AllowedTransitions
         /\ Len(r.todo) > 1 =>
              LET next == [r EXCEPT !.status = Head(r.todo), !.todo = Tail(r.todo)]
              IN next \in Request /\ RequestOK(next)
<1>1. MoveOK(r)
  BY DEF RequestOK
<1>2. CASE \E to \in Statuses : r.todo = <<to>> /\ <<r.status, to>> \in AllowedTransitions
  BY <1>2
<1>3. CASE /\ r.status = "submitted"
           /\ \E to \in {"approved", "rejected"} : r.todo = <<"in_review", to>>
  <2> DEFINE next == [r EXCEPT !.status = Head(r.todo), !.todo = Tail(r.todo)]
  <2>1. PICK to \in {"approved", "rejected"} : r.todo = <<"in_review", to>>
    BY <1>3
  <2>2. Head(r.todo) = "in_review" /\ Tail(r.todo) = <<to>>
    BY <2>1
  <2>3. to \in Statuses /\ "in_review" \in Statuses /\ <<"in_review", to>> \in AllowedTransitions
    BY DEF Statuses, AllowedTransitions
  <2>4. <<r.status, "in_review">> \in AllowedTransitions
    BY <1>3 DEF AllowedTransitions
  <2>5. <<to>> \in Seq(Statuses)
    BY <2>3
  <2>6. next = [r EXCEPT !.status = "in_review", !.todo = <<to>>]
    BY <2>2
  <2>7. /\ next \in Request
        /\ next.op = "move" /\ next.status = "in_review" /\ next.todo = <<to>>
    BY <2>3, <2>5, <2>6 DEF Request
  <2>8. RequestOK(next)
    BY <2>3, <2>7 DEF RequestOK, MoveOK
  <2>9. QED
    BY <2>2, <2>3, <2>4, <2>7, <2>8
<1>4. QED
  BY <1>1, <1>2, <1>3 DEF MoveOK


\* A move from a fresh copy: entering a snapshotting status records the content,
\* submitting locks it, and the reviews find both as the submission left them.
LEMMA WritingMovesKeeps ==
  ASSUME IInv, NEW c \in Clients, WriteMove(c)
  PROVE  IInv'
<1> DEFINE r == req[c]
           to == Head(r.todo)
           next == [r EXCEPT !.status = to, !.todo = Tail(r.todo)]
<1>1. /\ r \in Request /\ RequestOK(r) /\ r.op = "move"
      /\ irregular \in BOOLEAN /\ clauses \in Tables
      /\ status \in Statuses /\ locked \in BOOLEAN /\ version \subseteq Clause
  BY DEF IInv, TypeOK, RequestsOK, WriteMove
<1>2. to \in Statuses /\ <<r.status, to>> \in AllowedTransitions
  BY <1>1, MoveFollowsMachine
<1>3. /\ status' = to /\ locked' = LockedAfter(to) /\ version' = VersionAfter(to)
      /\ assignment' = AssignmentFor(to, clauses)
      /\ irregular' = (irregular \/ Stale(r))
      /\ UNCHANGED <<projectLocked, clauses>>
  BY DEF WriteMove, AssignmentAfter
<1> HIDE DEF to
<1>4. RecordOK'
  <2> SUFFICES ASSUME ~irregular' PROVE RecordOK'
    BY DEF RecordOK, SubmittedContentIsOnRecord, LockFollowsStatus,
           AssignmentMirrorsAnnotation
  <2>1. ~irregular /\ <<status, to>> \in AllowedTransitions
    BY <1>1, <1>2, <1>3, FreshCopy
  <2>2. ContentOf(clauses)' = ContentOf(clauses)
    BY <1>3 DEF ContentOf
  <2>3. to = "in_review" => locked /\ version = ContentOf(clauses)
    BY <2>1 DEF AllowedTransitions, IInv, RecordOK, SubmittedContentIsOnRecord,
                LockFollowsStatus
  <2>4. to \in {"approved", "rejected"} => locked
    BY <2>1 DEF AllowedTransitions, IInv, RecordOK, LockFollowsStatus
  <2>5. SubmittedContentIsOnRecord'
    BY <1>3, <2>2, <2>3 DEF SubmittedContentIsOnRecord, VersionAfter, SnapshottingTransitions
  <2>6. LockFollowsStatus'
    BY <1>3, <2>3, <2>4 DEF LockFollowsStatus, LockedAfter
  <2>7. AssignmentMirrorsAnnotation'
    BY <1>3, <2>2, AssignmentForOK DEF AssignmentMirrorsAnnotation
  <2>8. QED
    BY <2>5, <2>6, <2>7 DEF RecordOK
<1>5. irregular' \in BOOLEAN
  BY <1>1, <1>3 DEF Stale
<1>6. assignment' \in {"pending", "in_progress", "done"}
  BY <1>3, AssignmentForOK
<1>7. version' \subseteq Clause /\ locked' \in BOOLEAN
  BY <1>1, <1>3, ContentType DEF VersionAfter, LockedAfter
<1>8. \E q \in Request : RequestOK(q) /\ Continue(c, q)
  <2>1. CASE Len(r.todo) = 1 /\ Finish(c)
    BY <2>1, NoRequestOK DEF Finish
  <2>2. CASE Len(r.todo) > 1 /\ Continue(c, [r EXCEPT !.status = to, !.todo = Tail(@)])
    <3>1. next \in Request /\ RequestOK(next)
      BY <1>1, <2>2, MoveFollowsMachine DEF to
    <3>2. Continue(c, next)
      BY <2>2
    <3>3. QED
      BY <3>1, <3>2
  <2>3. QED
    BY <2>1, <2>2 DEF WriteMove, to
<1>9. QED
  BY <1>1, <1>2, <1>3, <1>4, <1>5, <1>6, <1>7, <1>8, WriteStep

\* A manual lock locks more; a fresh copy only lifts the lock of a draft.
LEMMA WritingLocksKeeps ==
  ASSUME IInv, NEW c \in Clients, WriteLock(c)
  PROVE  IInv'
<1> DEFINE r == req[c]
<1>1. /\ r \in Request /\ RequestOK(r) /\ r.op \in {"lock", "lift"}
      /\ irregular \in BOOLEAN /\ clauses \in Tables
      /\ status \in Statuses /\ version \subseteq Clause
  BY DEF IInv, TypeOK, RequestsOK, WriteLock
<1>2. /\ locked' = (r.op = "lock")
      /\ assignment' = AssignmentFor(r.status, clauses)
      /\ irregular' = (irregular \/ Stale(r))
      /\ Continue(c, NoRequest)
      /\ UNCHANGED <<status, projectLocked, clauses, version>>
  BY DEF WriteLock, Finish
<1>3. RecordOK'
  <2> SUFFICES ASSUME ~irregular' PROVE RecordOK'
    BY DEF RecordOK, SubmittedContentIsOnRecord, LockFollowsStatus,
           AssignmentMirrorsAnnotation
  <2>1. ~irregular /\ r.status = status
    BY <1>1, <1>2, FreshCopy
  <2>2. ContentOf(clauses)' = ContentOf(clauses)
    BY <1>2 DEF ContentOf
  <2>3. SubmittedContentIsOnRecord'
    BY <1>2, <2>1, <2>2 DEF IInv, RecordOK, SubmittedContentIsOnRecord
  <2>4. LockFollowsStatus'
    BY <1>1, <1>2, <2>1 DEF RequestOK, LockFollowsStatus
  <2>5. AssignmentMirrorsAnnotation'
    BY <1>2, <2>1, <2>2, AssignmentForOK DEF AssignmentMirrorsAnnotation
  <2>6. QED
    BY <2>3, <2>4, <2>5 DEF RecordOK
<1>4. irregular' \in BOOLEAN
  BY <1>1, <1>2 DEF Stale
<1>5. assignment' \in {"pending", "in_progress", "done"}
  BY <1>2, AssignmentForOK
<1>6. QED
  BY <1>1, <1>2, <1>3, <1>4, <1>5, NoRequestOK, WriteStep

\* A PUT ends the regular histories, and leaves the types alone.
LEMMA WritingPutsKeeps ==
  ASSUME IInv, NEW c \in Clients, WritePut(c)
  PROVE  IInv'
<1> DEFINE r == req[c]
<1>1. /\ r \in Request /\ RequestOK(r) /\ r.op = "put"
      /\ clauses \in Tables /\ version \subseteq Clause
  BY DEF IInv, TypeOK, RequestsOK, WritePut
<1>2. Head(r.todo) \in Statuses
  <2>1. PICK to \in Statuses : r.todo = <<to>>
    BY <1>1 DEF RequestOK
  <2>2. QED
    BY <2>1
<1>3. /\ status' = Head(r.todo) /\ locked' = r.locked
      /\ assignment' = AssignmentFor(Head(r.todo), clauses)
      /\ irregular' = TRUE
      /\ Continue(c, NoRequest)
      /\ UNCHANGED <<projectLocked, clauses, version>>
  BY DEF WritePut, Finish
<1>4. RecordOK'
  BY <1>3 DEF RecordOK, SubmittedContentIsOnRecord, LockFollowsStatus,
              AssignmentMirrorsAnnotation
<1>5. r.locked \in BOOLEAN
  BY <1>1 DEF Request
<1>6. assignment' \in {"pending", "in_progress", "done"}
  BY <1>3, AssignmentForOK
<1>7. QED
  BY <1>1, <1>2, <1>3, <1>4, <1>5, <1>6, NoRequestOK, WriteStep

\* A manual version records the present content.
LEMMA SavingVersionKeeps ==
  ASSUME IInv, SaveVersion
  PROVE  IInv'
<1>1. version' = ContentOf(clauses) /\ clauses \in Tables
  BY DEF SaveVersion, IInv, TypeOK
<1>2. /\ UNCHANGED <<status, locked, projectLocked, clauses, assignment>>
      /\ UNCHANGED <<opened, req, irregular>>
  BY DEF SaveVersion, rowVars, requestVars
<1>3. ContentOf(clauses)' = ContentOf(clauses)
  BY <1>2 DEF ContentOf
<1>4. TypeOK'
  BY <1>1, <1>2, ContentType DEF IInv, TypeOK
<1>5. RequestsOK'
  BY <1>2 DEF IInv, RequestsOK
<1>6. RecordOK'
  BY <1>1, <1>2, <1>3 DEF IInv, RecordOK, SubmittedContentIsOnRecord,
                          LockFollowsStatus, AssignmentMirrorsAnnotation
<1>7. QED
  BY <1>4, <1>5, <1>6 DEF IInv

\* What neither writes the annotation nor opens a request keeps the invariant: a
\* request that ends without a write, the lock of the project, a stutter.
LEMMA OthersKeep ==
  ASSUME IInv, (\E c \in Clients : Abort(c)) \/ ToggleProjectLock \/ UNCHANGED vars
  PROVE  IInv'
<1>1. UNCHANGED <<status, locked, clauses, version, assignment, irregular>>
  BY DEF Abort, ToggleProjectLock, vars, rowVars
<1>2. RecordOK'
  BY <1>1, RecordKept DEF IInv
<1>3. projectLocked' \in BOOLEAN
  BY DEF IInv, TypeOK, Abort, ToggleProjectLock, vars
<1>4. RequestsOK' /\ req' \in [Clients -> Request] /\ opened' \in 0..MaxRequests
  <2>1. CASE \E c \in Clients : Abort(c)
    BY <2>1, NoRequestOK, RequestStep DEF Abort, Finish
  <2>2. CASE UNCHANGED requestVars
    BY <2>2 DEF IInv, TypeOK, RequestsOK, requestVars
  <2>3. QED
    BY <2>1, <2>2 DEF ToggleProjectLock, vars
<1>5. QED
  BY <1>1, <1>2, <1>3, <1>4 DEF IInv, TypeOK

---------------------------------------------------------------------------
(* Theorems.                                                               *)

\* Every step keeps the inductive invariant.
LEMMA StepIInv == IInv /\ [Next]_vars => IInv'
<1> SUFFICES ASSUME IInv, [Next]_vars PROVE IInv'
  OBVIOUS
<1>1. ASSUME NEW c \in Clients, EditClauses(c)
      PROVE  IInv'
  BY <1>1, OpeningEditsKeeps, WritingEditsKeeps DEF EditClauses
<1>2. ASSUME NEW c \in Clients, MoveStatus(c)
      PROVE  IInv'
  <2>1. CASE WriteMove(c)
    BY <2>1, WritingMovesKeeps
  <2>2. CASE WriteLock(c)
    BY <2>2, WritingLocksKeeps
  <2>3. CASE WritePut(c)
    BY <2>3, WritingPutsKeeps
  <2>4. QED
    BY <1>2, <2>1, <2>2, <2>3, OpeningMovesKeeps DEF MoveStatus
<1>3. QED
  BY <1>1, <1>2, SavingVersionKeeps, OthersKeep DEF Next

\* The inductive invariant holds in every reachable state.
THEOREM Invariance == Spec => []IInv
BY InitIInv, StepIInv, PTL DEF Spec

\* Every state of the annotation, its requests and its assignment is well typed.
THEOREM TypeCorrect == Spec => []TypeOK
<1>1. IInv => TypeOK
  BY DEF IInv
<1>2. QED
  BY <1>1, Invariance, PTL

\* What is submitted, reviewed, approved or rejected is the last version, as long
\* as requests write from fresh copies (transition_status and save_version).
THEOREM SubmittedOnRecord == Spec => []SubmittedContentIsOnRecord
<1>1. IInv => SubmittedContentIsOnRecord
  BY DEF IInv, RecordOK
<1>2. QED
  BY <1>1, Invariance, PTL

\* From the submission to the reopening the annotation is locked, as long as
\* requests write from fresh copies (transition_status, lock and unlock).
THEOREM LockedWhileSubmitted == Spec => []LockFollowsStatus
<1>1. IInv => LockFollowsStatus
  BY DEF IInv, RecordOK
<1>2. QED
  BY <1>1, Invariance, PTL

\* The assignment recomputed by the signals shows the annotation, as long as
\* requests write from fresh copies (recompute_assignment_status).
THEOREM AssignmentCorrect == Spec => []AssignmentMirrorsAnnotation
<1>1. IInv => AssignmentMirrorsAnnotation
  BY DEF IInv, RecordOK
<1>2. QED
  BY <1>1, Invariance, PTL

\* As long as requests write from fresh copies and none is a PUT, the stored
\* status moves along the machine, both writes of a review included.
THEOREM RegularMovesLegal == Spec => RegularMovesFollowMachine
<1> DEFINE Legal == ~irregular' /\ status' # status => <<status, status'>> \in AllowedTransitions
<1>1. IInv /\ [Next]_vars => [Legal]_vars
  <2> SUFFICES ASSUME IInv, [Next]_vars, ~irregular', status' # status
               PROVE  <<status, status'>> \in AllowedTransitions
    OBVIOUS
  <2>1. PICK c \in Clients : WriteMove(c)
    BY DEF Next, EditClauses, MoveStatus, OpenAdd, OpenEdit, OpenDelete, WriteSave,
           WriteDelete, OpenMove, OpenPut, OpenReview, OpenUnlock, OpenUnlockIf,
           OpenLock, WriteLock, WritePut, Abort, SaveVersion, ToggleProjectLock,
           Open, vars, rowVars
  <2> DEFINE r == req[c]
  <2>2. r \in Request /\ r.op = "move" /\ RequestOK(r) /\ irregular \in BOOLEAN
    BY <2>1 DEF IInv, TypeOK, RequestsOK, WriteMove
  <2>3. status' = Head(r.todo) /\ irregular' = (irregular \/ Stale(r))
    BY <2>1 DEF WriteMove
  <2>4. r.status = status
    BY <2>2, <2>3, FreshCopy
  <2>5. QED
    BY <2>2, <2>3, <2>4, MoveFollowsMachine
<1>2. QED
  BY <1>1, Invariance, PTL DEF Spec, RegularMovesFollowMachine
=============================================================================
