------------------------------ MODULE Autosave ------------------------------
(***************************************************************************)
(* The automatic save of the annotation workspace                          *)
(* (frontend/src/components/workspace/useAutosave.ts, lib/autosave.ts,     *)
(* store/autosave.ts) with what uses it: the submission and the lock,      *)
(* which flush first, and the unmounting of the workspace.                 *)
(*                                                                         *)
(* A pass compares the drafts with the baseline (persistedRef) and sends   *)
(* one request at a time: creations, updates, deletions.  Requests may be  *)
(* lost, and so may their answers.  The server is modelled from what the   *)
(* requests mean to it: a creation is idempotent by client operation id    *)
(* and upserts by anchor, an update addresses a row by its id and keeps    *)
(* what it does not name.  Of the fields of a clause only the theme and    *)
(* the triage level are kept: the level is one the update may leave out.   *)
(***************************************************************************)
EXTENDS Naturals, Sequences, FiniteSets

CONSTANTS Anchors, Themes, Levels,
          None,            \* null: no clause, no level, no row
          Gone, Refused,   \* the answers 204 and 4xx; other answers are rows
          MaxEdits,        \* bound on the user's edits
          MaxFaults,       \* bound on the requests, answers and connections lost
          MaxCloses,       \* bound on the submissions and locks asked
          MaxAttempts,     \* MAX_ATTEMPTS
          MaxRounds,       \* FLUSH_MAX_PASSES
          MayLoseAnswers,  \* the network may lose an answer, not only a request
          MayDisconnect,   \* navigator.onLine may become false
          MayLeave         \* the user may leave the workspace

ASSUME AnchorsAssumption == IsFiniteSet(Anchors)
ASSUME BoundsAssumption == MaxAttempts \in Nat /\ MaxRounds \in Nat \ {0}
Content == [theme: Themes, level: Levels \cup {None}]

Draft == [id: Nat, c: Content]             \* a clause of the store
Kept == [sid: Nat, c: Content]             \* a clause of the baseline, or answered
Row == [sid: Nat, c: Content, op: Nat \cup {None}]

\* null is no value of the application, and an answer is of one sort only.
ASSUME NoneAssumption ==
  /\ None \notin Levels \cup Themes \cup Content \cup Nat \cup Draft \cup Row
  /\ {None, Gone, Refused} \cap Kept = {}
  /\ None # Gone /\ None # Refused /\ Gone # Refused

Passes == {"auto", "flush"}
Kinds == {"create", "update", "delete"}

VARIABLES
  drafts,    \* the store's clauses: at each anchor [id, c] or None
  nextId,    \* the next local id
  base,      \* persistedRef: at each anchor [sid, c] or None
  ctl,       \* syncing, terminal, attempts, timer, hooked, listening, saveState
  pass,      \* the requests a pass still has to send, and the answer on its way
  flushPc, round, \* the flush: idle, wait, run, pause
  gate,      \* what the workspace does: open, submitting, locking, ..., closed, left
  online,
  rows,      \* the server: at each anchor [sid, c, op] or None
  nextSid, frozen, version,
  edits, faults, closes,
  log,       \* history: what the drafts held at each anchor, oldest first
  at,        \* history: the place in the log the server's content comes from
  mark,      \* history: the place in the log when the last flush returned; 0 in doubt
  crossed,   \* history: the clauses that requests of two passes are about
  doubted    \* history: the clauses whose last answer was lost, or crossed

client == <<drafts, nextId, base, ctl, pass, flushPc, round, gate, online>>
server == <<rows, nextSid, frozen, version>>
vars == <<drafts, nextId, base, ctl, pass, flushPc, round, gate, online,
          rows, nextSid, frozen, version, edits, faults, closes,
          log, at, mark, crossed, doubted>>
marks == <<mark, crossed, doubted>>

ContentAt(f, a) == IF f[a] = None THEN None ELSE f[a].c
\* What the baseline keeps of a row (draftsToPersisted).
Known(row) == IF row = None THEN None ELSE [sid |-> row.sid, c |-> row.c]
Op == [kind: Kinds, a: Anchors, sid: Nat, id: Nat, c: Content \cup {None}, v: Nat]

---------------------------------------------------------------------------
\* Mutant of Planned: a clause that changed is replaced, its old row deleted last.
PlannedReplacing(ds, b) ==
  LET op(k, a, sid, id, c) == [kind |-> k, a |-> a, sid |-> sid, id |-> id, c |-> c, v |-> Len(log[a])]
      changed == {x \in Anchors : ContentAt(ds, x) # ContentAt(b, x)}
  IN {op("create", a, 0, ds[a].id, ds[a].c) : a \in {x \in changed : ds[x] # None}}
       \cup {op("delete", a, b[a].sid, 0, None) : a \in {x \in changed : b[x] # None}}
\* planClauseSync: the difference between the drafts and the baseline, by anchor.
Planned(ds, b) ==
  LET op(k, a, sid, id, c) == [kind |-> k, a |-> a, sid |-> sid, id |-> id, c |-> c, v |-> Len(log[a])]
  IN {op("create", a, 0, ds[a].id, ds[a].c) : a \in {x \in Anchors : ds[x] # None /\ b[x] = None}}
       \cup {op("update", a, b[a].sid, ds[a].id, ds[a].c) :
               a \in {x \in Anchors : ds[x] # None /\ b[x] # None /\ ds[x].c # b[x].c}}
       \cup {op("delete", a, b[a].sid, 0, None) : a \in {x \in Anchors : ds[x] = None /\ b[x] # None}}
\* The clauses a pass still asks about, and those both passes ask about.
Asked(ps) == {o.a : o \in UNION {ps[p].todo : p \in Passes}}
Both(ps) == {a \in Anchors : \A p \in Passes : \E o \in ps[p].todo : o.a = a}
InSync(ds, b) == \A a \in Anchors : ContentAt(ds, a) = ContentAt(b, a)

\* The requests a pass may send next: creations, then updates, then deletions.
Rank(k) == CASE k = "create" -> 1 [] k = "update" -> 2 [] k = "delete" -> 3
Heads(p) == {o \in pass[p].todo : \A q \in pass[p].todo : Rank(o.kind) <= Rank(q.kind)}
Idle == [todo |-> {}, op |-> None, answer |-> None]
Active(p) == pass[p] # Idle

\* The debounce effect, run when the drafts change: it drops the timer it had set,
\* and sets one if there is something to save.
Debounced(k, ds, b) ==
  LET cleared == IF k.hooked THEN FALSE ELSE k.timer
  IN IF k.terminal \/ InSync(ds, b)
     THEN [k EXCEPT !.timer = cleared, !.hooked = FALSE]
     ELSE [k EXCEPT !.timer = TRUE, !.hooked = TRUE]

\* The workspace is mounted on an annotation it may edit.  After the user left,
\* the last closure of the hook still believes so.
Armed == gate # "closed"
Mounted == gate \notin {"closed", "left"}

---------------------------------------------------------------------------
(* The server. *)

\* An update or an upsert keeps the level it does not name.
Merged(old, new) == [new EXCEPT !.level = IF @ = None THEN old.level ELSE @]

Stored(row, op) == [sid |-> row.sid, c |-> Merged(row.c, op.c), op |-> IF op.kind = "create" THEN op.id ELSE row.op]

\* The row a request is about: by operation id or anchor, or by row id.
Target(op) ==
  IF op.kind = "create" THEN {a \in {op.a} : rows[a] # None}
  ELSE {a \in Anchors : rows[a] # None /\ rows[a].sid = op.sid}

Serves(op, row) ==  \* what the rows become, and what the history records of it
  /\ rows' = row
  /\ at' = [a \in Anchors |-> IF row[a] # rows[a] THEN op.v ELSE at[a]]

\* The server handles the request op of pass p and answers.
Answers(p, op, answer) == pass' = [pass EXCEPT ![p].op = op, ![p].answer = answer]
Handle(p, op) ==
  \/ /\ frozen \/ (op.kind # "create" /\ Target(op) = {})
     /\ Answers(p, op, Refused)  \* 423, or 404
     /\ UNCHANGED <<rows, nextSid, at>>
  \/ /\ ~frozen
     /\ op.kind = "create" /\ Target(op) = {}
     /\ Serves(op, [rows EXCEPT ![op.a] = [sid |-> nextSid, c |-> op.c, op |-> op.id]])
     /\ nextSid' = nextSid + 1
     /\ Answers(p, op, [sid |-> nextSid, c |-> op.c])
  \/ /\ ~frozen
     /\ op.kind = "create"
     /\ \E a \in Target(op) :
          LET new == IF rows[a].op = op.id THEN rows[a] ELSE Stored(rows[a], op)
          IN /\ Serves(op, [rows EXCEPT ![a] = new])
             /\ Answers(p, op, [sid |-> new.sid, c |-> new.c])
     /\ UNCHANGED nextSid
  \/ /\ ~frozen
     /\ op.kind = "update"
     /\ \E a \in Target(op) :
          /\ Serves(op, [rows EXCEPT ![a] = Stored(@, op)])
          /\ Answers(p, op, [sid |-> op.sid, c |-> Merged(rows[a].c, op.c)])
     /\ UNCHANGED nextSid
  \/ /\ ~frozen
     /\ op.kind = "delete"
     /\ \E a \in Target(op) : Serves(op, [rows EXCEPT ![a] = None])
     /\ Answers(p, op, Gone)
     /\ UNCHANGED nextSid

---------------------------------------------------------------------------
(* Passes. *)

\* What the history keeps of a step of the passes.  Requests about a clause cross when
\* both passes ask about it, or when the flush returns and a pass still does, until
\* nothing more is asked about it.  What the client knows of a clause is in doubt when
\* its requests cross or its answer is lost, until an answer is heard.
Recorded(unheard, heard) ==
  LET returns == flushPc # "idle" /\ flushPc' = "idle"
  IN /\ crossed' = Both(pass') \cup (IF returns THEN Asked(pass') ELSE crossed \cap Asked(pass'))
     /\ doubted' = (doubted \ (heard \ crossed)) \cup unheard \cup crossed'
     /\ mark' = IF returns THEN [a \in Anchors |-> IF a \in doubted' THEN 0 ELSE Len(log'[a])]
                ELSE mark

\* A pass begins with the plan of the moment.
Begin(p, k) ==
  /\ pass' = [pass EXCEPT ![p] = [Idle EXCEPT !.todo = Planned(drafts, base)]]
  /\ ctl' = [k EXCEPT !.syncing = TRUE, !.saveState = "saving"]

\* The runner of the timer, of a manual retry and of the return of the network.
RunAuto(k) ==
  IF ~Armed \/ k.syncing \/ k.terminal
  THEN ctl' = k /\ UNCHANGED pass
  ELSE IF ~online
  THEN ctl' = [k EXCEPT !.saveState = "offline", !.listening = TRUE] /\ UNCHANGED pass
  ELSE IF Planned(drafts, base) = {}
  THEN ctl' = k /\ UNCHANGED pass
  ELSE ~Active("auto") /\ Begin("auto", k) \* bound: one automatic pass at a time

TimerFires ==
  /\ ctl.timer
  /\ RunAuto([ctl EXCEPT !.timer = FALSE])
  /\ UNCHANGED <<drafts, nextId, base, flushPc, round, gate, online, server, edits, faults,
                 closes, log, at>>
  /\ Recorded({}, {})

ManualRetry ==
  /\ Mounted /\ ctl.saveState = "error"
  /\ RunAuto([ctl EXCEPT !.attempts = 0, !.terminal = FALSE, !.saveState = "saving"])
  /\ UNCHANGED <<drafts, nextId, base, flushPc, round, gate, online, server, edits, faults,
                 closes, log, at>>
  /\ Recorded({}, {})

Disconnect ==
  /\ MayDisconnect /\ online /\ faults < MaxFaults
  /\ online' = FALSE /\ faults' = faults + 1
  /\ UNCHANGED <<drafts, nextId, base, ctl, pass, flushPc, round, gate, server, edits, closes,
                 log, at, marks>>

\* The online event runs the runner if an earlier run registered for it.
Reconnect ==
  /\ ~online /\ online' = TRUE
  /\ IF ctl.listening
     THEN \/ /\ ~Armed \/ ctl.syncing \/ ctl.terminal \/ Planned(drafts, base) = {}
             /\ ctl' = [ctl EXCEPT !.listening = FALSE]
             /\ UNCHANGED pass
          \/ /\ Armed /\ ~ctl.syncing /\ ~ctl.terminal /\ Planned(drafts, base) # {}
             /\ ~Active("auto")
             /\ Begin("auto", [ctl EXCEPT !.listening = FALSE])
     ELSE UNCHANGED <<ctl, pass>>
  /\ UNCHANGED <<drafts, nextId, base, flushPc, round, gate, server, edits, faults, closes,
                 log, at>>
  /\ Recorded({}, {})

\* The server handles the next request of a pass.
Serve(p) ==
  /\ online /\ pass[p].answer = None
  /\ \E o \in Heads(p) : Handle(p, o)
  /\ UNCHANGED <<drafts, nextId, base, ctl, flushPc, round, gate, online, frozen, version,
                 edits, faults, closes, log, marks>>

\* Mutant of AutoOver: a pass that ends well does not look at what is left.
AutoOverSatisfied(k, outcome, b) ==
  IF k.terminal \/ outcome = "ok" THEN k
  ELSE IF k.attempts < MaxAttempts
  THEN [k EXCEPT !.attempts = @ + 1, !.timer = TRUE, !.saveState = "retrying"]
  ELSE [k EXCEPT !.attempts = @ + 1, !.saveState = "error"]
\* What follows a pass: k is ctl with syncing reset.
AutoOver(k, outcome, b) ==
  IF k.terminal \/ (outcome = "ok" /\ InSync(drafts, b)) THEN k
  ELSE IF outcome = "ok" THEN [k EXCEPT !.timer = TRUE]
  ELSE IF k.attempts < MaxAttempts
  THEN [k EXCEPT !.attempts = @ + 1, !.timer = TRUE, !.saveState = "retrying"]
  ELSE [k EXCEPT !.attempts = @ + 1, !.saveState = "error"]

\* Mutant of Returns: a submission goes on although the flush did not converge.
ReturnsAnyway(ds, b) ==
  /\ flushPc' = "idle"
  /\ gate' = IF gate = "submitting" THEN "versioning" ELSE "freezing"
\* The flush returns, in the same turn as what ends it: a submission goes on only if
\* it converged, a lock in any case.
Returns(ds, b) ==
  /\ flushPc' = "idle"
  /\ gate' = CASE gate = "submitting" /\ InSync(ds, b) -> "versioning"
               [] gate = "submitting" /\ ~InSync(ds, b) -> "open"
               [] gate = "locking" -> "freezing"

\* The end of pass p: k says what the try and its catch left in ctl.
Over(p, k, outcome, b, ds) ==
  LET freed == [k EXCEPT !.syncing = FALSE]
  IN /\ pass' = [pass EXCEPT ![p] = Idle]
     /\ base' = b
     /\ drafts' = ds
     /\ IF p = "auto"
        THEN ctl' = AutoOver(freed, outcome, b) /\ UNCHANGED <<flushPc, gate>>
        ELSE /\ ctl' = IF ds # drafts THEN Debounced(freed, ds, b) ELSE freed
             /\ IF freed.terminal THEN Returns(ds, b)
                ELSE flushPc' = "pause" /\ UNCHANGED gate

\* The first failure ends a pass.
Fails(p, kind) ==
  Over(p, IF kind = "client" THEN [ctl EXCEPT !.terminal = TRUE, !.saveState = "error"] ELSE ctl,
       "transient", base, drafts)

\* A request that never reaches the server, and an answer that never comes back.
LoseRequest(p) ==
  /\ pass[p].answer = None /\ pass[p].todo # {}
  /\ faults < MaxFaults \/ ~online
  /\ faults' = IF online THEN faults + 1 ELSE faults
  /\ Fails(p, "transient")
  /\ UNCHANGED <<nextId, round, online, server, edits, closes, log, at>>
  /\ Recorded({}, {})

LoseAnswer(p) ==
  /\ MayLoseAnswers
  /\ pass[p].answer # None
  /\ faults < MaxFaults /\ faults' = faults + 1
  /\ Fails(p, "transient")
  /\ UNCHANGED <<nextId, round, online, server, edits, closes, log, at>>
  /\ Recorded({pass[p].op.a}, {})

Rejected(p) ==
  /\ pass[p].answer = Refused
  /\ Fails(p, "client")
  /\ UNCHANGED <<nextId, round, online, server, edits, faults, closes, log, at>>
  /\ Recorded({}, {})

\* Mutant of Rebased: the baseline takes what was sent, not what was answered.
RebasedOnDraft(op, answer) ==
  [base EXCEPT ![op.a] = IF answer = Gone THEN None
                         ELSE [sid |-> answer.sid, c |-> ContentAt(drafts, op.a)]]
\* The baseline follows each answer: a partial failure does not replay what is done.
Rebased(op, answer) ==
  [base EXCEPT ![op.a] = IF answer = Gone THEN None ELSE [sid |-> answer.sid, c |-> answer.c]]

\* A flush also aligns the draft on the answer (reconcileServerClause), by local id.
Reconciled(p, op, answer) ==
  IF p = "flush" /\ answer # Gone /\ drafts[op.a] # None /\ drafts[op.a].id = op.id
  THEN [drafts EXCEPT ![op.a].c = answer.c]
  ELSE drafts

Logged(ds) ==
  log' = [a \in Anchors |-> IF ContentAt(ds, a) = ContentAt(drafts, a) THEN log[a]
                            ELSE Append(log[a], ContentAt(ds, a))]

Receive(p) ==
  /\ pass[p].answer \notin {None, Refused}
  /\ LET op == pass[p].op
         b == Rebased(op, pass[p].answer)
         ds == Reconciled(p, op, pass[p].answer)
         left == pass[p].todo \ {op}
     IN /\ Logged(ds)
        /\ IF left # {}
           THEN /\ pass' = [pass EXCEPT ![p] = [Idle EXCEPT !.todo = left]]
                /\ base' = b /\ drafts' = ds
                /\ ctl' = IF ds # drafts THEN Debounced(ctl, ds, b) ELSE ctl
                /\ UNCHANGED <<flushPc, gate>>
           ELSE Over(p, [ctl EXCEPT !.saveState = "saved", !.attempts = 0], "ok", b, ds)
  /\ UNCHANGED <<nextId, round, online, server, edits, faults, closes, at>>
  /\ Recorded({}, {pass[p].op.a})

---------------------------------------------------------------------------
(* The user. *)

\* The contents a gesture may leave at an anchor, with the id of the clause: the
\* clause keeps its id, a new one has a fresh id, and undo brings an old one back.
Gestures(a) ==
  IF drafts[a] = None
  THEN [id: {nextId} \cup ({rows[x].op : x \in {y \in Anchors : rows[y] # None}} \ {None}), c: Content]
  ELSE {None} \cup [id: {drafts[a].id}, c: Content \ {drafts[a].c}]

Edit(a) ==
  /\ Mounted /\ edits < MaxEdits
  /\ edits' = edits + 1
  /\ \E new \in Gestures(a) :
       LET ds == [drafts EXCEPT ![a] = new]
       IN /\ drafts' = ds
          /\ ctl' = Debounced(ctl, ds, base)
          /\ Logged(ds)
  /\ nextId' = nextId + 1
  /\ UNCHANGED <<base, pass, flushPc, round, gate, online, server, faults, closes, at, marks>>

\* runSubmission and onLock both flush first.
Close(what) ==
  /\ gate = "open" /\ closes < MaxCloses
  /\ closes' = closes + 1
  /\ gate' = what
  /\ flushPc' = "wait" /\ round' = 0
  /\ ctl' = [ctl EXCEPT !.timer = FALSE, !.terminal = FALSE, !.attempts = 0]
  /\ UNCHANGED <<drafts, nextId, base, pass, online, server, edits, faults, log, at, marks>>

\* A round of the flush: the loop ends on an empty plan.
Round ==
  /\ round' = round + 1
  /\ IF InSync(drafts, base)
     THEN Returns(drafts, base) /\ UNCHANGED <<ctl, pass>>
     ELSE flushPc' = "run" /\ Begin("flush", ctl) /\ UNCHANGED gate

\* The flush waits for a pass in flight, at most FLUSH_WAIT_CAP_MS: a slow request
\* may outlast it.
FlushGo ==
  /\ flushPc = "wait"
  /\ IF online THEN Round
     ELSE /\ Returns(drafts, base)
          /\ ctl' = [ctl EXCEPT !.saveState = "offline"]
          /\ UNCHANGED <<round, pass>>
  /\ UNCHANGED <<drafts, nextId, base, online, server, edits, faults, closes, log, at>>
  /\ Recorded({}, {})

\* Passes until the plan is empty, FLUSH_MAX_PASSES at most.
FlushResume ==
  /\ flushPc = "pause"
  /\ IF round < MaxRounds THEN Round
     ELSE Returns(drafts, base) /\ UNCHANGED <<round, ctl, pass>>
  /\ UNCHANGED <<drafts, nextId, base, online, server, edits, faults, closes, log, at>>
  /\ Recorded({}, {})

\* createVersion freezes what the server holds.
CreateVersion ==
  /\ gate = "versioning" /\ online
  /\ version' = [a \in Anchors |-> ContentAt(rows, a)]
  /\ gate' = "publishing"
  /\ UNCHANGED <<drafts, nextId, base, ctl, pass, flushPc, round, online, rows, nextSid, frozen,
                 edits, faults, closes, log, at, marks>>

\* The status is published, or the lock is set: the annotation is frozen.
Freeze ==
  /\ gate \in {"publishing", "freezing"} /\ online
  /\ frozen' = TRUE
  /\ gate' = "frozen"
  /\ UNCHANGED <<drafts, nextId, base, ctl, pass, flushPc, round, online, rows, nextSid, version,
                 edits, faults, closes, log, at, marks>>

\* One of these requests fails: the workspace stays open.
CloseFails ==
  /\ gate \in {"versioning", "publishing", "freezing"}
  /\ faults < MaxFaults /\ faults' = faults + 1
  /\ gate' = "open"
  /\ UNCHANGED <<drafts, nextId, base, ctl, pass, flushPc, round, online, server,
                 edits, closes, log, at, marks>>

\* What init() makes of the server's clauses.
Loaded == [a \in Anchors |-> IF rows[a] = None THEN None ELSE [id |-> nextId, c |-> rows[a].c]]

\* The refetched annotation is locked: the store is loaded again, read-only, and the
\* hook is disarmed.
ShowLocked ==
  /\ gate = "frozen"
  /\ gate' = "closed"
  /\ drafts' = Loaded /\ nextId' = nextId + 1 /\ Logged(Loaded)
  /\ ctl' = [ctl EXCEPT !.timer = IF ctl.hooked THEN FALSE ELSE @, !.hooked = FALSE]
  /\ UNCHANGED <<base, pass, flushPc, round, online, server, edits, faults, closes,
                 at, marks>>

\* The unlocked annotation is loaded again, and the baseline is rebuilt from it.
Unlock ==
  /\ gate = "closed" /\ online
  /\ gate' = "open" /\ frozen' = FALSE
  /\ drafts' = Loaded /\ nextId' = nextId + 1 /\ Logged(Loaded)
  /\ base' = [a \in Anchors |-> Known(rows[a])]
  /\ ctl' = [ctl EXCEPT !.terminal = FALSE, !.attempts = 0]
  /\ doubted' = crossed
  /\ UNCHANGED <<pass, flushPc, round, online, rows, nextSid, version, edits, faults,
                 closes, at, mark, crossed>>

\* The workspace unmounts: the store is reset and the debounce cleaned up; requests
\* in flight go on.
Leave ==
  /\ MayLeave /\ gate = "open"
  /\ gate' = "left"
  /\ drafts' = [a \in Anchors |-> None]
  /\ ctl' = [ctl EXCEPT !.timer = IF ctl.hooked THEN FALSE ELSE @, !.hooked = FALSE]
  /\ UNCHANGED <<nextId, base, pass, flushPc, round, online, server, edits, faults, closes,
                 log, at, marks>>

---------------------------------------------------------------------------
\* The clauses the workspace opens on have row ids of their own.
Init ==
  /\ \E c \in [Anchors -> {None} \cup [theme: Themes, level: {None}]], n \in [Anchors -> 1 .. Cardinality(Anchors)] :
       /\ \A a, b \in Anchors : n[a] = n[b] => a = b
       /\ drafts = [a \in Anchors |-> IF c[a] = None THEN None ELSE [id |-> 0, c |-> c[a]]]
       /\ rows = [a \in Anchors |-> IF c[a] = None THEN None ELSE [sid |-> n[a], c |-> c[a], op |-> None]]
       /\ base = [a \in Anchors |-> Known(rows[a])]
       /\ log = [a \in Anchors |-> <<c[a]>>]
  /\ nextId = 1 /\ nextSid = Cardinality(Anchors) + 1
  /\ ctl = [syncing |-> FALSE, terminal |-> FALSE, attempts |-> 0, timer |-> FALSE,
            hooked |-> FALSE, listening |-> FALSE, saveState |-> "idle"]
  /\ pass = [p \in Passes |-> Idle]
  /\ flushPc = "idle" /\ round = 0 /\ gate = "open" /\ online = TRUE
  /\ frozen = FALSE /\ version = None
  /\ edits = 0 /\ faults = 0 /\ closes = 0
  /\ at = [a \in Anchors |-> 1] /\ mark = [a \in Anchors |-> 1]
  /\ crossed = {} /\ doubted = {}

Next ==
  \/ TimerFires \/ ManualRetry \/ Disconnect \/ Reconnect
  \/ \E p \in Passes : Serve(p) \/ LoseRequest(p) \/ LoseAnswer(p) \/ Rejected(p) \/ Receive(p)
  \/ \E a \in Anchors : Edit(a)
  \/ \E what \in {"submitting", "locking"} : Close(what)
  \/ FlushGo \/ FlushResume
  \/ CreateVersion \/ Freeze \/ CloseFails \/ ShowLocked \/ Unlock \/ Leave

Spec == Init /\ [][Next]_vars

\* The browser runs its timers and continuations, the network answers in the end.
Fairness ==
  /\ WF_vars(TimerFires) /\ WF_vars(Reconnect)
  /\ \A p \in Passes : WF_vars(Serve(p)) /\ WF_vars(Rejected(p) \/ Receive(p))
  /\ WF_vars(FlushGo) /\ WF_vars(FlushResume)
  /\ WF_vars(CreateVersion) /\ WF_vars(Freeze) /\ WF_vars(ShowLocked)
FairSpec == Spec /\ Fairness

---------------------------------------------------------------------------
(* Properties. *)

TypeOK ==
  /\ drafts \in [Anchors -> Draft \cup {None}]
  /\ base \in [Anchors -> Kept \cup {None}]
  /\ rows \in [Anchors -> [sid: 0 .. nextSid - 1, c: Content, op: Nat \cup {None}] \cup {None}]
  /\ ctl \in [syncing: BOOLEAN, terminal: BOOLEAN, attempts: Nat, timer: BOOLEAN,
              hooked: BOOLEAN, listening: BOOLEAN,
              saveState: {"idle", "saving", "saved", "offline", "retrying", "error"}]
  /\ ctl.saveState = "retrying" => ctl.attempts <= MaxAttempts
  /\ \A p \in Passes : pass[p].todo \subseteq Op /\ (pass[p].answer # None => pass[p].op \in pass[p].todo)
  /\ flushPc = "run" <=> Active("flush")
  /\ round \in 0 .. MaxRounds
  /\ \A a \in Anchors : at[a] \in 1 .. Len(log[a])
  /\ gate # "left" => \A a \in Anchors : log[a][Len(log[a])] = ContentAt(drafts, a)

\* An answer that is on its way to the client: the baseline does not know of it yet.
Unheard(a) == \E p \in Passes : pass[p].answer # None /\ pass[p].op.a = a

\* The baseline the plans are computed from is what the server holds, row by row, up
\* to an answer on its way, whatever the failures, retries, flushes, locks and
\* departures (useAutosave.ts, persistedRef).  The clauses in doubt are left out: one
\* whose last answer was lost, or whose requests crossed, until it is heard of again.
BaselineIsTruthful ==
  \A a \in Anchors \ doubted : Unheard(a) \/ base[a] = Known(rows[a])

\* The two together: what a pass leaves behind is typed, bounded and true.
PassesAreSound == TypeOK /\ BaselineIsTruthful

\* The server may hold a level the user's content does not name: an update that does
\* not name it keeps it.
Agrees(held, said) ==
  \/ held = None /\ said = None
  \/ held # None /\ said # None /\ held.theme = said.theme /\ said.level \in {None, held.level}

\* What a submission freezes is, for each clause, what the user had when the flush
\* returned or later: never an older content (WorkspaceToolbar.tsx runSubmission,
\* the flush before the version).  Answers may be lost and passes overlap before and
\* during the flush: the property leaves out only the clauses still in doubt when it
\* returns.  The code does not protect those: the plan is empty there, because the
\* user put back what the baseline says after the lost answer, or a pass of the timer
\* outlasts the wait of the flush.
SubmittedIsRecent ==
  [][version' # version =>
        \A a \in Anchors : \/ mark[a] = 0
                          \/ \E i \in mark[a] .. Len(log[a]) : Agrees(version'[a], log[a][i])]_vars

\* The server follows the document: each clause there is one the user had, and it
\* only moves forward in its history, except while requests about it cross.
Said(c) == IF c = None THEN None ELSE c.theme
Behind == INSTANCE WriteBehind WITH Cells <- Anchors, Values <- {None} \cup Themes,
            log <- [a \in Anchors |-> [i \in DOMAIN log[a] |-> Said(log[a][i])]], at <- at,
            remote <- [a \in Anchors |-> Said(ContentAt(rows, a))], disturbed <- crossed
BehindSpec == Behind!Spec

\* Unsaved work is saved later, or the indicator shows an error (useAutosave.ts:
\* debounce, retries with backoff, convergence after a pass), requests and answers
\* lost and passes that overlap included.  Two cases are left out, which the code does
\* not handle: a clause in doubt where the user put back what the baseline says, taken
\* for saved; and a refused request of a pass, which stops the saves and shows the
\* error, when another pass at work hides it behind its own state.
Misled(a) == a \in doubted /\ ContentAt(drafts, a) = ContentAt(base, a)
Hidden == ctl.terminal /\ ctl.saveState \in {"saving", "saved"}
Saved == \A a \in Anchors : ContentAt(rows, a) = ContentAt(drafts, a) \/ Misled(a)
EventuallySavedOrShown == ~Saved ~> (Saved \/ ctl.saveState = "error" \/ Hidden)

\* useAutosave.ts:5, "sans perte silencieuse": a clause the server does not hold is one
\* the user did not have at some time.
NothingDeletedUnasked == \A a \in Anchors : rows[a] = None => \E i \in DOMAIN log[a] : log[a][i] = None

\* AnnotationWorkspace.tsx:309: the last changes are persisted before the lock.
LockedIsSaved ==
  [][(gate = "locking" /\ gate' = "freezing") => InSync(drafts', base')]_vars

\* useAutosave.ts, reconcileDraft: "sans risque d'écraser une frappe en cours".
EditsSurviveAnswers ==
  [][\A a \in Anchors : (edits' = edits /\ gate' = gate /\ ContentAt(drafts', a) # ContentAt(drafts, a)) =>
        \A p \in Passes : (pass[p].op # None /\ pass[p].op.a = a) => pass[p].op.v = Len(log[a])]_vars

\* useAutosave.ts:12, "reprise HORS-LIGNE (event `online`)": unsaved work is saved once
\* the network is back, or an error is shown.
ResumesOnline ==
  <>[](Saved \/ ctl.saveState = "error" \/ Hidden \/ ~online)

\* lib/autosave.ts, themesKey and trimmed: no PATCH is sent for ever.
PassesEnd == <>[](pass["auto"] = Idle)
=============================================================================
