--------------------------- MODULE Autosave_proofs ---------------------------
(***************************************************************************)
(* Proofs about Autosave.  The baseline follows the answers, so the        *)
(* invariant says what an answer on its way will make of it (Answered),    *)
(* which row a remembered row id leads to (Homes), and that a clause whose *)
(* requests do not cross is written by one pass at a time (Alone).         *)
(***************************************************************************)
EXTENDS Autosave, FiniteSetTheorems, SequenceTheorems, TLAPS

---------------------------------------------------------------------------
(* The inductive invariant. *)

Answer == Kept \cup {None, Gone, Refused}
Gates == {"open", "submitting", "locking", "versioning", "publishing", "freezing", "frozen",
          "closed", "left"}

CtlOK(k) ==
  /\ k \in [syncing: BOOLEAN, terminal: BOOLEAN, attempts: Nat, timer: BOOLEAN,
            hooked: BOOLEAN, listening: BOOLEAN,
            saveState: {"idle", "saving", "saved", "offline", "retrying", "error"}]
  /\ k.saveState = "retrying" => k.attempts <= MaxAttempts

Typed ==
  /\ drafts \in [Anchors -> Draft \cup {None}] /\ nextId \in Nat
  /\ base \in [Anchors -> Kept \cup {None}]
  /\ rows \in [Anchors -> Row \cup {None}] /\ nextSid \in Nat
  /\ CtlOK(ctl)
  /\ pass \in [Passes -> [todo: SUBSET Op, op: Op \cup {None}, answer: Answer]]
  /\ flushPc \in {"idle", "wait", "run", "pause"} /\ gate \in Gates /\ round \in 0 .. MaxRounds
  /\ log \in [Anchors -> Seq(Content \cup {None})]
  /\ at \in [Anchors -> Nat] /\ mark \in [Anchors -> Nat]
  /\ crossed \in SUBSET Anchors /\ doubted \in SUBSET Anchors

\* A pass without requests is idle; an answer is of a request still to do; a request
\* carries a content unless it deletes, and a place in the history.
RequestOK(o) == (o.c = None <=> o.kind = "delete") /\ o.v \in 1 .. Len(log[o.a])
RequestsOK ==
  \A p \in Passes :
     /\ pass[p].todo = {} => pass[p] = Idle
     /\ pass[p].answer # None => pass[p].op \in pass[p].todo
     /\ \A o \in pass[p].todo : RequestOK(o)

\* Where the flush is, seen from its passes and from who waits for it.
Phases ==
  /\ flushPc = "run" <=> pass["flush"].todo # {}
  /\ flushPc = "idle" <=> gate \notin {"submitting", "locking"}
  /\ flushPc = "wait" => round = 0

\* The history ends with the drafts.
HistoryOK ==
  \A a \in Anchors :
     /\ at[a] \in 1 .. Len(log[a]) /\ mark[a] \in 0 .. Len(log[a])
     /\ gate # "left" => log[a][Len(log[a])] = ContentAt(drafts, a)

\* The requests about a clause cross as soon as both passes ask about it, and what is
\* known of it is then in doubt.
Alone == Both(pass) \subseteq crossed /\ crossed \subseteq doubted

\* A row id known at an anchor leads to the row of that anchor or to none.
LeadsTo(f, n, sid, a) == sid < n /\ \A x \in Anchors : f[x] # None /\ f[x].sid = sid => x = a
Homes ==
  /\ \A a \in Anchors :
       /\ rows[a] # None => LeadsTo(rows, nextSid, rows[a].sid, a)
       /\ base[a] # None => LeadsTo(rows, nextSid, base[a].sid, a)
  /\ \A p \in Passes :
       /\ \A o \in pass[p].todo : o.kind # "create" => LeadsTo(rows, nextSid, o.sid, o.a)
       /\ pass[p].answer \in Kept => LeadsTo(rows, nextSid, pass[p].answer.sid, pass[p].op.a)

\* An answer that crosses no request tells what the row it is about is now.
Told(answer) == IF answer = Gone THEN None ELSE answer
Answered ==
  \A p \in Passes : (pass[p].answer \notin {None, Refused} /\ pass[p].op.a \notin crossed) =>
                       Known(rows[pass[p].op.a]) = Told(pass[p].answer)

\* And the baseline is what the server holds, up to such an answer.
Expected(a) == \E p \in Passes : pass[p].answer \notin {None, Refused} /\ pass[p].op.a = a
Truthful == \A a \in Anchors \ doubted : Expected(a) \/ base[a] = Known(rows[a])

IInv == Typed /\ RequestsOK /\ Phases /\ HistoryOK /\ Alone /\ Homes /\ Answered /\ Truthful

\* What a request asks is what the user had at its place in the history; the requests
\* of a pass for one clause come from one place.
Quoted ==
  \A p \in Passes :
     /\ gate # "left" => \A o \in pass[p].todo : log[o.a][o.v] = o.c
     /\ \A o, q \in pass[p].todo : o.a = q.a => o.v = q.v
\* What is still asked is not older than what the server has, unless requests cross.
Forward == \A p \in Passes : \A o \in pass[p].todo : o.a \notin crossed => at[o.a] <= o.v
\* While a version is made: the rows, and what is still asked, are from the return of
\* the flush or later, for each clause that was not in doubt then.
SinceMark(a, held) == \E i \in mark[a] .. Len(log[a]) : Agrees(held, log[a][i])
Recent ==
  gate = "versioning" =>
     \A a \in Anchors : mark[a] # 0 =>
        /\ SinceMark(a, ContentAt(rows, a))
        /\ \A p \in Passes : \A o \in pass[p].todo : o.a = a => mark[a] <= o.v
HInv == IInv /\ Quoted /\ Forward /\ Recent

---------------------------------------------------------------------------
(* Proofs: what the operators return. *)

\* A plan asks of the server what makes the baseline the drafts.
LEMMA PlannedOps ==
  ASSUME Typed, HistoryOK
  PROVE  \A o \in Planned(drafts, base) :
            /\ o \in Op /\ RequestOK(o) /\ o.v = Len(log[o.a]) /\ o.c = ContentAt(drafts, o.a)
            /\ o.kind # "create" => base[o.a] # None /\ o.sid = base[o.a].sid
<1> SUFFICES ASSUME NEW o \in Planned(drafts, base)
             PROVE  /\ o \in Op /\ RequestOK(o) /\ o.v = Len(log[o.a]) /\ o.c = ContentAt(drafts, o.a)
                    /\ o.kind # "create" => base[o.a] # None /\ o.sid = base[o.a].sid
  OBVIOUS
<1>0. PICK a \in Anchors :
         \/ /\ drafts[a] # None /\ base[a] = None
            /\ o = [kind |-> "create", a |-> a, sid |-> 0, id |-> drafts[a].id, c |-> drafts[a].c, v |-> Len(log[a])]
         \/ /\ drafts[a] # None /\ base[a] # None
            /\ o = [kind |-> "update", a |-> a, sid |-> base[a].sid, id |-> drafts[a].id, c |-> drafts[a].c, v |-> Len(log[a])]
         \/ /\ drafts[a] = None /\ base[a] # None
            /\ o = [kind |-> "delete", a |-> a, sid |-> base[a].sid, id |-> 0, c |-> None, v |-> Len(log[a])]
  BY DEF Planned
<1>1. Len(log[a]) \in Nat \ {0} /\ Len(log[a]) \in 1 .. Len(log[a])
  BY DEF Typed, HistoryOK
<1>2. /\ drafts[a] # None => drafts[a] \in Draft
      /\ base[a] # None => base[a] \in Kept
  BY DEF Typed
<1>3. None \notin Content
  BY NoneAssumption
<1> QED
  BY <1>0, <1>1, <1>2, <1>3 DEF Op, Kinds, RequestOK, ContentAt, Draft, Kept

\* An empty plan: the document is saved.
LEMMA PlannedNone ==
  ASSUME Typed, ~InSync(drafts, base)
  PROVE  Planned(drafts, base) # {}
<1>1. PICK a \in Anchors : ContentAt(drafts, a) # ContentAt(base, a)
  BY DEF InSync
<1>2. \/ drafts[a] # None /\ base[a] = None
      \/ drafts[a] # None /\ base[a] # None /\ drafts[a].c # base[a].c
      \/ drafts[a] = None /\ base[a] # None
  BY <1>1 DEF ContentAt
<1>3. CASE drafts[a] # None /\ base[a] = None
  <2>1. [kind |-> "create", a |-> a, sid |-> 0, id |-> drafts[a].id, c |-> drafts[a].c, v |-> Len(log[a])]
          \in Planned(drafts, base)
    BY <1>3 DEF Planned
  <2> QED  BY <2>1
<1>4. CASE drafts[a] # None /\ base[a] # None /\ drafts[a].c # base[a].c
  <2>1. [kind |-> "update", a |-> a, sid |-> base[a].sid, id |-> drafts[a].id, c |-> drafts[a].c, v |-> Len(log[a])]
          \in Planned(drafts, base)
    BY <1>4 DEF Planned
  <2> QED  BY <2>1
<1>5. CASE drafts[a] = None /\ base[a] # None
  <2>1. [kind |-> "delete", a |-> a, sid |-> base[a].sid, id |-> 0, c |-> None, v |-> Len(log[a])]
          \in Planned(drafts, base)
    BY <1>5 DEF Planned
  <2> QED  BY <2>1
<1> QED  BY <1>2, <1>3, <1>4, <1>5

\* The history only grows, by what the drafts become.
LEMMA LoggedGrows ==
  ASSUME Typed, NEW ds \in [Anchors -> Draft \cup {None}], Logged(ds)
  PROVE  /\ log' \in [Anchors -> Seq(Content \cup {None})]
         /\ \A a \in Anchors :
              /\ log'[a] = log[a] \/ log'[a] = Append(log[a], ContentAt(ds, a))
              /\ ContentAt(ds, a) \in Content \cup {None}
              /\ Len(log'[a]) \in Nat /\ Len(log'[a]) >= Len(log[a])
              /\ \A i \in 1 .. Len(log[a]) : log'[a][i] = log[a][i]
              /\ log[a][Len(log[a])] = ContentAt(drafts, a) => log'[a][Len(log'[a])] = ContentAt(ds, a)
<1>1. \A a \in Anchors : ContentAt(ds, a) \in Content \cup {None}
  BY DEF ContentAt, Draft
<1>2. \A a \in Anchors : log[a] \in Seq(Content \cup {None})
  BY DEF Typed
<1>3. \A a \in Anchors : log'[a] = IF ContentAt(ds, a) = ContentAt(drafts, a) THEN log[a]
                                   ELSE Append(log[a], ContentAt(ds, a))
  BY DEF Logged
<1>4. ASSUME NEW a \in Anchors
      PROVE  /\ log'[a] \in Seq(Content \cup {None})
             /\ Len(log'[a]) \in Nat /\ Len(log'[a]) >= Len(log[a])
             /\ \A i \in 1 .. Len(log[a]) : log'[a][i] = log[a][i]
             /\ log[a][Len(log[a])] = ContentAt(drafts, a) => log'[a][Len(log'[a])] = ContentAt(ds, a)
  <2>1. CASE ContentAt(ds, a) = ContentAt(drafts, a)
    <3>1. log'[a] = log[a]
      BY <1>3, <2>1
    <3> QED  BY <1>2, <2>1, <3>1
  <2>2. CASE ContentAt(ds, a) # ContentAt(drafts, a)
    <3>1. log'[a] = Append(log[a], ContentAt(ds, a))
      BY <1>3, <2>2
    <3>2. log[a] \in Seq(Content \cup {None}) /\ ContentAt(ds, a) \in Content \cup {None}
      BY <1>1, <1>2
    <3>3. /\ log'[a] \in Seq(Content \cup {None}) /\ Len(log'[a]) = Len(log[a]) + 1
          /\ \A i \in 1 .. Len(log[a]) : log'[a][i] = log[a][i]
          /\ log'[a][Len(log[a]) + 1] = ContentAt(ds, a)
      BY <3>1, <3>2, AppendProperties
    <3> QED  BY <3>2, <3>3
  <2> QED  BY <2>1, <2>2
<1>5. log' \in [Anchors -> Seq(Content \cup {None})]
  BY <1>4 DEF Logged
<1> QED  BY <1>1, <1>3, <1>4, <1>5

\* What the server does of a request: it writes at most the row of its anchor, the
\* answer tells what that row is, and the row agrees with what was asked.
Served(p, op, answer) ==
  /\ Answers(p, op, answer) /\ answer \in Answer \ {None}
  /\ rows' \in [Anchors -> Row \cup {None}] /\ nextSid' \in {nextSid, nextSid + 1}
  /\ \A a \in Anchors \ {op.a} : rows'[a] = rows[a] /\ at'[a] = at[a]
  /\ at' \in [Anchors -> Nat]
  /\ at'[op.a] = IF rows'[op.a] = rows[op.a] THEN at[op.a] ELSE op.v
  /\ answer = Refused => rows' = rows
  /\ answer # Refused => Known(rows'[op.a]) = Told(answer)
  /\ rows'[op.a] # None =>
       \/ rows[op.a] # None /\ rows'[op.a].sid = rows[op.a].sid
       \/ rows'[op.a].sid = nextSid /\ nextSid' = nextSid + 1
  /\ rows'[op.a] = rows[op.a] \/ Agrees(ContentAt(rows', op.a), op.c)

\* A request is about the row of its anchor.
LEMMA TargetIsHome ==
  ASSUME Homes, NEW p \in Passes, NEW op \in pass[p].todo, op \in Op
  PROVE  Target(op) \subseteq {op.a} /\ (Target(op) # {} => rows[op.a] # None)
BY DEF Homes, Target, LeadsTo, Op

LEMMA MergedAgrees ==
  ASSUME NEW old \in Content, NEW new \in Content
  PROVE  Merged(old, new) \in Content /\ Agrees(Merged(old, new), new) /\ Agrees(new, new)
<1>1. None \notin Content
  BY NoneAssumption
<1> QED  BY <1>1 DEF Merged, Agrees, Content

LEMMA HandleServes ==
  ASSUME Typed, Homes, NEW p \in Passes, NEW op \in pass[p].todo, op \in Op,
         op.c = None <=> op.kind = "delete", op.v \in Nat, Handle(p, op)
  PROVE  \E answer \in Answer : Served(p, op, answer)
<1>1. /\ rows \in [Anchors -> Row \cup {None}] /\ nextSid \in Nat /\ at \in [Anchors -> Nat]
      /\ op.a \in Anchors /\ op.kind \in Kinds /\ op.id \in Nat /\ op.sid \in Nat
  BY DEF Typed, Op
<1>2. Target(op) \subseteq {op.a} /\ (Target(op) # {} => rows[op.a] # None)
  BY TargetIsHome
<1>3. op.kind # "delete" => op.c \in Content
  BY DEF Op
<1>4. None \notin Content /\ None \notin Row
  BY NoneAssumption
<1>5. CASE /\ frozen \/ (op.kind # "create" /\ Target(op) = {})
           /\ Answers(p, op, Refused)
           /\ UNCHANGED <<rows, nextSid, at>>
  <2>1. Refused \in Answer \ {None}
    BY NoneAssumption DEF Answer
  <2>2. Served(p, op, Refused)
    BY <1>1, <1>5, <2>1 DEF Served
  <2> QED  BY <2>1, <2>2
<1>6. CASE /\ op.kind = "create" /\ Target(op) = {}
           /\ Serves(op, [rows EXCEPT ![op.a] = [sid |-> nextSid, c |-> op.c, op |-> op.id]])
           /\ nextSid' = nextSid + 1
           /\ Answers(p, op, [sid |-> nextSid, c |-> op.c])
  <2> DEFINE answer == [sid |-> nextSid, c |-> op.c]
             row == [sid |-> nextSid, c |-> op.c, op |-> op.id]
  <2>1. op.c \in Content /\ row \in Row /\ answer \in Kept
    BY <1>1, <1>3, <1>6 DEF Row, Kept
  <2>2. answer \in Answer \ {None} /\ answer # Refused /\ answer # Gone
    BY <2>1, NoneAssumption DEF Answer
  <2>3. rows' = [rows EXCEPT ![op.a] = row] /\ row # None
    BY <1>6, <1>4, <2>1 DEF Serves
  <2>4. at' = [a \in Anchors |-> IF rows'[a] # rows[a] THEN op.v ELSE at[a]]
    BY <1>6 DEF Serves
  <2>5. Known(rows'[op.a]) = Told(answer) /\ Agrees(ContentAt(rows', op.a), op.c)
    BY <1>1, <2>1, <2>2, <2>3, MergedAgrees DEF Known, Told, ContentAt
  <2>6. Served(p, op, answer)
    BY <1>1, <1>6, <2>1, <2>2, <2>3, <2>4, <2>5 DEF Served
  <2> QED  BY <2>2, <2>6
<1>7. CASE /\ op.kind = "create" /\ UNCHANGED nextSid
           /\ \E a \in Target(op) :
                LET new == IF rows[a].op = op.id THEN rows[a] ELSE Stored(rows[a], op)
                IN /\ Serves(op, [rows EXCEPT ![a] = new])
                   /\ Answers(p, op, [sid |-> new.sid, c |-> new.c])
  <2> DEFINE new == IF rows[op.a].op = op.id THEN rows[op.a] ELSE Stored(rows[op.a], op)
             answer == [sid |-> new.sid, c |-> new.c]
  <2>1. /\ Serves(op, [rows EXCEPT ![op.a] = new]) /\ Answers(p, op, answer) /\ rows[op.a] # None
    BY <1>2, <1>7
  <2>2. op.c \in Content /\ rows[op.a] \in Row
    BY <1>1, <1>3, <1>7, <2>1
  <2>3. Merged(rows[op.a].c, op.c) \in Content /\ Agrees(Merged(rows[op.a].c, op.c), op.c)
    BY <2>2, MergedAgrees DEF Row
  <2>4. /\ new \in Row /\ answer \in Kept /\ new.sid = rows[op.a].sid
        /\ new # rows[op.a] => Agrees(new.c, op.c)
    BY <1>1, <1>7, <2>2, <2>3 DEF Row, Kept, Stored
  <2>5. answer \in Answer \ {None} /\ answer # Refused /\ answer # Gone /\ new # None
    BY <1>4, <2>4, NoneAssumption DEF Answer
  <2>6. /\ rows' = [rows EXCEPT ![op.a] = new]
        /\ at' = [a \in Anchors |-> IF rows'[a] # rows[a] THEN op.v ELSE at[a]]
    BY <2>1 DEF Serves
  <2> HIDE DEF new
  <2>7. Known(rows'[op.a]) = Told(answer) /\ ContentAt(rows', op.a) = new.c
    BY <1>1, <2>5, <2>6 DEF Known, Told, ContentAt
  <2>8. Served(p, op, answer)
    BY <1>1, <1>7, <2>1, <2>4, <2>5, <2>6, <2>7 DEF Served
  <2> QED  BY <2>5, <2>8
<1>8. CASE /\ op.kind = "update" /\ UNCHANGED nextSid
           /\ \E a \in Target(op) :
                /\ Serves(op, [rows EXCEPT ![a] = Stored(@, op)])
                /\ Answers(p, op, [sid |-> op.sid, c |-> Merged(rows[a].c, op.c)])
  <2> DEFINE new == Stored(rows[op.a], op)
             answer == [sid |-> op.sid, c |-> Merged(rows[op.a].c, op.c)]
  <2>1. /\ Serves(op, [rows EXCEPT ![op.a] = new]) /\ Answers(p, op, answer) /\ rows[op.a] # None
        /\ rows[op.a].sid = op.sid
    BY <1>2, <1>8, <1>1 DEF Target
  <2>2. op.c \in Content /\ rows[op.a] \in Row
    BY <1>1, <1>3, <1>8, <2>1
  <2>3. Merged(rows[op.a].c, op.c) \in Content /\ Agrees(Merged(rows[op.a].c, op.c), op.c)
    BY <2>2, MergedAgrees DEF Row
  <2>4. /\ new \in Row /\ answer \in Kept /\ new.sid = rows[op.a].sid /\ answer = [sid |-> new.sid, c |-> new.c]
        /\ Agrees(new.c, op.c)
    BY <1>1, <1>8, <2>1, <2>2, <2>3 DEF Row, Kept, Stored
  <2>5. answer \in Answer \ {None} /\ answer # Refused /\ answer # Gone /\ new # None
    BY <1>4, <2>4, NoneAssumption DEF Answer
  <2>6. /\ rows' = [rows EXCEPT ![op.a] = new]
        /\ at' = [a \in Anchors |-> IF rows'[a] # rows[a] THEN op.v ELSE at[a]]
    BY <2>1 DEF Serves
  <2> HIDE DEF new
  <2>7. Known(rows'[op.a]) = Told(answer) /\ ContentAt(rows', op.a) = new.c
    BY <1>1, <2>4, <2>5, <2>6 DEF Known, Told, ContentAt
  <2>8. Served(p, op, answer)
    BY <1>1, <1>8, <2>1, <2>4, <2>5, <2>6, <2>7 DEF Served
  <2> QED  BY <2>5, <2>8
<1>9. CASE /\ op.kind = "delete" /\ UNCHANGED nextSid
           /\ \E a \in Target(op) : Serves(op, [rows EXCEPT ![a] = None])
           /\ Answers(p, op, Gone)
  <2>1. Serves(op, [rows EXCEPT ![op.a] = None]) /\ rows[op.a] # None
    BY <1>2, <1>9
  <2>2. Gone \in Answer \ {None} /\ Gone # Refused
    BY NoneAssumption DEF Answer
  <2>3. /\ rows' = [rows EXCEPT ![op.a] = None]
        /\ at' = [a \in Anchors |-> IF rows'[a] # rows[a] THEN op.v ELSE at[a]]
    BY <2>1 DEF Serves
  <2>4. Known(rows'[op.a]) = Told(Gone) /\ Agrees(ContentAt(rows', op.a), op.c) /\ rows'[op.a] = None
    BY <1>1, <1>9, <2>3 DEF Known, Told, ContentAt, Agrees
  <2>5. Served(p, op, Gone)
    BY <1>1, <1>9, <2>2, <2>3, <2>4 DEF Served
  <2> QED  BY <2>2, <2>5
<1> QED  BY <1>5, <1>6, <1>7, <1>8, <1>9 DEF Handle

---------------------------------------------------------------------------
(* The steps, as the passes, the baseline and the rows see them. *)

Begins(p) ==
  /\ pass[p] = Idle /\ Planned(drafts, base) # {}
  /\ pass' = [pass EXCEPT ![p] = [Idle EXCEPT !.todo = Planned(drafts, base)]]
  /\ UNCHANGED <<base, rows, nextSid>>

ServesOne(p) ==
  /\ \E op \in pass[p].todo, answer \in Answer : Served(p, op, answer)
  /\ pass[p].answer = None
  /\ UNCHANGED base

Ends(p) ==
  /\ pass' = [pass EXCEPT ![p] = Idle]
  /\ pass[p].answer \in {None, Refused} \/ pass[p].op.a \in doubted'
  /\ UNCHANGED <<base, rows, nextSid>>

Hears(p) ==
  /\ pass[p].answer \notin {None, Refused}
  /\ pass' = [pass EXCEPT ![p] = [Idle EXCEPT !.todo = pass[p].todo \ {pass[p].op}]]
  /\ base' = Rebased(pass[p].op, pass[p].answer)
  /\ UNCHANGED <<rows, nextSid>>

Rebuilds ==
  /\ base' = [a \in Anchors |-> Known(rows[a])]
  /\ UNCHANGED <<pass, rows, nextSid>>

Elsewhere == UNCHANGED <<pass, base, rows, nextSid>>

Kind == Elsewhere \/ Rebuilds \/ \E p \in Passes : Begins(p) \/ ServesOne(p) \/ Ends(p) \/ Hears(p)

\* Requests that cross do so until nothing is asked any more, and a doubt ends when the
\* clause is heard of or the baseline rebuilt.
Crosses ==
  /\ Both(pass') \subseteq crossed' /\ crossed' \subseteq doubted'
  /\ crossed \cap Asked(pass') \subseteq crossed'
  /\ \A a \in doubted \ doubted' :
        Rebuilds \/ \E p \in Passes : Hears(p) /\ pass[p].op.a = a /\ a \notin crossed

LEMMA UnmarkedCrosses ==
  ASSUME Alone, UNCHANGED <<crossed, doubted>>, \A q \in Passes : pass'[q].todo = pass[q].todo
  PROVE  Crosses
BY DEF Alone, Crosses, Both

\* What Recorded makes of the history of the passes.
LEMMA RecordedCrosses ==
  ASSUME Typed, NEW unheard \in SUBSET Anchors, NEW heard, Recorded(unheard, heard),
         pass' \in [Passes -> [todo: SUBSET Op, op: Op \cup {None}, answer: Answer]],
         log' \in [Anchors -> Seq(Content \cup {None})]
  PROVE  /\ crossed' \in SUBSET Anchors /\ doubted' \in SUBSET Anchors /\ mark' \in [Anchors -> Nat]
         /\ Both(pass') \subseteq crossed' /\ crossed' \subseteq doubted'
         /\ crossed \cap Asked(pass') \subseteq crossed'
         /\ doubted \ doubted' \subseteq heard \ crossed /\ unheard \subseteq doubted'
         /\ \/ mark' = mark /\ ~(flushPc # "idle" /\ flushPc' = "idle")
            \/ /\ mark' = [a \in Anchors |-> IF a \in doubted' THEN 0 ELSE Len(log'[a])]
               /\ Asked(pass') \subseteq crossed' /\ flushPc # "idle"
<1> DEFINE returns == flushPc # "idle" /\ flushPc' = "idle"
<1>1. /\ crossed' = Both(pass') \cup (IF returns THEN Asked(pass') ELSE crossed \cap Asked(pass'))
      /\ doubted' = (doubted \ (heard \ crossed)) \cup unheard \cup crossed'
      /\ mark' = IF returns THEN [a \in Anchors |-> IF a \in doubted' THEN 0 ELSE Len(log'[a])] ELSE mark
  BY DEF Recorded
<1>2. Both(pass') \subseteq Anchors /\ Asked(pass') \subseteq Anchors
  BY DEF Both, Asked, Op
<1>3. crossed \in SUBSET Anchors /\ doubted \in SUBSET Anchors /\ mark \in [Anchors -> Nat]
  BY DEF Typed
<1>4. \A a \in Anchors : Len(log'[a]) \in Nat
  OBVIOUS
<1> HIDE DEF returns
<1>5. crossed' \in SUBSET Anchors /\ doubted' \in SUBSET Anchors
  BY <1>1, <1>2, <1>3
<1>6. mark' \in [Anchors -> Nat]
  <2>1. [a \in Anchors |-> IF a \in doubted' THEN 0 ELSE Len(log'[a])] \in [Anchors -> Nat]
    BY <1>4
  <2> QED  BY <1>1, <1>3, <2>1
<1>7. /\ Both(pass') \subseteq crossed' /\ crossed' \subseteq doubted'
      /\ crossed \cap Asked(pass') \subseteq crossed'
      /\ doubted \ doubted' \subseteq heard \ crossed /\ unheard \subseteq doubted'
  BY <1>1
<1>8. CASE returns
  <2>1. /\ mark' = [a \in Anchors |-> IF a \in doubted' THEN 0 ELSE Len(log'[a])]
        /\ Asked(pass') \subseteq crossed'
    BY <1>1, <1>8
  <2> QED  BY <1>5, <1>6, <1>7, <1>8, <2>1 DEF returns
<1>9. CASE ~returns
  BY <1>1, <1>5, <1>6, <1>7, <1>9 DEF returns
<1> QED  BY <1>8, <1>9

\* What a plan asks is well formed, whatever the pass that begins with it.
LEMMA RequestsStep ==
  ASSUME Typed, RequestsOK, HistoryOK, Typed', Kind,
         \A a \in Anchors : Len(log'[a]) \in Nat /\ Len(log'[a]) >= Len(log[a])
  PROVE  RequestsOK'
<1>0. \A o \in Op : RequestOK(o) => RequestOK(o)'
  <2> SUFFICES ASSUME NEW o \in Op, RequestOK(o)
               PROVE  RequestOK(o)'
    OBVIOUS
  <2>1. o.a \in Anchors /\ Len(log[o.a]) \in Nat
    BY DEF Op, Typed
  <2> QED  BY <2>1 DEF RequestOK
<1>1. /\ pass \in [Passes -> [todo: SUBSET Op, op: Op \cup {None}, answer: Answer]]
      /\ Idle.todo = {} /\ Idle.answer = None
  BY DEF Typed, Idle
<1>2. ASSUME UNCHANGED pass
      PROVE  RequestsOK'
  BY <1>0, <1>1, <1>2 DEF RequestsOK
<1>3. ASSUME NEW p \in Passes, Begins(p)
      PROVE  RequestsOK'
  <2>1. \A o \in Planned(drafts, base) : o \in Op /\ RequestOK(o)
    BY PlannedOps
  <2>2. /\ pass'[p].todo = Planned(drafts, base) /\ pass'[p].answer = None /\ Planned(drafts, base) # {}
        /\ \A q \in Passes \ {p} : pass'[q] = pass[q]
    BY <1>1, <1>3 DEF Begins, Idle
  <2> QED  BY <1>0, <1>1, <2>1, <2>2 DEF RequestsOK
<1>4. ASSUME NEW p \in Passes, ServesOne(p)
      PROVE  RequestsOK'
  <2>1. PICK op \in pass[p].todo, answer \in Answer : Answers(p, op, answer)
    BY <1>4 DEF ServesOne, Served
  <2>2. /\ pass'[p].todo = pass[p].todo /\ pass'[p].op \in pass'[p].todo
        /\ \A q \in Passes \ {p} : pass'[q] = pass[q]
    BY <1>1, <2>1 DEF Answers
  <2> QED  BY <1>0, <1>1, <2>2 DEF RequestsOK
<1>5. ASSUME NEW p \in Passes, Ends(p)
      PROVE  RequestsOK'
  <2>1. pass'[p] = Idle /\ \A q \in Passes \ {p} : pass'[q] = pass[q]
    BY <1>1, <1>5 DEF Ends
  <2> QED  BY <1>0, <1>1, <2>1 DEF RequestsOK
<1>6. ASSUME NEW p \in Passes, Hears(p)
      PROVE  RequestsOK'
  <2>1. /\ pass'[p] = [Idle EXCEPT !.todo = pass[p].todo \ {pass[p].op}]
        /\ \A q \in Passes \ {p} : pass'[q] = pass[q]
    BY <1>1, <1>6 DEF Hears
  <2>2. /\ pass'[p].todo \subseteq pass[p].todo /\ pass'[p].answer = None
        /\ pass'[p].todo = {} => pass'[p] = Idle
    BY <2>1 DEF Idle
  <2> QED  BY <1>0, <1>1, <2>1, <2>2 DEF RequestsOK
<1> QED  BY <1>2, <1>3, <1>4, <1>5, <1>6 DEF Kind, Elsewhere, Rebuilds

\* Row ids are given in order, so what a request writes disturbs nobody's.
LEMMA ServedLeads ==
  ASSUME Typed, Homes, NEW p \in Passes, NEW op \in pass[p].todo, NEW answer \in Answer,
         Served(p, op, answer)
  PROVE  /\ \A sid \in Nat, a \in Anchors : LeadsTo(rows, nextSid, sid, a) => LeadsTo(rows', nextSid', sid, a)
         /\ \A a \in Anchors : rows'[a] # None => LeadsTo(rows', nextSid', rows'[a].sid, a)
         /\ answer \in Kept => LeadsTo(rows', nextSid', answer.sid, op.a)
<1>1. /\ nextSid \in Nat /\ nextSid' \in {nextSid, nextSid + 1} /\ op.a \in Anchors
      /\ rows \in [Anchors -> Row \cup {None}] /\ rows' \in [Anchors -> Row \cup {None}]
  BY DEF Typed, Served, Op
<1>2. \A x \in Anchors \ {op.a} : rows'[x] = rows[x]
  BY DEF Served
<1>3. rows'[op.a] # None =>
        \/ rows[op.a] # None /\ rows'[op.a].sid = rows[op.a].sid
        \/ rows'[op.a].sid = nextSid /\ nextSid' = nextSid + 1
  BY DEF Served
<1>4. ASSUME NEW sid \in Nat, NEW a \in Anchors, LeadsTo(rows, nextSid, sid, a)
      PROVE  LeadsTo(rows', nextSid', sid, a)
  BY <1>1, <1>2, <1>3, <1>4 DEF LeadsTo
<1>5. \A x \in Anchors : rows[x] # None => rows[x].sid \in Nat /\ LeadsTo(rows, nextSid, rows[x].sid, x)
  BY <1>1 DEF Homes, Row
<1>6. ASSUME NEW a \in Anchors, rows'[a] # None
      PROVE  LeadsTo(rows', nextSid', rows'[a].sid, a)
  <2>1. CASE rows[a] # None /\ rows'[a].sid = rows[a].sid
    BY <1>4, <1>5, <2>1
  <2>2. CASE a = op.a /\ rows'[a].sid = nextSid /\ nextSid' = nextSid + 1
    <3>1. \A x \in Anchors \ {a} : rows'[x] # None => rows'[x].sid < nextSid
      BY <1>2, <1>5, <2>2 DEF LeadsTo
    <3> QED  BY <1>1, <2>2, <3>1 DEF LeadsTo
  <2> QED  BY <1>2, <1>3, <1>6, <2>1, <2>2
<1>7. ASSUME answer \in Kept
      PROVE  LeadsTo(rows', nextSid', answer.sid, op.a)
  <2>1. answer \notin {None, Gone, Refused}
    BY <1>7, NoneAssumption
  <2>2. Known(rows'[op.a]) = answer
    BY <2>1 DEF Served, Told
  <2>3. rows'[op.a] # None /\ rows'[op.a].sid = answer.sid
    BY <2>1, <2>2 DEF Known
  <2> QED  BY <1>1, <1>6, <2>3
<1> QED  BY <1>4, <1>6, <1>7

LEMMA HomesStep ==
  ASSUME Typed, RequestsOK, HistoryOK, Homes, Kind
  PROVE  Homes'
<1>1. /\ pass \in [Passes -> [todo: SUBSET Op, op: Op \cup {None}, answer: Answer]]
      /\ Idle.todo = {} /\ Idle.answer = None /\ None \notin Kept
      /\ base \in [Anchors -> Kept \cup {None}] /\ rows \in [Anchors -> Row \cup {None}]
  BY NoneAssumption DEF Typed, Idle
<1>2. CASE Elsewhere
  BY <1>2 DEF Elsewhere, Homes, LeadsTo
<1>3. CASE Rebuilds
  <2>1. \A a \in Anchors : base'[a] # None => rows[a] # None /\ base'[a].sid = rows[a].sid
    BY <1>3 DEF Rebuilds, Known
  <2>2. \A sid, a : LeadsTo(rows, nextSid, sid, a) => LeadsTo(rows', nextSid', sid, a)
    BY <1>3 DEF Rebuilds, LeadsTo
  <2>3. pass' = pass /\ rows' = rows
    BY <1>3 DEF Rebuilds
  <2> QED  BY <2>1, <2>2, <2>3 DEF Homes
<1>4. ASSUME NEW p \in Passes, Begins(p)
      PROVE  Homes'
  <2>1. \A o \in Planned(drafts, base) : o \in Op /\ (o.kind # "create" => base[o.a] # None /\ o.sid = base[o.a].sid)
    BY PlannedOps
  <2>2. \A o \in Planned(drafts, base) : o.kind # "create" => LeadsTo(rows, nextSid, o.sid, o.a)
    BY <2>1 DEF Homes, Op
  <2>3. /\ pass'[p].todo = Planned(drafts, base) /\ pass'[p].answer = None
        /\ \A q \in Passes \ {p} : pass'[q] = pass[q]
        /\ base' = base /\ rows' = rows /\ nextSid' = nextSid
    BY <1>1, <1>4 DEF Begins, Idle
  <2>4. \A sid, a : LeadsTo(rows, nextSid, sid, a) => LeadsTo(rows', nextSid', sid, a)
    BY <2>3 DEF LeadsTo
  <2> QED  BY <1>1, <2>2, <2>3, <2>4 DEF Homes
<1>5. ASSUME NEW p \in Passes, ServesOne(p)
      PROVE  Homes'
  <2>1. PICK op \in pass[p].todo, answer \in Answer : Served(p, op, answer)
    BY <1>5 DEF ServesOne
  <2>2. /\ \A sid \in Nat, a \in Anchors : LeadsTo(rows, nextSid, sid, a) => LeadsTo(rows', nextSid', sid, a)
        /\ \A a \in Anchors : rows'[a] # None => LeadsTo(rows', nextSid', rows'[a].sid, a)
        /\ answer \in Kept => LeadsTo(rows', nextSid', answer.sid, op.a)
    BY <2>1, ServedLeads
  <2>3. /\ pass'[p].todo = pass[p].todo /\ pass'[p].op = op /\ pass'[p].answer = answer
        /\ \A q \in Passes \ {p} : pass'[q] = pass[q]
        /\ base' = base
    BY <1>1, <1>5, <2>1 DEF Served, Answers, ServesOne
  <2>4. ASSUME NEW q \in Passes
        PROVE  /\ \A o \in pass'[q].todo : o.kind # "create" => LeadsTo(rows', nextSid', o.sid, o.a)
               /\ pass'[q].answer \in Kept => LeadsTo(rows', nextSid', pass'[q].answer.sid, pass'[q].op.a)
    <3>1. pass'[q].todo = pass[q].todo /\ pass[q].todo \subseteq Op
      BY <1>1, <2>3
    <3>2. \A o \in pass[q].todo : o.sid \in Nat /\ o.a \in Anchors
      BY <3>1 DEF Op
    <3>3. CASE q = p
      BY <2>2, <2>3, <3>1, <3>2, <3>3 DEF Homes
    <3>4. CASE q # p
      <4>1. pass[q].answer \in Kept => pass[q].answer.sid \in Nat /\ pass[q].op.a \in Anchors
        BY <1>1, <3>1 DEF Kept, RequestsOK, Op
      <4> QED  BY <2>2, <2>3, <3>1, <3>2, <3>4, <4>1 DEF Homes
    <3> QED  BY <3>3, <3>4
  <2>5. \A a \in Anchors : base'[a] # None => LeadsTo(rows', nextSid', base'[a].sid, a)
    BY <1>1, <2>2, <2>3 DEF Homes, Kept
  <2> QED  BY <2>2, <2>4, <2>5 DEF Homes
<1>6. ASSUME NEW p \in Passes, Ends(p)
      PROVE  Homes'
  <2>1. /\ pass'[p] = Idle /\ \A q \in Passes \ {p} : pass'[q] = pass[q]
        /\ base' = base /\ rows' = rows /\ nextSid' = nextSid
    BY <1>1, <1>6 DEF Ends
  <2>2. \A sid, a : LeadsTo(rows, nextSid, sid, a) => LeadsTo(rows', nextSid', sid, a)
    BY <2>1 DEF LeadsTo
  <2> QED  BY <1>1, <2>1, <2>2 DEF Homes
<1>7. ASSUME NEW p \in Passes, Hears(p)
      PROVE  Homes'
  <2>1. /\ pass'[p].todo \subseteq pass[p].todo /\ pass'[p].answer = None
        /\ \A q \in Passes \ {p} : pass'[q] = pass[q]
        /\ rows' = rows /\ nextSid' = nextSid
    BY <1>1, <1>7 DEF Hears, Idle
  <2>2. \A sid, a : LeadsTo(rows, nextSid, sid, a) => LeadsTo(rows', nextSid', sid, a)
    BY <2>1 DEF LeadsTo
  <2>3. pass[p].answer \in Kept \cup {Gone} /\ pass[p].op \in Op
    BY <1>1, <1>7 DEF Hears, Answer, RequestsOK
  <2>4. \A a \in Anchors : base'[a] # None =>
           \/ base'[a] = base[a]
           \/ a = pass[p].op.a /\ pass[p].answer \in Kept /\ base'[a].sid = pass[p].answer.sid
    BY <1>1, <1>7, <2>3 DEF Hears, Rebased, Op
  <2>5. \A a \in Anchors : base'[a] # None => LeadsTo(rows', nextSid', base'[a].sid, a)
    BY <1>1, <2>2, <2>4 DEF Homes
  <2> QED  BY <1>1, <2>1, <2>2, <2>5 DEF Homes
<1> QED  BY <1>2, <1>3, <1>4, <1>5, <1>6, <1>7 DEF Kind

\* A pass at work on a clause that does not cross is alone on it.
LEMMA AloneOn ==
  ASSUME Alone, NEW p \in Passes, NEW q \in Passes, NEW op \in pass[p].todo, NEW o \in pass[q].todo,
         op.a = o.a, op.a \in Anchors \ crossed
  PROVE  p = q
BY DEF Alone, Both, Passes

LEMMA StaysCrossed ==
  ASSUME Crosses, NEW p \in Passes, NEW o \in pass'[p].todo, o.a \notin crossed'
  PROVE  o.a \notin crossed
BY DEF Crosses, Asked

LEMMA AnsweredStep ==
  ASSUME Typed, RequestsOK, Alone, Answered, Kind, Crosses
  PROVE  Answered'
<1>1. /\ pass \in [Passes -> [todo: SUBSET Op, op: Op \cup {None}, answer: Answer]]
      /\ Idle.todo = {} /\ Idle.answer = None
  BY DEF Typed, Idle
<1>2. ASSUME NEW q \in Passes, pass'[q] = pass[q], pass[q].answer \notin {None, Refused},
             pass[q].op.a \notin crossed', rows'[pass[q].op.a] = rows[pass[q].op.a]
      PROVE  Known(rows'[pass'[q].op.a]) = Told(pass'[q].answer)
  <2>1. pass[q].op \in pass'[q].todo
    BY <1>2 DEF RequestsOK
  <2>2. pass[q].op.a \notin crossed
    BY <1>2, <2>1, StaysCrossed
  <2> QED  BY <1>2, <2>2 DEF Answered
<1>3. CASE Elsewhere \/ Rebuilds
  BY <1>2, <1>3 DEF Elsewhere, Rebuilds, Answered
<1>4. ASSUME NEW p \in Passes, Begins(p) \/ Ends(p) \/ Hears(p)
      PROVE  Answered'
  <2>1. pass'[p].answer = None /\ (\A q \in Passes \ {p} : pass'[q] = pass[q]) /\ rows' = rows
    BY <1>1, <1>4 DEF Begins, Ends, Hears, Idle
  <2> QED  BY <1>2, <2>1 DEF Answered
<1>5. ASSUME NEW p \in Passes, ServesOne(p)
      PROVE  Answered'
  <2>1. PICK op \in pass[p].todo, answer \in Answer : Served(p, op, answer)
    BY <1>5 DEF ServesOne
  <2>2. /\ pass'[p].op = op /\ pass'[p].answer = answer /\ pass'[p].todo = pass[p].todo
        /\ \A q \in Passes \ {p} : pass'[q] = pass[q]
    BY <1>1, <2>1 DEF Served, Answers
  <2>3. /\ answer # Refused => Known(rows'[op.a]) = Told(answer)
        /\ \A a \in Anchors \ {op.a} : rows'[a] = rows[a]
    BY <2>1 DEF Served
  <2>4. ASSUME NEW q \in Passes \ {p}, pass[q].answer \notin {None, Refused}, pass[q].op.a \notin crossed'
        PROVE  rows'[pass[q].op.a] = rows[pass[q].op.a]
    <3>1. pass[q].op \in pass[q].todo /\ pass[q].op \in pass'[q].todo /\ pass[q].op.a \in Anchors
      BY <1>1, <2>2, <2>4 DEF RequestsOK, Op
    <3>2. pass[q].op.a \notin crossed
      BY <2>4, <3>1, StaysCrossed
    <3>3. op.a # pass[q].op.a
      BY <2>4, <3>1, <3>2, AloneOn
    <3> QED  BY <2>3, <3>1, <3>3
  <2> QED  BY <1>2, <2>2, <2>3, <2>4 DEF Answered
<1> QED  BY <1>3, <1>4, <1>5 DEF Kind

\* What is heard of a clause that does not cross is what its row is.
LEMMA HeardIsTrue ==
  ASSUME Typed, RequestsOK, Answered, NEW p \in Passes, Hears(p)
  PROVE  /\ base' = [base EXCEPT ![pass[p].op.a] = Told(pass[p].answer)]
         /\ pass[p].op.a \in Anchors /\ rows' = rows
         /\ pass[p].op.a \notin crossed => base'[pass[p].op.a] = Known(rows'[pass[p].op.a])
<1>1. /\ pass \in [Passes -> [todo: SUBSET Op, op: Op \cup {None}, answer: Answer]]
      /\ base \in [Anchors -> Kept \cup {None}]
  BY DEF Typed
<1>2. pass[p].answer \in Kept \cup {Gone} /\ pass[p].op \in Op /\ pass[p].op.a \in Anchors
  BY <1>1 DEF Answer, RequestsOK, Hears, Op
<1>3. base' = [base EXCEPT ![pass[p].op.a] = Told(pass[p].answer)]
  BY <1>2 DEF Hears, Rebased, Told, Kept
<1> QED  BY <1>1, <1>2, <1>3 DEF Hears, Answered

LEMMA TruthfulStep ==
  ASSUME Typed, RequestsOK, Alone, Answered, Truthful, Kind, Crosses
  PROVE  Truthful'
<1> SUFFICES ASSUME NEW a \in Anchors, a \notin doubted', ~Expected(a)'
             PROVE  base'[a] = Known(rows'[a])
  BY DEF Truthful
<1>1. /\ pass \in [Passes -> [todo: SUBSET Op, op: Op \cup {None}, answer: Answer]]
      /\ Idle.todo = {} /\ Idle.answer = None
      /\ base \in [Anchors -> Kept \cup {None}] /\ rows \in [Anchors -> Row \cup {None}]
  BY DEF Typed, Idle
<1>2. Rebuilds => base'[a] = Known(rows'[a])
  BY DEF Rebuilds
<1>3. ASSUME NEW p \in Passes, Hears(p), pass[p].op.a = a, a \notin crossed
      PROVE  base'[a] = Known(rows'[a])
  BY <1>3, HeardIsTrue
<1>4. CASE a \in doubted
  BY <1>2, <1>3, <1>4 DEF Crosses
<1>5. CASE a \notin doubted
  <2>0. a \notin crossed /\ (~Expected(a) => base[a] = Known(rows[a]))
    BY <1>5 DEF Alone, Truthful
  <2>1. CASE Elsewhere
    BY <2>0, <2>1 DEF Elsewhere, Expected
  <2>2. ASSUME NEW p \in Passes, Begins(p)
        PROVE  base'[a] = Known(rows'[a])
    <3>1. pass[p].answer = None /\ \A q \in Passes \ {p} : pass'[q] = pass[q]
      BY <1>1, <2>2 DEF Begins
    <3> QED  BY <2>0, <2>2, <3>1 DEF Begins, Expected
  <2>3. ASSUME NEW p \in Passes, ServesOne(p)
        PROVE  base'[a] = Known(rows'[a])
    <3>1. PICK op \in pass[p].todo, answer \in Answer : Served(p, op, answer)
      BY <2>3 DEF ServesOne
    <3>2. /\ pass'[p].op = op /\ pass'[p].answer = answer /\ pass[p].answer = None
          /\ \A q \in Passes \ {p} : pass'[q] = pass[q]
          /\ base' = base
      BY <1>1, <2>3, <3>1 DEF Served, Answers, ServesOne
    <3>3. ~Expected(a)
      BY <3>2 DEF Expected
    <3>4. answer # None /\ (a = op.a => answer = Refused)
      BY <3>1, <3>2 DEF Expected, Served
    <3>5. rows'[a] = rows[a]
      BY <3>1, <3>4 DEF Served
    <3> QED  BY <2>0, <3>2, <3>3, <3>5
  <2>4. ASSUME NEW p \in Passes, Ends(p)
        PROVE  base'[a] = Known(rows'[a])
    <3>1. \A q \in Passes \ {p} : pass'[q] = pass[q]
      BY <1>1, <2>4 DEF Ends
    <3>2. /\ base' = base /\ rows' = rows
          /\ pass[p].answer \in {None, Refused} \/ pass[p].op.a # a
      BY <2>4 DEF Ends
    <3> QED  BY <2>0, <3>1, <3>2 DEF Expected
  <2>5. ASSUME NEW p \in Passes, Hears(p)
        PROVE  base'[a] = Known(rows'[a])
    <3>1. CASE a = pass[p].op.a
      BY <1>3, <2>0, <2>5, <3>1
    <3>2. CASE a # pass[p].op.a
      <4>1. base'[a] = base[a] /\ rows' = rows
        BY <1>1, <2>5, <3>2, HeardIsTrue
      <4>2. \A q \in Passes \ {p} : pass'[q] = pass[q]
        BY <1>1, <2>5 DEF Hears
      <4>3. ~Expected(a)
        BY <3>2, <4>2 DEF Expected
      <4> QED  BY <2>0, <4>1, <4>3
    <3> QED  BY <3>1, <3>2
  <2> QED  BY <1>2, <2>1, <2>2, <2>3, <2>4, <2>5 DEF Kind
<1> QED  BY <1>4, <1>5

---------------------------------------------------------------------------
(* What each action does. *)

LEMMA DebouncedOK ==
  ASSUME NEW k, CtlOK(k), NEW ds, NEW b
  PROVE  CtlOK(Debounced(k, ds, b))
<1> DEFINE cleared == IF k.hooked THEN FALSE ELSE k.timer
<1>1. cleared \in BOOLEAN
  BY DEF CtlOK
<1>2. Debounced(k, ds, b) \in {[k EXCEPT !.timer = cleared, !.hooked = FALSE], [k EXCEPT !.timer = TRUE, !.hooked = TRUE]}
  BY DEF Debounced
<1> HIDE DEF cleared
<1> QED  BY <1>1, <1>2 DEF CtlOK

LEMMA AutoOverOK ==
  ASSUME NEW k, CtlOK(k), NEW outcome \in {"ok", "transient"}, NEW b
  PROVE  CtlOK(AutoOver(k, outcome, b))
<1>1. MaxAttempts \in Nat
  BY BoundsAssumption
<1>2. \/ AutoOver(k, outcome, b) \in {k, [k EXCEPT !.timer = TRUE]}
      \/ /\ k.attempts < MaxAttempts
         /\ AutoOver(k, outcome, b) =
              [k EXCEPT !.attempts = @ + 1, !.timer = TRUE, !.saveState = "retrying"]
      \/ AutoOver(k, outcome, b) = [k EXCEPT !.attempts = @ + 1, !.saveState = "error"]
  BY DEF AutoOver
<1>3. k.attempts \in Nat /\ (k.attempts < MaxAttempts => k.attempts + 1 <= MaxAttempts)
  BY <1>1 DEF CtlOK
<1>4. CtlOK([k EXCEPT !.timer = TRUE])
  BY DEF CtlOK
<1>5. CtlOK([k EXCEPT !.attempts = @ + 1, !.saveState = "error"])
  <2> DEFINE n == k.attempts + 1
  <2>1. n \in Nat
    BY <1>3
  <2> HIDE DEF n
  <2>2. CtlOK([k EXCEPT !.attempts = n, !.saveState = "error"])
    BY <2>1 DEF CtlOK
  <2> QED  BY <2>2 DEF n
<1>6. k.attempts < MaxAttempts =>
        CtlOK([k EXCEPT !.attempts = @ + 1, !.timer = TRUE, !.saveState = "retrying"])
  <2> DEFINE n == k.attempts + 1
  <2>1. n \in Nat /\ (k.attempts < MaxAttempts => n <= MaxAttempts)
    BY <1>3
  <2> HIDE DEF n
  <2>2. n <= MaxAttempts => CtlOK([k EXCEPT !.attempts = n, !.timer = TRUE, !.saveState = "retrying"])
    BY <2>1 DEF CtlOK
  <2> QED  BY <2>1, <2>2 DEF n
<1> QED  BY <1>2, <1>4, <1>5, <1>6

LEMMA CtlClears ==
  ASSUME NEW k, CtlOK(k)
  PROVE  /\ CtlOK([k EXCEPT !.timer = FALSE, !.terminal = FALSE, !.attempts = 0])
         /\ CtlOK([k EXCEPT !.terminal = FALSE, !.attempts = 0])
         /\ CtlOK([k EXCEPT !.saveState = "saved", !.attempts = 0])
         /\ CtlOK([k EXCEPT !.saveState = "offline"])
         /\ CtlOK([k EXCEPT !.timer = IF k.hooked THEN FALSE ELSE @, !.hooked = FALSE])
<1>1. 0 <= MaxAttempts
  BY BoundsAssumption
<1>2. CtlOK([k EXCEPT !.timer = FALSE, !.terminal = FALSE, !.attempts = 0])
  BY <1>1 DEF CtlOK
<1>3. CtlOK([k EXCEPT !.terminal = FALSE, !.attempts = 0])
  BY <1>1 DEF CtlOK
<1>4. CtlOK([k EXCEPT !.saveState = "saved", !.attempts = 0])
  BY <1>1 DEF CtlOK
<1>5. CtlOK([k EXCEPT !.saveState = "offline"])
  BY DEF CtlOK
<1>6. CtlOK([k EXCEPT !.timer = IF k.hooked THEN FALSE ELSE @, !.hooked = FALSE])
  <2> DEFINE cleared == IF k.hooked THEN FALSE ELSE k.timer
  <2>1. cleared \in BOOLEAN
    BY DEF CtlOK
  <2> HIDE DEF cleared
  <2>2. CtlOK([k EXCEPT !.timer = cleared, !.hooked = FALSE])
    BY <2>1 DEF CtlOK
  <2> QED  BY <2>2 DEF cleared
<1> QED  BY <1>2, <1>3, <1>4, <1>5, <1>6

\* How a step writes the history.
Records ==
  \/ UNCHANGED <<drafts, log>>
  \/ Logged(drafts')
  \/ gate' = "left" /\ UNCHANGED log
Marked == mark' = [a \in Anchors |-> IF a \in doubted' THEN 0 ELSE Len(log'[a])]
Marks == mark' = mark \/ Marked
Places == at' = at \/ \E p \in Passes : \E op \in pass[p].todo, answer \in Answer : Served(p, op, answer)

LEMMA HistoryStep ==
  ASSUME Typed, Typed', RequestsOK, HistoryOK, Records, Marks, Places,
         gate' # "left" => gate # "left"
  PROVE  /\ HistoryOK'
         /\ \A a \in Anchors : Len(log'[a]) \in Nat /\ Len(log'[a]) >= Len(log[a])
<1>1. \A a \in Anchors : Len(log[a]) \in Nat /\ Len(log'[a]) \in Nat
  BY DEF Typed
<1>2. /\ \A a \in Anchors : Len(log'[a]) >= Len(log[a])
      /\ \A a \in Anchors : gate' # "left" => log'[a][Len(log'[a])] = ContentAt(drafts', a)
  <2>1. CASE UNCHANGED <<drafts, log>>
    BY <1>1, <2>1 DEF HistoryOK, ContentAt
  <2>2. CASE Logged(drafts')
    <3>1. drafts' \in [Anchors -> Draft \cup {None}]
      BY DEF Typed
    <3> QED  BY <2>2, <3>1, LoggedGrows DEF HistoryOK
  <2>3. CASE gate' = "left" /\ UNCHANGED log
    BY <1>1, <2>3
  <2> QED  BY <2>1, <2>2, <2>3 DEF Records
<1>3. \A a \in Anchors : mark'[a] \in 0 .. Len(log'[a])
  <2>1. CASE mark' = mark
    BY <1>1, <1>2, <2>1 DEF HistoryOK
  <2>2. CASE Marked
    BY <1>1, <2>2 DEF Marked
  <2> QED  BY <2>1, <2>2 DEF Marks
<1>4. \A a \in Anchors : at'[a] \in 1 .. Len(log'[a])
  <2>1. CASE at' = at
    BY <1>1, <1>2, <2>1 DEF HistoryOK
  <2>2. ASSUME NEW p \in Passes, NEW op \in pass[p].todo, NEW answer \in Answer, Served(p, op, answer)
        PROVE  \A a \in Anchors : at'[a] \in 1 .. Len(log'[a])
    <3>1. op.v \in 1 .. Len(log[op.a]) /\ op.a \in Anchors
      BY DEF RequestsOK, RequestOK, Typed, Op
    <3>2. \A a \in Anchors : at'[a] = at[a] \/ (a = op.a /\ at'[a] = op.v)
      BY <2>2, <3>1 DEF Served
    <3> QED  BY <1>1, <1>2, <3>1, <3>2 DEF HistoryOK
  <2> QED  BY <2>1, <2>2 DEF Places
<1> QED  BY <1>1, <1>2, <1>3, <1>4 DEF HistoryOK

LEMMA ReturnsStep ==
  ASSUME gate \in {"submitting", "locking"}, NEW ds, NEW b, Returns(ds, b)
  PROVE  /\ flushPc' = "idle" /\ gate' \in {"versioning", "open", "freezing"}
         /\ gate' = "versioning" => InSync(ds, b)
<1>1. CASE gate = "submitting"
  <2>1. gate' = IF InSync(ds, b) THEN "versioning" ELSE "open"
    BY <1>1 DEF Returns
  <2> QED  BY <2>1 DEF Returns
<1>2. CASE gate = "locking"
  <2>1. gate' = "freezing"
    BY <1>2 DEF Returns
  <2> QED  BY <2>1 DEF Returns
<1> QED  BY <1>1, <1>2

LEMMA OverStep ==
  ASSUME Typed, Phases, NEW p \in Passes, pass[p].todo # {}, NEW k, CtlOK(k),
         NEW outcome \in {"ok", "transient"}, NEW b, NEW ds, Over(p, k, outcome, b, ds),
         UNCHANGED round
  PROVE  /\ pass' = [pass EXCEPT ![p] = Idle] /\ base' = b /\ drafts' = ds
         /\ CtlOK(ctl') /\ Phases'
         /\ flushPc' \in {"idle", "wait", "run", "pause"} /\ gate' \in Gates
         /\ gate' = "left" <=> gate = "left"
         /\ gate' = "versioning" => gate = "versioning" \/ (InSync(ds, b) /\ flushPc # "idle")
<1>1. pass' = [pass EXCEPT ![p] = Idle] /\ base' = b /\ drafts' = ds
  BY DEF Over
<1>2. pass \in [Passes -> [todo: SUBSET Op, op: Op \cup {None}, answer: Answer]] /\ Idle.todo = {}
  BY DEF Typed, Idle
<1> DEFINE freed == [k EXCEPT !.syncing = FALSE]
<1>3. CtlOK(freed)
  BY DEF CtlOK
<1>4. CASE p = "auto"
  <2>1. ctl' = AutoOver(freed, outcome, b) /\ UNCHANGED <<flushPc, gate>>
    BY <1>4 DEF Over
  <2>2. CtlOK(ctl')
    BY <1>3, <2>1, AutoOverOK
  <2>3. pass'["flush"] = pass["flush"]
    BY <1>1, <1>2, <1>4 DEF Passes
  <2> QED  BY <1>1, <2>1, <2>2, <2>3 DEF Typed, Phases
<1>5. CASE p = "flush"
  <2>1. /\ ctl' = IF ds # drafts THEN Debounced(freed, ds, b) ELSE freed
        /\ IF freed.terminal THEN Returns(ds, b)
           ELSE flushPc' = "pause" /\ UNCHANGED gate
    BY <1>5 DEF Over
  <2>2. CtlOK(ctl')
    BY <1>3, <2>1, DebouncedOK
  <2>3. flushPc = "run" /\ gate \in {"submitting", "locking"}
    BY <1>5 DEF Phases
  <2>4. pass'["flush"].todo = {}
    BY <1>1, <1>2, <1>5
  <2>5. CASE Returns(ds, b)
    <3>1. /\ flushPc' = "idle" /\ gate' \in {"versioning", "open", "freezing"}
          /\ gate' = "versioning" => InSync(ds, b)
      BY <2>3, <2>5, ReturnsStep
    <3> QED  BY <1>1, <1>5, <2>2, <2>3, <2>4, <3>1 DEF Phases, Gates
  <2>6. CASE flushPc' = "pause" /\ UNCHANGED gate
    BY <1>1, <2>2, <2>3, <2>4, <2>6 DEF Phases, Gates
  <2> QED  BY <2>1, <2>5, <2>6
<1> QED  BY <1>4, <1>5 DEF Passes

LEMMA BeginStep ==
  ASSUME Typed, RequestsOK, HistoryOK, NEW p \in Passes, NEW k, CtlOK(k), Begin(p, k), pass[p] = Idle,
         Planned(drafts, base) # {}, UNCHANGED <<base, rows, nextSid>>
  PROVE  /\ Begins(p) /\ CtlOK(ctl')
         /\ pass' \in [Passes -> [todo: SUBSET Op, op: Op \cup {None}, answer: Answer]]
         /\ pass'[p].todo # {} /\ \A q \in Passes \ {p} : pass'[q] = pass[q]
<1>1. Begins(p)
  BY DEF Begin, Begins
<1>2. ctl' = [k EXCEPT !.syncing = TRUE, !.saveState = "saving"]
  BY DEF Begin
<1>3. CtlOK(ctl')
  BY <1>2 DEF CtlOK
<1>4. Planned(drafts, base) \subseteq Op
  BY PlannedOps
<1>5. [Idle EXCEPT !.todo = Planned(drafts, base)] \in [todo: SUBSET Op, op: Op \cup {None}, answer: Answer]
  BY <1>4 DEF Idle, Answer
<1>6. pass \in [Passes -> [todo: SUBSET Op, op: Op \cup {None}, answer: Answer]]
  BY DEF Typed
<1>7. pass' = [pass EXCEPT ![p] = [Idle EXCEPT !.todo = Planned(drafts, base)]]
  BY DEF Begin
<1>8. pass'[p].todo # {} /\ \A q \in Passes \ {p} : pass'[q] = pass[q]
  BY <1>6, <1>7 DEF Idle
<1> QED  BY <1>1, <1>3, <1>5, <1>6, <1>7, <1>8

\* The runner starts a pass or does not.
AutoRan ==
  /\ CtlOK(ctl')
  /\ pass' \in [Passes -> [todo: SUBSET Op, op: Op \cup {None}, answer: Answer]]
  /\ pass'["flush"] = pass["flush"]
  /\ Elsewhere \/ Begins("auto")

LEMMA RunAutoStep ==
  ASSUME Typed, RequestsOK, HistoryOK, NEW k, CtlOK(k), RunAuto(k), UNCHANGED <<base, rows, nextSid>>
  PROVE  AutoRan
<1>1. CASE ctl' = k /\ UNCHANGED pass
  BY <1>1 DEF Elsewhere, Typed, AutoRan
<1>2. CASE ctl' = [k EXCEPT !.saveState = "offline", !.listening = TRUE] /\ UNCHANGED pass
  <2>1. CtlOK(ctl')
    BY <1>2 DEF CtlOK
  <2> QED  BY <1>2, <2>1 DEF Elsewhere, Typed, AutoRan
<1>3. CASE ~Active("auto") /\ Begin("auto", k) /\ Planned(drafts, base) # {}
  <2>1. pass["auto"] = Idle /\ "auto" \in Passes /\ "flush" \in Passes \ {"auto"}
    BY <1>3 DEF Active, Passes
  <2> QED  BY <1>3, <2>1, BeginStep DEF AutoRan
<1> QED  BY <1>1, <1>2, <1>3 DEF RunAuto

\* Who waits for the flush: a submission goes on once the flush left nothing to send.
Freezing ==
  gate' = "versioning" =>
     \/ gate = "versioning" /\ mark' = mark
     \/ InSync(drafts', base') /\ Marked /\ Asked(pass') \subseteq crossed'

Effect ==
  /\ Kind /\ Typed' /\ Phases' /\ Records /\ Marks /\ Places /\ Freezing /\ Crosses
  /\ gate = "left" => gate' = "left"
  /\ gate' = "left" => gate = "left" \/ MayLeave

Inv0 == Typed /\ RequestsOK /\ Phases /\ HistoryOK /\ Alone

PassType == [Passes -> [todo: SUBSET Op, op: Op \cup {None}, answer: Answer]]
LogType == [Anchors -> Seq(Content \cup {None})]

LEMMA RecordedStep ==
  ASSUME Inv0, NEW unheard \in SUBSET Anchors, NEW heard, Recorded(unheard, heard),
         pass' \in PassType, log' \in LogType, Phases',
         \A a \in heard : \E p \in Passes : Hears(p) /\ pass[p].op.a = a,
         gate' = "versioning" => gate = "versioning" \/ (InSync(drafts', base') /\ flushPc # "idle")
  PROVE  /\ crossed' \in SUBSET Anchors /\ doubted' \in SUBSET Anchors /\ mark' \in [Anchors -> Nat]
         /\ Crosses /\ Freezing /\ Marks /\ unheard \subseteq doubted'
<1>1. /\ crossed' \in SUBSET Anchors /\ doubted' \in SUBSET Anchors /\ mark' \in [Anchors -> Nat]
      /\ Both(pass') \subseteq crossed' /\ crossed' \subseteq doubted'
      /\ crossed \cap Asked(pass') \subseteq crossed'
      /\ doubted \ doubted' \subseteq heard \ crossed /\ unheard \subseteq doubted'
      /\ \/ mark' = mark /\ ~(flushPc # "idle" /\ flushPc' = "idle")
         \/ Marked /\ Asked(pass') \subseteq crossed' /\ flushPc # "idle"
  BY RecordedCrosses DEF Inv0, PassType, LogType, Marked
<1>2. Crosses
  BY <1>1 DEF Crosses
<1>3. Freezing
  <2>1. gate = "versioning" => flushPc = "idle"
    BY DEF Inv0, Phases
  <2>2. gate' = "versioning" => flushPc' = "idle"
    BY DEF Phases
  <2> QED  BY <1>1, <2>1, <2>2 DEF Freezing
<1> QED  BY <1>1, <1>2, <1>3 DEF Marks

LEMMA AutoSteps ==
  ASSUME Inv0, TimerFires \/ ManualRetry \/ Reconnect
  PROVE  Effect
<1>1. /\ UNCHANGED <<drafts, nextId, base, flushPc, round, gate, rows, nextSid, log, at>>
      /\ Recorded({}, {})
  BY DEF TimerFires, ManualRetry, Reconnect, server
<1>2. AutoRan
  <2>1. CASE TimerFires
    <3>1. CtlOK([ctl EXCEPT !.timer = FALSE])
      BY DEF Inv0, Typed, CtlOK
    <3> QED  BY <1>1, <2>1, <3>1, RunAutoStep DEF TimerFires, Inv0
  <2>2. CASE ManualRetry
    <3>1. CtlOK([ctl EXCEPT !.attempts = 0, !.terminal = FALSE, !.saveState = "saving"])
      BY DEF Inv0, Typed, CtlOK
    <3> QED  BY <1>1, <2>2, <3>1, RunAutoStep DEF ManualRetry, Inv0
  <2>3. CASE Reconnect
    <3>1. CtlOK(ctl) /\ CtlOK([ctl EXCEPT !.listening = FALSE])
      BY DEF Inv0, Typed, CtlOK
    <3>2. CASE ctl' \in {ctl, [ctl EXCEPT !.listening = FALSE]} /\ UNCHANGED pass
      BY <1>1, <3>1, <3>2 DEF AutoRan, Elsewhere, Inv0, Typed
    <3>3. CASE /\ Begin("auto", [ctl EXCEPT !.listening = FALSE])
               /\ Planned(drafts, base) # {} /\ ~Active("auto")
      <4>1. pass["auto"] = Idle /\ "auto" \in Passes /\ "flush" \in Passes \ {"auto"}
        BY <3>3 DEF Active, Passes
      <4> QED  BY <1>1, <3>1, <3>3, <4>1, BeginStep DEF AutoRan, Inv0
    <3> QED  BY <2>3, <3>2, <3>3 DEF Reconnect
  <2> QED  BY <2>1, <2>2, <2>3
<1>3. Kind
  BY <1>2 DEF AutoRan, Kind, Passes
<1>4. Phases'
  BY <1>1, <1>2 DEF AutoRan, Inv0, Phases
<1>5. pass' \in PassType /\ log' \in LogType
  BY <1>1, <1>2 DEF AutoRan, PassType, LogType, Inv0, Typed
<1>6. /\ crossed' \in SUBSET Anchors /\ doubted' \in SUBSET Anchors /\ mark' \in [Anchors -> Nat]
      /\ Crosses /\ Freezing /\ Marks
  BY <1>1, <1>4, <1>5, RecordedStep
<1>7. Typed'
  BY <1>1, <1>2, <1>6 DEF AutoRan, Inv0, Typed
<1> QED  BY <1>1, <1>3, <1>4, <1>6, <1>7 DEF Effect, Records, Places

LEMMA QuietSteps ==
  ASSUME Inv0, \/ Disconnect \/ CreateVersion \/ Freeze \/ CloseFails \/ UNCHANGED vars
               \/ \E what \in {"submitting", "locking"} : Close(what)
  PROVE  Effect
<1>1. /\ UNCHANGED <<drafts, nextId, base, rows, nextSid, pass, log, at, mark, crossed, doubted>>
      /\ \/ UNCHANGED <<ctl, flushPc, round, gate>>
         \/ /\ UNCHANGED <<ctl, flushPc, round>>
            /\ gate \in {"versioning", "publishing", "freezing"} /\ gate' \in {"publishing", "frozen", "open"}
         \/ /\ gate = "open" /\ gate' \in {"submitting", "locking"} /\ flushPc' = "wait" /\ round' = 0
            /\ ctl' = [ctl EXCEPT !.timer = FALSE, !.terminal = FALSE, !.attempts = 0]
  BY DEF Disconnect, CreateVersion, Freeze, CloseFails, Close, vars, server, marks
<1>2. CtlOK(ctl) /\ CtlOK([ctl EXCEPT !.timer = FALSE, !.terminal = FALSE, !.attempts = 0])
  <2>1. CtlOK(ctl)
    BY DEF Inv0, Typed
  <2>2. CtlOK([ctl EXCEPT !.timer = FALSE, !.terminal = FALSE, !.attempts = 0])
    BY <2>1, CtlClears
  <2> QED  BY <2>1, <2>2
<1>3. CtlOK(ctl') /\ gate' \in Gates /\ flushPc' \in {"idle", "wait", "run", "pause"} /\ round' \in 0 .. MaxRounds
  <2>1. 0 \in 0 .. MaxRounds
    BY BoundsAssumption
  <2> QED  BY <1>1, <1>2, <2>1 DEF Inv0, Typed, Gates
<1>4. Typed'
  BY <1>1, <1>3 DEF Inv0, Typed
<1>5. Phases'
  BY <1>1 DEF Inv0, Phases
<1>6. Kind
  BY <1>1 DEF Kind, Elsewhere
<1>7. Freezing /\ Crosses
  BY <1>1, UnmarkedCrosses DEF Freezing, Inv0
<1> QED  BY <1>1, <1>4, <1>5, <1>6, <1>7 DEF Effect, Records, Marks, Places

LEMMA ServeStep ==
  ASSUME Inv0, Homes, NEW p \in Passes, Serve(p)
  PROVE  Effect
<1>1. /\ UNCHANGED <<drafts, nextId, base, ctl, flushPc, round, gate, log, mark, crossed, doubted>>
      /\ pass[p].answer = None
  BY DEF Serve, marks
<1>2. PICK op \in pass[p].todo : Handle(p, op)
  BY DEF Serve, Heads
<1>3. op \in Op /\ (op.c = None <=> op.kind = "delete") /\ op.v \in Nat
  <2>1. op \in Op
    BY DEF Inv0, Typed
  <2> QED  BY <2>1 DEF Inv0, RequestsOK, RequestOK, Op
<1>4. PICK answer \in Answer : Served(p, op, answer)
  BY <1>2, <1>3, HandleServes DEF Inv0
<1>5. ServesOne(p)
  BY <1>1, <1>4 DEF ServesOne
<1>6. /\ rows' \in [Anchors -> Row \cup {None}] /\ nextSid' \in Nat /\ at' \in [Anchors -> Nat]
      /\ pass' \in [Passes -> [todo: SUBSET Op, op: Op \cup {None}, answer: Answer]]
      /\ \A q \in Passes : pass'[q].todo = pass[q].todo
  <2>1. pass' = [pass EXCEPT ![p].op = op, ![p].answer = answer]
    BY <1>4 DEF Served, Answers
  <2>2. pass \in [Passes -> [todo: SUBSET Op, op: Op \cup {None}, answer: Answer]] /\ nextSid \in Nat
    BY DEF Inv0, Typed
  <2>3. /\ pass' \in [Passes -> [todo: SUBSET Op, op: Op \cup {None}, answer: Answer]]
        /\ \A q \in Passes : pass'[q].todo = pass[q].todo
    BY <1>3, <2>1, <2>2
  <2> QED  BY <1>4, <2>2, <2>3 DEF Served
<1>7. Typed'
  BY <1>1, <1>6 DEF Inv0, Typed
<1>8. Phases'
  BY <1>1, <1>6 DEF Inv0, Phases, Passes
<1>9. Kind /\ Places /\ Crosses
  BY <1>1, <1>4, <1>5, <1>6, UnmarkedCrosses DEF Kind, Places, Inv0
<1> QED  BY <1>1, <1>7, <1>8, <1>9 DEF Effect, Records, Marks, Freezing

LEMMA FailSteps ==
  ASSUME Inv0, NEW p \in Passes, LoseRequest(p) \/ LoseAnswer(p) \/ Rejected(p)
  PROVE  Effect
<1>1. /\ UNCHANGED <<nextId, round, rows, nextSid, log, at>>
      /\ \E kind \in {"transient", "client"} : Fails(p, kind)
  BY DEF LoseRequest, LoseAnswer, Rejected, server
<1>2. pass[p].todo # {}
  BY NoneAssumption DEF LoseRequest, LoseAnswer, Rejected, Inv0, RequestsOK
<1>3. PICK k : CtlOK(k) /\ Over(p, k, "transient", base, drafts)
  <2>1. CtlOK(ctl) /\ CtlOK([ctl EXCEPT !.terminal = TRUE, !.saveState = "error"])
    BY DEF Inv0, Typed, CtlOK
  <2> QED  BY <1>1, <2>1 DEF Fails
<1>4. /\ pass' = [pass EXCEPT ![p] = Idle] /\ base' = base /\ drafts' = drafts
      /\ CtlOK(ctl') /\ Phases'
      /\ flushPc' \in {"idle", "wait", "run", "pause"} /\ gate' \in Gates
      /\ gate' = "left" <=> gate = "left"
      /\ gate' = "versioning" => gate = "versioning" \/ (InSync(drafts, base) /\ flushPc # "idle")
  BY <1>1, <1>2, <1>3, OverStep DEF Inv0
<1>5. Idle \in [todo: SUBSET Op, op: Op \cup {None}, answer: Answer]
  BY DEF Idle, Answer
<1>6. pass' \in PassType /\ log' \in LogType
  BY <1>1, <1>4, <1>5 DEF Inv0, Typed, PassType, LogType
<1>7. PICK unheard \in SUBSET Anchors :
         /\ Recorded(unheard, {})
         /\ pass[p].answer \in {None, Refused} \/ pass[p].op.a \in unheard
  <2>1. CASE LoseRequest(p) \/ Rejected(p)
    BY <2>1 DEF LoseRequest, Rejected
  <2>2. CASE LoseAnswer(p)
    <3>1. pass[p].op.a \in Anchors
      BY <2>2 DEF LoseAnswer, Inv0, RequestsOK, Typed, Op
    <3> QED  BY <2>2, <3>1 DEF LoseAnswer
  <2> QED  BY <2>1, <2>2
<1>8. InSync(drafts, base) => InSync(drafts', base')
  BY <1>4
<1>9. /\ crossed' \in SUBSET Anchors /\ doubted' \in SUBSET Anchors /\ mark' \in [Anchors -> Nat]
      /\ Crosses /\ Freezing /\ Marks /\ unheard \subseteq doubted'
  <2>1. gate' = "versioning" => gate = "versioning" \/ (InSync(drafts', base') /\ flushPc # "idle")
    BY <1>4, <1>8
  <2>2. Phases'
    BY <1>4
  <2> QED  BY <1>6, <1>7, <2>1, <2>2, RecordedStep
<1>10. Typed'
  BY <1>1, <1>4, <1>6, <1>9 DEF Inv0, Typed, PassType
<1>11. Kind
  BY <1>1, <1>4, <1>7, <1>9 DEF Kind, Ends
<1> QED  BY <1>1, <1>4, <1>9, <1>10, <1>11 DEF Effect, Records, Places

LEMMA HeardTypes ==
  ASSUME Inv0, NEW p \in Passes, pass[p].answer \notin {None, Refused}
  PROVE  /\ pass[p].op \in pass[p].todo /\ pass[p].op \in Op /\ pass[p].answer \in Kept \cup {Gone}
         /\ Rebased(pass[p].op, pass[p].answer) \in [Anchors -> Kept \cup {None}]
         /\ Reconciled(p, pass[p].op, pass[p].answer) \in [Anchors -> Draft \cup {None}]
         /\ p = "auto" => Reconciled(p, pass[p].op, pass[p].answer) = drafts
<1> DEFINE op == pass[p].op
           answer == pass[p].answer
<1>1. op \in pass[p].todo /\ op \in Op /\ op.a \in Anchors /\ answer \in Kept \cup {Gone}
  BY DEF Inv0, RequestsOK, Typed, Answer, Op
<1>2. drafts \in [Anchors -> Draft \cup {None}] /\ base \in [Anchors -> Kept \cup {None}]
  BY DEF Inv0, Typed
<1> HIDE DEF op, answer
<1>3. Rebased(op, answer) \in [Anchors -> Kept \cup {None}]
  BY <1>1, <1>2 DEF Rebased, Kept
<1>4. Reconciled(p, op, answer) \in [Anchors -> Draft \cup {None}]
  <2>1. CASE p = "flush" /\ answer # Gone /\ drafts[op.a] # None /\ drafts[op.a].id = op.id
    <3>1. answer.c \in Content /\ drafts[op.a] \in Draft
      BY <1>1, <1>2, <2>1 DEF Kept
    <3>2. [drafts[op.a] EXCEPT !.c = answer.c] \in Draft
      BY <3>1 DEF Draft
    <3>3. Reconciled(p, op, answer) = [drafts EXCEPT ![op.a].c = answer.c]
      BY <2>1 DEF Reconciled
    <3> QED  BY <1>1, <1>2, <3>2, <3>3
  <2>2. CASE ~(p = "flush" /\ answer # Gone /\ drafts[op.a] # None /\ drafts[op.a].id = op.id)
    BY <1>2, <2>2 DEF Reconciled
  <2> QED  BY <2>1, <2>2
<1>5. p = "auto" => Reconciled(p, op, answer) = drafts
  BY DEF Reconciled
<1> QED  BY <1>1, <1>3, <1>4, <1>5 DEF op, answer

LEMMA ReceiveStep ==
  ASSUME Inv0, NEW p \in Passes, Receive(p)
  PROVE  Effect /\ drafts' = Reconciled(p, pass[p].op, pass[p].answer)
<1> DEFINE op == pass[p].op
           answer == pass[p].answer
           left == pass[p].todo \ {op}
           b == Rebased(op, answer)
           ds == Reconciled(p, op, answer)
<1>1. /\ answer \notin {None, Refused} /\ Logged(ds)
      /\ UNCHANGED <<nextId, round, rows, nextSid, at>> /\ Recorded({}, {op.a})
  BY DEF Receive, server
<1>2. /\ op \in pass[p].todo /\ op \in Op /\ answer \in Kept \cup {Gone}
      /\ b \in [Anchors -> Kept \cup {None}] /\ ds \in [Anchors -> Draft \cup {None}]
      /\ p = "auto" => ds = drafts
  BY <1>1, HeardTypes
<1>3. CtlOK(ctl) /\ Idle \in [todo: SUBSET Op, op: Op \cup {None}, answer: Answer] /\ Idle.todo = {}
  BY DEF Inv0, Typed, Idle, Answer
<1>4. pass \in [Passes -> [todo: SUBSET Op, op: Op \cup {None}, answer: Answer]] /\ left \subseteq Op
  BY DEF Inv0, Typed
<1>5. log' \in [Anchors -> Seq(Content \cup {None})]
  BY <1>1, <1>2, LoggedGrows DEF Inv0
<1>6. /\ pass' = [pass EXCEPT ![p] = [Idle EXCEPT !.todo = left]] /\ base' = b /\ drafts' = ds
      /\ CtlOK(ctl') /\ Phases'
      /\ flushPc' \in {"idle", "wait", "run", "pause"} /\ gate' \in Gates
      /\ gate' = "left" <=> gate = "left"
      /\ gate' = "versioning" => gate = "versioning" \/ (InSync(ds, b) /\ flushPc # "idle")
  <2>1. CASE left # {}
    <3>1. /\ pass' = [pass EXCEPT ![p] = [Idle EXCEPT !.todo = left]]
          /\ base' = b /\ drafts' = ds
          /\ ctl' = IF ds # drafts THEN Debounced(ctl, ds, b) ELSE ctl
          /\ UNCHANGED <<flushPc, gate>>
      BY <2>1 DEF Receive
    <3>2. CtlOK(ctl')
      BY <1>3, <3>1, DebouncedOK
    <3>3. pass'[p].todo = left /\ pass[p].todo # {} /\ \A q \in Passes \ {p} : pass'[q] = pass[q]
      BY <1>2, <1>4, <3>1 DEF Idle
    <3>4. Phases'
      BY <1>1, <2>1, <3>1, <3>3 DEF Phases, Inv0, Passes
    <3> QED  BY <3>1, <3>2, <3>4 DEF Inv0, Typed
  <2>2. CASE left = {}
    <3> DEFINE k == [ctl EXCEPT !.saveState = "saved", !.attempts = 0]
    <3>1. Over(p, k, "ok", b, ds) /\ CtlOK(k)
      BY <1>3, <2>2, CtlClears DEF Receive
    <3>2. [Idle EXCEPT !.todo = left] = Idle
      BY <2>2 DEF Idle
    <3> HIDE DEF k, b, ds, left
    <3> QED  BY <1>1, <1>2, <2>2, <3>1, <3>2, OverStep DEF Inv0
  <2> QED  BY <2>1, <2>2
<1>7. [Idle EXCEPT !.todo = left] \in [todo: SUBSET Op, op: Op \cup {None}, answer: Answer]
  BY <1>4 DEF Idle, Answer
<1>8. /\ pass' \in [Passes -> [todo: SUBSET Op, op: Op \cup {None}, answer: Answer]]
      /\ pass'[p].todo = left /\ \A q \in Passes \ {p} : pass'[q] = pass[q]
  BY <1>4, <1>6, <1>7 DEF Idle
<1>9. Hears(p)
  BY <1>1, <1>6 DEF Hears
<1>10. /\ crossed' \in SUBSET Anchors /\ doubted' \in SUBSET Anchors /\ mark' \in [Anchors -> Nat]
       /\ Crosses /\ Freezing /\ Marks
  <2>1. gate' = "versioning" => gate = "versioning" \/ (InSync(drafts', base') /\ flushPc # "idle")
    BY <1>6
  <2>2. pass' \in PassType /\ log' \in LogType /\ Phases' /\ Recorded({}, {op.a})
    BY <1>1, <1>5, <1>6, <1>8 DEF PassType, LogType
  <2>3. \A a \in {op.a} : \E q \in Passes : Hears(q) /\ pass[q].op.a = a
    BY <1>9
  <2> QED  BY <2>1, <2>2, <2>3, RecordedStep
<1>11. Typed'
  BY <1>1, <1>2, <1>5, <1>6, <1>8, <1>10 DEF Inv0, Typed
<1>12. Kind
  BY <1>9 DEF Kind
<1>13. Records
  BY <1>1, <1>6 DEF Records
<1> QED  BY <1>1, <1>6, <1>10, <1>11, <1>12, <1>13 DEF Effect, Places

LEMMA EditStep ==
  ASSUME Inv0, NEW a \in Anchors, Edit(a)
  PROVE  Effect
<1>1. /\ UNCHANGED <<base, pass, flushPc, round, gate, rows, nextSid, at, mark, crossed, doubted>>
      /\ nextId' = nextId + 1
  BY DEF Edit, server, marks
<1>2. PICK new \in Gestures(a) :
         LET ds == [drafts EXCEPT ![a] = new]
         IN drafts' = ds /\ ctl' = Debounced(ctl, ds, base) /\ Logged(ds)
  BY DEF Edit
<1>3. /\ drafts \in [Anchors -> Draft \cup {None}] /\ rows \in [Anchors -> Row \cup {None}]
      /\ nextId \in Nat /\ CtlOK(ctl)
  BY DEF Inv0, Typed
<1>4. new \in Draft \cup {None}
  <2>1. CASE drafts[a] = None
    <3>1. \A x \in Anchors : rows[x] # None => rows[x].op \in Nat \cup {None}
      BY <1>3 DEF Row
    <3> QED  BY <1>2, <1>3, <2>1, <3>1 DEF Gestures, Draft
  <2>2. CASE drafts[a] # None
    BY <1>2, <1>3, <2>2 DEF Gestures, Draft
  <2> QED  BY <2>1, <2>2
<1>5. drafts' \in [Anchors -> Draft \cup {None}] /\ Logged(drafts') /\ CtlOK(ctl')
  BY <1>2, <1>3, <1>4, DebouncedOK
<1>6. log' \in [Anchors -> Seq(Content \cup {None})]
  BY <1>5, LoggedGrows DEF Inv0
<1>7. Typed'
  BY <1>1, <1>3, <1>5, <1>6 DEF Inv0, Typed
<1>8. Phases' /\ Kind /\ Crosses
  BY <1>1, UnmarkedCrosses DEF Inv0, Phases, Kind, Elsewhere
<1> QED  BY <1>1, <1>5, <1>7, <1>8 DEF Effect, Records, Marks, Places, Freezing

\* The return of a flush that is not in a pass.
LEMMA ReturnsNowStep ==
  ASSUME Inv0, flushPc \in {"wait", "pause"}, Returns(drafts, base), CtlOK(ctl'), round' \in 0 .. MaxRounds,
         UNCHANGED <<drafts, nextId, base, pass, rows, nextSid, log, at>>, Recorded({}, {})
  PROVE  Effect
<1>1. gate \in {"submitting", "locking"} /\ pass["flush"].todo = {}
  BY DEF Inv0, Phases
<1>2. /\ flushPc' = "idle" /\ gate' \in {"versioning", "open", "freezing"}
      /\ gate' = "versioning" => InSync(drafts, base)
  BY <1>1, ReturnsStep
<1>3. Phases'
  BY <1>1, <1>2 DEF Phases
<1>4. pass' \in PassType /\ log' \in LogType
  BY DEF Inv0, Typed, PassType, LogType
<1>5. /\ crossed' \in SUBSET Anchors /\ doubted' \in SUBSET Anchors /\ mark' \in [Anchors -> Nat]
      /\ Crosses /\ Freezing /\ Marks
  <2>1. InSync(drafts, base) => InSync(drafts', base')
    OBVIOUS
  <2>2. gate' = "versioning" => InSync(drafts', base') /\ flushPc # "idle"
    BY <1>2, <2>1
  <2> QED  BY <1>3, <1>4, <2>2, RecordedStep
<1>6. Typed'
  BY <1>2, <1>5 DEF Inv0, Typed, Gates
<1>7. Kind
  BY DEF Kind, Elsewhere
<1> QED  BY <1>1, <1>2, <1>3, <1>5, <1>6, <1>7 DEF Effect, Records, Places

LEMMA RoundStep ==
  ASSUME Inv0, flushPc \in {"wait", "pause"}, round < MaxRounds, Round,
         UNCHANGED <<drafts, nextId, base, rows, nextSid, log, at>>, Recorded({}, {})
  PROVE  Effect
<1>1. round' \in 0 .. MaxRounds
  BY BoundsAssumption DEF Round, Inv0, Typed
<1>2. CASE InSync(drafts, base)
  BY <1>1, <1>2, ReturnsNowStep DEF Round, Inv0, Typed
<1>3. CASE ~InSync(drafts, base)
  <2>1. flushPc' = "run" /\ Begin("flush", ctl) /\ UNCHANGED gate
    BY <1>3 DEF Round
  <2>2. gate \in {"submitting", "locking"} /\ pass["flush"] = Idle /\ "flush" \in Passes
    BY DEF Inv0, Phases, RequestsOK, Passes
  <2>3. Planned(drafts, base) # {}
    BY <1>3, PlannedNone DEF Inv0
  <2>4. /\ Begins("flush") /\ CtlOK(ctl')
        /\ pass' \in [Passes -> [todo: SUBSET Op, op: Op \cup {None}, answer: Answer]]
        /\ pass'["flush"].todo # {}
    BY <2>1, <2>2, <2>3, BeginStep DEF Inv0, Typed
  <2>5. Phases'
    BY <2>1, <2>2, <2>4 DEF Phases
  <2>6. pass' \in PassType /\ log' \in LogType
    BY <2>4 DEF Inv0, Typed, PassType, LogType
  <2>7. /\ crossed' \in SUBSET Anchors /\ doubted' \in SUBSET Anchors /\ mark' \in [Anchors -> Nat]
        /\ Crosses /\ Freezing /\ Marks
    <3>1. gate' = gate
      BY <2>1
    <3> QED  BY <2>5, <2>6, <3>1, RecordedStep
  <2>8. Typed'
    BY <1>1, <2>1, <2>4, <2>7 DEF Inv0, Typed
  <2>9. Kind
    BY <2>2, <2>4 DEF Kind
  <2> QED  BY <2>1, <2>2, <2>5, <2>7, <2>8, <2>9 DEF Effect, Records, Places
<1> QED  BY <1>2, <1>3

LEMMA FlushSteps ==
  ASSUME Inv0, FlushGo \/ FlushResume
  PROVE  Effect
<1>1. UNCHANGED <<drafts, nextId, base, rows, nextSid, log, at>> /\ Recorded({}, {})
  BY DEF FlushGo, FlushResume, server
<1>2. CASE FlushGo /\ online
  <2>1. flushPc = "wait" /\ round < MaxRounds
    BY <1>2, BoundsAssumption DEF FlushGo, Inv0, Phases
  <2> QED  BY <1>1, <1>2, <2>1, RoundStep DEF FlushGo
<1>3. CASE FlushGo /\ ~online
  <2>1. CtlOK([ctl EXCEPT !.saveState = "offline"])
    BY CtlClears DEF Inv0, Typed
  <2> QED  BY <1>1, <1>3, <2>1, ReturnsNowStep DEF FlushGo, Inv0, Typed
<1>4. CASE FlushResume
  BY <1>1, <1>4, RoundStep, ReturnsNowStep DEF FlushResume, Inv0, Typed
<1> QED  BY <1>2, <1>3, <1>4

LEMMA ReloadSteps ==
  ASSUME Inv0, ShowLocked \/ Unlock \/ Leave
  PROVE  Effect
<1>1. /\ UNCHANGED <<pass, flushPc, round, rows, nextSid, at, mark, crossed>>
      /\ gate \in {"frozen", "closed", "open"} /\ gate' \in {"closed", "open", "left"}
      /\ doubted' = doubted \/ (doubted' = crossed /\ Rebuilds)
  BY DEF ShowLocked, Unlock, Leave, server, marks, Rebuilds
<1>2. rows \in [Anchors -> Row \cup {None}] /\ nextId \in Nat /\ CtlOK(ctl)
  BY DEF Inv0, Typed
<1>3. Loaded \in [Anchors -> Draft \cup {None}]
  BY <1>2 DEF Loaded, Row, Draft
<1>4. /\ drafts' \in [Anchors -> Draft \cup {None}] /\ nextId' \in Nat
      /\ base' \in [Anchors -> Kept \cup {None}] /\ CtlOK(ctl')
  <2>1. CtlOK([ctl EXCEPT !.timer = IF ctl.hooked THEN FALSE ELSE @, !.hooked = FALSE])
        /\ CtlOK([ctl EXCEPT !.terminal = FALSE, !.attempts = 0])
    BY <1>2, CtlClears
  <2>2. CASE ShowLocked
    BY <1>2, <1>3, <2>1, <2>2 DEF ShowLocked, Inv0, Typed
  <2>3. CASE Unlock
    <3>1. \A a \in Anchors : Known(rows[a]) \in Kept \cup {None}
      BY <1>2 DEF Known, Row, Kept
    <3> QED  BY <1>2, <1>3, <2>1, <2>3, <3>1 DEF Unlock
  <2>4. CASE Leave
    BY <1>2, <2>1, <2>4 DEF Leave, Inv0, Typed
  <2> QED  BY <2>2, <2>3, <2>4
<1>5. Logged(drafts') \/ (gate' = "left" /\ UNCHANGED log /\ MayLeave)
  BY DEF ShowLocked, Unlock, Leave
<1>6. log' \in [Anchors -> Seq(Content \cup {None})]
  BY <1>4, <1>5, LoggedGrows DEF Inv0, Typed
<1>7. Typed'
  <2>1. doubted' \in SUBSET Anchors
    BY <1>1 DEF Inv0, Typed
  <2> QED  BY <1>1, <1>4, <1>6, <2>1 DEF Inv0, Typed, Gates
<1>8. Phases' /\ Crosses
  <2>1. Crosses
    BY <1>1 DEF Crosses, Both, Inv0, Alone
  <2> QED  BY <1>1, <2>1 DEF Inv0, Phases
<1>9. Kind
  BY <1>1 DEF ShowLocked, Unlock, Leave, Kind, Elsewhere, Rebuilds
<1>10. gate = "left" \/ (gate' = "left" => MayLeave)
  BY DEF ShowLocked, Unlock, Leave
<1> QED  BY <1>1, <1>5, <1>7, <1>8, <1>9, <1>10 DEF Effect, Records, Marks, Places, Freezing

LEMMA StepEffect ==
  ASSUME IInv, [Next]_vars
  PROVE  Effect
<1>1. Inv0 /\ Homes
  BY DEF IInv, Inv0
<1>2. CASE TimerFires \/ ManualRetry \/ Reconnect
  BY <1>1, <1>2, AutoSteps
<1>3. CASE \E p \in Passes : Serve(p) \/ LoseRequest(p) \/ LoseAnswer(p) \/ Rejected(p) \/ Receive(p)
  BY <1>1, <1>3, ServeStep, FailSteps, ReceiveStep
<1>4. CASE \E a \in Anchors : Edit(a)
  BY <1>1, <1>4, EditStep
<1>5. CASE \/ Disconnect \/ CreateVersion \/ Freeze \/ CloseFails \/ UNCHANGED vars
           \/ \E what \in {"submitting", "locking"} : Close(what)
  BY <1>1, <1>5, QuietSteps
<1>6. CASE FlushGo \/ FlushResume
  BY <1>1, <1>6, FlushSteps
<1>7. CASE ShowLocked \/ Unlock \/ Leave
  BY <1>1, <1>7, ReloadSteps
<1> QED  BY <1>2, <1>3, <1>4, <1>5, <1>6, <1>7 DEF Next

LEMMA StepKeepsInvariant ==
  ASSUME IInv, [Next]_vars
  PROVE  IInv'
<1>1. /\ Kind /\ Typed' /\ Phases' /\ Records /\ Marks /\ Places /\ Crosses
      /\ gate' # "left" => gate # "left"
  BY StepEffect DEF Effect
<1>2. /\ HistoryOK'
      /\ \A a \in Anchors : Len(log'[a]) \in Nat /\ Len(log'[a]) >= Len(log[a])
  BY <1>1, HistoryStep DEF IInv
<1>3. RequestsOK'
  BY <1>1, <1>2, RequestsStep DEF IInv
<1>4. Alone' /\ Homes'
  BY <1>1, HomesStep DEF IInv, Alone, Crosses
<1>5. Answered' /\ Truthful'
  BY <1>1, AnsweredStep, TruthfulStep DEF IInv
<1> QED  BY <1>1, <1>2, <1>3, <1>4, <1>5 DEF IInv

---------------------------------------------------------------------------
(* The initial states. *)

LEMMA InitInvariant ==
  ASSUME Init
  PROVE  IInv
<1>1. Cardinality(Anchors) \in Nat
  BY AnchorsAssumption, FS_CardinalityType
<1>2. PICK c \in [Anchors -> {None} \cup [theme: Themes, level: {None}]], n \in [Anchors -> 1 .. Cardinality(Anchors)] :
       /\ \A a, b \in Anchors : n[a] = n[b] => a = b
       /\ drafts = [a \in Anchors |-> IF c[a] = None THEN None ELSE [id |-> 0, c |-> c[a]]]
       /\ rows = [a \in Anchors |-> IF c[a] = None THEN None ELSE [sid |-> n[a], c |-> c[a], op |-> None]]
       /\ base = [a \in Anchors |-> Known(rows[a])]
       /\ log = [a \in Anchors |-> <<c[a]>>]
  BY DEF Init
<1>3. /\ nextId = 1 /\ nextSid = Cardinality(Anchors) + 1
      /\ ctl = [syncing |-> FALSE, terminal |-> FALSE, attempts |-> 0, timer |-> FALSE,
                hooked |-> FALSE, listening |-> FALSE, saveState |-> "idle"]
      /\ pass = [p \in Passes |-> Idle]
      /\ flushPc = "idle" /\ round = 0 /\ gate = "open"
      /\ at = [a \in Anchors |-> 1] /\ mark = [a \in Anchors |-> 1]
      /\ crossed = {} /\ doubted = {}
  BY DEF Init
<1>4. \A a \in Anchors : c[a] # None => c[a] \in Content
  BY <1>2 DEF Content
<1>5. rows \in [Anchors -> Row \cup {None}] /\ drafts \in [Anchors -> Draft \cup {None}]
  BY <1>1, <1>2, <1>4 DEF Row, Draft
<1>6. base \in [Anchors -> Kept \cup {None}]
  <2>1. \A a \in Anchors : Known(rows[a]) \in Kept \cup {None}
    BY <1>5 DEF Known, Row, Kept
  <2> QED  BY <1>2, <2>1
<1>7. \A a \in Anchors : log[a] \in Seq(Content \cup {None}) /\ Len(log[a]) = 1 /\ log[a][1] = c[a]
  BY <1>2, <1>4
<1>8. Idle \in [todo: SUBSET Op, op: Op \cup {None}, answer: Answer] /\ Idle.todo = {} /\ Idle.answer = None
  BY DEF Idle, Answer
<1>9. CtlOK(ctl) /\ 0 \in 0 .. MaxRounds
  BY <1>3, BoundsAssumption DEF CtlOK
<1>10. Typed
  <2>1. log \in [Anchors -> Seq(Content \cup {None})]
    BY <1>2, <1>7
  <2>2. /\ pass \in [Passes -> [todo: SUBSET Op, op: Op \cup {None}, answer: Answer]]
        /\ at \in [Anchors -> Nat] /\ mark \in [Anchors -> Nat]
    BY <1>3, <1>8
  <2>3. nextId \in Nat /\ nextSid \in Nat /\ round \in 0 .. MaxRounds
    BY <1>1, <1>3, <1>9
  <2> QED  BY <1>3, <1>5, <1>6, <1>9, <2>1, <2>2, <2>3 DEF Typed, Gates
<1>11. \A a \in Anchors : rows[a] # None => rows[a].sid = n[a] /\ n[a] \in Nat /\ n[a] < nextSid
  BY <1>1, <1>2, <1>3
<1>12. \A a \in Anchors : rows[a] # None => LeadsTo(rows, nextSid, rows[a].sid, a)
  BY <1>2, <1>11 DEF LeadsTo
<1>13. \A a \in Anchors : base[a] # None => rows[a] # None /\ base[a].sid = rows[a].sid
  BY <1>2 DEF Known
<1>14. RequestsOK /\ Phases /\ Alone /\ Answered
  BY <1>3, <1>8 DEF RequestsOK, Phases, Alone, Answered, Passes, Both
<1>15. Homes
  BY <1>3, <1>8, <1>12, <1>13, NoneAssumption DEF Homes
<1>16. HistoryOK
  <2>1. \A a \in Anchors : ContentAt(drafts, a) = c[a]
    <3> SUFFICES ASSUME NEW a \in Anchors
                 PROVE  ContentAt(drafts, a) = c[a]
      OBVIOUS
    <3>1. c[a] # None => [id |-> 0, c |-> c[a]] # None
      BY <1>4, NoneAssumption DEF Draft
    <3> QED  BY <1>2, <3>1 DEF ContentAt
  <2> QED  BY <1>3, <1>7, <2>1 DEF HistoryOK
<1>17. Truthful
  BY <1>2 DEF Truthful
<1> QED  BY <1>10, <1>14, <1>15, <1>16, <1>17 DEF IInv

\* IInv is an invariant: what a pass plans, asks and hears stays attached to the row
\* and the clause it is about, in every behaviour (useAutosave.ts, lib/autosave.ts).
THEOREM Invariance == Spec => []IInv
<1>1. Init => IInv
  BY InitInvariant
<1>2. IInv /\ [Next]_vars => IInv'
  BY StepKeepsInvariant
<1> QED  BY <1>1, <1>2, PTL DEF Spec

\* The baseline of the autosave is what the server holds, up to an answer on its way,
\* for every clause that is not in doubt: for any document and any number of edits,
\* requests and answers lost, retries, flushes and locks (useAutosave.ts,
\* persistedRef).
THEOREM PassesSound == Spec => []PassesAreSound
<1>1. IInv => PassesAreSound
  <2> SUFFICES ASSUME IInv
               PROVE  PassesAreSound
    OBVIOUS
  <2>1. TypeOK
    <3>1. rows \in [Anchors -> [sid: 0 .. nextSid - 1, c: Content, op: Nat \cup {None}] \cup {None}]
      BY DEF IInv, Typed, Homes, LeadsTo, Row
    <3>2. \A p \in Passes : pass[p].todo \subseteq Op /\ (pass[p].answer # None => pass[p].op \in pass[p].todo)
      BY DEF IInv, Typed, RequestsOK
    <3>3. flushPc = "run" <=> Active("flush")
      BY DEF IInv, Phases, RequestsOK, Active, Idle, Passes
    <3> QED  BY <3>1, <3>2, <3>3 DEF IInv, Typed, CtlOK, HistoryOK, TypeOK
  <2>2. BaselineIsTruthful
    <3>1. \A a \in Anchors : Expected(a) => Unheard(a)
      BY DEF Expected, Unheard
    <3> QED  BY <3>1 DEF IInv, Truthful, BaselineIsTruthful
  <2> QED  BY <2>1, <2>2 DEF PassesAreSound
<1> QED  BY <1>1, Invariance, PTL

---------------------------------------------------------------------------
(* The history: what is asked, written and frozen was the user's. *)

LEMMA HistoryKept ==
  ASSUME Typed, Typed', Records
  PROVE  \A a \in Anchors : /\ Len(log[a]) \in Nat /\ Len(log'[a]) \in Nat /\ Len(log'[a]) >= Len(log[a])
                            /\ \A i \in 1 .. Len(log[a]) : log'[a][i] = log[a][i]
<1>1. \A a \in Anchors : Len(log[a]) \in Nat /\ Len(log'[a]) \in Nat
  BY DEF Typed
<1>2. CASE UNCHANGED log
  BY <1>1, <1>2
<1>3. CASE Logged(drafts')
  <2>1. drafts' \in [Anchors -> Draft \cup {None}]
    BY DEF Typed
  <2> QED  BY <1>1, <1>3, <2>1, LoggedGrows
<1> QED  BY <1>2, <1>3 DEF Records

\* What is asked after a step was asked before it or is planned by it.
LEMMA AskedStep ==
  ASSUME Typed, Kind, NEW p \in Passes
  PROVE  \/ pass'[p].todo \subseteq pass[p].todo
         \/ Begins(p) /\ pass'[p].todo = Planned(drafts, base)
<1>1. /\ pass \in [Passes -> [todo: SUBSET Op, op: Op \cup {None}, answer: Answer]]
      /\ Idle.todo = {}
  BY DEF Typed, Idle
<1>2. CASE Elsewhere \/ Rebuilds
  BY <1>2 DEF Elsewhere, Rebuilds
<1>3. ASSUME NEW q \in Passes, Begins(q) \/ Ends(q) \/ Hears(q) \/ ServesOne(q), q # p
      PROVE  pass'[p] = pass[p]
  <2>1. CASE ServesOne(q)
    <3>1. PICK op \in pass[q].todo, answer \in Answer : Answers(q, op, answer)
      BY <2>1 DEF ServesOne, Served
    <3> QED  BY <1>1, <1>3, <3>1 DEF Answers
  <2> QED  BY <1>1, <1>3, <2>1 DEF Begins, Ends, Hears
<1>4. CASE Begins(p)
  BY <1>1, <1>4 DEF Begins, Idle
<1>5. CASE Ends(p)
  BY <1>1, <1>5 DEF Ends
<1>6. CASE Hears(p)
  BY <1>1, <1>6 DEF Hears, Idle
<1>7. CASE ServesOne(p)
  <2>1. PICK op \in pass[p].todo, answer \in Answer : Answers(p, op, answer)
    BY <1>7 DEF ServesOne, Served
  <2> QED  BY <1>1, <2>1 DEF Answers
<1> QED  BY <1>2, <1>3, <1>4, <1>5, <1>6, <1>7 DEF Kind

LEMMA QuotedStep ==
  ASSUME IInv, Quoted, Typed', Kind, Records, gate = "left" => gate' = "left"
  PROVE  Quoted'
<1>1. \A a \in Anchors : \A i \in 1 .. Len(log[a]) : log'[a][i] = log[a][i]
  BY HistoryKept DEF IInv
<1>2. ASSUME NEW p \in Passes, pass'[p].todo \subseteq pass[p].todo
      PROVE  /\ gate' # "left" => \A o \in pass'[p].todo : log'[o.a][o.v] = o.c
             /\ \A o, q \in pass'[p].todo : o.a = q.a => o.v = q.v
  <2>1. \A o \in pass[p].todo : o.a \in Anchors /\ o.v \in 1 .. Len(log[o.a])
    BY DEF IInv, Typed, RequestsOK, RequestOK, Op
  <2> QED  BY <1>1, <1>2, <2>1 DEF Quoted
<1>3. ASSUME NEW p \in Passes, Begins(p), pass'[p].todo = Planned(drafts, base)
      PROVE  /\ gate' # "left" => \A o \in pass'[p].todo : log'[o.a][o.v] = o.c
             /\ \A o, q \in pass'[p].todo : o.a = q.a => o.v = q.v
  <2>1. \A o \in Planned(drafts, base) :
           o \in Op /\ RequestOK(o) /\ o.v = Len(log[o.a]) /\ o.c = ContentAt(drafts, o.a)
    BY PlannedOps DEF IInv
  <2>2. \A o \in Planned(drafts, base) : o.a \in Anchors /\ o.v \in 1 .. Len(log[o.a])
    BY <2>1 DEF Op, RequestOK
  <2>3. gate # "left" => \A a \in Anchors : log[a][Len(log[a])] = ContentAt(drafts, a)
    BY DEF IInv, HistoryOK
  <2> QED  BY <1>1, <1>3, <2>1, <2>2, <2>3
<1> QED  BY <1>2, <1>3, AskedStep DEF Quoted, IInv

LEMMA ForwardStep ==
  ASSUME IInv, Quoted, Forward, Kind, Crosses, Typed',
         \/ UNCHANGED at
         \/ \E p \in Passes : ServesOne(p)
  PROVE  Forward'
<1> SUFFICES ASSUME NEW p \in Passes, NEW o \in pass'[p].todo, o.a \notin crossed'
             PROVE  at'[o.a] <= o.v
  BY DEF Forward
<1>1. o.a \notin crossed
  BY StaysCrossed
<1>2. CASE UNCHANGED at
  <2>1. CASE pass'[p].todo \subseteq pass[p].todo
    BY <1>1, <1>2, <2>1 DEF Forward
  <2>2. CASE pass'[p].todo = Planned(drafts, base)
    <3>1. o \in Op /\ o.v = Len(log[o.a]) /\ o.a \in Anchors
      BY <2>2, PlannedOps DEF IInv, Op
    <3> QED  BY <1>2, <3>1 DEF IInv, HistoryOK, Typed
  <2> QED  BY <2>1, <2>2, AskedStep DEF IInv
<1>3. ASSUME NEW q \in Passes, ServesOne(q)
      PROVE  at'[o.a] <= o.v
  <2>1. PICK op \in pass[q].todo, answer \in Answer : Served(q, op, answer)
    BY <1>3 DEF ServesOne
  <2>2. \A x \in Passes : pass'[x].todo = pass[x].todo
    BY <2>1 DEF Served, Answers, IInv, Typed
  <2>3. op \in Op /\ o \in Op /\ o \in pass[p].todo /\ o.a \in Anchors
    BY <2>1, <2>2 DEF IInv, Typed, Op
  <2>4. o.a = op.a => p = q
    BY <1>1, <2>1, <2>3, AloneOn DEF IInv
  <2>5. at[o.a] <= o.v /\ (o.a = op.a => o.v = op.v) /\ o.v \in Nat
    BY <1>1, <2>1, <2>3, <2>4 DEF Forward, Quoted, Op
  <2>6. at'[o.a] = at[o.a] \/ (o.a = op.a /\ at'[o.a] = op.v)
    BY <2>1, <2>3 DEF Served, Op
  <2> QED  BY <2>5, <2>6
<1> QED  BY <1>2, <1>3

LEMMA RecentStep ==
  ASSUME IInv, Quoted, Recent, IInv', Kind, Records, Freezing, gate = "left" => gate' = "left"
  PROVE  Recent'
<1> SUFFICES ASSUME gate' = "versioning", NEW a \in Anchors, mark'[a] # 0
             PROVE  /\ SinceMark(a, ContentAt(rows, a))'
                    /\ \A p \in Passes : \A o \in pass'[p].todo : o.a = a => mark'[a] <= o.v
  BY DEF Recent
<1>2. /\ Len(log[a]) \in Nat /\ Len(log'[a]) \in Nat /\ Len(log'[a]) >= Len(log[a])
      /\ \A i \in 1 .. Len(log[a]) : log'[a][i] = log[a][i]
  BY HistoryKept DEF IInv
<1>3. CASE gate = "versioning" /\ mark' = mark
  <2>1. /\ SinceMark(a, ContentAt(rows, a))
        /\ \A p \in Passes : \A o \in pass[p].todo : o.a = a => mark[a] <= o.v
    BY <1>3 DEF Recent
  <2>2. ASSUME NEW p \in Passes, NEW o \in pass'[p].todo, o.a = a
        PROVE  mark'[a] <= o.v
    <3>1. CASE pass'[p].todo \subseteq pass[p].todo
      BY <1>3, <2>1, <2>2, <3>1
    <3>2. CASE pass'[p].todo = Planned(drafts, base)
      <4>1. o.v = Len(log[o.a]) /\ o.a \in Anchors
        BY <3>2, PlannedOps DEF IInv, Op
      <4> QED  BY <1>3, <2>2, <4>1 DEF IInv, HistoryOK, Typed
    <3> QED  BY <3>1, <3>2, AskedStep DEF IInv
  <2>3. SinceMark(a, ContentAt(rows, a))'
    <3>1. mark[a] \in Nat \ {0} /\ mark' = mark
      BY <1>3 DEF IInv, Typed
    <3>2. CASE rows'[a] = rows[a]
      <4>1. PICK i \in mark[a] .. Len(log[a]) : Agrees(ContentAt(rows, a), log[a][i])
        BY <2>1 DEF SinceMark
      <4>2. ContentAt(rows, a)' = ContentAt(rows, a)
        BY <3>2 DEF ContentAt
      <4>3. i \in 1 .. Len(log[a]) /\ i \in mark'[a] .. Len(log'[a])
        BY <1>2, <3>1
      <4> QED  BY <1>2, <4>1, <4>2, <4>3 DEF SinceMark
    <3>3. CASE rows'[a] # rows[a]
      <4>1. PICK q \in Passes : ServesOne(q)
        BY <3>3 DEF Kind, Elsewhere, Rebuilds, Begins, Ends, Hears
      <4>2. PICK op \in pass[q].todo, answer \in Answer : Served(q, op, answer)
        BY <4>1 DEF ServesOne
      <4>3. a = op.a /\ Agrees(ContentAt(rows', a), op.c)
        BY <3>3, <4>2 DEF Served
      <4>4. op.c = log[a][op.v] /\ op.v \in 1 .. Len(log[a]) /\ mark[a] <= op.v
        BY <1>3, <2>1, <4>3 DEF Quoted, IInv, RequestsOK, RequestOK
      <4>5. op.v \in mark'[a] .. Len(log'[a])
        BY <1>2, <3>1, <4>4
      <4> QED  BY <1>2, <4>3, <4>4, <4>5 DEF SinceMark
    <3> QED  BY <3>2, <3>3
  <2> QED  BY <2>2, <2>3
<1>4. CASE InSync(drafts', base') /\ Marked /\ Asked(pass') \subseteq crossed'
  <2>0. a \notin doubted' /\ a \notin crossed' /\ mark'[a] = Len(log'[a])
    <3>1. a \notin doubted' /\ mark'[a] = Len(log'[a])
      BY <1>4 DEF Marked
    <3> QED  BY <3>1 DEF IInv, Alone
  <2>1. \A p \in Passes : \A o \in pass'[p].todo : o.a # a
    BY <1>4, <2>0 DEF Asked
  <2>2. ~Expected(a)'
    BY <2>1 DEF IInv, RequestsOK, Expected
  <2>3. SinceMark(a, ContentAt(rows, a))'
    <3>1. base'[a] = Known(rows'[a])
      BY <2>0, <2>2 DEF IInv, Truthful
    <3>2. rows'[a] \in Row \cup {None}
      BY DEF IInv, Typed
    <3>3. ContentAt(base', a) = ContentAt(rows', a)
      <4>1. CASE rows'[a] = None
        BY <3>1, <4>1 DEF ContentAt, Known
      <4>2. CASE rows'[a] # None
        <5>1. base'[a] = [sid |-> rows'[a].sid, c |-> rows'[a].c]
          BY <3>1, <4>2 DEF Known
        <5>2. base'[a] \in Kept
          BY <3>2, <4>2, <5>1 DEF Row, Kept
        <5> QED  BY <4>2, <5>1, <5>2, NoneAssumption DEF ContentAt
      <4> QED  BY <4>1, <4>2
    <3>4. ContentAt(rows', a) = ContentAt(drafts', a)
      BY <1>4, <3>3 DEF InSync
    <3>5. log'[a][Len(log'[a])] = ContentAt(drafts', a)
      BY DEF IInv, HistoryOK
    <3>6. ContentAt(drafts', a) \in Content \cup {None}
      BY DEF IInv, Typed, ContentAt, Draft
    <3>7. Agrees(ContentAt(rows', a), log'[a][Len(log'[a])])
      <4>1. CASE ContentAt(drafts', a) = None
        BY <3>4, <3>5, <4>1 DEF Agrees
      <4>2. CASE ContentAt(drafts', a) \in Content
        BY <3>4, <3>5, <4>2, MergedAgrees
      <4> QED  BY <3>6, <4>1, <4>2
    <3>8. Len(log'[a]) \in mark'[a] .. Len(log'[a])
      BY <1>2, <2>0
    <3> QED  BY <3>7, <3>8 DEF SinceMark
  <2> QED  BY <2>1, <2>3
<1> QED  BY <1>3, <1>4 DEF Freezing

\* A step of the client leaves the server alone, and one of the server the client.
LEMMA OneThing ==
  ASSUME IInv, [Next]_vars
  PROVE  \/ UNCHANGED <<rows, at>>
         \/ UNCHANGED <<log, crossed>> /\ (\E p \in Passes : ServesOne(p))
<1>1. ASSUME NEW p \in Passes, Serve(p)
      PROVE  UNCHANGED <<log, crossed>> /\ ServesOne(p)
  <2>1. PICK op \in pass[p].todo : Handle(p, op)
    BY <1>1 DEF Serve, Heads
  <2>2. op \in Op /\ (op.c = None <=> op.kind = "delete") /\ op.v \in Nat
    BY DEF IInv, Typed, RequestsOK, RequestOK, Op
  <2>3. \E answer \in Answer : Served(p, op, answer)
    BY <2>1, <2>2, HandleServes DEF IInv
  <2> QED  BY <1>1, <2>3 DEF Serve, ServesOne, marks
<1>2. \A p \in Passes : LoseRequest(p) \/ LoseAnswer(p) \/ Rejected(p) \/ Receive(p) => UNCHANGED <<rows, at>>
  BY DEF LoseRequest, LoseAnswer, Rejected, Receive, server
<1>3. TimerFires \/ ManualRetry \/ Reconnect \/ FlushGo \/ FlushResume => UNCHANGED <<rows, at>>
  BY DEF TimerFires, ManualRetry, Reconnect, FlushGo, FlushResume, server
<1>4. \/ (\E a \in Anchors : Edit(a)) \/ (\E what \in {"submitting", "locking"} : Close(what))
      \/ Disconnect \/ CreateVersion \/ Freeze \/ CloseFails \/ ShowLocked \/ Unlock \/ Leave \/ UNCHANGED vars
      => UNCHANGED <<rows, at>>
  BY DEF Edit, Close, Disconnect, CreateVersion, Freeze, CloseFails, ShowLocked, Unlock, Leave, vars, server
<1> QED  BY <1>1, <1>2, <1>3, <1>4 DEF Next

LEMMA StepKeepsHistory ==
  ASSUME HInv, [Next]_vars
  PROVE  HInv'
<1>1. IInv' /\ Effect
  BY StepKeepsInvariant, StepEffect DEF HInv
<1>2. Typed' /\ Kind /\ Records /\ Crosses /\ Freezing /\ (gate = "left" => gate' = "left")
  BY <1>1 DEF Effect
<1>3. Quoted' /\ Recent'
  BY <1>1, <1>2, QuotedStep, RecentStep DEF HInv
<1>4. UNCHANGED at \/ \E p \in Passes : ServesOne(p)
  BY OneThing DEF HInv
<1>5. Forward'
  BY <1>2, <1>4, ForwardStep DEF HInv
<1> QED  BY <1>1, <1>3, <1>5 DEF HInv

LEMMA HistoryInvariance == Spec => []HInv
<1>1. Init => HInv
  <2> SUFFICES ASSUME Init
               PROVE  HInv
    OBVIOUS
  <2>1. \A p \in Passes : pass[p].todo = {}
    BY DEF Init, Idle
  <2>2. gate # "versioning"
    BY DEF Init
  <2> QED  BY <2>1, <2>2, InitInvariant DEF HInv, Quoted, Forward, Recent
<1>2. HInv /\ [Next]_vars => HInv'
  BY StepKeepsHistory
<1> QED  BY <1>1, <1>2, PTL DEF Spec

\* What a submission freezes is, clause by clause, what the user had when the flush
\* returned or later, whatever requests and answers were lost and passes overlapped
\* before; a clause in doubt when the flush returned is left out
\* (WorkspaceToolbar.tsx, runSubmission).
THEOREM SubmissionIsRecent == Spec => SubmittedIsRecent
<1>1. ASSUME HInv, [Next]_vars, version' # version, NEW a \in Anchors, mark[a] # 0
      PROVE  \E i \in mark[a] .. Len(log[a]) : Agrees(version'[a], log[a][i])
  <2>1. CreateVersion
    <3>1. \A p \in Passes : Serve(p) \/ LoseRequest(p) \/ LoseAnswer(p) \/ Rejected(p) \/ Receive(p) => UNCHANGED version
      BY DEF Serve, LoseRequest, LoseAnswer, Rejected, Receive, server
    <3>2. TimerFires \/ ManualRetry \/ Reconnect \/ FlushGo \/ FlushResume \/ Disconnect => UNCHANGED version
      BY DEF TimerFires, ManualRetry, Reconnect, FlushGo, FlushResume, Disconnect, server
    <3>3. \/ (\E b \in Anchors : Edit(b)) \/ (\E what \in {"submitting", "locking"} : Close(what))
          \/ Freeze \/ CloseFails \/ ShowLocked \/ Unlock \/ Leave \/ UNCHANGED vars
          => UNCHANGED version
      BY DEF Edit, Close, Freeze, CloseFails, ShowLocked, Unlock, Leave, vars, server
    <3> QED  BY <1>1, <3>1, <3>2, <3>3 DEF Next
  <2>2. gate = "versioning" /\ version'[a] = ContentAt(rows, a)
    BY <2>1 DEF CreateVersion
  <2> QED  BY <1>1, <2>2 DEF HInv, Recent, SinceMark
<1>2. HInv /\ [Next]_vars =>
        [version' # version =>
            \A a \in Anchors : \/ mark[a] = 0
                              \/ \E i \in mark[a] .. Len(log[a]) : Agrees(version'[a], log[a][i])]_vars
  BY <1>1
<1> QED  BY <1>2, HistoryInvariance, PTL DEF Spec, SubmittedIsRecent

---------------------------------------------------------------------------
(* The server runs behind the document. *)

LEMMA SaidAppend ==
  ASSUME NEW s \in Seq(Content \cup {None}), NEW e \in Content \cup {None}
  PROVE  [i \in DOMAIN Append(s, e) |-> Said(Append(s, e)[i])] = Append([i \in DOMAIN s |-> Said(s[i])], Said(e))
<1> DEFINE V == {None} \cup Themes
           said == [i \in DOMAIN s |-> Said(s[i])]
           t == Append(s, e)
           left == [i \in DOMAIN t |-> Said(t[i])]
<1>1. \A c \in Content \cup {None} : Said(c) \in V
  BY DEF Said, Content
<1>2. /\ t \in Seq(Content \cup {None}) /\ Len(t) = Len(s) + 1 /\ t[Len(s) + 1] = e
      /\ \A i \in 1 .. Len(s) : t[i] = s[i]
  BY AppendProperties
<1> HIDE DEF V, t
<1>3. /\ DOMAIN s = 1 .. Len(s) /\ Len(s) \in Nat /\ \A i \in 1 .. Len(s) : s[i] \in Content \cup {None}
      /\ DOMAIN t = 1 .. Len(t) /\ \A i \in 1 .. Len(t) : t[i] \in Content \cup {None}
  BY <1>2
<1>4. said \in Seq(V) /\ Len(said) = Len(s) /\ \A i \in 1 .. Len(s) : said[i] = Said(s[i])
  BY <1>1, <1>3
<1>5. left \in Seq(V) /\ Len(left) = Len(t) /\ \A i \in 1 .. Len(t) : left[i] = Said(t[i])
  BY <1>1, <1>2, <1>3
<1> HIDE DEF said, left
<1>6. /\ Append(said, Said(e)) \in Seq(V) /\ Len(Append(said, Said(e))) = Len(s) + 1
      /\ \A i \in 1 .. Len(s) : Append(said, Said(e))[i] = said[i]
      /\ Append(said, Said(e))[Len(s) + 1] = Said(e)
  BY <1>1, <1>4, AppendProperties
<1>7. \A i \in 1 .. Len(left) : left[i] = Append(said, Said(e))[i]
  BY <1>2, <1>3, <1>4, <1>5, <1>6
<1>8. left = Append(said, Said(e))
  BY <1>2, <1>5, <1>6, <1>7, SeqEqual
<1> QED  BY <1>8 DEF left, said, t

SaidLog == [a \in Anchors |-> [i \in DOMAIN log[a] |-> Said(log[a][i])]]
SaidRows == [a \in Anchors |-> Said(ContentAt(rows, a))]

\* The user is still in the workspace.
Stayed == gate # "left"

LEMMA RefineEdit ==
  ASSUME Typed, Typed', Records, UNCHANGED <<rows, at>>
  PROVE  Behind!Edit
<1>1. ASSUME NEW a \in Anchors
      PROVE  \/ SaidLog'[a] = SaidLog[a]
             \/ \E v \in {None} \cup Themes : SaidLog'[a] = Append(SaidLog[a], v)
  <2>1. CASE log'[a] = log[a]
    BY <2>1 DEF SaidLog
  <2>2. CASE log'[a] # log[a]
    <3>1. drafts' \in [Anchors -> Draft \cup {None}] /\ Logged(drafts')
      BY <2>2 DEF Typed, Records
    <3>2. log'[a] = Append(log[a], ContentAt(drafts', a)) /\ ContentAt(drafts', a) \in Content \cup {None}
      BY <2>2, <3>1, LoggedGrows
    <3>3. log[a] \in Seq(Content \cup {None})
      BY DEF Typed
    <3>4. SaidLog'[a] = Append(SaidLog[a], Said(ContentAt(drafts', a)))
      BY <3>2, <3>3, SaidAppend DEF SaidLog
    <3>5. Said(ContentAt(drafts', a)) \in {None} \cup Themes
      BY <3>2 DEF Said, Content
    <3> QED  BY <3>4, <3>5
  <2> QED  BY <2>1, <2>2
<1>2. DOMAIN SaidLog' = Anchors
  BY DEF SaidLog
<1>3. SaidRows' = SaidRows
  BY DEF SaidRows, ContentAt
<1>4. crossed' \in SUBSET Anchors
  BY DEF Typed
<1> QED  BY <1>1, <1>2, <1>3, <1>4 DEF Behind!Edit, SaidLog, SaidRows

LEMMA RefinePersist ==
  ASSUME HInv, gate # "left", UNCHANGED <<log, crossed>>, NEW p \in Passes, ServesOne(p)
  PROVE  UNCHANGED <<rows, at>> \/ \E c \in Anchors : Behind!Persist(c)
<1>1. PICK op \in pass[p].todo, answer \in Answer : Served(p, op, answer)
  BY DEF ServesOne
<1>2. op.a \in Anchors /\ op.v \in 1 .. Len(log[op.a]) /\ op.c \in Content \cup {None}
  BY DEF HInv, IInv, Typed, RequestsOK, RequestOK, Op
<1>3. /\ rows \in [Anchors -> Row \cup {None}] /\ at \in [Anchors -> Nat]
      /\ log \in [Anchors -> Seq(Content \cup {None})]
  BY DEF HInv, IInv, Typed
<1>4. /\ rows' \in [Anchors -> Row \cup {None}] /\ at' \in [Anchors -> Nat]
      /\ \A a \in Anchors \ {op.a} : rows'[a] = rows[a] /\ at'[a] = at[a]
      /\ at'[op.a] = IF rows'[op.a] = rows[op.a] THEN at[op.a] ELSE op.v
      /\ rows'[op.a] = rows[op.a] \/ Agrees(ContentAt(rows', op.a), op.c)
  BY <1>1 DEF Served
<1>5. CASE rows'[op.a] = rows[op.a]
  BY <1>3, <1>4, <1>5
<1>6. CASE rows'[op.a] # rows[op.a]
  <2>1. at' = [at EXCEPT ![op.a] = op.v]
    BY <1>2, <1>3, <1>4, <1>6
  <2>2. Said(ContentAt(rows', op.a)) = Said(op.c)
    BY <1>4, <1>6 DEF Agrees, Said
  <2>3. op.c = log[op.a][op.v]
    BY DEF HInv, Quoted
  <2>4. /\ SaidLog[op.a] = [i \in DOMAIN log[op.a] |-> Said(log[op.a][i])]
        /\ DOMAIN log[op.a] = 1 .. Len(log[op.a])
    BY <1>2, <1>3 DEF SaidLog
  <2>5. SaidLog[op.a][op.v] = Said(op.c) /\ Len(SaidLog[op.a]) = Len(log[op.a])
    BY <1>2, <1>3, <2>3, <2>4
  <2>6. SaidRows' = [SaidRows EXCEPT ![op.a] = SaidLog[op.a][op.v]]
    <3>1. \A a \in Anchors \ {op.a} : Said(ContentAt(rows', a)) = Said(ContentAt(rows, a))
      BY <1>4 DEF ContentAt
    <3> QED  BY <1>2, <2>2, <2>5, <3>1 DEF SaidRows
  <2>7. op.v \in (IF op.a \in crossed THEN 1 ELSE at[op.a]) .. Len(SaidLog[op.a])
    BY <1>2, <1>3, <2>5 DEF HInv, Forward
  <2>8. SaidLog' = SaidLog
    BY DEF SaidLog
  <2>9. Behind!Persist(op.a)
    BY <2>1, <2>6, <2>7, <2>8 DEF Behind!Persist, SaidLog, SaidRows
  <2> QED  BY <1>2, <2>9
<1> QED  BY <1>5, <1>6

\* Nobody leaves: the server's copy of each clause is one the user had, up to the
\* level, and it moves only forward in the history of the clause, except while requests
\* about that clause cross (lib/autosave.ts, useAutosave.ts).  Leaving is what breaks it: see
\* NothingDeletedUnasked.
THEOREM ServerRunsBehind ==
  ASSUME ~MayLeave
  PROVE  Spec => BehindSpec
<1>1. Init => Behind!Init
  <2> SUFFICES ASSUME Init
               PROVE  Behind!Init
    OBVIOUS
  <2>1. PICK c \in [Anchors -> {None} \cup [theme: Themes, level: {None}]], n \in [Anchors -> 1 .. Cardinality(Anchors)] :
           /\ rows = [a \in Anchors |-> IF c[a] = None THEN None ELSE [sid |-> n[a], c |-> c[a], op |-> None]]
           /\ log = [a \in Anchors |-> <<c[a]>>]
    BY DEF Init
  <2>2. Cardinality(Anchors) \in Nat
    BY AnchorsAssumption, FS_CardinalityType
  <2>3. ASSUME NEW a \in Anchors
        PROVE  /\ SaidLog[a] = <<Said(c[a])>> /\ Said(c[a]) \in {None} \cup Themes
               /\ Said(ContentAt(rows, a)) = SaidLog[a][1]
    <3>1. SaidLog[a] = [i \in {1} |-> Said(c[a])]
      BY <2>1 DEF SaidLog
    <3>2. SaidLog[a] = <<Said(c[a])>>
      BY <3>1
    <3>3. c[a] # None => [sid |-> n[a], c |-> c[a], op |-> None] # None
      <4>1. c[a] # None => c[a] \in Content
        BY <2>1 DEF Content
      <4>2. n[a] \in Nat
        BY <2>1, <2>2
      <4>3. c[a] # None => [sid |-> n[a], c |-> c[a], op |-> None] \in Row
        BY <4>1, <4>2 DEF Row
      <4> QED  BY <4>3, NoneAssumption
    <3>4. ContentAt(rows, a) = c[a]
      BY <2>1, <3>3 DEF ContentAt
    <3> QED  BY <2>1, <3>2, <3>4 DEF Said
  <2>4. SaidLog \in [Anchors -> {<<v>> : v \in {None} \cup Themes}]
    BY <2>3 DEF SaidLog
  <2>5. SaidRows = [a \in Anchors |-> SaidLog[a][1]]
    BY <2>3 DEF SaidRows
  <2>6. at = [a \in Anchors |-> 1] /\ crossed = {}
    BY DEF Init
  <2> QED  BY <2>4, <2>5, <2>6 DEF Behind!Init, SaidLog, SaidRows
<1>2. ASSUME HInv, gate # "left", [Next]_vars
      PROVE  /\ gate' # "left"
             /\ [Behind!Next]_(Behind!wvars)
  <2>1. Typed /\ Typed' /\ Records /\ Kind /\ gate' # "left"
    BY <1>2, StepEffect DEF HInv, IInv, Effect
  <2>2. \/ UNCHANGED <<rows, at>>
        \/ UNCHANGED <<log, crossed>> /\ (\E p \in Passes : ServesOne(p))
    BY <1>2, OneThing DEF HInv
  <2>3. [Behind!Next]_(Behind!wvars)
    <3>1. CASE UNCHANGED <<rows, at>>
      BY <2>1, <3>1, RefineEdit DEF Behind!Next
    <3>2. ASSUME UNCHANGED <<log, crossed>>, NEW p \in Passes, ServesOne(p)
          PROVE  [Behind!Next]_(Behind!wvars)
      <4>1. UNCHANGED <<rows, at>> \/ \E c \in Anchors : Behind!Persist(c)
        BY <1>2, <3>2, RefinePersist
      <4>2. CASE UNCHANGED <<rows, at>>
        BY <2>1, <4>2, RefineEdit DEF Behind!Next
      <4> QED  BY <4>1, <4>2 DEF Behind!Next
    <3> QED  BY <2>2, <3>1, <3>2
  <2> QED  BY <2>1, <2>3
<1>3. HInv /\ Stayed /\ [Next]_vars => Stayed' /\ [Behind!Next]_(Behind!wvars)
  BY <1>2 DEF Stayed
<1>4. Init => Stayed
  BY DEF Init, Stayed
<1>5. Spec => [](HInv /\ Stayed)
  BY <1>3, <1>4, HistoryInvariance, PTL DEF Spec
<1>6. Spec => [][Behind!Next]_(Behind!wvars)
  BY <1>3, <1>5, PTL DEF Spec
<1> QED  BY <1>1, <1>6, PTL DEF Spec, BehindSpec, Behind!Spec

=============================================================================
