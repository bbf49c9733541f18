---------------------------- MODULE ArbiterDesk ----------------------------
(***************************************************************************)
(* The arbitration lock seen from the browser                              *)
(* (frontend/src/components/gold/useArbitrationLock.ts and the decisions   *)
(* of GoldWorkspace.tsx): tabs that open, change and leave documents,      *)
(* acquire the lease, prolong it while they believe they hold it, decide   *)
(* under it and release it.  Requests travel on their own: the server may  *)
(* handle them in any order, and any of them may fail.                     *)
(***************************************************************************)
EXTENDS Naturals, FiniteSets, TLAPS

CONSTANTS Users,       \* a user is the set of its tabs
          Docs, None,
          Managers,    \* leads and administrators: they may take a lock over
          MaxVisits,   \* bound on the documents opened
          MaxFaults,   \* bound on the requests that fail on the network
          MaxNet       \* bound on the messages on their way when a tab sends one more

ASSUME UsersAssumption ==
  Managers \subseteq Users /\ \A u, v \in Users : u \cap v # {} => u = v
ASSUME NoneAssumption == None \notin Docs /\ None \notin Users /\ None \notin {"ok", "conflict", "failed"}
ASSUME BoundAssumption == MaxVisits \in Nat

Tabs == UNION Users
Owner == [t \in Tabs |-> CHOOSE u \in Users : t \in u]

VARIABLES
  lease,    \* the server: who holds the lease of each document
  tab,      \* doc, inst (the mounted component), locked, mine, acquiring, error, deciding
  net,      \* requests on their way, and answers: verdict is None until the server has spoken
  visits, faults,
  disturbed \* history: documents where a lease expired, was taken over, or was
            \* released while a tab of its holder shows it or an answer is on its way

vars == <<lease, tab, net, visits, faults, disturbed>>

Kinds == {"acquire", "beat", "steal", "release", "decide"}
Verdicts == {None, "ok", "conflict", "failed"}
Message == [t: Tabs, inst: Nat, doc: Docs, kind: Kinds, verdict: Verdicts]
Free == [locked |-> FALSE, mine |-> FALSE, error |-> FALSE]

Request(t, v, kind) == [t |-> t, inst |-> v.inst, doc |-> v.doc, kind |-> kind, verdict |-> None]
Room == Cardinality(net) < MaxNet
Pending(t, kind) == \E q \in net : q.t = t /\ q.kind = kind /\ q.inst = tab[t].inst /\ q.doc = tab[t].doc

\* The lock banner: held by me, held by another, or to be taken.
BlockedByOther(t) == tab[t].locked /\ ~tab[t].mine
Believes(t, d) == tab[t].doc = d /\ tab[t].mine

---------------------------------------------------------------------------
(* The tabs. *)

\* What the cleanup of the mounting effect sends.
Releases(t) == IF tab[t].doc = None THEN {} ELSE {Request(t, tab[t], "release")}

\* The state after the mounting effect on document d: nothing inherited, acquiring.
Opened(t, d, inst) ==
  [doc |-> d, inst |-> inst, locked |-> Free.locked, mine |-> Free.mine, error |-> Free.error,
   acquiring |-> TRUE, deciding |-> IF inst = tab[t].inst THEN tab[t].deciding ELSE FALSE]

\* The workshop opens on a document: mounted anew, or moved from another document.
OpenDoc(t, d) ==
  /\ tab[t].doc # d /\ visits < MaxVisits
  /\ visits' = visits + 1
  /\ LET inst == IF tab[t].doc = None THEN tab[t].inst + 1 ELSE tab[t].inst
         v == Opened(t, d, inst)
     IN /\ tab' = [tab EXCEPT ![t] = v]
        /\ net' = net \cup Releases(t) \cup {Request(t, v, "acquire")}
  /\ UNCHANGED <<lease, faults, disturbed>>

\* The workshop unmounts, or the browser tab closes.
LeaveDoc(t) ==
  /\ tab[t].doc # None
  /\ net' = net \cup Releases(t)
  /\ tab' = [tab EXCEPT ![t].doc = None, ![t].mine = FALSE, ![t].locked = FALSE,
                        ![t].acquiring = FALSE, ![t].error = FALSE, ![t].deciding = FALSE]
  /\ UNCHANGED <<lease, visits, faults, disturbed>>

\* « Prendre la main », or « Reprendre la main » of the error banner.
Reacquire(t) ==
  /\ tab[t].doc # None /\ ~tab[t].mine /\ ~tab[t].acquiring /\ Room
  /\ ~BlockedByOther(t) \/ tab[t].error
  /\ tab' = [tab EXCEPT ![t].acquiring = TRUE, ![t].error = FALSE]
  /\ net' = net \cup {Request(t, tab[t], "acquire")}
  /\ UNCHANGED <<lease, visits, faults, disturbed>>

\* « Reprendre »: offered to managers when the banner says another holds the lock.
Steal(t) ==
  /\ tab[t].doc # None /\ BlockedByOther(t) /\ Owner[t] \in Managers
  /\ Room /\ ~Pending(t, "steal") \* bound: one at a time
  /\ net' = net \cup {Request(t, tab[t], "steal")}
  /\ UNCHANGED <<lease, tab, visits, faults, disturbed>>

\* The interval fires while the tab believes it holds the lock.
Heartbeat(t) ==
  /\ tab[t].doc # None /\ tab[t].mine
  /\ ~Pending(t, "beat") \* bound: one at a time
  /\ net' = net \cup {Request(t, tab[t], "beat")}
  /\ UNCHANGED <<lease, tab, visits, faults, disturbed>>

\* A decision: the buttons and shortcuts need the lock, committingRef stops a second one.
Decide(t) ==
  /\ tab[t].doc # None /\ tab[t].mine /\ ~tab[t].deciding /\ Room
  /\ tab' = [tab EXCEPT ![t].deciding = TRUE]
  /\ net' = net \cup {Request(t, tab[t], "decide")}
  /\ UNCHANGED <<lease, visits, faults, disturbed>>

---------------------------------------------------------------------------
(* The server and the network. *)

\* gold/services.py: acquire, heartbeat, release, steal, and the test of a decision.
LeaseAfter(q) ==
  LET u == Owner[q.t] holder == lease[q.doc]
  IN CASE q.kind \in {"acquire", "steal"} /\ (q.kind = "steal" \/ holder \in {None, u}) -> u
       [] q.kind = "release" /\ holder = u -> None
       [] OTHER -> holder
VerdictOn(q) ==
  LET u == Owner[q.t] holder == lease[q.doc]
  IN CASE q.kind = "steal" -> "ok"
       [] q.kind = "beat" -> IF holder = u THEN "ok" ELSE "conflict"
       [] OTHER -> IF holder \in {None, u} THEN "ok" ELSE "conflict"

\* A lease lost under a tab that believes in it, or that an answer may still convince.
Disturbs(q) ==
  \/ q.kind = "steal"
  \/ /\ q.kind = "release"
     /\ \/ \E x \in Tabs : Owner[x] = Owner[q.t] /\ tab[x].doc = q.doc
        \/ \E m \in net : Owner[m.t] = Owner[q.t] /\ m.doc = q.doc /\ m.verdict = "ok"

Serve(q) ==
  /\ q.verdict = None
  /\ lease' = [lease EXCEPT ![q.doc] = LeaseAfter(q)]
  /\ net' = (net \ {q}) \cup (IF q.kind = "release" THEN {} ELSE {[q EXCEPT !.verdict = VerdictOn(q)]})
  /\ disturbed' = IF Disturbs(q) THEN disturbed \cup {q.doc} ELSE disturbed
  /\ UNCHANGED <<tab, visits, faults>>

\* A request, or its answer, is lost.
Fail(q) ==
  /\ q.verdict # "failed" /\ faults < MaxFaults /\ faults' = faults + 1
  /\ net' = (net \ {q}) \cup (IF q.kind = "release" THEN {} ELSE {[q EXCEPT !.verdict = "failed"]})
  /\ UNCHANGED <<lease, tab, visits, disturbed>>

Expire(d) ==
  /\ lease[d] # None
  /\ lease' = [lease EXCEPT ![d] = None]
  /\ disturbed' = disturbed \cup {d}
  /\ UNCHANGED <<tab, net, visits, faults>>

---------------------------------------------------------------------------
(* Answers. *)

\* Mutant of Fresh: an answer is taken for the document that is open now.
FreshWhileMounted(q) == q.inst = tab[q.t].inst /\ tab[q.t].doc # None
\* fresh(): the component is mounted on the document the request was about.
Fresh(q) == q.inst = tab[q.t].inst /\ tab[q.t].doc = q.doc

\* Mutant of Told: a heartbeat that fails only warns.
ToldWarning(v, q) ==
  IF q.verdict = "ok" THEN [v EXCEPT !.locked = TRUE, !.mine = TRUE]
  ELSE IF q.kind = "acquire" /\ q.verdict = "conflict" THEN [v EXCEPT !.mine = FALSE, !.error = TRUE]
  ELSE [v EXCEPT !.error = TRUE]
\* What an answer makes of the lock shown by a tab.
Told(v, q) ==
  IF q.verdict = "ok"
  THEN [v EXCEPT !.locked = TRUE, !.mine = TRUE, !.error = IF q.kind = "steal" THEN FALSE ELSE @]
  ELSE IF q.kind = "beat" \/ (q.kind = "acquire" /\ q.verdict = "conflict")
  THEN [v EXCEPT !.mine = FALSE, !.error = TRUE]
  ELSE [v EXCEPT !.error = TRUE]

\* The answer to acquire, heartbeat or steal.
HearLock(q) ==
  /\ q.verdict # None /\ q.kind \in {"acquire", "beat", "steal"}
  /\ LET v == Told(tab[q.t], q)
     IN tab' = IF Fresh(q)
               THEN [tab EXCEPT ![q.t] = [v EXCEPT !.acquiring = IF q.kind = "acquire" THEN FALSE ELSE @]]
               ELSE tab
  /\ net' = net \ {q}
  /\ UNCHANGED <<lease, visits, faults, disturbed>>

\* The answer to a decision: a conflict acquires the lock again, to learn who holds it.
\* The continuation belongs to the render that sent the decision: it acquires the lock
\* of that document, whatever the tab shows by then.
HearDecision(q) ==
  /\ q.verdict # None /\ q.kind = "decide"
  /\ LET v == tab[q.t]
         again == q.verdict = "conflict"
     IN /\ tab' = IF v.doc = None \/ v.inst # q.inst THEN tab
                  ELSE [tab EXCEPT ![q.t] = [v EXCEPT !.deciding = FALSE, !.acquiring = again \/ @,
                                                      !.error = ~again /\ @]]
        /\ net' = (net \ {q}) \cup (IF again THEN {[q EXCEPT !.kind = "acquire", !.verdict = None]} ELSE {})
  /\ UNCHANGED <<lease, visits, faults, disturbed>>

---------------------------------------------------------------------------
Init ==
  /\ lease = [d \in Docs |-> None]
  /\ tab = [t \in Tabs |-> [doc |-> None, inst |-> 0, locked |-> FALSE, mine |-> FALSE,
                            acquiring |-> FALSE, error |-> FALSE, deciding |-> FALSE]]
  /\ net = {} /\ visits = 0 /\ faults = 0 /\ disturbed = {}

Next ==
  \/ \E t \in Tabs, d \in Docs : OpenDoc(t, d)
  \/ \E t \in Tabs : LeaveDoc(t) \/ Reacquire(t) \/ Steal(t) \/ Heartbeat(t) \/ Decide(t)
  \/ \E q \in net : Serve(q) \/ Fail(q) \/ HearLock(q) \/ HearDecision(q)
  \/ \E d \in Docs : Expire(d)

Spec == Init /\ [][Next]_vars

\* Timers fire, the server answers, the browser runs the continuations.
Fairness ==
  /\ \A t \in Tabs : WF_vars(Heartbeat(t))
  /\ \A t \in Tabs, k \in Kinds :
        /\ WF_vars(\E q \in net : q.t = t /\ q.kind = k /\ Serve(q))
        /\ WF_vars(\E q \in net : q.t = t /\ q.kind = k /\ (HearLock(q) \/ HearDecision(q)))
FairSpec == Spec /\ Fairness

---------------------------------------------------------------------------
(* Properties. *)

TypeOK ==
  /\ lease \in [Docs -> Users \cup {None}]
  /\ tab \in [Tabs -> [doc: Docs \cup {None}, inst: 0 .. MaxVisits, locked: BOOLEAN, mine: BOOLEAN,
                       acquiring: BOOLEAN, error: BOOLEAN, deciding: BOOLEAN]]
  /\ net \subseteq Message
  /\ \A t \in Tabs : tab[t].mine => tab[t].locked /\ tab[t].doc # None

\* A tab that says « Vous arbitrez » is right, whatever answers come late from the
\* documents it showed before, unless the lease expired, was taken over, or was released
\* by another tab or an earlier visit of the same user (useArbitrationLock.ts, fresh).
BeliefIsBacked ==
  \A t \in Tabs, d \in Docs : (Believes(t, d) /\ d \notin disturbed) => lease[d] = Owner[t]

\* The two together: the lock as the tabs and the server see it.
LockIsSound == TypeOK /\ BeliefIsBacked

\* A tab that is wrong in believing it holds the lock does not stay wrong: its heartbeats
\* tell it (useArbitrationLock.ts, heartbeat).
WrongBeliefEnds ==
  \A t \in Tabs, d \in Docs :
     (Believes(t, d) /\ lease[d] # Owner[t]) ~> (~Believes(t, d) \/ lease[d] = Owner[t])

\* useArbitrationLock.ts: the release on leaving "Couvre l'unmount pendant l'acquire en
\* vol": once everything sent has been served, no lease is left to a user who is not there.
NoLeaseIsAbandoned ==
  (net = {} /\ faults = 0) =>
     \A d \in Docs : lease[d] # None => \E t \in Tabs : Owner[t] = lease[d] /\ tab[t].doc = d

\* docs/pactiva/dossier-gold-tech/04-realtime-lock.md:6: the banner says who arbitrates,
\* and offers to take over, when another holds the lock.
RefusalShowsTheHolder ==
  [][\A q \in net :
       (q.kind = "acquire" /\ q.verdict = "conflict" /\ tab'[q.t] # tab[q.t] /\ q \notin net') =>
          (tab'[q.t].locked /\ ~tab'[q.t].mine)]_vars

-----------------------------------------------------------------------------
(* Proofs, for any users, tabs and documents, and for any number of        *)
(* requests on their way, served in any order or lost.                     *)

TabState == [doc: Docs \cup {None}, inst: Nat, locked: BOOLEAN, mine: BOOLEAN,
             acquiring: BOOLEAN, error: BOOLEAN, deciding: BOOLEAN]

\* The types, with the bound on the mounted components tied to the visits.
Typed ==
  /\ lease \in [Docs -> Users \cup {None}]
  /\ tab \in [Tabs -> TabState]
  /\ net \subseteq Message
  /\ visits \in 0 .. MaxVisits
  /\ \A t \in Tabs : tab[t].inst <= visits
  /\ \A t \in Tabs : tab[t].mine => tab[t].locked /\ tab[t].doc # None

\* The answers that make a tab believe it holds the lock.
Convincing(m) == m.verdict = "ok" /\ m.kind \in {"acquire", "beat", "steal"}

\* BeliefIsBacked is not inductive: a late answer may convince a tab.  Every answer on
\* its way that would is as true as the beliefs are.
AnswersAreBacked ==
  \A m \in net : (Convincing(m) /\ m.doc \notin disturbed) => lease[m.doc] = Owner[m.t]

IInv == Typed /\ BeliefIsBacked /\ AnswersAreBacked

---------------------------------------------------------------------------
(* Tabs, owners and messages.                                              *)

LEMMA OwnerIsUser == ASSUME NEW t \in Tabs PROVE Owner[t] \in Users
<1>1. \E u \in Users : t \in u
  BY DEF Tabs
<1> QED BY <1>1 DEF Owner

LEMMA RequestType ==
  ASSUME NEW t \in Tabs, NEW v \in TabState, v.doc # None, NEW kind \in Kinds
  PROVE  Request(t, v, kind) \in Message /\ Request(t, v, kind).verdict = None
BY DEF Request, TabState, Message, Verdicts

LEMMA ReleasesType ==
  ASSUME Typed, NEW t \in Tabs
  PROVE  Releases(t) \subseteq Message /\ \A m \in Releases(t) : m.verdict = None
<1>1. CASE tab[t].doc = None
  BY <1>1 DEF Releases
<1>2. CASE tab[t].doc # None
  <2>1. tab[t] \in TabState
    BY DEF Typed
  <2>2. Request(t, tab[t], "release") \in Message /\ Request(t, tab[t], "release").verdict = None
    BY <1>2, <2>1, RequestType DEF Kinds
  <2> QED BY <1>2, <2>2 DEF Releases
<1> QED BY <1>1, <1>2

\* Requests nobody has answered yet convince nobody: to send them disturbs nothing.
LEMMA SendingKeepsAnswers ==
  ASSUME AnswersAreBacked, NEW new, \A m \in new : m.verdict = None,
         net' = net \cup new, UNCHANGED <<lease, disturbed>>
  PROVE  AnswersAreBacked'
BY NoneAssumption DEF AnswersAreBacked, Convincing

\* A step that changes one tab, which believes nothing it did not believe before, and
\* sends requests.
LEMMA TabStep ==
  ASSUME IInv, NEW t \in Tabs, NEW v \in TabState, NEW new,
         tab' = [tab EXCEPT ![t] = v], net' = net \cup new, UNCHANGED <<lease, disturbed>>,
         \A m \in new : m \in Message /\ m.verdict = None,
         visits' \in visits .. MaxVisits, v.inst <= visits',
         v.mine => tab[t].mine /\ v.doc = tab[t].doc /\ v.locked = tab[t].locked
  PROVE  IInv'
<1>1. \A x \in Tabs : tab'[x] = IF x = t THEN v ELSE tab[x]
  BY DEF IInv, Typed
<1>2. Typed'
  <2>1. /\ lease' \in [Docs -> Users \cup {None}]
        /\ tab' \in [Tabs -> TabState]
        /\ net' \subseteq Message
    BY DEF IInv, Typed
  <2>2. visits' \in 0 .. MaxVisits /\ visits \in Nat /\ visits' \in Nat /\ visits <= visits'
    BY BoundAssumption DEF IInv, Typed
  <2>3. \A x \in Tabs : tab'[x].inst <= visits'
    <3> TAKE x \in Tabs
    <3>1. tab[x].inst \in Nat /\ tab[x].inst <= visits
      BY DEF IInv, Typed, TabState
    <3> QED BY <1>1, <2>2, <3>1
  <2>4. \A x \in Tabs : tab'[x].mine => tab'[x].locked /\ tab'[x].doc # None
    BY <1>1 DEF IInv, Typed
  <2> QED BY <2>1, <2>2, <2>3, <2>4 DEF Typed
<1>3. BeliefIsBacked'
  BY <1>1 DEF IInv, BeliefIsBacked, Believes
<1>4. AnswersAreBacked'
  BY SendingKeepsAnswers DEF IInv
<1> QED BY <1>2, <1>3, <1>4 DEF IInv

---------------------------------------------------------------------------
(* The tabs.                                                               *)

LEMMA OpenOK == ASSUME IInv, NEW t \in Tabs, NEW d \in Docs, OpenDoc(t, d) PROVE IInv'
<1> DEFINE inst == IF tab[t].doc = None THEN tab[t].inst + 1 ELSE tab[t].inst
           v == Opened(t, d, inst)
           new == Releases(t) \cup {Request(t, v, "acquire")}
<1>1. tab[t] \in TabState /\ tab[t].inst <= visits /\ visits \in Nat /\ visits < MaxVisits
  BY BoundAssumption DEF IInv, Typed, OpenDoc
<1>2. inst \in Nat /\ inst <= visits + 1
  BY <1>1 DEF TabState
<1>3. v \in TabState /\ v.inst = inst /\ ~v.mine /\ v.doc = d
  BY <1>1, <1>2 DEF Opened, TabState, Free
<1>4. /\ tab' = [tab EXCEPT ![t] = v] /\ net' = net \cup new
      /\ visits' = visits + 1 /\ UNCHANGED <<lease, disturbed>>
  BY DEF OpenDoc
<1> HIDE DEF v, inst
<1>5. \A m \in new : m \in Message /\ m.verdict = None
  BY <1>3, RequestType, ReleasesType, NoneAssumption DEF Kinds, IInv
<1>6. visits' \in visits .. MaxVisits /\ v.inst <= visits'
  BY <1>1, <1>2, <1>3, <1>4, BoundAssumption
<1> HIDE DEF new
<1> QED BY <1>3, <1>4, <1>5, <1>6, TabStep

LEMMA LeaveOK == ASSUME IInv, NEW t \in Tabs, LeaveDoc(t) PROVE IInv'
<1> DEFINE v == [tab[t] EXCEPT !.doc = None, !.mine = FALSE, !.locked = FALSE,
                               !.acquiring = FALSE, !.error = FALSE, !.deciding = FALSE]
<1>1. tab[t] \in TabState /\ tab[t].inst <= visits /\ visits \in visits .. MaxVisits
  BY BoundAssumption DEF IInv, Typed
<1>2. v \in TabState /\ ~v.mine /\ v.inst = tab[t].inst
  BY <1>1 DEF TabState
<1>3. /\ tab' = [tab EXCEPT ![t] = v] /\ net' = net \cup Releases(t)
      /\ UNCHANGED <<lease, disturbed>> /\ visits' = visits
  BY DEF LeaveDoc
<1> HIDE DEF v
<1> QED BY <1>1, <1>2, <1>3, ReleasesType, TabStep DEF IInv

\* The gestures that keep the document and send one request.
LEMMA AskOK ==
  ASSUME IInv, NEW t \in Tabs, tab[t].doc # None, NEW kind \in Kinds,
         NEW v \in TabState, v.inst = tab[t].inst, v.mine = tab[t].mine, v.doc = tab[t].doc,
         v.locked = tab[t].locked,
         tab' = [tab EXCEPT ![t] = v], net' = net \cup {Request(t, tab[t], kind)},
         UNCHANGED <<lease, visits, disturbed>>
  PROVE  IInv'
<1>1. tab[t] \in TabState /\ tab[t].inst <= visits /\ visits \in visits .. MaxVisits
  BY BoundAssumption DEF IInv, Typed
<1>2. Request(t, tab[t], kind) \in Message /\ Request(t, tab[t], kind).verdict = None
  BY <1>1, RequestType
<1> DEFINE new == {Request(t, tab[t], kind)}
<1>3. \A m \in new : m \in Message /\ m.verdict = None
  BY <1>2
<1>4. net' = net \cup new /\ visits' \in visits .. MaxVisits /\ v.inst <= visits'
  BY <1>1
<1> HIDE DEF new
<1> QED BY <1>3, <1>4, TabStep

LEMMA ReacquireOK == ASSUME IInv, NEW t \in Tabs, Reacquire(t) PROVE IInv'
<1> DEFINE v == [tab[t] EXCEPT !.acquiring = TRUE, !.error = FALSE]
<1>1. tab[t] \in TabState
  BY DEF IInv, Typed
<1>2. /\ v \in TabState /\ v.inst = tab[t].inst /\ v.mine = tab[t].mine
      /\ v.doc = tab[t].doc /\ v.locked = tab[t].locked
  BY <1>1 DEF TabState
<1>3. /\ tab' = [tab EXCEPT ![t] = v] /\ net' = net \cup {Request(t, tab[t], "acquire")}
      /\ UNCHANGED <<lease, visits, disturbed>> /\ tab[t].doc # None /\ "acquire" \in Kinds
  BY DEF Reacquire, Kinds
<1> HIDE DEF v
<1> QED BY <1>2, <1>3, AskOK

LEMMA DecideOK == ASSUME IInv, NEW t \in Tabs, Decide(t) PROVE IInv'
<1> DEFINE v == [tab[t] EXCEPT !.deciding = TRUE]
<1>1. tab[t] \in TabState
  BY DEF IInv, Typed
<1>2. /\ v \in TabState /\ v.inst = tab[t].inst /\ v.mine = tab[t].mine
      /\ v.doc = tab[t].doc /\ v.locked = tab[t].locked
  BY <1>1 DEF TabState
<1>3. /\ tab' = [tab EXCEPT ![t] = v] /\ net' = net \cup {Request(t, tab[t], "decide")}
      /\ UNCHANGED <<lease, visits, disturbed>> /\ tab[t].doc # None /\ "decide" \in Kinds
  BY DEF Decide, Kinds
<1> HIDE DEF v
<1> QED BY <1>2, <1>3, AskOK

LEMMA SendOK ==
  ASSUME IInv, NEW t \in Tabs, NEW kind \in Kinds, tab[t].doc # None,
         net' = net \cup {Request(t, tab[t], kind)}, UNCHANGED <<lease, tab, visits, disturbed>>
  PROVE  IInv'
<1>1. tab[t] \in TabState /\ tab' = [tab EXCEPT ![t] = tab[t]]
  BY DEF IInv, Typed
<1> QED BY <1>1, AskOK

LEMMA StealOK == ASSUME IInv, NEW t \in Tabs, Steal(t) PROVE IInv'
BY SendOK DEF Steal, Kinds

LEMMA HeartbeatOK == ASSUME IInv, NEW t \in Tabs, Heartbeat(t) PROVE IInv'
BY SendOK DEF Heartbeat, Kinds

---------------------------------------------------------------------------
(* The server and the network.                                             *)

\* The history of disturbances of a document accounts for every lease it loses.
LEMMA ServedLease ==
  ASSUME IInv, NEW q \in net, Serve(q), NEW t \in Tabs, q.doc \notin disturbed',
         lease[q.doc] = Owner[t],
         \/ tab[t].doc = q.doc
         \/ \E m \in net : m.t = t /\ m.doc = q.doc /\ m.verdict = "ok"
  PROVE  lease'[q.doc] = Owner[t]
<1> DEFINE u == Owner[q.t]
<1>1. q \in Message /\ q.doc \in Docs /\ q.t \in Tabs /\ q.kind \in Kinds
  BY DEF IInv, Typed, Message
<1>2. Owner[t] # None
  BY OwnerIsUser, NoneAssumption
<1>3. lease'[q.doc] = LeaseAfter(q)
  BY <1>1 DEF Serve, IInv, Typed
<1>4. ~Disturbs(q)
  BY DEF Serve
<1>5. CASE q.kind = "acquire"
  BY <1>2, <1>3, <1>5 DEF LeaseAfter
<1>6. CASE q.kind = "release"
  <2>1. Owner[t] # u
    BY <1>4, <1>6 DEF Disturbs
  <2> QED BY <1>3, <1>6, <2>1 DEF LeaseAfter
<1>7. CASE q.kind \in {"beat", "decide"}
  BY <1>3, <1>7 DEF LeaseAfter
<1>8. q.kind # "steal"
  BY <1>4 DEF Disturbs
<1> QED BY <1>1, <1>5, <1>6, <1>7, <1>8 DEF Kinds

LEMMA LeaseType ==
  ASSUME IInv, NEW q \in net
  PROVE  LeaseAfter(q) \in Users \cup {None} /\ VerdictOn(q) \in {"ok", "conflict"}
<1>1. q.doc \in Docs /\ q.t \in Tabs /\ Owner[q.t] \in Users /\ lease[q.doc] \in Users \cup {None}
  BY OwnerIsUser DEF IInv, Typed, Message
<1>2. LeaseAfter(q) \in {Owner[q.t], None, lease[q.doc]}
  BY DEF LeaseAfter
<1>3. VerdictOn(q) \in {"ok", "conflict"}
  BY DEF VerdictOn
<1> QED BY <1>1, <1>2, <1>3

LEMMA ServeOK == ASSUME IInv, NEW q \in net, Serve(q) PROVE IInv'
<1> DEFINE r == [q EXCEPT !.verdict = VerdictOn(q)]
<1>1. q \in Message /\ q.doc \in Docs /\ q.t \in Tabs
  BY DEF IInv, Typed, Message
<1>2. r \in Message /\ r.t = q.t /\ r.doc = q.doc /\ r.kind = q.kind /\ r.verdict = VerdictOn(q)
  BY <1>1, LeaseType DEF Message, Verdicts
<1>3. /\ net' \subseteq net \cup {r}
      /\ lease' = [lease EXCEPT ![q.doc] = LeaseAfter(q)]
      /\ disturbed \subseteq disturbed'
      /\ UNCHANGED <<tab, visits>>
  BY DEF Serve
<1> HIDE DEF r
<1>4. \A d \in Docs : d # q.doc => lease'[d] = lease[d]
  BY <1>3 DEF IInv, Typed
<1>5. Typed'
  BY <1>2, <1>3, LeaseType DEF IInv, Typed
<1>6. BeliefIsBacked'
  <2> SUFFICES ASSUME NEW t \in Tabs, NEW d \in Docs, Believes(t, d)', d \notin disturbed'
               PROVE  lease'[d] = Owner[t]
    BY DEF BeliefIsBacked
  <2>1. lease[d] = Owner[t] /\ tab[t].doc = d
    BY <1>3 DEF IInv, BeliefIsBacked, Believes
  <2> QED BY <1>4, <2>1, ServedLease
<1>7. AnswersAreBacked'
  <2> SUFFICES ASSUME NEW m \in net', Convincing(m), m.doc \notin disturbed'
               PROVE  lease'[m.doc] = Owner[m.t]
    BY DEF AnswersAreBacked
  <2>1. CASE m \in net
    <3>1. m.doc \in Docs /\ m.t \in Tabs /\ lease[m.doc] = Owner[m.t] /\ m.verdict = "ok"
      BY <1>3, <2>1 DEF IInv, AnswersAreBacked, Convincing, Typed, Message
    <3> QED BY <1>4, <2>1, <3>1, ServedLease
  <2>2. CASE m = r
    <3>1. lease'[q.doc] = LeaseAfter(q)
      BY <1>1, <1>3 DEF IInv, Typed
    <3>2. q.kind \in {"acquire", "beat", "steal"} /\ VerdictOn(q) = "ok"
      BY <1>2, <2>2 DEF Convincing
    <3>3. LeaseAfter(q) = Owner[q.t]
      BY <3>2 DEF LeaseAfter, VerdictOn
    <3> QED BY <1>2, <2>2, <3>1, <3>3
  <2> QED BY <1>3, <2>1, <2>2
<1> QED BY <1>5, <1>6, <1>7 DEF IInv

\* A step that touches neither the leases, nor the tabs, nor the history, and only puts
\* on the network what convinces nobody.
LEMMA NetStep ==
  ASSUME IInv, \A m \in net' : m \in net \/ (m \in Message /\ ~Convincing(m)),
         UNCHANGED <<lease, tab, visits, disturbed>>
  PROVE  IInv'
<1>1. Typed'
  BY DEF IInv, Typed
<1>2. BeliefIsBacked'
  BY DEF IInv, BeliefIsBacked, Believes
<1>3. AnswersAreBacked'
  BY DEF IInv, AnswersAreBacked, Convincing
<1> QED BY <1>1, <1>2, <1>3 DEF IInv

LEMMA FailOK == ASSUME IInv, NEW q \in net, Fail(q) PROVE IInv'
<1> DEFINE r == [q EXCEPT !.verdict = "failed"]
<1>1. r \in Message /\ ~Convincing(r)
  BY DEF IInv, Typed, Message, Verdicts, Convincing
<1>2. net' \subseteq net \cup {r} /\ UNCHANGED <<lease, tab, visits, disturbed>>
  BY DEF Fail
<1> HIDE DEF r
<1> QED BY <1>1, <1>2, NetStep

LEMMA ExpireOK == ASSUME IInv, NEW d \in Docs, Expire(d) PROVE IInv'
<1>1. \A x \in Docs : x # d => lease'[x] = lease[x]
  BY DEF Expire, IInv, Typed
<1>2. Typed'
  BY DEF Expire, IInv, Typed
<1>3. BeliefIsBacked'
  BY <1>1 DEF Expire, IInv, BeliefIsBacked, Believes
<1>4. AnswersAreBacked'
  <2>1. \A m \in net : m.doc \in Docs
    BY DEF IInv, Typed, Message
  <2> QED BY <1>1, <2>1 DEF Expire, IInv, AnswersAreBacked, Convincing
<1> QED BY <1>2, <1>3, <1>4 DEF IInv

---------------------------------------------------------------------------
(* Answers.                                                                *)

LEMMA ToldType ==
  ASSUME NEW v \in TabState, NEW q \in Message
  PROVE  /\ Told(v, q) \in TabState
         /\ Told(v, q).inst = v.inst /\ Told(v, q).doc = v.doc
         /\ Told(v, q).mine => Told(v, q).locked \/ (v.mine /\ Told(v, q).locked = v.locked)
         /\ Told(v, q).mine => v.mine \/ q.verdict = "ok"
BY DEF Told, TabState

\* The answer taken by a tab that shows the document it is about.
LEMMA HeardOK ==
  ASSUME IInv, NEW q \in net, HearLock(q), Fresh(q) PROVE IInv'
<1> DEFINE t == q.t
           v == [Told(tab[t], q) EXCEPT !.acquiring = IF q.kind = "acquire" THEN FALSE ELSE @]
<1>1. t \in Tabs /\ q \in Message /\ q.doc \in Docs /\ tab[t] \in TabState /\ tab[t].doc = q.doc
  BY DEF IInv, Typed, Message, Fresh
<1>2. /\ v \in TabState /\ v.inst = tab[t].inst /\ v.doc = q.doc
      /\ v.mine => v.locked \/ (tab[t].mine /\ v.locked = tab[t].locked)
      /\ v.mine => tab[t].mine \/ q.verdict = "ok"
  <2>1. Told(tab[t], q) \in TabState
    BY <1>1, ToldType
  <2>2. /\ v \in TabState /\ v.inst = Told(tab[t], q).inst /\ v.doc = Told(tab[t], q).doc
        /\ v.mine = Told(tab[t], q).mine /\ v.locked = Told(tab[t], q).locked
    BY <2>1 DEF TabState
  <2> QED BY <1>1, <2>2, ToldType
<1>3. tab' = [tab EXCEPT ![t] = v] /\ net' \subseteq net /\ UNCHANGED <<lease, visits, disturbed>>
  BY DEF HearLock
<1>4. q.kind \in {"acquire", "beat", "steal"}
  BY DEF HearLock
<1> HIDE DEF v
<1>5. \A x \in Tabs : tab'[x] = IF x = t THEN v ELSE tab[x]
  BY <1>3 DEF IInv, Typed
<1>6. Typed'
  BY <1>1, <1>2, <1>3, <1>5, NoneAssumption DEF IInv, Typed
<1>7. BeliefIsBacked'
  <2>1. (v.mine /\ q.doc \notin disturbed) => lease[q.doc] = Owner[t]
    BY <1>1, <1>2, <1>4 DEF IInv, BeliefIsBacked, Believes, AnswersAreBacked, Convincing
  <2> QED BY <1>1, <1>2, <1>3, <1>5, <2>1 DEF IInv, BeliefIsBacked, Believes
<1>8. AnswersAreBacked'
  BY <1>3 DEF IInv, AnswersAreBacked
<1> QED BY <1>6, <1>7, <1>8 DEF IInv

LEMMA HearLockOK == ASSUME IInv, NEW q \in net, HearLock(q) PROVE IInv'
<1>1. CASE Fresh(q)
  BY <1>1, HeardOK
<1>2. CASE ~Fresh(q)
  <2>1. net' \subseteq net /\ UNCHANGED <<lease, tab, visits, disturbed>>
    BY <1>2 DEF HearLock
  <2> QED BY <2>1, NetStep
<1> QED BY <1>1, <1>2

LEMMA HearDecisionOK == ASSUME IInv, NEW q \in net, HearDecision(q) PROVE IInv'
<1> DEFINE t == q.t
           again == q.verdict = "conflict"
           v == [tab[t] EXCEPT !.deciding = FALSE, !.acquiring = again \/ @, !.error = ~again /\ @]
           r == [q EXCEPT !.kind = "acquire", !.verdict = None]
<1>1. t \in Tabs /\ q \in Message /\ tab[t] \in TabState
  BY DEF IInv, Typed, Message
<1>2. /\ v \in TabState /\ v.inst = tab[t].inst /\ v.mine = tab[t].mine
      /\ v.doc = tab[t].doc /\ v.locked = tab[t].locked
  BY <1>1 DEF TabState
<1>3. r \in Message /\ ~Convincing(r)
  BY <1>1, NoneAssumption DEF Message, Verdicts, Kinds, Convincing
<1>4. /\ tab' = tab \/ tab' = [tab EXCEPT ![t] = v]
      /\ net' \subseteq net \cup {r} /\ UNCHANGED <<lease, visits, disturbed>>
  BY DEF HearDecision
<1> HIDE DEF v, r, again
<1>5. CASE tab' = tab
  BY <1>3, <1>4, <1>5, NetStep
<1>6. CASE tab' = [tab EXCEPT ![t] = v]
  <2>1. \A x \in Tabs : tab'[x] = IF x = t THEN v ELSE tab[x]
    BY <1>6 DEF IInv, Typed
  <2>2. Typed'
    BY <1>1, <1>2, <1>3, <1>4, <1>6, <2>1 DEF IInv, Typed
  <2>3. BeliefIsBacked'
    BY <1>2, <1>4, <2>1 DEF IInv, BeliefIsBacked, Believes
  <2>4. AnswersAreBacked'
    BY <1>3, <1>4 DEF IInv, AnswersAreBacked, Convincing
  <2> QED BY <2>2, <2>3, <2>4 DEF IInv
<1> QED BY <1>4, <1>5, <1>6

---------------------------------------------------------------------------
(* The specification.                                                      *)

LEMMA InitOK == Init => IInv
<1> SUFFICES ASSUME Init PROVE IInv
  OBVIOUS
<1>1. Typed
  BY BoundAssumption DEF Init, Typed, TabState
<1>2. BeliefIsBacked /\ AnswersAreBacked
  BY DEF Init, BeliefIsBacked, Believes, AnswersAreBacked
<1> QED BY <1>1, <1>2 DEF IInv

LEMMA StepOK == IInv /\ [Next]_vars => IInv'
<1> SUFFICES ASSUME IInv, [Next]_vars PROVE IInv'
  OBVIOUS
<1>1. CASE UNCHANGED vars
  BY <1>1 DEF vars, IInv, Typed, BeliefIsBacked, Believes, AnswersAreBacked, Convincing
<1>2. CASE \E t \in Tabs, d \in Docs : OpenDoc(t, d)
  BY <1>2, OpenOK
<1>3. CASE \E t \in Tabs : LeaveDoc(t) \/ Reacquire(t) \/ Steal(t) \/ Heartbeat(t) \/ Decide(t)
  BY <1>3, LeaveOK, ReacquireOK, StealOK, HeartbeatOK, DecideOK
<1>4. CASE \E q \in net : Serve(q) \/ Fail(q) \/ HearLock(q) \/ HearDecision(q)
  BY <1>4, ServeOK, FailOK, HearLockOK, HearDecisionOK
<1>5. CASE \E d \in Docs : Expire(d)
  BY <1>5, ExpireOK
<1> QED BY <1>1, <1>2, <1>3, <1>4, <1>5 DEF Next

\* Whatever is sent, served late, out of order or lost, beliefs and the answers on their
\* way are backed by the lease of every document that was not disturbed.
THEOREM Invariance == Spec => []IInv
BY InitOK, StepOK, PTL DEF Spec

\* A tab that says it arbitrates does hold the lease, for any users, tabs, documents and
\* requests on their way, unless the lease was lost in one of the ways the history names.
THEOREM LockCorrect == Spec => []LockIsSound
<1>1. IInv => LockIsSound
  <2> SUFFICES ASSUME IInv PROVE LockIsSound
    OBVIOUS
  <2>1. \A t \in Tabs : tab[t] \in TabState /\ tab[t].inst \in 0 .. MaxVisits
    BY BoundAssumption DEF IInv, Typed, TabState
  <2>2. tab \in [Tabs -> [doc: Docs \cup {None}, inst: 0 .. MaxVisits, locked: BOOLEAN, mine: BOOLEAN,
                          acquiring: BOOLEAN, error: BOOLEAN, deciding: BOOLEAN]]
    BY <2>1 DEF IInv, Typed, TabState
  <2> QED BY <2>2 DEF IInv, Typed, TypeOK, LockIsSound
<1> QED BY <1>1, Invariance, PTL
=============================================================================
