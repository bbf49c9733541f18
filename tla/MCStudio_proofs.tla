---------------------------- MODULE MCStudio_proofs ----------------------------
(***************************************************************************)
(* The safety of the pages of MCStudio, proved for any values of its       *)
(* parameters.  One page is mounted at a time: the invariant of the whole  *)
(* is that of the page that is there.                                      *)
(***************************************************************************)
EXTENDS MCStudio, Integers, Sequences, SequencesExt, FiniteSetTheorems, TLAPS

-----------------------------------------------------------------------------
(* The screens of the Lab.  What a screen was told of a run that has its    *)
(* results stays true of it, on the screen, in an answer on its way and in  *)
(* a comparison, unless two workers contest the run.                        *)

Statuses == Screens!ACTIVE \cup Screens!TERMINAL \cup {"absent"}
Lives == [LabRuns -> [status : Statuses, cancel : BOOLEAN]]
HasResults(r) == r \in contested \/ life[r].status \in Screens!COMPARABLE
Snapshots == {f \in Lives : \A r \in LabRuns : f[r].status \in Screens!COMPARABLE => HasResults(r)}
Requests == [snap : Snapshots \cup {Sent}, late : BOOLEAN]

Informed ==
  /\ life \in Lives /\ contested \subseteq LabRuns
  /\ shown \in Snapshots /\ asked \in Seq(Requests)
  /\ \A r \in selected \cup comparing \cup compared : r \in LabRuns /\ HasResults(r)
CancelsOnce ==
  /\ cancelling \subseteq LabRuns /\ sent \in [LabRuns -> {0, 1}]
  /\ \A r \in LabRuns : sent[r] = 1 => r \in cancelling
ScreensInv == Informed /\ CancelsOnce

LEMMA SeqGrows ==
  ASSUME NEW A, NEW B, A \subseteq B, NEW s \in Seq(A)
  PROVE  s \in Seq(B)
OBVIOUS

LEMMA RemovedAt ==
  ASSUME NEW A, NEW s \in Seq(A), NEW i \in DOMAIN s
  PROVE  RemoveAt(s, i) \in Seq(A)
<1>1. i \in 1 .. Len(s)
  OBVIOUS
<1>2. SubSeq(s, 1, i - 1) \in Seq(A) /\ SubSeq(s, i + 1, Len(s)) \in Seq(A)
  BY <1>1
<1> QED BY <1>2 DEF RemoveAt

LEMMA ScreensInit ==
  ASSUME Screens!ScreenInit
  PROVE  ScreensInv
<1> USE DEF Statuses, Lives, Screens!ACTIVE, Screens!TERMINAL, Screens!Absent, Screens!COMPARABLE
<1>1. life \in Lives /\ contested = {}
  BY DEF Screens!ScreenInit, Screens!Init
<1>2. Screens!Unloaded \in Snapshots
  BY DEF Screens!Unloaded, Snapshots
<1>3. Screens!NewAsk \in Requests
  BY DEF Screens!NewAsk, Requests
<1> QED BY <1>1, <1>2, <1>3 DEF Screens!ScreenInit, ScreensInv, Informed, CancelsOnce

\* The network and the timers.
LEMMA PollStep ==
  ASSUME ScreensInv, UNCHANGED <<life, contested>>,
         Screens!Ask \/ Screens!Network \/ \E i \in DOMAIN asked : Screens!AskFails(i)
  PROVE  ScreensInv'
<1> USE DEF ScreensInv, Informed
<1>1. UNCHANGED <<cancelling, sent, selected, comparing, compared>>
  BY DEF Screens!Ask, Screens!Network, Screens!Serve, Screens!Hear, Screens!AskFails, Screens!picks
<1>2. CancelsOnce' /\ Snapshots' = Snapshots /\ Requests' = Requests
  BY <1>1 DEF CancelsOnce, Snapshots, Requests, HasResults
<1>3. Screens!NewAsk \in Requests /\ Screens!Unloaded \in Snapshots
  BY DEF Screens!NewAsk, Requests, Screens!Unloaded, Snapshots, Lives, Statuses, Screens!Absent, Screens!COMPARABLE
<1>4. ASSUME shown' \in Snapshots, asked' \in Seq(Requests)
      PROVE  ScreensInv'
  BY <1>1, <1>2, <1>4 DEF HasResults
<1>5. CASE Screens!Ask
  BY <1>3, <1>4, <1>5 DEF Screens!Ask
<1>6. ASSUME NEW i \in DOMAIN asked, Screens!Serve(i)
      PROVE  ScreensInv'
  <2>1. life \in Snapshots
    BY DEF Snapshots, HasResults
  <2>2. asked' = [asked EXCEPT ![i] = [asked[i] EXCEPT !.snap = life]]
    BY <1>6 DEF Screens!Serve
  <2>3. [asked[i] EXCEPT !.snap = life] \in Requests
    <3>1. asked[i] \in Requests
      OBVIOUS
    <3> HIDE DEF ScreensInv, Informed
    <3> QED BY <2>1, <3>1 DEF Requests
  <2> QED BY <1>4, <1>6, <2>2, <2>3 DEF Screens!Serve
<1>7. ASSUME NEW i \in DOMAIN asked, Screens!Hear(i)
      PROVE  ScreensInv'
  <2>1. asked[i] \in Requests
    OBVIOUS
  <2>2. asked[i].snap \in Snapshots
    BY <1>7, <2>1 DEF Screens!Hear, Requests
  <2> DEFINE marked == [j \in DOMAIN asked |-> IF j < i THEN [asked[j] EXCEPT !.late = TRUE] ELSE asked[j]]
  <2>3. marked \in Seq(Requests) /\ DOMAIN marked = DOMAIN asked
    <3>0. \A j \in DOMAIN asked : asked[j] \in Requests
      OBVIOUS
    <3>1. ASSUME NEW j \in DOMAIN asked PROVE marked[j] \in Requests
      <4>1. asked[j] \in Requests
        BY <3>0
      <4>2. marked[j] = asked[j] \/ marked[j] = [asked[j] EXCEPT !.late = TRUE]
        OBVIOUS
      <4> HIDE DEF marked, ScreensInv, Informed
      <4> QED BY <4>1, <4>2 DEF Requests
    <3>2. DOMAIN asked = 1 .. Len(asked) /\ Len(asked) \in Nat
      OBVIOUS
    <3> HIDE DEF marked
    <3>3. marked = [j \in 1 .. Len(asked) |-> marked[j]]
      BY <3>2 DEF marked
    <3> QED BY <3>1, <3>2, <3>3
  <2>4. asked' \in Seq(Requests)
    <3>1. asked' = RemoveAt(marked, i)
      BY <1>7 DEF Screens!Hear, Screens!Passed, Screens!RemoveAt, RemoveAt
    <3> HIDE DEF marked
    <3> QED BY <3>1, <2>3, RemovedAt
  <2> QED BY <1>4, <1>7, <2>2, <2>4 DEF Screens!Hear
<1>8. ASSUME NEW i \in DOMAIN asked, Screens!AskFails(i)
      PROVE  ScreensInv'
  <2>1. asked' = RemoveAt(asked, i)
    BY <1>8 DEF Screens!AskFails, Screens!RemoveAt, RemoveAt
  <2>2. asked' \in Seq(Requests)
    BY <2>1, RemovedAt
  <2> QED BY <1>3, <1>4, <1>8, <2>2 DEF Screens!AskFails
<1> QED BY <1>5, <1>6, <1>7, <1>8 DEF Screens!Network

\* What the runs do meanwhile leaves what was said of the finished ones true.
LEMMA LifeStep ==
  ASSUME LabStages \subseteq Screens!ACTIVE, LabVerdicts \subseteq Screens!TERMINAL,
         life \in Lives, contested \subseteq LabRuns, NEW r \in LabRuns,
         Screens!Launched(r) \/ Screens!Progresses(r) \/ Screens!Accepted(r) \/ Screens!Flagged(r)
  PROVE  /\ life' \in Lives /\ contested' \subseteq LabRuns
         /\ \A q \in LabRuns : HasResults(q) => HasResults(q)'
<1> USE DEF Lives, Statuses, HasResults, Screens!ACTIVE, Screens!TERMINAL, Screens!COMPARABLE
<1>1. CASE Screens!Launched(r)
  <2>1. life' = [life EXCEPT ![r] = [life[r] EXCEPT !.status = "queued"]] /\ contested' = contested
        /\ life[r].status = "absent"
    BY <1>1 DEF Screens!Launched, Screens!Absent
  <2>2. [life[r] EXCEPT !.status = "queued"] \in [status : Statuses, cancel : BOOLEAN]
    OBVIOUS
  <2> QED BY <2>1, <2>2
<1>2. CASE Screens!Flagged(r)
  <2>1. life' = [life EXCEPT ![r] = [life[r] EXCEPT !.cancel = TRUE]] /\ contested' = contested
    BY <1>2 DEF Screens!Flagged
  <2>2. /\ [life[r] EXCEPT !.cancel = TRUE] \in [status : Statuses, cancel : BOOLEAN]
        /\ [life[r] EXCEPT !.cancel = TRUE].status = life[r].status
    OBVIOUS
  <2> QED BY <2>1, <2>2
<1>3. CASE Screens!Progresses(r)
  <2>1. PICK s \in LabStages \cup LabVerdicts : life' = [life EXCEPT ![r] = [life[r] EXCEPT !.status = s]]
    BY <1>3 DEF Screens!Progresses
  <2>2. [life[r] EXCEPT !.status = s] \in [status : Statuses, cancel : BOOLEAN]
    OBVIOUS
  <2>3. contested \subseteq contested' /\ contested' \subseteq LabRuns
        /\ (life[r].status \in Screens!ACTIVE \/ r \in contested)
    BY <1>3 DEF Screens!Progresses
  <2>4. life' \in Lives /\ \A q \in LabRuns \ {r} : life'[q] = life[q]
    BY <2>1, <2>2
  <2> QED BY <2>3, <2>4
<1>4. CASE Screens!Accepted(r)
  BY <1>4 DEF Screens!Accepted
<1> QED BY <1>1, <1>2, <1>3, <1>4

LEMMA InformedStep ==
  ASSUME Informed, life' \in Lives, contested' \subseteq LabRuns,
         \A q \in LabRuns : HasResults(q) => HasResults(q)',
         shown' \in Snapshots, asked' \in Seq(Requests),
         \A q \in selected' \cup comparing' \cup compared' : q \in LabRuns /\ HasResults(q)
  PROVE  Informed'
<1>1. Snapshots \subseteq Snapshots'
  BY DEF Snapshots
<1>2. Requests \subseteq Requests'
  BY <1>1 DEF Requests
<1>3. asked' \in Seq(Requests')
  BY <1>2, SeqGrows
<1>4. shown' \in Snapshots'
  BY <1>1
<1> QED BY <1>3, <1>4 DEF Informed

\* The requests of the user.
LEMMA GestureStep ==
  ASSUME ScreensInv,
         \/ Screens!Compare \/ Screens!Compared
         \/ \E r \in LabRuns : Screens!CancelRun(r) \/ Screens!Toggle(r)
  PROVE  ScreensInv'
<1> USE DEF ScreensInv
<1>1. UNCHANGED <<life, contested, shown, asked>>
  BY DEF Screens!Compare, Screens!Compared, Screens!CancelRun, Screens!Toggle, Screens!server
<1>2. /\ life' \in Lives /\ contested' \subseteq LabRuns
      /\ \A q \in LabRuns : HasResults(q) => HasResults(q)'
      /\ shown' \in Snapshots /\ asked' \in Seq(Requests)
  BY <1>1 DEF Informed, HasResults
<1>3. CASE Screens!Compare \/ Screens!Compared
  <2>1. \A q \in selected' \cup comparing' \cup compared' : q \in LabRuns /\ HasResults(q)
    BY <1>3 DEF Screens!Compare, Screens!Compared, Informed
  <2>2. CancelsOnce'
    BY <1>3 DEF Screens!Compare, Screens!Compared, CancelsOnce
  <2> QED BY <1>2, <2>1, <2>2, InformedStep
<1>4. ASSUME NEW r \in LabRuns, Screens!Toggle(r) PROVE ScreensInv'
  <2>0. HasResults(r)
    BY <1>4 DEF Screens!Toggle, Informed, Snapshots
  <2>1. \A q \in selected' \cup comparing' \cup compared' : q \in LabRuns /\ HasResults(q)
    BY <2>0, <1>4 DEF Screens!Toggle, Informed
  <2>2. CancelsOnce'
    BY <1>4 DEF Screens!Toggle, CancelsOnce
  <2> QED BY <1>2, <2>1, <2>2, InformedStep
<1>5. ASSUME NEW r \in LabRuns, Screens!CancelRun(r) PROVE ScreensInv'
  <2>1. \A q \in selected' \cup comparing' \cup compared' : q \in LabRuns /\ HasResults(q)
    BY <1>5 DEF Screens!CancelRun, Screens!picks, Informed
  <2>2. CancelsOnce'
    <3>1. r \notin cancelling /\ cancelling' = cancelling \cup {r} /\ sent' = [sent EXCEPT ![r] = sent[r] + 1]
      BY <1>5 DEF Screens!CancelRun, Screens!CanCancel
    <3>2. sent[r] = 0
      BY <3>1 DEF CancelsOnce
    <3> QED BY <3>1, <3>2 DEF CancelsOnce
  <2> QED BY <1>2, <2>1, <2>2, InformedStep
<1> QED BY <1>3, <1>4, <1>5

\* The runs, and the answers of the server that change one.
LEMMA RunStep ==
  ASSUME LabStages \subseteq Screens!ACTIVE, LabVerdicts \subseteq Screens!TERMINAL,
         ScreensInv, NEW r \in LabRuns,
         \/ Screens!CancelAnswered(r) \/ Screens!StrayAnswered(r)
         \/ Screens!LaunchHere(r) \/ Screens!Elsewhere(r)
  PROVE  ScreensInv'
<1> USE DEF ScreensInv
<1>1. \/ Screens!Launched(r) \/ Screens!Progresses(r) \/ Screens!Accepted(r) \/ Screens!Flagged(r)
      \/ UNCHANGED <<life, contested>>
  BY DEF Screens!CancelAnswered, Screens!StrayAnswered, Screens!LaunchHere, Screens!Elsewhere, Screens!server
<1>2. /\ life' \in Lives /\ contested' \subseteq LabRuns
      /\ \A q \in LabRuns : HasResults(q) => HasResults(q)'
  <2>1. life \in Lives /\ contested \subseteq LabRuns
    BY DEF Informed
  <2>2. CASE UNCHANGED <<life, contested>>
    BY <2>1, <2>2 DEF HasResults
  <2> QED BY <1>1, <2>1, <2>2, LifeStep
<1>3. Screens!NewAsk \in Requests /\ Screens!Unloaded \in Snapshots
  BY DEF Screens!NewAsk, Requests, Screens!Unloaded, Snapshots, Lives, Statuses, Screens!Absent, Screens!COMPARABLE
<1>4. CASE Screens!CancelAnswered(r)
  <2>1. shown' = shown /\ asked' \in Seq(Requests)
    BY <1>3, <1>4 DEF Screens!CancelAnswered, Screens!Refuses, Informed
  <2>2. \A q \in selected' \cup comparing' \cup compared' : q \in LabRuns /\ HasResults(q)
    BY <1>4 DEF Screens!CancelAnswered, Screens!picks, Informed
  <2>3. CancelsOnce'
    <3>1. sent[r] > 0 /\ sent' = [sent EXCEPT ![r] = sent[r] - 1] /\ cancelling' = cancelling \ {r}
      BY <1>4 DEF Screens!CancelAnswered, Screens!Pending, Screens!PendingOthers
    <3>2. sent[r] = 1
      BY <3>1 DEF CancelsOnce
    <3> QED BY <3>1, <3>2 DEF CancelsOnce
  <2> QED BY <1>2, <2>1, <2>2, <2>3, InformedStep DEF Informed
<1>5. CASE Screens!LaunchHere(r)
  <2>1. shown' \in Snapshots /\ asked' \in Seq(Requests)
    BY <1>3, <1>5 DEF Screens!LaunchHere
  <2>2. selected' = {} /\ comparing' = {} /\ compared' = {}
    BY <1>5 DEF Screens!LaunchHere
  <2>3. CancelsOnce'
    BY <1>5 DEF Screens!LaunchHere, CancelsOnce
  <2> QED BY <1>2, <2>1, <2>2, <2>3, InformedStep
<1>6. CASE Screens!StrayAnswered(r) \/ Screens!Elsewhere(r)
  <2>1. UNCHANGED <<shown, asked, selected, comparing, compared, cancelling, sent>>
    BY <1>6 DEF Screens!StrayAnswered, Screens!Elsewhere, Screens!screen, Screens!picks
  <2>2. CancelsOnce'
    BY <2>1 DEF CancelsOnce
  <2> QED BY <1>2, <2>1, <2>2, InformedStep DEF Informed
<1> QED BY <1>4, <1>5, <1>6

LEMMA ScreensStep ==
  ASSUME LabStages \subseteq Screens!ACTIVE, LabVerdicts \subseteq Screens!TERMINAL,
         ScreensInv, Screens!ScreenNext
  PROVE  ScreensInv'
<1>1. CASE (Screens!Ask \/ Screens!Network \/ \E i \in DOMAIN asked : Screens!AskFails(i)) /\ UNCHANGED Screens!server
  BY <1>1, PollStep DEF Screens!server
<1>2. CASE Screens!Compare \/ Screens!Compared
  BY <1>2, GestureStep
<1>3. ASSUME NEW r \in LabRuns, Screens!CancelRun(r) \/ Screens!Toggle(r) PROVE ScreensInv'
  BY <1>3, GestureStep
<1>4. ASSUME NEW r \in LabRuns, \/ Screens!CancelAnswered(r) \/ Screens!StrayAnswered(r)
                                \/ Screens!LaunchHere(r) \/ Screens!Elsewhere(r)
      PROVE  ScreensInv'
  BY <1>4, RunStep
<1> QED BY <1>1, <1>2, <1>3, <1>4 DEF Screens!ScreenNext

LEMMA ScreensSound ==
  ASSUME ScreensInv
  PROVE  Screens!OneCancelInFlight /\ Screens!ComparedHaveResults
BY DEF ScreensInv, Informed, CancelsOnce, HasResults, Screens!OneCancelInFlight,
       Screens!ComparedHaveResults, Screens!COMPARABLE
-----------------------------------------------------------------------------
(* The annotation page.  The store is read-only exactly when what the page  *)
(* holds says so, and a publication is under way exactly when its stage is  *)
(* shown and has not failed; each stray publication cost a gesture.         *)

Annotations == [text : Workspace!Texts, locked : BOOLEAN, status : {"draft", "submitted"}]
Queries == [annotation : Annotations \cup {None}, failed : BOOLEAN, project : {"unknown", "open", "locked"},
            me : BOOLEAN, judged : BOOLEAN]
Preferences == [on : BOOLEAN, judge : BOOLEAN, asked : BOOLEAN, done : BOOLEAN]
PublicationStages == {"save", "version", "publish", None}

PageTypes ==
  /\ server \in [annotation : Annotations, project : {"open", "locked"}] /\ cached \in Queries
  /\ workspaceAsked \subseteq {"annotation", "project", "me", "judged"}
  /\ store \in [text : Workspace!Texts, readOnly : BOOLEAN] /\ prefill \in Preferences
  /\ dialog \subseteq {"submit", "prefill", "consent", "success", "unlock"}
  /\ stage \in [at : PublicationStages, failed : BOOLEAN]
ReadOnlyAsHeld ==
  Workspace!Known(cached) => store.readOnly = (~Workspace!IsMine(cached) \/ Workspace!Locked(cached))
Underway == IF stage # Workspace!Idle \/ "submit" \in dialog THEN 1 ELSE 0
Publications ==
  /\ calls = IF stage = Workspace!Idle \/ stage.failed THEN 0 ELSE 1
  /\ strays \in Nat /\ moves \in 0 .. MaxPageMoves /\ strays + Underway <= moves
WorkspaceInv == PageTypes /\ ReadOnlyAsHeld /\ Publications

LEMMA WorkspaceInit ==
  ASSUME Workspace!Init
  PROVE  WorkspaceInv
<1> USE DEF Workspace!Init, Workspace!Texts, Workspace!Marks, Workspace!All
<1>1. server \in [annotation : Annotations, project : {"open", "locked"}]
  <2>1. PICK t \in {Workspace!All("bare"), Workspace!All("hand")}, l \in BOOLEAN, p \in {"open", "locked"} :
          server = [annotation |-> [text |-> t, locked |-> l, status |-> IF l THEN "submitted" ELSE "draft"],
                    project |-> p]
    OBVIOUS
  <2>2. t \in Workspace!Texts
    OBVIOUS
  <2>3. server.annotation \in Annotations /\ server.project = p
    BY <2>1, <2>2 DEF Annotations
  <2> QED BY <2>1, <2>2 DEF Annotations
<1>2. cached \in Queries /\ ~Workspace!Known(cached)
  BY DEF Queries, Workspace!Known
<1>3. prefill \in Preferences
  BY DEF Preferences, Workspace!Defaults
<1>4. stage = Workspace!Idle /\ stage \in [at : PublicationStages, failed : BOOLEAN]
  BY DEF Workspace!Idle, PublicationStages
<1>5. Publications
  BY <1>4, BoundsAssumption DEF Publications, Underway, Workspace!Idle
<1>6. store \in [text : Workspace!Texts, readOnly : BOOLEAN]
  OBVIOUS
<1> QED BY <1>1, <1>2, <1>3, <1>4, <1>5, <1>6 DEF WorkspaceInv, PageTypes, ReadOnlyAsHeld

\* A render with new data, or with another preference.
LEMMA Mounting ==
  ASSUME PageTypes, ReadOnlyAsHeld, NEW c \in Queries, NEW p \in Preferences, Workspace!Mounted(c, p)
  PROVE  /\ cached' \in Queries /\ store' \in [text : Workspace!Texts, readOnly : BOOLEAN]
         /\ prefill' \in Preferences /\ ReadOnlyAsHeld'
<1> DEFINE st == IF Workspace!Reloads(c, cached) THEN Workspace!Loaded(c) ELSE store
<1>1. /\ cached' = c
      /\ prefill' = p \/ prefill' = [p EXCEPT !.done = TRUE]
      /\ store' = st \/ store' = [st EXCEPT !.text = Workspace!Judged]
  BY DEF Workspace!Mounted
<1>2. Workspace!IsMine(c) \in BOOLEAN /\ Workspace!Locked(c) \in BOOLEAN
  BY DEF Workspace!IsMine, Workspace!Locked
<1>3. st \in [text : Workspace!Texts, readOnly : BOOLEAN]
  <2>1. CASE Workspace!Reloads(c, cached)
    <3>1. c.annotation \in Annotations
      BY <2>1 DEF Workspace!Reloads, Workspace!Known, Queries
    <3>2. st = [text |-> c.annotation.text, readOnly |-> ~Workspace!IsMine(c) \/ Workspace!Locked(c)]
      BY <2>1 DEF Workspace!Loaded
    <3>3. c.annotation.text \in Workspace!Texts
      BY <3>1 DEF Annotations
    <3> HIDE DEF st
    <3> QED BY <1>2, <3>2, <3>3
  <2>2. CASE ~Workspace!Reloads(c, cached)
    BY <2>2 DEF PageTypes
  <2> QED BY <2>1, <2>2
<1>4. Workspace!Known(c) => st.readOnly = (~Workspace!IsMine(c) \/ Workspace!Locked(c))
  <2>1. CASE Workspace!Reloads(c, cached)
    BY <2>1 DEF Workspace!Loaded
  <2>2. CASE ~Workspace!Reloads(c, cached)
    BY <2>2 DEF Workspace!Reloads, Workspace!SameIdentity, ReadOnlyAsHeld
  <2> QED BY <2>1, <2>2
<1>5. Workspace!Judged \in Workspace!Texts
  BY DEF Workspace!Judged, Workspace!All, Workspace!Texts, Workspace!Marks
<1> HIDE DEF st
<1>6. store' \in [text : Workspace!Texts, readOnly : BOOLEAN] /\ store'.readOnly = st.readOnly
  BY <1>1, <1>3, <1>5
<1>7. prefill' \in Preferences
  BY <1>1 DEF Preferences
<1>8. ReadOnlyAsHeld'
  BY <1>1, <1>4, <1>6 DEF ReadOnlyAsHeld
<1> QED BY <1>1, <1>6, <1>7, <1>8

\* The queries and their answers.
LEMMA AnswerStep ==
  ASSUME WorkspaceInv,
         \/ \E q \in workspaceAsked : Workspace!Answer(q)
         \/ Workspace!AnswerFails \/ Workspace!AskAgain
  PROVE  WorkspaceInv'
<1> USE DEF WorkspaceInv
<1>1. ASSUME NEW q \in workspaceAsked, Workspace!Answer(q) PROVE WorkspaceInv'
  <2>1. q \in {"annotation", "project", "me", "judged"}
    BY DEF PageTypes
  <2>2. PICK c \in Queries : Workspace!Mounted(c, prefill)
    <3>1. server.annotation \in Annotations /\ server.project \in {"open", "locked"} /\ cached \in Queries
      BY DEF PageTypes
    <3>2. /\ [cached EXCEPT !.annotation = server.annotation, !.failed = FALSE] \in Queries
          /\ [cached EXCEPT !.project = server.project] \in Queries
          /\ [cached EXCEPT !.me = TRUE] \in Queries /\ [cached EXCEPT !.judged = TRUE] \in Queries
      BY <3>1 DEF Queries
    <3> QED BY <1>1, <2>1, <3>2 DEF Workspace!Answer
  <2>3. /\ cached' \in Queries /\ store' \in [text : Workspace!Texts, readOnly : BOOLEAN]
        /\ prefill' \in Preferences /\ ReadOnlyAsHeld'
    BY <2>2, Mounting DEF PageTypes
  <2>4. workspaceAsked' \subseteq workspaceAsked /\ UNCHANGED <<server, dialog, stage, calls, strays, moves>>
    BY <1>1 DEF Workspace!Answer
  <2> QED BY <2>3, <2>4 DEF PageTypes, Publications, Underway
<1>2. CASE Workspace!AnswerFails
  <2>1. /\ moves < MaxPageMoves /\ moves' = moves + 1 /\ workspaceAsked' \subseteq workspaceAsked
        /\ cached' = [cached EXCEPT !.failed = TRUE] /\ dialog' = {} /\ stage' = Workspace!Idle
        /\ calls' = 0 /\ strays' = strays + calls /\ UNCHANGED <<server, store, prefill>>
    BY <1>2 DEF Workspace!AnswerFails
  <2>2. cached' \in Queries
    BY <2>1 DEF PageTypes, Queries
  <2>3. ReadOnlyAsHeld'
    BY <2>1 DEF ReadOnlyAsHeld, PageTypes, Queries, Workspace!Known, Workspace!IsMine, Workspace!Locked
  <2>4. PageTypes'
    BY <2>1, <2>2 DEF PageTypes, Workspace!Idle, PublicationStages
  <2>5. Publications'
    <3>1. MaxPageMoves \in Nat
      BY BoundsAssumption
    <3>2. calls <= Underway /\ calls \in Nat
      BY DEF Publications, Underway
    <3>3. strays' \in Nat /\ strays' <= moves /\ moves' \in 0 .. MaxPageMoves
      BY <2>1, <3>1, <3>2 DEF Publications, Underway
    <3>4. Underway' = 0
      BY <2>1 DEF Underway
    <3> QED BY <2>1, <3>1, <3>3, <3>4 DEF Publications
  <2> QED BY <2>3, <2>4, <2>5
<1>3. CASE Workspace!AskAgain
  BY <1>3 DEF Workspace!AskAgain, Workspace!Invalidated, PageTypes, ReadOnlyAsHeld, Publications, Underway
<1> QED BY <1>1, <1>2, <1>3

\* What a gesture on the clauses leaves alone.
LEMMA Moving ==
  ASSUME Publications, Workspace!Move, stage' = stage, calls' = calls, strays' = strays,
         "submit" \in dialog' => "submit" \in dialog
  PROVE  Publications'
<1>1. MaxPageMoves \in Nat
  BY BoundsAssumption
<1>2. moves \in 0 .. MaxPageMoves /\ moves' = moves + 1 /\ moves < MaxPageMoves
  BY DEF Publications, Workspace!Move
<1>3. Underway \in {0, 1} /\ Underway' \in {0, 1} /\ Underway' <= Underway
  BY DEF Underway
<1>4. strays \in Nat /\ strays + Underway <= moves
  BY DEF Publications
<1>5. strays' \in Nat /\ moves' \in 0 .. MaxPageMoves /\ strays' + Underway' <= moves'
  <2> DEFINE u == Underway
             v == Underway'
  <2>1. u \in Int /\ v \in Int /\ v <= u
    BY <1>3
  <2>2. strays + u <= moves /\ strays' = strays /\ strays \in Nat
    BY <1>4
  <2> HIDE DEF u, v
  <2>3. strays' + v <= moves'
    BY <2>1, <2>2, <1>2, <1>1
  <2> QED BY <2>3, <2>2, <1>2, <1>1 DEF v
<1>6. calls' = IF stage' = Workspace!Idle \/ stage'.failed THEN 0 ELSE 1
  BY DEF Publications
<1> QED BY <1>5, <1>6 DEF Publications

LEMMA ClausesStep ==
  ASSUME WorkspaceInv,
         \/ \E i \in PageSentences : Workspace!Annotate(i) \/ Workspace!Clear(i)
         \/ Workspace!ValidateAll \/ Workspace!Autosave
  PROVE  WorkspaceInv'
<1> USE DEF WorkspaceInv
<1>1. ASSUME NEW tx \in Workspace!Texts, Workspace!Writes(tx),
             UNCHANGED <<Workspace!Page, prefill, dialog, stage, calls>>
      PROVE  WorkspaceInv'
  <2>1. store' = [store EXCEPT !.text = tx] /\ Workspace!Move
        /\ UNCHANGED <<server, cached, workspaceAsked, strays>>
    BY <1>1 DEF Workspace!Writes, Workspace!Page
  <2>2. store' \in [text : Workspace!Texts, readOnly : BOOLEAN] /\ store'.readOnly = store.readOnly
    BY <2>1 DEF PageTypes
  <2>3. Publications'
    BY <2>1, <1>1, Moving
  <2> QED BY <1>1, <2>1, <2>2, <2>3 DEF PageTypes, ReadOnlyAsHeld
<1>2. store.text \in [PageSentences -> {"bare", "pre", "kept", "hand"}]
  BY DEF PageTypes, Workspace!Texts, Workspace!Marks
<1>3. ASSUME NEW i \in PageSentences, Workspace!Annotate(i) \/ Workspace!Clear(i)
      PROVE  WorkspaceInv'
  <2>1. [store.text EXCEPT ![i] = "hand"] \in Workspace!Texts /\ [store.text EXCEPT ![i] = "bare"] \in Workspace!Texts
    BY <1>2 DEF Workspace!Texts, Workspace!Marks
  <2> QED BY <1>1, <1>3, <2>1 DEF Workspace!Annotate, Workspace!Clear
<1>4. CASE Workspace!ValidateAll
  <2>1. [i \in PageSentences |-> IF store.text[i] = "pre" THEN "kept" ELSE store.text[i]] \in Workspace!Texts
    BY <1>2 DEF Workspace!Texts, Workspace!Marks
  <2> QED BY <1>1, <1>4, <2>1 DEF Workspace!ValidateAll
<1>5. CASE Workspace!Autosave
  <2>1. server' = [server EXCEPT !.annotation = [server.annotation EXCEPT !.text = store.text]]
        /\ UNCHANGED <<cached, workspaceAsked, store, prefill, dialog, stage, calls, strays, moves>>
    BY <1>5 DEF Workspace!Autosave, Workspace!Saved
  <2>2. server' \in [annotation : Annotations, project : {"open", "locked"}]
    BY <2>1 DEF PageTypes, Annotations
  <2> QED BY <2>1, <2>2 DEF PageTypes, ReadOnlyAsHeld, Publications, Underway
<1> QED BY <1>3, <1>4, <1>5

\* The prefilling.
LEMMA PrefillingStep ==
  ASSUME WorkspaceInv, Workspace!Prefilling
  PROVE  WorkspaceInv'
<1> USE DEF WorkspaceInv
<1> DEFINE Prefilled == \/ store' = store
                       \/ store' = [store EXCEPT !.text = Workspace!Judged]
                       \/ \E tx \in Workspace!Texts : store' = [store EXCEPT !.text = tx]
           Dialogs == /\ dialog' \subseteq dialog \cup {"prefill", "consent"}
                      /\ UNCHANGED <<server, cached, workspaceAsked, prefill, stage, calls, strays>>
<1>1. ASSUME Prefilled, Dialogs, Workspace!Move \/ moves' = moves PROVE WorkspaceInv'
  <2>1. Workspace!Judged \in Workspace!Texts
    BY DEF Workspace!Judged, Workspace!All, Workspace!Texts, Workspace!Marks
  <2>2. store' \in [text : Workspace!Texts, readOnly : BOOLEAN] /\ store'.readOnly = store.readOnly
    BY <1>1, <2>1 DEF PageTypes
  <2>3. PageTypes' /\ ReadOnlyAsHeld'
    BY <1>1, <2>2 DEF PageTypes, ReadOnlyAsHeld
  <2>4. Publications'
    <3>1. CASE Workspace!Move
      BY <1>1, <3>1, Moving
    <3>2. CASE moves' = moves
      BY <1>1, <3>2 DEF Publications, Underway
    <3> QED BY <1>1, <3>1, <3>2
  <2> QED BY <2>3, <2>4
<1>2. CASE \/ Workspace!RequestPrefill \/ Workspace!ConfirmPrefill \/ Workspace!CancelPrefill
  <2>1. Prefilled /\ Dialogs
    BY <1>2 DEF Workspace!RequestPrefill, Workspace!ConfirmPrefill, Workspace!CancelPrefill, Workspace!SetPrefill,
       Workspace!Still, Workspace!Page, Workspace!Opens, Workspace!Closes
  <2>2. Workspace!Move \/ moves' = moves
    BY <1>2 DEF Workspace!RequestPrefill, Workspace!ConfirmPrefill, Workspace!CancelPrefill
  <2> QED BY <1>1, <2>1, <2>2
<1>3. CASE Workspace!ClearPrefill
  <2>1. [i \in PageSentences |-> IF store.text[i] = "hand" THEN "hand" ELSE "bare"] \in Workspace!Texts
    BY DEF Workspace!Texts, Workspace!Marks
  <2>2. Prefilled /\ Dialogs /\ Workspace!Move
    BY <1>3, <2>1 DEF Workspace!ClearPrefill, Workspace!Writes, Workspace!Still, Workspace!Page
  <2> QED BY <1>1, <2>2
<1>4. ASSUME NEW p \in Preferences, Workspace!Prefers(p), dialog' \subseteq dialog PROVE WorkspaceInv'
  <2>1. Workspace!Move /\ Workspace!Mounted(cached, p)
        /\ UNCHANGED <<server, workspaceAsked, stage, calls, strays>>
    BY <1>4 DEF Workspace!Prefers
  <2>2. /\ cached' \in Queries /\ store' \in [text : Workspace!Texts, readOnly : BOOLEAN]
        /\ prefill' \in Preferences /\ ReadOnlyAsHeld'
    BY <2>1, Mounting DEF PageTypes
  <2>3. Publications'
    BY <1>4, <2>1, Moving
  <2> QED BY <1>4, <2>1, <2>2, <2>3 DEF PageTypes
<1>5. prefill \in Preferences
  BY DEF PageTypes
<1>6. CASE Workspace!ToggleAuto
  <2>1. [prefill EXCEPT !.on = ~prefill.on] \in Preferences
    BY <1>5 DEF Preferences
  <2> QED BY <1>4, <1>6, <2>1 DEF Workspace!ToggleAuto
<1>7. CASE Workspace!ResetPrefs
  <2>1. [Workspace!Defaults EXCEPT !.done = prefill.done] \in Preferences
    BY <1>5 DEF Preferences, Workspace!Defaults
  <2> QED BY <1>4, <1>7, <2>1 DEF Workspace!ResetPrefs
<1>8. CASE Workspace!Consent \/ Workspace!Decline
  <2>1. /\ [prefill EXCEPT !.on = TRUE, !.judge = TRUE, !.asked = TRUE] \in Preferences
        /\ [prefill EXCEPT !.asked = TRUE] \in Preferences
    BY <1>5 DEF Preferences
  <2> QED BY <1>4, <1>8, <2>1 DEF Workspace!Consent, Workspace!Decline, Workspace!Closes
<1>9. ASSUME NEW j \in BOOLEAN, Workspace!SetJudge(j) PROVE WorkspaceInv'
  <2>1. [prefill EXCEPT !.judge = j, !.on = TRUE] \in Preferences
    BY <1>5 DEF Preferences
  <2> QED BY <1>4, <1>9, <2>1 DEF Workspace!SetJudge
<1> QED BY <1>2, <1>3, <1>6, <1>7, <1>8, <1>9 DEF Workspace!Prefilling

\* The server is written in its fields.
LEMMA ServerTyped ==
  ASSUME PageTypes,
         \/ server' = server
         \/ \E tx \in Workspace!Texts, l \in BOOLEAN, s \in {"draft", "submitted"}, p \in {"open", "locked"} :
              server' = [annotation |-> [text |-> tx, locked |-> l, status |-> s], project |-> p]
  PROVE  server' \in [annotation : Annotations, project : {"open", "locked"}]
BY DEF PageTypes, Annotations

LEMMA ServerFields ==
  ASSUME PageTypes
  PROVE  /\ server = [annotation |-> server.annotation, project |-> server.project]
         /\ server.annotation = [text |-> server.annotation.text, locked |-> server.annotation.locked,
                                 status |-> server.annotation.status]
         /\ server.annotation.text \in Workspace!Texts /\ server.annotation.locked \in BOOLEAN
         /\ server.annotation.status \in {"draft", "submitted"} /\ server.project \in {"open", "locked"}
         /\ store.text \in Workspace!Texts
BY DEF PageTypes, Annotations

LEMMA SavedTyped ==
  ASSUME PageTypes, server' = Workspace!Saved
  PROVE  server' \in [annotation : Annotations, project : {"open", "locked"}]
<1>1. server' = [server EXCEPT !.annotation = [server.annotation EXCEPT !.text = store.text]]
  BY DEF Workspace!Saved
<1>2. server' = [annotation |-> [text |-> store.text, locked |-> server.annotation.locked,
                                 status |-> server.annotation.status], project |-> server.project]
  BY <1>1, ServerFields
<1> QED BY <1>2, ServerFields, ServerTyped

\* What is left alone by the publication and by the locks.
LEMMA Quietly ==
  ASSUME WorkspaceInv, Workspace!Quiet,
         server' \in [annotation : Annotations, project : {"open", "locked"}],
         workspaceAsked' \subseteq {"annotation", "project", "me", "judged"},
         dialog' \subseteq {"submit", "prefill", "consent", "success", "unlock"},
         stage' \in [at : PublicationStages, failed : BOOLEAN], Publications'
  PROVE  WorkspaceInv'
BY DEF Workspace!Quiet, WorkspaceInv, PageTypes, ReadOnlyAsHeld

\* A publication goes from stage to stage.
LEMMA PublicationMoves ==
  ASSUME Publications, UNCHANGED <<moves, strays>>,
         calls' = IF stage' = Workspace!Idle \/ stage'.failed THEN 0 ELSE 1,
         stage' # Workspace!Idle \/ "submit" \in dialog' => stage # Workspace!Idle \/ "submit" \in dialog
  PROVE  Publications'
<1>1. Underway \in {0, 1} /\ Underway' \in {0, 1} /\ Underway' <= Underway
  BY DEF Underway
<1>2. strays \in Nat /\ strays + Underway <= moves /\ moves \in 0 .. MaxPageMoves /\ MaxPageMoves \in Nat
  BY BoundsAssumption DEF Publications
<1>3. strays + Underway' <= moves
  <2> DEFINE u == Underway
             v == Underway'
  <2>1. u \in Int /\ v \in Int /\ v <= u
    BY <1>1
  <2>2. strays + u <= moves /\ strays \in Nat /\ moves \in Int
    BY <1>2
  <2> HIDE DEF u, v
  <2>3. strays + v <= moves
    BY <2>1, <2>2
  <2> QED BY <2>3 DEF v
<1> QED BY <1>2, <1>3 DEF Publications

LEMMA PublishingStep ==
  ASSUME WorkspaceInv, Workspace!Publishing
  PROVE  WorkspaceInv'
<1> USE DEF Workspace!Opens, Workspace!Closes, Workspace!GoesOn, Workspace!Quiet
<1>0. /\ server \in [annotation : Annotations, project : {"open", "locked"}]
      /\ workspaceAsked \subseteq {"annotation", "project", "me", "judged"}
      /\ dialog \subseteq {"submit", "prefill", "consent", "success", "unlock"}
      /\ stage \in [at : PublicationStages, failed : BOOLEAN] /\ Publications /\ PageTypes
      /\ calls = IF stage = Workspace!Idle \/ stage.failed THEN 0 ELSE 1
  BY DEF WorkspaceInv, PageTypes, Publications
<1>1. \A s \in {"save", "version", "publish"} :
         /\ Workspace!At(s) \in [at : PublicationStages, failed : BOOLEAN]
         /\ Workspace!At(s) # Workspace!Idle /\ ~Workspace!At(s).failed
  BY NoneAssumption DEF PublicationStages, Workspace!At, Workspace!Idle
<1>2. Workspace!Idle \in [at : PublicationStages, failed : BOOLEAN] /\ ~Workspace!Idle.failed
  BY DEF PublicationStages, Workspace!Idle
<1>3. CASE Workspace!OpenSubmit
  <2>1. /\ Workspace!Move /\ dialog' = dialog \cup {"submit"} /\ UNCHANGED <<server, workspaceAsked, stage, calls, strays>>
        /\ Workspace!Quiet
    BY <1>3 DEF Workspace!OpenSubmit
  <2>2. /\ Underway \in {0, 1} /\ Underway' = 1 /\ strays \in Nat /\ strays + Underway <= moves
        /\ moves' = moves + 1 /\ moves \in 0 .. MaxPageMoves /\ moves < MaxPageMoves /\ MaxPageMoves \in Nat
    BY <1>0, <2>1, BoundsAssumption DEF Publications, Underway, Workspace!Move
  <2>3. strays' + Underway' <= moves' /\ moves' \in 0 .. MaxPageMoves /\ strays' \in Nat
    BY <2>1, <2>2
  <2>4. Publications'
    BY <1>0, <2>1, <2>3 DEF Publications
  <2> QED BY <1>0, <2>1, <2>4, Quietly
<1>4. CASE Workspace!CancelSubmit \/ Workspace!CloseSuccess
  <2>1. /\ dialog' \subseteq dialog /\ UNCHANGED <<server, workspaceAsked, stage, calls, moves, strays>> /\ Workspace!Quiet
    BY <1>4 DEF Workspace!CancelSubmit, Workspace!CloseSuccess
  <2>2. Publications'
    BY <1>0, <2>1, PublicationMoves
  <2> QED BY <1>0, <2>1, <2>2, Quietly
<1>5. ASSUME Workspace!RunSubmission, calls = 0, stage # Workspace!Idle \/ "submit" \in dialog
      PROVE  WorkspaceInv'
  <2>1. /\ stage' = Workspace!At("save") /\ calls' = 1 /\ dialog' \subseteq dialog
        /\ UNCHANGED <<server, workspaceAsked, moves, strays>> /\ Workspace!Quiet
    BY <1>5 DEF Workspace!RunSubmission
  <2>2. Publications'
    BY <1>0, <1>1, <1>5, <2>1, PublicationMoves
  <2> QED BY <1>0, <1>1, <2>1, <2>2, Quietly
<1>6. CASE Workspace!Confirm
  BY <1>0, <1>5, <1>6 DEF Workspace!Confirm, Workspace!Busy
<1>7. CASE Workspace!Retry
  BY <1>0, <1>2, <1>5, <1>7 DEF Workspace!Retry
<1>8. CASE Workspace!CloseError
  <2>1. stage.failed /\ stage' = Workspace!Idle /\ UNCHANGED <<server, workspaceAsked, dialog, calls, moves, strays>>
        /\ Workspace!Quiet
    BY <1>8 DEF Workspace!CloseError
  <2>2. calls' = 0
    BY <1>0, <2>1
  <2>3. Publications'
    BY <1>0, <1>2, <2>1, <2>2, PublicationMoves
  <2> QED BY <1>0, <1>2, <2>1, <2>3, Quietly
<1>9. CASE Workspace!Flushed \/ Workspace!Versioned
  <2>1. /\ stage \in {Workspace!At("save"), Workspace!At("version")}
        /\ stage' \in {Workspace!At("version"), Workspace!At("publish")}
        /\ server' = server \/ server' = Workspace!Saved
        /\ UNCHANGED <<workspaceAsked, dialog, calls, moves, strays>> /\ Workspace!Quiet
    BY <1>9 DEF Workspace!Flushed, Workspace!Versioned
  <2>2. server' \in [annotation : Annotations, project : {"open", "locked"}]
    BY <1>0, <2>1, SavedTyped
  <2>3. calls = 1 /\ stage # Workspace!Idle /\ stage' # Workspace!Idle /\ ~stage'.failed
    BY <1>0, <1>1, <2>1
  <2>4. Publications'
    BY <1>0, <2>1, <2>3, PublicationMoves
  <2> QED BY <1>0, <1>1, <2>1, <2>2, <2>4, Quietly
<1>10. CASE Workspace!Published
  <2>1. /\ stage = Workspace!At("publish") /\ stage' = Workspace!Idle /\ calls' = calls - 1
        /\ dialog' = dialog \cup {"success"} /\ workspaceAsked' = workspaceAsked \cup {"annotation"}
        /\ UNCHANGED <<moves, strays>> /\ Workspace!Quiet
    BY <1>10 DEF Workspace!Published, Workspace!Invalidated
  <2>2. calls' = 0 /\ stage # Workspace!Idle
    BY <1>0, <1>1, <2>1
  <2>3. server' \in [annotation : Annotations, project : {"open", "locked"}]
    <3> DEFINE locked == server.annotation.locked \/ server.annotation.status = "draft"
    <3>1. server' = [server EXCEPT !.annotation = [server.annotation EXCEPT !.status = "submitted", !.locked = locked]]
      BY <1>10 DEF Workspace!Published
    <3>2. locked \in BOOLEAN
      OBVIOUS
    <3> HIDE DEF locked
    <3>3. server' = [annotation |-> [text |-> server.annotation.text, locked |-> locked, status |-> "submitted"],
                     project |-> server.project]
      BY <1>0, <3>1, ServerFields
    <3> QED BY <1>0, <3>2, <3>3, ServerFields, ServerTyped
  <2>4. Publications'
    BY <1>0, <1>2, <2>1, <2>2, PublicationMoves
  <2> QED BY <1>0, <1>2, <2>1, <2>3, <2>4, Quietly
<1>11. CASE Workspace!StageFails
  <2>1. /\ ~stage.failed /\ stage # Workspace!Idle /\ stage' = [stage EXCEPT !.failed = TRUE] /\ calls' = calls - 1
        /\ UNCHANGED <<server, workspaceAsked, dialog, moves, strays>> /\ Workspace!Quiet
    BY <1>11 DEF Workspace!StageFails
  <2>0. calls = 1
    BY <1>0, <2>1
  <2>2. calls' = 0 /\ stage'.failed /\ stage' \in [at : PublicationStages, failed : BOOLEAN]
    <3>1. calls' = 0
      BY <2>0, <2>1
    <3>2. stage \in [at : PublicationStages, failed : BOOLEAN] /\ stage' = [stage EXCEPT !.failed = TRUE]
      BY <1>0, <2>1
    <3>3. stage'.failed /\ stage' \in [at : PublicationStages, failed : BOOLEAN]
      BY <3>2
    <3> QED BY <3>1, <3>3
  <2>3. Publications'
    BY <1>0, <2>1, <2>2, PublicationMoves
  <2> QED BY <1>0, <2>1, <2>2, <2>3, Quietly
<1> QED BY <1>3, <1>4, <1>6, <1>7, <1>8, <1>9, <1>10, <1>11 DEF Workspace!Publishing, Workspace!Stages

LEMMA LockingStep ==
  ASSUME WorkspaceInv, Workspace!Locking
  PROVE  WorkspaceInv'
<1> USE DEF Workspace!Opens, Workspace!Closes, Workspace!GoesOn, Workspace!Quiet
<1>0. /\ server \in [annotation : Annotations, project : {"open", "locked"}]
      /\ workspaceAsked \subseteq {"annotation", "project", "me", "judged"}
      /\ dialog \subseteq {"submit", "prefill", "consent", "success", "unlock"}
      /\ stage \in [at : PublicationStages, failed : BOOLEAN] /\ Publications /\ PageTypes
      /\ calls = IF stage = Workspace!Idle \/ stage.failed THEN 0 ELSE 1
  BY DEF WorkspaceInv, PageTypes, Publications
<1>1. ASSUME server' \in [annotation : Annotations, project : {"open", "locked"}],
             workspaceAsked' \subseteq workspaceAsked \cup {"annotation"},
             dialog' \subseteq dialog \cup {"unlock"}, UNCHANGED <<stage, calls>>, Workspace!Quiet,
             Workspace!Move \/ moves' = moves
      PROVE  WorkspaceInv'
  <2>1. Publications'
    BY <1>0, <1>1, Moving, PublicationMoves
  <2> QED BY <1>0, <1>1, <2>1, Quietly
<1>2. CASE Workspace!Lock
  <2>1. /\ Workspace!Move /\ UNCHANGED <<dialog, stage, calls>> /\ Workspace!Quiet
        /\ workspaceAsked' = workspaceAsked \cup {"annotation"}
        /\ \/ server' = [server EXCEPT !.annotation = [server.annotation EXCEPT !.locked = TRUE]]
           \/ server' = [Workspace!Saved EXCEPT !.annotation = [Workspace!Saved.annotation EXCEPT !.locked = TRUE]]
    BY <1>2 DEF Workspace!Lock, Workspace!Invalidated
  <2>2. \E tx \in {server.annotation.text, store.text} :
          server' = [annotation |-> [text |-> tx, locked |-> TRUE, status |-> server.annotation.status],
                     project |-> server.project]
    <3>1. Workspace!Saved = [annotation |-> [text |-> store.text, locked |-> server.annotation.locked,
                                             status |-> server.annotation.status], project |-> server.project]
      <4>1. Workspace!Saved = [server EXCEPT !.annotation = [server.annotation EXCEPT !.text = store.text]]
        BY DEF Workspace!Saved
      <4> QED BY <1>0, <4>1, ServerFields
    <3> QED BY <1>0, <2>1, <3>1, ServerFields
  <2>3. server' \in [annotation : Annotations, project : {"open", "locked"}]
    BY <1>0, <2>2, ServerFields, ServerTyped
  <2> QED BY <1>1, <2>1, <2>3
<1>3. CASE Workspace!AskUnlock \/ Workspace!CancelUnlock
  BY <1>0, <1>1, <1>3 DEF Workspace!AskUnlock, Workspace!CancelUnlock
<1>4. ASSUME NEW d \in {"unlock", "success"}, Workspace!Unlock(d)
      PROVE  WorkspaceInv'
  <2>1. /\ dialog' = dialog \ {d} /\ UNCHANGED <<stage, calls, moves>> /\ Workspace!Quiet
        /\ workspaceAsked' \subseteq workspaceAsked \cup {"annotation"}
        /\ \/ server' = server
           \/ server' = [server EXCEPT !.annotation = [server.annotation EXCEPT !.locked = FALSE, !.status = "draft"]]
    BY <1>4 DEF Workspace!Unlock, Workspace!Invalidated
  <2>2. \/ server' = server
        \/ server' = [annotation |-> [text |-> server.annotation.text, locked |-> FALSE, status |-> "draft"],
                      project |-> server.project]
    BY <1>0, <2>1, ServerFields
  <2>3. server' \in [annotation : Annotations, project : {"open", "locked"}]
    BY <1>0, <2>2, ServerFields, ServerTyped
  <2> QED BY <1>1, <2>1, <2>3
<1> QED BY <1>2, <1>3, <1>4 DEF Workspace!Locking

\* The rest of the world.
LEMMA WorldStep ==
  ASSUME WorkspaceInv, Workspace!StrayEnds \/ Workspace!ProjectLock \/ Workspace!Reconnect
  PROVE  WorkspaceInv'
<1>0. /\ server \in [annotation : Annotations, project : {"open", "locked"}]
      /\ workspaceAsked \subseteq {"annotation", "project", "me", "judged"}
      /\ Publications /\ PageTypes
  BY DEF WorkspaceInv, PageTypes
<1>1. ASSUME server' \in [annotation : Annotations, project : {"open", "locked"}],
             workspaceAsked' \subseteq {"annotation", "project", "me", "judged"}, Publications',
             UNCHANGED <<cached, store, prefill, dialog, stage>>
      PROVE  WorkspaceInv'
  BY <1>1 DEF WorkspaceInv, PageTypes, ReadOnlyAsHeld
<1>2. CASE Workspace!StrayEnds
  <2>1. /\ strays > 0 /\ strays' = strays - 1 /\ UNCHANGED <<cached, store, prefill, dialog, stage, calls, moves>>
        /\ workspaceAsked' \subseteq workspaceAsked \cup {"annotation"}
        /\ \/ server' = server
           \/ server' = [server EXCEPT !.annotation = [server.annotation EXCEPT !.status = "submitted", !.locked = TRUE]]
    BY <1>2 DEF Workspace!StrayEnds, Workspace!Invalidated
  <2>2. server' = server \/ server' = [annotation |-> [text |-> server.annotation.text, locked |-> TRUE,
                                                       status |-> "submitted"], project |-> server.project]
    BY <1>0, <2>1, ServerFields
  <2>3. server' \in [annotation : Annotations, project : {"open", "locked"}]
    BY <1>0, <2>2, ServerFields, ServerTyped
  <2>4. Underway' = Underway /\ Underway \in {0, 1}
    BY <2>1 DEF Underway
  <2>5. /\ strays \in Nat /\ strays + Underway <= moves /\ moves \in 0 .. MaxPageMoves /\ MaxPageMoves \in Nat
    BY <1>0, BoundsAssumption DEF Publications
  <2>6. strays' \in Nat /\ strays' + Underway' <= moves'
    BY <2>1, <2>4, <2>5
  <2>7. Publications'
    BY <1>0, <2>1, <2>6 DEF Publications
  <2> QED BY <1>0, <1>1, <2>1, <2>3, <2>7
<1>3. CASE Workspace!ProjectLock \/ Workspace!Reconnect
  <2>1. /\ Workspace!Move /\ UNCHANGED <<cached, store, prefill, dialog, stage, calls, strays>>
        /\ workspaceAsked' \subseteq workspaceAsked \cup {"annotation", "project"}
        /\ server' = server \/ \E p \in {"open", "locked"} : server' = [server EXCEPT !.project = p]
    BY <1>3 DEF Workspace!ProjectLock, Workspace!Reconnect, Workspace!Event
  <2>2. server' \in [annotation : Annotations, project : {"open", "locked"}]
    BY <1>0, <2>1
  <2>3. Publications'
    BY <1>0, <2>1, Moving
  <2> QED BY <1>0, <1>1, <2>1, <2>2, <2>3
<1> QED BY <1>2, <1>3

LEMMA WorkspaceStep ==
  ASSUME WorkspaceInv, Workspace!Next
  PROVE  WorkspaceInv'
<1>1. CASE \E q \in workspaceAsked : Workspace!Answer(q)
  BY <1>1, AnswerStep
<1>2. CASE Workspace!AnswerFails \/ Workspace!AskAgain
  BY <1>2, AnswerStep
<1>3. CASE Workspace!OnClauses
  BY <1>3, ClausesStep DEF Workspace!OnClauses
<1> QED BY <1>1, <1>2, <1>3, PrefillingStep, PublishingStep, LockingStep, WorldStep DEF Workspace!Next

LEMMA WorkspaceSound ==
  ASSUME WorkspaceInv
  PROVE  Workspace!TypeOK /\ Workspace!BannerTellsTheStore /\ Workspace!OneSubmission
<1>1. calls \in {0, 1} /\ calls <= Underway
  BY DEF WorkspaceInv, Publications, Underway
<1>2. calls + strays <= MaxPageMoves
  <2>1. strays \in Nat /\ strays + Underway <= moves /\ moves \in 0 .. MaxPageMoves /\ Underway \in {0, 1}
    BY DEF WorkspaceInv, Publications, Underway
  <2> QED BY <1>1, <2>1, BoundsAssumption
<1>3. Workspace!TypeOK
  BY <1>2 DEF WorkspaceInv, PageTypes, Annotations, Preferences, PublicationStages, Workspace!TypeOK
<1>4. Workspace!BannerTellsTheStore
  BY DEF WorkspaceInv, PageTypes, ReadOnlyAsHeld, Queries, Annotations, Workspace!BannerTellsTheStore, Workspace!Shown,
     Workspace!Banner, Workspace!Known, Workspace!IsMine, Workspace!Locked, Workspace!LockedSession
<1> QED BY <1>1, <1>3, <1>4 DEF Workspace!OneSubmission

-----------------------------------------------------------------------------
(* No step of the page but the confirmed prefilling, and the automatic one, *)
(* puts the judge's clauses in the place of those made by hand.             *)
LEMMA HandWorkKept ==
  ASSUME WorkspaceInv, Workspace!Next
  PROVE  Workspace!HandWorkIsConfirmed
<1> SUFFICES ASSUME cached' = cached, prefill' = prefill, NEW i \in PageSentences,
                    store.text[i] = "hand", store'.text[i] = "pre", "prefill" \notin dialog
             PROVE  FALSE
  BY DEF Workspace!HandWorkIsConfirmed
<1>0. /\ store \in [text : Workspace!Texts, readOnly : BOOLEAN] /\ prefill \in Preferences
      /\ store.text \in [PageSentences -> {"bare", "pre", "kept", "hand"}]
  BY DEF WorkspaceInv, PageTypes, Workspace!Texts, Workspace!Marks
<1>1. store' # store
  OBVIOUS
<1>2. ASSUME NEW c, NEW p, Workspace!Mounted(c, p), p.done = prefill.done, p \in Preferences
      PROVE  FALSE
  <2>1. c = cached
    BY <1>2 DEF Workspace!Mounted
  <2>2. ~Workspace!Reloads(c, cached)
    BY <2>1 DEF Workspace!Reloads, Workspace!SameIdentity
  <2>3. Workspace!Prefills(c, p)
    BY <1>1, <1>2, <2>2 DEF Workspace!Mounted
  <2>4. prefill' = [p EXCEPT !.done = TRUE] /\ ~p.done
    BY <1>2, <2>3 DEF Workspace!Mounted, Workspace!Prefills
  <2>5. prefill'.done /\ ~prefill.done
    BY <1>2, <2>4 DEF Preferences
  <2> QED BY <2>5
<1>3. ASSUME NEW tx, Workspace!Writes(tx) PROVE tx[i] = "pre"
  <2>1. store' = [store EXCEPT !.text = tx]
    BY <1>3 DEF Workspace!Writes
  <2> QED BY <1>0, <2>1
<1>4. CASE \E q \in workspaceAsked : Workspace!Answer(q)
  <2>1. PICK q \in workspaceAsked : Workspace!Answer(q)
    BY <1>4
  <2>2. \E c : Workspace!Mounted(c, prefill)
    BY <2>1 DEF Workspace!Answer
  <2> QED BY <1>0, <1>2, <2>2
<1>5. CASE Workspace!AnswerFails \/ Workspace!AskAgain \/ Workspace!StrayEnds \/ Workspace!ProjectLock \/ Workspace!Reconnect
  BY <1>1, <1>5 DEF Workspace!AnswerFails, Workspace!AskAgain, Workspace!StrayEnds, Workspace!ProjectLock,
     Workspace!Reconnect, Workspace!Event
<1>6. CASE Workspace!OnClauses
  <2>1. ASSUME NEW j \in PageSentences, Workspace!Annotate(j) PROVE FALSE
    <3>1. [store.text EXCEPT ![j] = "hand"][i] = "hand"
      BY <1>0
    <3> QED BY <1>3, <2>1, <3>1 DEF Workspace!Annotate
  <2>2. ASSUME NEW j \in PageSentences, Workspace!Clear(j) PROVE FALSE
    <3>1. [store.text EXCEPT ![j] = "bare"][i] # "pre"
      BY <1>0
    <3> QED BY <1>3, <2>2, <3>1 DEF Workspace!Clear
  <2>3. CASE Workspace!ValidateAll
    <3> DEFINE tx == [j \in PageSentences |-> IF store.text[j] = "pre" THEN "kept" ELSE store.text[j]]
    <3>1. tx[i] = "hand"
      OBVIOUS
    <3>2. Workspace!Writes(tx)
      BY <2>3 DEF Workspace!ValidateAll
    <3> HIDE DEF tx
    <3> QED BY <1>3, <3>1, <3>2
  <2>4. CASE Workspace!Autosave
    BY <1>1, <2>4 DEF Workspace!Autosave
  <2> QED BY <1>6, <2>1, <2>2, <2>3, <2>4 DEF Workspace!OnClauses
<1>7. CASE Workspace!Prefilling
  <2>1. CASE Workspace!RequestPrefill
    <3>1. store.text = Workspace!All("bare")
      BY <1>1, <2>1 DEF Workspace!RequestPrefill
    <3> QED BY <3>1 DEF Workspace!All
  <2>2. CASE Workspace!ConfirmPrefill \/ Workspace!CancelPrefill
    BY <2>2 DEF Workspace!ConfirmPrefill, Workspace!CancelPrefill
  <2>3. CASE Workspace!ClearPrefill
    <3> DEFINE tx == [j \in PageSentences |-> IF store.text[j] = "hand" THEN "hand" ELSE "bare"]
    <3>1. tx[i] = "hand"
      OBVIOUS
    <3>2. Workspace!Writes(tx)
      BY <2>3 DEF Workspace!ClearPrefill
    <3> HIDE DEF tx
    <3> QED BY <1>3, <3>1, <3>2
  <2>4. ASSUME NEW p \in Preferences, Workspace!Prefers(p), p.done = prefill.done PROVE FALSE
    BY <1>2, <2>4 DEF Workspace!Prefers
  <2>5. CASE Workspace!ToggleAuto
    <3>1. [prefill EXCEPT !.on = ~prefill.on] \in Preferences /\ [prefill EXCEPT !.on = ~prefill.on].done = prefill.done
      BY <1>0 DEF Preferences
    <3> QED BY <2>4, <2>5, <3>1 DEF Workspace!ToggleAuto
  <2>6. CASE Workspace!ResetPrefs
    <3> DEFINE p == [Workspace!Defaults EXCEPT !.done = prefill.done]
    <3>1. p \in Preferences /\ p.done = prefill.done
      BY <1>0 DEF Preferences, Workspace!Defaults
    <3> QED BY <2>4, <2>6, <3>1 DEF Workspace!ResetPrefs
  <2>7. CASE Workspace!Consent
    <3> DEFINE p == [prefill EXCEPT !.on = TRUE, !.judge = TRUE, !.asked = TRUE]
    <3>1. p \in Preferences /\ p.done = prefill.done
      BY <1>0 DEF Preferences
    <3> QED BY <2>4, <2>7, <3>1 DEF Workspace!Consent
  <2>8. CASE Workspace!Decline
    <3> DEFINE p == [prefill EXCEPT !.asked = TRUE]
    <3>1. p \in Preferences /\ p.done = prefill.done
      BY <1>0 DEF Preferences
    <3> QED BY <2>4, <2>8, <3>1 DEF Workspace!Decline
  <2>9. ASSUME NEW j \in BOOLEAN, Workspace!SetJudge(j) PROVE FALSE
    <3> DEFINE p == [prefill EXCEPT !.judge = j, !.on = TRUE]
    <3>1. p \in Preferences /\ p.done = prefill.done
      BY <1>0 DEF Preferences
    <3> QED BY <2>4, <2>9, <3>1 DEF Workspace!SetJudge
  <2> QED BY <1>7, <2>1, <2>2, <2>3, <2>5, <2>6, <2>7, <2>8, <2>9 DEF Workspace!Prefilling
<1>8. CASE Workspace!Publishing \/ Workspace!Locking
  <2>1. Workspace!Quiet
    BY <1>8 DEF Workspace!Publishing, Workspace!Locking, Workspace!OpenSubmit, Workspace!CancelSubmit, Workspace!Confirm,
       Workspace!Retry, Workspace!RunSubmission, Workspace!CloseError, Workspace!Stages, Workspace!Flushed,
       Workspace!Versioned, Workspace!Published, Workspace!StageFails, Workspace!CloseSuccess, Workspace!Lock,
       Workspace!AskUnlock, Workspace!CancelUnlock, Workspace!Unlock, Workspace!GoesOn
  <2> QED BY <1>1, <2>1 DEF Workspace!Quiet
<1> QED BY <1>4, <1>5, <1>6, <1>7, <1>8 DEF Workspace!Next
-----------------------------------------------------------------------------
(* The cache of the queries.  What a view is owed was served already, and a *)
(* request that was read keeps that promise: a success that raises it marks *)
(* the view or sends its request again (KeysAssumption).                    *)

Entries == [at : Nat \cup {None}, invalid : BOOLEAN, old : BOOLEAN, failed : BOOLEAN]
Unserved == {m \in page.offers : cacheCalls[m] = Sent}
CacheTypes ==
  /\ page \in Cache!Pages /\ clock \in Nat
  /\ Cache!Followed \subseteq page.shows /\ mounted \subseteq Cache!Followed
  /\ cache \in [Cache!Followed -> Entries]
  /\ fetch \in [Cache!Followed -> Nat \cup {None, Sent}]
  /\ cacheCalls \in [page.offers -> Nat \cup {None, Sent}]
  /\ owed \in [Cache!Followed -> Nat]
ClockBounded == clock + Cardinality(Unserved) <= MaxWrites /\ cacheFaults \in 0 .. MaxCacheFaults
Dated ==
  /\ \A v \in Cache!Followed :
       /\ owed[v] <= clock /\ (cache[v].at # None => cache[v].at <= clock)
       /\ fetch[v] \notin {None, Sent} => fetch[v] <= clock
  /\ \A m \in page.offers : cacheCalls[m] \notin {None, Sent} => cacheCalls[m] <= clock
Promised ==
  \A v \in Cache!Followed : fetch[v] \notin {None, Sent} => fetch[v] >= owed[v]
CacheInv == CacheTypes /\ ClockBounded /\ Dated /\ Promised /\ Cache!PageShowsOwnWrites

LEMMA SevenFinite ==
  ASSUME NEW x1, NEW x2, NEW x3, NEW x4, NEW x5, NEW x6, NEW x7
  PROVE  IsFiniteSet({x1, x2, x3, x4, x5, x6, x7})
<1>1. IsFiniteSet({x1})
  BY FS_Singleton
<1>2. IsFiniteSet({x1} \cup {x2})
  BY <1>1, FS_AddElement
<1>3. IsFiniteSet({x1} \cup {x2} \cup {x3})
  BY <1>2, FS_AddElement
<1>4. IsFiniteSet({x1} \cup {x2} \cup {x3} \cup {x4})
  BY <1>3, FS_AddElement
<1>5. IsFiniteSet({x1} \cup {x2} \cup {x3} \cup {x4} \cup {x5})
  BY <1>4, FS_AddElement
<1>6. IsFiniteSet({x1} \cup {x2} \cup {x3} \cup {x4} \cup {x5} \cup {x6})
  BY <1>5, FS_AddElement
<1>7. IsFiniteSet({x1} \cup {x2} \cup {x3} \cup {x4} \cup {x5} \cup {x6} \cup {x7})
  BY <1>6, FS_AddElement
<1>8. {x1, x2, x3, x4, x5, x6, x7} = {x1} \cup {x2} \cup {x3} \cup {x4} \cup {x5} \cup {x6} \cup {x7}
  OBVIOUS
<1> QED BY <1>7, <1>8

\* A page offers a handful of mutations.
LEMMA OffersFinite ==
  ASSUME NEW p \in Cache!Pages
  PROVE  IsFiniteSet(p.offers)
<1> DEFINE ofWorkspace == {"patchAnnotation", "lockAnnotation", "unlockAnnotation", "createVersion", "addComment",
                           "resolveComment", "autosave"}
           ofTabs == {"shareProject", "addReview", "lockProject", "unlockProject", "toggleVisibility",
                      "toggleAssignment", "bulkAssign"}
           ofOffice == {"addMember", "removeMember", "setVisibility", "toggleLock", "createExport", "retryExport",
                        "createSet"}
           ofGold == {"decide", "autoResolve", "finalize", "reopen", "saveConfig", "recompute", "mutateJudge"}
<1>1. IsFiniteSet(ofWorkspace) /\ IsFiniteSet(ofTabs) /\ IsFiniteSet(ofOffice) /\ IsFiniteSet(ofGold)
  BY SevenFinite
<1> DEFINE all == ofWorkspace \cup ofTabs \cup ofOffice \cup ofGold \cup {"syncSet"}
<1>2. p.offers \subseteq all
  BY DEF Cache!Pages, Cache!Page, Cache!WorkspacePage, Cache!ReviewPage, Cache!HistoryPage, Cache!ProjectPage,
     Cache!AssignTab, Cache!MembersTab, Cache!PublishTab, Cache!SupervisionTab, Cache!DeskPage, Cache!CockpitPage,
     Cache!StudioPage, Cache!StatsPage, Cache!ExportsPage, Cache!TranslationsPage, Cache!DocumentPane,
     Cache!CollabBar, Cache!ComparePage, Cache!HomePage, Cache!DocsPage, Cache!InsightsPage, Cache!DocumentInsights,
     Cache!AdminProjects, Cache!AdminSchemes, Cache!AdminCorpora, Cache!AdminSeeds, Cache!AdminAudit, Cache!DebugBar
<1> HIDE DEF ofWorkspace, ofTabs, ofOffice, ofGold
<1>3. IsFiniteSet(all)
  <2>1. IsFiniteSet(ofWorkspace \cup ofTabs)
    BY <1>1, FS_Union
  <2>2. IsFiniteSet(ofWorkspace \cup ofTabs \cup ofOffice)
    BY <1>1, <2>1, FS_Union
  <2>3. IsFiniteSet(ofWorkspace \cup ofTabs \cup ofOffice \cup ofGold)
    BY <1>1, <2>2, FS_Union
  <2> QED BY <2>3, FS_AddElement
<1> HIDE DEF all
<1> QED BY <1>2, <1>3, FS_Subset

LEMMA UnservedFinite ==
  ASSUME page \in Cache!Pages
  PROVE  IsFiniteSet(Unserved) /\ Cardinality(Unserved) \in Nat
<1>1. IsFiniteSet(page.offers)
  BY OffersFinite
<1>2. IsFiniteSet(Unserved)
  BY <1>1, FS_Subset DEF Unserved
<1> QED BY <1>2, FS_CardinalityType

LEMMA CacheInit ==
  ASSUME Cache!Init
  PROVE  CacheInv
<1>1. PICK vs \in SUBSET page.shows :
        /\ cache = [v \in vs |-> Cache!EmptyEntry] /\ fetch = [v \in vs |-> None] /\ owed = [v \in vs |-> 0]
  BY DEF Cache!Init
<1>2. Cache!Followed = vs
  BY <1>1 DEF Cache!Followed
<1>3. Cache!EmptyEntry \in Entries /\ Cache!EmptyEntry.at = None
  BY DEF Cache!EmptyEntry, Entries
<1>4. CacheTypes
  BY <1>1, <1>2, <1>3 DEF CacheTypes, Cache!Init
<1>5. Unserved = {}
  BY NoneAssumption DEF Unserved, Cache!Init
<1>6. ClockBounded
  BY <1>5, FS_EmptySet, BoundsAssumption DEF ClockBounded, Cache!Init
<1>7. Dated /\ Promised /\ Cache!PageShowsOwnWrites
  BY <1>1, <1>2, <1>3 DEF Dated, Promised, Cache!PageShowsOwnWrites, Cache!Init
<1> QED BY <1>4, <1>6, <1>7 DEF CacheInv

\* What happens to one view.
LEMMA ViewStep ==
  ASSUME CacheInv, NEW v \in Cache!Followed,
         \/ Cache!Mount(v) \/ Cache!Unmount(v) \/ Cache!Age(v) \/ Cache!Poll(v) \/ Cache!Retry(v)
         \/ Cache!ServeFetch(v) \/ Cache!ReceiveFetch(v) \/ Cache!FailFetch(v)
  PROVE  CacheInv'
<1> USE DEF CacheInv
<1>0. /\ cache[v] \in Entries /\ fetch[v] \in Nat \cup {None, Sent} /\ owed[v] \in Nat /\ clock \in Nat
      /\ owed[v] <= clock /\ {None, Sent} \cap Nat = {} /\ None # Sent
  BY NoneAssumption DEF CacheTypes, Dated
<1>1. UNCHANGED <<page, clock, cacheCalls, owed>>
  BY DEF Cache!Mount, Cache!Unmount, Cache!Age, Cache!Poll, Cache!Retry, Cache!ServeFetch, Cache!ReceiveFetch, Cache!FailFetch
<1>2. cacheFaults' \in 0 .. MaxCacheFaults
  <2>1. cacheFaults \in 0 .. MaxCacheFaults /\ MaxCacheFaults \in Nat
    BY BoundsAssumption DEF ClockBounded
  <2>2. cacheFaults' = cacheFaults \/ (cacheFaults < MaxCacheFaults /\ cacheFaults' = cacheFaults + 1)
    BY DEF Cache!Mount, Cache!Unmount, Cache!Age, Cache!Poll, Cache!Retry, Cache!ServeFetch, Cache!ReceiveFetch, Cache!FailFetch
  <2> QED BY <2>1, <2>2
<1>3. ClockBounded'
  BY <1>1, <1>2 DEF ClockBounded, Unserved
<1>4. ASSUME NEW e \in Entries, NEW f \in Nat \cup {None, Sent},
             cache' = cache \/ cache' = [cache EXCEPT ![v] = e], cache'[v] = e,
             fetch' = fetch \/ fetch' = [fetch EXCEPT ![v] = f], fetch'[v] = f,
             mounted' \subseteq mounted \cup {v},
             e.at # None => e.at <= clock, f \notin {None, Sent} => f <= clock /\ f >= owed[v],
             e.at # None /\ ~e.invalid /\ ~e.failed /\ f = None => e.at >= owed[v]
      PROVE  CacheInv'
  <2>1. cache' \in [Cache!Followed -> Entries] /\ fetch' \in [Cache!Followed -> Nat \cup {None, Sent}]
    BY <1>4 DEF CacheTypes
  <2>2. Cache!Followed' = Cache!Followed
    BY <2>1 DEF Cache!Followed
  <2>3. \A u \in Cache!Followed : u # v => cache'[u] = cache[u] /\ fetch'[u] = fetch[u]
    BY <1>4 DEF CacheTypes
  <2>4. CacheTypes'
    BY <1>1, <1>4, <2>1, <2>2 DEF CacheTypes
  <2>5. Dated'
    BY <1>0, <1>1, <1>4, <2>2, <2>3 DEF Dated
  <2>6. Promised'
    BY <1>0, <1>1, <1>4, <2>2, <2>3 DEF Promised
  <2>7. Cache!PageShowsOwnWrites'
    BY <1>0, <1>1, <1>4, <2>2, <2>3 DEF Cache!PageShowsOwnWrites
  <2> QED BY <1>3, <2>4, <2>5, <2>6, <2>7
<1>5. /\ cache[v].at # None => cache[v].at <= clock
      /\ fetch[v] \notin {None, Sent} => fetch[v] <= clock /\ fetch[v] >= owed[v]
      /\ cache[v].at # None /\ ~cache[v].invalid /\ ~cache[v].failed /\ fetch[v] = None => cache[v].at >= owed[v]
  BY DEF Dated, Promised, Cache!PageShowsOwnWrites
<1>6. CASE Cache!Mount(v)
  <2>1. /\ cache' = cache /\ mounted' = mounted \cup {v}
        /\ fetch' = fetch \/ (fetch' = [fetch EXCEPT ![v] = Sent])
    <3>1. CASE fetch[v] = None /\ Cache!IsStale(v)
      BY <1>6, <3>1 DEF Cache!Mount
    <3>2. CASE ~(fetch[v] = None /\ Cache!IsStale(v))
      <4>1. fetch' = [fetch EXCEPT ![v] = fetch[v]]
        BY <1>6, <3>2 DEF Cache!Mount
      <4>2. fetch' = fetch
        BY <4>1 DEF CacheTypes
      <4> QED BY <1>6, <4>2 DEF Cache!Mount
    <3> QED BY <3>1, <3>2
  <2>2. CASE fetch' = fetch
    <3>1. /\ cache' = cache /\ cache'[v] = cache[v] /\ fetch' = fetch /\ fetch'[v] = fetch[v]
          /\ mounted' \subseteq mounted \cup {v}
      BY <2>1, <2>2
    <3> QED BY <1>0, <1>4, <1>5, <3>1
  <2>3. CASE fetch' = [fetch EXCEPT ![v] = Sent]
    <3>1. fetch'[v] = Sent
      BY <2>3 DEF CacheTypes
    <3> QED BY <1>0, <1>4, <1>5, <2>1, <2>3, <3>1
  <2> QED BY <2>1, <2>2, <2>3
<1>7. CASE Cache!Unmount(v)
  <2>1. cache' = cache /\ fetch' = fetch /\ mounted' \subseteq mounted
    BY <1>7 DEF Cache!Unmount
  <2> QED BY <1>0, <1>4, <1>5, <2>1
<1>8. CASE Cache!Age(v)
  <2>1. /\ cache' = [cache EXCEPT ![v] = [cache[v] EXCEPT !.old = TRUE]] /\ fetch' = fetch /\ mounted' = mounted
    BY <1>8 DEF Cache!Age
  <2> DEFINE e == [cache[v] EXCEPT !.old = TRUE]
  <2>2. e \in Entries /\ e.at = cache[v].at /\ e.invalid = cache[v].invalid /\ e.failed = cache[v].failed
    BY <1>0 DEF Entries
  <2>3. cache'[v] = e
    BY <2>1 DEF CacheTypes
  <2> HIDE DEF e
  <2>4. cache' = [cache EXCEPT ![v] = e]
    BY <2>1 DEF e
  <2> QED BY <1>0, <1>4, <1>5, <2>1, <2>2, <2>3, <2>4
<1>9. CASE Cache!Poll(v) \/ Cache!Retry(v)
  <2>1. cache' = cache /\ fetch' = [fetch EXCEPT ![v] = Sent] /\ mounted' = mounted
    BY <1>9 DEF Cache!Poll, Cache!Retry
  <2>2. fetch'[v] = Sent
    BY <2>1 DEF CacheTypes
  <2> QED BY <1>0, <1>4, <1>5, <2>1, <2>2
<1>10. CASE Cache!ServeFetch(v)
  <2>1. cache' = cache /\ fetch' = [fetch EXCEPT ![v] = clock] /\ mounted' = mounted
    BY <1>10 DEF Cache!ServeFetch
  <2>2. fetch'[v] = clock /\ cache'[v] = cache[v]
    BY <2>1 DEF CacheTypes
  <2>3. clock \in Nat \cup {None, Sent} /\ clock <= clock /\ clock >= owed[v] /\ clock # None
    BY <1>0
  <2>4. mounted' \subseteq mounted \cup {v}
    BY <2>1
  <2> QED BY <1>0, <1>4, <1>5, <2>1, <2>2, <2>3, <2>4
<1>11. CASE Cache!ReceiveFetch(v)
  <2> DEFINE e == Cache!Fetched(v, fetch[v])
  <2>1. cache' = [cache EXCEPT ![v] = e] /\ fetch' = [fetch EXCEPT ![v] = None] /\ mounted' = mounted
        /\ fetch[v] \notin {None, Sent}
    BY <1>11 DEF Cache!ReceiveFetch
  <2>2. e \in Entries /\ e.at = fetch[v]
    BY <1>0, <2>1 DEF Cache!Fetched, Entries
  <2>3. cache'[v] = e /\ fetch'[v] = None
    BY <2>1 DEF CacheTypes
  <2> HIDE DEF e
  <2> QED BY <1>0, <1>4, <1>5, <2>1, <2>2, <2>3
<1>12. CASE Cache!FailFetch(v)
  <2> DEFINE e == [cache[v] EXCEPT !.failed = TRUE]
  <2>1. cache' = [cache EXCEPT ![v] = e] /\ fetch' = [fetch EXCEPT ![v] = None] /\ mounted' = mounted
    BY <1>12 DEF Cache!FailFetch
  <2>2. e \in Entries /\ e.at = cache[v].at /\ e.failed
    BY <1>0 DEF Entries
  <2>3. cache'[v] = e /\ fetch'[v] = None
    BY <2>1 DEF CacheTypes
  <2> HIDE DEF e
  <2> QED BY <1>0, <1>4, <1>5, <2>1, <2>2, <2>3
<1> QED BY <1>6, <1>7, <1>8, <1>9, <1>10, <1>11, <1>12

\* The calls of the user, until their success.
LEMMA CallStep ==
  ASSUME CacheInv,
         Cache!WriteElsewhere \/ \E m \in page.offers : Cache!Call(m) \/ Cache!ServeCall(m) \/ Cache!Fault(m)
  PROVE  CacheInv'
<1> USE DEF CacheInv
<1>0. /\ clock \in Nat /\ {None, Sent} \cap Nat = {} /\ None # Sent /\ MaxWrites \in Nat /\ MaxCacheFaults \in Nat
      /\ cacheFaults \in 0 .. MaxCacheFaults /\ clock + Cardinality(Unserved) <= MaxWrites
      /\ IsFiniteSet(Unserved) /\ Cardinality(Unserved) \in Nat
      /\ cacheCalls \in [page.offers -> Nat \cup {None, Sent}]
  BY NoneAssumption, BoundsAssumption, UnservedFinite DEF CacheTypes, ClockBounded
<1>1. UNCHANGED <<page, cache, fetch, mounted, owed>>
  BY DEF Cache!WriteElsewhere, Cache!Call, Cache!ServeCall, Cache!Fault
<1>2. ASSUME cacheCalls' \in [page.offers -> Nat \cup {None, Sent}],
             \A m \in page.offers : cacheCalls'[m] \notin {None, Sent} => cacheCalls'[m] <= clock',
             clock' \in {clock, clock + 1}, cacheFaults' \in 0 .. MaxCacheFaults,
             clock' + Cardinality(Unserved') <= MaxWrites
      PROVE  CacheInv'
  <2>1. CacheTypes'
    BY <1>0, <1>1, <1>2 DEF CacheTypes, Cache!Followed
  <2>2. \A n : n \in Nat /\ n <= clock => n <= clock'
    BY <1>0, <1>2
  <2>3. Dated'
    <3>1. Cache!Followed' = Cache!Followed
      BY <1>1 DEF Cache!Followed
    <3>2. ASSUME NEW v \in Cache!Followed
          PROVE  /\ owed[v] <= clock' /\ (cache[v].at # None => cache[v].at <= clock')
                 /\ fetch[v] \notin {None, Sent} => fetch[v] <= clock'
      <4>1. owed[v] \in Nat /\ cache[v].at \in Nat \cup {None} /\ fetch[v] \in Nat \cup {None, Sent}
        BY DEF CacheTypes, Entries
      <4> QED BY <2>2, <4>1 DEF Dated
    <3> QED BY <1>1, <1>2, <3>1, <3>2 DEF Dated
  <2>4. Promised' /\ Cache!PageShowsOwnWrites'
    BY <1>1 DEF Promised, Cache!PageShowsOwnWrites, Cache!Followed
  <2> QED BY <1>2, <2>1, <2>3, <2>4 DEF ClockBounded
<1>3. CASE Cache!WriteElsewhere
  <2>1. clock + Cardinality(Unserved) < MaxWrites /\ clock' = clock + 1 /\ UNCHANGED <<cacheCalls, cacheFaults>>
    BY <1>3 DEF Cache!WriteElsewhere, Cache!Writes, Unserved, Cache!Cardinality, Cardinality
  <2>2. Unserved' = Unserved
    BY <1>1, <2>1 DEF Unserved
  <2>3. clock' + Cardinality(Unserved') <= MaxWrites
    BY <1>0, <2>1, <2>2
  <2>4. \A m \in page.offers : cacheCalls[m] \notin {None, Sent} => cacheCalls[m] \in Nat /\ cacheCalls[m] <= clock
    BY <1>0 DEF Dated
  <2> QED BY <1>0, <1>2, <2>1, <2>3, <2>4
<1>4. ASSUME NEW m \in page.offers, Cache!Call(m) PROVE CacheInv'
  <2>1. clock + Cardinality(Unserved) < MaxWrites /\ clock' = clock /\ cacheFaults' = cacheFaults
        /\ cacheCalls' = [cacheCalls EXCEPT ![m] = Sent] /\ cacheCalls[m] = None
    BY <1>4 DEF Cache!Call, Cache!Writes, Unserved, Cache!Cardinality, Cardinality
  <2>2. Unserved' = Unserved \cup {m}
    BY <1>0, <1>1, <2>1 DEF Unserved
  <2>3. Cardinality(Unserved') \in Nat /\ Cardinality(Unserved') <= Cardinality(Unserved) + 1
    <3>1. Cardinality(Unserved \cup {m}) = IF m \in Unserved THEN Cardinality(Unserved) ELSE Cardinality(Unserved) + 1
      BY <1>0, FS_AddElement
    <3> QED BY <1>0, <2>2, <3>1
  <2>4. clock' + Cardinality(Unserved') <= MaxWrites
    BY <1>0, <2>1, <2>3
  <2>5. \A n \in page.offers : cacheCalls'[n] \notin {None, Sent} => cacheCalls'[n] <= clock'
    BY <1>0, <2>1 DEF Dated
  <2> QED BY <1>0, <1>2, <2>1, <2>4, <2>5
<1>5. ASSUME NEW m \in page.offers, Cache!ServeCall(m) PROVE CacheInv'
  <2>1. cacheCalls[m] = Sent /\ clock' = clock + 1 /\ cacheFaults' = cacheFaults
        /\ cacheCalls' = [cacheCalls EXCEPT ![m] = clock + 1]
    BY <1>5 DEF Cache!ServeCall
  <2>2. Unserved' = Unserved \ {m} /\ m \in Unserved
    BY <1>0, <1>1, <2>1 DEF Unserved
  <2>3. Cardinality(Unserved') = Cardinality(Unserved) - 1
    BY <1>0, <2>2, FS_RemoveElement
  <2>4. clock' + Cardinality(Unserved') <= MaxWrites
    BY <1>0, <2>1, <2>3
  <2>5. \A n \in page.offers : cacheCalls'[n] \notin {None, Sent} => cacheCalls'[n] <= clock'
    <3>1. \A n \in page.offers : cacheCalls[n] \notin {None, Sent} => cacheCalls[n] \in Nat /\ cacheCalls[n] <= clock
      BY <1>0 DEF Dated
    <3> QED BY <1>0, <2>1, <3>1
  <2> QED BY <1>0, <1>2, <2>1, <2>4, <2>5
<1>6. ASSUME NEW m \in page.offers, Cache!Fault(m) PROVE CacheInv'
  <2>1. cacheFaults < MaxCacheFaults /\ cacheFaults' = cacheFaults + 1 /\ clock' = clock
        /\ cacheCalls' = [cacheCalls EXCEPT ![m] = None]
    BY <1>6 DEF Cache!Fault
  <2>2. Unserved' \subseteq Unserved
    BY <1>0, <1>1, <2>1 DEF Unserved
  <2>3. Cardinality(Unserved') \in Nat /\ Cardinality(Unserved') <= Cardinality(Unserved)
    BY <1>0, <2>2, FS_Subset, FS_CardinalityType
  <2>4. clock' + Cardinality(Unserved') <= MaxWrites
    BY <1>0, <2>1, <2>3
  <2>5. \A n \in page.offers : cacheCalls'[n] \notin {None, Sent} => cacheCalls'[n] <= clock'
    BY <1>0, <2>1 DEF Dated
  <2>6. cacheFaults' \in 0 .. MaxCacheFaults
    BY <1>0, <2>1
  <2> QED BY <1>0, <1>2, <2>1, <2>4, <2>5, <2>6
<1> QED BY <1>3, <1>4, <1>5, <1>6

\* A success.
LEMMA SucceedStep ==
  ASSUME CacheInv, NEW m \in page.offers, Cache!Succeed(m)
  PROVE  CacheInv'
<1> USE DEF CacheInv
<1> DEFINE done == cacheCalls[m]
<1>0. /\ clock \in Nat /\ {None, Sent} \cap Nat = {} /\ None # Sent
      /\ page \in Cache!Pages /\ Cache!Followed \subseteq page.shows
      /\ done \in Nat /\ done <= clock
      /\ cacheCalls \in [page.offers -> Nat \cup {None, Sent}]
  BY NoneAssumption DEF CacheTypes, Dated, Cache!Succeed
<1>1. /\ UNCHANGED <<page, clock, mounted, cacheFaults>>
      /\ cacheCalls' = [cacheCalls EXCEPT ![m] = None]
      /\ cache' = [v \in Cache!Followed |-> Cache!Invalidated(m, v)]
      /\ fetch' = [v \in Cache!Followed |-> IF Cache!Refetched(m, v) THEN Sent ELSE fetch[v]]
      /\ owed' = [v \in Cache!Followed |->
                    IF Cache!Concerns(m, v) /\ <<m, v>> \notin Cache!Unrefreshed /\ Cache!Replaced(m, v) /\ done > owed[v]
                      THEN done ELSE owed[v]]
  BY DEF Cache!Succeed
<1>2. Cache!Followed' = Cache!Followed
  BY <1>1 DEF Cache!Followed
<1>3. ClockBounded'
  <2>1. Unserved' = Unserved
    BY <1>0, <1>1 DEF Unserved
  <2> QED BY <1>1, <2>1 DEF ClockBounded
<1>4. /\ cacheCalls' \in [page.offers -> Nat \cup {None, Sent}]
      /\ \A n \in page.offers : cacheCalls'[n] \notin {None, Sent} => cacheCalls'[n] <= clock
  BY <1>0, <1>1 DEF Dated
<1>5. ASSUME NEW v \in Cache!Followed
      PROVE  /\ cache'[v] \in Entries /\ fetch'[v] \in Nat \cup {None, Sent} /\ owed'[v] \in Nat
             /\ owed'[v] <= clock /\ (cache'[v].at # None => cache'[v].at <= clock)
             /\ fetch'[v] \notin {None, Sent} => fetch'[v] <= clock /\ fetch'[v] >= owed'[v]
             /\ (cache'[v].at # None /\ ~cache'[v].invalid /\ ~cache'[v].failed /\ fetch'[v] = None
                   => cache'[v].at >= owed'[v])
  <2>0. /\ cache[v] \in Entries /\ fetch[v] \in Nat \cup {None, Sent} /\ owed[v] \in Nat /\ owed[v] <= clock
        /\ (cache[v].at # None => cache[v].at <= clock)
        /\ fetch[v] \notin {None, Sent} => fetch[v] <= clock /\ fetch[v] >= owed[v]
        /\ (cache[v].at # None /\ ~cache[v].invalid /\ ~cache[v].failed /\ fetch[v] = None => cache[v].at >= owed[v])
    BY DEF CacheTypes, Dated, Promised, Cache!PageShowsOwnWrites
  <2>1. /\ Cache!Concerns(m, v) /\ <<m, v>> \notin Cache!Unrefreshed
             => Cache!Reaches(m, v) \/ <<m, v>> \in Cache!FetchesTheView
        /\ <<m, v>> \in Cache!AnswersTheView => Cache!Reaches(m, v)
    BY <1>0, KeysAssumption DEF Cache!KeysCoverWrites
  <2> DEFINE e == IF Cache!Answered(m, v) THEN Cache!Fetched(v, done) ELSE cache[v]
  <2>2. e \in Entries /\ (e.at # None => e.at <= clock) /\ (~Cache!Answered(m, v) => e = cache[v])
    <3>1. CASE Cache!Answered(m, v)
      BY <1>0, <3>1 DEF Cache!Fetched, Entries
    <3>2. CASE ~Cache!Answered(m, v)
      BY <2>0, <3>2
    <3> QED BY <3>1, <3>2
  <2>3. cache'[v] = IF Cache!Reaches(m, v) THEN [e EXCEPT !.invalid = TRUE] ELSE e
    BY <1>1 DEF Cache!Invalidated
  <2> HIDE DEF e
  <2>4. cache'[v] \in Entries /\ cache'[v].at = e.at
    BY <2>2, <2>3 DEF Entries
  <2>5. fetch'[v] = IF Cache!Refetched(m, v) THEN Sent ELSE fetch[v]
    BY <1>1
  <2>6. owed'[v] \in {done, owed[v]}
    BY <1>1
  <2>7. CASE Cache!Reaches(m, v)
    <3>1. cache'[v].invalid
      BY <2>2, <2>3, <2>7 DEF Entries
    <3>2. fetch'[v] \notin {None, Sent} => owed'[v] = owed[v] /\ fetch'[v] = fetch[v]
      BY <1>0, <1>1, <2>0, <2>5 DEF Cache!Replaced
    <3> QED BY <1>0, <2>0, <2>2, <2>4, <2>5, <2>6, <3>1, <3>2
  <2>8. CASE ~Cache!Reaches(m, v)
    <3>1. cache'[v] = cache[v]
      BY <2>1, <2>2, <2>3, <2>8 DEF Cache!Answered
    <3>2. fetch'[v] # Sent => owed'[v] = owed[v]
      <4>1. CASE <<m, v>> \in Cache!FetchesTheView
        <5>1. Cache!Replaced(m, v) => Cache!Refetched(m, v)
          BY <4>1 DEF Cache!Replaced, Cache!Refetched
        <5>2. Cache!Replaced(m, v) => fetch'[v] = Sent
          BY <2>5, <5>1
        <5> QED BY <1>1, <5>2
      <4>2. CASE <<m, v>> \notin Cache!FetchesTheView
        BY <1>1, <2>1, <2>8, <4>2
      <4> QED BY <4>1, <4>2
    <3>3. fetch'[v] \in {fetch[v], Sent}
      BY <2>5
    <3>4. CASE fetch'[v] = Sent
      BY <1>0, <2>0, <2>6, <3>1, <3>4
    <3>5. CASE fetch'[v] # Sent
      BY <1>0, <2>0, <3>1, <3>2, <3>3, <3>5
    <3> QED BY <3>4, <3>5
  <2> QED BY <2>7, <2>8
<1>6. /\ cache' \in [Cache!Followed -> Entries] /\ fetch' \in [Cache!Followed -> Nat \cup {None, Sent}]
      /\ owed' \in [Cache!Followed -> Nat]
  <2>1. /\ cache' = [v \in Cache!Followed |-> cache'[v]] /\ fetch' = [v \in Cache!Followed |-> fetch'[v]]
        /\ owed' = [v \in Cache!Followed |-> owed'[v]]
    BY <1>1
  <2> QED BY <1>5, <2>1
<1>7. CacheTypes'
  BY <1>1, <1>2, <1>4, <1>6 DEF CacheTypes
<1>8. Dated' /\ Promised' /\ Cache!PageShowsOwnWrites'
  BY <1>1, <1>2, <1>4, <1>5 DEF Dated, Promised, Cache!PageShowsOwnWrites
<1> QED BY <1>3, <1>7, <1>8

LEMMA CacheStep ==
  ASSUME CacheInv, Cache!Next
  PROVE  CacheInv'
BY ViewStep, CallStep, SucceedStep DEF Cache!Next

LEMMA CacheSound ==
  ASSUME CacheInv
  PROVE  Cache!TypeOK /\ Cache!PageShowsOwnWrites
<1>0. page \in Cache!Pages /\ clock \in Nat /\ MaxWrites \in Nat /\ clock <= MaxWrites
  <2>1. page \in Cache!Pages /\ clock \in Nat /\ clock + Cardinality(Unserved) <= MaxWrites /\ MaxWrites \in Nat
    BY BoundsAssumption DEF CacheInv, CacheTypes, ClockBounded
  <2>2. Cardinality(Unserved) \in Nat
    BY <2>1, UnservedFinite
  <2> QED BY <2>1, <2>2
<1>1. \A n \in Nat : n <= clock => n \in Cache!Times
  BY <1>0 DEF Cache!Times
<1>2. \A v \in Cache!Followed :
        /\ cache[v] \in [at : Cache!Times \cup {None}, invalid : BOOLEAN, old : BOOLEAN, failed : BOOLEAN]
        /\ fetch[v] \in Cache!Times \cup {None, Sent} /\ owed[v] \in Cache!Times
  <2> SUFFICES ASSUME NEW v \in Cache!Followed
               PROVE  /\ cache[v] \in [at : Cache!Times \cup {None}, invalid : BOOLEAN, old : BOOLEAN, failed : BOOLEAN]
                      /\ fetch[v] \in Cache!Times \cup {None, Sent} /\ owed[v] \in Cache!Times
    OBVIOUS
  <2>1. cache[v] \in Entries /\ fetch[v] \in Nat \cup {None, Sent} /\ owed[v] \in Nat
    BY DEF CacheInv, CacheTypes
  <2>2. /\ owed[v] <= clock /\ (cache[v].at # None => cache[v].at <= clock)
        /\ (fetch[v] \notin {None, Sent} => fetch[v] <= clock)
    BY DEF CacheInv, Dated
  <2>3. cache[v].at \in Cache!Times \cup {None}
    BY <1>1, <2>1, <2>2 DEF Entries
  <2>4. cache[v] \in [at : Cache!Times \cup {None}, invalid : BOOLEAN, old : BOOLEAN, failed : BOOLEAN]
    BY <2>1, <2>3 DEF Entries
  <2> QED BY <1>1, <2>1, <2>2, <2>4
<1>3. \A m \in page.offers : cacheCalls[m] \in Cache!Times \cup {None, Sent}
  BY <1>1 DEF CacheInv, CacheTypes, Dated
<1>4. clock \in Cache!Times
  BY <1>0, <1>1
<1> QED BY <1>0, <1>2, <1>3, <1>4 DEF CacheInv, CacheTypes, ClockBounded, Cache!TypeOK
-----------------------------------------------------------------------------
(* The demo.  The classifications in the list and those being computed are *)
(* different ones; and a visitor who waits has one request or question on  *)
(* its way, about the last classification asked for, and no other.         *)

DemoStatuses == {"queued", "running", "done", "failed"}
DemoJobs == [of : Nat, status : DemoStatuses]
Posts == [of : Nat, admitted : BOOLEAN]
Places == 1 .. Len(jobs)
DemoTypes ==
  /\ jobs \in Seq(DemoJobs) /\ queue \in Seq(Places)
  /\ looping \in Nat /\ running \subseteq Places /\ IsFiniteSet(running)
  /\ posts \subseteq Posts /\ last \in Nat
NoneTwice ==
  /\ \A a, b \in 1 .. Len(queue) : queue[a] = queue[b] => a = b
  /\ \A a \in 1 .. Len(queue) : queue[a] \notin running
ThreadsBounded == looping + Cardinality(running) <= MaxParallel
Served == Len(queue) > looping => looping + Cardinality(running) = MaxParallel
OfLast(j) == j \in Places /\ jobs[j].of = last
Own == {p \in posts : p.of # 0}
Token ==
  /\ ~Demo!Busy => Own = {} /\ timer = None /\ polls = {}
  /\ phase = "submitting" => timer = None /\ polls = {} /\ \E p : Own = {p} /\ p.of = last
  /\ phase \in {"queued", "running"} =>
       /\ Own = {}
       /\ \/ OfLast(timer) /\ polls = {}
          \/ timer = None /\ \E p : polls = {p} /\ OfLast(p.job)
  /\ phase = "done" => OfLast(job)
DemoInv == DemoTypes /\ NoneTwice /\ ThreadsBounded /\ Served /\ Token /\ Demo!NamedFileIsRead

LEMMA DemoInit ==
  ASSUME Demo!Init
  PROVE  DemoInv
<1>1. jobs = <<>> /\ queue = <<>> /\ looping = 0 /\ running = {} /\ posts = {} /\ last = 0 /\ file = None
      /\ phase = "idle" /\ timer = None /\ polls = {}
  BY DEF Demo!Init, Demo!ServerInit
<1>2. IsFiniteSet(running) /\ Cardinality(running) = 0 /\ MaxParallel \in Nat
  BY <1>1, FS_EmptySet, BoundsAssumption
<1>3. DemoTypes /\ NoneTwice
  BY <1>1, <1>2 DEF DemoTypes, NoneTwice
<1>4. ThreadsBounded /\ Served
  BY <1>1, <1>2 DEF ThreadsBounded, Served
<1>5. Token /\ Demo!NamedFileIsRead
  BY <1>1 DEF Token, Own, Demo!Busy, Demo!NamedFileIsRead
<1> QED BY <1>3, <1>4, <1>5 DEF DemoInv

\* What the visitor types, reads or picks.
LEMMA InputStep ==
  ASSUME DemoInv,
         \/ \E t \in {"paste", "upload", "contract"} : Demo!SetTab(t)
         \/ \E d \in Contracts : Demo!Pick(d)
         \/ \E t \in DemoTexts : Demo!Paste(t) \/ Demo!OnFile(t)
         \/ \E f \in reads : Demo!FileRead(f)
         \/ Demo!ContractsCome
  PROVE  DemoInv'
<1>1. UNCHANGED <<jobs, queue, looping, running, phase, job, last, posts, timer, polls>>
  BY DEF Demo!SetTab, Demo!Pick, Demo!Paste, Demo!OnFile, Demo!FileRead, Demo!ContractsCome, Demo!server, Demo!call
<1>2. Demo!NamedFileIsRead'
  BY DEF DemoInv, Demo!NamedFileIsRead, Demo!SetTab, Demo!Pick, Demo!Paste, Demo!OnFile, Demo!FileRead, Demo!ContractsCome
<1>3. DemoTypes' /\ NoneTwice' /\ ThreadsBounded' /\ Served'
  BY <1>1 DEF DemoInv, DemoTypes, NoneTwice, ThreadsBounded, Served, Places
<1>4. Token'
  BY <1>1 DEF DemoInv, Token, Own, OfLast, Places, Demo!Busy
<1> QED BY <1>2, <1>3, <1>4 DEF DemoInv

\* A classification that is there keeps its request.
LEMMA TokenKept ==
  ASSUME DemoInv, UNCHANGED <<phase, job, last, timer, polls>>, Own' = Own,
         Places \subseteq Places', \A j \in Places : jobs'[j].of = jobs[j].of
  PROVE  Token'
<1>1. \A j : j \in Places /\ jobs[j].of = last => j \in Places' /\ jobs'[j].of = last'
  OBVIOUS
<1>2. Demo!Busy' = Demo!Busy
  BY DEF Demo!Busy
<1>3. (OfLast(timer) => OfLast(timer)') /\ (OfLast(job) => OfLast(job)')
  BY <1>1 DEF OfLast
<1>4. \A p : OfLast(p.job) => OfLast(p.job)'
  BY <1>1 DEF OfLast
<1> QED BY <1>2, <1>3, <1>4 DEF DemoInv, Token

LEMMA SeqFunction ==
  ASSUME NEW R, NEW s \in Seq(R)
  PROVE  Len(s) \in Nat /\ s \in [1 .. Len(s) -> R]
OBVIOUS

LEMMA FunctionSeq ==
  ASSUME NEW R, NEW n \in Nat, NEW s \in [1 .. n -> R]
  PROVE  s \in Seq(R) /\ Len(s) = n
OBVIOUS

\* Another status for one of them.
LEMMA StatusSet ==
  ASSUME NEW s \in Seq(DemoJobs), NEW i \in 1 .. Len(s), NEW t \in DemoStatuses
  PROVE  /\ [s EXCEPT ![i].status = t] \in Seq(DemoJobs) /\ Len([s EXCEPT ![i].status = t]) = Len(s)
         /\ \A k \in 1 .. Len(s) : [s EXCEPT ![i].status = t][k].of = s[k].of
<1> DEFINE u == [s EXCEPT ![i].status = t]
<1>1. Len(s) \in Nat /\ s \in [1 .. Len(s) -> DemoJobs]
  BY SeqFunction
<1>2. [s[i] EXCEPT !.status = t] \in DemoJobs /\ [s[i] EXCEPT !.status = t].of = s[i].of
  BY <1>1 DEF DemoJobs
<1>3. u \in [1 .. Len(s) -> DemoJobs] /\ \A k \in 1 .. Len(s) : u[k].of = s[k].of
  BY <1>1, <1>2
<1> HIDE DEF u
<1>4. u \in Seq(DemoJobs) /\ Len(u) = Len(s)
  BY <1>1, <1>3, FunctionSeq
<1> QED BY <1>3, <1>4 DEF u

\* The threads. What a thread takes from the list it puts among those it computes, under
\* the lock of the list.
LEMMA TakeStep ==
  ASSUME DemoInv, Demo!Take
  PROVE  (UNCHANGED <<posts, last>> => DemoTypes') /\ NoneTwice' /\ ThreadsBounded' /\ Served'
         /\ Places' = Places /\ \A j \in Places : jobs'[j].of = jobs[j].of
<1> USE DEF DemoInv
<1> DEFINE j == Head(queue)
<1>0. /\ looping \in Nat /\ looping > 0 /\ queue \in Seq(Places) /\ queue # <<>> /\ running \subseteq Places
      /\ IsFiniteSet(running) /\ Cardinality(running) \in Nat /\ jobs \in Seq(DemoJobs)
      /\ MaxParallel \in Nat
  BY FS_CardinalityType, BoundsAssumption DEF DemoTypes, Demo!Take
<1>1. /\ queue' = Tail(queue) /\ looping' = looping - 1 /\ running' = running \cup {j}
      /\ jobs' = [jobs EXCEPT ![j].status = "running"]
  BY DEF Demo!Take
<1>2. /\ j = queue[1] /\ j \in Places /\ j \notin running /\ Len(queue) \in Nat /\ Len(queue) >= 1
      /\ Len(queue') = Len(queue) - 1 /\ queue' \in Seq(Places)
      /\ \A a \in 1 .. Len(queue') : queue'[a] = queue[a + 1]
  <2>1. /\ Len(queue) \in Nat /\ Len(queue) >= 1 /\ j = queue[1] /\ queue[1] \in Places
        /\ Tail(queue) \in Seq(Places) /\ Len(Tail(queue)) = Len(queue) - 1
        /\ \A a \in 1 .. Len(queue) - 1 : Tail(queue)[a] = queue[a + 1]
    BY <1>0
  <2>2. queue[1] \notin running
    BY <2>1 DEF NoneTwice
  <2> QED BY <1>1, <2>1, <2>2
<1> HIDE DEF j
<1>3. Cardinality(running') = Cardinality(running) + 1 /\ IsFiniteSet(running')
  BY <1>0, <1>1, <1>2, FS_AddElement
<1>4. /\ jobs' \in Seq(DemoJobs) /\ Len(jobs') = Len(jobs)
      /\ \A i \in Places : jobs'[i].of = jobs[i].of
  <2>1. j \in 1 .. Len(jobs) /\ "running" \in DemoStatuses /\ jobs \in Seq(DemoJobs)
    BY <1>0, <1>2 DEF Places, DemoStatuses
  <2> QED BY <1>1, <2>1, StatusSet DEF Places
<1>5. Places' = Places
  BY <1>4 DEF Places
<1>6. UNCHANGED <<posts, last>> => DemoTypes'
  BY <1>0, <1>1, <1>2, <1>3, <1>4, <1>5 DEF DemoTypes
<1>7. NoneTwice'
  <2>1. \A a \in 1 .. Len(queue') : a \in Nat /\ a + 1 \in 1 .. Len(queue) /\ a + 1 # 1
    BY <1>2
  <2>2. \A a \in 1 .. Len(queue) : a # 1 => queue[a] # j
    BY <1>0, <1>2 DEF NoneTwice
  <2>3. \A a, b \in 1 .. Len(queue') : queue'[a] = queue'[b] => a = b
    BY <1>2, <2>1 DEF NoneTwice
  <2>4. \A a \in 1 .. Len(queue') : queue'[a] \notin running'
    BY <1>1, <1>2, <2>1, <2>2 DEF NoneTwice
  <2> QED BY <2>3, <2>4 DEF NoneTwice
<1>8. ThreadsBounded' /\ Served'
  BY <1>0, <1>1, <1>2, <1>3 DEF ThreadsBounded, Served
<1> QED BY <1>4, <1>5, <1>6, <1>7, <1>8

LEMMA ThreadStep ==
  ASSUME DemoInv, Demo!Leave \/ (\E j \in running : Demo!Finish(j)) \/ Demo!Restart
  PROVE  (UNCHANGED <<posts, last>> => DemoTypes') /\ NoneTwice' /\ ThreadsBounded' /\ Served'
         /\ Places' = Places /\ \A j \in Places : jobs'[j].of = jobs[j].of
<1> USE DEF DemoInv
<1>0. /\ looping \in Nat /\ queue \in Seq(Places) /\ running \subseteq Places /\ Len(queue) \in Nat
      /\ IsFiniteSet(running) /\ Cardinality(running) \in Nat /\ jobs \in Seq(DemoJobs)
      /\ MaxParallel \in Nat
  BY FS_CardinalityType, BoundsAssumption DEF DemoTypes
<1>1. CASE Demo!Leave
  <2>1. looping > 0 /\ queue = <<>> /\ looping' = looping - 1 /\ UNCHANGED <<jobs, queue, running>>
    BY <1>1 DEF Demo!Leave
  <2> QED BY <1>0, <2>1 DEF DemoTypes, NoneTwice, ThreadsBounded, Served, Places
<1>2. ASSUME NEW j \in running, Demo!Finish(j)
      PROVE  (UNCHANGED <<posts, last>> => DemoTypes') /\ NoneTwice' /\ ThreadsBounded' /\ Served'
             /\ Places' = Places /\ \A i \in Places : jobs'[i].of = jobs[i].of
  <2>1. PICK s \in {"done", "failed"} : jobs' = [jobs EXCEPT ![j].status = s]
    BY <1>2 DEF Demo!Finish
  <2>2. running' = running \ {j} /\ looping' = looping + 1 /\ queue' = queue
    BY <1>2 DEF Demo!Finish
  <2>3. Cardinality(running') = Cardinality(running) - 1 /\ IsFiniteSet(running')
    BY <1>0, <2>2, FS_RemoveElement
  <2>4. /\ jobs' \in Seq(DemoJobs) /\ Len(jobs') = Len(jobs)
        /\ \A i \in Places : jobs'[i].of = jobs[i].of
    <3>1. j \in 1 .. Len(jobs) /\ s \in DemoStatuses /\ jobs \in Seq(DemoJobs)
      BY <1>0 DEF Places, DemoStatuses
    <3> QED BY <2>1, <3>1, StatusSet DEF Places
  <2>5. Places' = Places
    BY <2>4 DEF Places
  <2>6. NoneTwice'
    BY <2>2 DEF NoneTwice
  <2>7. ThreadsBounded' /\ Served'
    <3> DEFINE c == Cardinality(running)  d == Cardinality(running')  n == Len(queue)
    <3>1. looping + c <= MaxParallel /\ (n > looping => looping + c = MaxParallel)
      BY DEF ThreadsBounded, Served
    <3>2. c \in Nat /\ d = c - 1 /\ n \in Nat /\ Len(queue') = n
      BY <1>0, <2>2, <2>3
    <3> HIDE DEF c, d, n
    <3>3. looping' + d <= MaxParallel /\ (n > looping' => looping' + d = MaxParallel)
      BY <1>0, <2>2, <3>1, <3>2
    <3> QED BY <3>2, <3>3 DEF ThreadsBounded, Served, d
  <2> QED BY <1>0, <2>2, <2>3, <2>4, <2>5, <2>6, <2>7 DEF DemoTypes
<1>3. CASE Demo!Restart
  <2>1. queue' = <<>> /\ looping' = 0 /\ running' = {} /\ jobs' = jobs
    BY <1>3 DEF Demo!Restart
  <2>2. IsFiniteSet(running') /\ Cardinality(running') = 0
    BY <2>1, FS_EmptySet
  <2>3. Places' = Places /\ NoneTwice'
    BY <2>1 DEF Places, NoneTwice
  <2>4. ThreadsBounded' /\ Served'
    BY <1>0, <2>1, <2>2 DEF ThreadsBounded, Served
  <2> QED BY <1>0, <2>1, <2>2, <2>3, <2>4 DEF DemoTypes
<1> QED BY <1>1, <1>2, <1>3

\* A classification is put at the end of the list, and a thread is started for it unless
\* every thread allowed is there.
LEMMA EnqueueStep ==
  ASSUME DemoInv, NEW of \in Nat, Demo!Enqueue(of)
  PROVE  /\ jobs' \in Seq(DemoJobs) /\ queue' \in Seq(Places')
         /\ looping' \in Nat /\ running' \subseteq Places' /\ IsFiniteSet(running')
         /\ NoneTwice' /\ ThreadsBounded' /\ Served'
         /\ Places \subseteq Places' /\ Len(jobs) + 1 \in Places'
         /\ jobs'[Len(jobs) + 1].of = of /\ \A j \in Places : jobs'[j].of = jobs[j].of
<1> USE DEF DemoInv
<1> DEFINE new == Len(jobs) + 1
<1>0. /\ looping \in Nat /\ queue \in Seq(Places) /\ running \subseteq Places /\ Len(queue) \in Nat
      /\ IsFiniteSet(running) /\ Cardinality(running) \in Nat /\ jobs \in Seq(DemoJobs)
      /\ MaxParallel \in Nat /\ Len(jobs) \in Nat
  BY FS_CardinalityType, BoundsAssumption DEF DemoTypes
<1>1. /\ jobs' = Append(jobs, [of |-> of, status |-> "queued"]) /\ queue' = Append(queue, new) /\ running' = running
  BY DEF Demo!Enqueue
<1>2. looping' = IF looping + Cardinality(running) < MaxParallel THEN looping + 1 ELSE looping
  BY DEF Demo!Enqueue, Demo!Active, Demo!Cardinality, Cardinality
<1>3. /\ jobs' \in Seq(DemoJobs) /\ Len(jobs') = new
      /\ jobs'[new].of = of /\ \A j \in Places : jobs'[j].of = jobs[j].of
  BY <1>0, <1>1 DEF Places, DemoStatuses, DemoJobs
<1>4. Places \subseteq Places' /\ new \in Places' /\ new \notin Places
  BY <1>0, <1>3 DEF Places
<1>5. /\ Len(queue') = Len(queue) + 1 /\ queue' \in Seq(Places') /\ queue'[Len(queue) + 1] = new
      /\ \A a \in 1 .. Len(queue) : queue'[a] = queue[a] /\ queue[a] \in Places
  BY <1>0, <1>1, <1>4
<1> HIDE DEF new
<1>6. NoneTwice'
  <2>1. \A a \in 1 .. Len(queue') : a \in 1 .. Len(queue) \/ a = Len(queue) + 1
    BY <1>0, <1>5
  <2>2. \A a, b \in 1 .. Len(queue') : queue'[a] = queue'[b] => a = b
    BY <1>4, <1>5, <2>1 DEF NoneTwice
  <2>3. \A a \in 1 .. Len(queue') : queue'[a] \notin running'
    BY <1>0, <1>1, <1>4, <1>5, <2>1 DEF NoneTwice
  <2> QED BY <2>2, <2>3 DEF NoneTwice
<1>7. looping' \in Nat /\ ThreadsBounded' /\ Served'
  <2> DEFINE c == Cardinality(running)  n == Len(queue)
  <2>1. looping + c <= MaxParallel /\ (n > looping => looping + c = MaxParallel)
    BY DEF ThreadsBounded, Served
  <2>2. /\ c \in Nat /\ Cardinality(running') = c /\ n \in Nat /\ Len(queue') = n + 1
        /\ looping' = IF looping + c < MaxParallel THEN looping + 1 ELSE looping
    BY <1>0, <1>1, <1>2, <1>5
  <2> HIDE DEF c, n
  <2>3. /\ looping' \in Nat /\ looping' + c <= MaxParallel
        /\ (n + 1 > looping' => looping' + c = MaxParallel)
    BY <1>0, <2>1, <2>2
  <2> QED BY <2>2, <2>3 DEF ThreadsBounded, Served
<1> QED BY <1>0, <1>1, <1>3, <1>4, <1>5, <1>6, <1>7 DEF new

LEMMA ServerStep ==
  ASSUME DemoInv, Demo!Serves \/ Demo!Restarts
  PROVE  DemoInv'
<1>1. UNCHANGED <<phase, job, last, posts, timer, polls, text, file>>
  BY DEF Demo!Serves, Demo!Restarts, Demo!call, Demo!input
<1>2. \/ Demo!Take \/ Demo!Leave \/ (\E j \in running : Demo!Finish(j)) \/ Demo!Restart
  BY DEF Demo!Serves, Demo!ServerNext, Demo!Restarts
<1>3. DemoTypes' /\ NoneTwice' /\ ThreadsBounded' /\ Served'
      /\ Places' = Places /\ \A j \in Places : jobs'[j].of = jobs[j].of
  BY <1>1, <1>2, TakeStep, ThreadStep
<1>4. Token'
  <2>1. Own' = Own
    BY <1>1 DEF Own
  <2> QED BY <1>1, <1>3, <2>1, TokenKept
<1>5. Demo!NamedFileIsRead'
  BY <1>1 DEF DemoInv, Demo!NamedFileIsRead
<1> QED BY <1>3, <1>4, <1>5 DEF DemoInv

\* What the page does while the server stands still.
LEMMA PageOnly ==
  ASSUME DemoInv, UNCHANGED <<jobs, queue, looping, running, text, file>>, posts' \subseteq Posts, last' \in Nat, Token'
  PROVE  DemoInv'
<1>1. DemoTypes' /\ NoneTwice' /\ ThreadsBounded' /\ Served'
  BY DEF DemoInv, DemoTypes, NoneTwice, ThreadsBounded, Served, Places
<1>2. Demo!NamedFileIsRead'
  BY DEF DemoInv, Demo!NamedFileIsRead
<1> QED BY <1>1, <1>2 DEF DemoInv

\* A request: one at a time.
LEMMA SubmitStep ==
  ASSUME DemoInv, Demo!Submit \/ Demo!Reset \/ Demo!Visit
  PROVE  DemoInv'
<1>0. posts \subseteq Posts /\ last \in Nat /\ Token
  BY DEF DemoInv, DemoTypes
<1>1. UNCHANGED <<jobs, queue, looping, running, text, file>>
  BY DEF Demo!Submit, Demo!Reset, Demo!Visit, Demo!server, Demo!input
<1>2. CASE Demo!Submit
  <2> DEFINE p == [of |-> last + 1, admitted |-> FALSE]
  <2>1. /\ ~Demo!Busy /\ phase' = "submitting" /\ timer' = None /\ last' = last + 1 /\ posts' = posts \cup {p}
        /\ polls' = polls
    BY <1>2 DEF Demo!Submit
  <2>2. p \in Posts /\ p.of = last' /\ p.of # 0
    BY <1>0, <2>1 DEF Posts
  <2> HIDE DEF p
  <2>3. Own' = {p}
    BY <1>0, <2>1, <2>2 DEF Own, Token
  <2>4. Token'
    BY <1>0, <2>1, <2>2, <2>3 DEF Token, Demo!Busy
  <2>5. posts' \subseteq Posts /\ last' \in Nat
    BY <1>0, <2>1, <2>2
  <2> QED BY <1>1, <2>4, <2>5, PageOnly
<1>3. CASE Demo!Reset
  <2>1. phase = "done" /\ phase' = "idle" /\ timer' = None /\ UNCHANGED <<last, posts, polls>>
    BY <1>3 DEF Demo!Reset
  <2>2. Token'
    BY <1>0, <2>1 DEF Token, Own, Demo!Busy
  <2> QED BY <1>0, <1>1, <2>1, <2>2, PageOnly
<1>4. CASE Demo!Visit
  <2> DEFINE p == [of |-> 0, admitted |-> FALSE]
  <2>1. posts' = posts \cup {p} /\ UNCHANGED <<phase, job, last, timer, polls, jobs>>
    BY <1>1, <1>4 DEF Demo!Visit
  <2>2. p \in Posts /\ p.of = 0
    BY DEF Posts
  <2> HIDE DEF p
  <2>3. Own' = Own
    BY <2>1, <2>2 DEF Own
  <2>4. Token'
    BY <2>1, <2>3, TokenKept DEF Places
  <2>5. posts' \subseteq Posts
    BY <1>0, <2>1, <2>2
  <2> QED BY <1>0, <1>1, <2>1, <2>4, <2>5, PageOnly
<1> QED BY <1>2, <1>3, <1>4

\* What becomes of a request.
LEMMA PostStep ==
  ASSUME DemoInv, NEW p \in posts, Demo!Admit(p) \/ Demo!Refuse(p) \/ Demo!Accept(p)
  PROVE  DemoInv'
<1>0. /\ posts \subseteq Posts /\ last \in Nat /\ Token /\ p \in Posts /\ p.of \in Nat
      /\ jobs \in Seq(DemoJobs) /\ None \notin Nat
  BY NoneAssumption DEF DemoInv, DemoTypes, Posts
\* The request of the visitor is there only while the page is submitting.
<1>1. p.of # 0 => phase = "submitting" /\ Own = {p} /\ p.of = last /\ timer = None /\ polls = {}
  <2> HAVE p.of # 0
  <2>1. p \in Own
    BY DEF Own
  <2>2. phase = "submitting"
    BY <1>0, <2>1 DEF Token, Demo!Busy
  <2> QED BY <1>0, <2>1, <2>2 DEF Token
<1>2. CASE Demo!Admit(p)
  <2> DEFINE q == [p EXCEPT !.admitted = TRUE]
  <2>1. posts' = (posts \ {p}) \cup {q} /\ UNCHANGED <<phase, job, last, timer, polls, jobs, queue, looping, running, text, file>>
    BY <1>2 DEF Demo!Admit, Demo!server, Demo!input
  <2>2. q \in Posts /\ q.of = p.of
    BY <1>0 DEF Posts
  <2> HIDE DEF q
  <2>3. CASE p.of = 0
    <3>1. Own' = Own
      BY <2>1, <2>2, <2>3 DEF Own
    <3>2. Token'
      BY <2>1, <3>1, TokenKept DEF Places
    <3>3. posts' \subseteq Posts /\ last' \in Nat
      BY <1>0, <2>1, <2>2
    <3> QED BY <2>1, <3>2, <3>3, PageOnly
  <2>4. CASE p.of # 0
    <3>1. Own' = {q} /\ q.of = last'
      BY <1>1, <2>1, <2>2, <2>4 DEF Own
    <3>2. Token'
      BY <1>1, <2>1, <2>4, <3>1 DEF Token, Demo!Busy, Own
    <3>3. posts' \subseteq Posts /\ last' \in Nat
      BY <1>0, <2>1, <2>2
    <3> QED BY <2>1, <3>2, <3>3, PageOnly
  <2> QED BY <2>3, <2>4
<1>3. CASE Demo!Refuse(p)
  <2>1. posts' = posts \ {p} /\ UNCHANGED <<job, last, timer, polls, jobs, queue, looping, running, text, file>>
        /\ (p.of # 0 => phase' = "failed") /\ (p.of = 0 => phase' = phase)
    BY <1>3 DEF Demo!Refuse, Demo!Mine, Demo!server, Demo!input
  <2>2. posts' \subseteq Posts /\ last' \in Nat
    BY <1>0, <2>1
  <2>3. CASE p.of = 0
    <3>1. Own' = Own
      BY <2>1, <2>3 DEF Own
    <3>2. Token'
      BY <2>1, <2>3, <3>1, TokenKept DEF Places
    <3> QED BY <2>1, <2>2, <3>2, PageOnly
  <2>4. CASE p.of # 0
    <3>1. Own' = {}
      BY <1>1, <2>1, <2>4 DEF Own
    <3>2. Token'
      BY <1>1, <2>1, <2>4, <3>1 DEF Token, Demo!Busy
    <3> QED BY <2>1, <2>2, <3>2, PageOnly
  <2> QED BY <2>3, <2>4
<1>4. CASE Demo!Accept(p)
  <2> DEFINE n == Len(jobs) + 1
  <2>1. Demo!Enqueue(p.of) /\ posts' = posts \ {p} /\ UNCHANGED <<job, last, polls, text, file>>
        /\ (p.of # 0 => phase' = "queued" /\ timer' = n) /\ (p.of = 0 => UNCHANGED <<phase, timer>>)
    BY <1>4 DEF Demo!Accept, Demo!Mine, Demo!input
  <2>2. /\ jobs' \in Seq(DemoJobs) /\ queue' \in Seq(Places')
        /\ looping' \in Nat /\ running' \subseteq Places' /\ IsFiniteSet(running')
        /\ NoneTwice' /\ ThreadsBounded' /\ Served'
        /\ Places \subseteq Places' /\ n \in Places'
        /\ jobs'[n].of = p.of /\ \A j \in Places : jobs'[j].of = jobs[j].of
    BY <1>0, <2>1, EnqueueStep
  <2>3. n # None
    BY <1>0
  <2> HIDE DEF n
  <2>4. DemoTypes'
    BY <1>0, <2>1, <2>2 DEF DemoTypes
  <2>5. Demo!NamedFileIsRead'
    BY <2>1 DEF DemoInv, Demo!NamedFileIsRead
  <2>6. \A j : j \in Places /\ jobs[j].of = last => j \in Places' /\ jobs'[j].of = last'
    BY <2>1, <2>2
  <2>7. CASE p.of = 0
    <3>1. Own' = Own
      BY <2>1, <2>7 DEF Own
    <3>2. Token'
      BY <2>1, <2>2, <2>7, <3>1, TokenKept
    <3> QED BY <2>2, <2>4, <2>5, <3>2 DEF DemoInv
  <2>8. CASE p.of # 0
    <3>1. Own' = {}
      BY <1>1, <2>1, <2>8 DEF Own
    <3>2. OfLast(timer)' /\ polls' = {} /\ phase' = "queued"
      BY <1>1, <2>1, <2>2, <2>8 DEF OfLast
    <3>3. Token'
      BY <3>1, <3>2 DEF Token, Demo!Busy
    <3> QED BY <2>2, <2>4, <2>5, <3>3 DEF DemoInv
  <2> QED BY <2>7, <2>8
<1> QED BY <1>2, <1>3, <1>4

\* The questions, one on its way at a time.
LEMMA QuestionStep ==
  ASSUME DemoInv, Demo!Poll \/ Demo!ThreeMinutes \/ \E p \in polls : Demo!Answer(p) \/ Demo!AnswerFails(p)
  PROVE  DemoInv'
<1>0. posts \subseteq Posts /\ last \in Nat /\ Token /\ jobs \in Seq(DemoJobs) /\ None \notin Nat
  BY NoneAssumption DEF DemoInv, DemoTypes
<1>1. UNCHANGED <<jobs, queue, looping, running, text, file, posts, last>>
  BY DEF Demo!Poll, Demo!ThreeMinutes, Demo!Answer, Demo!AnswerFails, Demo!server, Demo!input
<1>2. posts' \subseteq Posts /\ last' \in Nat /\ Own' = Own /\ Places' = Places
  BY <1>0, <1>1 DEF Own, Places
<1> SUFFICES Token'
  BY <1>1, <1>2, PageOnly
<1>4. CASE Demo!ThreeMinutes
  BY <1>0, <1>1, <1>2, <1>4 DEF Demo!ThreeMinutes, Token, Demo!Busy, OfLast
<1>5. CASE Demo!Poll
  <2>1. timer # None /\ polls' = polls \cup {[job |-> timer, late |-> late]} /\ timer' = None
        /\ UNCHANGED <<phase, job>>
    BY <1>5 DEF Demo!Poll
  <2>2. PICK q : q.job = timer /\ polls' = polls \cup {q}
    BY <2>1
  <2>3. phase \in {"queued", "running"} /\ Own = {} /\ OfLast(timer) /\ polls = {}
    BY <1>0, <2>1 DEF Token, Demo!Busy
  <2>4. polls' = {q} /\ OfLast(q.job)'
    BY <1>1, <1>2, <2>1, <2>2, <2>3 DEF OfLast
  <2> QED BY <1>2, <2>1, <2>3, <2>4 DEF Token, Demo!Busy
<1>6. ASSUME NEW p \in polls, Demo!Answer(p) \/ Demo!AnswerFails(p) PROVE Token'
  <2>1. phase \in {"queued", "running"} /\ Own = {} /\ timer = None /\ polls = {p} /\ OfLast(p.job)
    BY <1>0 DEF Token, Demo!Busy
  <2>2. polls' = {}
    BY <1>6, <2>1 DEF Demo!Answer, Demo!AnswerFails
  <2>3. CASE Demo!AnswerFails(p)
    <3>1. phase' = "failed" /\ timer' = None
      BY <2>1, <2>3 DEF Demo!AnswerFails
    <3> QED BY <1>2, <2>1, <2>2, <3>1 DEF Token, Demo!Busy
  <2>4. CASE Demo!Answer(p)
    <3>1. /\ job' = p.job /\ phase' = Demo!ShownBy(p)
          /\ timer' = IF Demo!Ended(p.job) \/ phase' = "failed" THEN None ELSE p.job
      BY <2>1, <2>4 DEF Demo!Answer
    <3>2. jobs[p.job].status \in DemoStatuses
      <4>1. p.job \in 1 .. Len(jobs) /\ jobs \in [1 .. Len(jobs) -> DemoJobs]
        BY <1>0, <2>1, SeqFunction DEF OfLast, Places
      <4> QED BY <4>1 DEF DemoJobs
    <3>3. OfLast(job)' /\ OfLast(p.job)'
      BY <1>1, <1>2, <2>1, <3>1 DEF OfLast
    <3>4. CASE Demo!Ended(p.job) \/ phase' = "failed"
      <4>1. phase' \in {"done", "failed"} /\ timer' = None
        BY <3>1, <3>4 DEF Demo!Ended, Demo!ShownBy
      <4> QED BY <1>2, <2>1, <2>2, <3>3, <4>1 DEF Token, Demo!Busy
    <3>5. CASE ~(Demo!Ended(p.job) \/ phase' = "failed")
      <4>1. phase' \in {"queued", "running"} /\ timer' = p.job
        BY <3>1, <3>2, <3>5 DEF Demo!Ended, Demo!ShownBy, DemoStatuses
      <4>2. OfLast(timer)'
        BY <1>1, <1>2, <2>1, <4>1 DEF OfLast
      <4> QED BY <1>2, <2>1, <2>2, <4>1, <4>2 DEF Token, Demo!Busy
    <3> QED BY <3>4, <3>5
  <2> QED BY <1>6, <2>3, <2>4
<1> QED BY <1>4, <1>5, <1>6

LEMMA DemoStep ==
  ASSUME DemoInv, Demo!Next
  PROVE  DemoInv'
BY InputStep, ServerStep, SubmitStep, PostStep, QuestionStep DEF Demo!Next, Demo!PostsEnd, Demo!Answers

LEMMA DemoSound ==
  ASSUME DemoInv
  PROVE  Demo!NoneWaitsInVain /\ Demo!ResultIsOfTheLast /\ Demo!NamedFileIsRead
<1>1. Demo!NoneWaitsInVain
  BY DEF DemoInv, Served, Demo!NoneWaitsInVain, Demo!Active, Demo!Cardinality, Cardinality
<1>2. Demo!ResultIsOfTheLast
  BY DEF DemoInv, Token, OfLast, Demo!ResultIsOfTheLast
<1> QED BY <1>1, <1>2 DEF DemoInv
-----------------------------------------------------------------------------
(* The analysis runs: one worker computes a run until its heartbeat lapsed, *)
(* for any runs, workers and number of metrics and any bound on the crashes. *)

AnalysisRecord == [status : Analysis!Active \cup Analysis!Ended \cup {"absent"}, cancel : BOOLEAN,
      beat : BOOLEAN]
AnalysisDoings == {"polls", "picked", "checks", "computes"}

AnalysisTypes ==
  /\ analysisRun \in [AnalysisIds -> AnalysisRecord]
  /\ posting \subseteq AnalysisIds
  /\ analysisCancelling \subseteq [run : AnalysisIds, saw : Analysis!Active]
  /\ analysisWorker \in [AnalysisWorkers -> [does : AnalysisDoings, on : AnalysisIds \cup {0}, left : Int]]
  /\ swept \subseteq AnalysisIds

\* What stands in a request or with a worker is about a run that exists, or does not yet.
AnalysisStanding ==
  /\ \A r \in posting : analysisRun[r].status = "absent"
  /\ \A c \in analysisCancelling : analysisRun[c.run].status # "absent"
  /\ \A w \in AnalysisWorkers, r \in AnalysisIds :
       analysisWorker[w].does # "polls" /\ analysisWorker[w].on = r => analysisRun[r].status # "absent"

\* A run that a worker computes cannot be claimed, unless it was swept: OneWorkerComputes
\* is not inductive without it.
AnalysisGuarded == \A r \in AnalysisIds \ swept : Analysis!Computing(r) # {}
      => analysisRun[r].status \in Analysis!Refused

AnalysisRunsInv == AnalysisTypes /\ AnalysisStanding /\ AnalysisGuarded /\ Analysis!OneWorkerComputes

-----------------------------------------------------------------------------
LEMMA AnalysisInit == ASSUME Analysis!Init PROVE AnalysisRunsInv
BY DEF Analysis!Init, AnalysisRunsInv, AnalysisTypes, AnalysisStanding, AnalysisGuarded,
      Analysis!OneWorkerComputes, Analysis!Computing, AnalysisRecord, Analysis!Idle, Analysis!Active,
            Analysis!Ended, AnalysisDoings, Analysis!Refused

\* The requests touch no worker, and leave a run that is computed refused to a claim.
LEMMA AnalysisRequest ==
  ASSUME AnalysisRunsInv, NEW r \in AnalysisIds, Analysis!QueueRun(r) \/ Analysis!Create(r)
        \/ Analysis!LoadCancel(r) \/ Analysis!Lapse(r)
  PROVE  AnalysisRunsInv'
<1> USE DEF AnalysisRunsInv, AnalysisTypes, AnalysisRecord, AnalysisDoings, Analysis!Active, Analysis!Ended
<1>1. CASE Analysis!QueueRun(r)
  BY <1>1 DEF Analysis!QueueRun, Analysis!ByRequests, AnalysisStanding, AnalysisGuarded,
        Analysis!OneWorkerComputes, Analysis!Computing, Analysis!Refused
<1>2. CASE Analysis!Create(r)
  <2>1. analysisRun[r].status = "absent" /\ analysisRun' = [analysisRun EXCEPT ![r].status = "queued"]
        /\ posting' = posting \ {r}
        /\ UNCHANGED <<analysisCancelling, analysisWorker, swept>>
    BY <1>2 DEF Analysis!Create, Analysis!With, Analysis!ByRequests, AnalysisStanding
  <2>2. AnalysisTypes'
    BY <2>1
  <2>3. AnalysisStanding'
    BY <2>1 DEF AnalysisStanding
  <2>4. Analysis!Computing(r) = {}
    BY <2>1 DEF AnalysisStanding, Analysis!Computing
  <2>5. AnalysisGuarded' /\ Analysis!OneWorkerComputes'
    BY <2>1, <2>4 DEF AnalysisGuarded, Analysis!OneWorkerComputes, Analysis!Computing, Analysis!Refused
  <2> QED BY <2>2, <2>3, <2>5
<1>3. CASE Analysis!LoadCancel(r)
  BY <1>3 DEF Analysis!LoadCancel, Analysis!ByRequests, AnalysisStanding, AnalysisGuarded,
        Analysis!OneWorkerComputes, Analysis!Computing, Analysis!Refused
<1>4. CASE Analysis!Lapse(r)
  <2>1. analysisRun' = [analysisRun EXCEPT ![r].beat = FALSE] /\ UNCHANGED <<posting, analysisCancelling,
        analysisWorker, swept>>
    BY <1>4 DEF Analysis!Lapse, Analysis!ByWorkers
  <2>2. AnalysisTypes' /\ \A q \in AnalysisIds : analysisRun'[q].status = analysisRun[q].status
        /\ Analysis!Computing(q)' = Analysis!Computing(q)
    BY <2>1 DEF Analysis!Computing
  <2>3. AnalysisStanding'
    BY <2>1, <2>2 DEF AnalysisStanding
  <2>4. AnalysisGuarded' /\ Analysis!OneWorkerComputes'
    BY <2>1, <2>2 DEF AnalysisGuarded, Analysis!OneWorkerComputes
  <2> QED BY <2>2, <2>3, <2>4
<1> QED BY <1>1, <1>2, <1>3, <1>4

LEMMA AnalysisCancel ==
  ASSUME AnalysisRunsInv, NEW c \in analysisCancelling, Analysis!SaveCancel(c)
  PROVE  AnalysisRunsInv'
<1> USE DEF AnalysisRunsInv, AnalysisTypes, AnalysisRecord, AnalysisDoings, Analysis!Active, Analysis!Ended
<1> DEFINE said == IF c.saw = "queued" THEN "canceled" ELSE c.saw
<1>1. c.run \in AnalysisIds /\ said \in {"canceled", "running"}
  OBVIOUS
<1>2. analysisRun' = [analysisRun EXCEPT ![c.run].cancel = TRUE, ![c.run].status = said]
      /\ analysisCancelling' = analysisCancelling \ {c} /\ UNCHANGED <<posting, analysisWorker, swept>>
  BY DEF Analysis!SaveCancel, Analysis!ByRequests
<1> HIDE DEF said
<1>3. AnalysisTypes'
  BY <1>1, <1>2
<1>4. \A r \in AnalysisIds :
      /\ analysisRun'[r].status # analysisRun[r].status => r = c.run /\ analysisRun'[r].status = said
      /\ analysisRun'[r].status = analysisRun[r].status \/ r = c.run
  BY <1>1, <1>2
<1>5. c.run \notin posting
  BY DEF AnalysisStanding
<1>6. AnalysisStanding'
  BY <1>1, <1>2, <1>4, <1>5 DEF AnalysisStanding
<1>7. AnalysisGuarded' /\ Analysis!OneWorkerComputes'
  BY <1>1, <1>2, <1>4 DEF AnalysisGuarded, Analysis!OneWorkerComputes, Analysis!Computing, Analysis!Refused
<1> QED BY <1>3, <1>6, <1>7

\* A sweep is what lets a run be computed twice, and says so.
LEMMA AnalysisHandle ==
  ASSUME Metrics \in Int, AnalysisRunsInv, NEW w \in AnalysisWorkers, Analysis!Handle(w)
  PROVE  AnalysisRunsInv'
<1> USE DEF AnalysisRunsInv, AnalysisTypes, AnalysisRecord, AnalysisDoings, Analysis!Active, Analysis!Ended
<1>1. analysisRun' = Analysis!AfterSweep /\ swept' = swept \cup Analysis!Silent /\ UNCHANGED <<posting, analysisCancelling>>
  BY DEF Analysis!Handle, Analysis!ByWorkers
<1>2. \A r \in AnalysisIds :
      /\ analysisRun'[r] = IF r \in Analysis!Silent THEN [analysisRun[r] EXCEPT !.status = "failed"]
                           ELSE analysisRun[r]
      /\ r \in Analysis!Silent => analysisRun[r].status = "running"
  BY <1>1 DEF Analysis!AfterSweep, Analysis!Silent
<1>3. analysisRun' \in [AnalysisIds -> AnalysisRecord] /\ swept' \subseteq AnalysisIds
  BY <1>1, <1>2 DEF Analysis!AfterSweep, Analysis!Silent
<1>4. /\ analysisWorker' \in [AnalysisWorkers -> [does : AnalysisDoings, on : AnalysisIds \cup {0}, left : Int]]
      /\ \A v \in AnalysisWorkers :
           \/ analysisWorker'[v] = analysisWorker[v]
           \/ analysisWorker'[v].does = "picked" /\ analysisRun'[analysisWorker'[v].on].status = "queued"
  <2>1. CASE UNCHANGED analysisWorker
    BY <2>1
  <2>2. CASE \E r \in Analysis!First : analysisWorker' = [analysisWorker EXCEPT ![w] = [does |-> "picked", on |-> r, left |-> Metrics]]
    BY <2>2, <1>1 DEF Analysis!First, Analysis!Waiting
  <2> QED BY <2>1, <2>2 DEF Analysis!Handle
<1>5. AnalysisTypes'
  BY <1>1, <1>3, <1>4
<1>6. AnalysisStanding'
  BY <1>1, <1>2, <1>3, <1>4 DEF AnalysisStanding
<1>7. \A r \in AnalysisIds : Analysis!Computing(r)' \subseteq Analysis!Computing(r)
  BY <1>4 DEF Analysis!Computing
<1>8. AnalysisGuarded' /\ Analysis!OneWorkerComputes'
  BY <1>1, <1>2, <1>7 DEF AnalysisGuarded, Analysis!OneWorkerComputes
<1> QED BY <1>5, <1>6, <1>8

\* The other steps of a worker, and its death: at most one run moves, and a worker starts to
\* compute only a run it could claim.
LEMMA AnalysisWork ==
  ASSUME AnalysisRunsInv, NEW w \in AnalysisWorkers, NEW r \in AnalysisIds,
         Analysis!Claim(w, r) \/ Analysis!CheckCancel(w, r) \/ Analysis!Compute(w, r)
               \/ Analysis!Succeed(w, r) \/ Analysis!FailRun(w, r)
  PROVE  AnalysisRunsInv'
<1> USE DEF AnalysisRunsInv, AnalysisTypes, AnalysisRecord, AnalysisDoings, Analysis!Active, Analysis!Ended
<1>0. analysisWorker[w].on = r /\ analysisWorker[w].does # "polls" /\ analysisRun[r].status # "absent"
      /\ UNCHANGED <<posting, analysisCancelling, swept>>
  BY DEF Analysis!Claim, Analysis!CheckCancel, Analysis!Compute, Analysis!Succeed, Analysis!FailRun,
        Analysis!On, Analysis!Same, Analysis!ByWorkers, AnalysisStanding
<1>1. /\ analysisRun' \in [AnalysisIds -> AnalysisRecord]
      /\ analysisWorker' \in [AnalysisWorkers -> [does : AnalysisDoings, on : AnalysisIds \cup {0}, left : Int]]
      /\ \A q \in AnalysisIds \ {r} : analysisRun'[q] = analysisRun[q]
      /\ \A v \in AnalysisWorkers \ {w} : analysisWorker'[v] = analysisWorker[v]
      /\ analysisRun'[r].status # "absent"
      /\ analysisWorker'[w].does = "polls" \/ analysisWorker'[w].on = r
  <2>1. /\ \/ UNCHANGED analysisRun
           \/ \E s \in Analysis!Active \cup Analysis!Ended : analysisRun' = Analysis!With(r, s)
           \/ analysisRun' = [Analysis!With(r, "running") EXCEPT ![r].beat = TRUE]
           \/ analysisRun' = [analysisRun EXCEPT ![r].beat = TRUE]
        /\ \/ Analysis!Leaves(w) \/ Analysis!Goes(w, "checks") \/ Analysis!Goes(w, "computes")
           \/ analysisWorker' = [analysisWorker EXCEPT ![w].does = "checks", ![w].left = @ - 1]
    BY DEF Analysis!Claim, Analysis!CheckCancel, Analysis!Compute, Analysis!Succeed, Analysis!FailRun,
          Analysis!Leaves
  <2>2. analysisRun' \in [AnalysisIds -> AnalysisRecord] /\ analysisRun'[r].status # "absent"
        /\ \A q \in AnalysisIds \ {r} : analysisRun'[q] = analysisRun[q]
    <3>1. CASE UNCHANGED analysisRun
      BY <3>1, <1>0
    <3>2. CASE \E s \in Analysis!Active \cup Analysis!Ended : analysisRun' = Analysis!With(r, s)
      BY <3>2 DEF Analysis!With
    <3>3. CASE analysisRun' = [Analysis!With(r, "running") EXCEPT ![r].beat = TRUE]
      BY <3>3 DEF Analysis!With
    <3>4. CASE analysisRun' = [analysisRun EXCEPT ![r].beat = TRUE]
      BY <3>4, <1>0
    <3> QED BY <2>1, <3>1, <3>2, <3>3, <3>4
  <2>3. /\ analysisWorker' \in [AnalysisWorkers -> [does : AnalysisDoings, on : AnalysisIds \cup {0}, left : Int]]
        /\ \A v \in AnalysisWorkers \ {w} : analysisWorker'[v] = analysisWorker[v]
        /\ analysisWorker'[w].does = "polls" \/ analysisWorker'[w].on = r
    BY <2>1, <1>0 DEF Analysis!Leaves, Analysis!Goes, Analysis!Idle
  <2> QED BY <2>2, <2>3
<1>2. AnalysisTypes' /\ AnalysisStanding'
  <2>1. AnalysisTypes'
    BY <1>0, <1>1
  <2>2. \A q \in AnalysisIds : analysisRun[q].status # "absent" => analysisRun'[q].status # "absent"
    BY <1>1
  <2>3. \A q \in posting : analysisRun'[q].status = "absent"
    BY <1>0, <1>1 DEF AnalysisStanding
  <2>4. \A c \in analysisCancelling : analysisRun'[c.run].status # "absent"
    BY <2>2 DEF AnalysisStanding
  <2>5. \A v \in AnalysisWorkers, q \in AnalysisIds : analysisWorker'[v].does # "polls"
        /\ analysisWorker'[v].on = q => analysisRun'[q].status # "absent"
    BY <1>1, <2>2 DEF AnalysisStanding
  <2> QED BY <1>0, <2>1, <2>3, <2>4, <2>5 DEF AnalysisStanding
<1>3. CASE Analysis!Claim(w, r) /\ Analysis!Claims(r) /\ ~analysisRun[r].cancel
  <2>1. analysisWorker'[w].does = "checks" /\ analysisWorker'[w].on = r
        /\ analysisRun'[r].status = "running" /\ analysisRun[r].status \notin Analysis!Refused
    BY <1>3, <1>0, <1>1 DEF Analysis!Claim, Analysis!Claims, Analysis!With, Analysis!Goes, Analysis!Leaves,
          Analysis!On
  <2>2. r \notin swept => Analysis!Computing(r) = {}
    BY <2>1 DEF AnalysisGuarded
  <2>3. \A q \in AnalysisIds : Analysis!Computing(q)' = IF q = r THEN Analysis!Computing(q) \cup {w} ELSE Analysis!Computing(q) \ {w}
    BY <2>1, <1>0, <1>1 DEF Analysis!Computing
  <2>4. AnalysisGuarded'
    BY <2>1, <2>3, <1>0, <1>1 DEF AnalysisGuarded, Analysis!Refused
  <2>5. Analysis!OneWorkerComputes'
    BY <2>2, <2>3, <1>0 DEF Analysis!OneWorkerComputes
  <2> QED BY <2>4, <2>5, <1>2
<1>4. CASE Analysis!Compute(w, r) \/ (Analysis!CheckCancel(w, r) /\ ~analysisRun[r].cancel)
  <2>1. \A q \in AnalysisIds : Analysis!Computing(q)' = Analysis!Computing(q)
        /\ analysisRun'[q].status = analysisRun[q].status
    BY <1>4, <1>0, <1>1 DEF Analysis!Computing, Analysis!Compute, Analysis!CheckCancel, Analysis!On,
          Analysis!Goes
  <2>2. AnalysisGuarded' /\ Analysis!OneWorkerComputes'
    BY <2>1, <1>0 DEF AnalysisGuarded, Analysis!OneWorkerComputes
  <2> QED BY <2>2, <1>2
<1>5. CASE ~(Analysis!Claim(w, r) /\ Analysis!Claims(r) /\ ~analysisRun[r].cancel)
      /\ analysisWorker'[w].does = "polls"
  <2>1. \A q \in AnalysisIds : Analysis!Computing(q)' = Analysis!Computing(q) \ {w}
    BY <1>5, <1>1 DEF Analysis!Computing
  <2>2. Analysis!OneWorkerComputes'
    BY <2>1, <1>0 DEF Analysis!OneWorkerComputes
  <2>3. analysisRun'[r] = analysisRun[r] \/ r \in swept \/ Analysis!Computing(r)' = {}
        \/ analysisRun'[r].status \in Analysis!Refused
    <3>1. CASE analysisWorker[w].does \in {"checks", "computes"}
      BY <3>1, <2>1, <1>0 DEF Analysis!OneWorkerComputes, Analysis!Computing
    <3>2. CASE Analysis!Claim(w, r)
      BY <3>2, <1>5 DEF Analysis!Claim, Analysis!Goes, Analysis!With, Analysis!Refused
    <3> QED BY <3>1, <3>2 DEF Analysis!CheckCancel, Analysis!Compute, Analysis!Succeed, Analysis!FailRun,
          Analysis!On
  <2>4. AnalysisGuarded'
    BY <2>1, <2>3, <1>0, <1>1 DEF AnalysisGuarded
  <2> QED BY <2>2, <2>4, <1>2
<1> QED BY <1>3, <1>4, <1>5, <1>0 DEF Analysis!Claim, Analysis!CheckCancel, Analysis!Succeed,
      Analysis!FailRun, Analysis!Leaves, Analysis!Idle

LEMMA AnalysisCrash ==
  ASSUME AnalysisRunsInv, NEW w \in AnalysisWorkers, Analysis!Crash(w)
  PROVE  AnalysisRunsInv'
<1> USE DEF AnalysisRunsInv, AnalysisTypes, AnalysisRecord, AnalysisDoings, Analysis!Active, Analysis!Ended
<1>1. analysisWorker' = [analysisWorker EXCEPT ![w] = Analysis!Idle] /\ UNCHANGED <<analysisRun, posting,
      analysisCancelling, swept>>
  BY DEF Analysis!Crash
<1>2. AnalysisTypes' /\ AnalysisStanding'
  BY <1>1 DEF AnalysisStanding, Analysis!Idle
<1>3. \A q \in AnalysisIds : Analysis!Computing(q)' \subseteq Analysis!Computing(q)
  BY <1>1 DEF Analysis!Computing, Analysis!Idle
<1>4. AnalysisGuarded' /\ Analysis!OneWorkerComputes'
  BY <1>1, <1>3 DEF AnalysisGuarded, Analysis!OneWorkerComputes
<1> QED BY <1>2, <1>4

LEMMA AnalysisStep ==
  ASSUME Metrics \in Int, AnalysisRunsInv, [Analysis!Next]_(Analysis!vars)
  PROVE  AnalysisRunsInv'
<1>1. CASE UNCHANGED Analysis!vars
  BY <1>1 DEF Analysis!vars, AnalysisRunsInv, AnalysisTypes, AnalysisStanding, AnalysisGuarded,
        Analysis!OneWorkerComputes, Analysis!Computing, Analysis!Refused
<1>2. CASE Analysis!Next
  <2>1. CASE \E r \in AnalysisIds : Analysis!QueueRun(r) \/ Analysis!Create(r) \/ Analysis!LoadCancel(r)
        \/ Analysis!Lapse(r)
    BY <2>1, AnalysisRequest
  <2>2. CASE \E c \in analysisCancelling : Analysis!SaveCancel(c)
    BY <2>2, AnalysisCancel
  <2>3. ASSUME NEW w \in AnalysisWorkers, Analysis!Handle(w) PROVE AnalysisRunsInv'
    BY <2>3, AnalysisHandle
  <2>4. ASSUME NEW w \in AnalysisWorkers, Analysis!Crash(w) PROVE AnalysisRunsInv'
    BY <2>4, AnalysisCrash
  <2>5. ASSUME NEW w \in AnalysisWorkers, NEW r \in AnalysisIds,
               Analysis!Claim(w, r) \/ Analysis!CheckCancel(w, r) \/ Analysis!Compute(w, r)
                     \/ Analysis!Succeed(w, r) \/ Analysis!FailRun(w, r)
        PROVE  AnalysisRunsInv'
    BY <2>5, AnalysisWork
  <2> QED BY <1>2, <2>1, <2>2, <2>3, <2>4, <2>5 DEF Analysis!Next, Analysis!Works
<1> QED BY <1>1, <1>2

-----------------------------------------------------------------------------
(* The types of the state.  A worker computes a metric only while one is   *)
(* left: without it the metrics left could fall below 0.                   *)
AnalysisCounted ==
  /\ \A w \in AnalysisWorkers : analysisWorker[w].left \in 0 .. Metrics
  /\ \A w \in AnalysisWorkers : analysisWorker[w].does = "computes" => analysisWorker[w].left > 0
  /\ analysisCrashes \in 0 .. MaxAnalysisCrashes

LEMMA AnalysisCountedStep ==
  ASSUME Metrics \in Nat, MaxAnalysisCrashes \in Nat, AnalysisTypes, AnalysisCounted, [Analysis!Next]_(Analysis!vars)
  PROVE  AnalysisCounted'
<1>0. /\ \A w \in AnalysisWorkers : analysisWorker[w].left \in 0 .. Metrics
           /\ (analysisWorker[w].does = "computes" => analysisWorker[w].left > 0)
      /\ analysisCrashes \in 0 .. MaxAnalysisCrashes
  BY DEF AnalysisCounted
<1>1. CASE UNCHANGED <<analysisWorker, analysisCrashes>>
  BY <1>1 DEF AnalysisCounted
<1>2. ASSUME NEW w \in AnalysisWorkers, analysisCrashes' \in 0 .. MaxAnalysisCrashes,
             \A v \in AnalysisWorkers \ {w} : analysisWorker'[v] = analysisWorker[v],
             analysisWorker'[w].left \in 0 .. Metrics,
             analysisWorker'[w].does = "computes" => analysisWorker'[w].left > 0
      PROVE  AnalysisCounted'
  BY <1>0, <1>2 DEF AnalysisCounted
<1>3. ASSUME NEW w \in AnalysisWorkers, Analysis!Handle(w) PROVE AnalysisCounted'
  <2>1. analysisCrashes' = analysisCrashes
    BY <1>3 DEF Analysis!Handle, Analysis!ByWorkers
  <2>2. CASE UNCHANGED analysisWorker
    BY <1>1, <2>1, <2>2
  <2>3. CASE \E r \in Analysis!First : analysisWorker' = [analysisWorker EXCEPT ![w] = [does |-> "picked", on |-> r, left |-> Metrics]]
    <3>1. /\ analysisWorker'[w].left = Metrics /\ analysisWorker'[w].does = "picked"
          /\ \A v \in AnalysisWorkers \ {w} : analysisWorker'[v] = analysisWorker[v]
      BY <2>3 DEF AnalysisTypes
    <3> QED BY <1>0, <1>2, <2>1, <3>1
  <2> QED BY <1>3, <2>2, <2>3 DEF Analysis!Handle
<1>4. ASSUME NEW w \in AnalysisWorkers, Analysis!Leaves(w),
      analysisCrashes' \in 0 .. MaxAnalysisCrashes PROVE AnalysisCounted'
  <2>1. /\ analysisWorker'[w].left = 0 /\ analysisWorker'[w].does = "polls"
        /\ \A v \in AnalysisWorkers \ {w} : analysisWorker'[v] = analysisWorker[v]
    BY <1>4 DEF AnalysisTypes, Analysis!Leaves, Analysis!Idle
  <2> QED BY <1>2, <1>4, <2>1
<1>5. ASSUME NEW w \in AnalysisWorkers, NEW r \in AnalysisIds,
             Analysis!Claim(w, r) \/ Analysis!CheckCancel(w, r) \/ Analysis!Compute(w, r)
                   \/ Analysis!Succeed(w, r) \/ Analysis!FailRun(w, r)
      PROVE  AnalysisCounted'
  <2>1. analysisCrashes' = analysisCrashes
    BY <1>5 DEF Analysis!Claim, Analysis!CheckCancel, Analysis!Compute, Analysis!Succeed, Analysis!FailRun,
          Analysis!Same, Analysis!ByWorkers
  <2>2. CASE Analysis!Leaves(w)
    BY <1>0, <1>4, <2>1, <2>2
  <2>3. CASE Analysis!Goes(w, "checks") \/ (Analysis!Goes(w, "computes") /\ analysisWorker[w].left > 0)
    <3>1. /\ analysisWorker'[w].left = analysisWorker[w].left
          /\ (analysisWorker'[w].does = "computes" => analysisWorker[w].left > 0)
          /\ \A v \in AnalysisWorkers \ {w} : analysisWorker'[v] = analysisWorker[v]
      BY <2>3 DEF AnalysisTypes, Analysis!Goes
    <3> QED BY <1>0, <1>2, <2>1, <3>1
  <2>4. CASE Analysis!Compute(w, r)
    <3>1. analysisWorker[w].left > 0 /\ analysisWorker[w].left \in 0 .. Metrics
      BY <1>0, <2>4 DEF Analysis!Compute, Analysis!On
    <3>2. /\ analysisWorker'[w].left = analysisWorker[w].left - 1 /\ analysisWorker'[w].does = "checks"
          /\ \A v \in AnalysisWorkers \ {w} : analysisWorker'[v] = analysisWorker[v]
      BY <2>4 DEF AnalysisTypes, Analysis!Compute
    <3> QED BY <1>0, <1>2, <2>1, <3>1, <3>2
  <2> QED BY <1>5, <2>2, <2>3, <2>4 DEF Analysis!Claim, Analysis!CheckCancel, Analysis!Succeed,
        Analysis!FailRun, Analysis!Leaves
<1>6. ASSUME NEW w \in AnalysisWorkers, Analysis!Crash(w) PROVE AnalysisCounted'
  <2>1. analysisCrashes < MaxAnalysisCrashes /\ analysisCrashes' = analysisCrashes + 1 /\ Analysis!Leaves(w)
    BY <1>6 DEF Analysis!Crash, Analysis!Leaves
  <2> QED BY <1>0, <1>4, <2>1
<1>7. CASE Analysis!Next
  <2>1. CASE \E r \in AnalysisIds : Analysis!QueueRun(r) \/ Analysis!Create(r) \/ Analysis!LoadCancel(r)
        \/ Analysis!Lapse(r)
    BY <1>1, <2>1 DEF Analysis!QueueRun, Analysis!Create, Analysis!LoadCancel, Analysis!Lapse,
          Analysis!ByRequests, Analysis!ByWorkers
  <2>2. CASE \E c \in analysisCancelling : Analysis!SaveCancel(c)
    BY <1>1, <2>2 DEF Analysis!SaveCancel, Analysis!ByRequests
  <2> QED BY <1>3, <1>5, <1>6, <1>7, <2>1, <2>2 DEF Analysis!Next, Analysis!Works
<1> QED BY <1>1, <1>7 DEF Analysis!vars

LEMMA AnalysisInitCounted == ASSUME Analysis!Init, Metrics \in Nat,
      MaxAnalysisCrashes \in Nat PROVE AnalysisCounted
BY DEF Analysis!Init, AnalysisCounted, Analysis!Idle

LEMMA AnalysisTypesCorrect == ASSUME AnalysisTypes, AnalysisCounted PROVE Analysis!TypeOK
BY DEF AnalysisTypes, AnalysisCounted, Analysis!TypeOK, AnalysisRecord, AnalysisDoings
-----------------------------------------------------------------------------
(* The studio.                                                             *)

AnalysisInv == AnalysisRunsInv /\ AnalysisCounted
QueueInv == Queue!IInv /\ Queue!TypeOK /\ Queue!Waits
Pages == {"queue", "screens", "workspace", "cache", "demo", "export", "analysis"}
StudioInv ==
  /\ here \in Pages
  /\ here = "queue" => QueueInv
  /\ here = "screens" => ScreensInv
  /\ here = "workspace" => WorkspaceInv
  /\ here = "cache" => CacheInv
  /\ here = "demo" => DemoInv
  /\ here = "analysis" => AnalysisInv

LEMMA StudioInit ==
  ASSUME Init
  PROVE  StudioInv
<1> USE DEF Pages
<1>1. CASE here = "queue" /\ Queue!Init
  <2>1. QueueInv
    BY <1>1, Queue!InitIInv, Queue!InitTyped, BoundsAssumption, NoneAssumption DEF QueueInv, Queue!Bounds
  <2> QED BY <1>1, <2>1 DEF StudioInv
<1>2. CASE here = "screens" /\ Screens!ScreenInit
  BY <1>2, ScreensInit DEF StudioInv
<1>3. CASE here = "workspace" /\ Workspace!Init
  BY <1>3, WorkspaceInit DEF StudioInv
<1>4. CASE here = "cache" /\ Cache!Init
  BY <1>4, CacheInit DEF StudioInv
<1>5. CASE here = "demo" /\ Demo!Init
  BY <1>5, DemoInit DEF StudioInv
<1>6. CASE here = "export"
  BY <1>6 DEF StudioInv
<1>7. CASE here = "analysis" /\ Analysis!Init
  <2>1. AnalysisInv
    BY <1>7, AnalysisInit, AnalysisInitCounted, BoundsAssumption DEF AnalysisInv
  <2> QED BY <1>7, <2>1 DEF StudioInv
<1> QED BY <1>1, <1>2, <1>3, <1>4, <1>5, <1>6, <1>7 DEF Init

\* A step of the studio is a step of the page that is there, or none.
LEMMA PageSteps ==
  ASSUME [Next]_vars, here \in Pages
  PROVE  /\ here' = here
         /\ here = "queue" => [Queue!Next]_(Queue!vars)
         /\ here = "screens" => Screens!ScreenNext \/ UNCHANGED screensVars
         /\ here = "workspace" => Workspace!Next \/ UNCHANGED workspaceVars
         /\ here = "cache" => Cache!Next \/ UNCHANGED cacheVars
         /\ here = "demo" => Demo!Next \/ UNCHANGED demoVars
         /\ here = "analysis" => [Analysis!Next]_(Analysis!vars)
<1>1. CASE UNCHANGED vars
  BY <1>1 DEF vars, queueVars, screensVars, workspaceVars, cacheVars, demoVars, analysisVars, Queue!vars, Analysis!vars
<1>2. CASE Next
  BY <1>2 DEF Next, QueueNext, ScreensNext, WorkspaceNext, CacheNext, DemoNext, ExportNext, AnalysisNext
<1> QED BY <1>1, <1>2

LEMMA StudioStep ==
  ASSUME StudioInv, [Next]_vars
  PROVE  StudioInv'
<1>0. here \in Pages /\ here' = here
  BY PageSteps DEF StudioInv
<1>1. CASE here = "queue"
  <2>1. QueueInv'
    BY <1>0, <1>1, PageSteps, Queue!NextStep, Queue!TypedStep, BoundsAssumption, NoneAssumption
       DEF StudioInv, QueueInv, Queue!Bounds
  <2> QED BY <1>0, <1>1, <2>1 DEF StudioInv
<1>2. CASE here = "screens"
  <2>1. Screens!ScreenNext \/ UNCHANGED screensVars
    BY <1>0, <1>2, PageSteps
  <2>2. CASE Screens!ScreenNext
    BY <1>0, <1>2, <2>2, ScreensStep, LabAssumption DEF StudioInv, Screens!ACTIVE, Screens!TERMINAL
  <2>3. CASE UNCHANGED screensVars
    <3>1. ScreensInv'
      BY <1>2, <2>3 DEF StudioInv, screensVars, ScreensInv, Informed, CancelsOnce, HasResults, Snapshots, Requests
    <3> QED BY <1>0, <1>2, <3>1 DEF StudioInv
  <2> QED BY <2>1, <2>2, <2>3
<1>3. CASE here = "workspace"
  <2>1. Workspace!Next \/ UNCHANGED workspaceVars
    BY <1>0, <1>3, PageSteps
  <2>2. CASE Workspace!Next
    BY <1>0, <1>3, <2>2, WorkspaceStep DEF StudioInv
  <2>3. CASE UNCHANGED workspaceVars
    <3>1. UNCHANGED <<server, cached, workspaceAsked, store, prefill, dialog, stage, calls, strays, moves>>
      BY <2>3 DEF workspaceVars
    <3>2. PageTypes' /\ Publications'
      BY <1>3, <3>1 DEF StudioInv, WorkspaceInv, PageTypes, Publications, Underway, Workspace!Idle
    <3>3. ReadOnlyAsHeld'
      BY <1>3, <3>1 DEF StudioInv, WorkspaceInv, ReadOnlyAsHeld, Workspace!Known, Workspace!IsMine, Workspace!Locked
    <3> QED BY <1>0, <1>3, <3>2, <3>3 DEF StudioInv, WorkspaceInv
  <2> QED BY <2>1, <2>2, <2>3
<1>4. CASE here = "cache"
  <2>1. Cache!Next \/ UNCHANGED cacheVars
    BY <1>0, <1>4, PageSteps
  <2>2. CASE Cache!Next
    BY <1>0, <1>4, <2>2, CacheStep DEF StudioInv
  <2>3. CASE UNCHANGED cacheVars
    <3>1. CacheInv'
      BY <1>4, <2>3 DEF StudioInv, cacheVars, CacheInv, CacheTypes, ClockBounded, Unserved, Dated, Promised,
         Cache!Followed, Cache!PageShowsOwnWrites
    <3> QED BY <1>0, <1>4, <3>1 DEF StudioInv
  <2> QED BY <2>1, <2>2, <2>3
<1>5. CASE here = "demo"
  <2>1. Demo!Next \/ UNCHANGED demoVars
    BY <1>0, <1>5, PageSteps
  <2>2. CASE Demo!Next
    BY <1>0, <1>5, <2>2, DemoStep DEF StudioInv
  <2>3. CASE UNCHANGED demoVars
    <3>1. DemoInv'
      BY <1>5, <2>3 DEF StudioInv, demoVars, DemoInv, DemoTypes, Places, NoneTwice, ThreadsBounded, Served, Token,
         Own, OfLast, Demo!Busy, Demo!NamedFileIsRead
    <3> QED BY <1>0, <1>5, <3>1 DEF StudioInv
  <2> QED BY <2>1, <2>2, <2>3
<1>6. CASE here = "export"
  BY <1>0, <1>6 DEF StudioInv
<1>7. CASE here = "analysis"
  <2>1. AnalysisInv'
    BY <1>0, <1>7, PageSteps, AnalysisStep, AnalysisCountedStep, BoundsAssumption
       DEF StudioInv, AnalysisInv, AnalysisRunsInv
  <2> QED BY <1>0, <1>7, <2>1 DEF StudioInv
<1> QED BY <1>0, <1>1, <1>2, <1>3, <1>4, <1>5, <1>6, <1>7 DEF Pages

LEMMA StudioInvariance == Spec => []StudioInv
<1>1. Init => StudioInv
  BY StudioInit
<1>2. StudioInv /\ [Next]_vars => StudioInv'
  BY StudioStep
<1> QED BY <1>1, <1>2, PTL DEF Spec

\* A view that shows data as valid, and no error, shows every write the page was told had
\* succeeded, whatever is fetched, fails or is written elsewhere meanwhile (lib/api/hooks.ts).
THEOREM OwnWritesShown == Spec => []PageShowsOwnWrites
<1>1. StudioInv => PageShowsOwnWrites
  BY CacheSound DEF StudioInv, PageShowsOwnWrites
<1> QED BY <1>1, StudioInvariance, PTL

\* Nothing is done twice at once and nothing that can be done waits: one cancellation of a
\* run, one publication, one worker on an analysis, no classification without a thread.
THEOREM EachInTurn == Spec => []TurnsAreKept
<1>1. StudioInv => TurnsAreKept
  <2> SUFFICES ASSUME StudioInv PROVE TurnsAreKept
    OBVIOUS
  <2>1. here = "analysis" => Analysis!OneWorkerComputes /\ Analysis!TypeOK
    BY AnalysisTypesCorrect DEF StudioInv, AnalysisInv, AnalysisRunsInv
  <2> QED BY <2>1, ScreensSound, WorkspaceSound, DemoSound DEF StudioInv, QueueInv, TurnsAreKept
<1> QED BY <1>1, StudioInvariance, PTL

\* What a page says of what stands behind it is so: the banner, the comparison, the result
\* of a classification, the name of a file.
THEOREM PagesTellTheTruth == Spec => []ShownIsTrue
<1>1. StudioInv => ShownIsTrue
  BY ScreensSound, WorkspaceSound, CacheSound, DemoSound DEF StudioInv, ShownIsTrue
<1> QED BY <1>1, StudioInvariance, PTL

\* The prefilling of the toolbar replaces the clauses made by hand only after its
\* confirmation (WorkspaceToolbar.tsx, requestPrefill).
THEOREM HandWorkSafe == Spec => HandWorkIsConfirmed
<1>1. StudioInv /\ [Next]_vars => [here = "workspace" => Workspace!HandWorkIsConfirmed]_vars
  <2> SUFFICES ASSUME StudioInv, [Next]_vars, here = "workspace" PROVE Workspace!HandWorkIsConfirmed \/ UNCHANGED vars
    OBVIOUS
  <2>1. WorkspaceInv /\ (Workspace!Next \/ UNCHANGED vars)
    BY DEF StudioInv, Next, QueueNext, ScreensNext, WorkspaceNext, CacheNext, DemoNext, ExportNext, AnalysisNext
  <2> QED BY <2>1, HandWorkKept
<1> QED BY <1>1, StudioInvariance, PTL DEF Spec, HandWorkIsConfirmed

\* The workers of the Lab make a run go only through the life RunLife gives it, which is
\* the one its screens are shown (worker.py, services.py).
THEOREM WorkersKeepTheLife == Spec => LifeSpec
<1>1. StudioInv /\ [Next]_vars => [here = "queue" => [Queue!Life!Next]_<<Queue!life, usurped, admitted>>]_vars
  <2> SUFFICES ASSUME StudioInv, [Next]_vars, here = "queue" PROVE [Queue!Life!Next]_<<Queue!life, usurped, admitted>>
    OBVIOUS
  <2>1. Queue!IInv /\ [Queue!Next]_(Queue!vars) /\ None \notin LabRuns
    BY PageSteps, NoneAssumption DEF StudioInv, QueueInv
  <2> QED BY <2>1, Queue!NextStep
<1> QED BY <1>1, StudioInvariance, PTL DEF Spec, LifeSpec
=============================================================================
