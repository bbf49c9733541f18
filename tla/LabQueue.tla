------------------------------ MODULE LabQueue ------------------------------
(***************************************************************************)
(* The queue of the Lab and its workers (backend/claire/lab/services.py,   *)
(* worker.py, runners/local.py).  A worker keeps a run from its claim to   *)
(* its verdict and writes the status column without looking at it; a run   *)
(* without a heartbeat is claimed again, although its worker may only be   *)
(* slow.                                                                   *)
(***************************************************************************)
EXTENDS Naturals, FiniteSets, TLAPS

CONSTANTS Runs, Workers, None,
          Remote,       \* the runs computed on the grid; the others are local
          MaxAttempts,  \* attempts before an abandoned run is failed
          MaxCrashes    \* bound on the workers that die

VARIABLES run, worker,
          admitted,   \* runs whose cancellation has passed its test
          usurped, crashes
vars == <<run, worker, admitted, usurped, crashes>>

ACTIVE == {"queued", "waiting", "running"}
LIVE == {"waiting", "running"}
TERMINAL == {"succeeded", "partial", "failed", "cancelled"}
Phases == {"submit", "wait", "fetch", "ingest"}

-----------------------------------------------------------------------------
NewRun == [status |-> "absent", cancel |-> FALSE, attempt |-> 0, beat |-> None]
With(r, status) == [run EXCEPT ![r].status = status]
Keep == UNCHANGED <<admitted, usurped, crashes>>

\* One experiment: identical runs are refused unless forced (or configured otherwise).
Duplicate == \E r \in Runs : run[r].status \in {"succeeded", "running", "queued"}
QueueRun(r, force) ==
  /\ run[r].status = "absent"
  /\ force \/ ~Duplicate
  /\ run' = With(r, "queued")
  /\ UNCHANGED worker /\ Keep

\* 409 for a finished run; a partial one still takes the flag. The test is made on the
\* copy the view has loaded ...
LoadCancel(r) ==
  /\ run[r].status \notin {"absent", "succeeded", "failed", "cancelled"}
  /\ r \notin admitted /\ admitted' = admitted \cup {r}
  /\ UNCHANGED <<run, worker, usurped, crashes>>
\* ... and the flag saved after, without a lock, whatever the run has become. Nothing takes
\* it back: the saves of other requests change nothing.
CancelRun(r) ==
  /\ r \in admitted /\ ~run[r].cancel
  /\ run' = [run EXCEPT ![r].cancel = TRUE]
  /\ UNCHANGED worker /\ Keep

\* A heartbeat older than the timeout. A worker that waits for the grid beats at each
\* turn; a submission, a transfer or one long fold may outlast the timeout.
Lapse(r) ==
  /\ run[r].beat = "fresh"
  /\ run[r].status \in LIVE
  /\ ~\E w \in Workers : worker[w] = [run |-> r, phase |-> "wait"]
  /\ run' = [run EXCEPT ![r].beat = "stale"]
  /\ UNCHANGED worker /\ Keep

RunningZombies == {r \in Runs : run[r].status = "running" /\ run[r].beat = "stale"}
Zombies == {r \in Runs : run[r].status \in LIVE /\ run[r].beat = "stale"}
Reclaimed(z) ==
  IF z = None THEN run
  ELSE IF run[z].attempt >= MaxAttempts THEN With(z, "failed")
  ELSE [run EXCEPT ![z].status = "queued", ![z].beat = None]
Taken(rs, r) == [rs EXCEPT ![r].status = "running", ![r].attempt = @ + 1, ![r].beat = "fresh"]
Idle == [run |-> None, phase |-> None]

\* claim_next_run: one zombie is put back or failed, then one queued run is taken.
ClaimNextRun(w) ==
  /\ worker[w] = Idle
  /\ \E z \in IF Zombies = {} THEN {None} ELSE Zombies :
       LET after == Reclaimed(z)
           queue == {r \in Runs : after[r].status = "queued"}
       IN /\ usurped' = usurped \cup {r \in {z} \ {None} : \E v \in Workers : worker[v].run = r}
          /\ \/ queue = {} /\ z # None /\ run' = after /\ UNCHANGED worker
             \/ \E r \in queue :
                  /\ run' = Taken(after, r)
                  /\ worker' = [worker EXCEPT ![w] = [run |-> r, phase |-> "submit"]]
  /\ UNCHANGED <<admitted, crashes>>

-----------------------------------------------------------------------------
(* A worker on its run.                                                    *)
On(w, r, phase) == worker[w] = [run |-> r, phase |-> phase]
Goes(w, phase) == worker' = [worker EXCEPT ![w].phase = phase]
Leaves(w) == worker' = [worker EXCEPT ![w] = Idle]
Beats(r) == [run EXCEPT ![r].beat = "fresh"]

\* The grid takes the job; the local process runs, beats at each fold, and stops.
Submit(w, r) ==
  /\ On(w, r, "submit") /\ r \in Remote
  /\ run' = With(r, "waiting") /\ Goes(w, "wait") /\ Keep
Fold(w, r) ==
  /\ On(w, r, "submit") /\ r \notin Remote
  /\ run' = Beats(r) /\ UNCHANGED worker /\ Keep
Computed(w, r) ==
  /\ On(w, r, "submit") /\ r \notin Remote
  /\ UNCHANGED run /\ Goes(w, "fetch") /\ Keep

\* A failed submission, an unreachable grid, a deadline, a transfer that fails, a result
\* that does not validate.
FailRun(w, r) ==
  /\ \E phase \in Phases : On(w, r, phase)
  /\ run' = With(r, "failed") /\ Leaves(w) /\ Keep

\* _wait_remote: the flag is read again at each turn.
WaitCancelledOn(w, r) ==
  /\ On(w, r, "wait") /\ run[r].cancel
  /\ run' = With(r, "cancelled") /\ Goes(w, "fetch") /\ Keep
WaitCancelled(w, r) ==
  /\ On(w, r, "wait") /\ run[r].cancel
  /\ run' = With(r, "cancelled") /\ Leaves(w) /\ Keep
WaitRemote(w, r) ==
  /\ On(w, r, "wait") /\ ~run[r].cancel
  /\ \E status \in {run[r].status, "running"} : run' = [Beats(r) EXCEPT ![r].status = status]
  /\ UNCHANGED worker /\ Keep
Stopped(w, r) ==
  /\ On(w, r, "wait") /\ ~run[r].cancel
  /\ Goes(w, "fetch") /\ UNCHANGED run /\ Keep

\* ... and once more between the transfer and the ingestion.
Fetched(w, r) ==
  /\ On(w, r, "fetch")
  /\ IF run[r].cancel THEN run' = With(r, "cancelled") /\ Leaves(w)
                      ELSE UNCHANGED run /\ Goes(w, "ingest")
  /\ Keep
IngestResults(w, r) ==
  /\ On(w, r, "ingest")
  /\ \E status \in {"succeeded", "partial"} : run' = With(r, status)
  /\ Leaves(w) /\ Keep

Crash(w) ==
  /\ worker[w] # Idle /\ crashes < MaxCrashes
  /\ crashes' = crashes + 1 /\ Leaves(w)
  /\ UNCHANGED <<run, admitted, usurped>>

-----------------------------------------------------------------------------
Init ==
  /\ run \in [Runs -> {NewRun, [NewRun EXCEPT !.status = "queued"]}]
  /\ worker = [w \in Workers |-> Idle] /\ admitted = {} /\ usurped = {} /\ crashes = 0

\* What a worker does in the end: a wait and a local computation have deadlines.
Ends(w) == \/ ClaimNextRun(w)
           \/ \E r \in Runs : \/ Submit(w, r) \/ Computed(w, r) \/ FailRun(w, r) \/ WaitCancelled(w, r)
                              \/ Stopped(w, r) \/ Fetched(w, r) \/ IngestResults(w, r)
Goes_on(w) == \E r \in Runs : Fold(w, r) \/ WaitRemote(w, r)
Next ==
  \/ \E w \in Workers : Ends(w) \/ Goes_on(w) \/ Crash(w)
  \/ \E r \in Runs : Lapse(r) \/ LoadCancel(r) \/ CancelRun(r) \/ \E force \in BOOLEAN : QueueRun(r, force)
Spec == Init /\ [][Next]_vars
Fairness == (\A w \in Workers : WF_vars(Ends(w))) /\ (\A r \in Runs : WF_vars(Lapse(r)))
FairSpec == Spec /\ Fairness

-----------------------------------------------------------------------------
TypeOK ==
  /\ run \in [Runs -> [status: ACTIVE \cup TERMINAL \cup {"absent"}, cancel: BOOLEAN,
                       attempt: 0 .. MaxAttempts, beat: {None, "fresh", "stale"}]]
  /\ worker \in [Workers -> [run: Runs, phase: Phases] \cup {Idle}]
  /\ admitted \subseteq Runs /\ usurped \subseteq Runs /\ crashes \in 0 .. MaxCrashes

\* The queue implements the life of a run: in particular a verdict is final unless the
\* run was taken from a worker that was still at it (worker.py, execute_run), and the flag
\* reaches an ended run only from a request that had found it unfinished.
life == [r \in Runs |-> [status |-> run[r].status, cancel |-> run[r].cancel]]
Life == INSTANCE RunLife WITH Stages <- ACTIVE, Verdicts <- TERMINAL, contested <- usurped,
  accepted <- admitted
LifeSpec == Life!Spec

\* Every run comes to an end, whatever workers crash (services.py:184-192: a run left by
\* its worker is taken again), unless two workers contested it: a slow one may then write
\* « waiting » on a run that has no heartbeat, and die.
EveryRunEnds == \A r \in Runs : run[r].status \in ACTIVE ~> (run[r].status \in TERMINAL \/ r \in usurped)

-----------------------------------------------------------------------------
(* The proof, for any runs, workers, number of attempts and bound on the    *)
(* crashes, that the queue implements the life of a run.                    *)

Statuses == ACTIVE \cup TERMINAL \cup {"absent"}
Record == [status : Statuses, cancel : BOOLEAN, attempt : Nat, beat : {None, "fresh", "stale"}]

Types ==
  /\ run \in [Runs -> Record]
  /\ worker \in [Workers -> [run : Runs \cup {None}, phase : Phases \cup {None}]]
  /\ usurped \subseteq Runs

\* What a worker relies on when it writes the status without looking at it: the run it has
\* is live, and its own, unless it was taken from it.
Held ==
  \A w \in Workers, r \in Runs :
    worker[w].run = r => run[r].status # "absent" /\ (r \notin usurped => run[r].status \in LIVE)
Alone ==
  \A v, w \in Workers, r \in Runs : worker[v].run = r /\ worker[w].run = r /\ v # w => r \in usurped
\* A run that is not there has nothing to cancel.
Blank == \A r \in Runs : run[r].status = "absent" => run[r].cancel = FALSE /\ r \notin admitted

IInv == Types /\ Held /\ Alone /\ Blank

-----------------------------------------------------------------------------
LEMMA InitIInv == ASSUME Init, None \notin Runs PROVE IInv
<1> USE DEF Record, Statuses, ACTIVE, TERMINAL
<1>1. NewRun \in Record /\ [NewRun EXCEPT !.status = "queued"] \in Record
  BY DEF NewRun
<1>2. \A w \in Workers : worker[w] = Idle
  BY DEF Init
<1>3. Types
  BY <1>1 DEF Init, Types, Idle
<1>4. Held /\ Alone
  BY <1>2 DEF Held, Alone, Idle
<1>5. Blank
  BY DEF Init, Blank, NewRun
<1> QED BY <1>3, <1>4, <1>5 DEF IInv

\* One run whose status changes changes its life so.
LEMMA OneStatus ==
  ASSUME Types, NEW r \in Runs, NEW s \in Statuses, run' \in [Runs -> Record],
         run'[r].status = s, run'[r].cancel = run[r].cancel,
         \A q \in Runs \ {r} : run'[q].status = run[q].status /\ run'[q].cancel = run[q].cancel
  PROVE  life' = [life EXCEPT ![r].status = s]
<1> DEFINE new == [life EXCEPT ![r].status = s]
<1>1. \A q \in Runs : life'[q] = new[q]
  BY DEF life, Types, Record
<1>2. life' = [q \in Runs |-> life'[q]] /\ new = [q \in Runs |-> new[q]]
  BY DEF life
<1> QED BY <1>1, <1>2

-----------------------------------------------------------------------------
(* The requests and the clock.                                             *)
LEMMA RequestStep ==
  ASSUME IInv, NEW r \in Runs, Lapse(r) \/ LoadCancel(r) \/ CancelRun(r) \/ \E force \in BOOLEAN : QueueRun(r, force)
  PROVE  IInv' /\ (Life!Next \/ (UNCHANGED <<life, usurped, admitted>>))
<1> USE DEF IInv, Types, Record, Statuses, ACTIVE, TERMINAL
<1>0. UNCHANGED <<worker, usurped>>
  BY DEF Lapse, LoadCancel, CancelRun, QueueRun, Keep
<1>1. CASE Lapse(r)
  <2>1. run' = [run EXCEPT ![r].beat = "stale"]
    BY <1>1 DEF Lapse
  <2>2. Types' /\ \A q \in Runs : run'[q].status = run[q].status /\ run'[q].cancel = run[q].cancel
    BY <2>1, <1>0
  <2>3. UNCHANGED life
    BY <2>2 DEF life
  <2>4. UNCHANGED admitted
    BY <1>1 DEF Lapse, Keep
  <2> QED BY <2>2, <2>3, <2>4, <1>0 DEF Held, Alone, Blank
<1>2. CASE CancelRun(r)
  <2>1. run' = [run EXCEPT ![r].cancel = TRUE]
    BY <1>2 DEF CancelRun
  <2>2. Types' /\ \A q \in Runs : run'[q].status = run[q].status
    BY <2>1, <1>0
  <2>3. life' = [life EXCEPT ![r].cancel = TRUE]
    BY <2>1 DEF life
  <2>4. UNCHANGED admitted /\ r \in admitted
    BY <1>2 DEF CancelRun, Keep
  <2>5. Life!Flagged(r)
    BY <2>3, <2>4, <1>0 DEF Life!Flagged
  <2> QED BY <2>1, <2>2, <2>4, <2>5, <1>0 DEF Held, Alone, Blank, Life!Next
<1>3. CASE \E force \in BOOLEAN : QueueRun(r, force)
  <2>1. run[r].status = "absent" /\ run' = With(r, "queued")
    BY <1>3 DEF QueueRun
  <2>2. Types' /\ \A q \in Runs \ {r} : run'[q] = run[q]
    BY <2>1, <1>0 DEF With
  <2>3. Held' /\ Alone'
    BY <2>1, <2>2, <1>0 DEF Held, Alone, Blank, LIVE
  <2>4. run'[r].status = "queued" /\ run'[r].cancel = run[r].cancel
    BY <2>1 DEF With
  <2>5. life' = [life EXCEPT ![r].status = "queued"]
    BY <2>2, <2>4, OneStatus
  <2>6. life[r] = Life!Absent
    BY <2>1 DEF Blank, life, Life!Absent
  <2>7. Life!Launched(r)
    <3>1. UNCHANGED admitted
      BY <1>3 DEF QueueRun, Keep
    <3> QED BY <3>1, <2>5, <2>6, <1>0 DEF Life!Launched, Life!Absent, life
  <2>8. Life!Next
    BY <2>7 DEF Life!Next
  <2>9. Blank'
    <3>1. UNCHANGED admitted
      BY <1>3 DEF QueueRun, Keep
    <3> QED BY <3>1, <2>2, <2>4, <2>1 DEF Blank
  <2> QED BY <2>2, <2>3, <2>8, <2>9
<1>4. CASE LoadCancel(r)
  <2>1. UNCHANGED <<run, life>> /\ admitted' = admitted \cup {r} /\ run[r].status # "absent"
    BY <1>4 DEF LoadCancel, life
  <2>2. Life!Accepted(r)
    BY <2>1, <1>0, <1>4 DEF Life!Accepted, LoadCancel, life
  <2> QED BY <2>1, <2>2, <1>0 DEF Held, Alone, Blank, Life!Next
<1> QED BY <1>1, <1>2, <1>3, <1>4

-----------------------------------------------------------------------------
(* The claim.                                                              *)
LEMMA ClaimStep ==
  ASSUME IInv, None \notin Runs, NEW w \in Workers, ClaimNextRun(w)
  PROVE  IInv' /\ (Life!Next \/ UNCHANGED <<life, usurped, admitted>>)
<1> USE DEF IInv, Types, Record, Statuses, ACTIVE, TERMINAL, LIVE
<1>1. PICK z \in IF Zombies = {} THEN {None} ELSE Zombies :
        LET after == Reclaimed(z)
            queue == {r \in Runs : after[r].status = "queued"}
        IN /\ usurped' = usurped \cup {r \in {z} \ {None} : \E v \in Workers : worker[v].run = r}
           /\ \/ queue = {} /\ z # None /\ run' = after /\ UNCHANGED worker
              \/ \E r \in queue :
                   /\ run' = Taken(after, r)
                   /\ worker' = [worker EXCEPT ![w] = [run |-> r, phase |-> "submit"]]
  BY DEF ClaimNextRun
<1> DEFINE after == Reclaimed(z)
<1>2. worker[w].run = None /\ UNCHANGED admitted
  BY DEF ClaimNextRun, Idle
<1>3. z = None \/ (z \in Runs /\ run[z].status \in LIVE)
  BY <1>1 DEF Zombies
<1>4. /\ after \in [Runs -> Record]
      /\ z = None => after = run
      /\ z # None => after[z].status \in {"queued", "failed"}
      /\ \A q \in Runs : q # z => after[q] = run[q]
      /\ \A q \in Runs : after[q].cancel = run[q].cancel
  BY <1>3 DEF Reclaimed, With
<1>5. /\ usurped' \subseteq Runs /\ usurped \subseteq usurped'
      /\ \A v \in Workers : z # None /\ worker[v].run = z => z \in usurped'
      /\ z = None => usurped' = usurped
      /\ z # None => usurped' \in {usurped, usurped \cup {z}}
  BY <1>1, <1>3
<1> HIDE DEF after
<1>6. CASE z # None /\ run' = after /\ UNCHANGED worker
  <2>1. Types' /\ Held' /\ Alone' /\ Blank'
    BY <1>2, <1>3, <1>4, <1>5, <1>6 DEF Held, Alone, Blank
  <2>2. life' = [life EXCEPT ![z].status = after[z].status]
    BY <1>3, <1>4, <1>6, OneStatus
  <2>3. Life!Progresses(z)
    BY <2>2, <1>2, <1>3, <1>4, <1>5, <1>6 DEF Life!Progresses, life
  <2>4. Life!Next
    BY <2>3, <1>3, <1>6 DEF Life!Next
  <2> QED BY <2>1, <2>4
<1>7. ASSUME NEW r \in Runs, after[r].status = "queued", run' = Taken(after, r),
             worker' = [worker EXCEPT ![w] = [run |-> r, phase |-> "submit"]]
      PROVE  IInv' /\ Life!Next
  <2>1. /\ run' \in [Runs -> Record] /\ run'[r].status = "running"
        /\ \A q \in Runs \ {r} : run'[q] = after[q]
        /\ \A q \in Runs : run'[q].cancel = after[q].cancel
    BY <1>4, <1>7 DEF Taken
  <2>2. Types'
    BY <2>1, <1>5, <1>7 DEF Phases
  <2>3. r = z \/ run[r].status = "queued"
    BY <1>3, <1>4, <1>7
  <2>4. \A v \in Workers : worker[v].run = r => r \in usurped'
    BY <2>3, <1>3, <1>5 DEF Held
  <2>5. Held'
    <3> SUFFICES ASSUME NEW v \in Workers, NEW q \in Runs, worker'[v].run = q
                 PROVE  run'[q].status # "absent" /\ (q \notin usurped' => run'[q].status \in LIVE)
      BY DEF Held
    <3>1. CASE q = r
      BY <3>1, <2>1
    <3>2. CASE q # r
      <4>1. worker[v].run = q
        BY <3>2, <1>2, <1>7
      <4>2. CASE q = z
        BY <4>1, <4>2, <3>2, <2>1, <1>4, <1>5
      <4>3. CASE q # z
        BY <4>1, <4>3, <3>2, <2>1, <1>4, <1>5 DEF Held
      <4> QED BY <4>2, <4>3
    <3> QED BY <3>1, <3>2
  <2>6. Alone'
    BY <2>4, <1>5, <1>7 DEF Alone
  <2>7. Blank'
    BY <2>1, <1>2, <1>3, <1>4 DEF Blank
  <2>8. CASE z = None
    <3>1. life' = [life EXCEPT ![r].status = "running"]
      BY <2>1, <2>8, <1>4, OneStatus
    <3>2. Life!Progresses(r)
      BY <3>1, <2>3, <2>8, <1>2, <1>3, <1>5 DEF Life!Progresses, life
    <3>3. Life!Next
      BY <3>2 DEF Life!Next
    <3> QED BY <3>3, <2>2, <2>5, <2>6, <2>7
  <2>9. CASE z # None
    <3>1. life' = [life EXCEPT ![z].status = after[z].status, ![r].status = "running"]
      <4> DEFINE mid == [q \in Runs |-> [status |-> after[q].status, cancel |-> after[q].cancel]]
                 new == [mid EXCEPT ![r].status = "running"]
      <4>0. mid = [life EXCEPT ![z].status = after[z].status]
        <5> DEFINE put == [life EXCEPT ![z].status = after[z].status]
        <5>1. \A q \in Runs : mid[q] = put[q]
          BY <2>9, <1>3, <1>4 DEF life
        <5>2. mid = [q \in Runs |-> mid[q]] /\ put = [q \in Runs |-> put[q]]
          BY DEF life
        <5> QED BY <5>1, <5>2
      <4>1. \A q \in Runs : life'[q] = new[q]
        BY <2>1 DEF life
      <4>2. life' = [q \in Runs |-> life'[q]] /\ new = [q \in Runs |-> new[q]]
        BY DEF life
      <4>3. life' = new
        BY <4>1, <4>2
      <4> QED BY <4>3, <4>0
    <3>2. Life!Claimed(r, z)
      BY <3>1, <2>3, <2>9, <1>2, <1>3, <1>4, <1>5 DEF Life!Claimed, life
    <3>3. Life!Next
      BY <3>2, <2>9, <1>3 DEF Life!Next
    <3> QED BY <3>3, <2>2, <2>5, <2>6, <2>7
  <2> QED BY <2>8, <2>9
<1> QED BY <1>1, <1>6, <1>7 DEF after

-----------------------------------------------------------------------------
(* A worker on its run.                                                    *)
Writes(w, r, status) ==
  /\ worker[w].run = r /\ UNCHANGED <<usurped, admitted>>
  /\ run' \in [Runs -> Record]
  /\ run'[r].status = status /\ run'[r].cancel = run[r].cancel
  /\ \A q \in Runs \ {r} : run'[q] = run[q]
Stays(w) ==
  \E phase \in Phases : worker' = [worker EXCEPT ![w].phase = phase]
Kept(w, r, status) ==
  /\ status \in LIVE \/ status = run[r].status
  /\ Stays(w) \/ UNCHANGED worker

\* Whatever a worker writes of its run before it leaves it, and the live statuses it
\* writes while it stays.
LEMMA WriteStep ==
  ASSUME IInv, None \notin Runs, NEW w \in Workers, NEW r \in Runs, NEW status \in ACTIVE \cup TERMINAL,
         Writes(w, r, status), Leaves(w) \/ Kept(w, r, status)
  PROVE  IInv' /\ (Life!Next \/ UNCHANGED <<life, usurped, admitted>>)
<1> USE DEF IInv, Types, Record, Statuses, ACTIVE, TERMINAL, LIVE
<1>1. /\ worker' \in [Workers -> [run : Runs \cup {None}, phase : Phases \cup {None}]]
      /\ \A v \in Workers \ {w} : worker'[v] = worker[v]
      /\ worker'[w].run \in {None, r}
      /\ worker'[w].run = r => status \in LIVE \/ status = run[r].status
  BY DEF Leaves, Idle, Kept, Stays, Writes
<1>2. Types'
  BY <1>1 DEF Writes
<1>3. Held'
  <2> SUFFICES ASSUME NEW v \in Workers, NEW q \in Runs, worker'[v].run = q
               PROVE  run'[q].status # "absent" /\ (q \notin usurped' => run'[q].status \in LIVE)
    BY DEF Held
  <2>1. CASE q # r
    BY <2>1, <1>1 DEF Held, Writes
  <2>2. CASE q = r /\ v = w
    BY <2>2, <1>1 DEF Held, Writes
  <2>3. CASE q = r /\ v # w
    BY <2>3, <1>1 DEF Alone, Writes
  <2> QED BY <2>1, <2>2, <2>3
<1>4. Alone'
  BY <1>1 DEF Alone, Writes
<1>5. Blank'
  BY <1>2 DEF Blank, Writes
<1>6. life' = [life EXCEPT ![r].status = status]
  BY OneStatus DEF Writes
<1>7. CASE run[r].status = status
  <2>1. UNCHANGED life
    BY <1>6, <1>7 DEF life
  <2> QED BY <2>1, <1>2, <1>3, <1>4, <1>5 DEF Writes
<1>8. CASE run[r].status # status
  <2>1. run[r].status \in ACTIVE \/ (r \in usurped /\ run[r].status \in TERMINAL)
    BY DEF Held, Writes
  <2>2. Life!Progresses(r)
    BY <2>1, <1>6 DEF Life!Progresses, life, Writes
  <2>3. Life!Next
    BY <2>2 DEF Life!Next
  <2> QED BY <2>3, <1>2, <1>3, <1>4, <1>5
<1> QED BY <1>7, <1>8

LEMMA WorkStep ==
  ASSUME IInv, None \notin Runs, NEW w \in Workers, NEW r \in Runs,
         \/ Submit(w, r) \/ Computed(w, r) \/ FailRun(w, r) \/ WaitCancelled(w, r)
         \/ Stopped(w, r) \/ Fetched(w, r) \/ IngestResults(w, r)
         \/ Fold(w, r) \/ WaitRemote(w, r)
  PROVE  IInv' /\ (Life!Next \/ UNCHANGED <<life, usurped, admitted>>)
<1> USE DEF IInv, Types, Record, Statuses, ACTIVE, TERMINAL, LIVE, Phases
<1>1. worker[w].run = r /\ UNCHANGED <<usurped, admitted>> /\ run[r].status # "absent"
  BY DEF Submit, Computed, FailRun, WaitCancelled, Stopped, Fetched, IngestResults, Fold,
         WaitRemote, On, Keep, Held
<1>2. \A status \in ACTIVE \cup TERMINAL : run' = With(r, status) => Writes(w, r, status)
  BY <1>1 DEF With, Writes
<1>3. run' = run => Writes(w, r, run[r].status)
  BY <1>1 DEF Writes
<1>4. CASE Submit(w, r)
  BY <1>2, <1>4, WriteStep DEF Submit, Kept, Stays, Goes
<1>5. CASE Computed(w, r) \/ Stopped(w, r)
  BY <1>1, <1>3, <1>5, WriteStep DEF Computed, Stopped, Kept, Stays, Goes
<1>6. CASE FailRun(w, r)
  BY <1>2, <1>6, WriteStep DEF FailRun
<1>7. CASE WaitCancelled(w, r)
  BY <1>2, <1>7, WriteStep DEF WaitCancelled
<1>8. CASE Fetched(w, r)
  BY <1>1, <1>2, <1>3, <1>8, WriteStep DEF Fetched, Kept, Stays, Goes
<1>9. CASE IngestResults(w, r)
  BY <1>2, <1>9, WriteStep DEF IngestResults
<1>10. CASE Fold(w, r)
  <2>1. Writes(w, r, run[r].status)
    BY <1>1, <1>10 DEF Fold, Beats, Writes
  <2> QED BY <2>1, <1>1, <1>10, WriteStep DEF Fold, Kept
<1>11. CASE WaitRemote(w, r)
  <2>1. PICK status \in {run[r].status, "running"} : run' = [Beats(r) EXCEPT ![r].status = status]
    BY <1>11 DEF WaitRemote
  <2>2. Beats(r) \in [Runs -> Record] /\ Beats(r)[r].cancel = run[r].cancel
        /\ \A q \in Runs \ {r} : Beats(r)[q] = run[q]
    BY DEF Beats
  <2>3. run[r].status \in Statuses
    OBVIOUS
  <2>4. Writes(w, r, status)
    BY <2>1, <2>2, <2>3, <1>1 DEF Writes
  <2> QED BY <2>1, <2>3, <2>4, <1>1, <1>11, WriteStep DEF WaitRemote, Kept
<1> QED BY <1>4, <1>5, <1>6, <1>7, <1>8, <1>9, <1>10, <1>11

LEMMA CrashStep ==
  ASSUME IInv, None \notin Runs, NEW w \in Workers, Crash(w)
  PROVE  IInv' /\ UNCHANGED <<life, usurped, admitted>>
<1>1. IInv'
  BY DEF Crash, Leaves, Idle, IInv, Types, Held, Alone, Blank
<1>2. UNCHANGED <<life, usurped, admitted>>
  BY DEF Crash, life
<1> QED BY <1>1, <1>2

-----------------------------------------------------------------------------
LEMMA NextStep ==
  ASSUME IInv, None \notin Runs, [Next]_vars
  PROVE  IInv' /\ [Life!Next]_<<life, usurped, admitted>>
<1>1. CASE UNCHANGED vars
  BY <1>1 DEF vars, IInv, Types, Held, Alone, Blank, life
<1>2. ASSUME NEW w \in Workers, ClaimNextRun(w)
      PROVE  IInv' /\ [Life!Next]_<<life, usurped, admitted>>
  BY <1>2, ClaimStep
<1>3. ASSUME NEW w \in Workers, NEW r \in Runs,
             \/ Submit(w, r) \/ Computed(w, r) \/ FailRun(w, r) \/ WaitCancelled(w, r)
             \/ Stopped(w, r) \/ Fetched(w, r) \/ IngestResults(w, r)
             \/ Fold(w, r) \/ WaitRemote(w, r)
      PROVE  IInv' /\ [Life!Next]_<<life, usurped, admitted>>
  BY <1>3, WorkStep
<1>4. ASSUME NEW w \in Workers, Crash(w)
      PROVE  IInv' /\ [Life!Next]_<<life, usurped, admitted>>
  BY <1>4, CrashStep
<1>5. ASSUME NEW r \in Runs, Lapse(r) \/ LoadCancel(r) \/ CancelRun(r) \/ \E force \in BOOLEAN : QueueRun(r, force)
      PROVE  IInv' /\ [Life!Next]_<<life, usurped, admitted>>
  BY <1>5, RequestStep
<1> QED BY <1>1, <1>2, <1>3, <1>4, <1>5 DEF Next, Ends, Goes_on

\* A run that may be taken has an attempt left: TypeOK is not inductive without it.
Waits == \A r \in Runs : run[r].status \in {"queued", "absent"} => run[r].attempt < MaxAttempts
Bounds == MaxAttempts \in Nat \ {0} /\ MaxCrashes \in Nat
Row == [status: ACTIVE \cup TERMINAL \cup {"absent"}, cancel: BOOLEAN,
        attempt: 0 .. MaxAttempts, beat: {None, "fresh", "stale"}]

LEMMA ClaimTyped ==
  ASSUME Bounds, None \notin Runs, TypeOK, Waits, NEW w \in Workers, ClaimNextRun(w)
  PROVE  TypeOK' /\ Waits'
<1> USE DEF Row, ACTIVE, TERMINAL
<1>1. PICK z \in (IF Zombies = {} THEN {None} ELSE Zombies) :
        /\ usurped' = usurped \cup {r \in {z} \ {None} : \E v \in Workers : worker[v].run = r}
        /\ \/ z # None /\ run' = Reclaimed(z) /\ UNCHANGED worker
           \/ \E r \in {x \in Runs : Reclaimed(z)[x].status = "queued"} :
                /\ run' = Taken(Reclaimed(z), r)
                /\ worker' = [worker EXCEPT ![w] = [run |-> r, phase |-> "submit"]]
  BY DEF ClaimNextRun
<1> DEFINE after == Reclaimed(z)
<1>2. z = None \/ z \in Runs
  BY <1>1 DEF Zombies
<1>0. run \in [Runs -> Row] /\ MaxAttempts \in Nat
  BY DEF TypeOK, Bounds
<1>3. /\ after \in [Runs -> Row]
      /\ \A r \in Runs : after[r].status \in {"queued", "absent"} => after[r].attempt < MaxAttempts
  <2>1. CASE z = None
    BY <1>0, <2>1 DEF Reclaimed, Waits
  <2>2. CASE z # None /\ run[z].attempt >= MaxAttempts
    BY <1>0, <1>2, <2>2 DEF Reclaimed, With, Waits
  <2>3. CASE z # None /\ ~(run[z].attempt >= MaxAttempts)
    <3>1. after = [run EXCEPT ![z].status = "queued", ![z].beat = None] /\ z \in Runs
      BY <1>2, <2>3 DEF Reclaimed
    <3>2. run[z] \in Row /\ run[z].attempt < MaxAttempts
      BY <1>0, <2>3, <3>1
    <3>3. after[z].status = "queued" /\ after[z].attempt = run[z].attempt /\ after[z] \in Row
      BY <1>0, <3>1, <3>2
    <3>4. \A q \in Runs \ {z} : after[q] = run[q]
      BY <1>0, <3>1
    <3>5. after \in [Runs -> Row]
      BY <1>0, <3>1, <3>3, <3>4
    <3> QED BY <3>2, <3>3, <3>4, <3>5 DEF Waits
  <2> QED BY <2>1, <2>2, <2>3
<1> HIDE DEF after
<1>4. usurped' \subseteq Runs /\ crashes' \in 0 .. MaxCrashes
  <2>1. crashes' = crashes
    BY DEF ClaimNextRun
  <2>2. usurped' \subseteq usurped \cup {z} /\ (z = None => usurped' = usurped)
    BY <1>1
  <2> QED BY <2>1, <2>2, <1>2 DEF TypeOK
<1>7. admitted' \subseteq Runs
  BY DEF ClaimNextRun, TypeOK
<1>5. CASE z # None /\ run' = after /\ UNCHANGED worker
  BY <1>3, <1>4, <1>5, <1>7 DEF TypeOK, Waits
<1>6. ASSUME NEW r \in Runs, after[r].status = "queued", run' = Taken(after, r),
             worker' = [worker EXCEPT ![w] = [run |-> r, phase |-> "submit"]]
      PROVE  TypeOK' /\ Waits'
  <2>1. after[r] \in Row /\ after[r].attempt + 1 \in 0 .. MaxAttempts
    BY <1>0, <1>3, <1>6
  <2>2. run'[r].status = "running" /\ run'[r] \in Row /\ \A q \in Runs \ {r} : run'[q] = after[q]
    BY <1>3, <1>6, <2>1 DEF Taken
  <2>3. run' \in [Runs -> Row]
    BY <1>3, <1>6, <2>2 DEF Taken
  <2>4. worker' \in [Workers -> [run: Runs, phase: Phases] \cup {Idle}]
    BY <1>6 DEF Phases, TypeOK
  <2>5. Waits'
    BY <1>3, <2>2 DEF Waits
  <2> QED BY <1>4, <1>7, <2>3, <2>4, <2>5 DEF TypeOK
<1> QED BY <1>1, <1>5, <1>6 DEF after

LEMMA TypedStep ==
  ASSUME Bounds, None \notin Runs, TypeOK, Waits, [Next]_vars
  PROVE  TypeOK' /\ Waits'
<1> USE DEF ACTIVE, TERMINAL, Phases, Row
<1>0. run \in [Runs -> Row] /\ MaxAttempts \in Nat
  BY DEF TypeOK, Bounds
<1>1. CASE UNCHANGED vars
  BY <1>1 DEF vars, TypeOK, Waits
<1>2. ASSUME NEW w \in Workers, NEW r \in Runs, NEW phase \in Phases, On(w, r, phase),
             UNCHANGED <<admitted, usurped, crashes>>,
             worker' = worker \/ Leaves(w) \/ \E p \in Phases : Goes(w, p),
             \/ run' = run \/ run' = Beats(r)
             \/ \E s \in (ACTIVE \cup TERMINAL) \ {"queued"} : run' = With(r, s)
             \/ \E s \in {run[r].status, "running"} : run' = [Beats(r) EXCEPT ![r].status = s]
      PROVE  TypeOK' /\ Waits'
  <2>1. worker' \in [Workers -> [run: Runs, phase: Phases] \cup {Idle}]
    BY <1>2 DEF On, Leaves, Goes, TypeOK
  <2> DEFINE Steps == /\ run' \in [Runs -> Row] /\ \A q \in Runs \ {r} : run'[q] = run[q]
                      /\ run'[r].attempt = run[r].attempt
                      /\ run'[r].status \in {"queued", "absent"} => run'[r].status = run[r].status
  <2>2. CASE run' = run
    <3>1. Steps
      BY <1>0, <2>2
    <3> QED BY <1>2, <2>1, <3>1 DEF TypeOK, Waits
  <2>3. CASE run' = Beats(r)
    <3>1. Steps
      BY <1>0, <2>3 DEF Beats
    <3> QED BY <1>2, <2>1, <3>1 DEF TypeOK, Waits
  <2>4. ASSUME NEW s \in (ACTIVE \cup TERMINAL) \ {"queued"}, run' = With(r, s)
        PROVE  TypeOK' /\ Waits'
    <3>1. Steps
      BY <1>0, <2>4 DEF With
    <3> QED BY <1>2, <2>1, <3>1 DEF TypeOK, Waits
  <2>5. ASSUME NEW s \in {run[r].status, "running"}, run' = [Beats(r) EXCEPT ![r].status = s]
        PROVE  TypeOK' /\ Waits'
    <3>1. /\ Beats(r) \in [Runs -> Row] /\ \A q \in Runs \ {r} : Beats(r)[q] = run[q]
          /\ Beats(r)[r].attempt = run[r].attempt
      BY <1>0 DEF Beats
    <3>2. s \in ACTIVE \cup TERMINAL \cup {"absent"}
      BY <1>0, <2>5
    <3>3. run' \in [Runs -> Row] /\ run'[r].status = s /\ run'[r].attempt = Beats(r)[r].attempt
          /\ \A q \in Runs \ {r} : run'[q] = Beats(r)[q]
      BY <2>5, <3>1, <3>2
    <3>4. Steps
      BY <2>5, <3>1, <3>3
    <3> QED BY <1>2, <2>1, <3>4 DEF TypeOK, Waits
  <2> QED BY <1>2, <2>2, <2>3, <2>4, <2>5
<1>3. ASSUME NEW w \in Workers, NEW r \in Runs,
             \/ Submit(w, r) \/ Computed(w, r) \/ FailRun(w, r) \/ WaitCancelled(w, r)
             \/ Stopped(w, r) \/ Fetched(w, r) \/ IngestResults(w, r)
             \/ Fold(w, r) \/ WaitRemote(w, r)
      PROVE  TypeOK' /\ Waits'
  <2>1. \E phase \in Phases : On(w, r, phase)
    BY <1>3 DEF Submit, Computed, FailRun, WaitCancelled, Stopped, Fetched, IngestResults, Fold, WaitRemote
  <2>2. UNCHANGED <<admitted, usurped, crashes>>
    BY <1>3 DEF Submit, Computed, FailRun, WaitCancelled, Stopped, Fetched, IngestResults, Fold, WaitRemote, Keep
  <2>3. worker' = worker \/ Leaves(w) \/ \E p \in Phases : Goes(w, p)
    BY <1>3 DEF Submit, Computed, FailRun, WaitCancelled, Stopped, Fetched, IngestResults, Fold, WaitRemote
  <2>4. \/ run' = run \/ run' = Beats(r)
        \/ \E s \in (ACTIVE \cup TERMINAL) \ {"queued"} : run' = With(r, s)
        \/ \E s \in {run[r].status, "running"} : run' = [Beats(r) EXCEPT ![r].status = s]
    BY <1>3 DEF Submit, Computed, FailRun, WaitCancelled, Stopped, Fetched, IngestResults, Fold, WaitRemote
  <2> QED BY <1>2, <2>1, <2>2, <2>3, <2>4
<1>4. ASSUME NEW w \in Workers, Crash(w)
      PROVE  TypeOK' /\ Waits'
  BY <1>4 DEF Crash, Leaves, TypeOK, Waits, Bounds
<1>5. ASSUME NEW r \in Runs, Lapse(r) \/ LoadCancel(r) \/ CancelRun(r) \/ \E force \in BOOLEAN : QueueRun(r, force)
      PROVE  TypeOK' /\ Waits'
  <2>1. UNCHANGED <<worker, usurped, crashes>> /\ admitted' \subseteq Runs
    BY <1>5 DEF Lapse, LoadCancel, CancelRun, QueueRun, Keep, TypeOK
  <2>2. CASE Lapse(r)
    <3>1. run' = [run EXCEPT ![r].beat = "stale"]
      BY <2>2 DEF Lapse
    <3>2. run' \in [Runs -> Row] /\ \A q \in Runs : run'[q].status = run[q].status /\ run'[q].attempt = run[q].attempt
      BY <1>0, <3>1
    <3> QED BY <2>1, <3>2 DEF TypeOK, Waits
  <2>3. CASE CancelRun(r)
    <3>1. run' = [run EXCEPT ![r].cancel = TRUE]
      BY <2>3 DEF CancelRun
    <3>2. run' \in [Runs -> Row] /\ \A q \in Runs : run'[q].status = run[q].status /\ run'[q].attempt = run[q].attempt
      BY <1>0, <3>1
    <3> QED BY <2>1, <3>2 DEF TypeOK, Waits
  <2>4. ASSUME NEW force \in BOOLEAN, QueueRun(r, force)
        PROVE  TypeOK' /\ Waits'
    <3>1. run' = [run EXCEPT ![r].status = "queued"] /\ run[r].status = "absent"
      BY <2>4 DEF QueueRun, With
    <3>2. run' \in [Runs -> Row] /\ run'[r].attempt = run[r].attempt /\ \A q \in Runs \ {r} : run'[q] = run[q]
      BY <1>0, <3>1
    <3> QED BY <2>1, <3>1, <3>2 DEF TypeOK, Waits
  <2>5. CASE LoadCancel(r)
    BY <2>1, <2>5 DEF LoadCancel, TypeOK, Waits
  <2> QED BY <1>5, <2>2, <2>3, <2>4, <2>5
<1> QED BY <1>1, <1>3, <1>4, <1>5, ClaimTyped DEF Next, Ends, Goes_on

LEMMA InitTyped == ASSUME Init, Bounds PROVE TypeOK /\ Waits
<1>1. NewRun \in Row /\ NewRun.attempt = 0
  BY DEF Row, NewRun, Bounds
<1>2. [NewRun EXCEPT !.status = "queued"] \in Row /\ [NewRun EXCEPT !.status = "queued"].attempt = 0
  BY <1>1 DEF Row, ACTIVE
<1>3. \A r \in Runs : run[r] \in Row /\ run[r].attempt = 0
  BY <1>1, <1>2 DEF Init
<1>4. run \in [Runs -> Row]
  BY <1>3 DEF Init
<1>5. worker \in [Workers -> [run: Runs, phase: Phases] \cup {Idle}]
  BY DEF Init
<1> QED BY <1>3, <1>4, <1>5 DEF Init, TypeOK, Waits, Bounds, Row

\* The types of the queue, whatever crashes, is claimed again or runs out of attempts.
THEOREM QueueTypes ==
  ASSUME Bounds, None \notin Runs
  PROVE  Spec => []TypeOK
<1>1. Init /\ Bounds => TypeOK /\ Waits
  BY InitTyped
<1>2. TypeOK /\ Waits /\ Bounds /\ [Next]_vars => TypeOK' /\ Waits'
  BY TypedStep
<1> QED BY <1>1, <1>2, PTL DEF Spec

\* The workers of the Lab (worker.py, services.py), whatever crashes, lapses and is taken
\* over, move a run only as its life allows: it is launched once, and keeps its first
\* verdict unless two workers contested it.
THEOREM QueueImplementsLife == ASSUME None \notin Runs PROVE Spec => LifeSpec
<1>1. Init => IInv
  BY InitIInv
<1>2. IInv /\ [Next]_vars => IInv' /\ [Life!Next]_<<life, usurped, admitted>>
  BY NextStep
<1>3. Init => Life!Init
  <2> SUFFICES ASSUME Init PROVE Life!Init
    OBVIOUS
  <2>1. [NewRun EXCEPT !.status = "queued"].status = "queued" /\ [NewRun EXCEPT !.status = "queued"].cancel = FALSE
        /\ NewRun.status = "absent" /\ NewRun.cancel = FALSE
    BY DEF NewRun
  <2>3. \A r \in Runs : [status |-> run[r].status, cancel |-> run[r].cancel]
                        \in [status: {"absent", "queued"}, cancel: {FALSE}]
    <3> SUFFICES ASSUME NEW r \in Runs
                 PROVE  [status |-> run[r].status, cancel |-> run[r].cancel]
                          \in [status: {"absent", "queued"}, cancel: {FALSE}]
      OBVIOUS
    <3>1. run[r] = NewRun \/ run[r] = [NewRun EXCEPT !.status = "queued"]
      BY DEF Init
    <3>2. run[r].status \in {"absent", "queued"} /\ run[r].cancel = FALSE
      BY <3>1, <2>1
    <3> QED BY <3>2
  <2> QED BY <2>3 DEF Init, Life!Init, life
<1>4. Init /\ [][Next]_vars => Life!Init /\ [][Life!Next]_<<life, usurped, admitted>>
  BY <1>1, <1>2, <1>3, PTL
<1> QED BY <1>4, PTL DEF Spec, LifeSpec, Life!Spec, life
=============================================================================
