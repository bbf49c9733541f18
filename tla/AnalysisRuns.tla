---------------------------- MODULE AnalysisRuns ----------------------------
(***************************************************************************)
(* The runs of the analysis lab (backend/claire/analysis: services.py,     *)
(* views.py and the command analysis_worker).  The runs ask for the same   *)
(* computation.  A worker is restarted when it ends; a cancellation saves  *)
(* the status it had loaded.  The PDF of reports, which the same worker    *)
(* prints between two runs, is left out.                                   *)
(***************************************************************************)
EXTENDS Integers

CONSTANTS
  Runs,         \* by order of creation
  Workers,
  Metrics,      \* how many the computation has
  MaxCrashes    \* bound on the workers that die

VARIABLES
  run,          \* of each run: status, cancel_requested, heartbeat
  posting,      \* the requests that found no run like theirs
  cancelling,   \* the cancellations in flight, with the status they loaded
  worker,
  swept,        \* the runs failed for want of a heartbeat
  crashes

vars == <<run, posting, cancelling, worker, swept, crashes>>

Active == {"queued", "running"}
Ended == {"succeeded", "failed", "canceled"}
Idle == [does |-> "polls", on |-> 0, left |-> 0]

Init ==
  /\ run = [r \in Runs |-> [status |-> "absent", cancel |-> FALSE, beat |-> FALSE]]
  /\ posting = {} /\ cancelling = {}
  /\ worker = [w \in Workers |-> Idle] /\ swept = {} /\ crashes = 0

With(r, status) == [run EXCEPT ![r].status = status]
ByRequests == UNCHANGED <<worker, swept, crashes>>
ByWorkers == UNCHANGED <<posting, cancelling, crashes>>

-----------------------------------------------------------------------------
(* The requests.  queue_run looks for a run, then creates one.             *)
QueueRun(r) ==
  /\ run[r].status = "absent" /\ r \notin posting
  /\ \A q \in Runs : run[q].status \notin Active \cup {"succeeded"}
  /\ posting' = posting \cup {r} /\ UNCHANGED <<run, cancelling>> /\ ByRequests
Create(r) ==
  /\ r \in posting /\ posting' = posting \ {r}
  /\ run' = With(r, "queued") /\ UNCHANGED cancelling /\ ByRequests

\* Asked once of each run: asked again it writes the same.
LoadCancel(r) ==
  /\ run[r].status \in Active /\ ~run[r].cancel /\ \A c \in cancelling : c.run # r
  /\ cancelling' = cancelling \cup {[run |-> r, saw |-> run[r].status]}
  /\ UNCHANGED <<run, posting>> /\ ByRequests
SaveCancel(c) ==
  /\ c \in cancelling /\ cancelling' = cancelling \ {c}
  /\ run' = [run EXCEPT ![c.run].cancel = TRUE,
                        ![c.run].status = IF c.saw = "queued" THEN "canceled" ELSE c.saw]
  /\ UNCHANGED posting /\ ByRequests

-----------------------------------------------------------------------------
(* A worker: one turn fails the runs without a heartbeat, then takes the   *)
(* first run that waits.                                                   *)
Silent == {r \in Runs : run[r].status = "running" /\ ~run[r].beat}
\* Mutant of AfterSweep: a run left by its worker stays where it is.
NotSwept == run
AfterSweep == [r \in Runs |-> IF r \in Silent THEN [run[r] EXCEPT !.status = "failed"] ELSE run[r]]
Waiting == {r \in Runs : AfterSweep[r].status = "queued"}
First == {r \in Waiting : \A q \in Waiting : r <= q}
Handle(w) ==
  /\ worker[w] = Idle /\ (Silent # {} \/ Waiting # {})
  /\ run' = AfterSweep /\ swept' = swept \cup Silent
  /\ \/ Waiting = {} /\ UNCHANGED worker
     \/ \E r \in First : worker' = [worker EXCEPT ![w] = [does |-> "picked", on |-> r, left |-> Metrics]]
  /\ ByWorkers

On(w, r, does) == worker[w].does = does /\ worker[w].on = r
Leaves(w) == worker' = [worker EXCEPT ![w] = Idle]
Goes(w, does) == worker' = [worker EXCEPT ![w].does = does]
Same == UNCHANGED swept /\ ByWorkers

Refused == {"succeeded", "canceled", "running"}
\* Mutant of Claims: a run that runs is taken again.
ClaimsRunning(r) == run[r].status \notin {"succeeded", "canceled"}
\* run_analysis claims under the row lock; the run may have moved since it was picked.
Claims(r) == run[r].status \notin Refused
Claim(w, r) ==
  /\ On(w, r, "picked") /\ Same
  /\ \/ ~Claims(r) /\ UNCHANGED run /\ Leaves(w)
     \/ Claims(r) /\ run[r].cancel /\ run' = With(r, "canceled") /\ Leaves(w)
     \/ /\ Claims(r) /\ ~run[r].cancel
        /\ run' = [With(r, "running") EXCEPT ![r].beat = TRUE] /\ Goes(w, "checks")

\* The flag is read before each metric, the heartbeat written after it.
CheckCancel(w, r) ==
  /\ On(w, r, "checks") /\ worker[w].left > 0 /\ Same
  /\ IF run[r].cancel THEN run' = With(r, "canceled") /\ Leaves(w) ELSE UNCHANGED run /\ Goes(w, "computes")
Compute(w, r) ==
  /\ On(w, r, "computes") /\ Same
  /\ run' = [run EXCEPT ![r].beat = TRUE]
  /\ worker' = [worker EXCEPT ![w].does = "checks", ![w].left = @ - 1]
Succeed(w, r) ==
  /\ On(w, r, "checks") /\ worker[w].left = 0 /\ Same
  /\ run' = With(r, "succeeded") /\ Leaves(w)
\* A metric that fails is raised again: the worker ends with it.
FailRun(w, r) ==
  /\ On(w, r, "computes") /\ Same
  /\ run' = With(r, "failed") /\ worker' = [worker EXCEPT ![w] = Idle]

Crash(w) ==
  /\ worker[w] # Idle /\ crashes < MaxCrashes /\ crashes' = crashes + 1
  /\ worker' = [worker EXCEPT ![w] = Idle]
  /\ UNCHANGED <<run, posting, cancelling, swept>>
\* A metric outlasts the timeout, or nobody computes any more.
Lapse(r) ==
  /\ run[r].status = "running" /\ run[r].beat /\ run' = [run EXCEPT ![r].beat = FALSE]
  /\ UNCHANGED <<worker, swept>> /\ ByWorkers

Works(w) ==
  \/ Handle(w)
  \/ \E r \in Runs : Claim(w, r) \/ CheckCancel(w, r) \/ Compute(w, r) \/ Succeed(w, r)
Next ==
  \/ \E r \in Runs : QueueRun(r) \/ Create(r) \/ LoadCancel(r) \/ Lapse(r)
  \/ \E c \in cancelling : SaveCancel(c)
  \/ \E w \in Workers : Works(w) \/ Crash(w) \/ \E r \in Runs : FailRun(w, r)
Spec == Init /\ [][Next]_vars

-----------------------------------------------------------------------------
Computing(r) == {w \in Workers : worker[w].on = r /\ worker[w].does \in {"checks", "computes"}}

\* Two workers compute a run together only when its heartbeat had lapsed (services.py,
\* run_analysis: « sûr face à deux workers concurrents »).
OneWorkerComputes == \A r \in Runs : \A w, v \in Computing(r) : w # v => r \in swept

\* A run that succeeded stays so. A cancellation that had seen it run says « running »
\* again, and the next sweep « failed » (views.py, RunCancelView).
ResultIsKept == \A r \in Runs : (run[r].status = "succeeded") => (run[r].status = "succeeded")'

\* One run of a computation waits, runs or has its result (services.py, queue_run); two
\* requests that look together create two.
OneRunPerComputation ==
  \A q, r \in {x \in Runs : run[x].status \in Active \cup {"succeeded"}} : q = r

TypeOK ==
  /\ run \in [Runs -> [status : Active \cup Ended \cup {"absent"}, cancel : BOOLEAN, beat : BOOLEAN]]
  /\ posting \subseteq Runs /\ cancelling \subseteq [run : Runs, saw : Active]
  /\ worker \in [Workers -> [does : {"polls", "picked", "checks", "computes"}, on : Runs \cup {0}, left : 0 .. Metrics]]
  /\ swept \subseteq Runs /\ crashes \in 0 .. MaxCrashes
=============================================================================
