------------------------------- MODULE RunLife -------------------------------
(***************************************************************************)
(* What the Lab promises of a run, whatever computes it: it is launched    *)
(* once, moves between the active statuses, keeps its first verdict unless *)
(* two workers contested it, and is flagged only by a request that found   *)
(* it unfinished, however late it writes (backend/claire/lab/models.py,    *)
(* RunStatus; frontend/src/features/lab/runStatus.ts).                     *)
(***************************************************************************)
CONSTANTS Runs, Stages, Verdicts
VARIABLES life,       \* status and cancellation flag of each run
          contested,  \* runs that two workers have taken
          accepted    \* runs whose cancellation has passed its test

ACTIVE == {"queued", "waiting", "running"}
TERMINAL == {"succeeded", "partial", "failed", "cancelled"}
Absent == [status |-> "absent", cancel |-> FALSE]
RunStatus == Stages \cup Verdicts \cup {"absent"}

Launched(r) ==
  /\ life[r] = Absent
  /\ life' = [life EXCEPT ![r].status = "queued"]
  /\ UNCHANGED <<contested, accepted>>
Progresses(r) ==
  /\ life[r].status \in Stages \/ (r \in contested /\ life[r].status \in Verdicts)
  /\ \E s \in Stages \cup Verdicts : life' = [life EXCEPT ![r].status = s]
  /\ contested' \in {contested, contested \cup {r}} /\ UNCHANGED accepted
\* A cancellation is tested on a copy of the run; its flag is written later.
Accepted(r) ==
  /\ life[r].status \notin {"absent", "succeeded", "failed", "cancelled"}
  /\ accepted' = accepted \cup {r}
  /\ UNCHANGED <<life, contested>>
Flagged(r) ==
  /\ r \in accepted
  /\ life' = [life EXCEPT ![r].cancel = TRUE]
  /\ UNCHANGED <<contested, accepted>>
\* One claim may put a run back and take another.
Claimed(r, s) ==
  /\ {life[r].status, life[s].status} \subseteq Stages
  /\ \E x \in {"queued", "failed"} : life' = [life EXCEPT ![s].status = x, ![r].status = "running"]
  /\ contested' \in {contested, contested \cup {s}} /\ UNCHANGED accepted

Init == life \in [Runs -> [status: {"absent", "queued"}, cancel: {FALSE}]]
        /\ contested = {} /\ accepted = {}
Next == \/ \E r \in Runs : Launched(r) \/ Progresses(r) \/ Accepted(r) \/ Flagged(r)
        \/ \E r, s \in Runs : Claimed(r, s)
Spec == Init /\ [][Next]_<<life, contested, accepted>>
=============================================================================
