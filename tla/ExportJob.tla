------------------------------- MODULE ExportJob -------------------------------
(***************************************************************************)
(* An export computed in the background by a thread of the server, and its *)
(* row in the history: the row asks for the status while the history says  *)
(* the export goes on, and prefers its own answer to the history's.  The   *)
(* history is asked again when any export is launched or tried again.      *)
(***************************************************************************)
EXTENDS Naturals, FiniteSets

CONSTANTS None,
  MaxThreads, \* bound on the times an export is tried
  MaxMoves    \* bound on what the administrators and the faults do

VARIABLES
  status,    \* the export in the database
  artifact,  \* whether the file of its last success is recorded
  old,       \* created more than fifteen minutes ago
  threads,   \* the threads at it: how far each is
  tried,     \* number of threads started
  job, live, \* what the history says of it, and the row's own answer
  call,      \* the row's question: None, "asked", "heal" while the server expires it, or the answer
  list,      \* the history's question: the same
  invalid,   \* the row's own answer has been invalidated
  retrying,  \* « Relancer » on its way
  moves

server == <<status, artifact, old, threads, tried>>
page == <<job, live, call, list, invalid, retrying>>
vars == <<server, page, moves>>

Going == {"pending", "running"}
Ended == {"done", "failed"}
Shown == IF live = None THEN job ELSE live
Enabled == job \in Going
Init ==
  /\ status = "pending" /\ artifact = FALSE /\ old = FALSE /\ tried = 1 /\ threads = [n \in {1} |-> "starting"]
  /\ job = "pending" /\ live = None /\ call = None /\ list = None /\ invalid = FALSE
  /\ retrying = FALSE /\ moves = 0
Moved == moves < MaxMoves /\ moves' = moves + 1

\* Each status is written at once, whatever another thread or an expiry wrote meanwhile.
Starts(n) ==
  /\ threads[n] = "starting" /\ threads' = [threads EXCEPT ![n] = "writing"] /\ status' = "running"
  /\ UNCHANGED <<artifact, old, tried, page, moves>>
Gone(n) == threads' = [threads EXCEPT ![n] = "gone"]
Succeeds(n) ==
  /\ threads[n] = "writing" /\ Gone(n) /\ status' = "done" /\ artifact' = TRUE
  /\ UNCHANGED <<old, tried, page, moves>>
Fails(n) ==
  /\ threads[n] # "gone" /\ Gone(n) /\ status' = "failed"
  /\ UNCHANGED <<artifact, old, tried, page, moves>>
\* The threads are daemons: they die with the process and leave the status as it is.
Restart ==
  /\ Moved /\ \E n \in DOMAIN threads : threads[n] # "gone"
  /\ threads' = [n \in DOMAIN threads |-> "gone"] /\ UNCHANGED <<status, artifact, old, tried, page>>
Ages == ~old /\ old' = TRUE /\ UNCHANGED <<status, artifact, threads, tried, page, moves>>

\* The row asks every second and a half until its own answer is an end.
Poll ==
  /\ Enabled /\ call = None /\ (live \notin Ended \/ invalid)
  /\ call' = "asked" /\ invalid' = FALSE
  /\ UNCHANGED <<server, job, live, list, retrying, moves>>
\* A bug: nothing expires.
NeverHeals == call' = status
\* Reading an export expires it when it is still going on long after it was created.
SelfHeal == call' = IF status \in Going /\ old THEN "heal" ELSE status
Read ==
  /\ call = "asked" /\ SelfHeal
  /\ UNCHANGED <<server, job, live, list, invalid, retrying, moves>>
Expire ==
  /\ call = "heal" /\ call' = "failed" /\ status' = "failed"
  /\ UNCHANGED <<artifact, old, threads, tried, job, live, list, invalid, retrying, moves>>
Answered ==
  /\ call \in Going \cup Ended /\ live' = call /\ call' = None
  /\ UNCHANGED <<server, job, list, invalid, retrying, moves>>
Lost == Moved /\ call # None /\ call' = None
  /\ UNCHANGED <<server, job, live, list, invalid, retrying>>

LaunchAnother == Moved /\ list' = "asked"
  /\ UNCHANGED <<server, job, live, call, invalid, retrying>>
Listed ==
  /\ list = "asked" /\ list' = status
  /\ UNCHANGED <<server, job, live, call, invalid, retrying, moves>>
HistoryCome ==
  /\ list \in Going \cup Ended /\ job' = list /\ list' = None
  /\ UNCHANGED <<server, live, call, invalid, retrying, moves>>

Retry ==
  /\ Moved /\ Shown = "failed" /\ ~retrying /\ retrying' = TRUE
  /\ UNCHANGED <<server, job, live, call, list, invalid>>
\* The same export starts again, under its own date; what the page knows of it is asked again.
Retried ==
  /\ retrying /\ retrying' = FALSE
  /\ IF tried = MaxThreads THEN UNCHANGED server /\ UNCHANGED <<list, call, invalid>>
     ELSE /\ status' = "pending" /\ artifact' = FALSE /\ tried' = tried + 1
          /\ threads' = [n \in 1 .. tried + 1 |-> IF n > tried THEN "starting" ELSE threads[n]]
          /\ list' = "asked" /\ UNCHANGED old
          /\ call' = (IF Enabled THEN "asked" ELSE call) /\ invalid' = ~Enabled
  /\ UNCHANGED <<job, live, moves>>

Threads == \E n \in DOMAIN threads : Starts(n) \/ Succeeds(n) \/ Fails(n)
Answers == Read \/ Expire \/ Answered
History == Listed \/ HistoryCome
Next == Threads \/ Restart \/ Ages \/ Poll \/ Answers \/ Lost \/ LaunchAnother \/ History \/ Retry \/ Retried
Fairness == WF_vars(Ages) /\ WF_vars(Poll) /\ WF_vars(Answers) /\ WF_vars(History)
-----------------------------------------------------------------------------
\* A row that shows an export going on comes to show its end, even when its thread died
\* with the server, unless the history ended the row before its own answer did.
\* The history says the export ended, which stops the questions of a row whose own answer
\* does not say it.
Overtaken == job \in Ended /\ live \in Going
EndIsShown == Shown \in Going ~> (Shown \in Ended \/ Overtaken)
\* Without that exception: refuted when the history is asked again as the export ends.
EndIsAlwaysShown == Shown \in Going ~> Shown \in Ended
\* « idempotent (réutilise le même id, pas de doublon) »: refuted, one export may be written
\* by two threads after an expiry, or a second click before the row is asked again.
OneThread == Cardinality({n \in DOMAIN threads : threads[n] # "gone"}) <= 1
\* What is offered for download is there: refuted when an export expired while it was still
\* being written and was tried again.
DownloadWorks == Shown = "done" => status = "done" /\ artifact
=============================================================================
