------------------------------- MODULE DemoPage -------------------------------
(***************************************************************************)
(* The public page that classifies a contract and the queue behind it.     *)
(* The page: what the visitor pastes, reads from a file or picks, one      *)
(* request at a time, and the questions it asks the server until the       *)
(* classification ends or the visitor has waited three minutes; other      *)
(* visitors use the same server.  The queue: classifications wait in a     *)
(* list the server keeps in memory, and at most MaxParallel threads take   *)
(* them one by one; what became of each is in the database.  A restart of  *)
(* the server forgets the list and the threads, never the database.        *)
(***************************************************************************)
EXTENDS Integers, Sequences, FiniteSets

CONSTANTS
  MaxParallel, QueueMax,
  Texts, Wrong,   \* texts, and those the page refuses
  Contracts, None,
  MaxMoves        \* bound on what the visitors do

VARIABLES
  jobs,     \* the classifications in the database: the request each is of, its status
  queue,    \* the list in memory
  looping,  \* number of threads about to look at the list
  running,  \* the classifications the other threads are at
  tab, text, file,     \* the text typed or read, and the file it is said to be from
  reads,               \* files being read
  contracts, document, \* the list of contracts (None, "asked", "known", "failed"), the one picked
  phase, job, last,    \* what the page shows; the number of its last request
  posts,               \* requests on their way: [of, admitted]
  timer, polls,        \* the next question, and those on their way: [job, late], the clock when asked
  late,                \* whether the three minutes are over
  moves

-----------------------------------------------------------------------------
\* The server.
server == <<jobs, queue, looping, running>>
ServerInit == jobs = <<>> /\ queue = <<>> /\ looping = 0 /\ running = {}

\* Threads counted as active, under the lock of the list.
Active == looping + Cardinality(running)
QueueFull == Len(queue) >= QueueMax

Enqueue(of) ==
  /\ jobs' = Append(jobs, [of |-> of, status |-> "queued"])
  /\ queue' = Append(queue, Len(jobs) + 1)
  /\ looping' = IF Active < MaxParallel THEN looping + 1 ELSE looping
  /\ UNCHANGED running
Take ==
  /\ looping > 0 /\ queue # <<>>
  /\ queue' = Tail(queue) /\ looping' = looping - 1 /\ running' = running \cup {Head(queue)}
  /\ jobs' = [jobs EXCEPT ![Head(queue)].status = "running"]
\* A bug: a thread leaves on what it saw of the list before it took the lock.
LeaveUnlocked == looping > 0 /\ looping' = looping - 1 /\ UNCHANGED <<jobs, queue, running>>
Leave == looping > 0 /\ queue = <<>> /\ looping' = looping - 1 /\ UNCHANGED <<jobs, queue, running>>
\* The computation has a deadline, and whatever it does ends in a status.
Finish(j) ==
  /\ \E status \in {"done", "failed"} : jobs' = [jobs EXCEPT ![j].status = status]
  /\ running' = running \ {j} /\ looping' = looping + 1 /\ UNCHANGED queue
Restart ==
  /\ queue' = <<>> /\ looping' = 0 /\ running' = {} /\ UNCHANGED jobs

ServerNext == Take \/ Leave \/ \E j \in running : Finish(j)
-----------------------------------------------------------------------------
\* The page.
input == <<tab, text, file, reads, contracts, document>>
call == <<phase, job, last, posts, timer, polls, late>>
vars == <<server, input, call, moves>>

Init ==
  /\ ServerInit
  /\ tab = "paste" /\ text = None /\ file = None /\ reads = {} /\ contracts = None /\ document = None
  /\ phase = "idle" /\ job = None /\ last = 0 /\ posts = {} /\ timer = None /\ polls = {} /\ late = FALSE
  /\ moves = 0

Busy == phase \in {"submitting", "queued", "running"}
Moved == moves < MaxMoves /\ moves' = moves + 1

SetTab(t) ==
  /\ Moved /\ t # tab /\ tab' = t
  /\ contracts' = IF t = "contract" /\ contracts \in {None, "failed"} THEN "asked" ELSE contracts
  /\ UNCHANGED <<server, text, file, reads, document, call>>
ContractsCome ==
  /\ contracts = "asked"
  /\ \/ contracts' = "known" /\ document' = IF document = None THEN CHOOSE d \in Contracts : TRUE ELSE document
     \/ contracts' = "failed" /\ UNCHANGED document
  /\ UNCHANGED <<server, tab, text, file, reads, call, moves>>
Pick(d) == Moved /\ tab = "contract" /\ contracts = "known" /\ d # document /\ document' = d
  /\ UNCHANGED <<server, tab, text, file, reads, contracts, call>>
Paste(t) == Moved /\ tab = "paste" /\ t # text /\ text' = t /\ file' = None
  /\ UNCHANGED <<server, tab, reads, contracts, document, call>>

\* A file is named after its text.  A bug: the name is shown before the file is read.
NamedAtOnce(f) ==
  /\ Moved /\ tab = "upload" /\ f \notin reads /\ reads' = reads \cup {f} /\ file' = f
  /\ UNCHANGED <<server, tab, text, contracts, document, call>>
OnFile(f) ==
  /\ Moved /\ tab = "upload" /\ f \notin reads /\ reads' = reads \cup {f}
  /\ UNCHANGED <<server, tab, text, file, contracts, document, call>>
FileRead(f) ==
  /\ reads' = reads \ {f} /\ text' = f /\ file' = f
  /\ UNCHANGED <<server, tab, contracts, document, call, moves>>

CanSubmit == IF tab = "contract" THEN document # None ELSE text # None /\ text \notin Wrong
\* A bug: the button does not wait for the request it has sent.
SubmitAgain ==
  /\ Moved /\ CanSubmit
  /\ phase' = "submitting" /\ job' = None /\ timer' = None /\ late' = FALSE
  /\ last' = last + 1 /\ posts' = posts \cup {[of |-> last + 1, admitted |-> FALSE]}
  /\ UNCHANGED <<server, input, polls>>
Submit ==
  /\ Moved /\ ~Busy /\ CanSubmit
  /\ phase' = "submitting" /\ job' = None /\ timer' = None /\ late' = FALSE
  /\ last' = last + 1 /\ posts' = posts \cup {[of |-> last + 1, admitted |-> FALSE]}
  /\ UNCHANGED <<server, input, polls>>
Reset ==
  /\ Moved /\ phase = "done" /\ phase' = "idle" /\ job' = None /\ timer' = None
  /\ UNCHANGED <<server, input, last, posts, polls, late>>

\* The server looks at its queue, then works on the request, then puts it on the queue.
Strangers == {p \in posts : p.of = 0}
Visit == Moved /\ Strangers = {} /\ posts' = posts \cup {[of |-> 0, admitted |-> FALSE]}
  /\ UNCHANGED <<server, input, phase, job, last, timer, polls, late>>
Admit(p) ==
  /\ ~p.admitted /\ ~QueueFull
  /\ posts' = (posts \ {p}) \cup {[p EXCEPT !.admitted = TRUE]}
  /\ UNCHANGED <<server, input, phase, job, last, timer, polls, late, moves>>
Mine(p) == p.of # 0
\* Refused: the queue is full, too many requests, a text the server judges otherwise, no network.
Refuse(p) ==
  /\ posts' = posts \ {p}
  /\ IF Mine(p) THEN phase' = "failed" ELSE UNCHANGED phase
  /\ UNCHANGED <<server, input, job, last, timer, polls, late, moves>>
Accept(p) ==
  /\ p.admitted /\ Enqueue(p.of) /\ posts' = posts \ {p}
  /\ IF Mine(p) THEN phase' = "queued" /\ timer' = Len(jobs) + 1 ELSE UNCHANGED <<phase, timer>>
  /\ UNCHANGED <<input, job, last, polls, late, moves>>

Poll ==
  /\ timer # None /\ polls' = polls \cup {[job |-> timer, late |-> late]} /\ timer' = None
  /\ UNCHANGED <<server, input, phase, job, last, posts, late, moves>>
Ended(j) == jobs[j].status \in {"done", "failed"}
\* A bug: the page asks for ever.
AskForEver(p) == jobs[p.job].status
\* What an answer shows: after the three minutes, a classification still going on has failed.
ShownBy(p) == IF p.late /\ ~Ended(p.job) THEN "failed" ELSE jobs[p.job].status
Answer(p) ==
  /\ polls' = polls \ {p} /\ job' = p.job /\ phase' = ShownBy(p)
  /\ timer' = IF Ended(p.job) \/ phase' = "failed" THEN timer ELSE p.job
  /\ UNCHANGED <<server, input, last, posts, late, moves>>
AnswerFails(p) ==
  /\ polls' = polls \ {p} /\ phase' = "failed"
  /\ UNCHANGED <<server, input, job, last, posts, timer, late, moves>>
ThreeMinutes == phase \in {"queued", "running"} /\ ~late /\ late' = TRUE
  /\ UNCHANGED <<server, input, phase, job, last, posts, timer, polls, moves>>

Serves == ServerNext /\ UNCHANGED <<input, call, moves>>
Restarts == Moved /\ jobs # <<>> /\ Restart /\ UNCHANGED <<input, call>>

\* What ends by itself: requests and questions, each with an answer or an error.
PostsEnd == \E p \in posts : Refuse(p) \/ Accept(p)
Answers == \E p \in polls : Answer(p) \/ AnswerFails(p)
Next ==
  \/ \E t \in {"paste", "upload", "contract"} : SetTab(t)
  \/ \E d \in Contracts : Pick(d)
  \/ \E t \in Texts : Paste(t) \/ OnFile(t)
  \/ \E f \in reads : FileRead(f)
  \/ \E p \in posts : Admit(p)
  \/ ContractsCome \/ Submit \/ Reset \/ Visit \/ Poll \/ PostsEnd \/ Answers \/ ThreeMinutes \/ Serves \/ Restarts
-----------------------------------------------------------------------------
\* The result on screen is that of the last request of the visitor (useDemoJob.ts: neither
\* a new request nor the closing of a result cancels the questions of the former).
ResultIsOfTheLast == phase = "done" => jobs[job].of = last
\* The file named beside the text is the one the text was read from (DemoPanel.tsx, onFile).
NamedFileIsRead == file # None => text = file
\* A classification waits without a thread for it only while every thread allowed is at
\* work: none is left in the list by a thread on its way out (runner.py, _drain).
NoneWaitsInVain == Len(queue) > looping => Active = MaxParallel
\* The limit of the list is tested before the classification is put on it: refuted by two
\* requests at once.
QueueIsBounded == Len(queue) <= QueueMax
=============================================================================
