----------------------------- MODULE LabScreens -----------------------------
(***************************************************************************)
(* The three screens that follow the runs of the Lab by polling            *)
(* (frontend/src/features/lab/RunList.tsx, RunResults.tsx,                 *)
(* ActiveRunIndicator.tsx) over runs that live as RunLife says.            *)
(* The list polls as long as it shows an active run, may have several      *)
(* requests on their way and forgets everything when one fails; the page   *)
(* of a run polls while the run is active; the indicator always polls.     *)
(***************************************************************************)
EXTENDS Naturals, Sequences, SequencesExt, RunLife

CONSTANTS Sent,       \* a request the server has not answered yet
          MaxFaults,  \* bound on the requests that fail
          MaxAsks     \* bound on the list requests on their way

VARIABLES view, focus, shown, asked, cancelling, sent, stray, selected, comparing, compared, blind, faults
server == <<life, contested, accepted>>
picks == <<selected, comparing, compared>>
screen == <<view, focus, shown, asked, cancelling, sent, stray, picks, blind, faults>>
allVars == <<server, screen>>

LIVE == {"waiting", "running"}
COMPARABLE_OR_CANCELLED == {"succeeded", "partial", "cancelled"}
COMPARABLE == {"succeeded", "partial"}
Views == {"list", "detail", "indicator"}

-----------------------------------------------------------------------------
(* Polling.                                                                *)
Unloaded == [r \in Runs |-> Absent]
NewAsk == [snap |-> Sent, late |-> FALSE]
Watched == IF view = "detail" THEN {focus} ELSE Runs
Following(statuses) == \E r \in Watched : shown[r].status \in statuses

PollsLive == CASE view = "list" -> Following(LIVE) /\ Len(asked) < MaxAsks
               [] view = "detail" -> Following(LIVE) /\ asked = <<>>
               [] view = "indicator" -> asked = <<>>
Polls == CASE view = "list" -> Following(ACTIVE) /\ Len(asked) < MaxAsks
           [] view = "detail" -> Following(ACTIVE) /\ asked = <<>>
           [] view = "indicator" -> asked = <<>>

Ask ==
  /\ Polls
  /\ asked' = Append(asked, NewAsk)
  /\ UNCHANGED <<view, focus, shown, cancelling, sent, stray, picks, blind, faults>>
Serve(i) ==
  /\ asked[i].snap = Sent
  /\ asked' = [asked EXCEPT ![i].snap = life]
  /\ UNCHANGED <<view, focus, shown, cancelling, sent, stray, picks, blind, faults>>
Passed(i) == RemoveAt([j \in DOMAIN asked |-> IF j < i THEN [asked[j] EXCEPT !.late = TRUE] ELSE asked[j]], i)
\* blind: an older answer has replaced a newer one.
Hear(i) ==
  /\ asked[i].snap # Sent
  /\ shown' = asked[i].snap
  /\ blind' = (blind \/ asked[i].late)
  /\ asked' = Passed(i)
  /\ UNCHANGED <<view, focus, cancelling, sent, stray, picks, faults>>
\* blind: the list is empty and polls no more; the page of a run never had its data.
AskFails(i) ==
  /\ faults < MaxFaults /\ faults' = faults + 1
  /\ asked' = RemoveAt(asked, i)
  /\ shown' = IF view = "list" THEN Unloaded ELSE shown
  /\ blind' = (blind \/ view = "list" \/ (view = "detail" /\ shown = Unloaded))
  /\ UNCHANGED <<view, focus, cancelling, sent, stray, picks>>

-----------------------------------------------------------------------------
(* « Annuler », confirmed: the button of a row waits for its own request.  *)
CanCancel(r) == shown[r].status \in ACTIVE /\ ~shown[r].cancel /\ r \notin cancelling
CancelRun(r) ==
  /\ view # "indicator" /\ r \in Watched /\ CanCancel(r)
  /\ cancelling' = cancelling \cup {r}
  /\ sent' = [sent EXCEPT ![r] = @ + 1]
  /\ UNCHANGED <<view, focus, shown, asked, stray, picks, blind, faults, server>>
PendingLast(r) == {}
PendingOthers(r) == cancelling \ {r}
Pending(r) == PendingOthers(r)
Refuses(r) == life[r].status \in {"absent", "succeeded", "failed", "cancelled"}
CancelAnswered(r) ==
  /\ sent[r] > 0
  /\ sent' = [sent EXCEPT ![r] = @ - 1]
  /\ cancelling' = Pending(r)
  /\ \/ Flagged(r)
        /\ asked' = IF view = "list" /\ Len(asked) < MaxAsks THEN Append(asked, NewAsk) ELSE asked
     \/ Refuses(r) /\ UNCHANGED <<server, asked>>
  /\ UNCHANGED <<view, focus, shown, stray, picks, blind, faults>>
\* One sent by a list that is gone.
StrayAnswered(r) ==
  /\ r \in stray /\ stray' = stray \ {r}
  /\ Flagged(r) \/ (Refuses(r) /\ UNCHANGED server)
  /\ UNCHANGED <<view, focus, shown, asked, cancelling, sent, picks, blind, faults>>

-----------------------------------------------------------------------------
(* The comparison of finished runs.                                        *)
Toggle(r) ==
  /\ view = "list" /\ shown[r].status \in COMPARABLE
  /\ selected' = IF r \in selected THEN selected \ {r} ELSE selected \cup {r}
  /\ compared' = {}
  /\ UNCHANGED <<view, focus, shown, asked, cancelling, sent, stray, comparing, blind, faults, server>>
Compare ==
  /\ view = "list" /\ comparing = {} /\ shown # Unloaded
  /\ \E r, s \in selected : r # s
  /\ comparing' = selected
  /\ UNCHANGED <<view, focus, shown, asked, cancelling, sent, stray, selected, compared, blind, faults, server>>
Compared ==
  /\ comparing # {} /\ comparing' = {}
  /\ \/ compared' = comparing /\ UNCHANGED faults
     \/ faults < MaxFaults /\ faults' = faults + 1 /\ UNCHANGED compared
  /\ UNCHANGED <<view, focus, shown, asked, cancelling, sent, stray, selected, blind, server>>

-----------------------------------------------------------------------------
\* A launch from the launcher of the list mounts a new list; one from elsewhere does not.
LaunchHere(r) ==
  /\ Launched(r) /\ view = "list"
  /\ asked' = <<NewAsk>> /\ shown' = Unloaded /\ cancelling' = {}
  /\ stray' = stray \cup {s \in Runs : sent[s] > 0} /\ sent' = [s \in Runs |-> 0]
  /\ selected' = {} /\ comparing' = {} /\ compared' = {}
  /\ UNCHANGED <<view, focus, blind, faults>>
Elsewhere(r) ==
  /\ Launched(r) \/ Progresses(r) \/ (Accepted(r) /\ r \notin accepted) \/ Flagged(r)
  /\ UNCHANGED screen

ScreenInit ==
  /\ Init
  /\ view \in Views /\ focus \in {r \in Runs : life[r] # Absent}
  /\ shown = Unloaded /\ asked = <<NewAsk>>
  /\ cancelling = {} /\ sent = [r \in Runs |-> 0] /\ stray = {}
  /\ selected = {} /\ comparing = {} /\ compared = {} /\ blind = FALSE /\ faults = 0
Network == \E i \in DOMAIN asked : Serve(i) \/ Hear(i)
ScreenNext ==
  \/ (Ask \/ Network \/ \E i \in DOMAIN asked : AskFails(i)) /\ UNCHANGED server
  \/ Compare \/ Compared
  \/ \E r \in Runs : \/ CancelRun(r) \/ CancelAnswered(r) \/ StrayAnswered(r) \/ Toggle(r)
                     \/ LaunchHere(r) \/ Elsewhere(r)

\* The runs end (LabQueue, EveryRunEnds); the timers and the network go on.
Ending(r) == Progresses(r) /\ life'[r].status \in TERMINAL /\ UNCHANGED screen
Polling == (Ask \/ Network) /\ UNCHANGED server
Answered == Network /\ UNCHANGED server

-----------------------------------------------------------------------------
\* What a screen shows as active it shows as ended in the end, unless it went blind
\* (RunResults.tsx, pollIntervalMs; RunList.tsx, the interval).
EndIsShown == \A r \in Runs : (r \in Watched /\ shown[r].status \in ACTIVE)
                                 ~> (shown[r].status \in TERMINAL \/ blind)

\* No second cancellation of a run leaves a list or a page while the first is on its way
\* (RunList.tsx:108-114, pendingCancels).
OneCancelInFlight == \A r \in Runs : sent[r] <= 1

\* A comparison is only asked of runs that have results (RunList.tsx, selectable), but for
\* those whose verdict a second worker may still write over.
ComparedHaveResults ==
  \A r \in (comparing \cup compared) \ contested : life[r].status \in {"succeeded", "partial"}
=============================================================================
