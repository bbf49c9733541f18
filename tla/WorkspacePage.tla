--------------------------- MODULE WorkspacePage ---------------------------
(***************************************************************************)
(* The page of the annotation workspace: what it mounts and mounts again   *)
(* when its queries answer (AnnotationWorkspace.tsx), the prefilling from  *)
(* a judge, and the publication in three stages (WorkspaceToolbar.tsx and  *)
(* its dialogs).  A sentence is bare, prefilled, prefilled and kept, or    *)
(* annotated by hand; a save is one step here (Autosave has its passes).   *)
(* The dialogs cover the page but the shortcuts still reach the store.     *)
(***************************************************************************)
EXTENDS Naturals, FiniteSets

CONSTANTS Sentences, None,
          MaxMoves     \* bound: gestures of the user, of the others, and reconnections

VARIABLES server,  \* the annotation, and the lock of its project
          cached,  \* what the queries hold: the annotation, the lock, who I am, the judge's segments
          asked,   \* the queries on their way
          store,   \* the clauses shown, read-only or not, and the annotation they were loaded for
          prefill, \* the account's preference, and whether this page has applied it
          dialog,  \* the dialogs that are open
          stage,   \* the stage the publication shows, and whether it failed there
          calls,   \* the publications under way
          strays,  \* those of a toolbar that is gone
          moves
vars == <<server, cached, asked, store, prefill, dialog, stage, calls, strays, moves>>

Marks == {"bare", "pre", "kept", "hand"}
Texts == [Sentences -> Marks]
All(m) == [i \in Sentences |-> m]
Idle == [at |-> None, failed |-> FALSE]
Validated(text) == \A i \in Sentences : text[i] \in {"kept", "hand"}

-----------------------------------------------------------------------------
(* What a render mounts.                                                   *)
Known(c) == c.annotation # None
\* Until I am known the annotation is somebody else's.
IsMine(c) == Known(c) /\ c.me
Locked(c) == Known(c) /\ (c.annotation.locked \/ c.project = "locked")
LockedSession(c) == Known(c) /\ c.annotation.locked

SameSession(c, d) == Known(d) /\ IsMine(c) = IsMine(d) /\ LockedSession(c) = LockedSession(d)
\* The store is loaded again when who I am or the lock changes, never for new clauses.
SameIdentity(c, d) == Known(d) /\ IsMine(c) = IsMine(d) /\ Locked(c) = Locked(d)
Reloads(c, d) == Known(c) /\ ~SameIdentity(c, d)
Loaded(c) == [text |-> c.annotation.text, readOnly |-> ~IsMine(c) \/ Locked(c)]

Judged == All("pre")
\* The preference is applied to an annotation that the query holds without a clause.
Prefills(c, p) ==
  /\ IsMine(c) /\ ~Locked(c) /\ p.on /\ p.judge /\ c.judged
  /\ c.annotation.text = All("bare") /\ ~p.done
Mounted(c, p) ==
  LET st == IF Reloads(c, cached) THEN Loaded(c) ELSE store
  IN /\ cached' = c
     /\ IF Prefills(c, p) THEN /\ prefill' = [p EXCEPT !.done = TRUE]
                               /\ store' = IF st.readOnly THEN st ELSE [st EXCEPT !.text = Judged]
                          ELSE prefill' = p /\ store' = st

\* A query answers with what the server holds then.
Answer(q) ==
  /\ q \in asked /\ asked' = asked \ {q}
  /\ Mounted(CASE q = "annotation" -> [cached EXCEPT !.annotation = server.annotation, !.failed = FALSE]
               [] q = "project" -> [cached EXCEPT !.project = server.project]
               [] q = "me" -> [cached EXCEPT !.me = TRUE]
               [] q = "judged" -> [cached EXCEPT !.judged = TRUE], prefill)
  /\ UNCHANGED <<server, dialog, stage, calls, strays, moves>>
Invalidated(q) == asked' = asked \cup {q}
\* A query that fails, even one asked again, puts an error in the place of the page: the
\* toolbar and its dialogs are gone, a publication it had under way goes on alone.
AnswerFails ==
  /\ moves < MaxMoves /\ moves' = moves + 1
  /\ "annotation" \in asked /\ asked' = asked \ {"annotation"}
  /\ cached' = [cached EXCEPT !.failed = TRUE]
  /\ dialog' = {} /\ stage' = Idle /\ calls' = 0 /\ strays' = strays + calls
  /\ UNCHANGED <<server, store, prefill>>
AskAgain ==
  /\ cached.failed /\ "annotation" \notin asked /\ Invalidated("annotation")
  /\ UNCHANGED <<server, cached, store, prefill, dialog, stage, calls, strays, moves>>

Banner == CASE IsMine(cached) /\ cached.project = "locked" -> "campaign"
            [] IsMine(cached) /\ LockedSession(cached) /\ cached.project # "locked" -> "locked"
            [] IsMine(cached) /\ ~Locked(cached) -> "edition"
            [] OTHER -> "reading"
-----------------------------------------------------------------------------
(* The user on the clauses, and the save of what is shown.                 *)
Move == moves < MaxMoves /\ moves' = moves + 1
Writes(text) == Move /\ ~store.readOnly /\ store' = [store EXCEPT !.text = text]
Page == <<server, cached, asked, strays>>
Annotate(i) == Writes([store.text EXCEPT ![i] = "hand"]) /\ UNCHANGED <<Page, prefill, dialog, stage, calls>>
Clear(i) == Writes([store.text EXCEPT ![i] = "bare"]) /\ UNCHANGED <<Page, prefill, dialog, stage, calls>>
ValidateAll ==
  /\ Writes([i \in Sentences |-> IF store.text[i] = "pre" THEN "kept" ELSE store.text[i]])
  /\ UNCHANGED <<Page, prefill, dialog, stage, calls>>

Open == ~server.annotation.locked /\ server.project = "open"
Saves == IsMine(cached) /\ ~Locked(cached)
Saved == [server EXCEPT !.annotation.text = store.text]
Autosave ==
  /\ Saves /\ Open /\ server' = Saved
  /\ UNCHANGED <<cached, asked, store, prefill, dialog, stage, calls, strays, moves>>

-----------------------------------------------------------------------------
(* Prefilling.                                                             *)
Opens(d) == dialog' = dialog \cup {d}
Closes(d) == dialog' = dialog \ {d}
Still == UNCHANGED <<Page, stage, calls>>

Defaults == [on |-> FALSE, judge |-> TRUE, asked |-> FALSE, done |-> FALSE]
\* setPrefill: the judge replaces everything; the first time, the account is asked
\* whether it is to be automatic from now on.
SetPrefill(open) ==
  /\ store' = IF store.readOnly THEN store ELSE [store EXCEPT !.text = Judged]
  /\ dialog' = IF prefill.asked THEN open ELSE open \cup {"consent"}
CanPrefill == ~store.readOnly /\ cached.judged
RequestOverServer ==
  /\ Move /\ CanPrefill
  /\ IF cached.annotation.text # All("bare") THEN Opens("prefill") /\ UNCHANGED store
     ELSE SetPrefill(dialog)
  /\ UNCHANGED prefill /\ Still
RequestPrefill ==
  /\ Move /\ CanPrefill
  /\ IF store.text # All("bare") THEN Opens("prefill") /\ UNCHANGED store
     ELSE SetPrefill(dialog)
  /\ UNCHANGED prefill /\ Still
ConfirmPrefill == "prefill" \in dialog /\ SetPrefill(dialog \ {"prefill"}) /\ UNCHANGED <<prefill, moves>> /\ Still
CancelPrefill == "prefill" \in dialog /\ Closes("prefill") /\ UNCHANGED <<store, prefill, moves>> /\ Still
\* « Aucun » takes the judge's clauses away, kept or not.
ClearPrefill ==
  /\ Writes([i \in Sentences |-> IF store.text[i] = "hand" THEN "hand" ELSE "bare"])
  /\ UNCHANGED <<prefill, dialog>> /\ Still

\* The preference of the account: the wand or the switch, the model (choosing one also
\* turns it on), the consent, the reset. The page renders with it at once.
Prefers(p) == Move /\ Mounted(cached, p) /\ UNCHANGED <<server, asked, stage, calls, strays>>
ToggleAuto == Prefers([prefill EXCEPT !.on = ~@]) /\ UNCHANGED dialog
SetJudge(j) == Prefers([prefill EXCEPT !.judge = j, !.on = TRUE]) /\ UNCHANGED dialog
ResetPrefs == Prefers([Defaults EXCEPT !.done = prefill.done]) /\ UNCHANGED dialog
Consent == "consent" \in dialog /\ Closes("consent") /\ Prefers([prefill EXCEPT !.on = TRUE, !.judge = TRUE, !.asked = TRUE])
Decline == "consent" \in dialog /\ Closes("consent") /\ Prefers([prefill EXCEPT !.asked = TRUE])

-----------------------------------------------------------------------------
(* Publication: save, version, publish.                                    *)
Quiet == UNCHANGED <<cached, store, prefill, strays>>
GoesOn == Quiet /\ UNCHANGED moves
At(s) == [at |-> s, failed |-> FALSE]
OpenSubmit == Move /\ ~store.readOnly /\ Opens("submit") /\ UNCHANGED <<server, asked, stage, calls>> /\ Quiet
CancelSubmit == "submit" \in dialog /\ Closes("submit") /\ UNCHANGED <<server, asked, stage, calls>> /\ GoesOn
RunSubmission ==
  stage' = At("save") /\ calls' = calls + 1 /\ Closes("submit") /\ UNCHANGED <<server, asked>> /\ GoesOn
Busy == calls > 0
Confirm == "submit" \in dialog /\ Validated(store.text) /\ ~Busy /\ RunSubmission
RetryAlways == stage # Idle /\ calls < 2 /\ RunSubmission
Retry == stage.failed /\ RunSubmission
CloseError == stage.failed /\ stage' = Idle /\ UNCHANGED <<server, asked, dialog, calls>> /\ GoesOn

\* Where there is nothing to flush (read-only) the flush has converged.
Flushed ==
  /\ Busy /\ stage = At("save")
  /\ IF Saves THEN Open /\ server' = Saved ELSE UNCHANGED server
  /\ stage' = At("version") /\ UNCHANGED <<asked, dialog, calls>> /\ GoesOn
\* A version freezes what the server holds, whatever its locks (AnnotationLifecycle).
Versioned ==
  /\ Busy /\ stage = At("version") /\ stage' = At("publish")
  /\ UNCHANGED <<server, asked, dialog, calls>> /\ GoesOn
Publishable == server.project = "open" /\ server.annotation.text # All("bare")
\* The publication of a toolbar that is gone: nobody is told.
StrayEnds ==
  /\ strays > 0 /\ strays' = strays - 1
  /\ \/ server.annotation.status = "draft" /\ Publishable
        /\ server' = [server EXCEPT !.annotation.status = "submitted", !.annotation.locked = TRUE]
        /\ Invalidated("annotation")
     \/ UNCHANGED <<server, asked>>
  /\ UNCHANGED <<cached, store, prefill, dialog, stage, calls, moves>>
Published ==
  /\ Busy /\ stage = At("publish")
  /\ server.annotation.status = "draft" => Publishable
  /\ server' = [server EXCEPT !.annotation.status = "submitted",
                              !.annotation.locked = @ \/ server.annotation.status = "draft"]
  /\ Invalidated("annotation") /\ Opens("success")
  /\ stage' = Idle /\ calls' = calls - 1 /\ GoesOn
\* A stage fails: a refusal, a save that does not converge, a lost request or answer.
FailsSilently ==
  /\ Busy /\ ~stage.failed /\ stage # Idle
  /\ stage' = [stage EXCEPT !.failed = TRUE] /\ UNCHANGED <<server, asked, dialog, calls>> /\ GoesOn
StageFails ==
  /\ Busy /\ ~stage.failed /\ stage # Idle
  /\ stage' = [stage EXCEPT !.failed = TRUE] /\ calls' = calls - 1
  /\ UNCHANGED <<server, asked, dialog>> /\ GoesOn

-----------------------------------------------------------------------------
(* Locks.                                                                  *)
CloseSuccess == "success" \in dialog /\ Closes("success") /\ UNCHANGED <<server, asked, stage, calls>> /\ GoesOn
\* The flush before a lock may fail: the lock is set all the same.
Lock ==
  /\ Move /\ Saves
  /\ server' \in {[server EXCEPT !.annotation.locked = TRUE]} \cup
       (IF Open THEN {[Saved EXCEPT !.annotation.locked = TRUE]} ELSE {})
  /\ Invalidated("annotation") /\ UNCHANGED <<dialog, stage, calls>> /\ Quiet
AskUnlock ==
  Move /\ IsMine(cached) /\ LockedSession(cached) /\ cached.project # "locked" /\ Opens("unlock")
  /\ UNCHANGED <<server, asked, stage, calls>> /\ Quiet
\* From the confirmation, or directly from the dialog of success.
Unlock(d) ==
  /\ d \in dialog /\ IsMine(cached) /\ (d = "success" => cached.project # "locked")
  /\ IF server.project = "open"
     THEN /\ server' = [server EXCEPT !.annotation.locked = FALSE, !.annotation.status = "draft"]
          /\ Invalidated("annotation")
     ELSE UNCHANGED <<server, asked>>
  /\ Closes(d) /\ UNCHANGED <<stage, calls>> /\ GoesOn
CancelUnlock == "unlock" \in dialog /\ Closes("unlock") /\ UNCHANGED <<server, asked, stage, calls>> /\ GoesOn

(* The rest of the world.                                                  *)
Event == Move /\ UNCHANGED <<cached, store, prefill, dialog, stage, calls, strays>>
ProjectLock ==
  Event /\ \E p \in {"open", "locked"} \ {server.project} : server' = [server EXCEPT !.project = p] /\ UNCHANGED asked
\* The network returns: every query is asked again.
Reconnect == Event /\ asked' = asked \cup {"annotation", "project"} /\ UNCHANGED server

Init ==
  /\ \E t \in {All("bare"), All("hand")}, l \in BOOLEAN, p \in {"open", "locked"} :
       server = [annotation |-> [text |-> t, locked |-> l, status |-> IF l THEN "submitted" ELSE "draft"],
                 project |-> p]
  /\ cached = [annotation |-> None, failed |-> FALSE, project |-> "unknown", me |-> FALSE, judged |-> FALSE]
  /\ asked = {"annotation", "project", "me", "judged"}
  /\ store = [text |-> All("bare"), readOnly |-> FALSE]
  /\ \E on \in BOOLEAN : prefill = [Defaults EXCEPT !.on = on, !.asked = on]
  /\ dialog = {} /\ stage = Idle /\ calls = 0 /\ strays = 0 /\ moves = 0

Shown == Known(cached) /\ ~cached.failed
OnClauses == (\E i \in Sentences : Annotate(i) \/ Clear(i)) \/ ValidateAll \/ Autosave
Prefilling == \/ RequestPrefill \/ ConfirmPrefill \/ CancelPrefill \/ ClearPrefill
              \/ ToggleAuto \/ ResetPrefs \/ Consent \/ Decline \/ \E j \in BOOLEAN : SetJudge(j)
Stages == Flushed \/ Versioned \/ Published \/ StageFails
Publishing == OpenSubmit \/ CancelSubmit \/ Confirm \/ Retry \/ CloseError \/ Stages \/ CloseSuccess
Locking == Lock \/ AskUnlock \/ CancelUnlock \/ \E d \in {"unlock", "success"} : Unlock(d)
Next == \/ \E q \in asked : Answer(q)
        \/ Shown /\ (OnClauses \/ Prefilling \/ Publishing \/ Locking)
        \/ AnswerFails \/ AskAgain \/ StrayEnds \/ ProjectLock \/ Reconnect
Spec == Init /\ [][Next]_vars

-----------------------------------------------------------------------------
\* Types of the state.
TypeOK ==
  /\ server \in [annotation : [text : Texts, locked : BOOLEAN, status : {"draft", "submitted"}],
                 project : {"open", "locked"}]
  /\ asked \subseteq {"annotation", "project", "me", "judged"}
  /\ store \in [text : Texts, readOnly : BOOLEAN]
  /\ prefill \in [on : BOOLEAN, judge : BOOLEAN, asked : BOOLEAN, done : BOOLEAN]
  /\ dialog \subseteq {"submit", "prefill", "consent", "success", "unlock"}
  /\ calls + strays <= MaxMoves
  /\ stage \in [at : {"save", "version", "publish", None}, failed : BOOLEAN]

\* The banner says « Ma session — édition » exactly when the store takes edits, and never
\* under a lock, whatever the order in which the queries answer and fail
\* (AnnotationWorkspace.tsx, readOnly: !isMine || locked, and the banners).
BannerTellsTheStore == Shown => (Banner = "edition" <=> ~store.readOnly)

\* The prefilling of the toolbar replaces clauses made by hand only after its
\* confirmation (WorkspaceToolbar.tsx, requestPrefill).
HandWorkIsConfirmed ==
  cached' = cached /\ prefill' = prefill =>
    \A i \in Sentences : store.text[i] = "hand" /\ store'.text[i] = "pre" => "prefill" \in dialog

\* Two publications of one toolbar never run together, whatever dialog is left open or tried again
\* (WorkspaceToolbar.tsx, submitting; SubmissionProgressDialog.tsx).
OneSubmission == calls <= 1

\* A publication ends: in the success, or in an error that can be tried again.
SubmissionEnds == Busy ~> ~Busy

\* The automatic prefilling never takes the place of work done by hand
\* (PreferencesPopover.tsx, « jamais d'écrasement »).
AutoPrefillSparesHandWork ==
  [][prefill'.done # prefill.done => \A i \in Sentences : store.text[i] = "hand" => store'.text[i] = "hand"]_vars

\* When the edition opens again, the clauses are those of the server
\* (AnnotationWorkspace.tsx, « il relit les clauses serveur fraîches à chaque re-init »).
ReopensFresh ==
  [][Shown /\ store.readOnly /\ ~store'.readOnly /\ ~prefill'.done => store'.text = server.annotation.text]_vars
=============================================================================
