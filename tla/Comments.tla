------------------------------- MODULE Comments -------------------------------
(***************************************************************************)
(* The comments on an annotation: the panel, where a comment is given a    *)
(* scope, the thread of the inspector, on the clause selected, and what    *)
(* the server keeps, which goes with the clause it is on.  The clauses     *)
(* come and go meanwhile, and the autosave gives them to the server.       *)
(***************************************************************************)
EXTENDS Integers, Sequences, FiniteSets, FiniteSetsExt

CONSTANTS
  Sentences,     \* from 0
  Texts,         \* the comments that may be written
  Earlier,       \* the comments of a reviewer, on the document or a clause
  None,
  MaxMoves       \* bound on what the annotator does

VARIABLES
  clauses,    \* the clauses the annotator has: "saved" has an identifier of the server
  focused, selection, clause,   \* the sentence, the sentences and the clause selected
  stored,     \* the comments of the server: [text, on, aim, resolved, copy]
  shown,      \* ... as the page's cache has them
  fetch,      \* the list on its way: [stage, value]
  posts,      \* the comments on their way: [text, on, aim, copy, done], done once stored
  resolving,  \* those about to be marked resolved: [text, done]
  unheard,    \* what the server took and the page was not told of, nor read since
  panel,      \* [scope, body, filter]
  thread,     \* [body, aim]: what is typed in the inspector, and the clause it was typed for
  lost,       \* the texts whose posting failed, as the page sees it
  moves

text == <<clauses, focused, selection, clause>>
server == <<stored, shown, fetch, posts, resolving, unheard, lost>>
vars == <<text, server, panel, thread, moves>>

NoFetch == [stage |-> "none", value |-> {}]
Asked == [stage |-> "asked", value |-> {}]

Init ==
  /\ clauses \in [Sentences -> {"saved", None}] /\ focused = 0 /\ selection = {} /\ clause = None
  /\ stored = {[text |-> r.text, on |-> r.on, aim |-> r.on, resolved |-> FALSE, copy |-> 0] :
                 r \in {x \in Earlier : x.on[1] = "clause" => clauses[x.on[2]] = "saved"}}
  /\ shown = stored /\ fetch = NoFetch /\ posts = {} /\ resolving = {}
  /\ unheard = {} /\ lost = {}
  /\ panel = [scope |-> "document", body |-> None, filter |-> "all"]
  /\ thread = [body |-> None, aim |-> None] /\ moves = 0

Moved == moves < MaxMoves /\ moves' = moves + 1
Writing == Moved /\ UNCHANGED <<text, server>>
Annotating == Moved /\ UNCHANGED <<panel, thread, shown, fetch, resolving, unheard, lost>>

SelectSentences(i, s) ==
  /\ Annotating /\ (s # selection \/ i # focused) /\ focused' = i /\ selection' = s
  /\ UNCHANGED <<clauses, clause, stored, posts>>
SelectClause(i) ==
  /\ Annotating /\ clauses[i] # None /\ clause # i /\ clause' = i /\ focused' = i
  /\ UNCHANGED <<clauses, selection, stored, posts>>
SetBoundary(i) ==
  /\ Annotating /\ clauses[i] = None /\ clauses' = [clauses EXCEPT ![i] = "local"] /\ clause' = i /\ focused' = i
  /\ UNCHANGED <<selection, stored, posts>>
\* Removed from the page; the autosave deletes it from the server, its comments
\* with it, and those on their way will find no clause.
RemoveBoundary(i) ==
  /\ Annotating /\ clauses[i] # None /\ clauses' = [clauses EXCEPT ![i] = None] /\ clause' = None
  /\ stored' = {c \in stored : c.on # <<"clause", i>>}
  /\ posts' = {IF p.on = <<"clause", i>> THEN [p EXCEPT !.on = <<"gone">>] ELSE p : p \in posts}
  /\ UNCHANGED <<focused, selection>>
Saved(i) ==
  /\ clauses[i] = "local" /\ clauses' = [clauses EXCEPT ![i] = "saved"]
  /\ UNCHANGED <<focused, selection, clause, server, panel, thread, moves>>

Enabled(scope) == CASE scope = "range" -> Cardinality(selection) >= 2
                    [] scope = "clause" -> clause # None
                    [] OTHER -> TRUE
SetScope(s) == Writing /\ s # panel.scope /\ Enabled(s) /\ panel' = [panel EXCEPT !.scope = s] /\ UNCHANGED thread
\* A text is written once.
New(t) == t \notin {c.text : c \in stored} \cup {p.text : p \in posts} \cup lost \cup {panel.body, thread.body}
TypeInPanel(t) == Writing /\ New(t) /\ panel' = [panel EXCEPT !.body = t] /\ UNCHANGED thread
Filter == Writing /\ panel' = [panel EXCEPT !.filter = IF @ = "all" THEN "unresolved" ELSE "all"] /\ UNCHANGED thread
TypeInThread(t) ==
  /\ Writing /\ clause # None /\ New(t)
  /\ thread' = [body |-> t, aim |-> <<"clause", clause>>] /\ UNCHANGED panel

\* What the form announces, and what the server makes of what it is sent: it
\* has no range, and no clause it has not saved.
Announced(scope) ==
  CASE scope = "sentence" -> <<"sentence", focused>>
    [] scope = "range" /\ Enabled(scope) -> <<"range", Min(selection), Max(selection)>>
    [] scope = "clause" /\ Enabled(scope) -> <<"clause", clause>>
    [] OTHER -> <<"document">>
ScopeKept(on) ==
  CASE on[1] = "clause" /\ clauses[on[2]] # "saved" -> <<"document">>
    [] on[1] = "range" -> <<"document">>
    [] OTHER -> on
Post(t, on, aim) ==
  /\ posts' = posts \cup {[text |-> t, on |-> ScopeKept(on), aim |-> aim, copy |-> moves, done |-> FALSE]}
  /\ UNCHANGED <<text, stored, shown, fetch, resolving, unheard, lost>>

\* Mutant of Emptied: the form keeps the text until the answer.
KeptInForm(b) == b
\* The form is emptied at once, before the answer.
Emptied(b) == None
Submit ==
  /\ Moved /\ panel.body # None /\ Post(panel.body, Announced(panel.scope), Announced(panel.scope))
  /\ panel' = [panel EXCEPT !.body = Emptied(@)] /\ UNCHANGED thread
SubmitThread ==
  /\ Moved /\ thread.body # None /\ clause # None /\ Post(thread.body, <<"clause", clause>>, thread.aim)
  /\ thread' = [thread EXCEPT !.body = None] /\ UNCHANGED panel
Resolve(c) ==
  /\ Moved /\ c \in shown /\ ~c.resolved /\ resolving' = resolving \cup {[text |-> c.text, done |-> FALSE]}
  /\ UNCHANGED <<text, stored, shown, fetch, posts, unheard, lost, panel, thread>>

Quietly == UNCHANGED <<text, panel, thread, moves>>
\* Mutant of Invalidate: the list is not asked again.
NotAskedAgain == UNCHANGED fetch /\ unheard' = {}
\* The answer of a write asks the list again, and drops one already on its way.
Invalidate == fetch' = Asked /\ unheard' = {}

\* The server takes a write; its answer is on its way.
Posted(p) ==
  LET new == [text |-> p.text, on |-> p.on, aim |-> p.aim, resolved |-> FALSE, copy |-> p.copy]
  IN  /\ p \in posts /\ ~p.done /\ p.on # <<"gone">>
      /\ posts' = (posts \ {p}) \cup {[p EXCEPT !.done = TRUE]}
      /\ stored' = stored \cup {new} /\ unheard' = unheard \cup {new}
      /\ Quietly /\ UNCHANGED <<shown, fetch, resolving, lost>>
Resolved(r) ==
  /\ r \in resolving /\ ~r.done /\ \E c \in stored : c.text = r.text
  /\ resolving' = (resolving \ {r}) \cup {[r EXCEPT !.done = TRUE]}
  /\ stored' = {IF c.text = r.text THEN [c EXCEPT !.resolved = TRUE] ELSE c : c \in stored}
  /\ unheard' = unheard \cup (stored' \ stored)
  /\ Quietly /\ UNCHANGED <<shown, fetch, posts, lost>>
\* Only a success refreshes the list (onSuccess): a refusal, or the answer of a write that
\* was taken and gets lost, leaves it as it is.
PostAnswered(p) ==
  /\ p \in posts /\ p.done /\ posts' = posts \ {p}
  /\ Invalidate /\ Quietly /\ UNCHANGED <<stored, shown, resolving, lost>>
PostFails(p) ==
  /\ p \in posts /\ posts' = posts \ {p} /\ lost' = lost \cup {p.text}
  /\ Quietly /\ UNCHANGED <<stored, shown, fetch, resolving, unheard>>
ResolveAnswered(r) ==
  /\ r \in resolving /\ r.done /\ resolving' = resolving \ {r}
  /\ Invalidate /\ Quietly /\ UNCHANGED <<stored, shown, posts, lost>>
ResolveFails(r) ==
  /\ r \in resolving /\ resolving' = resolving \ {r}
  /\ Quietly /\ UNCHANGED <<stored, shown, fetch, posts, unheard, lost>>
Fetch ==
  /\ fetch.stage = "asked" /\ fetch' = [stage |-> "read", value |-> stored] /\ unheard' = {}
  /\ Quietly /\ UNCHANGED <<stored, shown, posts, resolving, lost>>
Come ==
  /\ fetch.stage = "read" /\ shown' = fetch.value /\ fetch' = NoFetch
  /\ Quietly /\ UNCHANGED <<stored, posts, resolving, unheard, lost>>
\* ... and so does its one retry: the page keeps the list it had.
FetchFails ==
  /\ fetch.stage # "none" /\ fetch' = NoFetch /\ unheard' = unheard \cup (stored \ shown)
  /\ Quietly /\ UNCHANGED <<stored, shown, posts, resolving, lost>>

Next ==
  \/ \E i \in Sentences : \/ SelectClause(i) \/ SetBoundary(i) \/ RemoveBoundary(i) \/ Saved(i)
                          \/ \E s \in SUBSET Sentences : SelectSentences(i, s)
  \/ \E s \in {"document", "sentence", "range", "clause"} : SetScope(s)
  \/ \E t \in Texts : TypeInPanel(t) \/ TypeInThread(t)
  \/ Filter \/ Submit \/ SubmitThread \/ Fetch \/ Come \/ FetchFails
  \/ \E c \in shown : Resolve(c)
  \/ \E r \in resolving : Resolved(r) \/ ResolveAnswered(r) \/ ResolveFails(r)
  \/ \E p \in posts : Posted(p) \/ PostAnswered(p) \/ PostFails(p)

Listed == {c \in shown : panel.filter = "all" \/ ~c.resolved}
ListedInThread == {c \in shown : clause = None \/ clauses[clause] # "saved" \/ c.on = <<"clause", clause>>}

-------------------------------------------------------------------------------
\* A comment is not sent twice, however often the button is pressed while the
\* answer is on its way (CommentsPanel.tsx, submit).
PostedOnce ==
  \A t \in Texts : Cardinality({c.copy : c \in {x \in stored : x.text = t}}
                            \cup {p.copy : p \in {x \in posts : x.text = t}}) <= 1

\* When no list is on its way, what the server keeps is shown, and shown resolved when it
\* is, whatever the order in which the answers and the lists crossed; but for the writes
\* whose answer has not come, or was lost, and what a list that failed would have shown,
\* until a list is read again (hooks.ts, useAddComment, useResolveComment: onSuccess).
NoCommentIsHidden == fetch = NoFetch => stored \subseteq shown \cup unheard

\* A comment is kept where the form said it would be.
CommentIsWhereAnnounced == \A c \in stored : c.on = c.aim

\* No text is lost.
NoTextIsLost == lost = {}

\* What a reviewer wrote stays.
ReviewersWordStays == \A r \in Earlier : clauses = [i \in Sentences |-> "saved"] => \E c \in stored : c.text = r.text

\* The thread of a clause lists the comments on that clause.
ThreadIsOfTheClause == clause # None => \A c \in ListedInThread : c.on = <<"clause", clause>>
================================================================================
