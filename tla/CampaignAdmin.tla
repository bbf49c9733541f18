----------------------------- MODULE CampaignAdmin -----------------------------
(***************************************************************************)
(* The page where an administrator runs a campaign: the members, who       *)
(* annotates which document, one cell at a time or in bulk, the lock and   *)
(* the publication.  Each write is followed by the fetching again of the   *)
(* list it changed, and by nothing else; the sessions go on meanwhile.     *)
(***************************************************************************)
EXTENDS Integers, Sequences, FiniteSets, FiniteSetsExt

CONSTANTS
  Documents, Users,  \* in the order of the server
  Openings,          \* the memberships the page may open on
  Invited,           \* the names typed in the form
  None,
  MaxMoves           \* bound on what the administrator does

VARIABLES
  members,    \* the role of each user in the campaign, None for the others
  assigned,   \* <<document, user>>
  project,    \* [locked, public]
  sessions,   \* <<document, user>> annotated
  shown,      \* what the page has of the three lists
  fetch,      \* the lists on their way: [stage, value]
  writes,     \* the writes on their way: [id, kind, cell, done], done once the server took it
  unheard,    \* the lists with a write the page was not told of, nor read since
  busy,       \* the button that waits, of each list
  moves

server == <<members, assigned, project, sessions>>
page == <<shown, fetch, writes, unheard, busy>>
vars == <<server, page, moves>>

Lists == {"members", "assignments", "project"}
There == [members |-> members, assignments |-> assigned, project |-> project]
NoFetch == [stage |-> "none", value |-> {}]
Cells == Range(Documents) \X Range(Users)

Init ==
  /\ members \in Openings
  /\ assigned = {} /\ project = [locked |-> FALSE, public |-> FALSE] /\ sessions = {}
  /\ shown = There /\ fetch = [l \in Lists |-> NoFetch] /\ writes = {} /\ unheard = {}
  /\ busy = [l \in Lists |-> None] /\ moves = 0

Moved == moves < MaxMoves /\ moves' = moves + 1
Annotating(m) == {u \in Range(Users) : m[u] \in {"annotator", "lead"}}
Columns == Annotating(shown.members)

ListOf(kind) == CASE kind \in {"add", "remove"} -> "members"
                  [] kind \in {"create", "delete", "bulk"} -> "assignments"
                  [] OTHER -> "project"
Write(kind, cell) ==
  /\ Moved /\ writes' = writes \cup {[id |-> moves, kind |-> kind, cell |-> cell, done |-> FALSE]}
  /\ UNCHANGED <<server, shown, fetch, unheard>>
Waits(list, what) == busy' = [busy EXCEPT ![list] = what]

\* The cell does the contrary of what is shown; only the last one clicked is disabled.
Toggle(d, u) ==
  /\ u \in Columns /\ busy["assignments"] # <<d, u>>
  /\ Write(IF <<d, u>> \in shown.assignments THEN "delete" ELSE "create", <<d, u>>)
  /\ Waits("assignments", <<d, u>>)
AssignOverlap(k) ==
  /\ Columns # {} /\ {w \in writes : w.kind = "bulk"} = {}
  /\ Write("bulk", <<k>>) /\ UNCHANGED busy
AddMember(u, role) == busy["members"] = None /\ Write("add", <<u, role>>) /\ Waits("members", <<u>>)
RemoveMember(u) == shown.members[u] # None /\ Write("remove", <<u>>) /\ UNCHANGED busy
ToggleProject(kind) ==
  /\ busy["project"] = None
  /\ kind = (IF shown.project.locked THEN "unlock" ELSE "lock")
       \/ kind = (IF shown.project.public THEN "unpublish" ELSE "publish")
  /\ Write(kind, <<>>) /\ Waits("project", <<kind>>)

\* Each document goes to k annotators, one further at each document; a campaign without
\* annotators falls back on all its members.
Team == LET annotators == SelectSeq(Users, LAMBDA u : members[u] = "annotator")
        IN  IF annotators # <<>> THEN annotators ELSE SelectSeq(Users, LAMBDA u : members[u] # None)
\* A bug: the first annotators get every document.
NoRotation(n, team, k) ==
  LET few == Max({1, Min({k, Len(team)})})
  IN  {<<i, team[j + 1]>> : i \in 1 .. n, j \in 0 .. few - 1}
RoundRobin(n, team, k) ==
  LET few == Max({1, Min({k, Len(team)})})
  IN  {<<i, team[((i - 1 + j) % Len(team)) + 1]>> : i \in 1 .. n, j \in 0 .. few - 1}

\* A bug: a fetch already on its way is thought good enough.
Kept(list) ==
  /\ fetch' = [fetch EXCEPT ![list] = IF @.stage = "none" THEN [@ EXCEPT !.stage = "asked"] ELSE @]
  /\ unheard' = unheard \ {list}
\* The answer of a write asks its list again, and drops a fetch already on its way.
Invalidate(list) ==
  /\ fetch' = [fetch EXCEPT ![list] = [NoFetch EXCEPT !.stage = "asked"]]
  /\ unheard' = unheard \ {list}
\* The server takes a write; its answer is on its way.
Written(w) ==
  /\ ~w.done /\ writes' = (writes \ {w}) \cup {[w EXCEPT !.done = TRUE]}
  /\ unheard' = unheard \cup {ListOf(w.kind)}
  /\ CASE w.kind = "create" -> assigned' = assigned \cup {w.cell} /\ UNCHANGED <<members, project>>
       [] w.kind = "delete" -> assigned' = assigned \ {w.cell} /\ UNCHANGED <<members, project>>
       [] w.kind = "bulk" ->
            /\ Team # <<>>
            /\ assigned' = assigned \cup {<<Documents[p[1]], p[2]>> : p \in RoundRobin(Len(Documents), Team, w.cell[1])}
            /\ UNCHANGED <<members, project>>
       [] w.kind = "add" -> members' = [members EXCEPT ![w.cell[1]] = w.cell[2]] /\ UNCHANGED <<assigned, project>>
       [] w.kind = "remove" -> members' = [members EXCEPT ![w.cell[1]] = None] /\ UNCHANGED <<assigned, project>>
       [] w.kind \in {"lock", "unlock"} ->
            project' = [project EXCEPT !.locked = w.kind = "lock"] /\ UNCHANGED <<members, assigned>>
       [] OTHER -> project' = [project EXCEPT !.public = w.kind = "publish"] /\ UNCHANGED <<members, assigned>>
  /\ UNCHANGED <<sessions, shown, fetch, busy, moves>>
\* Only a success asks the list again: a refusal, or the answer of a write that was taken
\* and gets lost, frees the button and leaves the list as it is.
Answered(w) ==
  /\ w.done /\ writes' = writes \ {w} /\ Invalidate(ListOf(w.kind)) /\ UNCHANGED <<server, shown, busy, moves>>
WriteFails(w) ==
  /\ writes' = writes \ {w} /\ Waits(ListOf(w.kind), None) /\ UNCHANGED <<server, shown, fetch, unheard, moves>>
Fetch(list) ==
  /\ fetch[list].stage = "asked" /\ unheard' = unheard \ {list}
  /\ fetch' = [fetch EXCEPT ![list] = [stage |-> "come", value |-> <<There[list]>>]]
  /\ UNCHANGED <<server, shown, writes, busy, moves>>
Come(list) ==
  /\ fetch[list].stage = "come" /\ shown' = [shown EXCEPT ![list] = fetch[list].value[1]]
  /\ fetch' = [fetch EXCEPT ![list] = NoFetch] /\ Waits(list, None)
  /\ UNCHANGED <<server, writes, unheard, moves>>
\* ... and so does its one retry: the page keeps the list it had.
FetchFails(list) ==
  /\ fetch[list].stage # "none" /\ unheard' = unheard \cup {list}
  /\ fetch' = [fetch EXCEPT ![list] = NoFetch] /\ Waits(list, None)
  /\ UNCHANGED <<server, shown, writes, moves>>

\* An annotator works on a document of theirs.
Annotate(c) == Moved /\ c \in assigned \ sessions /\ ~project.locked /\ sessions' = sessions \cup {c}
  /\ UNCHANGED <<members, assigned, project, page>>

Next ==
  \/ \E d \in Range(Documents), u \in Range(Users) : Toggle(d, u) \/ Annotate(<<d, u>>)
  \/ \E u \in Invited : AddMember(u, "annotator") \/ RemoveMember(u)
  \/ \E k \in 1 .. 2 : AssignOverlap(k)
  \/ \E kind \in {"lock", "unlock", "publish", "unpublish"} : ToggleProject(kind)
  \/ \E w \in writes : Written(w) \/ Answered(w) \/ WriteFails(w)
  \/ \E l \in Lists : Fetch(l) \/ Come(l) \/ FetchFails(l)
-----------------------------------------------------------------------------
\* The sessions matrix has a column per member who annotates; a line of progress, their share.
SessionColumns == Annotating(members)
Share(u) == LET due == Cardinality({c \in assigned : c[2] = u})
                begun == Cardinality({c \in sessions : c[2] = u})
            IN  IF due = 0 THEN 0 ELSE (100 * begun) \div due

\* A list that is not on its way is the server's, whatever the order in which writes and
\* fetches crossed; but for a list with a write whose answer has not come, or was lost, and
\* one that failed, until it is read again (page.tsx: invalidateQueries after each success).
PageSettles == \A l \in Lists \ unheard : fetch[l].stage = "none" => shown[l] = There[l]
\* The bulk shares the documents out: no annotator has many more than another, the gap being
\* at most the overlap and at most the annotators it leaves out (projects/views.py); of the memberships the
\* page opens on.
BulkIsShared ==
  LET team == SelectSeq(Users, LAMBDA u : members[u] # None)
      load(n, k, u) == Cardinality({p \in RoundRobin(n, team, k) : p[2] = u})
  IN  moves = 0 => \A n \in 0 .. 5, k \in 1 .. Len(team) : \A u, v \in Range(team) :
        load(n, k, u) - load(n, k, v) <= Min({k, Len(team) - k, n})
\* « round-robin équilibré »: refuted as soon as two documents go to two of four annotators.
BulkIsBalanced ==
  LET team == SelectSeq(Users, LAMBDA u : members[u] # None)
  IN  moves = 0 => \A n \in 0 .. 5, k \in 1 .. Len(team) : \A u, v \in Range(team) :
        Cardinality({p \in RoundRobin(n, team, k) : p[2] = u}) - Cardinality({p \in RoundRobin(n, team, k) : p[2] = v}) <= 1
\* Refuted: a cell may be clicked again while its write is on its way, once another was clicked.
OneWritePerCell == \A v, w \in writes : {v.kind, w.kind} \subseteq {"create", "delete"} /\ v.cell = w.cell => v = w
\* Refuted by a member removed, or by the fallback of the bulk on the reviewers.
EveryAssignmentHasAColumn == \A c \in assigned : c[2] \in SessionColumns
EverySessionHasAColumn == \A c \in sessions : c[2] \in SessionColumns
\* Refuted by a cell emptied after its session began.
ShareIsAPercentage == \A u \in Range(Users) : Share(u) <= 100
=============================================================================
