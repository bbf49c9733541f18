------------------------------ MODULE MockServer ------------------------------
(***************************************************************************)
(* The server the tests of the studio talk to (frontend/src/mocks/         *)
(* handlers.ts), beside the one it stands for (annotations/views.py): both *)
(* are sent the same requests.  A clause is what the two may disagree on:  *)
(* its theme, its tags, its certainty.                                     *)
(***************************************************************************)
EXTENDS Naturals, FiniteSets

CONSTANTS Anchors, Themes,
          MaxRequests      \* bound: requests sent

VARIABLES mock, server,    \* an annotation: its status, its lock, its clauses by anchor
          projectLocked,   \* of the mock
          apart,           \* the requests sent that the two are known to treat differently
          requests
vars == <<mock, server, projectLocked, apart, requests>>

Absent == "absent"         \* a field the request does not hold
Certainties == {"null", "sure"}
Set(p, others) == [primary |-> p, others |-> others]
Mono(t) == Set(t, {})
TagSets == UNION {{Set(p, others) : others \in SUBSET (Themes \ {p})} : p \in Themes}
NoTags == Set(Absent, {})
NoClause == [theme |-> Absent, tags |-> NoTags, certainty |-> Absent]
Body(theme, tags, certainty) == [theme |-> theme, tags |-> tags, certainty |-> certainty]
\* What the studio sends (lib/api/endpoints.ts): addClause names every scalar field, a batch
\* only the themes, patchClause what changes.
AddBodies == {Body(t, g, c) : t \in Themes, g \in TagSets \cup {NoTags}, c \in Certainties}
BatchBodies == {Body(t, g, Absent) : t \in Themes, g \in TagSets \cup {NoTags}}
PatchBodies == {Body(t, g, c) : t \in Themes \cup {Absent}, g \in TagSets \cup {NoTags},
                                c \in Certainties \cup {Absent}}
Or(given, otherwise) == IF given = Absent THEN otherwise ELSE given
TagsOr(given, otherwise) == IF given = NoTags THEN otherwise ELSE given

---------------------------------------------------------------------------
\* The mock.
\* buildMockClause
Build(b) == LET tags == TagsOr(b.tags, Mono(b.theme))
            IN  [theme |-> tags.primary, tags |-> tags, certainty |-> Or(b.certainty, "null")]
\* Mutant of Merge: the clause is replaced.
Replace(x, b) == Build(b)
\* mergeMockClause
Merge(x, b) ==
  LET tags == TagsOr(b.tags, x.tags)
  IN  [theme |-> tags.primary, tags |-> tags, certainty |-> Or(b.certainty, x.certainty)]
\* PATCH /clauses/:id: nothing can be erased, the scalar and the tags go their own ways.
MockPatched(x, b) ==
  [theme |-> Or(b.theme, x.theme), tags |-> TagsOr(b.tags, x.tags),
   certainty |-> IF b.certainty \in {Absent, "null"} THEN x.certainty ELSE b.certainty]
\* swap-primary: the label becomes the primary, be it a tag of the clause or not.
MockSwapped(x, label) ==
  IF label \in x.tags.others
  THEN [x EXCEPT !.theme = label, !.tags = Set(label, (@.others \ {label}) \cup {@.primary})]
  ELSE [x EXCEPT !.theme = label,
                 !.tags = IF label = @.primary THEN @ ELSE Set(Absent, @.others \cup {@.primary})]
MockUnlocked(a) ==
  [a EXCEPT !.locked = FALSE, !.status = IF @ = "submitted" THEN "draft" ELSE @]

---------------------------------------------------------------------------
\* The server.
Created(b) == LET tags == TagsOr(b.tags, Mono(b.theme))
              IN  [theme |-> tags.primary, tags |-> tags, certainty |-> Or(b.certainty, "null")]
\* add_clause and add_clauses_batch: the scalar is written, the tags only when given.
Upserted(x, b) ==
  IF b.tags # NoTags
  THEN [theme |-> b.tags.primary, tags |-> b.tags, certainty |-> Or(b.certainty, x.certainty)]
  ELSE [x EXCEPT !.theme = b.theme, !.certainty = Or(b.certainty, @)]
\* partial_update: without tags, a new scalar is the only tag.
Patched(x, b) ==
  LET tags == IF b.tags # NoTags THEN b.tags
              ELSE IF b.theme # Absent THEN Mono(b.theme) ELSE x.tags
  IN  [theme |-> tags.primary, tags |-> tags, certainty |-> Or(b.certainty, x.certainty)]
Swapped(x, label) ==
  IF label \in x.tags.others
  THEN [x EXCEPT !.theme = label, !.tags = Set(label, (@.others \ {label}) \cup {@.primary})]
  ELSE x

---------------------------------------------------------------------------
Draft == [status |-> "draft", locked |-> FALSE, clauses |-> [s \in Anchors |-> NoClause]]
Init == mock = Draft /\ server = Draft /\ projectLocked = FALSE /\ apart = {} /\ requests = 0
\* A request, and the reasons why the two may answer it differently.
Request(reasons) ==
  /\ requests < MaxRequests /\ requests' = requests + 1
  /\ apart' = apart \cup {r \in DOMAIN reasons : reasons[r]}
  /\ UNCHANGED projectLocked
Has(a, s) == a.clauses[s] # NoClause
Put(a, s, x) == [a EXCEPT !.clauses[s] = x]
\* The server refuses what the mock does to a locked annotation.
OnServer(a) == IF server.locked THEN server ELSE a

AddClause(s, b, upsert) ==
  /\ Request([locked |-> server.locked,
              mono |-> Has(mock, s) /\ upsert /\ b.tags = NoTags])
  /\ mock' = IF ~Has(mock, s) THEN Put(mock, s, Build(b))
             ELSE IF upsert THEN Put(mock, s, Merge(mock.clauses[s], b)) ELSE mock
  /\ server' = OnServer(IF ~Has(server, s) THEN Put(server, s, Created(b))
                        ELSE IF upsert THEN Put(server, s, Upserted(server.clauses[s], b))
                        ELSE server)
PatchClause(s, b) ==
  /\ Has(mock, s) /\ Has(server, s)
  /\ Request([locked |-> server.locked, erased |-> b.certainty = "null",
              mono |-> b.tags = NoTags /\ b.theme # Absent,
              mirror |-> b.tags # NoTags /\ b.theme # b.tags.primary])
  /\ mock' = Put(mock, s, MockPatched(mock.clauses[s], b))
  /\ server' = OnServer(Put(server, s, Patched(server.clauses[s], b)))
SwapPrimary(s, label) ==
  /\ Has(mock, s) /\ Has(server, s)
  /\ Request([locked |-> server.locked,
              label |-> label \notin server.clauses[s].tags.others \cup {server.clauses[s].tags.primary}])
  /\ mock' = Put(mock, s, MockSwapped(mock.clauses[s], label))
  /\ server' = OnServer(Put(server, s, Swapped(server.clauses[s], label)))
DeleteClause(s) ==
  /\ Has(mock, s) /\ Has(server, s) /\ Request([locked |-> server.locked])
  /\ mock' = Put(mock, s, NoClause) /\ server' = OnServer(Put(server, s, NoClause))

\* Submitting locks; the server refuses what is empty or not a draft.
Submit ==
  /\ Request([empty |-> \A s \in Anchors : ~Has(server, s), machine |-> server.status # "draft"])
  /\ mock' = [mock EXCEPT !.status = "submitted", !.locked = TRUE]
  /\ server' = IF server.status = "draft" /\ \E s \in Anchors : Has(server, s)
               THEN [server EXCEPT !.status = "submitted", !.locked = TRUE] ELSE server
Lock ==
  /\ Request([locked |-> FALSE])
  /\ mock' = [mock EXCEPT !.locked = TRUE] /\ server' = [server EXCEPT !.locked = TRUE]
Unlock ==
  /\ Request([locked |-> FALSE])
  /\ mock' = MockUnlocked(mock)
  /\ server' = [server EXCEPT !.locked = FALSE, !.status = IF @ = "submitted" THEN "draft" ELSE @]
\* The lock of the project only shows in the mock.
LockProject ==
  /\ requests < MaxRequests /\ requests' = requests + 1 /\ projectLocked' = ~projectLocked
  /\ apart' = apart \cup {"locked"} /\ UNCHANGED <<mock, server>>
\* resetDb, between two tests.
ResetDb == /\ requests > 0 /\ requests' = 0 /\ apart' = {} /\ projectLocked' = FALSE
           /\ mock' = Draft /\ server' = Draft

Next ==
  \/ \E s \in Anchors :
       \/ \E b \in AddBodies, upsert \in BOOLEAN : AddClause(s, b, upsert)
       \/ \E b \in BatchBodies : AddClause(s, b, TRUE)
       \/ \E b \in PatchBodies : PatchClause(s, b)
       \/ \E t \in Themes : SwapPrimary(s, t)
       \/ DeleteClause(s)
  \/ Submit \/ Lock \/ Unlock \/ LockProject \/ ResetDb

---------------------------------------------------------------------------
\* After requests that are none of the kinds known to be treated differently, the mock
\* holds what the server would hold.
MockIsFaithful == apart = {} => mock = server
\* Refuted by the server: an upsert without tags changes the scalar theme alone.
ServerMirrorsPrimary ==
  \A s \in Anchors : Has(server, s) => server.clauses[s].theme = server.clauses[s].tags.primary
=============================================================================
