------------------------------ MODULE QueryCache ------------------------------
(***************************************************************************)
(* The data the pages of the frontend show: every view is an entry of one   *)
(* client cache, filed under a hierarchical key, and every mutation that    *)
(* the server has answered invalidates the keys its hook names, with all    *)
(* the keys they are a prefix of.  The tables, the keys and the            *)
(* invalidations are those of lib/api/hooks.ts, what a request reads or     *)
(* writes is taken from lib/api/endpoints.ts and types/contract.ts.         *)
(*                                                                         *)
(* Time is counted in writes: the server's clock goes up by one at every    *)
(* write it serves, and an answer is as recent as the clock it was read at. *)
(***************************************************************************)
EXTENDS Naturals, FiniteSets, Sequences, SequencesExt, TLC

CONSTANTS None,        \* no data, no request
          Sent,        \* a request on its way to the server
          MaxWrites,   \* bound on the writes the server serves
          MaxFaults,   \* bound on the answers that are lost
          MaxCalls,    \* bound on the mutations in flight at once
          MaxViews     \* how many views of a page are followed at once

-----------------------------------------------------------------------------
(* What the server keeps, by the part of the contract that shows it. *)
AccountTables  == {"account", "health"}
CorpusTables   == {"corpora", "documents", "translations", "schemes"}
CampaignTables == {"project", "visibility", "campaignLock", "members", "assignments"}
SessionTables  == {"sessions", "clauses", "seeds"}
HistoryTables  == {"versions", "presence", "flags", "shareLinks"}
TalkTables     == {"comments", "contributors", "reviews"}
OfficeTables   == {"sets", "activity", "exports", "exportJob"}
GoldTables     == {"goldRows", "goldLock", "goldConfig", "judges"}
Tables == AccountTables \cup CorpusTables \cup CampaignTables \cup SessionTables
            \cup HistoryTables \cup TalkTables \cup OfficeTables \cup GoldTables

(* What each request reads, by group of endpoints. *)
AccountReads == [getMe |-> {"account"}]
HealthReads  == [getHealth |-> {"health"}]
CorpusReads  == [listCorpora |-> {"corpora"}, listCorpusDocuments |-> {"documents"},
                 getDocument |-> {"documents"}, getDocumentTranslations |-> {"translations"}]
SchemeReads  == [getScheme |-> {"schemes"}]
CampaignReads ==
  [listProjects          |-> {"project", "visibility", "campaignLock"},
   getProject            |-> {"project", "visibility", "campaignLock"},
   listAssignments       |-> {"assignments"},
   listProjectDocuments  |-> {"assignments", "sessions", "clauses"},
   getProjectProgress    |-> {"assignments", "sessions", "clauses"},
   getProjectIaa         |-> {"sessions", "clauses"},
   listMembers           |-> {"members"},
   getAnnotatorsProgress |-> {"members", "assignments", "sessions"}]
SessionReads == [getAnnotation |-> {"sessions", "clauses"}]
HistoryReads == [listVersions |-> {"versions"}, getVersionDiff |-> {"versions"},
                 listComments |-> {"comments"}]
AuthorReads  == [getDocumentContributors |-> {"contributors"}, getAttribution |-> {"sessions", "clauses"},
                 getSentenceHistory |-> {"versions"}]
InsightReads == [getProjectInsights |-> {"sessions", "clauses", "comments", "versions", "translations"},
                 getDocumentInsights |-> {"sessions", "clauses", "comments"}]
CollabReads  == [getFeatureFlags |-> {"flags"}, getPresence |-> {"presence"}]
ReviewReads  == [listReviews |-> {"reviews"}]
SeedReads    == [listPreAnnotations |-> {"seeds"}, getAnnotationVersions |-> {"seeds"}]
ActivityReads == [listActivity |-> {"activity"}]
OfficeReads  == [listProjectExports |-> {"exports", "exportJob"}, getExport |-> {"exportJob"},
                 listTranslationSets |-> {"sets"}]
GoldReads ==
  [listGoldDocuments     |-> {"goldRows", "goldLock", "sessions", "judges"},
   getGoldDocument       |-> {"goldRows", "goldLock", "goldConfig", "sessions", "judges"},
   getGoldStats          |-> {"goldRows"},
   getGoldConfig         |-> {"goldConfig"},
   listGoldLlmAnnotators |-> {"judges"}]

(* What each request writes. *)
CampaignWrites ==
  [lockProject |-> {"campaignLock", "activity"}, unlockProject |-> {"campaignLock", "activity"},
   setProjectVisibility |-> {"visibility"}, createAssignment |-> {"assignments"},
   deleteAssignment |-> {"assignments"}, bulkAssign |-> {"assignments"},
   addMember |-> {"members"}, removeMember |-> {"members"}]
SessionWrites ==
  [patchAnnotation |-> {"sessions", "assignments"}, lockAnnotation |-> {"sessions"},
   unlockAnnotation |-> {"sessions", "assignments"}, addClause |-> {"sessions", "clauses"},
   patchClause |-> {"clauses"}]
ClauseWrites  == [batchAcceptClauses |-> {"clauses"}, swapClausePrimary |-> {"clauses"},
                  setClauseBoundary |-> {"clauses"}, deleteClause |-> {"clauses"}]
HistoryWrites == [createVersion |-> {"versions"}, addComment |-> {"comments"},
                  resolveComment |-> {"comments"}]
ReviewWrites  == [addReview |-> {"reviews", "sessions", "assignments"}]
ShareWrites   == [createShareLink |-> {"shareLinks"}]
OfficeWrites  == [createExport |-> {"exports"}, retryExport |-> {"exportJob"},
                  createTranslationSet |-> {"sets"}, syncTranslationSet |-> {"sets", "translations"}]
GoldWrites ==
  [patchGoldConfig |-> {"goldConfig"}, recomputeGoldProject |-> {"goldRows"},
   decideGold |-> {"goldRows"}, autoResolveGold |-> {"goldRows"},
   finalizeGold |-> {"goldRows"}, reopenGold |-> {"goldRows"},
   mutateGoldLlmAnnotator |-> {"judges", "sessions", "assignments", "goldRows"},
   goldLock |-> {"goldLock"}]

-----------------------------------------------------------------------------
(* The keys of the cache: qk, for a project p, an annotation a and a document e. *)
InProject(k)    == <<"projects", "p">> \o k
InGold(k)       == InProject(<<"gold">> \o k)
InAnnotation(k) == <<"annotations", "a">> \o k
InDocument(k)   == <<"documents", "e">> \o k

View(key, reads) == [key |-> key, reads |-> reads]
(* A mutation: the tables written and the keys invalidated once it succeeded. *)
Mutation(writes, refreshed) == [writes |-> writes, refreshed |-> refreshed]

AccountViews ==
  [me     |-> View(<<"me">>, AccountReads.getMe),
   health |-> View(<<"health">>, HealthReads.getHealth)]
CorpusViews ==
  [corpora         |-> View(<<"corpora">>, CorpusReads.listCorpora),
   corpusDocuments |-> View(<<"corpora", "c", "documents">>, CorpusReads.listCorpusDocuments),
   document        |-> View(InDocument(<<>>), CorpusReads.getDocument),
   translations    |-> View(InDocument(<<"translations", "fr">>), CorpusReads.getDocumentTranslations),
   scheme          |-> View(<<"schemes", "s">>, SchemeReads.getScheme)]
ProjectsViews == [projects |-> View(<<"projects">>, CampaignReads.listProjects)]
SeedViews ==
  [preannotations    |-> View(<<"preannotations", "p", "e", "default">>, SeedReads.listPreAnnotations),
   seedVersions      |-> View(InDocument(<<"annotation-versions">>), SeedReads.getAnnotationVersions),
   allPreannotations |-> View(<<"preannotations", "p", "all">>, SeedReads.listPreAnnotations)]
AgreementViews == {"preannotations", "document"}
ActivityViews ==
  [activity    |-> View(<<"activity", "p">>, ActivityReads.listActivity),
   allActivity |-> View(<<"activity", "all">>, ActivityReads.listActivity)]
ContributorViews == [contributors |-> View(InDocument(<<"contributors">>), AuthorReads.getDocumentContributors)]
InsightViews ==
  [sentenceHistory  |-> View(InDocument(<<"sentence-history", "1">>), AuthorReads.getSentenceHistory),
   insights         |-> View(InProject(<<"insights">>), InsightReads.getProjectInsights),
   documentInsights |-> View(InProject(<<"insights", "e">>), InsightReads.getDocumentInsights)]
PresenceViews ==
  [flags    |-> View(<<"config", "flags">>, CollabReads.getFeatureFlags),
   presence |-> View(InAnnotation(<<"presence">>), CollabReads.getPresence)]
CampaignViews ==
  [project             |-> View(InProject(<<>>), CampaignReads.getProject),
   assignments         |-> View(InProject(<<"assignments">>), CampaignReads.listAssignments),
   myDocuments         |-> View(InProject(<<"documents", "mine">>), CampaignReads.listProjectDocuments),
   documents           |-> View(InProject(<<"documents", "all">>), CampaignReads.listProjectDocuments),
   progress            |-> View(InProject(<<"progress">>), CampaignReads.getProjectProgress),
   iaa                 |-> View(InProject(<<"iaa">>), CampaignReads.getProjectIaa),
   members             |-> View(InProject(<<"members">>), CampaignReads.listMembers),
   annotatorsProgress  |-> View(InProject(<<"annotators-progress">>), CampaignReads.getAnnotatorsProgress)]
SessionViews ==
  [annotation  |-> View(InAnnotation(<<>>), SessionReads.getAnnotation),
   versions    |-> View(InAnnotation(<<"versions">>), HistoryReads.listVersions),
   versionDiff |-> View(InAnnotation(<<"versions", "2", "diff", "prev">>), HistoryReads.getVersionDiff),
   comments    |-> View(InAnnotation(<<"comments">>), HistoryReads.listComments),
   reviews     |-> View(InAnnotation(<<"reviews">>), ReviewReads.listReviews)]
OverlayViews == [attribution |-> View(InAnnotation(<<"attribution", "clause">>), AuthorReads.getAttribution)]
OfficeViews ==
  [exports |-> View(InProject(<<"exports">>), OfficeReads.listProjectExports),
   export  |-> View(<<"exports", "x">>, OfficeReads.getExport)]
SetViews    == [sets |-> View(<<"translations", "sets">>, OfficeReads.listTranslationSets)]
DeskViews ==
  [goldDocuments |-> View(InGold(<<"documents">>), GoldReads.listGoldDocuments),
   goldDocument  |-> View(InGold(<<"e">>), GoldReads.getGoldDocument)]
StudioViews ==
  [goldStats  |-> View(InGold(<<"stats">>), GoldReads.getGoldStats),
   goldConfig |-> View(InGold(<<"config">>), GoldReads.getGoldConfig)]
JudgeViews  == [judges |-> View(InGold(<<"llm-annotators">>), GoldReads.listGoldLlmAnnotators)]
Views == CampaignViews @@ SessionViews @@ OverlayViews @@ OfficeViews @@ SetViews
           @@ DeskViews @@ StudioViews @@ JudgeViews @@ AccountViews @@ CorpusViews @@ ProjectsViews
           @@ SeedViews @@ ActivityViews @@ ContributorViews @@ InsightViews @@ PresenceViews

LockMutations ==
  [lockProject   |-> Mutation(CampaignWrites.lockProject, {InProject(<<>>)}),
   unlockProject |-> Mutation(CampaignWrites.unlockProject, {InProject(<<>>)})]
AssignMutations ==
  [toggleAssignment |-> Mutation(CampaignWrites.createAssignment, {InProject(<<"assignments">>)}),
   bulkAssign       |-> Mutation(CampaignWrites.bulkAssign, {InProject(<<"assignments">>)})]
MemberMutations ==
  [addMember    |-> Mutation(CampaignWrites.addMember, {InProject(<<"members">>)}),
   removeMember |-> Mutation(CampaignWrites.removeMember, {InProject(<<"members">>)})]
PublishMutations ==
  [setVisibility |-> Mutation(CampaignWrites.setProjectVisibility, {InProject(<<>>)}),
   toggleLock    |-> Mutation(CampaignWrites.lockProject, {InProject(<<>>)})]
SessionMutations ==
  [addClause        |-> Mutation(SessionWrites.addClause, {InAnnotation(<<>>)}),
   patchClause      |-> Mutation(SessionWrites.patchClause, {InAnnotation(<<>>)}),
   deleteClause     |-> Mutation(ClauseWrites.deleteClause, {InAnnotation(<<>>)}),
   batchAccept      |-> Mutation(ClauseWrites.batchAcceptClauses, {InAnnotation(<<>>)}),
   swapPrimary      |-> Mutation(ClauseWrites.swapClausePrimary, {InAnnotation(<<>>)}),
   setBoundary      |-> Mutation(ClauseWrites.setClauseBoundary, {InAnnotation(<<>>)}),
   patchAnnotation  |-> Mutation(SessionWrites.patchAnnotation, {InAnnotation(<<>>)}),
   lockAnnotation   |-> Mutation(SessionWrites.lockAnnotation, {InAnnotation(<<>>)}),
   unlockAnnotation |-> Mutation(SessionWrites.unlockAnnotation,
                                 {InAnnotation(<<>>), InAnnotation(<<"versions">>)}),
   addComment       |-> Mutation(HistoryWrites.addComment, {InAnnotation(<<"comments">>)})]
(* The dialog keeps the link of the answer: no view lists the links. *)
ShareMutations == [shareProject |-> Mutation(ShareWrites.createShareLink, {})]
(* The list of campaigns calls the endpoint, then fetches its own view again. *)
CampaignMutations == [toggleVisibility |-> Mutation(CampaignWrites.setProjectVisibility, {})]
(* The autosave calls the endpoints itself and invalidates nothing. *)
AutosaveMutations == [autosave |-> Mutation(SessionWrites.addClause, {})]
OfficeMutations ==
  [resolveComment |-> Mutation(HistoryWrites.resolveComment, {InAnnotation(<<"comments">>)}),
   addReview      |-> Mutation(ReviewWrites.addReview, {InAnnotation(<<"reviews">>)}),
   createVersion  |-> Mutation(HistoryWrites.createVersion, {InAnnotation(<<"versions">>)}),
   createSet      |-> Mutation(OfficeWrites.createTranslationSet, {<<"translations", "sets">>}),
   syncSet        |-> Mutation(OfficeWrites.syncTranslationSet, {<<"translations", "sets">>}),
   retryExport    |-> Mutation(OfficeWrites.retryExport, {<<"exports", "x">>, InProject(<<"exports">>)})]
ExportMutations == [createExport |-> Mutation(OfficeWrites.createExport, {InProject(<<"exports">>)})]
GoldInvalidate  == {InGold(<<"e">>), InGold(<<"documents">>)}
DeskMutations ==
  [decide      |-> Mutation(GoldWrites.decideGold, GoldInvalidate),
   autoResolve |-> Mutation(GoldWrites.autoResolveGold, GoldInvalidate),
   goldLock    |-> Mutation(GoldWrites.goldLock, GoldInvalidate)]
StudioMutations ==
  [saveConfig |-> Mutation(GoldWrites.patchGoldConfig, {InGold(<<"config">>)}),
   recompute  |-> Mutation(GoldWrites.recomputeGoldProject,
                           {InGold(<<"config">>), InGold(<<"documents">>), InGold(<<"stats">>)})]
ClosingMutations ==
  [finalize    |-> Mutation(GoldWrites.finalizeGold, GoldInvalidate),
   reopen      |-> Mutation(GoldWrites.reopenGold, GoldInvalidate),
   mutateJudge |-> Mutation(GoldWrites.mutateGoldLlmAnnotator, {InGold(<<>>)})]
Mutations == LockMutations @@ AssignMutations @@ MemberMutations @@ PublishMutations @@ SessionMutations
               @@ AutosaveMutations @@ OfficeMutations @@ ExportMutations @@ DeskMutations
               @@ StudioMutations @@ ClosingMutations @@ ShareMutations @@ CampaignMutations

(* Hooks whose answer is written in the cache before the invalidation. *)
AnswersTheView == {<<"saveConfig", "goldConfig">>}
(* A page that calls refetch once its mutation has succeeded. *)
FetchesTheView == {<<"toggleVisibility", "projects">>}
(* Views fetched again by a timer, and by a button of the page. *)
Polled  == {"presence", "export"}
Retried == {"annotation", "document", "health", "me"}

(* invalidateQueries reaches the keys that begin with one it is given. *)
Reaches(m, v)  == \E k \in Mutations[m].refreshed : IsPrefix(k, Views[v].key)
Concerns(m, v) == Mutations[m].writes \cap Views[v].reads # {}

(* The pages: the views each mounts and the mutations it offers. *)
Page(shows, offers) == [shows |-> shows, offers |-> offers]
WorkspacePage ==
  Page({"annotation", "attribution", "comments", "versions", "myDocuments", "project", "presence"},
       {"patchAnnotation", "lockAnnotation", "unlockAnnotation", "createVersion", "addComment",
        "resolveComment", "autosave"})
DocumentPane     == Page(AgreementViews \cup {"seedVersions", "translations", "scheme", "contributors"}, {})
CollabBar        == Page({"flags", "me"}, {"shareProject"})
ReviewPage       == Page({"annotation", "reviews", "document"}, {"addReview"})
HistoryPage      == Page({"annotation", "versions", "versionDiff", "sentenceHistory"}, {})
ComparePage      == Page({"annotation", "preannotations"}, {})
HomePage         == Page({"projects", "myDocuments"}, {})
DocsPage         == Page({"project", "projects", "me", "myDocuments"}, {"lockProject", "unlockProject"})
ProjectPage      == Page({"project", "myDocuments", "progress", "activity"}, {"lockProject", "unlockProject"})
InsightsPage     == Page({"insights"}, {})
DocumentInsights == Page({"documentInsights", "comments"}, {"addComment"})
AdminProjects    == Page({"projects"}, {"toggleVisibility"})
AdminSchemes     == Page({"project", "scheme"}, {})
AdminCorpora     == Page({"corpora"}, {})
AdminSeeds       == Page({"allPreannotations"}, {})
AdminAudit       == Page({"allActivity"}, {})
DebugBar         == Page({"health", "me"}, {})
AssignTab        == Page({"members", "assignments", "project", "corpusDocuments"}, {"toggleAssignment", "bulkAssign"})
MembersTab       == Page({"members", "project"}, {"addMember", "removeMember"})
PublishTab       == Page({"project"}, {"setVisibility", "toggleLock"})
SupervisionTab   == Page({"project", "annotatorsProgress", "documents", "iaa"}, {})
DeskPage         == Page({"goldDocument", "project"}, {"decide", "autoResolve", "finalize", "reopen"})
CockpitPage      == Page({"goldDocuments", "project"}, {})
StudioPage       == Page({"goldConfig", "judges", "members", "project"}, {"saveConfig", "recompute", "mutateJudge"})
StatsPage        == Page({"goldStats"}, {})
ExportsPage      == Page({"exports", "export"}, {"createExport", "retryExport"})
TranslationsPage == Page({"sets"}, {"createSet", "syncSet"})
Pages == {WorkspacePage, ReviewPage, HistoryPage, ProjectPage, AssignTab, MembersTab, PublishTab,
          SupervisionTab, DeskPage, CockpitPage, StudioPage, StatsPage, ExportsPage, TranslationsPage,
          DocumentPane, CollabBar, ComparePage, HomePage, DocsPage, InsightsPage, DocumentInsights,
          AdminProjects, AdminSchemes, AdminCorpora, AdminSeeds, AdminAudit, DebugBar}

(* What a mutation of a page concerns it marks or fetches again, but for the *)
(* pairs below; what it writes in the cache itself it also marks.            *)
Unrefreshed ==
  ({"patchAnnotation", "lockAnnotation", "unlockAnnotation", "autosave"} \X {"myDocuments"})
    \cup ({"autosave"} \X {"annotation", "attribution"})
    \cup ({"lockProject", "unlockProject"} \X {"projects", "activity"})
    \cup {<<"addReview", "annotation">>, <<"addComment", "documentInsights">>}
KeysCoverWrites ==
  \A p \in Pages : \A m \in p.offers, v \in p.shows :
    /\ Concerns(m, v) /\ <<m, v>> \notin Unrefreshed => Reaches(m, v) \/ <<m, v>> \in FetchesTheView
    /\ <<m, v>> \in AnswersTheView => Reaches(m, v)

-----------------------------------------------------------------------------
VARIABLES page,     \* the page the tab is on
          clock,    \* writes the server has served
          cache,    \* entry of each followed view
          fetch,    \* request of each followed view: None, Sent, or the clock it was read at
          mounted,  \* followed views with an observer
          calls,    \* mutation in flight: None, Sent, or the clock of its write
          owed,     \* the writes each followed view has been promised to show
          faults    \* answers lost so far
vars == <<page, clock, cache, fetch, mounted, calls, owed, faults>>

Followed == DOMAIN cache
(* invalid: marked by an invalidation; old: past its stale time. *)
EmptyEntry == [at |-> None, invalid |-> FALSE, old |-> FALSE, failed |-> FALSE]
IsStale(v) == cache[v].at = None \/ cache[v].invalid \/ cache[v].old

Init ==
  /\ page \in Pages
  /\ clock = 0
  /\ \E vs \in SUBSET page.shows :
       /\ vs # {} /\ Cardinality(vs) <= MaxViews
       /\ cache = [v \in vs |-> EmptyEntry]
       /\ fetch = [v \in vs |-> None]
       /\ owed = [v \in vs |-> 0]
  /\ mounted = {}
  /\ calls = [m \in page.offers |-> None]
  /\ faults = 0

(* A component that uses the view appears: stale data are fetched again. *)
Mount(v) ==
  /\ v \notin mounted
  /\ mounted' = mounted \cup {v}
  /\ fetch' = [fetch EXCEPT ![v] = IF @ = None /\ IsStale(v) THEN Sent ELSE @]
  /\ UNCHANGED <<page, clock, cache, calls, owed, faults>>

(* The component goes; its request goes on and its data stay in the cache. *)
Unmount(v) ==
  /\ v \in mounted
  /\ mounted' = mounted \ {v}
  /\ UNCHANGED <<page, clock, cache, fetch, calls, owed, faults>>

(* The timer of the view fetches it again, unless a request is on its way. *)
Poll(v) ==
  /\ v \in Polled \cap mounted /\ fetch[v] = None
  /\ fetch' = [fetch EXCEPT ![v] = Sent]
  /\ UNCHANGED <<page, clock, cache, mounted, calls, owed, faults>>

(* The user asks for the view again: with data to show, the request on its *)
(* way is replaced and its answer lost.                                    *)
Retry(v) ==
  /\ v \in Retried \cap mounted
  /\ fetch[v] # None => cache[v].at # None /\ faults < MaxFaults
  /\ fetch' = [fetch EXCEPT ![v] = Sent]
  /\ faults' = IF fetch[v] = None THEN faults ELSE faults + 1
  /\ UNCHANGED <<page, clock, cache, mounted, calls, owed>>

(* The stale time of the data passes. *)
Age(v) ==
  /\ cache[v].at # None /\ ~cache[v].old
  /\ cache' = [cache EXCEPT ![v].old = TRUE]
  /\ UNCHANGED <<page, clock, fetch, mounted, calls, owed, faults>>

(* The server reads the tables of the view. *)
ServeFetch(v) ==
  /\ fetch[v] = Sent
  /\ fetch' = [fetch EXCEPT ![v] = clock]
  /\ UNCHANGED <<page, clock, cache, mounted, calls, owed, faults>>

(* The answer replaces the data and clears the invalidation. *)
Fetched(v, at) == [at |-> at, invalid |-> FALSE, old |-> FALSE, failed |-> FALSE]
ReceiveFetch(v) ==
  /\ fetch[v] \notin {None, Sent}
  /\ cache' = [cache EXCEPT ![v] = Fetched(v, fetch[v])]
  /\ fetch' = [fetch EXCEPT ![v] = None]
  /\ UNCHANGED <<page, clock, mounted, calls, owed, faults>>

(* The request fails for good: the data stay, the error is shown. *)
FailFetch(v) ==
  /\ fetch[v] # None /\ faults < MaxFaults
  /\ faults' = faults + 1
  /\ fetch' = [fetch EXCEPT ![v] = None]
  /\ cache' = [cache EXCEPT ![v].failed = TRUE]
  /\ UNCHANGED <<page, clock, mounted, calls, owed>>

(* The writes the server has served or will. *)
Writes == clock + Cardinality({m \in page.offers : calls[m] = Sent})

(* Someone else writes what the page reads. *)
WriteElsewhere ==
  /\ Writes < MaxWrites
  /\ clock' = clock + 1
  /\ UNCHANGED <<page, cache, fetch, mounted, calls, owed, faults>>

(* The user asks for a mutation of the page. *)
Call(m) ==
  /\ calls[m] = None /\ Writes < MaxWrites
  /\ Cardinality({n \in page.offers : calls[n] # None}) < MaxCalls
  /\ calls' = [calls EXCEPT ![m] = Sent]
  /\ UNCHANGED <<page, clock, cache, fetch, mounted, owed, faults>>

ServeCall(m) ==
  /\ calls[m] = Sent
  /\ clock' = clock + 1
  /\ calls' = [calls EXCEPT ![m] = clock']
  /\ UNCHANGED <<page, cache, fetch, mounted, owed, faults>>

Answered(m, v) == <<m, v>> \in AnswersTheView
(* Mutant: only the views on screen are marked. *)
InvalidatedOnScreen(m, v) ==
  LET e == IF Answered(m, v) THEN Fetched(v, calls[m]) ELSE cache[v]
  IN  IF Reaches(m, v) /\ v \in mounted THEN [e EXCEPT !.invalid = TRUE] ELSE e

Invalidated(m, v) ==
  LET e == IF Answered(m, v) THEN Fetched(v, calls[m]) ELSE cache[v]
  IN  IF Reaches(m, v) THEN [e EXCEPT !.invalid = TRUE] ELSE e

(* Mutant: the views are marked and nothing fetches them. *)
RefetchedLater(m, v) == FALSE

(* A request on its way is replaced only if the view has data; an invalidation *)
(* fetches what is on screen, a refetch its view wherever it is.               *)
Refetched(m, v) ==
  /\ (Reaches(m, v) /\ v \in mounted) \/ <<m, v>> \in FetchesTheView
  /\ fetch[v] # None => Invalidated(m, v).at # None
Replaced(m, v) == fetch[v] = None \/ Refetched(m, v)

(* onSuccess: every view under an invalidated key is marked, and those on *)
(* screen are fetched again.                                             *)
Succeed(m) ==
  /\ calls[m] \notin {None, Sent}
  /\ calls' = [calls EXCEPT ![m] = None]
  /\ cache' = [v \in Followed |-> Invalidated(m, v)]
  /\ fetch' = [v \in Followed |-> IF Refetched(m, v) THEN Sent ELSE fetch[v]]
  /\ owed' = [v \in Followed |->
                IF Concerns(m, v) /\ <<m, v>> \notin Unrefreshed /\ Replaced(m, v) /\ calls[m] > owed[v]
                  THEN calls[m] ELSE owed[v]]
  /\ UNCHANGED <<page, clock, mounted, faults>>

(* The mutation is refused or its answer lost: nothing is invalidated. *)
Fault(m) ==
  /\ calls[m] # None /\ faults < MaxFaults
  /\ faults' = faults + 1
  /\ calls' = [calls EXCEPT ![m] = None]
  /\ UNCHANGED <<page, clock, cache, fetch, mounted, owed>>

Next ==
  \/ \E v \in Followed : \/ Mount(v) \/ Unmount(v) \/ Age(v) \/ Poll(v) \/ Retry(v)
                         \/ ServeFetch(v) \/ ReceiveFetch(v) \/ FailFetch(v)
  \/ WriteElsewhere
  \/ \E m \in page.offers : Call(m) \/ ServeCall(m) \/ Succeed(m) \/ Fault(m)

Spec == Init /\ [][Next]_vars

(* The network is live: a request that was sent is served, and its answer comes. *)
Fetches == \E v \in Followed : ServeFetch(v) \/ ReceiveFetch(v)
Fairness == WF_vars(Fetches)
FairSpec == Spec /\ Fairness

-----------------------------------------------------------------------------
Times == 0..MaxWrites
TypeOK ==
  /\ page \in Pages /\ clock \in Times
  /\ Followed \subseteq page.shows /\ mounted \subseteq Followed
  /\ cache \in [Followed -> [at : Times \cup {None}, invalid : BOOLEAN, old : BOOLEAN, failed : BOOLEAN]]
  /\ fetch \in [Followed -> Times \cup {None, Sent}]
  /\ calls \in [page.offers -> Times \cup {None, Sent}]
  /\ owed \in [Followed -> Times] /\ faults \in 0..MaxFaults

(* A view that shows data as valid, and no error, shows every write the page *)
(* was told had succeeded (lib/api/hooks.ts: the keys the mutations invalidate), for all *)
(* pages and mutations but those of Unrefreshed.  A request that was on its *)
(* way at that moment must have been replaced: a first load, or the request *)
(* of a view that has left the screen, is not, and promises nothing.        *)
PageShowsOwnWrites ==
  \A v \in Followed :
    cache[v].at # None /\ ~cache[v].invalid /\ ~cache[v].failed /\ fetch[v] = None
      => cache[v].at >= owed[v]

(* An invalidated view on screen is fetched again, or shows an error, or *)
(* leaves the screen: it never stays stale in silence.                   *)
Stale == \E v \in mounted : cache[v].invalid /\ ~cache[v].failed
NothingStaysStale == Stale ~> ~Stale
=============================================================================
