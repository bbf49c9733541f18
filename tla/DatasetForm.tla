---------------------------- MODULE DatasetForm ----------------------------
(***************************************************************************)
(* The tab of the lab that builds a frozen dataset: criteria, a preview    *)
(* asked for a quarter of a second after they change, and the building,    *)
(* which the server does in two passes over the annotations.               *)
(*                                                                         *)
(* Abstracted: the annotations are a version number; the criteria name the *)
(* versions they can be built from.                                        *)
(***************************************************************************)
EXTENDS Integers

CONSTANTS Criteria,   \* what can be asked: a function to the versions that satisfy it
  None,
  MaxVersion, MaxMoves    \* bounds on what annotators do, and on what the user does

VARIABLES
  version,    \* of the annotations
  criteria,   \* what the form asks
  waiting,    \* whether the delay before the preview runs
  previews,   \* the previews asked: their criteria, and whether the page still wants them
  report, loading,
  builds,     \* the buildings the server has started: criteria and fingerprint
  datasets,   \* ... and finished: fingerprint and content
  building, message,
  moves

vars == <<version, criteria, waiting, previews, report, loading, builds, datasets, building, message, moves>>
form == <<criteria, waiting, previews, report, loading>>

Init ==
  /\ version = 0 /\ criteria = "complete" /\ waiting = TRUE /\ previews = {}
  /\ report = None /\ loading = TRUE
  /\ builds = {} /\ datasets = {} /\ building = FALSE /\ message = None /\ moves = 0

Moved == moves < MaxMoves /\ moves' = moves + 1
\* A bug: the answers of the criteria left behind are still wanted.
LeftWanted == UNCHANGED previews
Abandon == previews' = {[p EXCEPT !.wanted = FALSE] : p \in previews}
SetCriteria(c) ==
  /\ Moved /\ c # criteria /\ criteria' = c
  /\ waiting' = TRUE /\ loading' = TRUE /\ Abandon
  /\ UNCHANGED <<version, report, builds, datasets, building, message>>
AskPreview ==
  /\ waiting /\ waiting' = FALSE
  /\ previews' = previews \cup {[criteria |-> criteria, wanted |-> TRUE]}
  /\ UNCHANGED <<version, criteria, report, loading, builds, datasets, building, message, moves>>
Answer(p, r) ==
  /\ previews' = previews \ {p}
  /\ IF p.wanted THEN report' = r /\ loading' = FALSE ELSE UNCHANGED <<report, loading>>
  /\ UNCHANGED <<version, criteria, waiting, builds, datasets, building, message, moves>>
Preflight(p) == Answer(p, [criteria |-> p.criteria, version |-> version])
PreflightFails(p) == Answer(p, None)

Blocked == report = None \/ report.version \notin Criteria[report.criteria]
\* The button looks at the report it has, a newer one asked or not.
Build ==
  /\ Moved /\ ~Blocked /\ ~building
  /\ building' = TRUE /\ message' = None
  /\ builds' = builds \cup {[criteria |-> criteria, fingerprint |-> None]}
  /\ UNCHANGED <<version, form, datasets>>
Told(m) == building' = FALSE /\ message' = m
\* The first pass writes nothing: it gives the fingerprint, and finds the dataset that has it.
DryPass(b) ==
  /\ b.fingerprint = None
  /\ IF version \notin Criteria[b.criteria] THEN builds' = builds \ {b} /\ Told("empty")
     ELSE LET f == <<b.criteria, version>>
       IN IF \E d \in datasets : d.fingerprint = f THEN builds' = builds \ {b} /\ Told("duplicate")
          ELSE builds' = (builds \ {b}) \cup {[b EXCEPT !.fingerprint = f]} /\ UNCHANGED <<building, message>>
  /\ UNCHANGED <<version, form, datasets, moves>>
\* The second reads the annotations again, and writes the files.
WritePass(b) ==
  /\ b.fingerprint # None
  /\ builds' = builds \ {b}
  /\ IF version \notin Criteria[b.criteria] THEN Told("failed") /\ UNCHANGED datasets
     ELSE Told("built")
       /\ datasets' = datasets \cup {[fingerprint |-> b.fingerprint, content |-> <<b.criteria, version>>]}
  /\ UNCHANGED <<version, form, moves>>
Annotate ==
  /\ version < MaxVersion /\ version' = version + 1
  /\ UNCHANGED <<form, builds, datasets, building, message, moves>>

Next ==
  \/ \E c \in DOMAIN Criteria : SetCriteria(c)
  \/ \E p \in previews : Preflight(p) \/ PreflightFails(p)
  \/ \E b \in builds : DryPass(b) \/ WritePass(b)
  \/ AskPreview \/ Build \/ Annotate
-----------------------------------------------------------------------------
\* The preview at rest is of the criteria shown, whatever order the answers came in.
ReportIsOfTheCriteria == ~loading /\ report # None => report.criteria = criteria
\* Refuted: while the new preview is awaited the button obeys the old one.
BuildsWhatIsPreviewed == [][\A b \in builds' \ builds : b.fingerprint = None => report.criteria = b.criteria]_vars
\* Refuted by an annotation changed between the two passes.
FilesAreOfTheFingerprint == \A d \in datasets : d.content = d.fingerprint
=============================================================================
