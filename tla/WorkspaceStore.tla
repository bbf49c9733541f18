--------------------------- MODULE WorkspaceStore ---------------------------
(***************************************************************************)
(* The editing state of one annotation in the browser                      *)
(* (frontend/src/store/workspace.ts): the draft clauses, the undo and redo *)
(* stacks, the selected clause and the read-only mode.  Every mutator of   *)
(* the clauses is an action.  The drafts are kept sorted by anchor in the  *)
(* code; here they are a set, and "the first one" is the least anchor.     *)
(* A multi-label list is what the code reduces it to: its primary and the  *)
(* set of its secondaries.  The free fields of a clause (nature, evidence, *)
(* rationale, certainty) are one detail no mutator reads.                  *)
(***************************************************************************)
EXTENDS Integers, Sequences, FiniteSets

CONSTANTS NSentences,     \* sentences of the document, numbered from 0
          Themes, Refuges, Judges, Levels, Details,
          None,           \* null and undefined
          Palette,        \* the themes the gestures of a user name
          Cards,          \* the tag sets the triage cards and the server name
          Messy,          \* the tag lists the multi-label editor may submit
          PreAnnotations, \* segmentations of the judges: theme at each anchor
          Loads,          \* the clause lists the server may answer
          UndoDepth,      \* UNDO_DEPTH
          MaxEdits        \* bound on the calls other than undo, redo and selections

Anchors == 0 .. NSentences - 1
Roles == {"primary", "secondary"}
Tag == [label: Themes, role: Roles]
TagSet == [primary: Themes, secondaries: SUBSET Themes]

\* The content of a clause, apart from its identity.
Content == [anchor: Anchors, theme: Themes, tags: TagSet \cup {None},
            level: Levels \cup {None}, validated: BOOLEAN, detail: Details,
            seed: Judges \cup {None}, adopted: Judges \cup {None}]
Draft == [id: Nat, c: Content]
Drafts == SUBSET Draft

OneClausePerAnchor(ds) == \A d, e \in ds : d.c.anchor = e.c.anchor => d = e
\* What the server accepts of a set of themes (sanitizeThemeSet).
ValidTags(s) == s.primary \notin s.secondaries /\ s.secondaries \cap Refuges = {}

ASSUME SentencesAssumption == NSentences \in Nat \ {0}
ASSUME ThemesAssumption == Refuges \subseteq Themes
ASSUME InputsAssumption ==
  /\ Palette \subseteq Themes
  /\ \A s \in Cards : s \in TagSet /\ ValidTags(s)
  /\ PreAnnotations \subseteq UNION {[A -> Themes] : A \in SUBSET Anchors}
ASSUME DetailsAssumption == Details # {}
ASSUME NoneIsNoValue == None \notin Levels \cup Judges \cup Nat
ASSUME UndoDepthAssumption == UndoDepth \in Nat \ {0}
ASSUME MessyAssumption == Messy \subseteq Seq(Tag) /\ << >> \notin Messy
\* The server stores one clause per anchor, whose theme it takes from a valid set of tags
\* (annotations/services.py, set_clause_theme_tags).
ASSUME LoadsAssumption ==
  \A l \in Loads :
    /\ l \subseteq Content /\ \A c, d \in l : c.anchor = d.anchor => c = d
    /\ \A c \in l : c.tags # None => ValidTags(c.tags) /\ c.theme = c.tags.primary

---------------------------------------------------------------------------
First(tags, l) ==
  CHOOSE i \in DOMAIN tags :
    tags[i].label = l /\ \A j \in DOMAIN tags : tags[j].label = l => i <= j

\* Mutant of SanitizeThemeSet: refuges are kept among the secondaries.
SanitizeKeepingRefuges(tags) ==
  LET labels  == {tags[i].label : i \in DOMAIN tags}
      primary == CHOOSE l \in labels : tags[First(tags, l)].role = "primary"
  IN [primary |-> primary, secondaries |-> labels \ {primary}]

\* One tag per label (its first), the first primary (or the first label) leads,
\* and a refuge is never a secondary.
SanitizeThemeSet(tags) ==
  LET labels  == {tags[i].label : i \in DOMAIN tags}
      named   == {l \in labels : tags[First(tags, l)].role = "primary"}
      primary == CHOOSE l \in labels :
                   /\ named = {} \/ l \in named
                   /\ \A o \in IF named = {} THEN labels ELSE named :
                        First(tags, l) <= First(tags, o)
  IN [primary |-> primary, secondaries |-> (labels \ {primary}) \ Refuges]

\* Mutant of WithPrimaryTheme: the multi-label set is left behind.
WithScalarTheme(c, t) == [c EXCEPT !.theme = t]

\* A new primary theme on a clause; a multi-label set follows it.
WithPrimaryTheme(c, t) ==
  [c EXCEPT !.theme = t,
            !.tags = IF @ = None THEN None
                     ELSE [primary |-> t,
                           secondaries |-> (({@.primary} \cup @.secondaries) \ {t}) \ Refuges]]

NewContent(a, t) ==
  [anchor |-> a, theme |-> t, tags |-> None, level |-> None, validated |-> TRUE,
   detail |-> CHOOSE d \in Details : TRUE, seed |-> None, adopted |-> None]

\* The clauses a pre-annotation of judge j gives, one theme per anchored segment.
SeedContent(a, t, j) == [NewContent(a, t) EXCEPT !.validated = FALSE, !.seed = j]

\* The segment that covers a sentence, unfolded sentence by sentence.
Opening(segs, a) == CHOOSE b \in DOMAIN segs :
                      b <= a /\ \A o \in DOMAIN segs : o <= a => o <= b
Unfolded(segs, j) ==
  {SeedContent(a, segs[Opening(segs, a)], j) :
     a \in {x \in Anchors : \E b \in DOMAIN segs : b <= x}}

---------------------------------------------------------------------------
VARIABLES drafts, undoStack, redoStack, selected, readOnly, dirty, prefilled,
          nextId,    \* localCounter
          edits,     \* bound: counted store calls so far
          owned,     \* history: the ids of the clauses of the open annotation
          confirmed, \* history: the ids a human gesture has confirmed
          blunt      \* history: ids whose theme was once set without its tags

vars == <<drafts, undoStack, redoStack, selected, readOnly, dirty, prefilled,
          nextId, edits, owned, confirmed, blunt>>

Ids(ds) == {d.id : d \in ds}
At(ds, a) == {d \in ds : d.c.anchor = a}
Leftmost(ds) == CHOOSE d \in ds : \A e \in ds : d.c.anchor <= e.c.anchor
FirstId(ds, else) == IF ds = {} THEN else ELSE Leftmost(ds).id

\* Fresh ids: one per anchor in reserve, so that a batch creates at once.
Fresh(c) == [id |-> nextId + c.anchor, c |-> c]

PushUndo(stack, ds) ==
  LET next == Append(stack, ds)
  IN IF Len(next) > UndoDepth THEN Tail(next) ELSE next

Call == edits < MaxEdits /\ edits' = edits + 1

\* The common part of a mutation: a snapshot for undo, and no redo any more.
Commit(new, sel) ==
  /\ Call
  /\ ~readOnly
  /\ drafts' = new
  /\ selected' = sel
  /\ dirty' = TRUE
  /\ undoStack' = PushUndo(undoStack, drafts)
  /\ redoStack' = << >>
  /\ UNCHANGED readOnly

WithId(id) == {d \in drafts : d.id = id}
Updated(hit, f) == {IF d \in hit THEN [d EXCEPT !.c = f[d.c]] ELSE d : d \in drafts}
Created(cs) == {Fresh(c) : c \in cs}

\* What the history variables record of a mutation that creates some clauses and
\* re-decides others.
Creates(new) == /\ owned' = owned \cup Ids(new)
                /\ nextId' = nextId + NSentences
Keeps == UNCHANGED <<owned, nextId>>
Confirms(ids) == confirmed' = confirmed \cup ids
Mirrors == UNCHANGED blunt

---------------------------------------------------------------------------
\* The initial store, and what reset() returns to.
Init ==
  /\ drafts = {} /\ undoStack = << >> /\ redoStack = << >>
  /\ selected = None /\ readOnly = FALSE /\ dirty = FALSE /\ prefilled = None
  /\ nextId = 0 /\ edits = 0 /\ owned = {} /\ confirmed = {} /\ blunt = {}

\* Mutant of Open: the history of the previous annotation survives.
OpenKeepingHistory(load, ro) ==
  LET new == Created(load)
  IN /\ Call
     /\ drafts' = new
     /\ selected' = FirstId(new, None)
     /\ readOnly' = ro
     /\ dirty' = FALSE
     /\ prefilled' = None
     /\ owned' = Ids(new)
     /\ nextId' = nextId + NSentences
     /\ confirmed' = confirmed \cup Ids({d \in new : d.c.validated})
     /\ UNCHANGED <<undoStack, redoStack, blunt>>

\* init(): the clauses the server answered for an annotation.
Open(load, ro) ==
  LET new == Created(load)
  IN /\ Call
     /\ drafts' = new
     /\ undoStack' = << >>
     /\ redoStack' = << >>
     /\ selected' = FirstId(new, None)
     /\ readOnly' = ro
     /\ dirty' = FALSE
     /\ prefilled' = None
     /\ owned' = Ids(new)
     /\ nextId' = nextId + NSentences
     /\ confirmed' = confirmed \cup Ids({d \in new : d.c.validated})
     /\ UNCHANGED blunt

SelectClause ==
  /\ selected' \in Ids(drafts) \cup {None}
  /\ UNCHANGED <<drafts, undoStack, redoStack, readOnly, dirty, prefilled, nextId,
                 owned, confirmed, blunt, edits>>

\* Mutant of Place: it never looks for a clause at the anchor.
PlaceBlindly(a, t) ==
  LET new == Fresh(NewContent(a, t))
  IN /\ Commit(drafts \cup {new}, new.id)
     /\ Creates({new}) /\ Confirms({new.id}) /\ Mirrors /\ UNCHANGED prefilled

\* setBoundary on a sentence no clause starts at.
Place(a, t) ==
  LET new == Fresh(NewContent(a, t))
  IN /\ At(drafts, a) = {}
     /\ Commit(drafts \cup {new}, new.id)
     /\ Creates({new}) /\ Confirms({new.id}) /\ Mirrors /\ UNCHANGED prefilled

\* setBoundary on a clause of the same theme only selects it.
Reselect(a, t) ==
  /\ ~readOnly
  /\ \E d \in At(drafts, a) : d.c.theme = t /\ selected' = d.id
  /\ UNCHANGED <<drafts, undoStack, redoStack, readOnly, dirty, prefilled, nextId,
                 owned, confirmed, blunt, edits>>

\* setBoundary on a clause of another theme; toggleBoundary comes here too.
Retheme(a, t) ==
  \E d \in At(drafts, a) :
    LET Human == [c \in Content |-> [WithPrimaryTheme(c, t) EXCEPT !.validated = TRUE, !.level = None]]
    IN /\ d.c.theme # t
       /\ Commit(Updated({d}, Human), d.id)
       /\ Keeps /\ Confirms({d.id}) /\ Mirrors /\ UNCHANGED prefilled

\* Mutants of RemoveBoundary: no snapshot for undo; the read-only test is missing.
RemoveForGood(a) ==
  /\ Call
  /\ ~readOnly
  /\ drafts' = drafts \ At(drafts, a)
  /\ dirty' = TRUE
  /\ Keeps /\ Confirms({}) /\ Mirrors
  /\ UNCHANGED <<undoStack, redoStack, selected, readOnly, prefilled>>
RemoveEvenReadOnly(a) ==
  /\ Call
  /\ drafts' = drafts \ At(drafts, a)
  /\ dirty' = TRUE
  /\ undoStack' = PushUndo(undoStack, drafts)
  /\ redoStack' = << >>
  /\ Keeps /\ Confirms({}) /\ Mirrors
  /\ UNCHANGED <<selected, readOnly, prefilled>>

\* removeBoundary, which leaves the selection alone; it snapshots even when no
\* clause starts at the sentence.  toggleBoundary on the same theme comes here.
RemoveBoundary(a) ==
  /\ Commit(drafts \ At(drafts, a), selected)
  /\ Keeps /\ Confirms({}) /\ Mirrors /\ UNCHANGED prefilled

\* toggleBoundary: the theme already there is removed, anything else is set.
ToggleBoundary(a, t) ==
  IF \E d \in At(drafts, a) : d.c.theme = t
  THEN RemoveBoundary(a)
  ELSE Place(a, t) \/ Retheme(a, t)

\* Mutant of DecisionContent: the label of the primary instead of the set.
DecisionLabel(c, tags, lv) ==
  [c EXCEPT !.theme = tags.primary, !.tags = tags.primary, !.validated = TRUE]

\* upsertDecision: the clause a decision of the triage leaves at its anchor.
DecisionContent(c, tags, lv) ==
  [c EXCEPT !.theme = tags.primary, !.tags = tags, !.validated = TRUE,
            !.level = IF lv = None THEN @ ELSE lv]

\* applyTriageBatch with the decisions dec (anchor |-> tag set), and
\* applyTriageDecision when there is only one.
ApplyTriage(dec, lv) ==
  LET known == {d \in drafts : d.c.anchor \in DOMAIN dec}
      Decided == [c \in Content |-> DecisionContent(c, dec[c.anchor], lv)]
      new == Created({DecisionContent(NewContent(a, dec[a].primary), dec[a], lv) :
                        a \in DOMAIN dec \ {d.c.anchor : d \in known}})
      next == Updated(known, Decided) \cup new
  IN /\ DOMAIN dec # {}
     /\ Commit(next, IF Cardinality(DOMAIN dec) = 1
                     THEN FirstId({d \in next : d.c.anchor \in DOMAIN dec}, None)
                     ELSE selected)
     /\ Creates(new)
     /\ Confirms(Ids(known) \cup Ids(new))
     /\ Mirrors
     /\ UNCHANGED prefilled

\* applyBlockOp, annotateRange and extend: the scalar theme only.
BlockAnnotate(range, t) ==
  LET known == {d \in drafts : d.c.anchor \in range}
      hit == {d \in known : d.c.theme # t \/ ~d.c.validated}
      Painted == [c \in Content |-> [c EXCEPT !.theme = t, !.validated = TRUE]]
      new == Created({NewContent(a, t) : a \in range \ {d.c.anchor : d \in known}})
      next == Updated(hit, Painted) \cup new
  IN /\ range # {}
     /\ hit # {} \/ new # {}
     /\ Commit(next, FirstId({d \in next : d.c.anchor \in range}, None))
     /\ Creates(new)
     /\ Confirms(Ids(hit) \cup Ids(new))
     /\ blunt' = blunt \cup Ids({d \in hit : d.c.theme # t})
     /\ UNCHANGED prefilled

\* applyBlockOp, shrink and clearBlock.
BlockClear(range) ==
  LET gone == {d \in drafts : d.c.anchor \in range}
      next == drafts \ gone
  IN /\ gone # {}
     /\ Commit(next, IF selected \in Ids(next) THEN selected ELSE None)
     /\ Keeps /\ Confirms({}) /\ Mirrors /\ UNCHANGED prefilled

\* resolveDivergence (one sentence: it always snapshots) and
\* resolveDivergenceRange (a range: only when something changes).
Adopt(lo, hi, j, t) ==
  LET range == lo .. hi
      known == {d \in drafts : d.c.anchor \in range}
      hit == {d \in known : d.c.theme # t \/ d.c.adopted # j \/ ~d.c.validated}
      Adopted == [c \in Content |-> [c EXCEPT !.theme = t, !.adopted = j, !.validated = TRUE]]
      new == Created({[NewContent(a, t) EXCEPT !.adopted = j] :
                        a \in range \ {d.c.anchor : d \in known}})
      next == Updated(hit, Adopted) \cup new
  IN /\ lo <= hi
     /\ lo = hi \/ hit # {} \/ new # {}
     /\ Commit(next, IF lo = hi THEN FirstId(At(next, lo), None)
                     ELSE FirstId(At(drafts, lo), selected))
     /\ Creates(new)
     /\ Confirms(Ids(hit) \cup Ids(new))
     /\ blunt' = blunt \cup Ids({d \in hit : d.c.theme # t})
     /\ UNCHANGED prefilled

\* updateDraft with a new theme, setClauseThemes, setCertainty or updateDraft with
\* another field, setValidated: one clause, whose id the caller may have kept
\* after the clause went away.
UpdateTheme(id, t) ==
  LET Rethemed == [c \in Content |-> [WithPrimaryTheme(c, t) EXCEPT !.level = None]]
  IN /\ Commit(Updated(WithId(id), Rethemed), selected)
     /\ Keeps /\ Confirms({}) /\ Mirrors /\ UNCHANGED prefilled

UpdateDetail(id, x) ==
  LET Detailed == [c \in Content |-> [c EXCEPT !.detail = x]]
  IN /\ Commit(Updated(WithId(id), Detailed), selected)
     /\ Keeps /\ Confirms({}) /\ Mirrors /\ UNCHANGED prefilled

SetClauseThemes(id, tags) ==
  LET set == SanitizeThemeSet(tags)
      Tagged == [c \in Content |-> [c EXCEPT !.tags = set, !.theme = set.primary,
                             !.validated = TRUE, !.level = None]]
  IN /\ id \in Ids(drafts)
     /\ Commit(Updated(WithId(id), Tagged), id)
     /\ Keeps /\ Confirms({id}) /\ Mirrors /\ UNCHANGED prefilled

\* setValidated and validateClauses.
ValidateClauses(ids, v) ==
  LET hit == {d \in drafts : d.id \in ids /\ d.c.validated # v}
      Marked == [c \in Content |-> [c EXCEPT !.validated = v]]
  IN /\ hit # {}
     /\ Commit(Updated(hit, Marked), selected)
     /\ Keeps /\ Confirms(Ids(hit)) /\ Mirrors /\ UNCHANGED prefilled

\* reconcileServerClause: the answer to a save, which no user typed.
Reconcile(id, t, tags, v) ==
  LET Stored == [c \in Content |-> [c EXCEPT !.theme = t, !.tags = tags, !.validated = v]]
  IN /\ Call
     /\ id \in Ids(drafts)
     /\ drafts' = Updated(WithId(id), Stored)
     /\ confirmed' = IF v THEN confirmed \cup {id} ELSE confirmed
     /\ UNCHANGED <<undoStack, redoStack, selected, readOnly, dirty, prefilled,
                    nextId, owned, blunt>>

\* Mutant of OverwritePrefill: what a judge wrote counts as validated.
OverwriteValidated(segs, j) ==
  LET new == Created({[c EXCEPT !.validated = TRUE] : c \in Unfolded(segs, j)})
  IN /\ Commit(new, FirstId(new, None))
     /\ prefilled' = j
     /\ Creates(new) /\ Confirms({}) /\ Mirrors

\* replacePrefill with a judge: its segmentation replaces every clause.
OverwritePrefill(segs, j) ==
  LET new == Created(Unfolded(segs, j))
  IN /\ Commit(new, FirstId(new, None))
     /\ prefilled' = j
     /\ Creates(new) /\ Confirms({}) /\ Mirrors

\* The contents of the seeds: one per segment that opens where no clause starts.
SeedContents(segs, j) == {SeedContent(a, segs[a], j) : a \in DOMAIN segs \ {d.c.anchor : d \in drafts}}

\* seedFromPreAnnotation: a clause of the judge for each segment that opens where no
\* clause starts.  It takes no snapshot and keeps what redo may bring back; no page
\* calls it yet.
SeedFromPreAnnotation(segs, j) ==
  LET new == Created(SeedContents(segs, j))
  IN /\ Call
     /\ ~readOnly
     /\ drafts' = drafts \cup new
     /\ selected' \in IF new = {} THEN {selected} ELSE Ids(new)
     /\ dirty' = TRUE
     /\ Creates(new) /\ Confirms({}) /\ Mirrors
     /\ UNCHANGED <<undoStack, redoStack, readOnly, prefilled>>

\* replacePrefill with null: the seeds nobody adopted go away.
ClearPrefill ==
  LET kept == {d \in drafts : d.c.seed = None \/ d.c.adopted # None}
  IN /\ prefilled' = None
     /\ Keeps /\ Confirms({}) /\ Mirrors
     /\ IF kept = drafts
        THEN /\ Call
             /\ ~readOnly
             /\ UNCHANGED <<drafts, undoStack, redoStack, selected, readOnly, dirty>>
        ELSE Commit(kept, selected)

Undo ==
  /\ ~readOnly
  /\ undoStack # << >>
  /\ drafts' = undoStack[Len(undoStack)]
  /\ undoStack' = SubSeq(undoStack, 1, Len(undoStack) - 1)
  /\ redoStack' = Append(redoStack, drafts)
  /\ selected' = IF selected \in Ids(drafts') THEN selected ELSE None
  /\ dirty' = TRUE
  /\ UNCHANGED <<readOnly, prefilled, nextId, owned, confirmed, blunt, edits>>

Redo ==
  /\ ~readOnly
  /\ redoStack # << >>
  /\ drafts' = redoStack[Len(redoStack)]
  /\ redoStack' = SubSeq(redoStack, 1, Len(redoStack) - 1)
  /\ undoStack' = Append(undoStack, drafts)
  /\ selected' = IF selected \in Ids(drafts') THEN selected ELSE None
  /\ dirty' = TRUE
  /\ UNCHANGED <<readOnly, prefilled, nextId, owned, confirmed, blunt, edits>>

MarkClean ==
  /\ dirty' = FALSE
  /\ UNCHANGED <<drafts, undoStack, redoStack, selected, readOnly, prefilled,
                 nextId, owned, confirmed, blunt, edits>>

Reset ==
  /\ Call
  /\ drafts' = {} /\ undoStack' = << >> /\ redoStack' = << >>
  /\ selected' = None /\ readOnly' = FALSE /\ dirty' = FALSE /\ prefilled' = None
  /\ owned' = {}
  /\ UNCHANGED <<nextId, confirmed, blunt>>

\* The ids a component may still hold: those on screen and the selected one.
Handles == Ids(drafts) \cup ({selected} \ {None})
StoredTags(t) == {None} \cup {s \in Cards : s.primary = t}

Next ==
  \/ \E load \in Loads, ro \in BOOLEAN : Open(load, ro)
  \/ SelectClause \/ ClearPrefill \/ Undo \/ Redo \/ MarkClean \/ Reset
  \/ \E a \in Anchors : RemoveBoundary(a)
  \/ \E a \in Anchors, t \in Palette :
       Place(a, t) \/ Reselect(a, t) \/ Retheme(a, t) \/ ToggleBoundary(a, t)
  \/ \E A \in SUBSET Anchors : \E dec \in [A -> Cards], lv \in Levels : ApplyTriage(dec, lv)
  \/ \E lo, hi \in Anchors :
       \/ BlockClear(lo .. hi)
       \/ \E t \in Palette : \/ BlockAnnotate(lo .. hi, t)
                             \/ \E j \in Judges : Adopt(lo, hi, j, t)
  \/ \E id \in Handles :
       \/ \E t \in Palette : UpdateTheme(id, t)
       \/ \E x \in Details : UpdateDetail(id, x)
       \/ \E tags \in Messy : SetClauseThemes(id, tags)
       \/ \E t \in Palette, v \in BOOLEAN : \E tags \in StoredTags(t) : Reconcile(id, t, tags, v)
  \/ \E ids \in SUBSET Handles, v \in BOOLEAN : ValidateClauses(ids, v)
  \/ \E segs \in PreAnnotations, j \in Judges :
       OverwritePrefill(segs, j) \/ SeedFromPreAnnotation(segs, j)

Spec == Init /\ [][Next]_vars

---------------------------------------------------------------------------
Snapshots == {drafts} \cup {undoStack[i] : i \in DOMAIN undoStack}
                      \cup {redoStack[i] : i \in DOMAIN redoStack}

\* The types of the store's state.
TypeOK ==
  /\ drafts \in Drafts
  /\ undoStack \in Seq(Drafts)
  /\ redoStack \in Seq(Drafts)
  /\ selected \in Nat \cup {None}
  /\ readOnly \in BOOLEAN
  /\ dirty \in BOOLEAN
  /\ prefilled \in Judges \cup {None}
  /\ nextId \in Nat
  /\ edits \in Nat
  /\ owned \subseteq Nat
  /\ confirmed \subseteq Nat
  /\ blunt \subseteq Nat

\* INV-2 of the product, on which the autosave keys its diff: at most one clause
\* starts on a sentence, in the drafts and in every state undo or redo can bring
\* back, whatever batches, prefills and adoptions were mixed.
AnchorsUnique == \A ds \in Snapshots : OneClausePerAnchor(ds)

\* Undo and redo never bring back a clause of another annotation than the one
\* that is open: it would be saved under the wrong session.
NoForeignClause == \A ds \in Snapshots : Ids(ds) \subseteq owned

\* Undo and redo move snapshots between two stacks, only one of which is trimmed:
\* together they still hold at most UNDO_DEPTH of them.
HistoryBounded == Len(undoStack) + Len(redoStack) <= UndoDepth

\* A pre-filled clause that nobody confirmed is never marked as validated, so that
\* it cannot pass the submission gate: not even after undo, redo or a batch.
SeedsAwaitConfirmation ==
  \A ds \in Snapshots : \A d \in ds :
    d.c.seed # None /\ d.c.validated => d.id \in confirmed

\* The scalar theme is the primary of the multi-label set, as long as the clause
\* was not painted by a block gesture or an adoption, which set the theme alone.
MirrorOutsideBlunt ==
  \A d \in drafts : d.c.tags # None /\ d.id \notin blunt => d.c.theme = d.c.tags.primary

\* "Invariant fort : theme === themes.primary.label" of the data model: every
\* mutator keeps the mirror.
ThemeMirrorsPrimary ==
  \A d \in drafts : d.c.tags # None => d.c.theme = d.c.tags.primary

\* A multi-label set names its primary once and never has a refuge as secondary,
\* whatever list the editor submits: the server answers 400 to anything else.
TagSetsAreValid ==
  \A ds \in Snapshots : \A d \in ds :
    d.c.tags # None => ValidTags(d.c.tags)

\* What a clause says is consistent, whatever the undos, batches and answers mixed: its
\* marks, its theme and its set of themes.
ClausesAreSound == SeedsAwaitConfirmation /\ MirrorOutsideBlunt /\ TagSetsAreValid

\* In read-only mode the clauses only change when a save that was already in
\* flight answers, or when another annotation is opened.
ReadOnlyKeepsClauses ==
  [][readOnly /\ readOnly' /\ owned' = owned =>
       Ids(drafts') = Ids(drafts) /\ undoStack' = undoStack /\ redoStack' = redoStack]_vars

\* The undo stack holds "snapshots de draftClauses AVANT chaque mutation": when
\* clauses of the open annotation appear or disappear, the state before is the next
\* one undo, or redo, brings back.  seedFromPreAnnotation alone takes no snapshot:
\* a step without one only adds clauses of a judge that wait for their confirmation,
\* and removes or replaces none.
Tops(stack) == IF stack = << >> THEN {} ELSE {stack[Len(stack)]}
OnlySeeds == /\ drafts \subseteq drafts'
             /\ \A d \in drafts' \ drafts : d.c.seed # None /\ ~d.c.validated
EveryMutationIsUndoable ==
  [][dirty' /\ Ids(drafts') # Ids(drafts) =>
        OnlySeeds \/ drafts \in Tops(undoStack') \cup Tops(redoStack')]_vars

\* Clauses change only while the store takes edits, and so that undo takes it back,
\* the seeds added without a snapshot apart.
ChangesCanBeUndone == ReadOnlyKeepsClauses /\ EveryMutationIsUndoable
=============================================================================
