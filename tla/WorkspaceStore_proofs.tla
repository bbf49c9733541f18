----------------------- MODULE WorkspaceStore_proofs -----------------------
(***************************************************************************)
(* Proofs about WorkspaceStore, for any document, themes, judges, history  *)
(* depth, server answers and editor submissions.                           *)
(***************************************************************************)
EXTENDS WorkspaceStore, SequenceTheorems, WellFoundedInduction, TLAPS

\* A state of the drafts that may be saved as the work on the clauses own.
Good(own) == {ds \in Drafts : OneClausePerAnchor(ds) /\ Ids(ds) \subseteq own}

\* What one mutation after another preserves of the drafts and of the history.
CoreOK ==
  /\ drafts \in Good(owned)
  /\ undoStack \in Seq(Good(owned))
  /\ redoStack \in Seq(Good(owned))
  /\ Len(undoStack) + Len(redoStack) <= UndoDepth
  /\ selected \in Nat \cup {None}
  /\ readOnly \in BOOLEAN
  /\ dirty \in BOOLEAN
  /\ edits \in Nat

BooksOK ==
  /\ prefilled \in Judges \cup {None}
  /\ nextId \in Nat
  /\ owned \subseteq Nat
  /\ confirmed \subseteq Nat
  /\ blunt \subseteq Nat

\* The inductive invariant: AnchorsUnique and NoForeignClause are not inductive
\* without the type of what the stacks hold.
IInv == CoreOK /\ BooksOK

---------------------------------------------------------------------------
(* Least elements.                                                         *)

LEMMA Least ==
  ASSUME NEW T \in SUBSET Nat, T # {}
  PROVE  \E x \in T : \A y \in T : x <= y
<1>1. PICK x \in T : \A y \in T : ~ (<<y, x>> \in OpToRel(<, Nat))
  BY NatLessThanWellFounded, WFMin
<1>2. \A y \in T : x <= y
  <2> TAKE y \in T
  <2>1. ~ (y < x)
    BY <1>1 DEF OpToRel
  <2>2. x \in Nat /\ y \in Nat
    OBVIOUS
  <2> QED BY <2>1, <2>2
<1> QED BY <1>2

LEMMA LeftmostIsIn ==
  ASSUME NEW ds \in Drafts, ds # {}
  PROVE  Leftmost(ds) \in ds
<1> DEFINE T == {d.c.anchor : d \in ds}
<1>1. \A d \in ds : d.c.anchor \in Nat
  BY SentencesAssumption DEF Drafts, Draft, Content, Anchors
<1>2. PICK x \in T : \A y \in T : x <= y
  BY <1>1, Least
<1>3. \E d \in ds : \A e \in ds : d.c.anchor <= e.c.anchor
  BY <1>2
<1> QED BY <1>3 DEF Leftmost

LEMMA FirstIdType ==
  ASSUME NEW ds \in Drafts, NEW else \in Nat \cup {None}
  PROVE  FirstId(ds, else) \in Nat \cup {None}
<1>1. CASE ds = {}
  BY <1>1 DEF FirstId
<1>2. CASE ds # {}
  <2>1. Leftmost(ds) \in Draft
    BY <1>2, LeftmostIsIn DEF Drafts
  <2> QED BY <1>2, <2>1 DEF FirstId, Draft
<1> QED BY <1>1, <1>2

\* The place of the first tag of a label.
LEMMA FirstIsIn ==
  ASSUME NEW tags \in Seq(Tag), NEW l \in {tags[i].label : i \in DOMAIN tags}
  PROVE  First(tags, l) \in DOMAIN tags /\ tags[First(tags, l)].label = l
<1> DEFINE T == {i \in DOMAIN tags : tags[i].label = l}
<1>1. T \subseteq Nat /\ T # {}
  BY LenProperties
<1>2. PICK x \in T : \A y \in T : x <= y
  BY <1>1, Least
<1>3. \E i \in DOMAIN tags :
        tags[i].label = l /\ \A j \in DOMAIN tags : tags[j].label = l => i <= j
  BY <1>2
<1> QED BY <1>3 DEF First

\* Whatever list the editor submits, the result is a tag set of the scheme.
LEMMA SanitizeType ==
  ASSUME NEW tags \in Seq(Tag), tags # << >>
  PROVE  SanitizeThemeSet(tags) \in TagSet
<1> DEFINE labels == {tags[i].label : i \in DOMAIN tags}
           named == {l \in labels : tags[First(tags, l)].role = "primary"}
           lead == IF named = {} THEN labels ELSE named
           T == {First(tags, l) : l \in lead}
           Pri(p) == /\ named = {} \/ p \in named
                     /\ \A o \in lead : First(tags, p) <= First(tags, o)
           primary == CHOOSE p \in labels : Pri(p)
<1>1. labels \subseteq Themes
  <2>1. \A i \in DOMAIN tags : tags[i] \in Tag
    BY LenProperties
  <2> QED BY <2>1 DEF Tag
<1>2. labels # {}
  <2>1. 1 \in DOMAIN tags
    BY EmptySeq, LenProperties
  <2> QED BY <2>1
<1>3. lead # {} /\ lead \subseteq labels
  BY <1>2
<1>4. T \subseteq Nat /\ T # {}
  <2>1. \A l \in labels : First(tags, l) \in DOMAIN tags
    BY FirstIsIn
  <2>2. DOMAIN tags \subseteq Nat
    BY LenProperties
  <2> QED BY <1>3, <2>1, <2>2
<1>5. PICK x \in T : \A y \in T : x <= y
  BY <1>4, Least
<1>6. PICK p \in lead : x = First(tags, p)
  BY <1>5
<1>7. p \in labels /\ Pri(p)
  BY <1>3, <1>5, <1>6
<1>8. primary \in labels
  BY <1>7
<1>9. SanitizeThemeSet(tags) = [primary |-> primary, secondaries |-> (labels \ {primary}) \ Refuges]
  BY DEF SanitizeThemeSet
<1> HIDE DEF labels, primary
<1> QED BY <1>1, <1>8, <1>9 DEF TagSet

\* The segment that covers a sentence is one of the judge's.
LEMMA OpeningIsIn ==
  ASSUME NEW segs, DOMAIN segs \subseteq Nat, NEW a \in Nat, \E b \in DOMAIN segs : b <= a
  PROVE  Opening(segs, a) \in DOMAIN segs
<1> DEFINE T == {a - b : b \in {x \in DOMAIN segs : x <= a}}
<1>1. T \subseteq Nat /\ T # {}
  OBVIOUS
<1>2. PICK x \in T : \A y \in T : x <= y
  BY <1>1, Least
<1>3. PICK b \in DOMAIN segs : b <= a /\ x = a - b
  BY <1>2
<1>4. \A o \in DOMAIN segs : o <= a => o <= b
  <2> SUFFICES ASSUME NEW o \in DOMAIN segs, o <= a
               PROVE  o <= b
    OBVIOUS
  <2>1. a - b <= a - o
    BY <1>2, <1>3
  <2> QED BY <2>1
<1>5. \E c \in DOMAIN segs : c <= a /\ \A o \in DOMAIN segs : o <= a => o <= c
  BY <1>3, <1>4
<1> QED BY <1>5 DEF Opening

---------------------------------------------------------------------------
(* Contents of clauses.                                                    *)

LEMMA NewContentType ==
  ASSUME NEW a \in Anchors, NEW t \in Themes
  PROVE  NewContent(a, t) \in Content /\ NewContent(a, t).anchor = a
BY DetailsAssumption DEF NewContent, Content

LEMMA SeedContentType ==
  ASSUME NEW a \in Anchors, NEW t \in Themes, NEW j \in Judges
  PROVE  SeedContent(a, t, j) \in Content /\ SeedContent(a, t, j).anchor = a
<1> DEFINE x == NewContent(a, t)
<1>1. x \in Content /\ x.anchor = a
  BY NewContentType
<1>2. SeedContent(a, t, j) = [x EXCEPT !.validated = FALSE, !.seed = j]
  BY DEF SeedContent
<1> HIDE DEF x
<1> QED BY <1>1, <1>2 DEF Content

LEMMA PrimaryType ==
  ASSUME NEW c \in Content, NEW t \in Themes
  PROVE  WithPrimaryTheme(c, t) \in Content /\ WithPrimaryTheme(c, t).anchor = c.anchor
<1> DEFINE new == IF c.tags = None THEN None
                  ELSE [primary |-> t,
                        secondaries |-> (({c.tags.primary} \cup c.tags.secondaries) \ {t}) \ Refuges]
<1>1. new \in TagSet \cup {None}
  <2>1. CASE c.tags = None
    BY <2>1
  <2>2. CASE c.tags # None
    <3>1. c.tags \in TagSet
      BY <2>2 DEF Content
    <3> QED BY <2>2, <3>1 DEF TagSet
  <2> QED BY <2>1, <2>2
<1>2. WithPrimaryTheme(c, t) = [c EXCEPT !.theme = t, !.tags = new]
  BY DEF WithPrimaryTheme, Content
<1> HIDE DEF new
<1> QED BY <1>1, <1>2 DEF Content

LEMMA DecisionType ==
  ASSUME NEW c \in Content, NEW tags \in TagSet, NEW lv \in Levels
  PROVE  DecisionContent(c, tags, lv) \in Content /\ DecisionContent(c, tags, lv).anchor = c.anchor
<1>1. tags.primary \in Themes
  BY DEF TagSet
<1> QED BY <1>1 DEF DecisionContent, Content

LEMMA UnfoldedType ==
  ASSUME NEW segs \in PreAnnotations, NEW j \in Judges
  PROVE  /\ Unfolded(segs, j) \subseteq Content
         /\ \A c, d \in Unfolded(segs, j) : c.anchor = d.anchor => c = d
<1>1. PICK A \in SUBSET Anchors : segs \in [A -> Themes]
  BY InputsAssumption
<1>2. DOMAIN segs \subseteq Nat
  BY <1>1, SentencesAssumption DEF Anchors
<1>3. \A a \in Anchors : (\E b \in DOMAIN segs : b <= a) =>
         /\ SeedContent(a, segs[Opening(segs, a)], j) \in Content
         /\ SeedContent(a, segs[Opening(segs, a)], j).anchor = a
  <2> SUFFICES ASSUME NEW a \in Anchors, \E b \in DOMAIN segs : b <= a
               PROVE  /\ SeedContent(a, segs[Opening(segs, a)], j) \in Content
                      /\ SeedContent(a, segs[Opening(segs, a)], j).anchor = a
    OBVIOUS
  <2>1. a \in Nat
    BY SentencesAssumption DEF Anchors
  <2>2. segs[Opening(segs, a)] \in Themes
    BY <1>1, <1>2, <2>1, OpeningIsIn
  <2> QED BY <2>2, SeedContentType
<1>4. \A c \in Unfolded(segs, j) : \E a \in Anchors :
         /\ \E b \in DOMAIN segs : b <= a
         /\ c = SeedContent(a, segs[Opening(segs, a)], j)
  BY DEF Unfolded
<1>5. Unfolded(segs, j) \subseteq Content
  BY <1>3, <1>4
<1>6. ASSUME NEW c \in Unfolded(segs, j), NEW d \in Unfolded(segs, j), c.anchor = d.anchor
      PROVE  c = d
  BY <1>3, <1>4, <1>6
<1> QED BY <1>5, <1>6

---------------------------------------------------------------------------
(* Sets of drafts.                                                         *)

\* Contents at distinct anchors give drafts at distinct anchors.
LEMMA CreatedGood ==
  ASSUME NEW cs \in SUBSET Content, nextId \in Nat,
         \A c, d \in cs : c.anchor = d.anchor => c = d
  PROVE  /\ Created(cs) \in Drafts
         /\ OneClausePerAnchor(Created(cs))
         /\ Ids(Created(cs)) \subseteq Nat
         /\ \A d \in Created(cs) : d.c \in cs
<1>1. \A c \in cs : Fresh(c) \in Draft /\ Fresh(c).c = c
  <2> TAKE c \in cs
  <2>1. c \in Content /\ c.anchor \in Nat
    BY SentencesAssumption DEF Content, Anchors
  <2> QED BY <2>1 DEF Fresh, Draft
<1>2. \A d \in Created(cs) : \E c \in cs : d = Fresh(c)
  BY DEF Created
<1>3. Created(cs) \in Drafts
  BY <1>1, <1>2 DEF Drafts
<1>4. \A d \in Created(cs) : d.c \in cs /\ d = Fresh(d.c)
  BY <1>1, <1>2
<1>5. OneClausePerAnchor(Created(cs))
  BY <1>4 DEF OneClausePerAnchor
<1>6. Ids(Created(cs)) \subseteq Nat
  BY <1>3 DEF Ids, Drafts, Draft
<1> QED BY <1>3, <1>4, <1>5, <1>6

\* Drafts at other anchors may be put together.
LEMMA UnionGood ==
  ASSUME NEW A \in Drafts, NEW B \in Drafts,
         OneClausePerAnchor(A), OneClausePerAnchor(B),
         \A a \in A, b \in B : a.c.anchor # b.c.anchor
  PROVE  /\ A \cup B \in Drafts
         /\ OneClausePerAnchor(A \cup B)
         /\ Ids(A \cup B) = Ids(A) \cup Ids(B)
BY DEF Drafts, OneClausePerAnchor, Ids

LEMMA SubsetGood ==
  ASSUME NEW own, NEW A \in Good(own), NEW B \in SUBSET A
  PROVE  B \in Good(own)
BY DEF Good, Drafts, OneClausePerAnchor, Ids

LEMMA GoodGrows ==
  ASSUME NEW own, NEW more, own \subseteq more
  PROVE  Good(own) \subseteq Good(more)
BY DEF Good

\* What rewriting the clauses hit with f may do: it moves none of them.
Rewrites(hit, f) == \A d \in hit : f[d.c] \in Content /\ f[d.c].anchor = d.c.anchor

LEMMA UpdatedGood ==
  ASSUME NEW own, drafts \in Good(own), NEW hit \in SUBSET drafts, NEW f, Rewrites(hit, f)
  PROVE  /\ Updated(hit, f) \in Good(own)
         /\ \A e \in Updated(hit, f) : \E d \in drafts : e.id = d.id /\ e.c.anchor = d.c.anchor
<1> DEFINE New(d) == IF d \in hit THEN [d EXCEPT !.c = f[d.c]] ELSE d
<1>1. \A d \in drafts : d \in Draft
  BY DEF Good, Drafts
<1>2. \A d \in drafts : New(d) \in Draft /\ New(d).id = d.id /\ New(d).c.anchor = d.c.anchor
  <2> TAKE d \in drafts
  <2>1. CASE d \in hit
    <3>1. f[d.c] \in Content /\ f[d.c].anchor = d.c.anchor
      BY <2>1 DEF Rewrites
    <3> QED BY <1>1, <2>1, <3>1 DEF Draft
  <2>2. CASE d \notin hit
    BY <1>1, <2>2
  <2> QED BY <2>1, <2>2
<1>3. \A e \in Updated(hit, f) : \E d \in drafts : e = New(d)
  BY DEF Updated
<1> HIDE DEF New
<1>4. Updated(hit, f) \in Drafts
  BY <1>2, <1>3 DEF Drafts
<1>5. \A e \in Updated(hit, f) : \E d \in drafts : e.id = d.id /\ e.c.anchor = d.c.anchor
  BY <1>2, <1>3
<1>6. ASSUME NEW x \in Updated(hit, f), NEW y \in Updated(hit, f), x.c.anchor = y.c.anchor
      PROVE  x = y
  <2>1. PICK d \in drafts : x = New(d)
    BY <1>3
  <2>2. PICK e \in drafts : y = New(e)
    BY <1>3
  <2>3. d.c.anchor = e.c.anchor
    BY <1>2, <1>6, <2>1, <2>2
  <2>4. d = e
    BY <2>3 DEF Good, OneClausePerAnchor
  <2> QED BY <2>1, <2>2, <2>4
<1>7. Ids(Updated(hit, f)) \subseteq own
  <2>1. Ids(drafts) \subseteq own
    BY DEF Good
  <2> QED BY <1>5, <2>1 DEF Ids
<1> QED BY <1>4, <1>5, <1>6, <1>7 DEF Good, OneClausePerAnchor

\* A batch: some clauses rewritten, some created at anchors where none starts.
LEMMA BatchGood ==
  ASSUME drafts \in Good(owned), nextId \in Nat, NEW hit \in SUBSET drafts, NEW f, Rewrites(hit, f),
         NEW cs \in SUBSET Content,
         \A c, d \in cs : c.anchor = d.anchor => c = d,
         \A c \in cs, d \in drafts : c.anchor # d.c.anchor
  PROVE  /\ Updated(hit, f) \cup Created(cs) \in Good(owned \cup Ids(Created(cs)))
         /\ Ids(Created(cs)) \subseteq Nat
<1> DEFINE U == Updated(hit, f)
           N == Created(cs)
<1>1. /\ U \in Good(owned)
      /\ \A e \in U : \E d \in drafts : e.id = d.id /\ e.c.anchor = d.c.anchor
  BY UpdatedGood
<1>2. /\ N \in Drafts
      /\ OneClausePerAnchor(N)
      /\ Ids(N) \subseteq Nat
      /\ \A d \in N : d.c \in cs
  BY CreatedGood
<1> HIDE DEF U, N
<1>3. \A a \in U, b \in N : a.c.anchor # b.c.anchor
  BY <1>1, <1>2
<1>4. /\ U \cup N \in Drafts
      /\ OneClausePerAnchor(U \cup N)
      /\ Ids(U \cup N) = Ids(U) \cup Ids(N)
  BY <1>1, <1>2, <1>3, UnionGood DEF Good
<1>5. U \cup N \in Good(owned \cup Ids(N))
  BY <1>1, <1>4 DEF Good
<1> QED BY <1>2, <1>5 DEF U, N

---------------------------------------------------------------------------
(* The history.                                                            *)

LEMMA PushUndoOK ==
  ASSUME NEW S, NEW stack \in Seq(S), NEW ds \in S
  PROVE  /\ PushUndo(stack, ds) \in Seq(S)
         /\ Len(PushUndo(stack, ds)) <= UndoDepth \/ Len(stack) > UndoDepth
<1> DEFINE next == Append(stack, ds)
<1>1. next \in Seq(S) /\ next # << >> /\ Len(next) = Len(stack) + 1 /\ Len(stack) \in Nat
  BY AppendProperties, LenProperties
<1> HIDE DEF next
<1>2. Tail(next) \in Seq(S) /\ Len(Tail(next)) = Len(next) - 1
  BY <1>1, HeadTailProperties
<1>3. PushUndo(stack, ds) = IF Len(next) > UndoDepth THEN Tail(next) ELSE next
  BY DEF PushUndo, next
<1> QED BY <1>1, <1>2, <1>3, UndoDepthAssumption

LEMMA PopOK ==
  ASSUME NEW S, NEW stack \in Seq(S), stack # << >>
  PROVE  /\ SubSeq(stack, 1, Len(stack) - 1) \in Seq(S)
         /\ Len(SubSeq(stack, 1, Len(stack) - 1)) = Len(stack) - 1
         /\ stack[Len(stack)] \in S
         /\ Len(stack) \in Nat \ {0}
<1>1. Len(stack) \in Nat \ {0}
  BY EmptySeq
<1>2. \A i \in 1 .. Len(stack) : stack[i] \in S
  BY ElementOfSeq
<1> DEFINE n == Len(stack) - 1
<1>3. n \in Nat /\ \A i \in 1 .. n : stack[i] \in S
  BY <1>1, <1>2
<1> HIDE DEF n
<1>4. /\ SubSeq(stack, 1, n) \in Seq(S)
      /\ Len(SubSeq(stack, 1, n)) = IF 1 <= n THEN n - 1 + 1 ELSE 0
  BY <1>3, SubSeqProperties
<1>5. Len(SubSeq(stack, 1, n)) = n
  BY <1>3, <1>4
<1> QED BY <1>1, <1>2, <1>4, <1>5 DEF n

\* Every mutation goes through Commit.
LEMMA CommitOK ==
  ASSUME CoreOK, NEW new, NEW sel \in Nat \cup {None}, Commit(new, sel),
         owned \subseteq owned', new \in Good(owned')
  PROVE  CoreOK'
<1>1. undoStack \in Seq(Good(owned')) /\ drafts \in Good(owned')
  BY GoodGrows, SeqMonotonic DEF CoreOK
<1>2. Len(undoStack) \in Nat /\ Len(redoStack) \in Nat
  BY LenProperties DEF CoreOK
<1>3. undoStack' \in Seq(Good(owned')) /\ Len(undoStack') <= UndoDepth
  BY <1>1, <1>2, PushUndoOK, UndoDepthAssumption DEF CoreOK, Commit
<1>4. redoStack' \in Seq(Good(owned')) /\ Len(redoStack') = 0
  BY EmptySeq DEF Commit
<1>5. Len(undoStack') + Len(redoStack') <= UndoDepth
  BY <1>3, <1>4, LenProperties
<1>6. /\ drafts' \in Good(owned')
      /\ selected' \in Nat \cup {None}
      /\ readOnly' \in BOOLEAN
      /\ dirty' \in BOOLEAN
      /\ edits' \in Nat
  BY DEF CoreOK, Commit, Call
<1> QED BY <1>3, <1>4, <1>5, <1>6 DEF CoreOK

---------------------------------------------------------------------------
(* One step.                                                               *)

LEMMA PaletteType == Palette \subseteq Themes
BY InputsAssumption

\* A mutation that rewrites the clauses hit with f and creates none.
LEMMA RewriteOK ==
  ASSUME IInv, NEW hit \in SUBSET drafts, NEW f, Rewrites(hit, f),
         NEW sel \in Nat \cup {None}, Commit(Updated(hit, f), sel), owned' = owned
  PROVE  CoreOK'
<1>1. Updated(hit, f) \in Good(owned)
  BY UpdatedGood DEF IInv, CoreOK
<1> QED BY <1>1, CommitOK DEF IInv

\* A mutation that also creates clauses with the contents cs.
LEMMA BatchOK ==
  ASSUME IInv, NEW hit \in SUBSET drafts, NEW f, Rewrites(hit, f),
         NEW cs \in SUBSET Content,
         \A c, d \in cs : c.anchor = d.anchor => c = d,
         \A c \in cs, d \in drafts : c.anchor # d.c.anchor,
         NEW sel \in Nat \cup {None},
         Commit(Updated(hit, f) \cup Created(cs), sel), Creates(Created(cs))
  PROVE  CoreOK' /\ Ids(Created(cs)) \subseteq Nat
<1>1. /\ Updated(hit, f) \cup Created(cs) \in Good(owned \cup Ids(Created(cs)))
      /\ Ids(Created(cs)) \subseteq Nat
  BY BatchGood DEF IInv, CoreOK, BooksOK
<1>2. owned' = owned \cup Ids(Created(cs))
  BY DEF Creates
<1>3. CoreOK'
  BY <1>1, <1>2, CommitOK DEF IInv
<1> QED BY <1>1, <1>3

LEMMA NumbersGrow == ASSUME IInv PROVE edits + 1 \in Nat /\ nextId + NSentences \in Nat
BY SentencesAssumption DEF IInv, CoreOK, BooksOK

LEMMA IdsAreNat == ASSUME IInv PROVE \A d \in drafts : d.id \in Nat
BY DEF IInv, CoreOK, Good, Drafts, Draft

LEMMA ContentsOfDrafts == ASSUME IInv PROVE \A d \in drafts : d.c \in Content
BY DEF IInv, CoreOK, Good, Drafts, Draft

LEMMA OpenOK ==
  ASSUME IInv, NEW load \in Loads, NEW ro \in BOOLEAN, Open(load, ro)
  PROVE  IInv'
<1> DEFINE new == Created(load)
<1>1. load \in SUBSET Content /\ \A c, d \in load : c.anchor = d.anchor => c = d
  BY LoadsAssumption
<1>2. /\ new \in Drafts
      /\ OneClausePerAnchor(new)
      /\ Ids(new) \subseteq Nat
  BY <1>1, CreatedGood DEF IInv, BooksOK
<1>3. FirstId(new, None) \in Nat \cup {None}
  BY <1>2, FirstIdType
<1>4. /\ drafts' = new /\ undoStack' = << >> /\ redoStack' = << >> /\ selected' = FirstId(new, None)
      /\ readOnly' = ro /\ dirty' = FALSE /\ prefilled' = None /\ owned' = Ids(new)
      /\ nextId' = nextId + NSentences /\ edits' = edits + 1 /\ blunt' = blunt
      /\ confirmed' = confirmed \cup Ids({d \in new : d.c.validated})
  BY DEF Open, Call
<1> HIDE DEF new
<1>5. drafts' \in Good(owned')
  BY <1>2, <1>4 DEF Good
<1>6. Ids({d \in new : d.c.validated}) \subseteq Ids(new)
  BY DEF Ids
<1>7. /\ undoStack' \in Seq(Good(owned')) /\ redoStack' \in Seq(Good(owned'))
      /\ Len(undoStack') + Len(redoStack') <= UndoDepth
  BY <1>4, EmptySeq, UndoDepthAssumption
<1>8. edits' \in Nat /\ nextId' \in Nat
  BY <1>4, NumbersGrow DEF IInv, CoreOK, BooksOK
<1>9. CoreOK'
  BY <1>3, <1>4, <1>5, <1>7, <1>8 DEF CoreOK
<1>10. BooksOK'
  BY <1>2, <1>4, <1>6, <1>8 DEF BooksOK, IInv
<1> QED BY <1>9, <1>10 DEF IInv

LEMMA PlaceOK ==
  ASSUME IInv, NEW a \in Anchors, NEW t \in Palette, Place(a, t)
  PROVE  IInv'
<1> DEFINE c == NewContent(a, t)
           new == Fresh(c)
<1>1. c \in Content /\ c.anchor = a
  BY NewContentType, PaletteType
<1>2. new \in Draft /\ new.c = c /\ new.id \in Nat
  BY <1>1, SentencesAssumption DEF Fresh, Draft, IInv, BooksOK, Anchors
<1>3. /\ At(drafts, a) = {}
      /\ Commit(drafts \cup {new}, new.id)
      /\ owned' = owned \cup Ids({new}) /\ nextId' = nextId + NSentences
      /\ confirmed' = confirmed \cup {new.id}
      /\ blunt' = blunt /\ prefilled' = prefilled
  BY DEF Place, Creates, Confirms, Mirrors
<1> HIDE DEF c, new
<1>4. {new} \in Drafts /\ OneClausePerAnchor({new})
  BY <1>2 DEF Drafts, OneClausePerAnchor
<1>5. \A d \in drafts, e \in {new} : d.c.anchor # e.c.anchor
  BY <1>1, <1>2, <1>3 DEF At
<1>6. drafts \in Drafts /\ OneClausePerAnchor(drafts) /\ Ids(drafts) \subseteq owned
  BY DEF IInv, CoreOK, Good
<1>7. /\ drafts \cup {new} \in Drafts
      /\ OneClausePerAnchor(drafts \cup {new})
      /\ Ids(drafts \cup {new}) = Ids(drafts) \cup Ids({new})
  BY <1>4, <1>5, <1>6, UnionGood
<1>8. drafts \cup {new} \in Good(owned')
  BY <1>3, <1>6, <1>7 DEF Good
<1>9. CoreOK'
  BY <1>2, <1>3, <1>8, CommitOK DEF IInv
<1>10. nextId' \in Nat /\ Ids({new}) = {new.id}
  BY <1>3, NumbersGrow DEF Ids
<1>11. BooksOK'
  BY <1>2, <1>3, <1>10 DEF BooksOK, IInv
<1> QED BY <1>9, <1>11 DEF IInv

LEMMA RethemeOK ==
  ASSUME IInv, NEW a \in Anchors, NEW t \in Palette, Retheme(a, t)
  PROVE  IInv'
<1> DEFINE f == [c \in Content |-> [WithPrimaryTheme(c, t) EXCEPT !.validated = TRUE, !.level = None]]
<1>1. PICK d \in At(drafts, a) :
        /\ Commit(Updated({d}, f), d.id) /\ Keeps /\ Confirms({d.id}) /\ Mirrors
        /\ UNCHANGED prefilled
  BY DEF Retheme
<1>2. d \in drafts /\ d.id \in Nat
  BY <1>1, IdsAreNat DEF At
<1>3. \A c \in Content : f[c] \in Content /\ f[c].anchor = c.anchor
  <2> TAKE c \in Content
  <2> DEFINE x == WithPrimaryTheme(c, t)
  <2>1. x \in Content /\ x.anchor = c.anchor
    BY PrimaryType, PaletteType
  <2>2. f[c] = [x EXCEPT !.validated = TRUE, !.level = None]
    OBVIOUS
  <2> HIDE DEF f, x
  <2> QED BY <2>1, <2>2 DEF Content
<1>4. {d} \in SUBSET drafts /\ Rewrites({d}, f)
  BY <1>2, <1>3, ContentsOfDrafts DEF Rewrites
<1> HIDE DEF f
<1>6. CoreOK'
  BY <1>1, <1>2, <1>4, RewriteOK DEF Keeps
<1>7. BooksOK'
  BY <1>1, <1>2 DEF BooksOK, IInv, Keeps, Confirms, Mirrors
<1> QED BY <1>6, <1>7 DEF IInv

LEMMA RemoveOK ==
  ASSUME IInv, NEW a \in Anchors, RemoveBoundary(a)
  PROVE  IInv'
<1>1. drafts \ At(drafts, a) \in Good(owned)
  BY SubsetGood DEF IInv, CoreOK
<1>2. CoreOK'
  BY <1>1, CommitOK DEF IInv, RemoveBoundary, Keeps, CoreOK
<1>3. BooksOK'
  BY DEF BooksOK, IInv, RemoveBoundary, Keeps, Confirms, Mirrors
<1> QED BY <1>2, <1>3 DEF IInv

LEMMA ToggleOK ==
  ASSUME IInv, NEW a \in Anchors, NEW t \in Palette, ToggleBoundary(a, t)
  PROVE  IInv'
BY PlaceOK, RethemeOK, RemoveOK DEF ToggleBoundary

LEMMA SelectOK == ASSUME IInv, SelectClause PROVE IInv'
BY IdsAreNat DEF SelectClause, IInv, CoreOK, BooksOK, Ids

LEMMA ReselectOK ==
  ASSUME IInv, NEW a \in Anchors, NEW t \in Palette, Reselect(a, t)
  PROVE  IInv'
<1>1. selected' \in Nat \cup {None}
  BY IdsAreNat DEF Reselect, At
<1> QED BY <1>1 DEF Reselect, IInv, CoreOK, BooksOK

\* The frame of the mutations that create clauses: books and history.
LEMMA BatchBooksOK ==
  ASSUME IInv, NEW new, Ids(new) \subseteq Nat, Creates(new),
         NEW hit \in SUBSET drafts, Confirms(Ids(hit) \cup Ids(new)),
         blunt' \subseteq blunt \cup Ids(drafts), UNCHANGED prefilled
  PROVE  BooksOK'
<1>1. Ids(hit) \subseteq Nat /\ Ids(drafts) \subseteq Nat
  BY IdsAreNat DEF Ids
<1>2. nextId' \in Nat
  BY NumbersGrow DEF Creates
<1> QED BY <1>1, <1>2 DEF Creates, Confirms, BooksOK, IInv

LEMMA TriageOK ==
  ASSUME IInv, NEW A \in SUBSET Anchors, NEW dec \in [A -> Cards], NEW lv \in Levels,
         ApplyTriage(dec, lv)
  PROVE  IInv'
<1> DEFINE known == {d \in drafts : d.c.anchor \in A}
           f == [c \in Content |-> DecisionContent(c, dec[c.anchor], lv)]
           bare == A \ {d.c.anchor : d \in known}
           cs == {DecisionContent(NewContent(a, dec[a].primary), dec[a], lv) : a \in bare}
           next == Updated(known, f) \cup Created(cs)
           sel == IF Cardinality(A) = 1
                  THEN FirstId({d \in next : d.c.anchor \in A}, None) ELSE selected
<1>1. /\ Commit(next, sel) /\ Creates(Created(cs))
      /\ Confirms(Ids(known) \cup Ids(Created(cs))) /\ Mirrors /\ UNCHANGED prefilled
  BY DEF ApplyTriage
<1>2. \A a \in A : dec[a] \in TagSet /\ dec[a].primary \in Themes
  BY InputsAssumption DEF TagSet
<1>3. \A a \in bare :
        LET c == DecisionContent(NewContent(a, dec[a].primary), dec[a], lv)
        IN c \in Content /\ c.anchor = a
  BY <1>2, NewContentType, DecisionType
<1>4. cs \in SUBSET Content /\ \A c, d \in cs : c.anchor = d.anchor => c = d
  BY <1>3
<1>5. \A c \in cs, d \in drafts : c.anchor # d.c.anchor
  BY <1>3
<1>6. known \in SUBSET drafts /\ Rewrites(known, f)
  BY <1>2, ContentsOfDrafts, DecisionType DEF Rewrites
<1>7. next \in Drafts
  BY <1>4, <1>5, <1>6, BatchGood DEF IInv, CoreOK, BooksOK, Good
<1>8. sel \in Nat \cup {None}
  <2> HIDE DEF next
  <2>1. {d \in next : d.c.anchor \in A} \in Drafts
    BY <1>7 DEF Drafts
  <2>2. FirstId({d \in next : d.c.anchor \in A}, None) \in Nat \cup {None}
    BY <2>1, FirstIdType
  <2> QED BY <2>2 DEF IInv, CoreOK
<1> HIDE DEF known, f, cs, sel
<1>9. CoreOK' /\ Ids(Created(cs)) \subseteq Nat
  BY <1>1, <1>4, <1>5, <1>6, <1>8, BatchOK
<1>10. BooksOK'
  BY <1>1, <1>6, <1>9, BatchBooksOK DEF Mirrors
<1> QED BY <1>9, <1>10 DEF IInv

LEMMA PaintOK ==
  ASSUME IInv, NEW lo \in Anchors, NEW hi \in Anchors, NEW t \in Palette,
         BlockAnnotate(lo .. hi, t)
  PROVE  IInv'
<1> DEFINE range == lo .. hi
           known == {d \in drafts : d.c.anchor \in range}
           hit == {d \in known : d.c.theme # t \/ ~d.c.validated}
           f == [c \in Content |-> [c EXCEPT !.theme = t, !.validated = TRUE]]
           bare == range \ {d.c.anchor : d \in known}
           cs == {NewContent(a, t) : a \in bare}
           next == Updated(hit, f) \cup Created(cs)
           sel == FirstId({d \in next : d.c.anchor \in range}, None)
<1>1. /\ Commit(next, sel) /\ Creates(Created(cs))
      /\ Confirms(Ids(hit) \cup Ids(Created(cs)))
      /\ blunt' = blunt \cup Ids({d \in hit : d.c.theme # t}) /\ UNCHANGED prefilled
  BY DEF BlockAnnotate
<1>2. range \subseteq Anchors /\ t \in Themes
  BY SentencesAssumption, PaletteType DEF Anchors
<1>3. \A a \in bare : NewContent(a, t) \in Content /\ NewContent(a, t).anchor = a
  BY <1>2, NewContentType
<1>4. cs \in SUBSET Content /\ \A c, d \in cs : c.anchor = d.anchor => c = d
  BY <1>3
<1>5. \A c \in cs, d \in drafts : c.anchor # d.c.anchor
  BY <1>3
<1>6. hit \in SUBSET drafts /\ Rewrites(hit, f)
  BY <1>2, ContentsOfDrafts DEF Rewrites, Content
<1>7. next \in Drafts
  BY <1>4, <1>5, <1>6, BatchGood DEF IInv, CoreOK, BooksOK, Good
<1>8. sel \in Nat \cup {None}
  <2> HIDE DEF next
  <2>1. {d \in next : d.c.anchor \in range} \in Drafts
    BY <1>7 DEF Drafts
  <2> QED BY <2>1, FirstIdType
<1>9. Ids({d \in hit : d.c.theme # t}) \subseteq Ids(drafts)
  BY DEF Ids
<1> HIDE DEF hit, f, cs, sel
<1>10. CoreOK' /\ Ids(Created(cs)) \subseteq Nat
  BY <1>1, <1>4, <1>5, <1>6, <1>8, BatchOK
<1>11. BooksOK'
  BY <1>1, <1>6, <1>9, <1>10, BatchBooksOK
<1> QED BY <1>10, <1>11 DEF IInv

LEMMA AdoptOK ==
  ASSUME IInv, NEW lo \in Anchors, NEW hi \in Anchors, NEW j \in Judges, NEW t \in Palette,
         Adopt(lo, hi, j, t)
  PROVE  IInv'
<1> DEFINE range == lo .. hi
           known == {d \in drafts : d.c.anchor \in range}
           hit == {d \in known : d.c.theme # t \/ d.c.adopted # j \/ ~d.c.validated}
           f == [c \in Content |-> [c EXCEPT !.theme = t, !.adopted = j, !.validated = TRUE]]
           bare == range \ {d.c.anchor : d \in known}
           New(a) == [NewContent(a, t) EXCEPT !.adopted = j]
           cs == {New(a) : a \in bare}
           next == Updated(hit, f) \cup Created(cs)
           sel == IF lo = hi THEN FirstId(At(next, lo), None)
                  ELSE FirstId(At(drafts, lo), selected)
<1>1. /\ Commit(next, sel) /\ Creates(Created(cs))
      /\ Confirms(Ids(hit) \cup Ids(Created(cs)))
      /\ blunt' = blunt \cup Ids({d \in hit : d.c.theme # t}) /\ UNCHANGED prefilled
  BY DEF Adopt
<1>2. range \subseteq Anchors /\ t \in Themes
  BY SentencesAssumption, PaletteType DEF Anchors
<1>3. \A a \in bare : New(a) \in Content /\ New(a).anchor = a
  <2> TAKE a \in bare
  <2> DEFINE c == NewContent(a, t)
  <2>1. c \in Content /\ c.anchor = a
    BY <1>2, NewContentType
  <2>2. New(a) = [c EXCEPT !.adopted = j]
    OBVIOUS
  <2> HIDE DEF c, New
  <2> QED BY <2>1, <2>2 DEF Content
<1>4. cs \in SUBSET Content /\ \A c, d \in cs : c.anchor = d.anchor => c = d
  <2> HIDE DEF New
  <2> QED BY <1>3
<1>5. \A c \in cs, d \in drafts : c.anchor # d.c.anchor
  <2> HIDE DEF New
  <2> QED BY <1>3
<1>6. hit \in SUBSET drafts /\ Rewrites(hit, f)
  BY <1>2, ContentsOfDrafts DEF Rewrites, Content
<1>7. next \in Drafts
  BY <1>4, <1>5, <1>6, BatchGood DEF IInv, CoreOK, BooksOK, Good
<1>8. sel \in Nat \cup {None}
  <2> HIDE DEF next
  <2>1. At(next, lo) \in Drafts /\ At(drafts, lo) \in Drafts
    BY <1>7 DEF Drafts, At, IInv, CoreOK, Good
  <2>2. selected \in Nat \cup {None}
    BY DEF IInv, CoreOK
  <2>3. FirstId(At(next, lo), None) \in Nat \cup {None}
    BY <2>1, FirstIdType
  <2>4. FirstId(At(drafts, lo), selected) \in Nat \cup {None}
    BY <2>1, <2>2, FirstIdType
  <2> QED BY <2>3, <2>4
<1>9. Ids({d \in hit : d.c.theme # t}) \subseteq Ids(drafts)
  BY DEF Ids
<1> HIDE DEF hit, f, cs, sel
<1>10. CoreOK' /\ Ids(Created(cs)) \subseteq Nat
  BY <1>1, <1>4, <1>5, <1>6, <1>8, BatchOK
<1>11. BooksOK'
  BY <1>1, <1>6, <1>9, <1>10, BatchBooksOK
<1> QED BY <1>10, <1>11 DEF IInv

LEMMA BlockClearOK ==
  ASSUME IInv, NEW range, BlockClear(range)
  PROVE  IInv'
<1> DEFINE next == drafts \ {d \in drafts : d.c.anchor \in range}
<1>1. next \in Good(owned)
  BY SubsetGood DEF IInv, CoreOK
<1>2. /\ Commit(next, IF selected \in Ids(next) THEN selected ELSE None)
      /\ Keeps /\ Confirms({}) /\ Mirrors /\ UNCHANGED prefilled
  BY DEF BlockClear
<1> HIDE DEF next
<1>3. CoreOK'
  BY <1>1, <1>2, CommitOK DEF IInv, CoreOK, Keeps
<1>4. BooksOK'
  BY <1>2 DEF BooksOK, IInv, Keeps, Confirms, Mirrors
<1> QED BY <1>3, <1>4 DEF IInv

\* The handles are ids.
LEMMA HandleType == ASSUME IInv PROVE Handles \subseteq Nat
BY IdsAreNat DEF Handles, Ids, IInv, CoreOK

\* The mutations that rewrite some clauses: what they leave of the books.
LEMMA RewriteBooksOK ==
  ASSUME IInv, Keeps, NEW ids \in SUBSET Nat, Confirms(ids), Mirrors, UNCHANGED prefilled
  PROVE  BooksOK'
BY DEF IInv, BooksOK, Keeps, Confirms, Mirrors

LEMMA UpdateThemeOK ==
  ASSUME IInv, NEW id \in Handles, NEW t \in Palette, UpdateTheme(id, t)
  PROVE  IInv'
<1> DEFINE f == [c \in Content |-> [WithPrimaryTheme(c, t) EXCEPT !.level = None]]
<1>1. \A c \in Content : f[c] \in Content /\ f[c].anchor = c.anchor
  <2> TAKE c \in Content
  <2> DEFINE x == WithPrimaryTheme(c, t)
  <2>1. x \in Content /\ x.anchor = c.anchor
    BY PrimaryType, PaletteType
  <2>2. f[c] = [x EXCEPT !.level = None]
    OBVIOUS
  <2> HIDE DEF f, x
  <2> QED BY <2>1, <2>2 DEF Content
<1>2. /\ Commit(Updated(WithId(id), f), selected)
      /\ Keeps /\ Confirms({}) /\ Mirrors /\ UNCHANGED prefilled
  BY DEF UpdateTheme
<1>3. WithId(id) \in SUBSET drafts /\ Rewrites(WithId(id), f)
  BY <1>1, ContentsOfDrafts DEF WithId, Rewrites
<1> HIDE DEF f
<1>4. CoreOK'
  BY <1>2, <1>3, RewriteOK DEF IInv, CoreOK, Keeps
<1>5. BooksOK'
  BY <1>2, RewriteBooksOK
<1> QED BY <1>4, <1>5 DEF IInv

LEMMA UpdateDetailOK ==
  ASSUME IInv, NEW id \in Handles, NEW x \in Details, UpdateDetail(id, x)
  PROVE  IInv'
<1> DEFINE f == [c \in Content |-> [c EXCEPT !.detail = x]]
<1>1. \A c \in Content : f[c] \in Content /\ f[c].anchor = c.anchor
  BY DEF Content
<1>2. /\ Commit(Updated(WithId(id), f), selected)
      /\ Keeps /\ Confirms({}) /\ Mirrors /\ UNCHANGED prefilled
  BY DEF UpdateDetail
<1>3. WithId(id) \in SUBSET drafts /\ Rewrites(WithId(id), f)
  BY <1>1, ContentsOfDrafts DEF WithId, Rewrites
<1> HIDE DEF f
<1>4. CoreOK'
  BY <1>2, <1>3, RewriteOK DEF IInv, CoreOK, Keeps
<1>5. BooksOK'
  BY <1>2, RewriteBooksOK
<1> QED BY <1>4, <1>5 DEF IInv

LEMMA SetThemesOK ==
  ASSUME IInv, NEW id \in Handles, NEW tags \in Messy, SetClauseThemes(id, tags)
  PROVE  IInv'
<1> DEFINE set == SanitizeThemeSet(tags)
           f == [c \in Content |-> [c EXCEPT !.tags = set, !.theme = set.primary,
                                              !.validated = TRUE, !.level = None]]
<1>1. set \in TagSet /\ set.primary \in Themes
  <2>1. tags \in Seq(Tag) /\ tags # << >>
    BY MessyAssumption
  <2>2. set \in TagSet
    BY <2>1, SanitizeType
  <2> HIDE DEF set
  <2> QED BY <2>2 DEF TagSet
<1>2. /\ Commit(Updated(WithId(id), f), id)
      /\ Keeps /\ Confirms({id}) /\ Mirrors /\ UNCHANGED prefilled
  BY DEF SetClauseThemes
<1> HIDE DEF set
<1>3. \A c \in Content : f[c] \in Content /\ f[c].anchor = c.anchor
  BY <1>1 DEF Content
<1>4. WithId(id) \in SUBSET drafts /\ Rewrites(WithId(id), f)
  BY <1>3, ContentsOfDrafts DEF WithId, Rewrites
<1>5. id \in Nat
  BY HandleType
<1> HIDE DEF f
<1>6. CoreOK'
  BY <1>2, <1>4, <1>5, RewriteOK DEF Keeps
<1>7. BooksOK'
  BY <1>2, <1>5, RewriteBooksOK
<1> QED BY <1>6, <1>7 DEF IInv

LEMMA ValidateOK ==
  ASSUME IInv, NEW ids \in SUBSET Handles, NEW v \in BOOLEAN, ValidateClauses(ids, v)
  PROVE  IInv'
<1> DEFINE hit == {d \in drafts : d.id \in ids /\ d.c.validated # v}
           f == [c \in Content |-> [c EXCEPT !.validated = v]]
<1>1. \A c \in Content : f[c] \in Content /\ f[c].anchor = c.anchor
  BY DEF Content
<1>2. /\ Commit(Updated(hit, f), selected)
      /\ Keeps /\ Confirms(Ids(hit)) /\ Mirrors /\ UNCHANGED prefilled
  BY DEF ValidateClauses
<1>3. hit \in SUBSET drafts /\ Rewrites(hit, f)
  BY <1>1, ContentsOfDrafts DEF Rewrites
<1>4. Ids(hit) \in SUBSET Nat
  BY IdsAreNat DEF Ids
<1> HIDE DEF f, hit
<1>5. CoreOK'
  BY <1>2, <1>3, RewriteOK DEF IInv, CoreOK, Keeps
<1>6. BooksOK'
  BY <1>2, <1>4, RewriteBooksOK
<1> QED BY <1>5, <1>6 DEF IInv

\* The answer to a save is not a mutation: it keeps the history.
LEMMA ReconcileOK ==
  ASSUME IInv, NEW id \in Handles, NEW t \in Palette, NEW v \in BOOLEAN,
         NEW tags \in StoredTags(t), Reconcile(id, t, tags, v)
  PROVE  IInv'
<1> DEFINE f == [c \in Content |-> [c EXCEPT !.theme = t, !.tags = tags, !.validated = v]]
<1>1. t \in Themes /\ tags \in TagSet \cup {None}
  BY InputsAssumption DEF StoredTags
<1>2. \A c \in Content : f[c] \in Content /\ f[c].anchor = c.anchor
  BY <1>1 DEF Content
<1>3. WithId(id) \in SUBSET drafts /\ Rewrites(WithId(id), f)
  BY <1>2, ContentsOfDrafts DEF WithId, Rewrites
<1>4. /\ drafts' = Updated(WithId(id), f)
      /\ confirmed' = IF v THEN confirmed \cup {id} ELSE confirmed
      /\ edits' = edits + 1
      /\ UNCHANGED <<undoStack, redoStack, selected, readOnly, dirty, prefilled,
                     nextId, owned, blunt>>
  BY DEF Reconcile, Call
<1>5. id \in Nat
  BY HandleType
<1> HIDE DEF f
<1>6. drafts' \in Good(owned)
  BY <1>3, <1>4, UpdatedGood DEF IInv, CoreOK
<1> QED BY <1>4, <1>5, <1>6, NumbersGrow DEF IInv, CoreOK, BooksOK

LEMMA OverwriteOK ==
  ASSUME IInv, NEW segs \in PreAnnotations, NEW j \in Judges, OverwritePrefill(segs, j)
  PROVE  IInv'
<1> DEFINE new == Created(Unfolded(segs, j))
<1>1. /\ new \in Drafts
      /\ OneClausePerAnchor(new)
      /\ Ids(new) \subseteq Nat
  BY UnfoldedType, CreatedGood DEF IInv, BooksOK
<1>2. /\ Commit(new, FirstId(new, None))
      /\ prefilled' = j
      /\ Creates(new) /\ Confirms({}) /\ Mirrors
  BY DEF OverwritePrefill
<1> HIDE DEF new
<1>3. new \in Good(owned') /\ owned \subseteq owned'
  BY <1>1, <1>2 DEF Good, Creates
<1>4. CoreOK'
  BY <1>1, <1>2, <1>3, FirstIdType, CommitOK DEF IInv
<1>5. BooksOK'
  BY <1>1, <1>2, NumbersGrow DEF IInv, BooksOK, Creates, Confirms, Mirrors
<1> QED BY <1>4, <1>5 DEF IInv

\* The contents a seeding adds are clauses at anchors of their own, where none starts.
LEMMA SeedContentsType ==
  ASSUME NEW segs \in PreAnnotations, NEW j \in Judges
  PROVE  /\ SeedContents(segs, j) \subseteq Content
         /\ \A c, d \in SeedContents(segs, j) : c.anchor = d.anchor => c = d
         /\ \A c \in SeedContents(segs, j), d \in drafts : c.anchor # d.c.anchor
<1>1. \A a \in DOMAIN segs : a \in Anchors /\ segs[a] \in Themes
  <2>1. PICK A \in SUBSET Anchors : segs \in [A -> Themes]
    BY InputsAssumption
  <2> QED BY <2>1
<1>2. \A a \in DOMAIN segs : /\ SeedContent(a, segs[a], j) \in Content
                             /\ SeedContent(a, segs[a], j).anchor = a
  BY <1>1, SeedContentType
<1> QED BY <1>2 DEF SeedContents

LEMMA SeedOK ==
  ASSUME IInv, NEW segs \in PreAnnotations, NEW j \in Judges, SeedFromPreAnnotation(segs, j)
  PROVE  IInv'
<1> DEFINE new == Created(SeedContents(segs, j))
<1>1. /\ new \in Drafts /\ OneClausePerAnchor(new) /\ Ids(new) \subseteq Nat
      /\ \A d \in new : d.c \in SeedContents(segs, j)
  BY SeedContentsType, CreatedGood DEF IInv, BooksOK
<1>2. \A a \in drafts, b \in new : a.c.anchor # b.c.anchor
  BY <1>1, SeedContentsType
<1>3. /\ drafts' = drafts \cup new /\ selected' \in {selected} \cup Ids(new) /\ dirty' = TRUE
      /\ edits' = edits + 1 /\ owned' = owned \cup Ids(new) /\ nextId' = nextId + NSentences
      /\ confirmed' = confirmed /\ UNCHANGED <<blunt, undoStack, redoStack, readOnly, prefilled>>
  BY DEF SeedFromPreAnnotation, SeedContents, Call, Creates, Confirms, Mirrors
<1> HIDE DEF new
<1>4. drafts \in Drafts /\ OneClausePerAnchor(drafts) /\ Ids(drafts) \subseteq owned
  BY DEF IInv, CoreOK, Good
<1>5. /\ drafts \cup new \in Drafts /\ OneClausePerAnchor(drafts \cup new)
      /\ Ids(drafts \cup new) = Ids(drafts) \cup Ids(new)
  BY <1>1, <1>2, <1>4, UnionGood
<1>6. drafts' \in Good(owned') /\ owned \subseteq owned'
  BY <1>3, <1>4, <1>5 DEF Good
<1>7. undoStack' \in Seq(Good(owned')) /\ redoStack' \in Seq(Good(owned'))
  BY <1>3, <1>6, GoodGrows, SeqMonotonic DEF IInv, CoreOK
<1>8. CoreOK'
  BY <1>1, <1>3, <1>6, <1>7, NumbersGrow DEF IInv, CoreOK
<1>9. BooksOK'
  BY <1>1, <1>3, NumbersGrow DEF IInv, BooksOK
<1> QED BY <1>8, <1>9 DEF IInv

LEMMA ClearPrefillOK == ASSUME IInv, ClearPrefill PROVE IInv'
<1> DEFINE kept == {d \in drafts : d.c.seed = None \/ d.c.adopted # None}
<1>1. kept \in Good(owned)
  BY SubsetGood DEF IInv, CoreOK
<1>2. /\ prefilled' = None /\ Keeps /\ Confirms({}) /\ Mirrors
      /\ \/ Call /\ UNCHANGED <<drafts, undoStack, redoStack, selected, readOnly, dirty>>
         \/ Commit(kept, selected)
  BY Zenon DEF ClearPrefill
<1> HIDE DEF kept
<1>3. BooksOK'
  BY <1>2 DEF IInv, BooksOK, Keeps, Confirms, Mirrors
<1>4. CASE Call /\ UNCHANGED <<drafts, undoStack, redoStack, selected, readOnly, dirty>>
  BY <1>2, <1>3, <1>4, NumbersGrow DEF IInv, CoreOK, Call, Keeps
<1>5. CASE Commit(kept, selected)
  BY <1>1, <1>2, <1>3, <1>5, CommitOK DEF IInv, CoreOK, Keeps
<1> QED BY <1>2, <1>4, <1>5

\* Undo and redo are mirror images: one stack gives what the other receives.
Top(stack) == stack[Len(stack)]
Popped(stack) == SubSeq(stack, 1, Len(stack) - 1)
Pushed(stack, ds) == Append(stack, ds)
Swapped(S, from, to, ds) ==
  /\ Top(from) \in S
  /\ Popped(from) \in Seq(S)
  /\ Pushed(to, ds) \in Seq(S)
  /\ Len(Popped(from)) + Len(Pushed(to, ds)) = Len(from) + Len(to)

LEMMA SwapOK ==
  ASSUME NEW S, NEW from \in Seq(S), NEW to \in Seq(S), from # << >>, NEW ds \in S
  PROVE  Swapped(S, from, to, ds)
<1>1. Len(to) \in Nat /\ Pushed(to, ds) \in Seq(S) /\ Len(Pushed(to, ds)) = Len(to) + 1
  BY AppendProperties, LenProperties DEF Pushed
<1>2. /\ Popped(from) \in Seq(S) /\ Len(Popped(from)) = Len(from) - 1
      /\ Top(from) \in S /\ Len(from) \in Nat \ {0}
  BY PopOK DEF Popped, Top
<1> QED BY <1>1, <1>2 DEF Swapped

LEMMA UndoOK == ASSUME IInv, Undo PROVE IInv'
<1>1. /\ undoStack \in Seq(Good(owned)) /\ redoStack \in Seq(Good(owned))
      /\ drafts \in Good(owned) /\ undoStack # << >>
      /\ Len(undoStack) + Len(redoStack) <= UndoDepth
  BY LenProperties DEF Undo, IInv, CoreOK
<1>2. Swapped(Good(owned), undoStack, redoStack, drafts)
  BY <1>1, SwapOK
<1>3. /\ drafts' = Top(undoStack) /\ undoStack' = Popped(undoStack) /\ redoStack' = Pushed(redoStack, drafts)
      /\ selected' \in {selected, None} /\ dirty' = TRUE
      /\ UNCHANGED <<readOnly, prefilled, nextId, owned, confirmed, blunt, edits>>
  BY DEF Undo, Top, Popped, Pushed
<1>4. Len(undoStack') + Len(redoStack') <= UndoDepth /\ Len(undoStack') \in Nat /\ Len(redoStack') \in Nat
  BY <1>1, <1>2, <1>3, LenProperties DEF Swapped
<1> QED BY <1>2, <1>3, <1>4 DEF Swapped, IInv, CoreOK, BooksOK

LEMMA RedoOK == ASSUME IInv, Redo PROVE IInv'
<1>1. /\ redoStack \in Seq(Good(owned)) /\ undoStack \in Seq(Good(owned))
      /\ drafts \in Good(owned) /\ redoStack # << >>
      /\ Len(redoStack) + Len(undoStack) <= UndoDepth
  BY LenProperties DEF Redo, IInv, CoreOK
<1>2. Swapped(Good(owned), redoStack, undoStack, drafts)
  BY <1>1, SwapOK
<1>3. /\ drafts' = Top(redoStack) /\ redoStack' = Popped(redoStack) /\ undoStack' = Pushed(undoStack, drafts)
      /\ selected' \in {selected, None} /\ dirty' = TRUE
      /\ UNCHANGED <<readOnly, prefilled, nextId, owned, confirmed, blunt, edits>>
  BY DEF Redo, Top, Popped, Pushed
<1>4. Len(redoStack') + Len(undoStack') <= UndoDepth /\ Len(redoStack') \in Nat /\ Len(undoStack') \in Nat
  BY <1>1, <1>2, <1>3, LenProperties DEF Swapped
<1> QED BY <1>2, <1>3, <1>4 DEF Swapped, IInv, CoreOK, BooksOK

LEMMA CleanOK == ASSUME IInv, MarkClean PROVE IInv'
BY DEF MarkClean, IInv, CoreOK, BooksOK

\* The empty store, at the start and after reset().
LEMMA EmptyOK == /\ {} \in Good({})
                 /\ << >> \in Seq(Good({}))
                 /\ Len(<< >>) + Len(<< >>) <= UndoDepth
<1>1. {} \in Good({})
  BY DEF Good, Drafts, OneClausePerAnchor, Ids
<1> QED BY <1>1, EmptySeq, UndoDepthAssumption

LEMMA ResetOK == ASSUME IInv, Reset PROVE IInv'
<1>1. /\ drafts' \in Good(owned') /\ undoStack' \in Seq(Good(owned')) /\ redoStack' \in Seq(Good(owned'))
      /\ Len(undoStack') + Len(redoStack') <= UndoDepth
  BY EmptyOK, Zenon DEF Reset
<1> QED BY <1>1, NumbersGrow DEF Reset, Call, IInv, CoreOK, BooksOK

---------------------------------------------------------------------------
(* The specification.                                                      *)

LEMMA InitOK == Init => IInv
<1> SUFFICES ASSUME Init PROVE IInv
  OBVIOUS
<1>1. /\ drafts \in Good(owned) /\ undoStack \in Seq(Good(owned)) /\ redoStack \in Seq(Good(owned))
      /\ Len(undoStack) + Len(redoStack) <= UndoDepth
  BY EmptyOK, Zenon DEF Init
<1> QED BY <1>1 DEF Init, IInv, CoreOK, BooksOK

LEMMA StepOK == IInv /\ [Next]_vars => IInv'
<1> SUFFICES ASSUME IInv, [Next]_vars
             PROVE  IInv'
  OBVIOUS
<1>1. CASE UNCHANGED vars
  BY <1>1 DEF vars, IInv, CoreOK, BooksOK
<1>2. CASE \E load \in Loads, ro \in BOOLEAN : Open(load, ro)
  BY <1>2, OpenOK
<1>3. CASE SelectClause \/ ClearPrefill \/ Undo \/ Redo \/ MarkClean \/ Reset
  BY <1>3, SelectOK, ClearPrefillOK, UndoOK, RedoOK, CleanOK, ResetOK
<1>4. CASE \E a \in Anchors : RemoveBoundary(a)
  BY <1>4, RemoveOK
<1>5. CASE \E a \in Anchors, t \in Palette :
             Place(a, t) \/ Reselect(a, t) \/ Retheme(a, t) \/ ToggleBoundary(a, t)
  BY <1>5, PlaceOK, ReselectOK, RethemeOK, ToggleOK
<1>6. CASE \E A \in SUBSET Anchors : \E dec \in [A -> Cards], lv \in Levels : ApplyTriage(dec, lv)
  BY <1>6, TriageOK
<1>7. CASE \E lo, hi \in Anchors :
             \/ BlockClear(lo .. hi)
             \/ \E t \in Palette : \/ BlockAnnotate(lo .. hi, t)
                                   \/ \E j \in Judges : Adopt(lo, hi, j, t)
  BY <1>7, BlockClearOK, PaintOK, AdoptOK
<1>8. CASE \E id \in Handles :
             \/ \E t \in Palette : UpdateTheme(id, t)
             \/ \E x \in Details : UpdateDetail(id, x)
             \/ \E tags \in Messy : SetClauseThemes(id, tags)
             \/ \E t \in Palette, v \in BOOLEAN : \E tags \in StoredTags(t) : Reconcile(id, t, tags, v)
  BY <1>8, UpdateThemeOK, UpdateDetailOK, SetThemesOK, ReconcileOK
<1>9. CASE \E ids \in SUBSET Handles, v \in BOOLEAN : ValidateClauses(ids, v)
  BY <1>9, ValidateOK
<1>10. CASE \E segs \in PreAnnotations, j \in Judges :
              OverwritePrefill(segs, j) \/ SeedFromPreAnnotation(segs, j)
  BY <1>10, OverwriteOK, SeedOK
<1> QED BY <1>1, <1>2, <1>3, <1>4, <1>5, <1>6, <1>7, <1>8, <1>9, <1>10 DEF Next

\* The inductive invariant holds in every state of the store, whatever the size of
\* the document, the depth of the history and what the server answers.
THEOREM Invariance == Spec => []IInv
BY InitOK, StepOK, PTL DEF Spec

\* The store keeps the types of its state, the tag sets the editor submits included.
THEOREM StoreTypes == Spec => []TypeOK
<1>1. IInv => TypeOK
  <2> SUFFICES ASSUME IInv PROVE TypeOK
    OBVIOUS
  <2>1. Good(owned) \subseteq Drafts
    BY DEF Good
  <2>2. undoStack \in Seq(Drafts) /\ redoStack \in Seq(Drafts)
    BY <2>1, SeqMonotonic DEF IInv, CoreOK
  <2> QED BY <2>1, <2>2 DEF IInv, CoreOK, BooksOK, TypeOK
<1> QED BY <1>1, Invariance, PTL

\* What undo and redo can bring back is made of good states.
LEMMA SnapshotsGood == ASSUME IInv PROVE \A ds \in Snapshots : ds \in Good(owned)
<1>1. \A i \in DOMAIN undoStack : undoStack[i] \in Good(owned)
  BY LenProperties, ElementOfSeq DEF IInv, CoreOK
<1>2. \A i \in DOMAIN redoStack : redoStack[i] \in Good(owned)
  BY LenProperties, ElementOfSeq DEF IInv, CoreOK
<1> QED BY <1>1, <1>2 DEF Snapshots, IInv, CoreOK

\* INV-2: at most one clause starts on a sentence, also in every state undo or redo
\* can bring back, whatever gestures, batches, prefills and answers were mixed.
THEOREM OneClauseAtAnAnchor == Spec => []AnchorsUnique
<1>1. IInv => AnchorsUnique
  BY SnapshotsGood DEF AnchorsUnique, Good
<1> QED BY <1>1, Invariance, PTL

\* No history of one annotation reaches into the next one that is opened.
THEOREM HistoryStaysHome == Spec => []NoForeignClause
<1>1. IInv => NoForeignClause
  BY SnapshotsGood DEF NoForeignClause, Good
<1> QED BY <1>1, Invariance, PTL

\* The two stacks together hold at most UNDO_DEPTH snapshots, though redo pushes
\* on the undo stack without the cap.
THEOREM HistoryIsBounded == Spec => []HistoryBounded
<1>1. IInv => HistoryBounded
  BY DEF IInv, CoreOK, HistoryBounded
<1> QED BY <1>1, Invariance, PTL

---------------------------------------------------------------------------
(* What a clause says.  The invariant is about the drafts and about every  *)
(* snapshot, since undo and redo bring them back; the ids confirmed, and   *)
(* those painted without their tags, only accumulate.                      *)

\* A clause that is consistent, when the ids conf are confirmed and the ids bl blunt.
Honest(id, c, conf, bl) ==
  /\ c.seed # None /\ c.validated => id \in conf
  /\ c.tags # None => ValidTags(c.tags) /\ (id \in bl \/ c.theme = c.tags.primary)
HonestDrafts(conf, bl) == {ds \in Drafts : \A d \in ds : Honest(d.id, d.c, conf, bl)}

HInv ==
  /\ drafts \in HonestDrafts(confirmed, blunt)
  /\ undoStack \in Seq(HonestDrafts(confirmed, blunt))
  /\ redoStack \in Seq(HonestDrafts(confirmed, blunt))

\* The history variables grow.
Grows == confirmed \subseteq confirmed' /\ blunt \subseteq blunt'

\* A content consistent under every id.
Plain(c) == /\ c.seed = None \/ ~c.validated
            /\ c.tags # None => ValidTags(c.tags) /\ c.theme = c.tags.primary

LEMMA HonestGrows == ASSUME Grows PROVE HonestDrafts(confirmed, blunt) \subseteq HonestDrafts(confirmed', blunt')
BY DEF Grows, HonestDrafts, Honest

LEMMA HonestStacks ==
  ASSUME HInv, Grows
  PROVE  /\ drafts \in HonestDrafts(confirmed', blunt')
         /\ undoStack \in Seq(HonestDrafts(confirmed', blunt'))
         /\ redoStack \in Seq(HonestDrafts(confirmed', blunt'))
BY HonestGrows, SeqMonotonic DEF HInv

\* A mutation that leaves consistent clauses keeps the invariant.
LEMMA HonestCommit ==
  ASSUME HInv, IInv', Grows, NEW new, NEW sel, Commit(new, sel),
         \A d \in new : Honest(d.id, d.c, confirmed', blunt')
  PROVE  HInv'
<1> DEFINE S == HonestDrafts(confirmed', blunt')
<1>1. drafts \in S /\ undoStack \in Seq(S)
  BY HonestStacks
<1>2. drafts' = new /\ undoStack' = PushUndo(undoStack, drafts) /\ redoStack' = << >>
  BY DEF Commit
<1>3. drafts' \in S
  BY <1>2 DEF HonestDrafts, IInv, CoreOK, Good
<1> HIDE DEF S
<1>4. undoStack' \in Seq(S) /\ redoStack' \in Seq(S)
  BY <1>1, <1>2, PushUndoOK, EmptySeq
<1> QED BY <1>3, <1>4 DEF HInv, S

\* A step that is no mutation: the stacks stay.
LEMMA HonestStep ==
  ASSUME HInv, IInv', Grows, UNCHANGED <<undoStack, redoStack>>,
         \A d \in drafts' : Honest(d.id, d.c, confirmed', blunt')
  PROVE  HInv'
<1>1. drafts' \in HonestDrafts(confirmed', blunt')
  BY DEF HonestDrafts, IInv, CoreOK, Good
<1> QED BY <1>1, HonestStacks DEF HInv

LEMMA HonestNow == ASSUME HInv, Grows PROVE \A d \in drafts : Honest(d.id, d.c, confirmed', blunt')
BY HonestStacks DEF HonestDrafts

LEMMA HonestUpdated ==
  ASSUME HInv, IInv, Grows, NEW hit \in SUBSET drafts, NEW f,
         \A d \in hit : Honest(d.id, f[d.c], confirmed', blunt')
  PROVE  \A e \in Updated(hit, f) : Honest(e.id, e.c, confirmed', blunt')
<1> SUFFICES ASSUME NEW e \in Updated(hit, f)
             PROVE  Honest(e.id, e.c, confirmed', blunt')
  OBVIOUS
<1>1. PICK d \in drafts : e = IF d \in hit THEN [d EXCEPT !.c = f[d.c]] ELSE d
  BY DEF Updated
<1>2. d \in Draft
  BY DEF IInv, CoreOK, Good, Drafts
<1>3. CASE d \in hit
  <2>1. e.id = d.id /\ e.c = f[d.c]
    BY <1>1, <1>2, <1>3 DEF Draft
  <2> QED BY <1>3, <2>1
<1>4. CASE d \notin hit
  BY <1>1, <1>4, HonestNow
<1> QED BY <1>3, <1>4

LEMMA PlainIsHonest ==
  ASSUME NEW c, Plain(c), NEW id, NEW conf, NEW bl
  PROVE  Honest(id, c, conf, bl)
BY DEF Plain, Honest

LEMMA HonestCreated ==
  ASSUME NEW cs, \A c \in cs : Plain(c), NEW conf, NEW bl
  PROVE  \A e \in Created(cs) : Honest(e.id, e.c, conf, bl)
<1>1. \A e \in Created(cs) : e.c \in cs
  BY DEF Created, Fresh
<1> QED BY <1>1, PlainIsHonest

\* A mutation that rewrites the clauses hit and creates some with the contents cs.
LEMMA HonestBatch ==
  ASSUME HInv, IInv, IInv', Grows, NEW hit \in SUBSET drafts, NEW f, NEW cs, NEW sel,
         Commit(Updated(hit, f) \cup Created(cs), sel),
         \A d \in hit : Honest(d.id, f[d.c], confirmed', blunt'),
         \A c \in cs : Plain(c)
  PROVE  HInv'
<1>1. \A d \in Updated(hit, f) : Honest(d.id, d.c, confirmed', blunt')
  BY HonestUpdated
<1>2. \A d \in Created(cs) : Honest(d.id, d.c, confirmed', blunt')
  BY HonestCreated
<1> DEFINE new == Updated(hit, f) \cup Created(cs)
<1>3. \A d \in new : Honest(d.id, d.c, confirmed', blunt')
  BY <1>1, <1>2
<1>4. Commit(new, sel)
  OBVIOUS
<1> HIDE DEF new
<1> QED BY <1>3, <1>4, HonestCommit

LEMMA HonestRewrite ==
  ASSUME HInv, IInv, IInv', Grows, NEW hit \in SUBSET drafts, NEW f, NEW sel,
         Commit(Updated(hit, f), sel),
         \A d \in hit : Honest(d.id, f[d.c], confirmed', blunt')
  PROVE  HInv'
BY HonestUpdated, HonestCommit

\* Removing clauses leaves consistent ones.
LEMMA HonestRemoval ==
  ASSUME HInv, IInv', Grows, NEW new \in SUBSET drafts, NEW sel, Commit(new, sel)
  PROVE  HInv'
BY HonestNow, HonestCommit

LEMMA NewIsPlain == ASSUME NEW a, NEW t PROVE Plain(NewContent(a, t))
BY DEF Plain, NewContent

LEMMA SeedIsPlain == ASSUME NEW a, NEW t, NEW j PROVE Plain(SeedContent(a, t, j))
BY DEF Plain, SeedContent, NewContent

\* A new primary theme leaves a valid set that follows it.
LEMMA PrimaryFollows ==
  ASSUME NEW c \in Content, NEW t
  PROVE  LET x == WithPrimaryTheme(c, t) IN
         /\ x.seed = c.seed /\ x.validated = c.validated
         /\ x.tags # None => ValidTags(x.tags) /\ x.theme = x.tags.primary
<1> DEFINE new == IF c.tags = None THEN None
                  ELSE [primary |-> t,
                        secondaries |-> (({c.tags.primary} \cup c.tags.secondaries) \ {t}) \ Refuges]
<1>1. new # None => ValidTags(new) /\ new.primary = t
  BY DEF ValidTags
<1>2. WithPrimaryTheme(c, t) = [c EXCEPT !.theme = t, !.tags = new]
  BY DEF WithPrimaryTheme, Content
<1> HIDE DEF new
<1> QED BY <1>1, <1>2 DEF Content

LEMMA SanitizeIsValid == ASSUME NEW tags PROVE ValidTags(SanitizeThemeSet(tags))
BY DEF SanitizeThemeSet, ValidTags

---------------------------------------------------------------------------
(* What a clause says, one step.                                           *)

LEMMA OpenHonest ==
  ASSUME HInv, IInv, IInv', NEW load \in Loads, NEW ro \in BOOLEAN, Open(load, ro)
  PROVE  HInv'
<1> DEFINE new == Created(load)
<1>1. /\ drafts' = new /\ undoStack' = << >> /\ redoStack' = << >> /\ blunt' = blunt
      /\ confirmed' = confirmed \cup Ids({d \in new : d.c.validated})
  BY DEF Open
<1>2. \A d \in new : d.c \in load
  BY DEF Created, Fresh
<1>3. \A d \in new : Honest(d.id, d.c, confirmed', blunt')
  BY <1>1, <1>2, LoadsAssumption DEF Honest, Ids
<1> HIDE DEF new
<1>4. drafts' \in HonestDrafts(confirmed', blunt')
  BY <1>1, <1>3 DEF HonestDrafts, IInv, CoreOK, Good
<1> QED BY <1>1, <1>4, EmptySeq DEF HInv

LEMMA PlaceHonest ==
  ASSUME HInv, IInv, IInv', NEW a \in Anchors, NEW t \in Palette, Place(a, t)
  PROVE  HInv'
<1> DEFINE new == Fresh(NewContent(a, t))
<1>1. Commit(drafts \cup {new}, new.id) /\ Confirms({new.id}) /\ Mirrors
  BY DEF Place
<1>2. Grows
  BY <1>1 DEF Grows, Confirms, Mirrors
<1>3. Honest(new.id, new.c, confirmed', blunt')
  BY NewIsPlain, PlainIsHonest DEF Fresh
<1> HIDE DEF new
<1>4. \A d \in drafts \cup {new} : Honest(d.id, d.c, confirmed', blunt')
  BY <1>2, <1>3, HonestNow
<1> QED BY <1>1, <1>2, <1>4, HonestCommit

LEMMA RethemeHonest ==
  ASSUME HInv, IInv, IInv', NEW a \in Anchors, NEW t \in Palette, Retheme(a, t)
  PROVE  HInv'
<1> DEFINE f == [c \in Content |-> [WithPrimaryTheme(c, t) EXCEPT !.validated = TRUE, !.level = None]]
<1>1. PICK d \in At(drafts, a) : Commit(Updated({d}, f), d.id) /\ Confirms({d.id}) /\ Mirrors
  BY DEF Retheme
<1>2. Grows /\ d.id \in confirmed' /\ {d} \in SUBSET drafts /\ d.c \in Content
  BY <1>1, ContentsOfDrafts DEF Grows, Confirms, Mirrors, At
<1>3. Honest(d.id, f[d.c], confirmed', blunt')
  <2> DEFINE x == WithPrimaryTheme(d.c, t)
  <2>1. x \in Content /\ (x.tags # None => ValidTags(x.tags) /\ x.theme = x.tags.primary)
    BY <1>2, PrimaryType, PaletteType, PrimaryFollows
  <2>2. f[d.c] = [x EXCEPT !.validated = TRUE, !.level = None]
    BY <1>2
  <2> HIDE DEF f, x
  <2>3. f[d.c].tags = x.tags /\ f[d.c].theme = x.theme
    BY <2>1, <2>2 DEF Content
  <2> QED BY <1>2, <2>1, <2>3 DEF Honest
<1> HIDE DEF f
<1> QED BY <1>1, <1>2, <1>3, HonestRewrite

LEMMA RemoveHonest ==
  ASSUME HInv, IInv, IInv', NEW a \in Anchors, RemoveBoundary(a)
  PROVE  HInv'
<1>1. Commit(drafts \ At(drafts, a), selected) /\ Grows
  BY DEF RemoveBoundary, Confirms, Mirrors, Grows
<1> QED BY <1>1, HonestRemoval

LEMMA TriageHonest ==
  ASSUME HInv, IInv, IInv', NEW A \in SUBSET Anchors, NEW dec \in [A -> Cards],
         NEW lv \in Levels, ApplyTriage(dec, lv)
  PROVE  HInv'
<1> DEFINE known == {d \in drafts : d.c.anchor \in A}
           f == [c \in Content |-> DecisionContent(c, dec[c.anchor], lv)]
           bare == A \ {d.c.anchor : d \in known}
           cs == {DecisionContent(NewContent(a, dec[a].primary), dec[a], lv) : a \in bare}
           next == Updated(known, f) \cup Created(cs)
           sel == IF Cardinality(A) = 1
                  THEN FirstId({d \in next : d.c.anchor \in A}, None) ELSE selected
<1>1. /\ Commit(next, sel)
      /\ Confirms(Ids(known) \cup Ids(Created(cs))) /\ Mirrors
  BY DEF ApplyTriage
<1>2. \A a \in A : ValidTags(dec[a]) /\ dec[a] \in TagSet
  BY InputsAssumption
<1>3. \A c \in cs : Plain(c)
  <2> SUFFICES ASSUME NEW a \in bare
               PROVE  Plain(DecisionContent(NewContent(a, dec[a].primary), dec[a], lv))
    OBVIOUS
  <2> QED BY <1>2 DEF Plain, DecisionContent, NewContent
<1>4. \A d \in known : Honest(d.id, f[d.c], confirmed', blunt')
  <2> SUFFICES ASSUME NEW d \in known
               PROVE  Honest(d.id, f[d.c], confirmed', blunt')
    OBVIOUS
  <2>1. d.c \in Content /\ f[d.c] = DecisionContent(d.c, dec[d.c.anchor], lv) /\ d.c.anchor \in A
    BY ContentsOfDrafts
  <2>2. d.id \in confirmed'
    BY <1>1 DEF Confirms, Ids
  <2>3. f[d.c].tags = dec[d.c.anchor] /\ f[d.c].theme = f[d.c].tags.primary
    BY <2>1 DEF DecisionContent, Content
  <2> QED BY <1>2, <2>1, <2>2, <2>3 DEF Honest
<1>5. Grows /\ known \in SUBSET drafts
  BY <1>1 DEF Grows, Confirms, Mirrors
<1> HIDE DEF known, f, cs, sel
<1> QED BY <1>1, <1>3, <1>4, <1>5, HonestBatch

LEMMA PaintHonest ==
  ASSUME HInv, IInv, IInv', NEW lo \in Anchors, NEW hi \in Anchors, NEW t \in Palette,
         BlockAnnotate(lo .. hi, t)
  PROVE  HInv'
<1> DEFINE range == lo .. hi
           known == {d \in drafts : d.c.anchor \in range}
           hit == {d \in known : d.c.theme # t \/ ~d.c.validated}
           f == [c \in Content |-> [c EXCEPT !.theme = t, !.validated = TRUE]]
           bare == range \ {d.c.anchor : d \in known}
           cs == {NewContent(a, t) : a \in bare}
           next == Updated(hit, f) \cup Created(cs)
           sel == FirstId({d \in next : d.c.anchor \in range}, None)
<1>1. /\ Commit(next, sel)
      /\ Confirms(Ids(hit) \cup Ids(Created(cs)))
      /\ blunt' = blunt \cup Ids({d \in hit : d.c.theme # t})
  BY DEF BlockAnnotate
<1>2. \A c \in cs : Plain(c)
  BY NewIsPlain
<1>3. Grows /\ hit \in SUBSET drafts
  BY <1>1 DEF Grows, Confirms
<1>4. \A d \in hit : Honest(d.id, f[d.c], confirmed', blunt')
  <2> SUFFICES ASSUME NEW d \in hit
               PROVE  Honest(d.id, f[d.c], confirmed', blunt')
    OBVIOUS
  <2>1. d.c \in Content /\ Honest(d.id, d.c, confirmed', blunt')
    BY <1>3, ContentsOfDrafts, HonestNow
  <2>2. d.id \in confirmed' /\ (d.c.theme # t => d.id \in blunt')
    BY <1>1 DEF Confirms, Ids
  <2>3. f[d.c].tags = d.c.tags /\ f[d.c].theme = t
    BY <2>1 DEF Content
  <2> QED BY <2>1, <2>2, <2>3 DEF Honest
<1> HIDE DEF hit, f, cs, sel
<1> QED BY <1>1, <1>2, <1>3, <1>4, HonestBatch

LEMMA AdoptHonest ==
  ASSUME HInv, IInv, IInv', NEW lo \in Anchors, NEW hi \in Anchors, NEW j \in Judges,
         NEW t \in Palette, Adopt(lo, hi, j, t)
  PROVE  HInv'
<1> DEFINE range == lo .. hi
           known == {d \in drafts : d.c.anchor \in range}
           hit == {d \in known : d.c.theme # t \/ d.c.adopted # j \/ ~d.c.validated}
           f == [c \in Content |-> [c EXCEPT !.theme = t, !.adopted = j, !.validated = TRUE]]
           bare == range \ {d.c.anchor : d \in known}
           cs == {[NewContent(a, t) EXCEPT !.adopted = j] : a \in bare}
           next == Updated(hit, f) \cup Created(cs)
           sel == IF lo = hi THEN FirstId(At(next, lo), None)
                  ELSE FirstId(At(drafts, lo), selected)
<1>1. /\ Commit(next, sel)
      /\ Confirms(Ids(hit) \cup Ids(Created(cs)))
      /\ blunt' = blunt \cup Ids({d \in hit : d.c.theme # t})
  BY DEF Adopt
<1>2. \A c \in cs : Plain(c)
  BY DEF Plain, NewContent
<1>3. Grows /\ hit \in SUBSET drafts
  BY <1>1 DEF Grows, Confirms
<1>4. \A d \in hit : Honest(d.id, f[d.c], confirmed', blunt')
  <2> SUFFICES ASSUME NEW d \in hit
               PROVE  Honest(d.id, f[d.c], confirmed', blunt')
    OBVIOUS
  <2>1. d.c \in Content /\ Honest(d.id, d.c, confirmed', blunt')
    BY <1>3, ContentsOfDrafts, HonestNow
  <2>2. d.id \in confirmed' /\ (d.c.theme # t => d.id \in blunt')
    BY <1>1 DEF Confirms, Ids
  <2>3. f[d.c].tags = d.c.tags /\ f[d.c].theme = t
    BY <2>1 DEF Content
  <2> QED BY <2>1, <2>2, <2>3 DEF Honest
<1> HIDE DEF hit, f, cs, sel
<1> QED BY <1>1, <1>2, <1>3, <1>4, HonestBatch

LEMMA BlockClearHonest ==
  ASSUME HInv, IInv, IInv', NEW range, BlockClear(range)
  PROVE  HInv'
<1> DEFINE next == drafts \ {d \in drafts : d.c.anchor \in range}
<1>1. Commit(next, IF selected \in Ids(next) THEN selected ELSE None) /\ Grows
  BY DEF BlockClear, Confirms, Mirrors, Grows
<1>2. next \in SUBSET drafts
  OBVIOUS
<1> HIDE DEF next
<1> QED BY <1>1, <1>2, HonestRemoval

LEMMA UpdateThemeHonest ==
  ASSUME HInv, IInv, IInv', NEW id \in Handles, NEW t \in Palette, UpdateTheme(id, t)
  PROVE  HInv'
<1> DEFINE f == [c \in Content |-> [WithPrimaryTheme(c, t) EXCEPT !.level = None]]
<1>1. Commit(Updated(WithId(id), f), selected) /\ Confirms({}) /\ Mirrors
  BY DEF UpdateTheme
<1>2. Grows /\ WithId(id) \in SUBSET drafts
  BY <1>1 DEF Grows, Confirms, Mirrors, WithId
<1>3. \A d \in WithId(id) : Honest(d.id, f[d.c], confirmed', blunt')
  <2> SUFFICES ASSUME NEW d \in WithId(id)
               PROVE  Honest(d.id, f[d.c], confirmed', blunt')
    OBVIOUS
  <2> DEFINE x == WithPrimaryTheme(d.c, t)
  <2>1. d.c \in Content /\ Honest(d.id, d.c, confirmed', blunt')
    BY <1>2, ContentsOfDrafts, HonestNow
  <2>2. /\ x \in Content /\ x.seed = d.c.seed /\ x.validated = d.c.validated
        /\ x.tags # None => ValidTags(x.tags) /\ x.theme = x.tags.primary
    BY <2>1, PrimaryType, PaletteType, PrimaryFollows
  <2>3. f[d.c] = [x EXCEPT !.level = None]
    BY <2>1
  <2> HIDE DEF f, x
  <2>4. /\ f[d.c].tags = x.tags /\ f[d.c].theme = x.theme
        /\ f[d.c].seed = d.c.seed /\ f[d.c].validated = d.c.validated
    BY <2>2, <2>3 DEF Content
  <2> QED BY <2>1, <2>2, <2>4 DEF Honest
<1> HIDE DEF f
<1> QED BY <1>1, <1>2, <1>3, HonestRewrite

LEMMA UpdateDetailHonest ==
  ASSUME HInv, IInv, IInv', NEW id \in Handles, NEW x \in Details, UpdateDetail(id, x)
  PROVE  HInv'
<1> DEFINE f == [c \in Content |-> [c EXCEPT !.detail = x]]
<1>1. Commit(Updated(WithId(id), f), selected) /\ Confirms({}) /\ Mirrors
  BY DEF UpdateDetail
<1>2. Grows /\ WithId(id) \in SUBSET drafts
  BY <1>1 DEF Grows, Confirms, Mirrors, WithId
<1>3. \A d \in WithId(id) : Honest(d.id, f[d.c], confirmed', blunt')
  BY <1>2, ContentsOfDrafts, HonestNow DEF Honest, Content
<1> HIDE DEF f
<1> QED BY <1>1, <1>2, <1>3, HonestRewrite

LEMMA SetThemesHonest ==
  ASSUME HInv, IInv, IInv', NEW id \in Handles, NEW tags \in Messy, SetClauseThemes(id, tags)
  PROVE  HInv'
<1> DEFINE set == SanitizeThemeSet(tags)
           f == [c \in Content |-> [c EXCEPT !.tags = set, !.theme = set.primary,
                                              !.validated = TRUE, !.level = None]]
<1>1. Commit(Updated(WithId(id), f), id) /\ Confirms({id}) /\ Mirrors
  BY DEF SetClauseThemes
<1>2. ValidTags(set)
  BY SanitizeIsValid
<1> HIDE DEF set
<1>3. Grows /\ WithId(id) \in SUBSET drafts /\ id \in confirmed'
  BY <1>1 DEF Grows, Confirms, Mirrors, WithId
<1>4. \A d \in WithId(id) : Honest(d.id, f[d.c], confirmed', blunt')
  <2> SUFFICES ASSUME NEW d \in WithId(id)
               PROVE  Honest(d.id, f[d.c], confirmed', blunt')
    OBVIOUS
  <2>1. d.c \in Content /\ d.id = id
    BY ContentsOfDrafts DEF WithId
  <2>2. f[d.c].tags = set /\ f[d.c].theme = set.primary
    BY <2>1 DEF Content
  <2> QED BY <1>2, <1>3, <2>1, <2>2 DEF Honest
<1> HIDE DEF f
<1> QED BY <1>1, <1>3, <1>4, HonestRewrite

LEMMA ValidateHonest ==
  ASSUME HInv, IInv, IInv', NEW ids \in SUBSET Handles, NEW v \in BOOLEAN, ValidateClauses(ids, v)
  PROVE  HInv'
<1> DEFINE hit == {d \in drafts : d.id \in ids /\ d.c.validated # v}
           f == [c \in Content |-> [c EXCEPT !.validated = v]]
<1>1. Commit(Updated(hit, f), selected) /\ Confirms(Ids(hit)) /\ Mirrors
  BY DEF ValidateClauses
<1>2. Grows /\ hit \in SUBSET drafts /\ \A d \in hit : d.id \in confirmed'
  BY <1>1 DEF Grows, Confirms, Mirrors, Ids
<1>3. \A d \in hit : Honest(d.id, f[d.c], confirmed', blunt')
  <2> SUFFICES ASSUME NEW d \in hit
               PROVE  Honest(d.id, f[d.c], confirmed', blunt')
    OBVIOUS
  <2>1. d.c \in Content /\ Honest(d.id, d.c, confirmed', blunt')
    BY <1>2, ContentsOfDrafts, HonestNow
  <2>2. f[d.c].tags = d.c.tags /\ f[d.c].theme = d.c.theme
    BY <2>1 DEF Content
  <2> QED BY <1>2, <2>1, <2>2 DEF Honest
<1> HIDE DEF f, hit
<1> QED BY <1>1, <1>2, <1>3, HonestRewrite

LEMMA ReconcileHonest ==
  ASSUME HInv, IInv, IInv', NEW id \in Handles, NEW t \in Palette, NEW v \in BOOLEAN,
         NEW tags \in StoredTags(t), Reconcile(id, t, tags, v)
  PROVE  HInv'
<1> DEFINE f == [c \in Content |-> [c EXCEPT !.theme = t, !.tags = tags, !.validated = v]]
<1>1. /\ drafts' = Updated(WithId(id), f)
      /\ confirmed' = IF v THEN confirmed \cup {id} ELSE confirmed
      /\ UNCHANGED <<undoStack, redoStack, blunt>>
  BY DEF Reconcile
<1>2. Grows /\ WithId(id) \in SUBSET drafts
  BY <1>1 DEF Grows, WithId
<1>3. tags # None => ValidTags(tags) /\ t = tags.primary
  BY InputsAssumption DEF StoredTags
<1>4. \A d \in WithId(id) : Honest(d.id, f[d.c], confirmed', blunt')
  <2> SUFFICES ASSUME NEW d \in WithId(id)
               PROVE  Honest(d.id, f[d.c], confirmed', blunt')
    OBVIOUS
  <2>1. d.c \in Content /\ d.id = id
    BY ContentsOfDrafts DEF WithId
  <2>2. f[d.c].tags = tags /\ f[d.c].theme = t /\ f[d.c].validated = v
    BY <2>1 DEF Content
  <2> QED BY <1>1, <1>3, <2>1, <2>2 DEF Honest
<1> HIDE DEF f
<1>5. \A d \in drafts' : Honest(d.id, d.c, confirmed', blunt')
  BY <1>1, <1>2, <1>4, HonestUpdated
<1> QED BY <1>1, <1>2, <1>5, HonestStep

LEMMA OverwriteHonest ==
  ASSUME HInv, IInv, IInv', NEW segs \in PreAnnotations, NEW j \in Judges, OverwritePrefill(segs, j)
  PROVE  HInv'
<1> DEFINE new == Created(Unfolded(segs, j))
<1>1. Commit(new, FirstId(new, None)) /\ Grows
  BY DEF OverwritePrefill, Confirms, Mirrors, Grows
<1>2. \A c \in Unfolded(segs, j) : Plain(c)
  BY SeedIsPlain DEF Unfolded
<1>3. \A d \in new : Honest(d.id, d.c, confirmed', blunt')
  BY <1>2, HonestCreated
<1> HIDE DEF new
<1> QED BY <1>1, <1>3, HonestCommit

LEMMA SeedHonest ==
  ASSUME HInv, IInv, IInv', NEW segs \in PreAnnotations, NEW j \in Judges, SeedFromPreAnnotation(segs, j)
  PROVE  HInv'
<1> DEFINE new == Created(SeedContents(segs, j))
<1>1. drafts' = drafts \cup new /\ UNCHANGED <<undoStack, redoStack>> /\ Grows
  BY DEF SeedFromPreAnnotation, SeedContents, Confirms, Mirrors, Grows
<1>2. \A c \in SeedContents(segs, j) : Plain(c)
  BY SeedIsPlain DEF SeedContents
<1>3. \A d \in new : Honest(d.id, d.c, confirmed', blunt')
  BY <1>2, HonestCreated
<1> HIDE DEF new
<1> QED BY <1>1, <1>3, HonestNow, HonestStep

LEMMA ClearPrefillHonest == ASSUME HInv, IInv, IInv', ClearPrefill PROVE HInv'
<1> DEFINE kept == {d \in drafts : d.c.seed = None \/ d.c.adopted # None}
<1>1. /\ Confirms({}) /\ Mirrors
      /\ \/ UNCHANGED <<drafts, undoStack, redoStack>>
         \/ Commit(kept, selected)
  BY Zenon DEF ClearPrefill
<1>2. Grows /\ kept \in SUBSET drafts
  BY <1>1 DEF Grows, Confirms, Mirrors
<1> HIDE DEF kept
<1>3. CASE UNCHANGED <<drafts, undoStack, redoStack>>
  BY <1>2, <1>3, HonestNow, HonestStep
<1>4. CASE Commit(kept, selected)
  BY <1>2, <1>4, HonestRemoval
<1> QED BY <1>1, <1>3, <1>4

LEMMA UndoHonest == ASSUME HInv, Undo PROVE HInv'
<1> DEFINE S == HonestDrafts(confirmed, blunt)
<1>1. undoStack \in Seq(S) /\ redoStack \in Seq(S) /\ drafts \in S /\ undoStack # << >>
  BY DEF Undo, HInv
<1>2. /\ drafts' = Top(undoStack) /\ undoStack' = Popped(undoStack) /\ redoStack' = Pushed(redoStack, drafts)
      /\ UNCHANGED <<confirmed, blunt>>
  BY DEF Undo, Top, Popped, Pushed
<1> HIDE DEF S
<1>3. Swapped(S, undoStack, redoStack, drafts)
  BY <1>1, SwapOK
<1> QED BY <1>2, <1>3 DEF Swapped, HInv, S

LEMMA RedoHonest == ASSUME HInv, Redo PROVE HInv'
<1> DEFINE S == HonestDrafts(confirmed, blunt)
<1>1. undoStack \in Seq(S) /\ redoStack \in Seq(S) /\ drafts \in S /\ redoStack # << >>
  BY DEF Redo, HInv
<1>2. /\ drafts' = Top(redoStack) /\ redoStack' = Popped(redoStack) /\ undoStack' = Pushed(undoStack, drafts)
      /\ UNCHANGED <<confirmed, blunt>>
  BY DEF Redo, Top, Popped, Pushed
<1> HIDE DEF S
<1>3. Swapped(S, redoStack, undoStack, drafts)
  BY <1>1, SwapOK
<1> QED BY <1>2, <1>3 DEF Swapped, HInv, S

\* The empty store says nothing.
LEMMA EmptyHonest ==
  ASSUME NEW conf, NEW bl
  PROVE  {} \in HonestDrafts(conf, bl) /\ << >> \in Seq(HonestDrafts(conf, bl))
<1>1. {} \in HonestDrafts(conf, bl)
  BY DEF HonestDrafts, Drafts
<1> QED BY <1>1, EmptySeq

LEMMA HonestInit == Init => HInv
BY EmptyHonest DEF Init, HInv

LEMMA HonestNext == HInv /\ IInv /\ IInv' /\ [Next]_vars => HInv'
<1> SUFFICES ASSUME HInv, IInv, IInv', [Next]_vars
             PROVE  HInv'
  OBVIOUS
<1>1. CASE UNCHANGED <<drafts, undoStack, redoStack, confirmed, blunt>>
  BY <1>1 DEF HInv
<1>2. CASE \E load \in Loads, ro \in BOOLEAN : Open(load, ro)
  BY <1>2, OpenHonest
<1>3. CASE ClearPrefill \/ Undo \/ Redo \/ Reset
  <2>1. CASE Reset
    BY <2>1, EmptyHonest, Zenon DEF Reset, HInv
  <2> QED BY <1>3, <2>1, ClearPrefillHonest, UndoHonest, RedoHonest
<1>4. CASE \E a \in Anchors : RemoveBoundary(a)
  BY <1>4, RemoveHonest
<1>5. CASE \E a \in Anchors, t \in Palette : Place(a, t) \/ Retheme(a, t) \/ ToggleBoundary(a, t)
  BY <1>5, PlaceHonest, RethemeHonest, RemoveHonest DEF ToggleBoundary
<1>6. CASE \E A \in SUBSET Anchors : \E dec \in [A -> Cards], lv \in Levels : ApplyTriage(dec, lv)
  BY <1>6, TriageHonest
<1>7. CASE \E lo, hi \in Anchors :
             \/ BlockClear(lo .. hi)
             \/ \E t \in Palette : \/ BlockAnnotate(lo .. hi, t)
                                   \/ \E j \in Judges : Adopt(lo, hi, j, t)
  BY <1>7, BlockClearHonest, PaintHonest, AdoptHonest
<1>8. CASE \E id \in Handles :
             \/ \E t \in Palette : UpdateTheme(id, t)
             \/ \E x \in Details : UpdateDetail(id, x)
             \/ \E tags \in Messy : SetClauseThemes(id, tags)
             \/ \E t \in Palette, v \in BOOLEAN : \E tags \in StoredTags(t) : Reconcile(id, t, tags, v)
  BY <1>8, UpdateThemeHonest, UpdateDetailHonest, SetThemesHonest, ReconcileHonest
<1>9. CASE \E ids \in SUBSET Handles, v \in BOOLEAN : ValidateClauses(ids, v)
  BY <1>9, ValidateHonest
<1>10. CASE \E segs \in PreAnnotations, j \in Judges :
              OverwritePrefill(segs, j) \/ SeedFromPreAnnotation(segs, j)
  BY <1>10, OverwriteHonest, SeedHonest
<1>11. UNCHANGED vars \/ SelectClause \/ MarkClean \/ (\E a \in Anchors, t \in Palette : Reselect(a, t))
         => UNCHANGED <<drafts, undoStack, redoStack, confirmed, blunt>>
  BY DEF vars, SelectClause, MarkClean, Reselect
<1> QED BY <1>1, <1>2, <1>3, <1>4, <1>5, <1>6, <1>7, <1>8, <1>9, <1>10, <1>11 DEF Next

\* Marks, theme and set of themes stay consistent, in the drafts and in all that undo and
\* redo can bring back: nothing a judge wrote is marked as validated before someone
\* confirmed it, the theme leads the set unless a gesture painted it alone, and every set
\* is one the server accepts.
THEOREM SoundClauses == Spec => []ClausesAreSound
<1>1. HInv => ClausesAreSound
  <2> SUFFICES ASSUME HInv PROVE ClausesAreSound
    OBVIOUS
  <2>1. \A ds \in Snapshots : ds \in HonestDrafts(confirmed, blunt)
    <3>1. \A i \in DOMAIN undoStack : undoStack[i] \in HonestDrafts(confirmed, blunt)
      BY LenProperties, ElementOfSeq DEF HInv
    <3>2. \A i \in DOMAIN redoStack : redoStack[i] \in HonestDrafts(confirmed, blunt)
      BY LenProperties, ElementOfSeq DEF HInv
    <3> QED BY <3>1, <3>2 DEF Snapshots, HInv
  <2>2. \A ds \in Snapshots : \A d \in ds : Honest(d.id, d.c, confirmed, blunt)
    BY <2>1 DEF HonestDrafts
  <2>3. drafts \in Snapshots
    BY DEF Snapshots
  <2> QED BY <2>2, <2>3
          DEF Honest, ClausesAreSound, SeedsAwaitConfirmation, MirrorOutsideBlunt, TagSetsAreValid
<1>2. Init /\ IInv => HInv
  BY HonestInit
<1> QED BY <1>1, <1>2, HonestNext, Invariance, PTL DEF Spec

---------------------------------------------------------------------------
(* What a step does to the history.                                        *)

\* A read-only annotation was opened so, with nothing to undo; the ids of the open
\* annotation were all given before.
KInv == /\ readOnly => undoStack = << >> /\ redoStack = << >>
        /\ \A i \in owned : i < nextId

\* A step that changes neither the clauses on screen nor the history.
Still == Ids(drafts') = Ids(drafts) /\ UNCHANGED <<undoStack, redoStack, readOnly>>

\* A step that seeds, without a snapshot.
Seeding == \E segs \in PreAnnotations, j \in Judges : SeedFromPreAnnotation(segs, j)

LEMMA UpdatedIds == ASSUME IInv, NEW hit, NEW f PROVE Ids(Updated(hit, f)) = Ids(drafts)
<1> DEFINE New(d) == IF d \in hit THEN [d EXCEPT !.c = f[d.c]] ELSE d
<1>1. \A d \in drafts : New(d).id = d.id
  BY DEF IInv, CoreOK, Good, Drafts, Draft
<1>2. Updated(hit, f) = {New(d) : d \in drafts}
  BY DEF Updated
<1> HIDE DEF New
<1> QED BY <1>1, <1>2 DEF Ids

\* Every step is a mutation, which goes through Commit, or an undo, a redo, another
\* annotation, a seeding, or nothing of these.
LEMMA StepKinds ==
  ASSUME IInv, [Next]_vars
  PROVE  \/ \E new, sel : Commit(new, sel)
         \/ Undo \/ Redo \/ Reset
         \/ \E load \in Loads, ro \in BOOLEAN : Open(load, ro)
         \/ Seeding
         \/ Still
<1>1. CASE \E id \in Handles, t \in Palette, v \in BOOLEAN : \E tags \in StoredTags(t) : Reconcile(id, t, tags, v)
  BY <1>1, UpdatedIds DEF Reconcile, Still
<1>2. CASE UNCHANGED vars \/ SelectClause \/ MarkClean \/ (\E a \in Anchors, t \in Palette : Reselect(a, t))
  BY <1>2 DEF vars, SelectClause, MarkClean, Reselect, Still
<1>3. CASE ClearPrefill
  BY <1>3, Zenon DEF ClearPrefill, Still
<1>4. CASE \E a \in Anchors : RemoveBoundary(a)
  BY <1>4 DEF RemoveBoundary
<1>5. CASE \E a \in Anchors, t \in Palette : Place(a, t) \/ Retheme(a, t) \/ ToggleBoundary(a, t)
  BY <1>5 DEF ToggleBoundary, Place, Retheme, RemoveBoundary
<1>6. CASE \E A \in SUBSET Anchors : \E dec \in [A -> Cards], lv \in Levels : ApplyTriage(dec, lv)
  BY <1>6 DEF ApplyTriage
<1>7. CASE \E lo, hi \in Anchors :
             \/ BlockClear(lo .. hi)
             \/ \E t \in Palette : \/ BlockAnnotate(lo .. hi, t)
                                   \/ \E j \in Judges : Adopt(lo, hi, j, t)
  <2>1. ASSUME NEW range, BlockClear(range) PROVE \E new, sel : Commit(new, sel)
    BY <2>1 DEF BlockClear
  <2>2. ASSUME NEW range, NEW t, BlockAnnotate(range, t) PROVE \E new, sel : Commit(new, sel)
    BY <2>2 DEF BlockAnnotate
  <2>3. ASSUME NEW lo, NEW hi, NEW j, NEW t, Adopt(lo, hi, j, t) PROVE \E new, sel : Commit(new, sel)
    BY <2>3 DEF Adopt
  <2> QED BY <1>7, <2>1, <2>2, <2>3
<1>8. CASE \E id \in Handles :
             \/ \E t \in Palette : UpdateTheme(id, t)
             \/ \E x \in Details : UpdateDetail(id, x)
             \/ \E tags \in Messy : SetClauseThemes(id, tags)
  BY <1>8 DEF UpdateTheme, UpdateDetail, SetClauseThemes
<1>9. CASE \E ids \in SUBSET Handles, v \in BOOLEAN : ValidateClauses(ids, v)
  BY <1>9 DEF ValidateClauses
<1>10. CASE \E segs \in PreAnnotations, j \in Judges :
              OverwritePrefill(segs, j) \/ SeedFromPreAnnotation(segs, j)
  BY <1>10 DEF OverwritePrefill, Seeding
<1> QED BY <1>1, <1>2, <1>3, <1>4, <1>5, <1>6, <1>7, <1>8, <1>9, <1>10 DEF Next

\* The ids a step gives are new ones.
Gives == \E new \in SUBSET drafts' : /\ \A d \in new : d.id = nextId + d.c.anchor
                                     /\ owned' \subseteq owned \cup Ids(new)
                                     /\ nextId' = nextId + NSentences

LEMMA CreatedIds == ASSUME NEW cs PROVE \A d \in Created(cs) : d.id = nextId + d.c.anchor
BY DEF Created, Fresh

LEMMA CreatesGives ==
  ASSUME NEW cs, NEW old, NEW sel, Commit(old \cup Created(cs), sel), Creates(Created(cs))
  PROVE  Gives
<1> DEFINE new == Created(cs)
<1>1. drafts' = old \cup new /\ owned' = owned \cup Ids(new) /\ nextId' = nextId + NSentences
  BY DEF Commit, Creates
<1>2. \A d \in new : d.id = nextId + d.c.anchor
  BY CreatedIds
<1> HIDE DEF new
<1> QED BY <1>1, <1>2 DEF Gives

LEMMA IdKinds ==
  ASSUME [Next]_vars
  PROVE  (owned' \subseteq owned /\ nextId' = nextId) \/ Gives
<1>1. CASE \E load \in Loads, ro \in BOOLEAN : Open(load, ro)
  <2>1. PICK load \in Loads, ro \in BOOLEAN : Open(load, ro)
    BY <1>1
  <2> DEFINE new == Created(load)
  <2>2. drafts' = new /\ owned' = Ids(new) /\ nextId' = nextId + NSentences
    BY <2>1 DEF Open
  <2>3. \A d \in new : d.id = nextId + d.c.anchor
    BY CreatedIds
  <2> HIDE DEF new
  <2> QED BY <2>2, <2>3 DEF Gives
<1>2. ASSUME NEW a \in Anchors, NEW t \in Palette, Place(a, t)
      PROVE  Gives
  <2> DEFINE new == Fresh(NewContent(a, t))
  <2>1. drafts' = drafts \cup {new} /\ owned' = owned \cup Ids({new}) /\ nextId' = nextId + NSentences
    BY <1>2 DEF Place, Commit, Creates
  <2>2. new.id = nextId + new.c.anchor
    BY DEF Fresh
  <2> HIDE DEF new
  <2> QED BY <2>1, <2>2 DEF Gives
<1>3. ASSUME NEW A \in SUBSET Anchors, NEW dec \in [A -> Cards], NEW lv \in Levels, ApplyTriage(dec, lv)
      PROVE  Gives
  BY <1>3, CreatesGives DEF ApplyTriage
<1>4. ASSUME NEW range, NEW t \in Palette, BlockAnnotate(range, t)
      PROVE  Gives
  BY <1>4, CreatesGives DEF BlockAnnotate
<1>5. ASSUME NEW lo \in Anchors, NEW hi \in Anchors, NEW j \in Judges, NEW t \in Palette, Adopt(lo, hi, j, t)
      PROVE  Gives
  BY <1>5, CreatesGives DEF Adopt
<1>6. ASSUME NEW segs \in PreAnnotations, NEW j \in Judges, OverwritePrefill(segs, j)
      PROVE  Gives
  <2> DEFINE new == Created(Unfolded(segs, j))
  <2>1. drafts' = new /\ owned' = owned \cup Ids(new) /\ nextId' = nextId + NSentences
    BY <1>6 DEF OverwritePrefill, Commit, Creates
  <2>2. \A d \in new : d.id = nextId + d.c.anchor
    BY CreatedIds
  <2> HIDE DEF new
  <2> QED BY <2>1, <2>2 DEF Gives
<1>14. ASSUME NEW segs \in PreAnnotations, NEW j \in Judges, SeedFromPreAnnotation(segs, j)
       PROVE  Gives
  <2> DEFINE new == Created(SeedContents(segs, j))
  <2>1. drafts' = drafts \cup new /\ owned' = owned \cup Ids(new) /\ nextId' = nextId + NSentences
    BY <1>14 DEF SeedFromPreAnnotation, SeedContents, Creates
  <2>2. \A d \in new : d.id = nextId + d.c.anchor
    BY CreatedIds
  <2> HIDE DEF new
  <2> QED BY <2>1, <2>2 DEF Gives
<1>7. CASE Reset
  BY <1>7 DEF Reset
<1>8. CASE UNCHANGED vars \/ SelectClause \/ MarkClean \/ Undo \/ Redo \/ ClearPrefill
  BY <1>8 DEF vars, SelectClause, MarkClean, Undo, Redo, ClearPrefill, Keeps
<1>9. CASE \E a \in Anchors : RemoveBoundary(a)
  BY <1>9 DEF RemoveBoundary, Keeps
<1>10. CASE \E a \in Anchors, t \in Palette : Place(a, t) \/ Reselect(a, t) \/ Retheme(a, t) \/ ToggleBoundary(a, t)
  BY <1>2, <1>10 DEF Reselect, Retheme, ToggleBoundary, RemoveBoundary, Keeps
<1>11. CASE \E lo, hi \in Anchors : BlockClear(lo .. hi)
  BY <1>11 DEF BlockClear, Keeps
<1>12. CASE \E id \in Handles :
              \/ \E t \in Palette : UpdateTheme(id, t)
              \/ \E x \in Details : UpdateDetail(id, x)
              \/ \E tags \in Messy : SetClauseThemes(id, tags)
              \/ \E t \in Palette, v \in BOOLEAN : \E tags \in StoredTags(t) : Reconcile(id, t, tags, v)
  BY <1>12 DEF UpdateTheme, UpdateDetail, SetClauseThemes, Reconcile, Keeps
<1>13. CASE \E ids \in SUBSET Handles, v \in BOOLEAN : ValidateClauses(ids, v)
  BY <1>13 DEF ValidateClauses, Keeps
<1> QED BY <1>1, <1>3, <1>4, <1>5, <1>6, <1>7, <1>8, <1>9, <1>10, <1>11, <1>12, <1>13, <1>14 DEF Next

LEMMA GivenBelow ==
  ASSUME IInv, IInv', [Next]_vars, \A i \in owned : i < nextId
  PROVE  \A i \in owned' : i < nextId'
<1>1. CASE owned' \subseteq owned /\ nextId' = nextId
  BY <1>1
<1>2. CASE Gives
  <2>1. PICK new \in SUBSET drafts' :
          /\ \A d \in new : d.id = nextId + d.c.anchor
          /\ owned' \subseteq owned \cup Ids(new)
          /\ nextId' = nextId + NSentences
    BY <1>2 DEF Gives
  <2>2. nextId \in Nat /\ owned \subseteq Nat /\ drafts' \in Drafts
    BY DEF IInv, CoreOK, BooksOK, Good
  <2>3. \A d \in new : d.c.anchor \in 0 .. NSentences - 1
    BY <2>2 DEF Drafts, Draft, Content, Anchors
  <2>4. \A i \in Ids(new) : i < nextId + NSentences
    BY <2>1, <2>2, <2>3, SentencesAssumption DEF Ids
  <2>5. \A i \in owned : i < nextId + NSentences
    BY <2>2, SentencesAssumption
  <2> QED BY <2>1, <2>4, <2>5
<1> QED BY <1>1, <1>2, IdKinds

LEMMA KeptHistory == KInv /\ IInv /\ IInv' /\ [Next]_vars => KInv'
<1> SUFFICES ASSUME KInv, IInv, IInv', [Next]_vars
             PROVE  KInv'
  OBVIOUS
<1>1. readOnly' => undoStack' = << >> /\ redoStack' = << >>
  <2>1. CASE Seeding
    BY <2>1 DEF Seeding, SeedFromPreAnnotation, KInv
  <2>2. CASE ~Seeding
    BY <2>2, StepKinds, Zenon DEF KInv, Commit, Undo, Redo, Reset, Open, Still
  <2> QED BY <2>1, <2>2
<1> QED BY <1>1, GivenBelow DEF KInv

LEMMA PushUndoTop ==
  ASSUME NEW S, NEW stack \in Seq(S), NEW ds \in S
  PROVE  ds \in Tops(PushUndo(stack, ds))
<1> DEFINE next == Append(stack, ds)
           n == Len(next)
<1>1. next \in Seq(S) /\ n = Len(stack) + 1 /\ Len(stack) \in Nat /\ next[n] = ds /\ next # << >>
  BY AppendProperties, LenProperties
<1>2. PushUndo(stack, ds) = IF n > UndoDepth THEN Tail(next) ELSE next
  BY DEF PushUndo
<1> HIDE DEF next, n
<1>3. CASE n > UndoDepth
  <2>1. n - 1 \in Nat \ {0}
    BY <1>1, <1>3, UndoDepthAssumption
  <2>2. Len(Tail(next)) = n - 1 /\ \A k \in 1 .. n - 1 : Tail(next)[k] = next[k + 1]
    BY <1>1, HeadTailProperties DEF n
  <2>3. Tail(next) # << >> /\ Tail(next)[n - 1] = ds
    BY <1>1, <2>1, <2>2, EmptySeq
  <2> QED BY <1>2, <1>3, <2>2, <2>3 DEF Tops
<1>4. CASE ~(n > UndoDepth)
  BY <1>1, <1>2, <1>4 DEF Tops, n
<1> QED BY <1>3, <1>4

LEMMA AppendTop ==
  ASSUME NEW S, NEW stack \in Seq(S), NEW ds \in S
  PROVE  ds \in Tops(Append(stack, ds))
<1>1. /\ Append(stack, ds) # << >> /\ Len(Append(stack, ds)) = Len(stack) + 1
      /\ Append(stack, ds)[Len(stack) + 1] = ds
  BY AppendProperties, LenProperties
<1> QED BY <1>1 DEF Tops

\* What a seeding adds waits for its confirmation.
LEMMA SeedingAdds == ASSUME Seeding PROVE OnlySeeds
<1>1. PICK segs \in PreAnnotations, j \in Judges : SeedFromPreAnnotation(segs, j)
  BY DEF Seeding
<1> DEFINE new == Created(SeedContents(segs, j))
<1>2. drafts' = drafts \cup new
  BY <1>1 DEF SeedFromPreAnnotation, SeedContents
<1>3. \A d \in new : d.c \in SeedContents(segs, j)
  BY DEF Created, Fresh
<1>4. \A c \in SeedContents(segs, j) : c.seed = j /\ c.validated = FALSE
  BY DEF SeedContents, SeedContent, NewContent
<1>5. \A d \in new : d.c.seed # None /\ ~d.c.validated
  BY <1>3, <1>4, NoneIsNoValue
<1> HIDE DEF new
<1> QED BY <1>2, <1>5 DEF OnlySeeds

LEMMA UndoableStep ==
  ASSUME IInv, [Next]_vars, dirty', Ids(drafts') # Ids(drafts)
  PROVE  OnlySeeds \/ drafts \in Tops(undoStack') \cup Tops(redoStack')
<1> DEFINE S == Good(owned)
<1>1. undoStack \in Seq(S) /\ redoStack \in Seq(S) /\ drafts \in S
  BY DEF IInv, CoreOK
<1> HIDE DEF S
<1>2. CASE \E new, sel : Commit(new, sel)
  <2>1. undoStack' = PushUndo(undoStack, drafts)
    BY <1>2 DEF Commit
  <2> QED BY <1>1, <2>1, PushUndoTop
<1>3. CASE Undo
  BY <1>1, <1>3, AppendTop DEF Undo
<1>4. CASE Redo
  BY <1>1, <1>4, AppendTop DEF Redo
<1>5. ~Reset /\ ~Still /\ ~ \E load \in Loads, ro \in BOOLEAN : Open(load, ro)
  BY Zenon DEF Reset, Still, Open
<1> QED BY <1>2, <1>3, <1>4, <1>5, StepKinds, SeedingAdds

LEMMA ReadOnlyStep ==
  ASSUME IInv, KInv, [Next]_vars, readOnly, readOnly', owned' = owned
  PROVE  Ids(drafts') = Ids(drafts) /\ undoStack' = undoStack /\ redoStack' = redoStack
<1>1. CASE Still
  BY <1>1 DEF Still
<1>2. ~(\E new, sel : Commit(new, sel)) /\ ~Undo /\ ~Redo /\ ~Reset /\ ~Seeding
  BY Zenon DEF Commit, Undo, Redo, Reset, Seeding, SeedFromPreAnnotation
<1>3. ASSUME NEW load \in Loads, NEW ro \in BOOLEAN, Open(load, ro)
      PROVE  Ids(drafts') = Ids(drafts) /\ undoStack' = undoStack /\ redoStack' = redoStack
  <2> DEFINE new == Created(load)
  <2>1. drafts' = new /\ owned = Ids(new) /\ undoStack' = << >> /\ redoStack' = << >>
    BY <1>3 DEF Open
  <2>2. \A d \in new : d.id = nextId + d.c.anchor /\ d.c.anchor \in Nat
    BY LoadsAssumption, SentencesAssumption DEF Created, Fresh, Content, Anchors
  <2> HIDE DEF new
  <2>3. \A d \in new : d.id \in Nat /\ d.id < nextId
    BY <2>1 DEF IInv, BooksOK, KInv, Ids
  <2>4. new = {}
    BY <2>2, <2>3 DEF IInv, BooksOK
  <2>5. Ids(drafts) \subseteq owned /\ Ids(new) = {}
    BY <2>4 DEF IInv, CoreOK, Good, Ids
  <2> QED BY <2>1, <2>5 DEF KInv
<1> QED BY <1>1, <1>2, <1>3, StepKinds

\* Clauses change only while the store takes edits, and every change of the clauses on
\* screen leaves the state before on the top of a stack, whatever was trimmed below,
\* or only adds seeds that wait for their confirmation.
THEOREM ChangesUndoable == Spec => ChangesCanBeUndone
<1>1. IInv /\ [Next]_vars =>
        [dirty' /\ Ids(drafts') # Ids(drafts) =>
           OnlySeeds \/ drafts \in Tops(undoStack') \cup Tops(redoStack')]_vars
  BY UndoableStep
<1>2. IInv /\ KInv /\ [Next]_vars =>
        [readOnly /\ readOnly' /\ owned' = owned =>
           Ids(drafts') = Ids(drafts) /\ undoStack' = undoStack /\ redoStack' = redoStack]_vars
  BY ReadOnlyStep
<1>3. Init => KInv
  BY DEF Init, KInv
<1> QED BY <1>1, <1>2, <1>3, KeptHistory, Invariance, PTL
        DEF Spec, ChangesCanBeUndone, ReadOnlyKeepsClauses, EveryMutationIsUndoable

=============================================================================
