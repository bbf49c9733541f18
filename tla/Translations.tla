------------------------------ MODULE Translations ------------------------------
(***************************************************************************)
(* The translations read from files: the folder the translators write in,  *)
(* the synchronisation that copies it in the database in one transaction,  *)
(* the page where administrators start it, and what a reader is shown.     *)
(* A line is named by the sentence it translates.                          *)
(***************************************************************************)
EXTENDS Integers, Sequences, FiniteSets

CONSTANTS
  Admins, Sets,     \* the sets declared, of the corpus of one document
  WholeSets,        \* those whose strategy is "document"
  Sentences,        \* of the document, from 0
  Files,            \* what the file of the document may hold; None: no file
  Blank, None,
  MaxMoves          \* bound on what translators and administrators do

VARIABLES
  file,      \* the file of the document
  rows,      \* of each set: [sentence, text, by]
  status,    \* of each set
  syncs,     \* the transaction of each administrator: [set, read, cleared, began]
  written,   \* of each set, the lines of a synchronisation that went on alone, if it was the last
  page,      \* of each administrator: [view, asked, shown, form]
  moves

server == <<rows, status, syncs, written>>
vars == <<file, server, page, moves>>

Init ==
  /\ file \in Files /\ rows = [s \in Sets |-> {}] /\ status = [s \in Sets |-> "declared"]
  /\ syncs = [a \in Admins |-> None] /\ written = [s \in Sets |-> None]
  /\ page = [a \in Admins |-> [view |-> "sets", asked |-> None, shown |-> status, form |-> FALSE]] /\ moves = 0

Moved == moves < MaxMoves /\ moves' = moves + 1
Translate(f) == Moved /\ f # file /\ file' = f /\ UNCHANGED <<server, page>>

\* The button of every set waits for the answer of the one clicked.
RunSync(a, s) ==
  /\ Moved /\ page[a].view # "crashed" /\ page[a].asked = None
  /\ page' = [page EXCEPT ![a].asked = s] /\ UNCHANGED <<file, server>>
\* The declaration names no corpus: the server has none to give.
Declare(a) ==
  /\ Moved /\ page[a].view # "crashed" /\ ~page[a].form
  /\ page' = [page EXCEPT ![a].form = TRUE] /\ UNCHANGED <<file, server>>
Refused(a) ==
  /\ page[a].form /\ page' = [page EXCEPT ![a].form = FALSE] /\ UNCHANGED <<file, server, moves>>

\* The empty lines of a file are dropped, and the n-th line left translates the n-th sentence.
Kept(lines) == SelectSeq(lines, LAMBDA l : l # Blank)
InFile(lines) == {i \in Sentences : i + 1 \in DOMAIN Kept(lines)}
Copies(s, lines, a) ==
  IF s \in WholeSets
  THEN {[sentence |-> None, text |-> Kept(lines), by |-> <<a, moves>>]}
  ELSE {[sentence |-> i, text |-> <<Kept(lines)[i + 1]>>, by |-> <<a, moves>>] : i \in InFile(lines)}

Together(a) == {b \in Admins : syncs[b] # None /\ syncs[b].set = page[a].asked}
Begins(a, cleared) ==
  /\ page[a].asked # None /\ syncs[a] = None /\ file # None
  /\ syncs' = [b \in Admins |->
       CASE b = a -> [set |-> page[a].asked, read |-> file, cleared |-> cleared, alone |-> Together(a) = {},
                      after |-> {c \in Together(a) : syncs[c].cleared # {}}]
         [] b \in Together(a) -> [syncs[b] EXCEPT !.alone = FALSE]
         [] OTHER -> syncs[b]]
  /\ UNCHANGED <<file, rows, status, written, page, moves>>

\* Mutant of Clear: the former rows are left to the constraint.
KeepRows(a) == Begins(a, {})
\* The transaction reads the file and deletes the rows that were there when it did;
\* it waits for the transactions that had already locked them.
Clear(a) == Begins(a, rows[page[a].asked])

\* What the page makes of the answer: it looks for a summary the server does not send.
Answered(a) == page' = [page EXCEPT ![a].asked = None, ![a].view = "crashed"]
Erred(a) == page' = [page EXCEPT ![a].asked = None]

\* Mutant of Conflicts: no constraint on the rows of a set.
NeverConflicts(a) == FALSE
Conflicts(a) ==
  \E r \in rows[syncs[a].set] \ syncs[a].cleared, n \in Copies(syncs[a].set, syncs[a].read, a) :
    r.sentence = n.sentence /\ r.sentence # None

Ends(a) == syncs' = [b \in Admins |-> IF b = a \/ syncs[b] = None THEN None
                                       ELSE [syncs[b] EXCEPT !.after = @ \ {a}]]
Commit(a) ==
  LET s == syncs[a].set IN
  /\ syncs[a] # None /\ syncs[a].after = {} /\ ~Conflicts(a)
  /\ rows' = [rows EXCEPT ![s] = (@ \ syncs[a].cleared) \cup Copies(s, syncs[a].read, a)]
  /\ status' = [status EXCEPT ![s] = "synced"]
  /\ written' = [written EXCEPT ![s] = IF syncs[a].alone THEN syncs[a].read ELSE None]
  /\ Ends(a)
  /\ Answered(a) /\ UNCHANGED <<file, moves>>
Rollback(a) ==
  /\ syncs[a] # None /\ syncs[a].after = {} /\ Conflicts(a)
  /\ Ends(a)
  /\ Erred(a) /\ UNCHANGED <<file, rows, status, written, moves>>
\* A folder without the file of the document changes nothing of its rows.
NothingMatched(a) ==
  /\ page[a].asked # None /\ syncs[a] = None /\ file = None
  /\ status' = [status EXCEPT ![page[a].asked] = "synced"]
  /\ Answered(a) /\ UNCHANGED <<file, rows, syncs, written, moves>>
\* A folder that is gone is noted in the status, and is an answer like another.
FolderMissing(a) ==
  /\ page[a].asked # None /\ syncs[a] = None
  /\ status' = [status EXCEPT ![page[a].asked] = "error:folder_missing"]
  /\ Answered(a) /\ UNCHANGED <<file, rows, syncs, written, moves>>

\* The error view mounts the page anew.
Reload(a) ==
  /\ Moved /\ page[a].view = "crashed"
  /\ page' = [page EXCEPT ![a] = [view |-> "sets", asked |-> None, shown |-> status, form |-> FALSE]]
  /\ UNCHANGED <<file, server>>
ListCome(a) ==
  /\ page[a].view # "crashed" /\ page[a].shown # status
  /\ page' = [page EXCEPT ![a].shown = status] /\ UNCHANGED <<file, server, moves>>

Next ==
  \/ \E f \in Files : Translate(f)
  \/ \E a \in Admins, s \in Sets : RunSync(a, s)
  \/ \E a \in Admins : \/ Declare(a) \/ Refused(a) \/ Clear(a) \/ Commit(a) \/ Rollback(a)
                       \/ NothingMatched(a) \/ FolderMissing(a) \/ Reload(a) \/ ListCome(a)

\* What a reader is shown under a sentence: the rows of every set of the language,
\* the last one read for a sentence (Document.translations, useDocumentTranslations).
Readable(i) == {r \in UNION {rows[s] : s \in Sets} : r.sentence = i}

-------------------------------------------------------------------------------
\* Two synchronisations at once leave one translation of a sentence in a set
\* (translations/services.py, sync_translation_set; models.py, the constraint).
OneTextPerSentence ==
  \A s \in Sets : \A r, q \in rows[s] : r.sentence = q.sentence /\ r.sentence # None => r = q

\* What a set has of the document is the file the last synchronisation read,
\* whatever was there before, when no other one went on meanwhile.
RowsAreTheFile ==
  \A s \in Sets \ WholeSets : written[s] # None =>
    {<<r.sentence, r.text[1]>> : r \in rows[s]} =
    {<<i, Kept(written[s])[i + 1]>> : i \in InFile(written[s])}

\* The same of a set of whole documents.
OneTextPerDocument == \A s \in WholeSets : Cardinality(rows[s]) <= 1

\* The translation shown under a sentence is the one of that sentence.
TranslationOfItsSentence == \A i \in Sentences : \A r \in Readable(i) : r.text = <<i>>

\* A document whose file is gone keeps no translation once synchronised.
RemovedIsForgotten == file = None /\ (\A s \in Sets : status[s] = "synced") => \A s \in Sets : rows[s] = {}

\* The page survives the answer it asked for.
PageSurvives == \A a \in Admins : page[a].view # "crashed"
================================================================================
