---------------------------- MODULE GoldSettings ----------------------------
(***************************************************************************)
(* The studio that configures the arbitration of a project: a draft of the *)
(* whole configuration, the picker of arbiters, the saving, what other     *)
(* administrators save meanwhile, and the button that applies it all.      *)
(*                                                                         *)
(* Abstracted: of the fields, the arbiters and the policy stay; a query of *)
(* the picker is empty, the name of one member or of nobody.               *)
(***************************************************************************)
EXTENDS Integers, Sequences, Functions

CONSTANTS Members, Policies, None,
  MaxMoves    \* bound on what the administrators do

VARIABLES
  stored,     \* the server's configuration, with the number of its changes
  config,     \* ... as the page's cache has it
  fetched,    \* an answer on its way to the cache
  draft,      \* what the form shows
  touched,    \* the fields edited since the form was last filled
  saving,     \* the configuration being saved
  success,    \* whether the last saving succeeded
  applied,    \* the configuration the documents were last recomputed with
  query, open, active, closing,   \* the picker, and its blur about to close the list
  moves

vars == <<stored, config, fetched, draft, touched, saving, success, applied, query, open, active, closing, moves>>
server == <<stored, fetched, saving, success, applied>>
picker == <<query, open, active, closing>>

Fields == {"arbiters", "policy"}
Dirty == draft # config
Candidates == SelectSeq(Members, LAMBDA m : m \notin Range(draft.arbiters) /\ (query = "" \/ query = m))

Init ==
  /\ stored = [arbiters |-> <<>>, policy |-> CHOOSE p \in Policies : TRUE, changes |-> 0]
  /\ config = stored /\ draft = stored /\ touched = {} /\ fetched = None
  /\ saving = None /\ success = FALSE /\ applied = stored
  /\ query = "" /\ open = FALSE /\ active = 0 /\ closing = FALSE /\ moves = 0

Moved == moves < MaxMoves /\ moves' = moves + 1
Patch(f, v) ==
  /\ draft' = [draft EXCEPT ![f] = v] /\ touched' = touched \cup {f}
  /\ UNCHANGED <<config, server>>
SetPolicy(p) == Moved /\ p # draft.policy /\ Patch("policy", p) /\ UNCHANGED picker

Add(m) ==
  /\ Patch("arbiters", Append(draft.arbiters, m))
  /\ query' = "" /\ active' = 0 /\ UNCHANGED <<open, closing>>
RemoveArbiter(m) == Moved /\ m \in Range(draft.arbiters)
  /\ Patch("arbiters", SelectSeq(draft.arbiters, LAMBDA x : x # m)) /\ UNCHANGED picker
Unchanged == UNCHANGED <<config, server, draft, touched>>
Focus == Moved /\ ~open /\ open' = TRUE /\ UNCHANGED <<query, active, closing>> /\ Unchanged
Type(q) == Moved /\ q # query /\ query' = q /\ open' = TRUE /\ active' = 0 /\ UNCHANGED closing /\ Unchanged
ArrowDown ==
  /\ Moved /\ open' = TRUE
  /\ active' = IF active + 1 < Len(Candidates) THEN active + 1 ELSE Len(Candidates) - 1
  /\ UNCHANGED <<query, closing>> /\ Unchanged
ArrowUp == Moved /\ active # 0 /\ active' = (IF active > 0 THEN active - 1 ELSE 0) /\ UNCHANGED <<query, open, closing>> /\ Unchanged
Hover(i) == Moved /\ open /\ i < Len(Candidates) /\ active' = i /\ UNCHANGED <<query, open, closing>> /\ Unchanged
\* The key adds the active member, whether the list is shown or not.
Enter == Moved /\ active \in 0 .. Len(Candidates) - 1 /\ Add(Candidates[active + 1])
Pick(m) == Moved /\ open /\ m \in Range(Candidates) /\ Add(m)
Escape == Moved /\ open /\ open' = FALSE /\ UNCHANGED <<query, active, closing>> /\ Unchanged
Backspace ==
  /\ Moved /\ query = "" /\ draft.arbiters # <<>>
  /\ Patch("arbiters", SubSeq(draft.arbiters, 1, Len(draft.arbiters) - 1)) /\ UNCHANGED picker
Blur == Moved /\ closing' = TRUE /\ UNCHANGED <<query, open, active>> /\ Unchanged
Close == closing /\ closing' = FALSE /\ open' = FALSE /\ UNCHANGED <<query, active, moves>> /\ Unchanged
-----------------------------------------------------------------------------
\* A bug: only the first configuration fills the form.
FilledOnce(c) == config' = c /\ UNCHANGED <<draft, touched>>
\* Every configuration that differs from the one before fills the form, whatever it holds.
Cached(c) ==
  /\ config' = c
  /\ IF c = config THEN UNCHANGED <<draft, touched>> ELSE draft' = c /\ touched' = {}

Save ==
  /\ Dirty /\ saving = None
  /\ saving' = draft /\ success' = FALSE
  /\ UNCHANGED <<stored, config, fetched, draft, touched, applied, picker, moves>>
Written(c) == [c EXCEPT !.changes = stored.changes + 1]
Saved ==
  /\ saving # None /\ saving' = None /\ success' = TRUE
  /\ stored' = Written(saving) /\ Cached(Written(saving))
  /\ UNCHANGED <<fetched, applied, picker, moves>>
SaveRefused == saving # None /\ saving' = None
  /\ UNCHANGED <<stored, config, fetched, draft, touched, success, applied, picker, moves>>
OtherSaves(f, v) ==
  /\ Moved /\ stored[f] # v /\ stored' = Written([stored EXCEPT ![f] = v])
  /\ UNCHANGED <<config, fetched, draft, touched, saving, success, applied, picker>>
Refetch ==
  /\ fetched = None /\ config # stored /\ fetched' = stored
  /\ UNCHANGED <<stored, config, draft, touched, saving, success, applied, picker, moves>>
Fetched ==
  /\ fetched # None /\ fetched' = None /\ Cached(fetched)
  /\ UNCHANGED <<stored, saving, success, applied, picker, moves>>
\* The configuration applied to the documents is the server's; the button waits for the form.
Recompute ==
  /\ ~Dirty /\ applied # stored /\ applied' = stored
  /\ UNCHANGED <<stored, config, fetched, draft, touched, saving, success, picker, moves>>

Next ==
  \/ \E p \in Policies : SetPolicy(p) \/ OtherSaves("policy", p)
  \/ \E m \in Range(Members) : RemoveArbiter(m) \/ Pick(m) \/ OtherSaves("arbiters", <<m>>)
  \/ \E q \in Range(Members) \cup {"", "nobody"} : Type(q)
  \/ \E i \in 0 .. Len(Members) - 1 : Hover(i)
  \/ Focus \/ ArrowDown \/ ArrowUp \/ Enter \/ Escape \/ Backspace \/ Blur \/ Close
  \/ Save \/ Saved \/ SaveRefused \/ Refetch \/ Fetched \/ Recompute
-----------------------------------------------------------------------------
\* The whole form is sent: what the administrator did not touch is what the page last
\* received, so a saving reverts nothing the page had seen.
UntouchedFieldsFollow == \A f \in Fields \ touched : draft[f] = config[f]
\* Refuted: it stays on the screen when another administrator's configuration arrives.
SavedMessageIsTrue == success /\ ~Dirty => draft = stored
\* Refuted: a key pressed in a list of nobody leaves nothing highlighted.
HighlightIsOffered == open /\ Candidates # <<>> => active \in 0 .. Len(Candidates) - 1
=============================================================================
