---------------------------- MODULE WriteBehind ----------------------------
(***************************************************************************)
(* What an automatic save promises: a remote copy that runs behind a local *)
(* document, cell by cell.  The remote copy of a cell is always something  *)
(* the user once had there, and it only moves forward in the history of    *)
(* the cell, except while two writers work on that cell at the same time.  *)
(***************************************************************************)
EXTENDS Naturals, Sequences

CONSTANTS Cells, Values

VARIABLES log,      \* what each cell held locally, oldest first
          remote,   \* the remote copy
          at,       \* the place in the log the remote copy comes from
          disturbed \* the cells two writers work on

wvars == <<log, remote, at, disturbed>>

Init ==
  /\ log \in [Cells -> {<<v>> : v \in Values}]
  /\ remote = [c \in Cells |-> log[c][1]]
  /\ at = [c \in Cells |-> 1]
  /\ disturbed = {}

\* Some cells change locally, writers meet on some and part on others.
Edit ==
  /\ \A c \in Cells : \/ log'[c] = log[c]
                      \/ \E v \in Values : log'[c] = Append(log[c], v)
  /\ DOMAIN log' = Cells
  /\ disturbed' \in SUBSET Cells
  /\ UNCHANGED <<remote, at>>

\* One cell is written remotely, with its value now or earlier.
Persist(c) ==
  /\ \E i \in (IF c \in disturbed THEN 1 ELSE at[c]) .. Len(log[c]) :
       /\ at' = [at EXCEPT ![c] = i]
       /\ remote' = [remote EXCEPT ![c] = log[c][i]]
  /\ UNCHANGED <<log, disturbed>>

Next == Edit \/ \E c \in Cells : Persist(c)
Spec == Init /\ [][Next]_wvars
=============================================================================
