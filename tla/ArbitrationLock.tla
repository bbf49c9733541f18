-------------------------- MODULE ArbitrationLock --------------------------
(***************************************************************************)
(* What the exclusive arbitration lock of a document promises, without     *)
(* rows, leases or clocks: at most one arbiter holds it, it is taken only  *)
(* when free, and it passes straight from one arbiter to another only by a *)
(* lead taking it over.                                                    *)
(***************************************************************************)
CONSTANTS Arbiters,   \* the users that may arbitrate the document
          Leads,      \* those of them that may take the lock over
          Nobody      \* the holder of a free lock

VARIABLE holder

Init == holder = Nobody

Take(u) ==
  /\ holder = Nobody
  /\ holder' = u

\* The holder releases the lock, or its lease runs out.
Drop ==
  /\ holder # Nobody
  /\ holder' = Nobody

TakeOver(u) ==
  /\ u \in Leads
  /\ holder' = u

Next == Drop \/ \E u \in Arbiters : Take(u) \/ TakeOver(u)

Spec == Init /\ [][Next]_holder
=============================================================================
