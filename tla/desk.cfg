SPECIFICATION FairSpec
CONSTANTS
  None = None
  Users = {{p}, {q}}
  Managers = {{q}}
  Docs = {d1, d2}
  MaxVisits = 2
  MaxFaults = 1
  MaxNet = 1
INVARIANT LockIsSound
PROPERTY WrongBeliefEnds
CHECK_DEADLOCK FALSE
