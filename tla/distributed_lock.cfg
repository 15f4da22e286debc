CONSTANTS
  p1 = p1
  p2 = p2
  p3 = p3
  Procs = {p1, p2, p3}
  Ttl = 4
  MaxHold = 4
  Redis = FALSE
  Offset <- West
SPECIFICATION FairSpec
INVARIANTS TypeOK
PROPERTIES ImplementsMutex LockComesFree
