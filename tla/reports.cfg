CONSTANTS
  e1 = e1
  e2 = e2
  Executions = {e1, e2}
  Grace = 2
  Timeout = 1
  MaxCrashes = 1
SPECIFICATION FairSpec
INVARIANTS TypeOK BodiesStayApart GraceIsKept
 
