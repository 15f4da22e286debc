CONSTANTS
  q1 = q1
  Queries = {q1}
  Blocks = 3
  MaxStops = 2
SPECIFICATION FairSpec
INVARIANTS TypeOK OneBlockAfterStop KeyLeadsToResults  
 
CHECK_DEADLOCK FALSE
