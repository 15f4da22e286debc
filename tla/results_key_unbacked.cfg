CONSTANTS
  q1 = q1
  Queries = {q1}
  Blocks = 3
  MaxStops = 2
SPECIFICATION Spec
INVARIANT FetchesAreBacked
CHECK_DEADLOCK FALSE
