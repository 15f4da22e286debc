CONSTANTS
  r1 = r1
  r2 = r2
  NoRequest = NoRequest
  Requests = {r1, r2}
  Sockets = {1, 2}
  ReadCount = 1
  MaxRetries = 1
  MaxWsRetries = 1
  Transports = {"polling", "ws"}
  MaxFaults = 1
  PollCount = 1
  Answers = {"200", "202", "error"}
SPECIFICATION Spec
SYMMETRY Interchangeable
INVARIANTS TypeOK LiveSocketsStayRegistered   SupersededRunShowsNothing OnlyOwnAbortStopsChart
CHECK_DEADLOCK FALSE
