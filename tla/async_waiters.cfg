CONSTANTS
  r1 = r1
  r2 = r2
  NoRequest = NoRequest
  Requests = {r1}
  Sockets = {1, 2, 3}
  ReadCount = 1
  MaxRetries = 2
  MaxWsRetries = 1
  Transports = {"polling", "ws"}
  MaxFaults = 2
  PollCount = 1
  Answers = {"200", "202", "error"}
SPECIFICATION FairSpec
PROPERTIES EventSettlesItsWaiter
CHECK_DEADLOCK FALSE
