CONSTANTS
  t1 = t1
  t2 = t2
  u1 = u1
  u2 = u2
  r1 = r1
  r2 = r2
  k1 = k1
  NoKey = NoKey
  NoTask = NoTask
  Tasks = {t1}
  Users = {u1, u2}
  Keys = {k1}
  Admins = {u1}
  Modes = {"async", "sync"}
  TimeoutOptions = {FALSE}
  Redis = FALSE
  MaxDeliveries = 1
  Runs = {r1}
  HandlerOptions = {FALSE}
  HandlersFail = FALSE
  CleanupFails = FALSE
  BodiesFail = TRUE
  Crashes = FALSE
SPECIFICATION FairSpec
PROPERTIES EveryTaskEnds WaitersReturn
CHECK_DEADLOCK FALSE
