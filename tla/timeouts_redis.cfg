CONSTANTS
  t1 = t1
  t2 = t2
  u1 = u1
  u2 = u2
  r1 = r1
  r2 = r2
  k1 = k1
  NoKey = NoKey
  NoTask = NoTask
  Tasks = {t1, t2}
  Users = {u1}
  Keys = {k1}
  Admins = {}
  Modes = {"async", "sync"}
  TimeoutOptions = {TRUE}
  Redis = TRUE
  MaxDeliveries = 1
  Runs = {r1}
  HandlerOptions = {TRUE, FALSE}
  HandlersFail = TRUE
  CleanupFails = TRUE
  BodiesFail = TRUE
  Crashes = FALSE
SPECIFICATION Spec
SYMMETRY Interchangeable
INVARIANTS HandlersNeedCause ResultIsHonest TimeoutRanHandlers SlotDiscipline
CHECK_DEADLOCK FALSE
