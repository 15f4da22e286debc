CONSTANTS
  t1 = t1
  t2 = t2
  u1 = u1
  u2 = u2
  r1 = r1
  r2 = r2
  k1 = k1
  NoKey = NoKey
  NoTask = NoTask
  Tasks = {t1}
  Users = {u1}
  Keys = {k1}
  Admins = {}
  Modes = {"async"}
  TimeoutOptions = {TRUE}
  Redis = FALSE
  MaxDeliveries = 2
  Runs = {r1, r2}
  HandlerOptions = {TRUE}
  HandlersFail = FALSE
  CleanupFails = FALSE
  BodiesFail = FALSE
  Crashes = TRUE
SPECIFICATION Spec
SYMMETRY Interchangeable
PROPERTIES ImplementsTaskSlots StatusMovesOn
CHECK_DEADLOCK FALSE
