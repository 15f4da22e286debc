CONSTANTS
  t1 = t1
  t2 = t2
  u1 = u1
  u2 = u2
  r1 = r1
  r2 = r2
  k1 = k1
  NoKey = NoKey
  NoTask = NoTask
  Tasks = {t1, t2}
  Users = {u1, u2}
  Keys = {k1}
  Admins = {}
  Modes = {"async"}
  TimeoutOptions = {FALSE}
  Redis = FALSE
  MaxDeliveries = 1
  Runs = {r1, r2}
  HandlerOptions = {FALSE}
  HandlersFail = FALSE
  CleanupFails = FALSE
  BodiesFail = FALSE
  Crashes = FALSE
SPECIFICATION Spec
SYMMETRY Interchangeable
INVARIANTS OneBodyPerKey
CHECK_DEADLOCK FALSE
