SPECIFICATION MCSpec
CONSTANTS
  ra = ra  rb = rb
  x1 = x1  x2 = x2  x3 = x3  y1 = y1
  app1 = app1  app2 = app2
  Repos = {ra, rb}
  Receipts = {x1, x2, x3, y1}
  Apps = {app1, app2}
  RepoOf <- MCRepoOf
  AppOf <- MCAppOf
  Threads = {t1}
  NoReceipt = NoReceipt
  NoApp = NoApp
  Conns = {c1, c2, c3}
  MaxHandlers = 2
  MaxFaults = 1
  c1 = c1  c2 = c2  foreign = foreign  k1 = k1  k2 = k2
  Nothing = Nothing
INVARIANTS NeverReactivated RowFollowsLog ServerKeepsServing DeliveryIsExact DoctorIsHonest OraclePassIsExact
PROPERTIES GuardedEvidenceIsCurrent
CHECK_DEADLOCK FALSE
