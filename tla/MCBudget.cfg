SPECIFICATION MCSpec
CONSTANTS
  w1 = w1  w2 = w2  r1 = r1  r2 = r2  r3 = r3
  Workers = {w1, w2}
  Reservations = {r1, r2}
  NoReservation = NoReservation
  Months = 2
  Monthly = 4
  DirectCap = 2
  CallCap = 1
  MaxCalls = 3
  Unit = 2
  MaxUsage = 5
  Capped = {1}
  MaxFaults = 1
  MaxCrashes = 1
  v1 = v1  v2 = v2  c1 = c1  c2 = c2  k1 = k1  k2 = k2  p1 = p1  p2 = p2  dir = dir
  Nothing = Nothing  Poison = Poison
SYMMETRY Symmetry
INVARIANTS BooksAreHonest WithinMonthly BillIsCovered ReviewIsBound HookIsRight ReviewIsWhole
PROPERTIES ClosedIsFinal
CHECK_DEADLOCK FALSE
