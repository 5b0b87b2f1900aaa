SPECIFICATION MCSpec
CONSTANTS
  t1 = t1  t2 = t2  i1 = i1  i2 = i2  p1 = p1  p2 = p2  p3 = p3  NoLock = NoLock
  Trees = {t1, t2}  Inputs = {i1, i2}  Proven <- MCProven  Procs = {p1, p2, p3}
  MaxAttempts = 2  MaxEdits = 1  MaxDays = 1  MaxCrashes = 1
  w1 = w1  w2 = w2  w3 = w3  w4 = w4  w5 = w5  w6 = w6  w7 = w7  Old = Old  Absent = Absent
  c = c  d = d  Nothing = Nothing
  k1 = k1  k2 = k2  Unknown = Unknown  Null = Null
CONSTRAINT Bounds
SYMMETRY Symmetry
INVARIANTS AcceptedIsSound LedgerNamesReceipts FilesAreDurable NegativesBind LedgerIsExact DecisionIsSound SurfaceIsExact
PROPERTIES FindingsSurvive
CHECK_DEADLOCK FALSE
