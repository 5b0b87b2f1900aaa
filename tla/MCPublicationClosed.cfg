SPECIFICATION Spec
CONSTANTS
  r1 = r1  r2 = r2  r3 = r3  pA = pA  pB = pB
  Jobs = {1}
  Requests = {r1}
  JobOf <- MCJobOf
  PhaseOne <- MCPhaseOne
  Receipts = {pA, pB}
  Worker = Worker
  CheckIds = {k1, k2, k3}
  NoCheck = NoCheck
  Paid = FALSE
  MaxFaults = 1
  MaxCrashes = 0
  MaxToggles = 0
SYMMETRY Symmetry
INVARIANTS FailureKeepsCheckClosed
