SPECIFICATION FairSpec
CONSTANTS
  r1 = r1  r2 = r2  r3 = r3  pA = pA  pB = pB
  Jobs = {1}
  Requests = {r1}
  JobOf <- MCJobOf
  PhaseOne <- MCPhaseOne
  Receipts = {pA, pB}
  Worker = Worker
  CheckIds = {1, 2, 3, 4, 5}
  NoCheck = NoCheck
  Paid = TRUE
  MaxFaults = 2
  MaxCrashes = 1
  MaxToggles = 1
CONSTRAINT PaidBounds
PROPERTIES FinishedStaysFinished QueuedIsFinished FailureIsPublished
