SPECIFICATION FairSpec
CONSTANTS
  p1 = p1  p2 = p2  g1 = g1  g2 = g2
  d1 = d1  d2 = d2  dg1 = dg1  dg2 = dg2  dr = dr  dc = dc
  s1 = s1  s2 = s2  s3 = s3  mA = mA  mB = mB
  PRs = {p1, p2}
  Groups = {g1, g2}
  Parts <- MCParts
  Deliveries = {d1, d2, dg1, dg2}
  Subject <- MCSubject
  Body <- MCBody
  DeliveryId <- MCDeliveryId
  Submissions = {s1, s2}
  PrOf <- MCPrOf
  MakerOf <- MCMakerOf
  NonceOf <- MCNonceOf
  Routable = {mA}
  NoSubmission = NoSubmission  NoGroup = NoGroup
  Worker = Worker
  Limit = 1
  MaxFaults = 0
  MaxCrashes = 0
PROPERTIES LateProvenanceReleases
CHECK_DEADLOCK FALSE
