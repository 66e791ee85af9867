\* Two threads of one name: one takes the row another has selected, which then claims nothing.
SPECIFICATION Spec
CONSTANTS
  None = None
  r1 = r1  r2 = r2  r3 = r3  r4 = r4  w1 = w1  w2 = w2  p1 = p1  b1 = b1  b2 = b2
  svcA = svcA  svcB = svcB  dom = dom  n1 = n1  n2 = n2  k1 = k1  k2 = k2
  Requests = {r1, r2, r3}
  Workers = {w1, w2}
  Clients = {}
  Batches = {b1, b2}
  Services = {svcA, svcB}
  Domains = {dom}
  Nodes = {n1}
  Keys = {}
  Req <- RefillServices
  W <- OneName
  ServiceNodes <- SingleNodes
  Share = FALSE
  Quantum = FALSE
  TTL = 2
  OnTime = TRUE
  MaxTransportAttempts = 1
  MaxLeaseAttempts = 1
  Capacity = 0
  MaxNodeDepth = 0
  PrepareLimit = 2
  ClaimLimit = 2
  MaxCrashes = 0
INVARIANTS ComputeDomainExclusive
CHECK_DEADLOCK FALSE
