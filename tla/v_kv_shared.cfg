\* A shared KV key is purged under a running request.
SPECIFICATION Spec
CONSTANTS
  None = None
  r1 = r1  r2 = r2  r3 = r3  r4 = r4  w1 = w1  w2 = w2  p1 = p1  b1 = b1  b2 = b2
  svcA = svcA  svcB = svcB  dom = dom  n1 = n1  n2 = n2  k1 = k1  k2 = k2
  Requests = {r1, r2, r3}
  Workers = {w1}
  Clients = {}
  Batches = {b1, b2}
  Services = {}
  Domains = {}
  Nodes = {n1}
  Keys = {k1, k2}
  Req <- SharedKey
  W <- OneNodeWorker
  ServiceNodes <- NoServices
  Share = FALSE
  Quantum = FALSE
  TTL = 2
  OnTime = TRUE
  MaxTransportAttempts = 2
  MaxLeaseAttempts = 2
  Capacity = 4
  MaxNodeDepth = 0
  PrepareLimit = 2
  ClaimLimit = 2
  MaxCrashes = 0
PROPERTIES ReservedKvNotPurged
CHECK_DEADLOCK FALSE
