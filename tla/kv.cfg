\* One preparer per node: shards of a pipelined service and a legacy entry under a capacity.
SPECIFICATION Spec
CONSTANTS
  None = None
  r1 = r1  r2 = r2  r3 = r3  r4 = r4  w1 = w1  w2 = w2  p1 = p1  b1 = b1  b2 = b2
  svcA = svcA  svcB = svcB  dom = dom  n1 = n1  n2 = n2  k1 = k1  k2 = k2
  Requests = {r1, r2, r3, r4}
  Workers = {w1}
  Clients = {}
  Batches = {b1, b2}
  Services = {svcA, svcB}
  Domains = {dom}
  Nodes = {n1, n2}
  Keys = {k1, k2}
  Req <- PipelineKv
  W <- OneNodeWorker
  ServiceNodes <- PipelineNodes
  Share = FALSE
  Quantum = FALSE
  TTL = 2
  OnTime = TRUE
  MaxTransportAttempts = 1
  MaxLeaseAttempts = 1
  Capacity = 3
  MaxNodeDepth = 2
  PrepareLimit = 2
  ClaimLimit = 2
  MaxCrashes = 0
INVARIANTS KvWithinCapacity KvProtected NodeDepthBound
CHECK_DEADLOCK FALSE
