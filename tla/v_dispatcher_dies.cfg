SPECIFICATION Spec
CONSTANTS
    r1 = r1
    r2 = r2
    r3 = r3
    A = A
    B = B
    d1 = d1
    None = None
    Requests = {r1, r2}
    Services = {A}
    Domains = {d1}
    MaxCohorts = 2
    ServiceOf <- OneService
    Plan <- OnePlan
    Modes = {TRUE, FALSE}
    Window = 2
    RefillBatch = 2
    CohortWorkers = 2
    MaxTransportAttempts = 2
    MaxLeaseAttempts = 2
    Results = {"completed"}
    MaxDisturbances = 0
PROPERTIES StaysUp
CHECK_DEADLOCK FALSE
