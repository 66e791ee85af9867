SPECIFICATION ProgressSpec
CHECK_DEADLOCK FALSE
CONSTANTS
  PollTicks = 2
  StepTicks = 1
  MaxThrottle = 2
  TrimTicks = 2
  TrimEnabled = TRUE
  CohortThreads = {t1, t2}
  WindowTicks = 1
  MinSamples = 2
  CooldownTicks = 2
  MaxSamples = 3
  MaxSize = 4
  MaxStripes = 2
  Files = {f1, f2}
  LastNode = 2
  Weights = {f1}
  Manifests <- MCManifests
  MaxRuns = 2
  Scripts <- MCScripts
  Transports <- MCTransports
  MaxTcpStripes = 2
  StripeMinBytes = 2
  GatherSize = 2
  Cohorts <- MCCohorts
  MaxCohort = 3
  TokenBudget = 4
  ChunkConcurrency = 2
  Whole = 2
  EvalIds = {e1, e2}
  BenchIds = {b1}
  EventPage = 1
  MaxRowRuns <- MCRowRuns
  RunOptions <- MCRunOptions
  StreamIds = {e1}
  MaxUnread = 2
  RetryTicks = 2
  MaxLinkChanges = 1
  CpuCallers = {"a", "b"}
  CpuWorkers = 2
  MaxConcurrency = 2
  CpuMixes <- MCCpuMixes
INVARIANTS
  ProgressTypeOK CopiesWhole EveryoneAnswered PathHonest
PROPERTIES PressureEases CopiesEnd CallsEnd
