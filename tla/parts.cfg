SPECIFICATION PartsSpec
CHECK_DEADLOCK FALSE
SYMMETRY PartsSymmetry
CONSTANTS
  Objects = {o1}
  Stages = {s1, s2}
  KvClients = {c1, c2}
  KvStates <- MCKvStates
  DeclareBodies <- MCDeclares
  TransitionBodies <- MCTransitions
  TouchStates = {"available"}
  CommitBodies <- MCCommits
  ShardUpdates <- MCShardUpdates
  MaxPins = 1
  Ranks = {k1, k2}
  Blocks = {b1, b2}
  Hashes = {h1, h2}
  MaxCrashes = 1
  Writers = {w1, w2}
  Prompts = {p1, p2}
  Partitions = {l1}
  Parts = {x1, x2}
  HmaRequests = {q1}
  MaxWrites = 2
  Directives <- MCDirectives
  PrefixFiles = {"F", "G"}
  KvRequests = {r1, r2}
  MaxPlanBytes = 2
  RawTopologies <- MCTopologies
  NodeOverrides <- MCOverrides
  GateSettings <- MCGates
  Profiles = {"p1", "p2", "p3", "p4", "p5"}
  PresetLayers = 5
  PresetTail = 4
  TailScale = 3
  LeastWindow = 2
  LeastWorkers = 1
  GpuCap = 5
  MaxBound = 2
  RawDeployments <- MCDeployments
  Letters = {"A", "B"}
  OtherValue = "Z"
  Sources = {"AIME2025", "COMPSEC"}
  Limits <- SourceLimits
  Shapes <- SourceShapes
  MaxSample = 4
  CallRequests = {r1, r2}
  PageLimit = 2
  MaxAttempts = 2
  MaxDeltas = 1
  MaxBacklog = 3
  Window = 4
  Safety = 1
  LargePrompt = 3
  LargeBudget = 2
  DirectIds <- ThreeIds
  MaxText = 5
  Engines = {a, b, h}
  Headless = {h}
  Schemas = {v1, v2}
  MaxTokens = 2
  ViewNodes = {"n1", "n2"}
  HeadNode = "n1"
  LayersOf <- PipelineLayers
  ViewServices = {"q", "g"}
  StaleOk = 0
  SummaryStale = 1
  DownThreshold = 2
  RoundTime = 1
  MaxNow = 4
  Fleet = {"q", "g"}
  NodesOf <- FleetNodes
  EntryOf <- FleetEntry
  CommandLines <- MCCommandLines
  MaxCommands = 2
  MaxRelaunch = 2
  EnvValues = {"a", "b"}
  ProxyNodes = {"n1", "n2"}
  WifiHosts <- EmergencyHosts
  FarChunks = 3
  LocalChunks = 1
  MaxToolRounds = 2
  MaxToolCalls = 5
  AgentTools <- MCTools
  AgentReplies <- MCReplies
  FleetOrder <- MCFleetOrder
  Gateways = {"n1"}
  Checkouts <- MCCheckouts
  UpdateOptions <- MCUpdateOptions
  MaxPushes = 1
  DiskFiles = {"a", "b", "x"}
  DiskDirs <- MCDiskDirs
  ExternalFiles = {"x"}
  ProtectedPaths = {"b"}
  DiskInodes <- MCDiskInodes
  Manifests <- MCManifests
  MaxDiskChanges = 1
INVARIANTS
  PartsTypeOK StoresTruthful LayoutsRight AnswersRight TelemetryHonest FleetInOrder
PROPERTIES DirectivesStand ScoresRight
