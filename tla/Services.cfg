SPECIFICATION Spec
CONSTANTS
  Names = {p1, p2, p3}
  NameOf <- Stem
  NoLib = NoLib
  Graphs <- UpToRenaming
  MaxHandles = 2
  Ids = {q1, q2}
  Hooks = {h1}
  NoManifest = NoManifest
  MaxCopies = 2
  ResolvedIds = {r1, r2, r3}
  PluginVersions = {e1, e2, e3}
  NoPlugin = NoPlugin
  MaxInstalls = 5
  Threads = {t1, t2}
  s1 = s1
  s2 = s2
  s3 = s3
  Events <- Published
  Subs = {s1, s2, s3}
  Filter <- Filters
  NoSub = NoSub
  MaxDispatches = 2
  v0 = v0
  v1 = v1
  v2 = v2
  Updates = {v0, v1, v2}
  FirstVersion = v0
  NoUpdate = NoUpdate
  Signatures = {g1}
  Percentages = {50}
  StagedUpdates = {v1}
  Actions = {a1, a2}
  NoTarget = {a2}
  Priorities = {1, 2}
  MaxQueued = 3
  MaxApprovals = 1
  w1 = w1
  w2 = w2
  Webhooks = {w1, w2}
  MaxRetries <- Retries
  Topics = {"x", "y"}
  Asks <- Asked
  MaxDeliveries = 3
  MaxByHand = 2
  MaxJobs = 3
  MaxEvents = 5
  MaxTime = 2
  Policies <- Retentions
  Sizes = {1, 2}
  Limits <- Configured
  MaxItems = 4
  MaxBatches = 2
  CloudEndpoints = {d1}
  FirstVersions = {1, 7}
  NoPolicy = NoPolicy
  MaxPolicyVersions = 4
  AlertKeys = {k1, k2}
  DefaultWindow = 2
  DefaultCapacity = 3
  Windows = {0, 1, 2}
  Capacities = {0, 1, 3}
  MaxAlertId = 4
  MaxClock = 4
  MaxRepeats = 1
  Sources = {n1, n2}
  Ports <- Scans
  Targets = {d1}
  ScanWindow = 1
  CleanupWindow = 2
  ScanThreshold = 1
  FloodWindows <- Spans
  FloodCounts = {2}
  pk = pk
  i1 = i1
  IDSRules = {i1}
  RulesMatching <- Traffic
  KMaxAlerts = 2
  MaxIDSRules = 1
  MaxSeconds = 3
  MaxCalls = 3
  Filtering = {t1}
  Packets <- Inbound
  Shapes <- Callers
  Blockable = {3}
  AddressBits = 2
  AnySource = AnySource
  GivenIds = {1}
  MaxRules = 3
  MaxRuleId = 3
  MaxPackets = 1
  Ingesting = {t1, t2}
  Feeds <- Fed
  ByHand <- Entered
  ChosenIds = {2}
  Observed <- Looked
  MaxIOCId = 2
  MaxIngests = 2
\* Jobs, events and queue numbers are used up in the end.
CHECK_DEADLOCK FALSE
INVARIANTS
  TypeOK
  OrderUnlessCycle
  
  ActiveIsCurrent
  EventsDelivered
  UpdatesRevert
  RetriesBounded
  JobsAccounted
  ChainTellsHoles
  BatchesKeepItems
  WindowsRespected
  
PROPERTIES
  OrderRespected
  ProcessedInTurn
