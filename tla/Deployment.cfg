SPECIFICATION Spec
CONSTANTS
  e1 = e1
  e2 = e2
  Endpoints = {e1, e2}
  Versions = {v1, v2}
  NoVersion = NoVersion
  TargetLists <- Lists
  StageCounts = {0, 2}
  Thresholds = {50}
  Outcomes <- Reported
  MaxDeployments = 2
  MaxTargets = 8
  NoGroup = NoGroup
  Timeouts = {0, 1}
  MaxGroups = 2
  MaxAge = 2
  MaxCommands = 3
  PolicyIds = {p1}
  Contents = {c1, c2}
  GroupSets <- Targeted
  MaxHistory = 4
SYMMETRY Symmetry
CHECK_DEADLOCK FALSE
INVARIANTS
  StatusTellsStages
  
  HistoryTellsPolicy
PROPERTIES
  RollbackRestores
  
