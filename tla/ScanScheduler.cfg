SPECIFICATION FairSpec
CONSTANTS
  Workers = {w1, w2}
  Clients = {k1, k2}
  Jobs = {j1, j2}
  NoJob = NoJob
INVARIANTS
  JobsConserved
  StoppedMeansQuiet
  StopDrains
PROPERTIES
  QueuedJobsTaken
  ImplementsJobPool
