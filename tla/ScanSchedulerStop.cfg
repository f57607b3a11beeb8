SPECIFICATION FairSpec
CONSTANTS
  Workers = {w1}
  Clients = {k1}
  Jobs = {j1}
  NoJob = NoJob
PROPERTIES
  StopReturns
