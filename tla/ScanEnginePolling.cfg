SPECIFICATION FairSpec
CONSTANTS
  a = a
  b = b
  Scans = {a, b}
  Workers = {w1, w2}
  NoJob = NoJob
  MaxFiles = 2
  SmallLimit = 1
  Infected <- FirstInfected
PROPERTIES
  PollingEnds
