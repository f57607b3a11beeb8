SPECIFICATION FairSpec
CONSTANTS
  main = main
  Callers = {main, t1, t2}
\* The process ends.
CHECK_DEADLOCK FALSE

  
PROPERTIES
  SignalSeenEndsLoop
