SPECIFICATION FairSpec
CONSTANTS
  main = main
  Callers = {main, t1}
\* The process ends.
CHECK_DEADLOCK FALSE
INVARIANTS
  LoggerLast
