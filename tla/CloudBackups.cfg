SPECIFICATION Spec
CONSTANTS
  MaxBackups = 10
  MaxSchedules = 1
\* Ids are used up in the end.
CHECK_DEADLOCK FALSE
PROPERTIES
  OldestRemoved
