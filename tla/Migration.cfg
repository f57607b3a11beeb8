SPECIFICATION Spec
CONSTANTS
  Runners = {r1, r2}
  NoRunner = NoRunner
  N = 3
INVARIANTS
  RecordsTellEffects
PROPERTIES
  GoalReached
  ImplementsSchemaHistory
