CONSTANTS
  Ids = {1, 2, 3}
  Shapes <- MCShapes
  Queries <- MCQueries
  TicksPerMs = 2
  MaxBytes = 3
  MaxAge = 2
  Batch = 1
  DefaultListLimit = 1
  MaxListLimit = 2
  MaxBodyBytes = 2
  NoBodyAPIs = {"gmail"}
  SensitiveHeaders = {"authorization", "cookie"}
  Overhead = 1
  NoCursor = NoCursor
  MaxTime = 4
SPECIFICATION Spec
INVARIANTS WithinBudget PagesNeverRepeat WalkMissesNothing
PROPERTY OldestGoFirst
