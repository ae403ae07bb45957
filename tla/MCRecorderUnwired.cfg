CONSTANTS
  Handlers = {h1, h2}
  Hijacked = {h2}
  BufferSize = 1
  DropLogEvery = 2
  Word = 16
  Wirings = {"async", "none"}
  MaxEvents = 2
SPECIFICATION Spec
CHECK_DEADLOCK FALSE
INVARIANTS NoRecorderNoEffect
