CONSTANTS
  Handlers = {h1, h2}
  Hijacked = {h2}
  BufferSize = 1
  DropLogEvery = 2
  Word = 16
  Wirings = {"async", "none"}
  MaxEvents = 4
SPECIFICATION FairSpec
CHECK_DEADLOCK FALSE
INVARIANTS NeverSendsOnClosed NothingLost StoreOutlivesWriter GracefulRecordsAll
PROPERTY ShutdownTerminates
