SPECIFICATION FairSpec
CONSTANTS
    Tunnels = {t1, t2}
    Names = {n1, n2}
    LeafTTL = 4
    Margin = 2
    HandshakeTimeout = 1
    CacheSize = 1
    TimerSlack = 1
    MaxTime = 7
CHECK_DEADLOCK FALSE
INVARIANTS LeafOutlivesHandshake OutlivesOnlyLateLeaf
PROPERTY TornDown
