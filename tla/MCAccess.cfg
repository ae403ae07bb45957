SPECIFICATION Spec
CONSTANTS
    Subjects = {ann, bob}
    TTLs = {2}
    UpstreamTTLs = {1, 2}
    RefreshTTL = 1
    Leeway = 1
    Workers = {w1}
    MaxTime = 3
    MaxJWTs = 2
    Names = {n}
    Policies = {p}
    DraftIds = {d1}
    PasswordSet = TRUE
    LoginTTL = 1
SYMMETRY Symmetry
CHECK_DEADLOCK FALSE
INVARIANTS ChainNeverExtends AdminFromOperators PrivateReads
PROPERTY LiveNeedsAdmin
