SPECIFICATION Spec
CHECK_DEADLOCK FALSE
CONSTANTS
    Procs = {p1, p2}
    Slugs <- MCSlugs
    Shas <- MCShas
    Names <- MCNames
    History <- MCHistory
    ManifestName <- MCManifestName
    APIsOf <- MCAPIsOf
    Allowed = {"r"}
    NameOrder <- MCNameOrder
    MaxDirs = 6
    MaxFaults = 2
    MaxCrashes = 1
    MaxCommands = 2
    WithApis <- MCWithApis
    Ladders = {1, 2}
    MaxSecrets = 3
SYMMETRY MCSymmetry
INVARIANTS
    VisibleIsWhole
    KeepsACopy
    SchemaMatchesVersion
    SecretOutlivesRestarts
