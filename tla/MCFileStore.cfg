SPECIFICATION Spec
CONSTANTS
    APIs <- MCAPIs
    Names <- MCNames
    Bodies = {"old", "new"}
    NoPolicy = NoPolicy
    FileOrder <- MCFileOrder
    Canonical <- MCCanonical
    HandEdits <- LegacyEdits
    MaxListed = 4
INVARIANT NeverDestructive
PROPERTY ImplementsStore
