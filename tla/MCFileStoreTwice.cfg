SPECIFICATION Spec
CONSTANTS
    APIs <- MCAPIs
    Names <- MCNames
    Bodies = {"old", "new"}
    NoPolicy = NoPolicy
    FileOrder <- MCFileOrder
    Canonical <- MCCanonical
    HandEdits <- TwoInOneFile
    MaxListed = 8
INVARIANT AcknowledgedIsLoaded
