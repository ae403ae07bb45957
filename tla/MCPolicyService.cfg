SPECIFICATION Spec
CONSTANTS
    Names <- MCNames
    Bodies <- MCBodies
    APIs <- MCAPIs
    Clients = {c1, c2}
    NoPolicy = NoPolicy
    NoClient = NoClient
    KeyOrder <- MCKeyOrder
    SeedOrders <- MCSeedOrders
    SeedEdits <- MCSeedEdits
    Surfaces <- MCSurfaces
    Batches <- MCBatches
SYMMETRY Symmetry
INVARIANTS OneEntryPerName MemoryMirrorsDisk CreateTargetsFreeName
PROPERTY EditsKeepOrder
