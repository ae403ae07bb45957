SPECIFICATION PFairSpec
CONSTANTS
    Names <- MCNames
    Bodies = {"b"}
    APIs <- MCAPIs
    Clients = {r1, a1, w1}
    Reviewers = {r1}
    Agents = {a1}
    Ids = {i1}
    NoPolicy = NoPolicy
    NoClient = NoClient
    NoProposal = NoProposal
    KeyOrder <- MCKeyOrder
    SeedOrders <- MCSeedOrders
    SeedEdits <- MCSeedEdits
    Surfaces <- MCSurfaces
    Batches <- MCBatches
INVARIANTS ApprovesWhatItRead AgentsChangeTheirOwn
PROPERTIES DecisionsAreFinal DisplacesOnlyLatecomers ApprovedDeleteIsGone ReviewerReleased
