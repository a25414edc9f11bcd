SPECIFICATION FairSpec
CONSTANTS
    NodeId <- MCNodeId
    CatalogId = {1, 2}
    Content = {"old", "new"}
    None = None
    Client <- MCClient
    MayRequest <- MCMayRequest
    crawler = crawler
    reader = reader
    n1 = n1
    n2 = n2
INVARIANTS
    TypeOK
    WalkIsSnapshot
PROPERTIES
    EveryCallReturns
    ImplementsCache
