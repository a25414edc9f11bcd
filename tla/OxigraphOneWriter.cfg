SPECIFICATION Spec
CONSTANTS
    NodeId <- MCNodeId
    CatalogId = {1}
    Content = {"old", "new"}
    None = None
    Client <- CrawlerAndReaderClients
    MayRequest <- OneWriter
    StorageErrors = TRUE
    crawler = crawler
    reader = reader
    n1 = n1
    n2 = n2
INVARIANTS
    TypeOK
    OneTriplePerGraph
    NothingStale
    SteadyNodesReported
