SPECIFICATION Spec
CONSTANTS
    NodeId <- MCNodeId
    CatalogId = {1, 2}
    Content = {"old", "new"}
    None = None
    Client <- SequentialClients
    MayRequest <- Sequential
    StorageErrors = TRUE
    crawler = crawler
    reader = reader
    n1 = n1
    n2 = n2
INVARIANTS
    LastWriteKept
