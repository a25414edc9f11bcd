SPECIFICATION Spec
CONSTANTS
    NodeId <- MCNodeId
    CatalogId = {1}
    Content = {"old", "new"}
    None = None
    Client <- CrawlerAndReaderClients
    MayRequest <- CrawlerAndReader
    StorageErrors = FALSE
    crawler = crawler
    reader = reader
    n1 = n1
    n2 = n2
PROPERTIES
    CachedNodeFound
