SPECIFICATION Spec
CONSTANTS
    NodeId <- MCNodeId
    CatalogId = {1}
    Content <- MCContent
    None = None
    Handler <- MCHandler
    Crawler = Crawler
    Fetched <- MCFetched
    DatasetId = {"d1", "d2"}
    ServiceId = {"s1", "s2", "s3"}
    ConnectorId = "connector"
    Participant = {"P1"}
    Token = {"t1", "t2"}
    AuthConfigs <- MCAuthConfigs
    StorageErrors = FALSE
    n1 = n1
    n2 = n2
    h1 = h1
INVARIANT UnknownTokenSeesEmptyCatalog
