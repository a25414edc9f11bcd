SPECIFICATION FairSpec
CONSTANTS
    ParticipantId <- MCParticipantId
    Content = {"old", "new"}
    None = None
    Configs <- MCConfigs
    Silent = {}
    MaxTime = 3
    p1 = p1
    p2 = p2
INVARIANTS
    TypeOK
    SummaryComplete
    FailedCrawlKeepsCatalog
    CrawledCatalogCached
    ConfigErrorsUnreachable
    OneCyclePerPeriod
PROPERTIES
    EveryParticipantCrawled
