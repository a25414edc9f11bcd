SPECIFICATION FairSpec
CONSTANTS
    a = a
    b = b
    e1 = e1
    e2 = e2
    SampleNode = SampleNode
    Absent = Absent
    NotAString = NotAString
    None = None
    NoText = ""
    Id <- MCId
    Url <- MCUrl
    Broker = {a, b}
    Edge = {e1, e2}
    Sample <- MCSample
    Networks <- MCNetworks
    MaxDepth = 2
    MaxFaults = 1
    MaxCrashes = 2
INVARIANTS
    TypeOK
    EveryDatasetKept
    FirstServiceWins
    NothingInvented
    ReferencesResolve
    SampleServedWhole
    CrawledWithinAccess
PROPERTIES
    ParticipantsCrawled
    WithdrawnGoes
