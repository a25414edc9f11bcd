SPECIFICATION FairSpec
CONSTANTS
    ParticipantId <- MCParticipantId
    Content = {"old", "new"}
    None = None
    Configs <- TwoParticipants
    Silent <- OneSilent
    MaxTime = 2
    p1 = p1
    p2 = p2
PROPERTIES
    EveryParticipantCrawled
