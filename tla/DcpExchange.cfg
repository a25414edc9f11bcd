SPECIFICATION Spec
CONSTANTS
    Holder <- MCHolder
    Verifier = Verifier
    Dataset = {"CAT1", "CAT2"}
    None = None
    Confs <- MCConfs
    Life = 2
    MaxTime = 4
    MaxKey = 3
    h1 = h1
INVARIANTS
    TypeOK
    AccessExact
    AllExpiredRefused
    EmptyGrantGenuine
    RefusalExplained
