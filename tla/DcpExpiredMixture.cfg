SPECIFICATION Spec
CONSTANTS
    Holder <- MCHolder
    Verifier = Verifier
    Dataset = {"CAT1", "CAT2"}
    None = None
    Confs <- ExpiredAndUnfit
    Life = 2
    MaxTime = 4
    MaxKey = 3
    h1 = h1
INVARIANT AllExpiredMeansAll
