SPECIFICATION FairSpec
CONSTANTS
    Keys = {k1}
    NumCpus = 2
    Cap = 2
    Alpha = 1
    Den = 2
    Unit = 2
    MaxSegments = 3
    None = None
INVARIANTS WindowIsADifference LossIsARate
PROPERTIES EvidenceExpires
