SPECIFICATION FairSpec
CONSTANTS
    o1 = o1
    o2 = o2
    o3 = o3
    w1 = w1
    w2 = w2
    None = None
    Ops <- ThreeOps
    Works = {w1, w2}
    WorkOf <- TwoWorks
    Size <- Sizes
    MaxBytes = 3
    MaxPerBox = 2
    MaxAge = 1
    Grace = 1
    Limit = 2
    MaxTime = 4
    MaxFaults = 2
INVARIANTS CollectionIsSafe PolicyIsKept
PROPERTIES DeletionResumes
