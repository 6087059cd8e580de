SPECIFICATION FairSpec
CONSTANTS
    Ops = {o1, o2}
    MaxRev = 2
    MaxFaults = 2
    MaxMoves = 3
CONSTRAINT Budget
INVARIANTS BoundaryHasBarrier ReportIsTrue
PROPERTIES NothingReverts HeldIsReleased
