SPECIFICATION FairSpec
CONSTANTS
    o1 = o1
    o2 = o2
    Ops <- TwoOps
    None = None
    Operator = Operator
    MaxRev = 2
    MaxFaults = 2
    MaxMoves = 2
INVARIANTS FreezeIsFenced
PROPERTIES TornReadRefused FreezeIsResolved
