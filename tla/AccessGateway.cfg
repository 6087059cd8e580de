SPECIFICATION AccessSpec
CONSTANTS
    Grants = {g1}
    Conns = {c1}
    MaxAccessMoves = 3
    MaxAccessFaults = 1
PROPERTIES CutBeforeRevoked RevokedIsCut
