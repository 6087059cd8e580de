SPECIFICATION ManagerSpec
CONSTANTS
    None = None
    MaxFindingRev = 2
    MaxBatches = 2
    MaxPolicy = 3
    MaxManagerFaults = 2
INVARIANTS DoneOnce ToldIsTrue
PROPERTIES RunsSettle
