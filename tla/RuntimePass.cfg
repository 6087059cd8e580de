SPECIFICATION PassSpec
CONSTANTS
    MaxAttempts = 2
    MaxRebuilds = 1
    MaxDelay = 1
    MaxWindow = 5
    Deadlines = {3, 5, 20}
    PostTimes = {2}
    MaxRev = 2
    MaxGen = 1
    MaxSeq = 2
    MaxFaults = 1
    MaxLeases = 1
    Server = "node"
    None = None
    Plans <- MCPlans
INVARIANTS CreatedOnce
PROPERTIES AcknowledgedWasReceived BlockLifts PassConverges
