SPECIFICATION Spec
CONSTANTS
    Setups = {s1}
    Images = {1, 2}
    Default = 1
    MaxGen = 2
    MaxMoves = 2
    MaxFaults = 2
PROPERTIES DeletedIsGone BoxNeverLost SetupEndsOnce Converges
