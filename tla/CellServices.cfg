SPECIFICATION CellSpec
CONSTANTS
  None = None
  Formats = {2, 3}
  MaxRev = 3
  MaxGrants = 2
  MaxReceipts = 2
  MaxModes = 1
  RefreshMax = 1
  MaxCellFaults = 2
INVARIANTS ToldIsTrue
PROPERTIES NothingIsTakenBack RetiredIsAnswered
