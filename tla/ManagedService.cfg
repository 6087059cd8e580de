SPECIFICATION Spec
CONSTANTS
  None = None
  MaxRev = 3
  MaxGen = 2
  MaxPolicy = 2
  MaxTasks = 1
  MaxFaults = 1
INVARIANTS OneSessionPerGeneration AcknowledgedStopIsDown
PROPERTIES IntentIsAnswered
