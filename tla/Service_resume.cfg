SPECIFICATION Spec
CONSTANTS
  Ids = {a, b}
  Goroutines = {g1, g2}
  NoJob = NoJob
  MaxConcurrent = 1
  MaxPending = 1
  MaxStored = 2
  MaxFaults = 0
  MaxStops = 1
INVARIANT
  RestartAccepted
