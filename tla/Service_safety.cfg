SPECIFICATION Spec
CONSTANTS
  Ids = {a, b, c, d}
  Goroutines = {g1, g2, g3}
  NoJob = NoJob
  MaxConcurrent = 2
  MaxPending = 3
  MaxStored = 3
  MaxFaults = 1
  MaxStops = 2
SYMMETRY Symmetry
INVARIANTS
  SchedulerSound
  StoreSound
PROPERTIES
  EvictionSpares
  LifecycleSpec
