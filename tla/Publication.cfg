SPECIFICATION Spec
CONSTANTS
  Operations = {o1, o2}
  Taps = {1}
  Sources = {a, b}
  NoOne = NoOne
  Unset = Unset
  Lifetime = 2
  Refresh = 1
  MaxTime = 3
  MaxRuns = 3
  MaxFaults = 1
  MaxCrashes = 1
SYMMETRY Symmetry
INVARIANTS
  IssuedServable
  SequencesSound
CHECK_DEADLOCK FALSE
