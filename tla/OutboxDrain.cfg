CONSTANTS
  Workspaces = {w1}
  Skills = {s1}
  Regions = {r1, r2}
  Drainers = {d1, d2}
  None = None
  FirstRegion = r1
  MaxVersion = 2
  MaxEvents = 5
  MovedEvents = 3
  MaxEpoch = 5
  MaxFaults = 1
CHECK_DEADLOCK FALSE
SPECIFICATION MCSpec
SYMMETRY Symmetry
INVARIANTS TypeOK DrainedMeansCurrent CurrentVersionVisible AckedMeansApplied CountedOnce OnlyHomeAdmits
PROPERTIES DeliversInOrder StaleCellSilent
