CONSTANTS
  Workspaces = {w1, w2}
  Skills = {s1}
  Regions = {r1}
  Drainers = {d1, d2}
  None = None
  FirstRegion = r1
  MaxVersion = 1
  MaxEvents = 2
  MovedEvents = 2
  MaxEpoch = 1
  MaxFaults = 4
CHECK_DEADLOCK FALSE
SPECIFICATION MCFairSpec
PROPERTIES EveryEventSettles
