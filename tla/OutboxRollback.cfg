CONSTANTS
  Workspaces = {w1}
  Skills = {s1}
  Regions = {r1, r2}
  Drainers = {d1}
  None = None
  FirstRegion = r1
  MaxVersion = 1
  MaxEvents = 2
  MovedEvents = 2
  MaxEpoch = 3
  MaxFaults = 0
CHECK_DEADLOCK FALSE
SPECIFICATION FairSpec
PROPERTIES EveryEventSettles
