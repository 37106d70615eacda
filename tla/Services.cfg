SPECIFICATION Spec
CONSTANTS
  w1 = w1
  w2 = w2
  d1 = d1
  d2 = d2
  pathP = pathP
  pathQ = pathQ
  skillP = skillP
  skillQ = skillQ
  r1 = r1
  r2 = r2
  r3 = r3
  own = own
  far = far
  deprecateFar = deprecateFar
  revokeFar = revokeFar
  revokeOwn = revokeOwn
  A = A
  Paths = {pathP, pathQ}
  Skills = {skillP, skillQ}
  SlugOf <- MCSlugOf
  Digests = {d1, d2}
  Commits <- MCCommits
  Runs = {r1, r2, r3}
  Workers = {w1, w2}
  MaxBindings = 2
  MaxVersions = 4
  MaxRevision = 4
  MaxInterventions = 2
  Missing = Missing
  Invalid = Invalid
  None = None
  Events = {event}
  Accounts = {login}
  Uploaders = {w1, w2}
  BatchLimit = 1
  MaxCalls = 3
  Lock = {own, far}
  Own = {own}
  Orders = {deprecateFar, revokeFar, revokeOwn}
  OrderOf <- MCOrderOf
  Setters = {w1, w2}
  Resolvers = {reader}
  Editors = {w1, w2}
  Milli = 2
  MaxClock = 2
  MaxEdits = 2
  Regions = {A, B}
  MaxRuns = 3
  MaxDrills = 3
  MaxFaults = 2
  MaxWrites = 1
  AuditEvents = {d1, d2}
  Jobs = {w1, w2}
  DayLength = 2
  Retained = 2
  Late = 1
  BatchSize = 1
  MaxTime = 5
  MaxCommands = 3
  MaxFences = 2
SYMMETRY MCSymmetry
CHECK_DEADLOCK FALSE
INVARIANTS TypeOK NoDuplicateCandidates BindingHonest LastClaimShows CompleteMeansEvery UsageCountedOnce RevokedStaysOut MovesHonest HistorySurvives
PROPERTIES ResultsStand NothingOverwritten KeepsMoves
