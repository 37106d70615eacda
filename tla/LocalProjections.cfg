SPECIFICATION Spec
CONSTANTS
  a = a
  b = b
  path = path
  v1 = v1
  v2 = v2
  v3 = v3
  tool = tool
  P1 = P1
  P2 = P2
  Projects = {P1, P2}
  Plans <- MCPlans
  Ids = {a, b}
  Paths = {path}
  PathOf <- MCPathOf
  Versions = {v1, v2, v3}
  Envelope <- MCEnvelope
  Procs = {c1, c2}
  MaxGenerations = 3
  MaxMeddling = 1
  None = None
  Foreign = Foreign
SYMMETRY MCSymmetry
INVARIANTS TypeOK SwapsReconciled InstalledStays ReviewedBeforeUse UninstallCanFinish RecordsConsistent
PROPERTIES SharedStays

