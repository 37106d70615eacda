CONSTANTS
  Requests = {q1, q2, q3}
  Keys = {k1}
  Hashes = {h1, h2}
  None = None
  Lease = 1
  MaxClock = 3
  MaxFaults = 2
CHECK_DEADLOCK FALSE
SPECIFICATION Spec
SYMMETRY Symmetry
INVARIANTS ReuseMeansOtherInput
