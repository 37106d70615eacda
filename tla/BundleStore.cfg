CONSTANTS
  a1 = a1
  a2 = a2
  a3 = a3
  d1 = d1
  d2 = d2
  Attempts = {a1, a2, a3}
  Contents = {d1, d2}
  ContentOf <- Twins
  None = None
  MaxFaults = 2
CHECK_DEADLOCK FALSE
SPECIFICATION Spec
INVARIANTS TypeOK LostOnlyToTwin NoOrphanWithoutFault
