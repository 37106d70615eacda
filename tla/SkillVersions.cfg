CONSTANTS
  Attempts = {a1, a2}
  c1 = c1
  c2 = c2
  Credentials = {c1, c2}
  None = None
  Policies <- Switched
  Bumps = {"patch", "major"}
  MaxRevision = 3
  MaxDay = 1
CHECK_DEADLOCK FALSE
SPECIFICATION Spec
SYMMETRY Symmetry
INVARIANTS TypeOK ReleaseLine ReservationsHeld DecisionsStand CredentialWithinLimit
PROPERTIES KeepsHistory
