CONSTANTS
  pathP = pathP
  skillP = skillP
  Paths = {pathP}
  Skills = {skillP}
  SlugOf <- MCSlugOf
  Digests = {d1, d2}
  Commits <- MCCommits
  Runs = {r1, r2}
  Workers = {w1}
  MaxBindings = 1
  MaxVersions = 3
  MaxRevision = 3
  MaxInterventions = 0
  Missing = Missing
  Invalid = Invalid
  None = None
CHECK_DEADLOCK FALSE
SPECIFICATION GitSpec
INVARIANTS SiblingPlansRefused
