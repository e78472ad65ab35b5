CONSTANTS
  Runs = {r1, r2, r3}
  N = 2
  Manifests = {m1, m2}
  Generations = {g1, g2}
  None = None
  MaxCrashes = 1
SPECIFICATION FairSpec
INVARIANTS PublishedIsDurable AcceptedIsDurable
PROPERTIES InferenceCompletes
CHECK_DEADLOCK FALSE
