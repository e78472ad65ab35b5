CONSTANTS
  Launchers = {l1}
  MaxAttempt = 2
  Sources = {s1}
  Instances = {i1, i2}
  None = None
  N = 2
  Manifests = {m1}
  Generations = {g1, g2}
SPECIFICATION PipelineSpec
INVARIANTS OneActiveJob WorkIsPaidOnce
PROPERTIES LaunchersEnd ImplementsLaunch
