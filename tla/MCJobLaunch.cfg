CONSTANTS
  Launchers = {l1, l2}
  MaxAttempt = 2
  Sources = {s1, s2}
  Instances = {i1, i2}
  None = None
SPECIFICATION Spec
SYMMETRY Symmetry
INVARIANTS JobsFollowIntent OneJobPerAttempt ReattachNeverRefused ReceiptsAreTrue SuccessIsDurable
