SPECIFICATION Spec
CONSTANTS
  Questions <- MCQuestions
  Format <- MCFormat
  Evidence <- MCEvidence
  Plans <- MCPlans
  Wanted = {0, 4, 9}
  Artifacts <- MCArtifacts
  HourlyCeiling = 10
  MaximumTotal = 50
  PendingLimit = 2
  HourLimit = 3
  UploadLimit = 1
  PollTime = 2
  SafetyMargin = 3
  MaxCommands = 3
  MaxJobs = 2
INVARIANTS PrefixHasOneWriter LiveJobIsOnRecord MonitorSeesTheEnd GateIsExact
CHECK_DEADLOCK FALSE
