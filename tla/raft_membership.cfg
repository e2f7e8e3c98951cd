SPECIFICATION MembershipSpec
CONSTANTS
  s1 = s1
  s2 = s2
  s3 = s3
  Server = {s1, s2, s3}
  Nil = Nil
  Command = {c1}
  Bootstrap <- AllVoters
  ConfTargets = {{s1, s2}}
  LearnerTargets = {s2}
  CatchUpMargin = 0
  LateReplies = TRUE
  Redelivery = FALSE
  MayCampaign <- Campaigns
  MaxIndex = 9
  MaxHeartbeats = 1
  MaxRounds = 9
  MaxRestarts = 2
  MaxCompactions = 0
  MaxReads = 1
  MaxWrites = 1
  MaxConfChanges = 2
VIEW LiveView
INVARIANTS ElectionSafety ConfigsSurviveRestart
PROPERTIES HardStateMonotone 
CHECK_DEADLOCK FALSE
