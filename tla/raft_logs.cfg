SPECIFICATION TwoLeadersSpec
CONSTANTS
  s1 = s1
  s2 = s2
  s3 = s3
  Server = {s1, s2, s3}
  Nil = Nil
  Command = {}
  Bootstrap <- AllVoters
  ConfTargets = {}
  LearnerTargets = {}
  CatchUpMargin = 0
  LateReplies = TRUE
  Redelivery = FALSE
  MayCampaign <- Comeback
  MaxIndex = 3
  MaxHeartbeats = 0
  MaxRounds = 0
  MaxRestarts = 0
  MaxCompactions = 1
  MaxReads = 0
  MaxWrites = 0
  MaxConfChanges = 0
VIEW LiveView
INVARIANTS LogMatching StateMachineSafety 
PROPERTIES ImplementsReplicatedLog
CHECK_DEADLOCK FALSE
