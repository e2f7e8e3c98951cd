SPECIFICATION UnappliedReadSpec
CONSTANTS
  s1 = s1
  s2 = s2
  s3 = s3
  Server = {s1, s2, s3}
  Nil = Nil
  Command <- Puts
  Bootstrap <- AllVoters
  ConfTargets = {}
  LearnerTargets = {}
  CatchUpMargin = 0
  LateReplies = TRUE
  Redelivery = FALSE
  MayCampaign = {}
  MaxIndex = 2
  MaxHeartbeats = 1
  MaxRounds = 0
  MaxRestarts = 0
  MaxCompactions = 9
  MaxReads = 0
  MaxWrites = 1
  MaxConfChanges = 0
  k1 = k1
  v1 = v1
  SnapshotThreshold = 1
VIEW DriverView
INVARIANTS NoReadForgotten
CHECK_DEADLOCK FALSE
