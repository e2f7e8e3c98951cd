SPECIFICATION MCDriverSpec
CONSTANTS
  s1 = s1
  s2 = s2
  s3 = s3
  Server = {s1, s2, s3}
  Nil = Nil
  Command <- KvCommands
  Bootstrap <- AllVoters
  ConfTargets = {}
  LearnerTargets = {}
  CatchUpMargin = 0
  LateReplies = FALSE
  Redelivery = FALSE
  MayCampaign = {}
  MaxIndex = 9
  MaxHeartbeats = 1
  MaxRounds = 3
  MaxRestarts = 1
  MaxCompactions = 9
  MaxReads = 1
  MaxWrites = 2
  MaxConfChanges = 0
  k1 = k1
  v1 = v1
  SnapshotThreshold = 1
VIEW DriverView
INVARIANTS MachineIsLog WritesAnsweredTruly NoWriteForgotten ReadsSeeEarlierWrites
CHECK_DEADLOCK FALSE
