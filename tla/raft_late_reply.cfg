SPECIFICATION OvertakenSpec
CONSTANTS
  s1 = s1
  s2 = s2
  s3 = s3
  Server = {s1, s2, s3}
  Nil = Nil
  Command = {c1}
  Bootstrap <- AllVoters
  ConfTargets = {}
  LearnerTargets = {}
  CatchUpMargin = 0
  LateReplies = TRUE
  Redelivery = TRUE
  MayCampaign = {}
  MaxIndex = 3
  MaxHeartbeats = 1
  MaxRounds = 3
  MaxRestarts = 0
  MaxCompactions = 0
  MaxReads = 1
  MaxWrites = 2
  MaxConfChanges = 0
VIEW LiveView
INVARIANTS ReadIndexFresh
