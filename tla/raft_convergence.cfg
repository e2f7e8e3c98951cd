SPECIFICATION DivergedSpec
CONSTANTS
  s1 = s1
  s2 = s2
  s3 = s3
  Server = {s1, s2, s3}
  Nil = Nil
  Command = {c1}
  Bootstrap <- AllVoters
  ConfTargets = {}
  LearnerTargets = {}
  CatchUpMargin = 0
  LateReplies = TRUE
  Redelivery = FALSE
  MayCampaign = {}
  MaxIndex = 2
  MaxHeartbeats = Nil
  MaxRounds = 0
  MaxRestarts = 0
  MaxCompactions = 1
  MaxReads = 0
  MaxWrites = 0
  MaxConfChanges = 0
PROPERTIES Converges
