SPECIFICATION PlanesSpec
CONSTANTS
  ta = ta
  tb = tb
  Tenant = {ta, tb}
  Cost = 2
  Weight <- MCWeight
  MaxQueued = 4
  MaxFinish = 8
  Workers = {1, 2, 3}
  Jobs <- MCJobs
  Cap = 2
  Window = 2
  MaxTracked = 2
  MaxPlacements = 3
  good = good
  other = other
  flaky = flaky
  slow = slow
  bad = bad
  Unreadable = Unreadable
  Files = {good, other, flaky, slow, bad}
  Defect <- MCDefect
  Endings <- MCEndings
  Threshold = 2
  MaxEdits = 2
  MaxDecisions = 4
  CNodes = {1, 2}
  Me = 1
  MaxTerm = 2
  Capacity = 1
  Ring = 2
  MaxChanges = 2
  MaxRounds = 2
  MaxSubscriptions = 1
  Flags <- MCFlags
  PortMax = 5
  MaxTurns = 5
  Planes = {1, 2, 3}
  Sessions <- MCSessions
  MAX_LEADER_HOPS = 3
  MaxFaults = 2
  MaxCalls = 2
  NoPort = NoPort
  CommandLines <- MCCommandLines
  JobsOffered <- MCJobsOffered
  OutputCap = 2
  MaxFailures = 5
  MaxSessions = 3
  MaxOutages = 3
  MaxLate = 1
  Runs <- MCRuns
  Trees <- MCTrees
  Shapes = {"empty", "dirty"}
  Spans <- MCSpans
  PerReply = 2
  DiskFills = TRUE
  MaxRequests = 2
INVARIANTS
  FairShare
  QuarantineHolds
  ClientsCatchUp
  ClientIsSound
  SessionsAreSound
  MountIsFaithful
PROPERTIES
  PlacementIsSound
  EditsTakeEffect
  
  
  
CHECK_DEADLOCK FALSE
