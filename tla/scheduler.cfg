SPECIFICATION MCSchedulerSpec
CONSTANTS
  t1 = t1
  w1 = w1
  w2 = w2
  a1 = a1
  a2 = a2
  Tenant = {t1}
  Cost = 1
  Weight <- MCWeight
  Job = {1, 2, 3}
  TenantOf <- MCTenantOf
  ActionOf <- MCActionOf
  Worker = {w1, w2}
  Satisfies <- MCSatisfies
  Reaper = Reaper
  NoLease = NoLease
  MaxAttempts = 2
  Quota = 2
  HistoryCapacity = 1
  Mortal = {w1}
  MaxBreaks = 1
  MaxStalls = 1
  MaxTimeouts = 1
  MaxLapses = 1
  Outcomes = {"zero"}
  Faulty = {3}
CHECK_DEADLOCK FALSE
INVARIANTS QuotaIsExact OneLeasePerWorker JobIsKept LeaseIsTakenBack
PROPERTIES CallsAreAnswered
