-------------------------- MODULE SchedulerSafety --------------------------
(***************************************************************************)
(* What the scheduler of Scheduler.tla promises its callers, its tenants   *)
(* and its workers.                                                        *)
(***************************************************************************)
EXTENDS Scheduler

Queued(j) == \E k \in DOMAIN pending.entries : pending.entries[k].job.id = j

\* Some actor has the job in its hands between two locks.
InHand(j) ==
    \E a \in Actor : \/ doing[a].do \in {"send", "answer"} /\ doing[a].job = j
                     \/ doing[a].do = "fail" /\ j \in doing[a].jobs

Quiet == \A a \in Actor : doing[a] = Idle

\* A tenant's count is the number of its calls between admission and return,
\* however they end, and never exceeds the quota (execute: check, increment and
\* push under one lock; dec_tenant on every path).
QuotaIsExact ==
    \A t \in Tenant :
        /\ inflight[t] = Cardinality({j \in Job : /\ TenantOf[j] = t
                                                  /\ call[j] \in {"waiting", "cleaning", "leaving"}})
        /\ inflight[t] <= Quota

\* A worker is leased one job at a time, whichever actor places it
\* (try_dispatch: the busy check and the insert under one lock).
OneLeasePerWorker ==
    \A i, j \in Leased(leases) : leases[i].worker = leases[j].worker => i = j

\* A call that waits is not forgotten: its job is queued, leased or in the hands
\* of an actor, through disconnects, failed sends, expired leases and late
\* reports (requeue_taken, try_dispatch, report).
JobIsKept ==
    \A j \in waiters : call[j] = "waiting" =>
        Queued(j) \/ leases[j] # NoLease \/ InHand(j)

\* A lease on a worker that is not connected any more is one its stream pump has
\* still to take back (disconnect_worker after a failed send).
LeaseIsTakenBack ==
    \A j \in Leased(leases) :
        leases[j].worker \in connected \/ session[leases[j].worker] \in {"open", "broken"}

\* try_dispatch runs after every change that can let a queued job be placed: when
\* no actor is at work, no queued job has an idle, eligible, connected worker.
QueueIsDrained == Quiet => Placeable = {}

\* The crash-recovery promise: a call that waits is answered although workers
\* die and leases expire, as long as no heartbeat is late, no call times out and
\* no job is given up.
Disturbed == \/ \E w \in connected : registry[w] # "live"
             \/ \E j \in Job : call[j] = "cleaning" \/ result[j] = "timeout"
             \/ \E j \in Job : reply[j] = "dropped"

CallsAreAnswered ==
    \A j \in Job : call[j] = "waiting" ~> (reply[j] # "none" \/ Disturbed)
=============================================================================
