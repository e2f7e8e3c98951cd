---------------------------- MODULE MCScheduler ----------------------------
(***************************************************************************)
(* Instances of Scheduler for TLC: up to three calls of one tenant, two    *)
(* workers, one of which may die.  What may go wrong differs between the   *)
(* initial states: a counter of `spent` at its bound leaves nothing.       *)
(***************************************************************************)
EXTENDS SchedulerSafety

CONSTANTS t1, w1, w2, a1, a2

MCWeight == [t \in Tenant |-> 1]
MCTenantOf == [j \in Job |-> t1]
MCActionOf == [j \in Job |-> IF j = 3 THEN a2 ELSE a1]
MCSatisfies == [j \in Job |-> IF j = 3 THEN {w2} ELSE Worker]

\* The workers of ws are attached; the calls of js have not been made yet and the
\* others were answered from the cache.
Attached(ws, js, used) ==
    /\ registry = [w \in Worker |-> IF w \in ws THEN "live" ELSE "absent"]
    /\ session = [w \in Worker |-> IF w \in ws THEN "open" ELSE "new"]
    /\ beating = ws /\ channel = ws /\ connected = ws
    /\ inbox = [w \in Worker |-> <<>>]
    /\ pending = EmptyQueue
    /\ leases = [j \in Job |-> NoLease]
    /\ inflight = [t \in Tenant |-> 0]
    /\ waiters = {} /\ cache = {} /\ locality = {} /\ history = <<>>
    /\ reply = [j \in Job |-> "none"]
    /\ call = [j \in Job |-> IF j \in js THEN "new" ELSE "returned"]
    /\ result = [j \in Job |-> IF j \in js THEN "none" ELSE "hit"]
    /\ doing = [a \in Actor |-> Idle]
    /\ spent = used

Nothing == [stalls |-> MaxStalls, timeouts |-> MaxTimeouts, lapses |-> MaxLapses,
            breaks |-> MaxBreaks]

OneJob == Attached(Worker, {1}, [Nothing EXCEPT !.timeouts = 0, !.lapses = 0, !.breaks = 0])
TwoJobs == \/ Attached(Worker, {1, 2}, [Nothing EXCEPT !.timeouts = 0])
           \/ Attached(Worker, {1, 2}, [Nothing EXCEPT !.lapses = 0])
Joining == Attached({}, {1}, [Nothing EXCEPT !.stalls = 0])
Crowd == Attached({w2}, Job, Nothing)

MCSchedulerSpec == (OneJob \/ TwoJobs \/ Joining \/ Crowd) /\ [][Next]_vars /\ Fairness

\* One worker, two calls, and leases that run out.
Overdue == Attached({w2}, {1, 2}, [Nothing EXCEPT !.lapses = 0])
OverdueSpec == Overdue /\ [][Next]_vars
=============================================================================
