------------------------------ MODULE Scheduler ------------------------------
(***************************************************************************)
(* The scheduler of one control-plane node, with the sessions of the       *)
(* workers attached to it.                                                 *)
(*                                                                         *)
(* src/crates/brokkr-control/src: scheduler.rs, lease.rs, registry.rs,     *)
(* worker_service.rs, matching.rs, services/execution.rs; the client side  *)
(* of a session is src/crates/brokkr-worker/src/worker.rs.                 *)
(*                                                                         *)
(* An action is what happens between taking and releasing a lock.  Calls   *)
(* of execute, stream pumps and the lease reaper are the actors; each runs *)
(* try_dispatch as a loop of its own (`doing`), which reserves a worker    *)
(* under the lock and sends to it after releasing it.                      *)
(*                                                                         *)
(* A worker is one registration: worker.rs registers again, under a fresh  *)
(* id, in every session.  Deadlines are abstracted to whether they have    *)
(* passed.  Any Strategy may choose any candidate.                         *)
(***************************************************************************)
EXTENDS FairQueue, FiniteSets, SequencesExt

CONSTANTS Job,              \* calls of execute; the order of Job is that of the ids
          TenantOf,         \* the tenant of each call
          ActionOf,         \* the action of each call
          Worker,           \* registrations
          Satisfies,        \* the workers whose labels satisfy a job's platform
          Reaper,           \* the lease reaper, an actor
          NoLease,
          MaxAttempts,      \* MAX_ATTEMPTS
          Quota,            \* max_concurrent_per_tenant
          HistoryCapacity   \* of the ring of completed jobs

CONSTANTS Mortal,           \* workers whose session may break
          MaxBreaks,        \* sessions that break
          MaxStalls,        \* heartbeats that come too late
          MaxTimeouts,      \* calls that time out
          MaxLapses,        \* leases that run out
          Outcomes,         \* what a run may report
          Faulty            \* calls whose requests to the CAS and the action
                            \* cache may fail, or find this node not the leader

ASSUME SchedulerAssumption ==
    /\ Job \subseteq Nat /\ IsFiniteSet(Job)
    /\ TenantOf \in [Job -> Tenant]
    /\ Satisfies \in [Job -> SUBSET Worker]
    /\ MaxAttempts \in Nat \ {0}
    /\ Quota \in Nat \ {0} /\ HistoryCapacity \in Nat \ {0}
    /\ Outcomes \subseteq {"zero", "nonzero", "error"}
    /\ Mortal \subseteq Worker /\ Faulty \subseteq Job
    /\ Job \cap Worker = {}
    /\ Reaper \notin Job \cup Worker

VARIABLES
    registry,     \* WorkerRegistry: "absent", "live" or "stale", for each worker
    session,      \* the stream of each worker, seen from its pump
    beating,      \* workers whose heartbeat task runs
    channel,      \* workers whose job channel has a receiver
    inbox,        \* jobs a worker was sent and has not reported
    connected,    \* Inner::connected
    pending,      \* Inner::pending, a FairQueue of [id, attempts]
    leases,       \* Inner::leases
    inflight,     \* Inner::tenant_inflight
    waiters,      \* Scheduler::waiters
    reply,        \* the oneshot channel of each call
    call,         \* how far each call of execute has come
    result,       \* what each call returned
    locality,     \* Inner::locality, as the pairs it knows
    history,      \* Inner::job_history
    cache,        \* actions with a cached result
    doing,        \* what each actor does outside the locks
    spent         \* how much of each bound is used up

workerVars == <<registry, session, beating, channel, inbox>>
noted      == <<locality, history>>
lockedVars == <<connected, pending, leases, inflight, noted>>
callVars   == <<waiters, reply, call, result, cache>>
vars == <<workerVars, lockedVars, callVars, doing, spent>>

Actor == Job \cup Worker \cup {Reaper}

Idle == [do |-> "idle"]
Look == [do |-> "look"]
Sending(j, n, w) == [do |-> "send", job |-> j, attempts |-> n, to |-> w]
Failing(js, more) == [do |-> "fail", jobs |-> js, more |-> more]
Answering(j, r) == [do |-> "answer", job |-> j, result |-> r]

Init ==
    /\ registry = [w \in Worker |-> "absent"]
    /\ session = [w \in Worker |-> "new"]
    /\ beating = {} /\ channel = {} /\ connected = {}
    /\ inbox = [w \in Worker |-> <<>>]
    /\ pending = EmptyQueue
    /\ leases = [j \in Job |-> NoLease]
    /\ inflight = [t \in Tenant |-> 0]
    /\ waiters = {} /\ cache = {} /\ locality = {} /\ history = <<>>
    /\ reply = [j \in Job |-> "none"]
    /\ call = [j \in Job |-> "new"]
    /\ result = [j \in Job |-> "none"]
    /\ doing = [a \in Actor |-> Idle]
    /\ spent = [stalls |-> 0, timeouts |-> 0, lapses |-> 0, breaks |-> 0]

-----------------------------------------------------------------------------
(* The lease table. *)

Leased(ls) == {j \in Job : ls[j] # NoLease}
LeasedTo(ls, w) == {j \in Leased(ls) : ls[j].worker = w}

\* Mutants: a worker is never busy; the leases of a worker are left alone.
NeverBusy(ls, w) == FALSE
TakeNothing(ls, w) == {}

IsWorkerBusy(ls, w) == LeasedTo(ls, w) # {}
TakeWorker(ls, w) == LeasedTo(ls, w)
Insert(ls, j, n, w) == [ls EXCEPT ![j] = [worker |-> w, attempts |-> n, due |-> FALSE]]
Drain(ls, js) == [j \in Job |-> IF j \in js THEN NoLease ELSE ls[j]]
Complete(ls, j) == Drain(ls, {j})
Expired(ls) == {j \in Leased(ls) : ls[j].due}
RenewWorker(ls, w) ==
    [j \in Job |-> IF j \in LeasedTo(ls, w) THEN [ls[j] EXCEPT !.due = FALSE] ELSE ls[j]]

PushJob(q, j, n) == Push(q, TenantOf[j], [id |-> j, attempts |-> n])

\* Mutant: a taken job is not queued again.
RequeueNone(q, ls, js) == q

\* requeue_taken: the jobs go back in the order of their ids, each with one
\* more attempt, except those that have used up their attempts.
GivenUp(ls, js) == {j \in js : ls[j].attempts + 1 >= MaxAttempts}
Requeued(ls, js) == js \ GivenUp(ls, js)
Requeue(q, ls, js) ==
    FoldLeft(LAMBDA r, j : PushJob(r, j, ls[j].attempts + 1), q,
             SetToSortSeq(Requeued(ls, js), <))

-----------------------------------------------------------------------------
(* Worker sessions: the registry, heartbeats and streams. *)

Register(w) ==
    /\ session[w] = "new"
    /\ session' = [session EXCEPT ![w] = "registered"]
    /\ registry' = [registry EXCEPT ![w] = "live"]
    /\ beating' = beating \cup {w}
    /\ UNCHANGED <<channel, inbox, lockedVars, callVars, doing, spent>>

\* The heartbeat deadline of a record passes, because its worker is gone or
\* because its heartbeats are held up (a stall).
HeartbeatLate(w) ==
    /\ registry[w] = "live"
    /\ registry' = [registry EXCEPT ![w] = "stale"]
    /\ \/ w \notin beating /\ UNCHANGED spent
       \/ /\ w \in beating /\ spent.stalls < MaxStalls
          /\ spent' = [spent EXCEPT !.stalls = @ + 1]
    /\ UNCHANGED <<session, beating, channel, inbox, lockedVars, callVars, doing>>

\* A known worker is live again and its leases are renewed.  An evicted one is
\* told so and ends its heartbeat task, and nothing else.
RecordHeartbeat(w) ==
    /\ w \in beating
    /\ \/ /\ registry[w] # "absent"
          /\ registry' = [registry EXCEPT ![w] = "live"]
          /\ leases' = RenewWorker(leases, w)
          /\ UNCHANGED beating
       \/ /\ registry[w] = "absent"
          /\ beating' = beating \ {w}
          /\ UNCHANGED <<registry, leases>>
    /\ UNCHANGED <<noted, session, channel, inbox, connected, pending, inflight,
                   callVars, doing, spent>>

EvictStale ==
    /\ \E w \in Worker : registry[w] = "stale"
    /\ registry' = [w \in Worker |-> IF registry[w] = "stale" THEN "absent"
                                     ELSE registry[w]]
    /\ UNCHANGED <<session, beating, channel, inbox, lockedVars, callVars, doing, spent>>

\* Hello: the outbound pump is started and connect_worker called.
ConnectWorker(w) ==
    /\ session[w] = "registered"
    /\ session' = [session EXCEPT ![w] = "open"]
    /\ channel' = channel \cup {w}
    /\ connected' = connected \cup {w}
    /\ doing' = [doing EXCEPT ![w] = Look]
    /\ UNCHANGED <<noted, registry, beating, inbox, pending, leases, inflight, callVars, spent>>

\* The stream breaks.  What the worker was running is lost with it; its
\* heartbeat task is left running unless the process died as well.
SessionBreaks(w) ==
    /\ w \in Mortal
    /\ spent.breaks < MaxBreaks
    /\ spent' = [spent EXCEPT !.breaks = @ + 1]
    /\ session[w] \in {"registered", "open"}
    /\ session' = [session EXCEPT ![w] = IF @ = "open" THEN "broken" ELSE "gone"]
    /\ \E left \in {{}, {w} \cap beating} : beating' = (beating \ {w}) \cup left
    /\ UNCHANGED <<registry, channel, inbox, lockedVars, callVars, doing>>

\* The outbound pump finds the stream closed when it forwards a job.
OutboundEnds(w) ==
    /\ session[w] \in {"broken", "closing"}
    /\ w \in channel
    /\ inbox[w] # <<>>
    /\ channel' = channel \ {w}
    /\ UNCHANGED <<registry, session, beating, inbox, lockedVars, callVars, doing, spent>>

\* The pump sees the end of the stream: disconnect_worker, up to fail_jobs.
DisconnectWorker(w) ==
    LET held == TakeWorker(leases, w)
    IN  /\ session[w] = "broken"
        /\ doing[w] = Idle
        /\ session' = [session EXCEPT ![w] = "closing"]
        /\ connected' = connected \ {w}
        /\ leases' = Drain(leases, held)
        /\ pending' = Requeue(pending, leases, held)
        /\ doing' = [doing EXCEPT ![w] = Failing(GivenUp(leases, held), TRUE)]
        /\ UNCHANGED <<noted, registry, beating, channel, inbox, inflight, callVars, spent>>

StreamEnds(w) ==
    /\ session[w] = "closing"
    /\ doing[w] = Idle
    /\ session' = [session EXCEPT ![w] = "gone"]
    /\ channel' = channel \ {w}
    /\ inbox' = [inbox EXCEPT ![w] = <<>>]
    /\ UNCHANGED <<registry, beating, lockedVars, callVars, doing, spent>>

-----------------------------------------------------------------------------
(* try_dispatch, the loop every actor runs. *)

EligibleWorkers(j) == {w \in Satisfies[j] : registry[w] = "live"}

Candidates(j) ==
    {w \in EligibleWorkers(j) : w \in connected /\ ~IsWorkerBusy(leases, w)}

Placeable == {k \in DOMAIN pending.entries : Candidates(pending.entries[k].job.id) # {}}

Dispatch(a) ==
    /\ doing[a] = Look
    /\ Placeable # {}
    /\ LET k == LowestStart(pending, Placeable)
           p == pending.entries[k].job
       IN  \E w \in Candidates(p.id) :
             /\ pending' = Take(pending, k)
             /\ leases' = Insert(leases, p.id, p.attempts, w)
             /\ doing' = [doing EXCEPT ![a] = Sending(p.id, p.attempts, w)]
    /\ UNCHANGED <<noted, workerVars, connected, inflight, callVars, spent>>

NothingToDispatch(a) ==
    /\ doing[a] = Look
    /\ Placeable = {}
    /\ doing' = [doing EXCEPT ![a] = Idle]
    /\ UNCHANGED <<workerVars, lockedVars, callVars, spent>>

SendJob(a) ==
    /\ doing[a].do = "send"
    /\ doing[a].to \in channel
    /\ inbox' = [inbox EXCEPT ![doing[a].to] = Append(@, doing[a].job)]
    /\ doing' = [doing EXCEPT ![a] = Look]
    /\ UNCHANGED <<registry, session, beating, channel, lockedVars, callVars, spent>>

\* The receiver is gone: the job is released and queued again, unless this was
\* its last attempt.
SendFails(a) ==
    LET j == doing[a].job
        n == doing[a].attempts + 1
    IN  /\ doing[a].do = "send"
        /\ doing[a].to \notin channel
        /\ leases' = Complete(leases, j)
        /\ connected' = connected \ {doing[a].to}
        /\ \/ /\ n < MaxAttempts
              /\ pending' = PushJob(pending, j, n)
              /\ doing' = [doing EXCEPT ![a] = Look]
           \/ /\ n >= MaxAttempts
              /\ doing' = [doing EXCEPT ![a] = Failing({j}, TRUE)]
              /\ UNCHANGED pending
        /\ UNCHANGED <<noted, workerVars, inflight, callVars, spent>>

\* fail_jobs: the waiters are dropped, so that their calls fail.
FailJobs(a) ==
    /\ doing[a].do = "fail"
    /\ waiters' = waiters \ doing[a].jobs
    /\ reply' = [j \in Job |-> IF j \in waiters \cap doing[a].jobs THEN "dropped" ELSE reply[j]]
    /\ doing' = [doing EXCEPT ![a] = IF doing[a].more THEN Look ELSE Idle]
    /\ UNCHANGED <<workerVars, lockedVars, call, result, cache, spent>>

LeaseRunsOut(j) ==
    /\ j \in Leased(leases)
    /\ ~leases[j].due
    /\ spent.lapses < MaxLapses
    /\ leases' = [leases EXCEPT ![j].due = TRUE]
    /\ spent' = [spent EXCEPT !.lapses = @ + 1]
    /\ UNCHANGED <<noted, workerVars, connected, pending, inflight, callVars, doing>>

ReapExpired ==
    LET js == Expired(leases)
    IN  /\ doing[Reaper] = Idle
        /\ js # {}
        /\ leases' = Drain(leases, js)
        /\ pending' = Requeue(pending, leases, js)
        /\ doing' = [doing EXCEPT ![Reaper] =
                       Failing(GivenUp(leases, js), Requeued(leases, js) # {})]
        /\ UNCHANGED <<noted, workerVars, connected, inflight, callVars, spent>>

-----------------------------------------------------------------------------
(* Results: a worker runs its jobs one by one, and report takes the lease of *)
(* the job off the table whoever holds it.                                   *)

JobSummary(j, w, r) ==
    [job |-> j, worker |-> w, state |-> IF r = "zero" THEN "succeeded" ELSE "failed"]

\* JobHistory::record, a ring that drops its oldest entry.
Record(ring, s) ==
    Append(IF Len(ring) = HistoryCapacity THEN Tail(ring) ELSE ring, s)

Report(w) ==
    LET j == Head(inbox[w])
    IN  /\ session[w] = "open"
        /\ inbox[w] # <<>>
        /\ doing[w] = Idle
        /\ inbox' = [inbox EXCEPT ![w] = Tail(@)]
        /\ leases' = Complete(leases, j)
        /\ \/ /\ leases[j] = NoLease
              /\ UNCHANGED <<doing, locality, history>>
           \/ /\ leases[j] # NoLease
              /\ locality' = locality \cup {<<leases[j].worker, ActionOf[j]>>}
              /\ \E r \in Outcomes :
                   /\ history' = Record(history, JobSummary(j, leases[j].worker, r))
                   /\ doing' = [doing EXCEPT ![w] = Answering(j, r)]
        /\ UNCHANGED <<registry, session, beating, channel, connected, pending,
                       inflight, callVars, spent>>

\* Mutant: the worker that has become idle is not offered anything.
AfterAnswerIdle == Idle

AfterAnswer == Look

Answer(w) ==
    LET j == doing[w].job
    IN  /\ doing[w].do = "answer"
        /\ waiters' = waiters \ {j}
        /\ reply' = [reply EXCEPT ![j] = IF j \in waiters THEN doing[w].result ELSE @]
        /\ doing' = [doing EXCEPT ![w] = AfterAnswer]
        /\ UNCHANGED <<workerVars, lockedVars, call, result, cache, spent>>

-----------------------------------------------------------------------------
(* execute. *)

Return(j, r) ==
    /\ call' = [call EXCEPT ![j] = "returned"]
    /\ result' = [result EXCEPT ![j] = r]

\* The cache answers; or the lookup or the fetch of the action fails; or the
\* cache misses, or this node cannot ask it, and then a live worker must
\* satisfy the platform before a waiter is registered.
StartExecute(j) ==
    /\ call[j] = "new"
    /\ \/ /\ ActionOf[j] \in cache
          /\ Return(j, "hit")
          /\ UNCHANGED waiters
       \/ /\ j \in Faulty
          /\ Return(j, "failed")
          /\ UNCHANGED waiters
       \/ /\ ActionOf[j] \in cache => j \in Faulty
          /\ EligibleWorkers(j) = {}
          /\ Return(j, "no_worker")
          /\ UNCHANGED waiters
       \/ /\ ActionOf[j] \in cache => j \in Faulty
          /\ EligibleWorkers(j) # {}
          /\ call' = [call EXCEPT ![j] = "admitting"]
          /\ waiters' = waiters \cup {j}
          /\ UNCHANGED result
    /\ UNCHANGED <<workerVars, lockedVars, reply, cache, doing, spent>>

\* Mutant: the limit is off by one.
PastQuota(j) == inflight[TenantOf[j]] > Quota

\* The quota, the tenant's count and the queue under one lock.
OverQuota(j) == inflight[TenantOf[j]] >= Quota

Admit(j) ==
    /\ call[j] = "admitting"
    /\ ~OverQuota(j)
    /\ inflight' = [inflight EXCEPT ![TenantOf[j]] = @ + 1]
    /\ pending' = PushJob(pending, j, 0)
    /\ call' = [call EXCEPT ![j] = "waiting"]
    /\ doing' = [doing EXCEPT ![j] = Look]
    /\ UNCHANGED <<noted, workerVars, connected, leases, waiters, reply, result, cache, spent>>

Reject(j) ==
    /\ call[j] = "admitting"
    /\ OverQuota(j)
    /\ waiters' = waiters \ {j}
    /\ Return(j, "quota")
    /\ UNCHANGED <<workerVars, lockedVars, reply, cache, doing, spent>>

\* The oneshot resolves.  A run that exited with zero is cached; a node that
\* is not the leader of the metadata says that it is not, and any other failure
\* to cache fails the call.
Receive(j) ==
    /\ call[j] = "waiting"
    /\ doing[j] = Idle
    /\ reply[j] # "none"
    /\ call' = [call EXCEPT ![j] = "leaving"]
    /\ \/ /\ reply[j] # "zero"
          /\ result' = [result EXCEPT ![j] = IF reply[j] = "nonzero" THEN "nonzero"
                                               ELSE "failed"]
          /\ UNCHANGED cache
       \/ /\ reply[j] = "zero"
          /\ \E r \in {"cached"} \cup (IF j \in Faulty THEN {"uncached", "failed"} ELSE {}) :
               /\ result' = [result EXCEPT ![j] = r]
               /\ cache' = IF r = "cached" THEN cache \cup {ActionOf[j]} ELSE cache
    /\ UNCHANGED <<workerVars, lockedVars, waiters, reply, doing, spent>>

\* The timer fires first: the waiter goes, and then, under the other lock,
\* whatever the queue and the lease table hold of the job.
TimeOut(j) ==
    /\ call[j] = "waiting"
    /\ doing[j] = Idle
    /\ reply[j] = "none"
    /\ spent.timeouts < MaxTimeouts
    /\ call' = [call EXCEPT ![j] = "cleaning"]
    /\ waiters' = waiters \ {j}
    /\ spent' = [spent EXCEPT !.timeouts = @ + 1]
    /\ UNCHANGED <<workerVars, lockedVars, reply, result, cache, doing>>

CleanUp(j) ==
    /\ call[j] = "cleaning"
    /\ pending' = Retain(pending, LAMBDA p : p.id # j)
    /\ leases' = Complete(leases, j)
    /\ call' = [call EXCEPT ![j] = "leaving"]
    /\ result' = [result EXCEPT ![j] = "timeout"]
    /\ UNCHANGED <<noted, workerVars, connected, inflight, waiters, reply, cache, doing, spent>>

\* dec_tenant, whatever the outcome.
Leave(j) ==
    /\ call[j] = "leaving"
    /\ inflight' = [inflight EXCEPT ![TenantOf[j]] = IF @ > 0 THEN @ - 1 ELSE 0]
    /\ call' = [call EXCEPT ![j] = "returned"]
    /\ UNCHANGED <<noted, workerVars, connected, pending, leases, waiters, reply, result,
                   cache, doing, spent>>

-----------------------------------------------------------------------------
SessionStep(w) ==
    \/ Register(w)
    \/ HeartbeatLate(w)
    \/ RecordHeartbeat(w)
    \/ ConnectWorker(w)
    \/ SessionBreaks(w)
    \/ OutboundEnds(w)
    \/ DisconnectWorker(w)
    \/ StreamEnds(w)
    \/ Report(w)
    \/ Answer(w)

DispatchStep(a) ==
    \/ Dispatch(a)
    \/ NothingToDispatch(a)
    \/ SendJob(a)
    \/ SendFails(a)
    \/ FailJobs(a)

CallStep(j) ==
    \/ StartExecute(j)
    \/ Admit(j)
    \/ Reject(j)
    \/ Receive(j)
    \/ TimeOut(j)
    \/ CleanUp(j)
    \/ Leave(j)

Next ==
    \/ \E w \in Worker : SessionStep(w)
    \/ \E a \in Actor : DispatchStep(a)
    \/ \E j \in Job : CallStep(j) \/ LeaseRunsOut(j)
    \/ EvictStale
    \/ ReapExpired

Spec == Init /\ [][Next]_vars

\* Every task the runtime holds is run: pumps, calls and the reaper's ticker.
\* Nothing makes a timer fire, a heartbeat be late or a session break.
Fairness ==
    /\ \A w \in Worker :
         /\ WF_vars(Register(w)) /\ WF_vars(ConnectWorker(w))
         /\ WF_vars(DisconnectWorker(w)) /\ WF_vars(StreamEnds(w))
         /\ WF_vars(Report(w)) /\ WF_vars(Answer(w)) /\ WF_vars(OutboundEnds(w))
    /\ \A a \in Actor : WF_vars(DispatchStep(a))
    /\ \A j \in Job :
         /\ WF_vars(StartExecute(j)) /\ WF_vars(Admit(j) \/ Reject(j))
         /\ WF_vars(Receive(j)) /\ WF_vars(CleanUp(j)) /\ WF_vars(Leave(j))
    /\ WF_vars(ReapExpired)

FairScheduler == Spec /\ Fairness
=============================================================================
