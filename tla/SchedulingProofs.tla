-------------------------- MODULE SchedulingProofs --------------------------
(***************************************************************************)
(* Proofs about scheduling: leases and quotas of the scheduler, and the    *)
(* host of the policies that place its jobs.                               *)
(***************************************************************************)
EXTENDS SchedulerSafety, PolicyHost, FiniteSetTheorems, TLAPS

-----------------------------------------------------------------------------
(* The policy host.  QuarantineHolds for every set of policy files, every  *)
(* threshold and any number of edits and decisions.                        *)

Counters == REASONS \cup Answers

\* The invariant.  What the engine counts is the true streak, and a streak
\* only grows below the threshold; a module is only ever one that was valid.
HostInv ==
    /\ failures \in Nat /\ streak = failures /\ failures <= Threshold
    /\ decisions \in Nat
    /\ counts \in [Counters -> Nat]
    /\ Total(counts) + counts["chose"] + counts["declined"] = decisions
    /\ \A f \in module : Defect[f] = "none" /\ Endings[f] \cap Answers # {}
    /\ phase \in {"loaded", "running"} => module # {}
    /\ file \in Files \cup {Unreadable}

(* The start of the process (build_policy_strategy has not run).           *)
LEMMA HostInitInv ==
  ASSUME HostInit
  PROVE  HostInv
BY PolicyAssumption DEF HostInit, HostInv, Counters, Total, REASONS, Answers, GuestFailures

(* A module that validates is free of defects and has answered the smoke   *)
(* test (load, smoke_test).                                                *)
LEMMA ValidatedIsSound ==
  ASSUME NEW f \in Files, NEW smoke \in Endings[f], Validates(f, smoke)
  PROVE  Defect[f] = "none" /\ Endings[f] \cap Answers # {}
<1>1. Defect[f] \in Defects
  BY PolicyAssumption, Zenon
<1>2. Defect[f] = "none"
  BY <1>1, Zenon DEF Validates, Compiles, CheckExportsAndAbi, Defects
<1> QED
  BY <1>2, Zenon DEF Validates, SmokeTest

(* A load keeps the invariant: it replaces a module and its record         *)
(* together, or neither (PolicyEngine::load).                              *)
LEMMA LoadKeepsInv ==
  ASSUME HostInv, file \in Files, NEW smoke \in Endings[file], Load(file, smoke),
         UNCHANGED <<file, counts, decisions>>,
         phase' \in {"loaded", "running"} =>
             Validates(file, smoke) \/ phase \in {"loaded", "running"}
  PROVE  HostInv'
<1>1. CASE Validates(file, smoke)
  <2>1. module' = {file} /\ streak' = 0 /\ failures' = 0
    BY <1>1, Zenon DEF Load
  <2>2. \A f \in module' : Defect[f] = "none" /\ Endings[f] \cap Answers # {}
    BY <1>1, <2>1, ValidatedIsSound, Zenon
  <2> QED
    BY <2>1, <2>2, PolicyAssumption DEF HostInv, Total
<1>2. CASE ~Validates(file, smoke)
  <2>1. UNCHANGED <<module, failures, streak>>
    BY <1>2, Zenon DEF Load
  <2> QED
    BY <1>2, <2>1, Zenon DEF HostInv, Total
<1> QED
  BY <1>1, <1>2, Zenon

(* Every decision goes under exactly one counter (PolicyFailureCounts).    *)
LEMMA RecordAddsOne ==
  ASSUME NEW by \in [Counters -> Nat], NEW r \in Counters
  PROVE  LET after == RecordReason(by, r)
         IN  /\ after \in [Counters -> Nat]
             /\ Total(after) + after["chose"] + after["declined"]
                  = Total(by) + by["chose"] + by["declined"] + 1
<1> DEFINE after == RecordReason(by, r)
<1>1. \A c \in Counters : by[c] \in Nat
  BY Zenon
<1>2. after \in [Counters -> Nat] /\ \A c \in Counters : after[c] = IF c = r THEN by[c] + 1 ELSE by[c]
  BY <1>1 DEF RecordReason
<1>3. Counters = {"trap", "fuel_exhausted", "deadline", "bad_index", "instantiate", "memory",
                  "not_loaded", "quarantined", "chose", "declined"}
  BY Zenon DEF Counters, REASONS, GuestFailures, Answers
<1> HIDE DEF after
<1>4. Total(after) + after["chose"] + after["declined"]
        = Total(by) + by["chose"] + by["declined"] + 1
  BY <1>1, <1>2, <1>3 DEF Total
<1> QED
  BY <1>2, <1>4, Zenon DEF after

(* A decision keeps the invariant: the guest is called below the threshold *)
(* only, so one more failure cannot pass it (decide, choose_with).         *)
LEMMA DecideKeepsInv ==
  ASSUME HostInv, NEW outcome \in Answers \cup GuestFailures, Decide(outcome)
  PROVE  HostInv'
<1> DEFINE reason == Decision(outcome)
<1>1. reason \in Counters
  BY Zenon DEF Decision, Counters, REASONS
<1>2. /\ decisions' = decisions + 1
      /\ counts' = RecordReason(counts, reason)
      /\ failures' = Settle(failures, reason)
      /\ streak' = IF reason \in Answers THEN 0
                   ELSE IF reason \in GuestFailures THEN streak + 1 ELSE streak
      /\ UNCHANGED <<file, module, phase>>
  BY Zenon DEF Decide
<1>3. counts' \in [Counters -> Nat]
      /\ Total(counts)' + counts'["chose"] + counts'["declined"] = decisions'
  <2>1. Total(counts)' = Total(counts')
    BY Zenon DEF Total
  <2> QED
    BY <1>1, <1>2, <2>1, RecordAddsOne, Zenon DEF HostInv
<1>4. reason \in GuestFailures => failures < Threshold
  BY PolicyAssumption DEF Decision, IsQuarantined, HostInv, GuestFailures
<1>5. failures' \in Nat /\ streak' = failures' /\ failures' <= Threshold
  BY <1>2, <1>4, PolicyAssumption DEF HostInv, Settle, CountsTowardQuarantine
<1> QED
  BY <1>2, <1>3, <1>5 DEF HostInv

(* Every step keeps the invariant.                                         *)
LEMMA HostStepInv ==
  ASSUME HostInv, [HostNext]_povars
  PROVE  HostInv'
<1>1. CASE UNCHANGED povars
  BY <1>1, Zenon DEF HostInv, povars, Total
<1>2. ASSUME NEW f \in Files \cup {Unreadable}, Edit(f)
      PROVE  HostInv'
  BY <1>2, Zenon DEF Edit, HostInv, Total
<1>3. CASE SeedReloader
  BY <1>3, Zenon DEF SeedReloader, HostInv, Total
<1>4. ASSUME NEW o \in Answers \cup GuestFailures, LoadAtStart(o)
      PROVE  HostInv'
  <2>1. CASE file = Unreadable
    BY <1>4, <2>1, Zenon DEF LoadAtStart, HostInv, Total
  <2>2. CASE file # Unreadable
    <3>1. file \in Files /\ o \in Endings[file]
      BY <1>4, <2>2, Zenon DEF LoadAtStart, HostInv
    <3>2. Load(file, o) /\ phase' = IF Validates(file, o) THEN "loaded" ELSE "exited"
      BY <1>4, <2>2, Zenon DEF LoadAtStart
    <3>3. UNCHANGED <<file, counts, decisions>>
      BY <1>4, Zenon DEF LoadAtStart
    <3> QED
      BY <3>1, <3>2, <3>3, LoadKeepsInv, Zenon
  <2> QED
    BY <2>1, <2>2, Zenon
<1>5. ASSUME NEW o \in Answers \cup GuestFailures, ReloadTick(o)
      PROVE  HostInv'
  <2>1. file \in Files /\ o \in Endings[file]
    BY <1>5, Zenon DEF ReloadTick, ShouldReload, HostInv
  <2>2. Load(file, o) /\ UNCHANGED <<file, phase, counts, decisions>>
    BY <1>5, Zenon DEF ReloadTick
  <2> QED
    BY <2>1, <2>2, LoadKeepsInv, Zenon
<1>6. ASSUME NEW o \in Answers \cup GuestFailures, Decide(o)
      PROVE  HostInv'
  BY <1>6, DecideKeepsInv, Zenon
<1> QED
  BY <1>1, <1>2, <1>3, <1>4, <1>5, <1>6, Zenon DEF HostNext

(* Whatever the files, their edits and the outcomes of their calls: no     *)
(* guest fails more than Threshold times in a row before it is replaced,   *)
(* the module that serves has passed every check of load, and the          *)
(* counters of policy_view add up to the decisions made.                   *)
THEOREM QuarantineAlwaysHolds == HostSpec => []QuarantineHolds
<1>1. HostInv => QuarantineHolds
  <2> SUFFICES ASSUME HostInv PROVE QuarantineHolds
    BY Zenon
  <2>1. /\ PolicyView.decided = counts["chose"] /\ PolicyView.declined = counts["declined"]
        /\ PolicyView.failures_by_reason = [r \in REASONS |-> counts[r]]
    BY Zenon DEF PolicyView
  <2>2. Total([r \in REASONS |-> counts[r]]) = Total(counts)
    BY Zenon DEF Total, REASONS, GuestFailures
  <2>3. \A c \in Counters : counts[c] \in Nat
    BY Zenon DEF HostInv
  <2>4. Total(counts) \in Nat /\ counts["chose"] \in Nat /\ counts["declined"] \in Nat
    BY <2>3 DEF Total, Counters, REASONS, GuestFailures, Answers
  <2>5. PolicyView.decided + PolicyView.declined + Total(PolicyView.failures_by_reason) = decisions
    BY <2>1, <2>2, <2>4 DEF HostInv
  <2> QED
    BY <2>5, Zenon DEF QuarantineHolds, HostInv
<1> QED
  BY <1>1, HostInitInv, HostStepInv, PTL DEF HostSpec

-----------------------------------------------------------------------------
(* The scheduler.  OneLeasePerWorker, LeaseIsTakenBack and QuotaIsExact    *)
(* hold for any number of calls, tenants and workers, any queue, any       *)
(* placement and any number of failures.                                   *)

IsLease(l) ==
    /\ l = [worker |-> l.worker, attempts |-> l.attempts, due |-> l.due]
    /\ l.worker \in Worker

\* A worker whose stream pump has yet to call disconnect_worker.
Attached(w) == session[w] \in {"open", "broken"}

\* The invariant of the lease table: it holds one lease of a worker at most,
\* and only of workers whose pump will still take it back.
LeaseInv ==
    /\ leases = [j \in Job |-> leases[j]]
    /\ \A j \in Leased(leases) : IsLease(leases[j]) /\ Attached(leases[j].worker)
    /\ session = [w \in Worker |-> session[w]]
    /\ connected \subseteq Worker
    /\ \A w \in connected : Attached(w)
    /\ OneLeasePerWorker

\* A table that has only lost leases, or deadlines, since `ls`.
Narrower(ls2, ls) ==
    /\ ls2 = [j \in Job |-> ls2[j]]
    /\ \A j \in Leased(ls2) : /\ j \in Leased(ls)
                              /\ IsLease(ls2[j]) /\ ls2[j].worker = ls[j].worker

-----------------------------------------------------------------------------
(* The operations of the lease table other than insert only take leases    *)
(* away or renew them (lease.rs).                                          *)
LEMMA DeadlineIsLease ==
  ASSUME NEW l, IsLease(l), NEW b
  PROVE  IsLease([l EXCEPT !.due = b]) /\ [l EXCEPT !.due = b].worker = l.worker
<1> DEFINE m == [l EXCEPT !.due = b]
<1>1. m = [worker |-> l.worker, attempts |-> l.attempts, due |-> b]
  BY DEF IsLease
<1> HIDE DEF m
<1>2. IsLease(m) /\ m.worker = l.worker
  BY <1>1, Zenon DEF IsLease
<1> QED
  BY <1>2, Zenon DEF m

\* Taking leases away leaves fewer of them.
LEMMA DrainNarrows ==
  ASSUME LeaseInv, NEW js
  PROVE  Narrower(Drain(leases, js), leases)
<1> DEFINE ls == Drain(leases, js)
<1>1. ls = [j \in Job |-> ls[j]] /\ \A j \in Job : ls[j] = IF j \in js THEN NoLease ELSE leases[j]
  BY Zenon DEF Drain
<1> QED
  BY <1>1, Zenon DEF Narrower, Leased, LeaseInv

\* Renewing a worker's leases adds none (LeaseManager::renew_worker).
LEMMA RenewNarrows ==
  ASSUME LeaseInv, NEW w
  PROVE  Narrower(RenewWorker(leases, w), leases)
<1> DEFINE ls == RenewWorker(leases, w)
<1>1. /\ ls = [j \in Job |-> ls[j]]
      /\ \A j \in Job : ls[j] = IF j \in LeasedTo(leases, w)
                                THEN [leases[j] EXCEPT !.due = FALSE] ELSE leases[j]
  BY Zenon DEF RenewWorker
<1>2. ASSUME NEW j \in LeasedTo(leases, w)
      PROVE  /\ j \in Leased(leases) /\ IsLease([leases[j] EXCEPT !.due = FALSE])
             /\ [leases[j] EXCEPT !.due = FALSE].worker = leases[j].worker
  <2>1. j \in Leased(leases) /\ IsLease(leases[j])
    BY Zenon DEF LeasedTo, LeaseInv
  <2> QED
    BY <2>1, DeadlineIsLease, Zenon
<1>3. ASSUME NEW j \in Job, j \notin LeasedTo(leases, w), ls[j] # NoLease
      PROVE  j \in Leased(leases) /\ IsLease(ls[j]) /\ ls[j].worker = leases[j].worker
  BY <1>1, <1>3, Zenon DEF Leased, LeaseInv
<1> HIDE DEF ls
<1>4. \A j \in Leased(ls) : j \in Job /\ ls[j] # NoLease
  BY Zenon DEF Leased
<1> QED
  BY <1>1, <1>2, <1>3, <1>4, Zenon DEF Narrower, ls

\* Leaving them alone adds none.
LEMMA SameNarrows ==
  ASSUME LeaseInv
  PROVE  Narrower(leases, leases)
BY Zenon DEF LeaseInv, Narrower

\* Nor does a lease that falls due.
LEMMA LapseNarrows ==
  ASSUME LeaseInv, NEW j \in Leased(leases)
  PROVE  Narrower([leases EXCEPT ![j].due = TRUE], leases)
<1> DEFINE ls == [leases EXCEPT ![j].due = TRUE]
<1>1. ls = [k \in Job |-> ls[k]] /\ ls[j] = [leases[j] EXCEPT !.due = TRUE]
      /\ \A k \in Job \ {j} : ls[k] = leases[k]
  BY Zenon DEF LeaseInv, Leased
<1>2. IsLease(ls[j]) /\ ls[j].worker = leases[j].worker
  <2>1. IsLease(leases[j])
    BY Zenon DEF LeaseInv
  <2> QED
    BY <1>1, <2>1, DeadlineIsLease
<1> HIDE DEF ls
<1>3. ASSUME NEW k \in Leased(ls)
      PROVE  k \in Leased(leases) /\ IsLease(ls[k]) /\ ls[k].worker = leases[k].worker
  <2>1. CASE k = j
    BY <1>2, <2>1, Zenon
  <2>2. CASE k # j
    BY <1>1, <2>2, Zenon DEF Leased, LeaseInv
  <2> QED
    BY <2>1, <2>2, Zenon
<1> QED
  BY <1>1, <1>3, Zenon DEF Narrower, ls

(* A step that only narrows the table keeps the invariant, as long as the  *)
(* pumps of the workers it still names are not past disconnect_worker.     *)
LEMMA NarrowingKeepsInv ==
  ASSUME LeaseInv, Narrower(leases', leases),
         session' = [w \in Worker |-> session'[w]],
         connected' \subseteq Worker,
         \A w \in connected' : Attached(w)',
         \A j \in Leased(leases') : Attached(leases[j].worker)'
  PROVE  LeaseInv'
<1>1. \A j \in Leased(leases') : /\ j \in Leased(leases) /\ IsLease(leases'[j])
                                 /\ leases'[j].worker = leases[j].worker
  BY Zenon DEF Narrower
<1>2. Leased(leases)' = Leased(leases')
  BY Zenon DEF Leased
<1>3. OneLeasePerWorker'
  BY <1>1, <1>2, Zenon DEF LeaseInv, OneLeasePerWorker
<1>4. \A j \in Leased(leases') : IsLease(leases[j])' /\ Attached(leases[j].worker)'
  BY <1>1, Zenon DEF IsLease, Attached
<1> QED
  BY <1>2, <1>3, <1>4, Zenon DEF LeaseInv, Narrower

(* The same when neither sessions nor the connected workers change, or     *)
(* when a worker is only taken off the connected ones (SendFails).         *)
LEMMA QuietNarrowingKeepsInv ==
  ASSUME LeaseInv, Narrower(leases', leases), UNCHANGED session, connected' \subseteq connected
  PROVE  LeaseInv'
<1>1. \A w : Attached(w)' <=> Attached(w)
  BY Zenon DEF Attached
<1>2. \A j \in Leased(leases') : leases'[j].worker = leases[j].worker /\ Attached(leases[j].worker)
  BY Zenon DEF Narrower, LeaseInv
<1>3. \A j \in Leased(leases') : Attached(leases[j].worker)'
  BY <1>2, Zenon DEF Attached
<1> QED
  BY <1>1, <1>3, NarrowingKeepsInv, Zenon DEF LeaseInv

\* A session that changes hands keeps who holds which lease.
LEMMA SessionMoves ==
  ASSUME LeaseInv, NEW w \in Worker, NEW s,
         session' = [session EXCEPT ![w] = s], leases' = leases,
         connected' \subseteq connected \cup {w},
         Attached(w) \/ w \in connected' => s \in {"open", "broken"}
  PROVE  LeaseInv'
<1>1. session' = [x \in Worker |-> session'[x]] /\ session'[w] = s
      /\ \A x \in Worker \ {w} : session'[x] = session[x]
  BY Zenon DEF LeaseInv
<1>2. \A x \in Worker : Attached(x) => Attached(x)'
  BY <1>1, Zenon DEF Attached
<1>3. connected' \subseteq Worker /\ \A x \in connected' : Attached(x)'
  BY <1>1, <1>2, Zenon DEF LeaseInv, Attached
<1>4. \A j \in Leased(leases') : Attached(leases[j].worker)'
  <2>1. \A j \in Leased(leases') : leases[j].worker \in Worker /\ Attached(leases[j].worker)
    BY Zenon DEF LeaseInv, IsLease
  <2> QED
    BY <1>2, <2>1, Zenon DEF Attached
<1> QED
  BY <1>1, <1>3, <1>4, SameNarrows, NarrowingKeepsInv, Zenon

(* disconnect_worker takes back every lease of the worker before the pump  *)
(* ends.                                                                   *)
LEMMA DisconnectKeepsInv ==
  ASSUME LeaseInv, NEW w \in Worker, DisconnectWorker(w)
  PROVE  LeaseInv'
<1>1. /\ session' = [session EXCEPT ![w] = "closing"] /\ connected' = connected \ {w}
      /\ leases' = Drain(leases, LeasedTo(leases, w))
  BY Zenon DEF DisconnectWorker, TakeWorker
<1>2. Narrower(leases', leases)
  BY <1>1, DrainNarrows, Zenon
<1>3. session' = [x \in Worker |-> session'[x]] /\ \A x \in Worker \ {w} : session'[x] = session[x]
  BY <1>1, Zenon DEF LeaseInv
<1>4. connected' \subseteq Worker /\ \A x \in connected' : Attached(x)'
  BY <1>1, <1>3, Zenon DEF LeaseInv, Attached
<1>5. ASSUME NEW j \in Leased(leases')
      PROVE  Attached(leases[j].worker)'
  <2>1. /\ j \in Leased(leases) /\ leases'[j].worker = leases[j].worker
        /\ leases[j].worker \in Worker /\ Attached(leases[j].worker)
    BY <1>2, Zenon DEF Narrower, LeaseInv, IsLease
  <2>2. j \notin LeasedTo(leases, w)
    BY <1>1, Zenon DEF Drain, Leased
  <2>3. leases[j].worker # w
    BY <2>1, <2>2, Zenon DEF LeasedTo
  <2> QED
    BY <1>3, <2>1, <2>3, Zenon DEF Attached
<1> QED
  BY <1>2, <1>3, <1>4, <1>5, NarrowingKeepsInv, Zenon

(* A worker is leased a job only while it is connected and holds no other  *)
(* (try_dispatch).                                                         *)
LEMMA DispatchKeepsInv ==
  ASSUME LeaseInv, NEW a, Dispatch(a)
  PROVE  LeaseInv'
<1>1. PICK id, n, w :
        w \in Candidates(id) /\ leases' = Insert(leases, id, n, w)
  BY Zenon DEF Dispatch
<1>2. UNCHANGED <<session, connected>>
  BY Zenon DEF Dispatch, workerVars
<1>3. w \in connected /\ w \in Worker /\ Attached(w) /\ LeasedTo(leases, w) = {}
  BY <1>1, Zenon DEF Candidates, IsWorkerBusy, LeaseInv
<1> DEFINE new == [worker |-> w, attempts |-> n, due |-> FALSE]
<1>4. /\ leases' = [j \in Job |-> leases'[j]]
      /\ \A j \in Job : leases'[j] = IF j = id THEN new ELSE leases[j]
  BY <1>1, Zenon DEF Insert, LeaseInv
<1>5. IsLease(new) /\ new.worker = w
  BY <1>3, Zenon DEF IsLease
<1> HIDE DEF new
<1>6. \A j \in Leased(leases') : j \in Job /\ (j = id => leases'[j] = new)
                                 /\ (j # id => j \in Leased(leases) /\ leases'[j] = leases[j])
  BY <1>4, Zenon DEF Leased
<1>7. \A j \in Leased(leases') \ {id} : leases[j].worker # w
  BY <1>3, <1>6, Zenon DEF LeasedTo
<1>8. OneLeasePerWorker'
  <2> SUFFICES ASSUME NEW i \in Leased(leases'), NEW j \in Leased(leases'),
                      leases'[i].worker = leases'[j].worker
               PROVE  i = j
    BY Zenon DEF OneLeasePerWorker, Leased
  <2> QED
    BY <1>5, <1>6, <1>7, Zenon DEF LeaseInv, OneLeasePerWorker
<1>9. \A j \in Leased(leases') : IsLease(leases'[j]) /\ Attached(leases'[j].worker)
  BY <1>3, <1>5, <1>6, Zenon DEF LeaseInv
<1>10. \A j \in Leased(leases') : IsLease(leases[j])' /\ Attached(leases[j].worker)'
  BY <1>2, <1>9, Zenon DEF IsLease, Attached
<1>11. \A x \in connected' : Attached(x)'
  BY <1>2, Zenon DEF LeaseInv, Attached
<1>12. Leased(leases)' = Leased(leases')
  BY Zenon DEF Leased
<1> QED
  BY <1>2, <1>4, <1>8, <1>10, <1>11, <1>12, Zenon DEF LeaseInv

\* No lease is held at the start.
LEMMA LeaseInvInit ==
  ASSUME Init
  PROVE  LeaseInv
<1>1. Leased(leases) = {}
  BY Zenon DEF Init, Leased
<1> QED
  BY <1>1, Zenon DEF Init, LeaseInv, OneLeasePerWorker

\* Every step of a session keeps the lease invariant.
LEMMA SessionStepKeepsInv ==
  ASSUME LeaseInv, NEW w \in Worker, SessionStep(w)
  PROVE  LeaseInv'
<1>1. CASE Register(w)
  BY <1>1, SessionMoves, Zenon DEF Register, lockedVars, Attached, LeaseInv
<1>2. CASE HeartbeatLate(w) \/ OutboundEnds(w) \/ Answer(w)
  <2>1. UNCHANGED <<leases, session, connected>>
    BY <1>2, Zenon DEF HeartbeatLate, OutboundEnds, Answer, lockedVars, workerVars
  <2> QED
    BY <2>1, SameNarrows, QuietNarrowingKeepsInv, Zenon
<1>3. CASE RecordHeartbeat(w)
  <2>1. leases' \in {leases, RenewWorker(leases, w)} /\ UNCHANGED <<session, connected>>
    BY <1>3, Zenon DEF RecordHeartbeat
  <2> QED
    BY <2>1, SameNarrows, RenewNarrows, QuietNarrowingKeepsInv, Zenon
<1>4. CASE ConnectWorker(w)
  BY <1>4, SessionMoves, Zenon DEF ConnectWorker
<1>5. CASE SessionBreaks(w)
  <2>1. session' = [session EXCEPT ![w] = IF session[w] = "open" THEN "broken" ELSE "gone"]
        /\ session[w] \in {"registered", "open"} /\ UNCHANGED <<leases, connected>>
    BY <1>5, Zenon DEF SessionBreaks, lockedVars
  <2> QED
    BY <2>1, SessionMoves, Zenon DEF Attached, LeaseInv
<1>6. CASE DisconnectWorker(w)
  BY <1>6, DisconnectKeepsInv, Zenon
<1>7. CASE StreamEnds(w)
  BY <1>7, SessionMoves, Zenon DEF StreamEnds, lockedVars, Attached, LeaseInv
<1>8. CASE Report(w)
  <2>1. leases' = Drain(leases, {Head(inbox[w])}) /\ UNCHANGED <<session, connected>>
    BY <1>8, Zenon DEF Report, Complete
  <2> QED
    BY <2>1, DrainNarrows, QuietNarrowingKeepsInv, Zenon
<1> QED
  BY <1>1, <1>2, <1>3, <1>4, <1>5, <1>6, <1>7, <1>8, Zenon DEF SessionStep

\* And so does every step of the scheduler.
LEMMA LeaseInvStep ==
  ASSUME LeaseInv, [Next]_vars
  PROVE  LeaseInv'
<1>1. CASE UNCHANGED vars
  <2>1. UNCHANGED <<leases, session, connected>>
    BY <1>1, Zenon DEF vars, lockedVars, workerVars
  <2> QED
    BY <2>1, SameNarrows, QuietNarrowingKeepsInv, Zenon
<1>2. ASSUME NEW a \in Actor, DispatchStep(a)
      PROVE  LeaseInv'
  <2>1. CASE Dispatch(a)
    BY <2>1, DispatchKeepsInv, Zenon
  <2>2. CASE NothingToDispatch(a) \/ SendJob(a) \/ FailJobs(a)
    <3>1. UNCHANGED <<leases, session, connected>>
      BY <2>2, Zenon DEF NothingToDispatch, SendJob, FailJobs, lockedVars, workerVars
    <3> QED
      BY <3>1, SameNarrows, QuietNarrowingKeepsInv, Zenon
  <2>3. CASE SendFails(a)
    <3>1. /\ leases' = Drain(leases, {doing[a].job}) /\ UNCHANGED session
          /\ connected' \subseteq connected
      BY <2>3, Zenon DEF SendFails, Complete, workerVars
    <3> QED
      BY <3>1, DrainNarrows, QuietNarrowingKeepsInv, Zenon
  <2> QED
    BY <1>2, <2>1, <2>2, <2>3, Zenon DEF DispatchStep
<1>3. ASSUME NEW j \in Job, CallStep(j) \/ LeaseRunsOut(j)
      PROVE  LeaseInv'
  <2>1. CASE StartExecute(j) \/ Admit(j) \/ Reject(j) \/ Receive(j) \/ TimeOut(j) \/ Leave(j)
    <3>1. UNCHANGED <<leases, session, connected>>
      BY <2>1, Zenon DEF StartExecute, Admit, Reject, Receive, TimeOut, Leave, lockedVars, workerVars
    <3> QED
      BY <3>1, SameNarrows, QuietNarrowingKeepsInv, Zenon
  <2>2. CASE CleanUp(j)
    <3>1. leases' = Drain(leases, {j}) /\ UNCHANGED <<session, connected>>
      BY <2>2, Zenon DEF CleanUp, Complete, workerVars
    <3> QED
      BY <3>1, DrainNarrows, QuietNarrowingKeepsInv, Zenon
  <2>3. CASE LeaseRunsOut(j)
    <3>1. /\ j \in Leased(leases) /\ leases' = [leases EXCEPT ![j].due = TRUE]
          /\ UNCHANGED <<session, connected>>
      BY <2>3, Zenon DEF LeaseRunsOut, workerVars
    <3> QED
      BY <3>1, LapseNarrows, QuietNarrowingKeepsInv, Zenon
  <2> QED
    BY <1>3, <2>1, <2>2, <2>3, Zenon DEF CallStep
<1>4. CASE EvictStale
  <2>1. UNCHANGED <<leases, session, connected>>
    BY <1>4, Zenon DEF EvictStale, lockedVars
  <2> QED
    BY <2>1, SameNarrows, QuietNarrowingKeepsInv, Zenon
<1>5. CASE ReapExpired
  <2>1. leases' = Drain(leases, Expired(leases)) /\ UNCHANGED <<session, connected>>
    BY <1>5, Zenon DEF ReapExpired, workerVars
  <2> QED
    BY <2>1, DrainNarrows, QuietNarrowingKeepsInv, Zenon
<1> QED
  BY <1>1, <1>2, <1>3, <1>4, <1>5, SessionStepKeepsInv, Zenon DEF Next

(* No worker ever holds two leases at once: for every interleaving of      *)
(* dispatch loops, reports, time-outs, expired leases and broken sessions. *)
THEOREM WorkersHoldOneLease == Spec => []OneLeasePerWorker
<1>1. LeaseInv => OneLeasePerWorker
  BY Zenon DEF LeaseInv
<1> QED
  BY <1>1, LeaseInvInit, LeaseInvStep, PTL DEF Spec

(* A lease never outlives the pump that would take it back.                *)
THEOREM LeasesAreTakenBack == Spec => []LeaseIsTakenBack
<1>1. LeaseInv => LeaseIsTakenBack
  BY Zenon DEF LeaseInv, LeaseIsTakenBack, Attached
<1> QED
  BY <1>1, LeaseInvInit, LeaseInvStep, PTL DEF Spec

-----------------------------------------------------------------------------
(* The tenant counts.                                                      *)

Counted(t) == {j \in Job : TenantOf[j] = t /\ call[j] \in {"waiting", "cleaning", "leaving"}}

QuotaInv ==
    /\ call = [j \in Job |-> call[j]]
    /\ inflight \in [Tenant -> Nat]
    /\ QuotaIsExact

\* A tenant's admitted calls can be counted.
LEMMA CountedIsFinite ==
  ASSUME NEW t
  PROVE  IsFiniteSet(Counted(t)) /\ Cardinality(Counted(t)) \in Nat
<1>1. Counted(t) \subseteq Job
  BY Zenon DEF Counted
<1> QED
  BY <1>1, SchedulerAssumption, FS_Subset, FS_CardinalityType, Zenon

\* The property in terms of that count.
LEMMA QuotaIsCount ==
  QuotaIsExact <=> \A t \in Tenant : inflight[t] = Cardinality(Counted(t)) /\ inflight[t] <= Quota
BY Zenon DEF QuotaIsExact, Counted

(* A step that moves a call within the admitted stages, or outside them,   *)
(* leaves the counts as they are.                                          *)
LEMMA StageMoves ==
  ASSUME QuotaInv, UNCHANGED inflight, NEW j \in Job, NEW stage,
         call' = [call EXCEPT ![j] = stage],
         call[j] \in {"waiting", "cleaning", "leaving"} <=> stage \in {"waiting", "cleaning", "leaving"}
  PROVE  QuotaInv'
<1>1. call' = [k \in Job |-> call'[k]] /\ call'[j] = stage /\ \A k \in Job \ {j} : call'[k] = call[k]
  BY Zenon DEF QuotaInv
<1>2. \A t \in Tenant : Counted(t)' = Counted(t)
  BY <1>1, Zenon DEF Counted
<1>3. QuotaIsExact'
  BY <1>2, QuotaIsCount, Zenon DEF QuotaInv, QuotaIsExact, Counted
<1> QED
  BY <1>1, <1>3, Zenon DEF QuotaInv

(* execute checks the quota, counts the call and queues its job under one  *)
(* lock.                                                                   *)
LEMMA AdmitKeepsQuota ==
  ASSUME QuotaInv, NEW j \in Job, Admit(j)
  PROVE  QuotaInv'
<1> DEFINE u == TenantOf[j]
<1>1. /\ u \in Tenant /\ Quota \in Nat /\ inflight[u] < Quota
      /\ call[j] = "admitting"
      /\ inflight' = [inflight EXCEPT ![u] = @ + 1]
      /\ call' = [call EXCEPT ![j] = "waiting"]
  BY SchedulerAssumption DEF Admit, OverQuota, QuotaInv
<1>2. /\ call' = [k \in Job |-> call'[k]] /\ call'[j] = "waiting"
      /\ \A k \in Job \ {j} : call'[k] = call[k]
  BY <1>1, Zenon DEF QuotaInv
<1>3. inflight' \in [Tenant -> Nat] /\ inflight'[u] = inflight[u] + 1
      /\ \A t \in Tenant \ {u} : inflight'[t] = inflight[t]
  BY <1>1 DEF QuotaInv
<1>4. Counted(u)' = Counted(u) \cup {j} /\ j \notin Counted(u)
  BY <1>1, <1>2, Zenon DEF Counted
<1>5. Cardinality(Counted(u)') = Cardinality(Counted(u)) + 1
  BY <1>4, CountedIsFinite, FS_AddElement, Zenon
<1>6. \A t \in Tenant \ {u} : Counted(t)' = Counted(t)
  BY <1>2, Zenon DEF Counted
<1>7. \A t \in Tenant : inflight[t] = Cardinality(Counted(t)) /\ inflight[t] <= Quota
  BY QuotaIsCount, Zenon DEF QuotaInv
<1>8. ASSUME NEW t \in Tenant
      PROVE  inflight'[t] = Cardinality(Counted(t)') /\ inflight'[t] <= Quota
  <2>1. CASE t = u
    BY <1>1, <1>3, <1>5, <1>7, <2>1 DEF QuotaInv
  <2>2. CASE t # u
    BY <1>3, <1>6, <1>7, <2>2, Zenon
  <2> QED
    BY <2>1, <2>2, Zenon
<1>9. QuotaIsExact'
  BY <1>8, Zenon DEF QuotaIsExact, Counted
<1> QED
  BY <1>2, <1>3, <1>9, Zenon DEF QuotaInv

(* dec_tenant runs once for each admitted call, and never saturates.       *)
LEMMA LeaveKeepsQuota ==
  ASSUME QuotaInv, NEW j \in Job, Leave(j)
  PROVE  QuotaInv'
<1> DEFINE u == TenantOf[j]
<1>1. /\ u \in Tenant /\ call[j] = "leaving"
      /\ inflight' = [inflight EXCEPT ![u] = IF @ > 0 THEN @ - 1 ELSE 0]
      /\ call' = [call EXCEPT ![j] = "returned"]
  BY SchedulerAssumption, Zenon DEF Leave
<1>2. /\ call' = [k \in Job |-> call'[k]] /\ call'[j] = "returned"
      /\ \A k \in Job \ {j} : call'[k] = call[k]
  BY <1>1, Zenon DEF QuotaInv
<1>3. /\ inflight' \in [Tenant -> Nat]
      /\ inflight'[u] = IF inflight[u] > 0 THEN inflight[u] - 1 ELSE 0
      /\ \A t \in Tenant \ {u} : inflight'[t] = inflight[t]
  BY <1>1 DEF QuotaInv
<1>4. Counted(u)' = Counted(u) \ {j} /\ j \in Counted(u)
  BY <1>1, <1>2, Zenon DEF Counted
<1>5. Cardinality(Counted(u)') = Cardinality(Counted(u)) - 1
  BY <1>4, CountedIsFinite, FS_RemoveElement, Zenon
<1>6. \A t \in Tenant \ {u} : Counted(t)' = Counted(t)
  BY <1>2, Zenon DEF Counted
<1>7. \A t \in Tenant : inflight[t] = Cardinality(Counted(t)) /\ inflight[t] <= Quota
  BY QuotaIsCount, Zenon DEF QuotaInv
<1>8. Cardinality(Counted(u)) \in Nat \ {0}
  BY <1>4, CountedIsFinite, FS_EmptySet, Zenon
<1>9. ASSUME NEW t \in Tenant
      PROVE  inflight'[t] = Cardinality(Counted(t)') /\ inflight'[t] <= Quota
  <2>1. CASE t = u
    <3>1. inflight[u] \in Nat \ {0} /\ inflight[u] <= Quota /\ Quota \in Nat
      BY <1>1, <1>7, <1>8, SchedulerAssumption, Zenon
    <3>2. inflight'[u] = inflight[u] - 1
      BY <1>3, <3>1
    <3> QED
      BY <1>1, <1>5, <1>7, <2>1, <3>1, <3>2
  <2>2. CASE t # u
    BY <1>3, <1>6, <1>7, <2>2, Zenon
  <2> QED
    BY <2>1, <2>2, Zenon
<1>10. QuotaIsExact'
  BY <1>9, Zenon DEF QuotaIsExact, Counted
<1> QED
  BY <1>2, <1>3, <1>10, Zenon DEF QuotaInv

\* Every step keeps the count exact (admission and its guard's drop).
LEMMA QuotaInvStep ==
  ASSUME QuotaInv, [Next]_vars
  PROVE  QuotaInv'
<1>1. CASE UNCHANGED <<call, inflight>>
  BY <1>1, Zenon DEF QuotaInv, QuotaIsExact
<1>2. ASSUME NEW j \in Job, CallStep(j)
      PROVE  QuotaInv'
  <2>1. CASE StartExecute(j)
    <3>1. UNCHANGED inflight /\ call[j] = "new"
      BY <2>1, Zenon DEF StartExecute, lockedVars
    <3>2. \E stage \in {"returned", "admitting"} : call' = [call EXCEPT ![j] = stage]
      BY <2>1, Zenon DEF StartExecute, Return
    <3> QED
      BY <3>1, <3>2, StageMoves, Zenon
  <2>2. CASE Admit(j)
    BY <2>2, AdmitKeepsQuota, Zenon
  <2>3. CASE Reject(j)
    BY <2>3, StageMoves, Zenon DEF Reject, Return, lockedVars
  <2>4. CASE Receive(j)
    BY <2>4, StageMoves, Zenon DEF Receive, lockedVars
  <2>5. CASE TimeOut(j)
    BY <2>5, StageMoves, Zenon DEF TimeOut, lockedVars
  <2>6. CASE CleanUp(j)
    BY <2>6, StageMoves, Zenon DEF CleanUp
  <2>7. CASE Leave(j)
    BY <2>7, LeaveKeepsQuota, Zenon
  <2> QED
    BY <1>2, <2>1, <2>2, <2>3, <2>4, <2>5, <2>6, <2>7, Zenon DEF CallStep
<1>3. ASSUME NEW w \in Worker, SessionStep(w)
      PROVE  UNCHANGED <<call, inflight>>
  <2>1. CASE Register(w) \/ HeartbeatLate(w) \/ RecordHeartbeat(w) \/ ConnectWorker(w)
    BY <2>1, Zenon DEF Register, HeartbeatLate, RecordHeartbeat, ConnectWorker, lockedVars, callVars
  <2>2. CASE SessionBreaks(w) \/ OutboundEnds(w) \/ DisconnectWorker(w)
    BY <2>2, Zenon DEF SessionBreaks, OutboundEnds, DisconnectWorker, lockedVars, callVars
  <2>3. CASE StreamEnds(w) \/ Report(w) \/ Answer(w)
    BY <2>3, Zenon DEF StreamEnds, Report, Answer, lockedVars, callVars
  <2> QED
    BY <1>3, <2>1, <2>2, <2>3, Zenon DEF SessionStep
<1>4. ASSUME NEW a \in Actor, DispatchStep(a)
      PROVE  UNCHANGED <<call, inflight>>
  BY <1>4, Zenon DEF DispatchStep, Dispatch, NothingToDispatch, SendJob, SendFails, FailJobs,
              lockedVars, callVars
<1>5. ASSUME NEW j \in Job, LeaseRunsOut(j)
      PROVE  UNCHANGED <<call, inflight>>
  BY <1>5, Zenon DEF LeaseRunsOut, callVars
<1>6. CASE EvictStale \/ ReapExpired
  BY <1>1, <1>6, Zenon DEF EvictStale, ReapExpired, lockedVars, callVars
<1>7. CASE UNCHANGED vars
  BY <1>1, <1>7, Zenon DEF vars, lockedVars, callVars
<1> QED
  BY <1>1, <1>2, <1>3, <1>4, <1>5, <1>6, <1>7, Zenon DEF Next

(* A tenant's count is always the number of its admitted calls that have   *)
(* not returned, however each of them ends, and never passes the quota.    *)
THEOREM QuotaIsAlwaysExact == Spec => []QuotaIsExact
<1>1. Init => QuotaInv
  <2> SUFFICES ASSUME Init PROVE QuotaInv
    BY Zenon
  <2>1. \A t \in Tenant : Counted(t) = {} /\ inflight[t] = 0
    BY Zenon DEF Init, Counted
  <2>2. QuotaIsExact
    BY <2>1, QuotaIsCount, SchedulerAssumption, FS_EmptySet
  <2> QED
    BY <2>2, Zenon DEF Init, QuotaInv
<1>2. QuotaInv => QuotaIsExact
  BY Zenon DEF QuotaInv
<1> QED
  BY <1>1, <1>2, QuotaInvStep, PTL DEF Spec
=============================================================================
