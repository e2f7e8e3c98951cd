------------------------------ MODULE Collector ------------------------------
(***************************************************************************)
(* Garbage collection of the CAS against action-cache writes.              *)
(*                                                                         *)
(* src/crates/brokkr-cas/src: gc.rs, action_cache.rs, redb_backend.rs; the *)
(* writers are execute (scheduler.rs) and the UpdateActionResult handler   *)
(* (services/action_cache.rs) of src/crates/brokkr-control/src.            *)
(*                                                                         *)
(* A redb operation takes a permit, runs as a blocking task and commits    *)
(* there: two steps, Begin and Commit.  A caller that is dropped between   *)
(* them gives back its permit and its guard, and the task runs on without  *)
(* it (`orphans`).                                                         *)
(***************************************************************************)
EXTENDS Blobs

CONSTANTS Action,
          Publisher,      \* writers of action results
          Sweeper,        \* gc::sweep
          Publishes,      \* the action each publisher writes the result of
          Refs,           \* direct_digests of that result
          Free,
          CasLimit, CacheLimit,    \* permits of RedbCas and of RedbActionCache
          Guarded,        \* gc_window is RedbActionCache's, not the trait's default
          MaxSweeps, MaxCancels

ASSUME CollectorAssumption ==
    /\ Publishes \in [Publisher -> Action]
    /\ Refs \in [Publisher -> SUBSET Blob]
    /\ Sweeper \notin Publisher /\ Free \notin Publisher \cup {Sweeper}
    /\ Guarded \in BOOLEAN
    /\ CasLimit \in Nat /\ CacheLimit \in Nat /\ MaxSweeps \in Nat /\ MaxCancels \in Nat

VARIABLES blobs,      \* the table of RedbCas
          entries,    \* the table of the action cache: what each result refers to
          barrier,    \* gc_mutex: its holder or Free
          at,         \* where each caller is
          op,         \* the redb operation each caller waits for
          orphans,    \* operations whose caller is gone
          plan,       \* GcPlan of the running sweep
          done        \* sweeps and cancellations so far

cvars == <<blobs, entries, barrier, at, op, orphans, plan, done>>

Caller == Publisher \cup {Sweeper}

NoOp == [do |-> "nothing"]
StoreOp(ds) == [do |-> "store", digests |-> ds]
PublishOp(a, ds) == [do |-> "publish", action |-> a, digests |-> ds]
ListEntriesOp == [do |-> "list_entries"]
ListDigestsOp == [do |-> "list_digests"]
DeleteOp(d) == [do |-> "delete", digest |-> d]

OfCas(o) == o.do \in {"store", "list_digests", "delete"}
OfCache(o) == o.do \in {"publish", "list_entries"}

CollectorInit ==
    /\ blobs = {} /\ barrier = Free /\ orphans = {}
    /\ entries = [a \in Action |-> {}]
    /\ at = [c \in Caller |-> IF c = Sweeper THEN "gate" ELSE "upload"]
    /\ op = [c \in Caller |-> NoOp]
    /\ plan = [reachable |-> {}, unreachable |-> {}]
    /\ done = [sweeps |-> 0, cancels |-> 0]

\* Semaphore::try_acquire.
HasPermit(o) ==
    IF OfCas(o) THEN Cardinality({c \in Caller : OfCas(op[c])}) < CasLimit
    ELSE Cardinality({c \in Caller : OfCache(op[c])}) < CacheLimit

\* Mutant: the guard is given to whoever asks.
MayHoldAlways(c) == TRUE

\* Mutant: a call that fails keeps the guard.
Kept(c) == barrier

\* gc_window: tokio's mutex, or, where the trait's default is in force, nothing.
MayHold(c) == Guarded => barrier = Free

Dropped(c) == IF barrier = c THEN Free ELSE barrier

GcWindow(c) ==
    /\ at[c] = "gate"
    /\ c = Sweeper => done.sweeps < MaxSweeps
    /\ MayHold(c)
    /\ barrier' = IF Guarded THEN c ELSE barrier
    /\ at' = [at EXCEPT ![c] = IF c = Sweeper THEN "plan" ELSE "write"]
    /\ UNCHANGED <<blobs, entries, op, orphans, plan, done>>

\* The next operation of a caller.
Wants(c) ==
    CASE at[c] = "upload" -> {StoreOp(Refs[c])}
      [] at[c] = "write"  -> {PublishOp(Publishes[c], Refs[c])}
      [] at[c] = "plan"   -> {ListEntriesOp}
      [] at[c] = "local"  -> {ListDigestsOp}
      [] at[c] = "sweep"  -> {DeleteOp(d) : d \in plan.unreachable}
      [] OTHER            -> {}

Begin(c) ==
    /\ op[c] = NoOp
    /\ \E o \in Wants(c) :
         /\ HasPermit(o)
         /\ op' = [op EXCEPT ![c] = o]
    /\ UNCHANGED <<blobs, entries, barrier, at, orphans, plan, done>>

\* A caller returns, with the error of an operation or not: its guard is
\* dropped.  A sweep may then be started again.
Return(c, where) ==
    /\ barrier' = Dropped(c)
    /\ at' = [at EXCEPT ![c] = IF c = Sweeper THEN "gate" ELSE where]
    /\ plan' = IF c = Sweeper THEN [reachable |-> {}, unreachable |-> {}] ELSE plan
    /\ done' = IF c = Sweeper THEN [done EXCEPT !.sweeps = @ + 1] ELSE done

\* ThroughputLimit.
Refused(c) ==
    /\ op[c] = NoOp
    /\ \E o \in Wants(c) : ~HasPermit(o)
    /\ Return(c, "failed")
    /\ UNCHANGED <<blobs, entries, op, orphans>>

\* What the transaction of an operation makes durable.
Stored(o) == CASE o.do = "store"  -> blobs \cup o.digests
               [] o.do = "delete" -> blobs \ {o.digest}
               [] OTHER           -> blobs
Published(o) == IF o.do = "publish" THEN [entries EXCEPT ![o.action] = o.digests] ELSE entries

Uploaded(p) ==
    /\ op[p].do = "store"
    /\ blobs' = Stored(op[p])
    /\ op' = [op EXCEPT ![p] = NoOp]
    /\ at' = [at EXCEPT ![p] = "gate"]
    /\ UNCHANGED <<entries, barrier, orphans, plan, done>>

UpdateActionResult(p) ==
    /\ op[p].do = "publish"
    /\ entries' = Published(op[p])
    /\ op' = [op EXCEPT ![p] = NoOp]
    /\ Return(p, "done")
    /\ UNCHANGED <<blobs, orphans>>

Reachable == UNION {entries[a] : a \in Action}

\* plan: the action cache first, the CAS after it, in two transactions.
ListEntries ==
    /\ op[Sweeper].do = "list_entries"
    /\ plan' = [plan EXCEPT !.reachable = Reachable]
    /\ op' = [op EXCEPT ![Sweeper] = NoOp]
    /\ at' = [at EXCEPT ![Sweeper] = "local"]
    /\ UNCHANGED <<blobs, entries, barrier, orphans, done>>

ListDigests ==
    /\ op[Sweeper].do = "list_digests"
    /\ plan' = [plan EXCEPT !.unreachable = blobs \ plan.reachable]
    /\ op' = [op EXCEPT ![Sweeper] = NoOp]
    /\ at' = [at EXCEPT ![Sweeper] = "sweep"]
    /\ UNCHANGED <<blobs, entries, barrier, orphans, done>>

\* sweep_with_plan_locked, one blob after the other.
DeleteBlob ==
    /\ op[Sweeper].do = "delete"
    /\ blobs' = Stored(op[Sweeper])
    /\ plan' = [plan EXCEPT !.unreachable = @ \ {op[Sweeper].digest}]
    /\ op' = [op EXCEPT ![Sweeper] = NoOp]
    /\ UNCHANGED <<entries, barrier, at, orphans, done>>

SweepEnds ==
    /\ at[Sweeper] = "sweep" /\ op[Sweeper] = NoOp
    /\ plan.unreachable = {}
    /\ Return(Sweeper, "gate")
    /\ UNCHANGED <<blobs, entries, op, orphans>>

\* The future of a caller is dropped: its client went away, or it was aborted.
Cancel(c) ==
    /\ done.cancels < MaxCancels
    /\ op[c] # NoOp
    /\ orphans' = orphans \cup {op[c]}
    /\ op' = [op EXCEPT ![c] = NoOp]
    /\ barrier' = Dropped(c)
    /\ at' = [at EXCEPT ![c] = IF c = Sweeper THEN "gate" ELSE "failed"]
    /\ plan' = IF c = Sweeper THEN [reachable |-> {}, unreachable |-> {}] ELSE plan
    /\ done' = [sweeps |-> done.sweeps + (IF c = Sweeper THEN 1 ELSE 0),
                cancels |-> done.cancels + 1]
    /\ UNCHANGED <<blobs, entries>>

OrphanCommits(o) ==
    /\ blobs' = Stored(o)
    /\ entries' = Published(o)
    /\ orphans' = orphans \ {o}
    /\ UNCHANGED <<barrier, at, op, plan, done>>

CallerStep(c) == Begin(c) \/ Refused(c) \/ GcWindow(c)
PublisherStep(p) == Uploaded(p) \/ UpdateActionResult(p)
SweeperStep == ListEntries \/ ListDigests \/ DeleteBlob \/ SweepEnds

CollectorNext ==
    \/ \E c \in Caller : CallerStep(c) \/ Cancel(c)
    \/ \E p \in Publisher : PublisherStep(p)
    \/ SweeperStep
    \/ \E o \in orphans : OrphanCommits(o)

CollectorSpec == CollectorInit /\ [][CollectorNext]_cvars

-----------------------------------------------------------------------------
\* A blob that a cached result refers to is not deleted: whatever is
\* committed before a sweep is in its plan, and nothing is committed during
\* it (gc.rs sweep, the guard of update_action_result).
CommittedIsKept ==
    [][\A d \in blobs \ blobs' : d \notin Reachable]_cvars

\* Every writer gets through: a sweep that ends, in whichever way, lets go
\* of the barrier (gc.rs sweep, action_cache.rs gc_window).
WritersGetThrough ==
    \A p \in Publisher : []<>(at[p] \in {"done", "failed"})
=============================================================================
