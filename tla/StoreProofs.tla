---------------------------- MODULE StoreProofs -----------------------------
(***************************************************************************)
(* Proofs about the stores: the filter in front of a blob store, the       *)
(* replicated store with its ring, its quorums and its repair, the         *)
(* collector of unreferenced blobs, and the limit on the tasks of the      *)
(* metadata store.                                                         *)
(***************************************************************************)
EXTENDS FilteredCas, ReplicatedCas, Collector, MetaStore, FiniteSetTheorems,
        WellFoundedInduction, TLAPS

-----------------------------------------------------------------------------
(* The metadata store (metakv.rs).                                         *)

(* However many calls are made and abandoned, and whatever the limit is,   *)
(* no more blocking tasks run than there are permits (run_blocking).       *)
THEOREM PermitsBoundTasks == MetaSpec => []TasksAreBounded
<1> DEFINE Inv == IsFiniteSet(tasks) /\ TasksAreBounded
<1>1. MetaInit => Inv
  BY FS_EmptySet, MetaAssumption DEF MetaInit, TasksAreBounded
<1>2. Inv /\ [MetaNext]_mvars => Inv'
  <2> SUFFICES ASSUME Inv, [MetaNext]_mvars
               PROVE  Inv'
    BY Zenon
  <2>1. Cardinality(tasks) \in Nat
    BY FS_CardinalityType, Zenon
  <2>2. ASSUME NEW o \in TaskKinds, RunBlocking(o)
        PROVE  Inv'
    <3> DEFINE t == [id |-> started, op |-> o]
    <3>1. {u \in tasks : KeepsPermit(u)} = tasks
      BY Zenon DEF KeepsPermit
    <3>2. Cardinality(tasks) < MaxConcurrent /\ tasks' = tasks \cup {t}
      BY <2>2, <3>1, Zenon DEF RunBlocking
    <3> HIDE DEF t
    <3>3. IsFiniteSet(tasks') /\ Cardinality(tasks') <= Cardinality(tasks) + 1
      BY <2>1, <3>2, FS_AddElement
    <3>4. Cardinality(tasks') \in Nat
      BY <3>3, FS_CardinalityType, Zenon
    <3> QED  BY <2>1, <3>2, <3>3, <3>4, MetaAssumption DEF TasksAreBounded
  <2>3. ASSUME tasks' \subseteq tasks
        PROVE  Inv'
    <3>1. IsFiniteSet(tasks') /\ Cardinality(tasks') <= Cardinality(tasks)
      BY <2>3, FS_Subset, Zenon
    <3>2. Cardinality(tasks') \in Nat
      BY <3>1, FS_CardinalityType, Zenon
    <3> QED  BY <2>1, <3>1, <3>2, MetaAssumption DEF TasksAreBounded
  <2>4. tasks' \subseteq tasks \/ \E o \in TaskKinds : RunBlocking(o)
    BY Zenon DEF MetaNext, CallerGone, Commit, mvars
  <2> QED  BY <2>2, <2>3, <2>4, Zenon
<1> QED
  BY <1>1, <1>2, PTL DEF MetaSpec

-----------------------------------------------------------------------------
(* The collector.  CommittedIsKept holds for every number of writers,      *)
(* blobs and sweeps, where the cache has a real gc_window and no caller is *)
(* cancelled.  The run gc_cancelled shows that the second condition is     *)
(* needed.                                                                 *)

\* A writer has the barrier exactly while it writes, and waits for the
\* operation of the place it is at.
WriterOk(p) ==
    /\ at[p] \in {"upload", "gate", "write", "done", "failed"}
    /\ at[p] = "write" <=> barrier = p
    /\ \/ op[p] = NoOp
       \/ op[p] = StoreOp(Refs[p]) /\ at[p] = "upload"
       \/ op[p] = PublishOp(Publishes[p], Refs[p]) /\ at[p] = "write"

\* A sweep has the barrier from its plan to its end.
SweepOk ==
    /\ at[Sweeper] \in {"gate", "plan", "local", "sweep"}
    /\ at[Sweeper] # "gate" <=> barrier = Sweeper
    /\ \/ op[Sweeper] = NoOp
       \/ op[Sweeper] = ListEntriesOp /\ at[Sweeper] = "plan"
       \/ op[Sweeper] = ListDigestsOp /\ at[Sweeper] = "local"
       \/ at[Sweeper] = "sweep" /\ \E d \in plan.unreachable : op[Sweeper] = DeleteOp(d)

\* While it runs, its plan is what the cache holds.
PlanOk ==
    /\ plan = [reachable |-> plan.reachable, unreachable |-> plan.unreachable]
    /\ at[Sweeper] \in {"local", "sweep"} => plan.reachable = Reachable
    /\ at[Sweeper] = "sweep" => plan.unreachable \cap plan.reachable = {}

CollectorInv ==
    /\ orphans = {}
    /\ done = [sweeps |-> done.sweeps, cancels |-> 0]
    /\ at = [c \in Caller |-> at[c]] /\ op = [c \in Caller |-> op[c]]
    /\ \A p \in Publisher : WriterOk(p)
    /\ SweepOk
    /\ PlanOk

-----------------------------------------------------------------------------
(* The operations differ in what they do.                                  *)
LEMMA OperationsDiffer ==
  ASSUME NEW a, NEW ds, NEW d
  PROVE  /\ NoOp.do = "nothing" /\ StoreOp(ds).do = "store" /\ PublishOp(a, ds).do = "publish"
         /\ ListEntriesOp.do = "list_entries" /\ ListDigestsOp.do = "list_digests"
         /\ DeleteOp(d).do = "delete" /\ DeleteOp(d).digest = d
BY Zenon DEF NoOp, StoreOp, PublishOp, ListEntriesOp, ListDigestsOp, DeleteOp

(* The operation that a caller asks for next belongs to where it is.       *)
LEMMA WhatIsWanted ==
  ASSUME NEW c, NEW o \in Wants(c)
  PROVE  \/ at[c] = "upload" /\ o = StoreOp(Refs[c])
         \/ at[c] = "write" /\ o = PublishOp(Publishes[c], Refs[c])
         \/ at[c] = "plan" /\ o = ListEntriesOp
         \/ at[c] = "local" /\ o = ListDigestsOp
         \/ at[c] = "sweep" /\ \E d \in plan.unreachable : o = DeleteOp(d)
BY Zenon DEF Wants

\* At the start nobody is inside the barrier.
LEMMA CollectorInitInv ==
  ASSUME CollectorInit
  PROVE  CollectorInv
<1>1. at[Sweeper] = "gate" /\ \A p \in Publisher : at[p] = "upload"
  BY CollectorAssumption, Zenon DEF CollectorInit, Caller
<1>2. \A c \in Caller : op[c] = NoOp
  BY Zenon DEF CollectorInit
<1>3. barrier = Free /\ barrier # Sweeper /\ \A p \in Publisher : barrier # p
  BY CollectorAssumption, Zenon DEF CollectorInit
<1>4. \A p \in Publisher : WriterOk(p)
  BY <1>1, <1>2, <1>3, Zenon DEF WriterOk, Caller
<1>5. SweepOk
  BY <1>1, <1>2, <1>3, Zenon DEF SweepOk, Caller
<1>6. PlanOk
  BY <1>1, Zenon DEF PlanOk, CollectorInit
<1> QED
  BY <1>4, <1>5, <1>6, Zenon DEF CollectorInv, CollectorInit

-----------------------------------------------------------------------------
(* The steps of a caller, a writer or the sweep.                           *)

\* A caller that starts on an operation.
LEMMA BeginKeepsInv ==
  ASSUME CollectorInv, NEW c \in Caller, Begin(c)
  PROVE  CollectorInv'
<1>1. PICK o \in Wants(c) : op' = [op EXCEPT ![c] = o]
  BY Zenon DEF Begin
<1>2. UNCHANGED <<entries, barrier, at, orphans, plan, done>>
  BY Zenon DEF Begin
<1>3. op'[c] = o /\ \A e \in Caller \ {c} : op'[e] = op[e]
  BY <1>1, Zenon DEF CollectorInv
<1>4. ASSUME NEW p \in Publisher
      PROVE  WriterOk(p)'
  <2>1. CASE p = c
    BY <1>2, <1>3, <2>1, WhatIsWanted, Zenon DEF CollectorInv, WriterOk
  <2>2. CASE p # c
    BY <1>2, <1>3, <2>2, Zenon DEF CollectorInv, WriterOk, Caller
  <2> QED
    BY <2>1, <2>2, Zenon
<1>5. SweepOk'
  <2>1. CASE c = Sweeper
    BY <1>2, <1>3, <2>1, WhatIsWanted, Zenon DEF CollectorInv, SweepOk
  <2>2. CASE c # Sweeper
    BY <1>2, <1>3, <2>2, Zenon DEF CollectorInv, SweepOk, Caller
  <2> QED
    BY <2>1, <2>2, Zenon
<1>6. PlanOk'
  BY <1>2 DEF CollectorInv, PlanOk, Reachable
<1> QED
  BY <1>1, <1>2, <1>4, <1>5, <1>6, Zenon DEF CollectorInv

\* A caller that takes the barrier finds nobody else inside.
LEMMA GcWindowKeepsInv ==
  ASSUME Guarded, CollectorInv, NEW c \in Caller, GcWindow(c)
  PROVE  CollectorInv'
<1>1. /\ barrier = Free /\ barrier' = c /\ at[c] = "gate"
      /\ at' = [at EXCEPT ![c] = IF c = Sweeper THEN "plan" ELSE "write"]
      /\ UNCHANGED <<entries, op, orphans, plan, done>>
  BY Zenon DEF GcWindow, MayHold
<1>2. at'[c] = (IF c = Sweeper THEN "plan" ELSE "write") /\ \A e \in Caller \ {c} : at'[e] = at[e]
  BY <1>1, Zenon DEF CollectorInv
<1>3. op[c] = NoOp
  BY <1>1, Zenon DEF CollectorInv, WriterOk, SweepOk, Caller
<1>4. ASSUME NEW p \in Publisher
      PROVE  WriterOk(p)'
  BY <1>1, <1>2, <1>3, CollectorAssumption, Zenon DEF CollectorInv, WriterOk, Caller
<1>5. SweepOk'
  BY <1>1, <1>2, <1>3, CollectorAssumption, Zenon DEF CollectorInv, SweepOk, Caller
<1>6. PlanOk'
  BY <1>1, <1>2 DEF CollectorInv, PlanOk, Reachable, Caller
<1> QED
  BY <1>1, <1>4, <1>5, <1>6, Zenon DEF CollectorInv

(* A caller that returns drops its guard, and only its own (the guard's    *)
(* scope in sweep and update_action_result).                               *)
LEMMA ReturnKeepsInv ==
  ASSUME CollectorInv, NEW c \in Caller, NEW where \in {"done", "failed", "gate"},
         c = Sweeper \/ where # "gate",
         Return(c, where), orphans' = orphans, op' = [op EXCEPT ![c] = NoOp],
         entries' = entries \/ (c \in Publisher /\ at[c] = "write")
  PROVE  CollectorInv'
<1>1. /\ barrier' = Dropped(c)
      /\ at' = [at EXCEPT ![c] = IF c = Sweeper THEN "gate" ELSE where]
      /\ plan' = IF c = Sweeper THEN [reachable |-> {}, unreachable |-> {}] ELSE plan
      /\ done' = IF c = Sweeper THEN [done EXCEPT !.sweeps = @ + 1] ELSE done
  BY Zenon DEF Return
<1>2. /\ at'[c] = (IF c = Sweeper THEN "gate" ELSE where) /\ op'[c] = NoOp
      /\ \A e \in Caller \ {c} : at'[e] = at[e] /\ op'[e] = op[e]
  BY <1>1, Zenon DEF CollectorInv
<1>3. barrier' # c /\ \A e \in Caller \ {c} : barrier' = e <=> barrier = e
  BY <1>1, CollectorAssumption, Zenon DEF Dropped, Caller
<1>4. ASSUME NEW p \in Publisher
      PROVE  WriterOk(p)'
  <2>1. CASE p = c
    BY <1>2, <1>3, <2>1, CollectorAssumption, Zenon DEF WriterOk
  <2>2. CASE p # c
    BY <1>2, <1>3, <2>2, Zenon DEF CollectorInv, WriterOk, Caller
  <2> QED
    BY <2>1, <2>2, Zenon
<1>5. SweepOk'
  <2>1. CASE c = Sweeper
    BY <1>2, <1>3, <2>1, Zenon DEF SweepOk
  <2>2. CASE c # Sweeper
    BY <1>1, <1>2, <1>3, <2>2, Zenon DEF CollectorInv, SweepOk, Caller
  <2> QED
    BY <2>1, <2>2, Zenon
<1>6. PlanOk'
  <2>1. CASE c = Sweeper
    BY <1>1, <1>2, <2>1 DEF PlanOk
  <2>2. CASE c # Sweeper /\ entries' = entries
    BY <1>1, <1>2, <2>2 DEF CollectorInv, PlanOk, Reachable, Caller
  <2>3. CASE c \in Publisher /\ at[c] = "write"
    <3>1. barrier = c /\ c # Sweeper
      BY <2>3, CollectorAssumption, Zenon DEF CollectorInv, WriterOk
    <3>2. at'[Sweeper] = "gate"
      BY <1>2, <3>1, Zenon DEF CollectorInv, SweepOk, Caller
    <3> QED
      BY <1>1, <3>1, <3>2, Zenon DEF CollectorInv, PlanOk
  <2> QED
    BY <2>1, <2>2, <2>3, Zenon
<1>7. done' = [sweeps |-> done'.sweeps, cancels |-> 0]
  BY <1>1 DEF CollectorInv
<1> QED
  BY <1>1, <1>4, <1>5, <1>6, <1>7, Zenon DEF CollectorInv

\* A caller that is turned away.
LEMMA RefusedKeepsInv ==
  ASSUME CollectorInv, NEW c \in Caller, Refused(c)
  PROVE  CollectorInv'
<1>1. Return(c, "failed") /\ UNCHANGED <<entries, op, orphans>> /\ op[c] = NoOp
  BY Zenon DEF Refused
<1>2. op' = [op EXCEPT ![c] = NoOp]
  BY <1>1, Zenon DEF CollectorInv
<1> QED
  BY <1>1, <1>2, ReturnKeepsInv, Zenon

\* A publisher only ever adds blobs.
LEMMA PublisherKeepsInv ==
  ASSUME CollectorInv, NEW p \in Publisher, PublisherStep(p)
  PROVE  CollectorInv' /\ blobs \subseteq blobs'
<1>0. p \in Caller /\ p # Sweeper
  BY CollectorAssumption, Zenon DEF Caller
<1>1. CASE Uploaded(p)
  <2>1. /\ op' = [op EXCEPT ![p] = NoOp] /\ at' = [at EXCEPT ![p] = "gate"]
        /\ UNCHANGED <<entries, barrier, orphans, plan, done>>
    BY <1>1, Zenon DEF Uploaded
  <2>2. at[p] = "upload" /\ op[p] = StoreOp(Refs[p])
    <3>1. op[p].do = "store" /\ WriterOk(p)
      BY <1>1, Zenon DEF Uploaded, CollectorInv
    <3>2. op[p] # NoOp /\ op[p] # PublishOp(Publishes[p], Refs[p])
      BY <3>1, OperationsDiffer
    <3> QED
      BY <3>1, <3>2, Zenon DEF WriterOk
  <2>3. blobs' = blobs \cup Refs[p]
    <3>1. op[p].do = "store" /\ op[p].digests = Refs[p]
      BY <2>2 DEF StoreOp
    <3> QED
      BY <1>1, <3>1, Zenon DEF Uploaded, Stored
  <2>4. /\ at'[p] = "gate" /\ op'[p] = NoOp
        /\ \A e \in Caller \ {p} : at'[e] = at[e] /\ op'[e] = op[e]
    BY <1>0, <2>1, Zenon DEF CollectorInv
  <2>5. ASSUME NEW q \in Publisher
        PROVE  WriterOk(q)'
    <3>1. CASE q = p
      BY <2>1, <2>2, <2>4, <3>1, Zenon DEF CollectorInv, WriterOk
    <3>2. CASE q # p
      BY <2>1, <2>4, <3>2, Zenon DEF CollectorInv, WriterOk, Caller
    <3> QED
      BY <3>1, <3>2, Zenon
  <2>6. SweepOk' /\ PlanOk'
    BY <1>0, <2>1, <2>4 DEF CollectorInv, SweepOk, PlanOk, Reachable, Caller
  <2> QED
    BY <2>1, <2>3, <2>5, <2>6, Zenon DEF CollectorInv
<1>2. CASE UpdateActionResult(p)
  <2>1. at[p] = "write"
    <3>1. op[p].do = "publish" /\ WriterOk(p)
      BY <1>2, Zenon DEF UpdateActionResult, CollectorInv
    <3>2. op[p] # NoOp /\ op[p] # StoreOp(Refs[p])
      BY <3>1, OperationsDiffer
    <3> QED
      BY <3>1, <3>2, Zenon DEF WriterOk
  <2>2. /\ Return(p, "done") /\ UNCHANGED <<blobs, orphans>>
        /\ op' = [op EXCEPT ![p] = NoOp]
    BY <1>2, Zenon DEF UpdateActionResult
  <2> QED
    BY <1>0, <2>1, <2>2, ReturnKeepsInv, Zenon
<1> QED
  BY <1>1, <1>2, Zenon DEF PublisherStep

(* The sweep deletes only what its plan found unreachable, and that plan   *)
(* is still true (plan, sweep_with_plan_locked).                           *)
LEMMA SweeperKeepsInv ==
  ASSUME CollectorInv, SweeperStep
  PROVE  CollectorInv' /\ \A d \in blobs \ blobs' : d \notin Reachable
<1>0. Sweeper \in Caller /\ \A p \in Publisher : p \in Caller /\ p # Sweeper
  BY CollectorAssumption, Zenon DEF Caller
<1>1. ASSUME op' = [op EXCEPT ![Sweeper] = NoOp],
             \A p \in Publisher : at'[p] = at[p],
             UNCHANGED barrier
      PROVE  \A p \in Publisher : WriterOk(p)'
  BY <1>0, <1>1, Zenon DEF CollectorInv, WriterOk
<1>2. CASE ListEntries
  <2>1. /\ plan' = [plan EXCEPT !.reachable = Reachable]
        /\ op' = [op EXCEPT ![Sweeper] = NoOp] /\ at' = [at EXCEPT ![Sweeper] = "local"]
        /\ UNCHANGED <<blobs, entries, barrier, orphans, done>>
    BY <1>2, Zenon DEF ListEntries
  <2>2. at[Sweeper] = "plan"
    BY <1>2, OperationsDiffer, Zenon DEF ListEntries, CollectorInv, SweepOk
  <2>3. /\ at'[Sweeper] = "local" /\ op'[Sweeper] = NoOp
        /\ \A p \in Publisher : at'[p] = at[p]
    BY <1>0, <2>1, Zenon DEF CollectorInv
  <2>4. SweepOk'
    BY <2>1, <2>2, <2>3, Zenon DEF CollectorInv, SweepOk
  <2>5. PlanOk'
    <3>1. plan' = [reachable |-> Reachable, unreachable |-> plan.unreachable]
      BY <2>1, Zenon DEF CollectorInv, PlanOk
    <3>2. Reachable' = Reachable
      BY <2>1, Zenon DEF Reachable
    <3> QED
      BY <2>3, <3>1, <3>2, Zenon DEF PlanOk
  <2> QED
    BY <1>1, <2>1, <2>3, <2>4, <2>5, Zenon DEF CollectorInv
<1>3. CASE ListDigests
  <2>1. /\ plan' = [plan EXCEPT !.unreachable = blobs \ plan.reachable]
        /\ op' = [op EXCEPT ![Sweeper] = NoOp] /\ at' = [at EXCEPT ![Sweeper] = "sweep"]
        /\ UNCHANGED <<blobs, entries, barrier, orphans, done>>
    BY <1>3, Zenon DEF ListDigests
  <2>2. at[Sweeper] = "local"
    BY <1>3, OperationsDiffer, Zenon DEF ListDigests, CollectorInv, SweepOk
  <2>3. /\ at'[Sweeper] = "sweep" /\ op'[Sweeper] = NoOp
        /\ \A p \in Publisher : at'[p] = at[p]
    BY <1>0, <2>1, Zenon DEF CollectorInv
  <2>4. SweepOk'
    BY <2>1, <2>2, <2>3, Zenon DEF CollectorInv, SweepOk
  <2>5. PlanOk'
    <3>1. plan.reachable = Reachable
          /\ plan' = [reachable |-> plan.reachable, unreachable |-> blobs \ plan.reachable]
      BY <2>1, <2>2, Zenon DEF CollectorInv, PlanOk
    <3>2. Reachable' = Reachable
      BY <2>1, Zenon DEF Reachable
    <3> QED
      BY <2>3, <3>1, <3>2, Zenon DEF PlanOk
  <2> QED
    BY <1>1, <2>1, <2>3, <2>4, <2>5, Zenon DEF CollectorInv
<1>4. CASE DeleteBlob
  <2>1. PICK d \in plan.unreachable : op[Sweeper] = DeleteOp(d) /\ at[Sweeper] = "sweep"
    BY <1>4, OperationsDiffer, Zenon DEF DeleteBlob, CollectorInv, SweepOk
  <2>2. op[Sweeper].do = "delete" /\ op[Sweeper].digest = d
    BY <2>1, OperationsDiffer, Zenon
  <2>3. /\ plan' = [plan EXCEPT !.unreachable = @ \ {d}]
        /\ op' = [op EXCEPT ![Sweeper] = NoOp]
        /\ UNCHANGED <<entries, barrier, at, orphans, done>>
    BY <1>4, <2>2, Zenon DEF DeleteBlob
  <2>4. blobs' = blobs \ {d}
    BY <1>4, <2>2, Zenon DEF DeleteBlob, Stored
  <2>5. d \notin Reachable
    BY <2>1, Zenon DEF CollectorInv, PlanOk
  <2>6. SweepOk'
    BY <1>0, <2>1, <2>3, Zenon DEF CollectorInv, SweepOk
  <2>7. PlanOk'
    BY <2>3 DEF CollectorInv, PlanOk, Reachable
  <2> QED
    BY <1>1, <2>3, <2>4, <2>5, <2>6, <2>7, Zenon DEF CollectorInv
<1>5. CASE SweepEnds
  <2>1. op' = [op EXCEPT ![Sweeper] = NoOp]
    BY <1>0, <1>5, Zenon DEF SweepEnds, CollectorInv
  <2> QED
    BY <1>0, <1>5, <2>1, ReturnKeepsInv, Zenon DEF SweepEnds
<1> QED
  BY <1>2, <1>3, <1>4, <1>5, Zenon DEF SweeperStep

-----------------------------------------------------------------------------
\* Every step keeps the invariant, and removes no blob that is reachable.
LEMMA CollectorStep ==
  ASSUME Guarded, MaxCancels = 0, CollectorInv, CollectorNext
  PROVE  CollectorInv' /\ \A d \in blobs \ blobs' : d \notin Reachable
<1>1. ASSUME NEW c \in Caller, CallerStep(c)
      PROVE  CollectorInv' /\ blobs' = blobs
  <2>1. blobs' = blobs
    BY <1>1, Zenon DEF CallerStep, Begin, Refused, GcWindow
  <2> QED
    BY <1>1, <2>1, BeginKeepsInv, RefusedKeepsInv, GcWindowKeepsInv, Zenon DEF CallerStep
<1>2. ASSUME NEW c \in Caller, Cancel(c)
      PROVE  FALSE
  BY <1>2 DEF Cancel, CollectorInv
<1>3. ASSUME NEW o \in orphans, OrphanCommits(o)
      PROVE  FALSE
  BY <1>3, Zenon DEF CollectorInv
<1> QED
  BY <1>1, <1>2, <1>3, PublisherKeepsInv, SweeperKeepsInv, Zenon DEF CollectorNext

(* However many writers and sweeps there are, a sweep that is not          *)
(* cancelled never deletes a blob that a cached result refers to: what was *)
(* published before it is in its plan, and nothing is published during it  *)
(* (gc.rs sweep, RedbActionCache::gc_window).                              *)
THEOREM UncancelledSweepsKeepCommitted ==
  ASSUME Guarded, MaxCancels = 0
  PROVE  CollectorSpec => CommittedIsKept
<1> DEFINE Spared == \A d \in blobs \ blobs' : d \notin Reachable
<1>1. CollectorInv /\ [CollectorNext]_cvars => CollectorInv' /\ [Spared]_cvars
  <2>1. CollectorInv /\ UNCHANGED cvars => CollectorInv'
    BY DEF CollectorInv, cvars, WriterOk, SweepOk, PlanOk, Reachable
  <2> QED
    BY <2>1, CollectorStep, Zenon
<1>2. CommittedIsKept <=> [][Spared]_cvars
  BY Zenon DEF CommittedIsKept
<1> HIDE DEF Spared
<1> QED
  BY <1>1, <1>2, CollectorInitInv, PTL DEF CollectorSpec

-----------------------------------------------------------------------------
(* The filter.  NoFalseNegative holds for every filter: any number of bits *)
(* and of hash functions, any hashes, any number of crashes.               *)

\* The invariant.  A confirmed blob is stored, and while the node serves, its
\* bits are set; nothing is being stored while the node is down.
FilterInv ==
    /\ inner \subseteq Blob /\ storing \subseteq Blob
    /\ confirmed \subseteq inner
    /\ serving \in BOOLEAN
    /\ serving => \A d \in confirmed : MayContain(bits, d)
    /\ ~serving => storing = {}

(* Bits are only ever added while the node serves (Bloom::insert).         *)
LEMMA InsertKeepsMembers ==
  ASSUME NEW bs, NEW d, NEW e
  PROVE  /\ MayContain(InsertBits(bs, d), d)
         /\ MayContain(bs, e) => MayContain(InsertBits(bs, d), e)
BY Zenon DEF MayContain, InsertBits

(* A filter rebuilt from a list contains the whole list (rebuild_from).    *)
LEMMA RebuildContainsAll ==
  ASSUME NEW ds, NEW d \in ds
  PROVE  MayContain(RebuildFrom(ds), d)
BY Zenon DEF MayContain, RebuildFrom

(* Every step keeps the invariant.                                         *)
LEMMA FilterStepInv ==
  ASSUME FilterInv, [FilterNext]_bvars
  PROVE  FilterInv'
<1>1. CASE UNCHANGED bvars
  BY <1>1, Zenon DEF FilterInv, bvars, MayContain
<1>2. ASSUME NEW d \in Blob, UpdateInner(d)
      PROVE  FilterInv'
  BY <1>2, Zenon DEF UpdateInner, FilterInv, MayContain
<1>3. ASSUME NEW d \in Blob, InsertFilter(d)
      PROVE  FilterInv'
  <2>1. serving /\ serving' /\ bits' = InsertBits(bits, d)
    BY <1>3, Zenon DEF InsertFilter, FilterInv
  <2>2. confirmed' = confirmed \cup ({d} \cap inner) /\ inner' = inner /\ storing' \subseteq storing
    BY <1>3, Zenon DEF InsertFilter
  <2>3. \A e \in confirmed' : MayContain(bits', e)
    BY <2>1, <2>2, InsertKeepsMembers, Zenon DEF FilterInv
  <2>4. \A e \in confirmed' : MayContain(bits, e)'
    BY <2>3, Zenon DEF MayContain
  <2> QED
    BY <1>3, <2>1, <2>2, <2>4, Zenon DEF FilterInv, InsertFilter
<1>4. ASSUME NEW d \in Blob, DeleteInner(d)
      PROVE  FilterInv'
  BY <1>4, Zenon DEF DeleteInner, FilterInv, MayContain
<1>5. CASE CrashFilter
  BY <1>5, Zenon DEF CrashFilter, FilterInv
<1>6. CASE Rebuild
  <2>1. \A e \in confirmed' : MayContain(bits', e)
    BY <1>6, RebuildContainsAll, Zenon DEF Rebuild, FilterInv
  <2>2. \A e \in confirmed' : MayContain(bits, e)'
    BY <2>1, Zenon DEF MayContain
  <2> QED
    BY <1>6, <2>2, Zenon DEF Rebuild, FilterInv
<1> QED
  BY <1>1, <1>2, <1>3, <1>4, <1>5, <1>6, Zenon DEF FilterNext

(* An acknowledged blob that nobody deleted is never reported missing,     *)
(* whatever the hashes and however often the filter is lost and rebuilt    *)
(* (BloomCas find_missing_blobs).                                          *)
THEOREM NeverFalseNegative == FilterSpec => []NoFalseNegative
<1>1. FilterInit => FilterInv
  BY Zenon DEF FilterInit, FilterInv
<1>2. FilterInv => NoFalseNegative
  BY Zenon DEF FilterInv, NoFalseNegative, FindMissing
<1> QED
  BY <1>1, <1>2, FilterStepInv, PTL DEF FilterSpec

-----------------------------------------------------------------------------
(* Rendezvous hashing (ring.rs).                                           *)

(* Every set of numbers that is not empty has a least member.              *)
LEMMA LeastOf ==
  ASSUME NEW S, S \subseteq Nat, S # {}
  PROVE  \E x \in S : \A y \in S : x <= y
<1> DEFINE R == OpToRel(<, Nat)
<1>1. PICK x \in S : \A y \in S : ~(<<y, x>> \in R)
  BY NatLessThanWellFounded, WFMin, Zenon
<1>2. ASSUME NEW y \in S
      PROVE  x <= y
  <2>1. x \in Nat /\ y \in Nat
    BY Zenon
  <2>2. ~(y < x)
    BY <1>1, <2>1, Zenon DEF OpToRel
  <2> QED  BY <2>1, <2>2
<1> QED  BY <1>2, Zenon

(* The nodes ahead of a node, and the replicas, are some of the nodes.     *)
LEMMA AheadIsFinite ==
  ASSUME NEW d \in Ranked, NEW nodes \in SUBSET Node, NEW n \in Node
  PROVE  /\ Ahead(d, nodes, n) \subseteq nodes
         /\ IsFiniteSet(Ahead(d, nodes, n))
         /\ Cardinality(Ahead(d, nodes, n)) \in Nat
BY ReplicationAssumption, FS_Subset, FS_CardinalityType, Zenon DEF Ahead

(* A node that is ahead of a replica is a replica itself (replicas_for).   *)
LEMMA TopIsClosed ==
  ASSUME NEW d \in Ranked, NEW nodes \in SUBSET Node, NEW r \in Nat,
         NEW b \in Top(d, nodes, r), NEW n \in nodes, Score[d][n] > Score[d][b]
  PROVE  n \in Top(d, nodes, r)
<1>1. b \in nodes /\ n \in Node /\ b \in Node
  BY Zenon DEF Top
<1>2. Score[d][n] \in Nat /\ Score[d][b] \in Nat /\ \A m \in Node : Score[d][m] \in Nat
  BY <1>1, ReplicationAssumption, Zenon DEF Ranked
<1>3. Ahead(d, nodes, n) \subseteq Ahead(d, nodes, b)
  BY <1>1, <1>2 DEF Ahead
<1>4. Cardinality(Ahead(d, nodes, n)) <= Cardinality(Ahead(d, nodes, b))
  BY <1>1, <1>3, AheadIsFinite, FS_Subset, Zenon
<1>5. Cardinality(Ahead(d, nodes, b)) < r
  BY Zenon DEF Top
<1> QED
  BY <1>1, <1>4, <1>5, AheadIsFinite DEF Top

(* If an eligible node is left out, there are as many replicas as asked    *)
(* for: the best of the nodes that are left out has that many ahead of it, *)
(* and none of those is left out.                                          *)
LEMMA TopIsFull ==
  ASSUME NEW d \in Ranked, NEW nodes \in SUBSET Node, NEW r \in Nat,
         nodes \ Top(d, nodes, r) # {}
  PROVE  r <= Cardinality(Top(d, nodes, r))
<1> DEFINE top == Top(d, nodes, r)
           out == nodes \ top
           C == {Cardinality(Ahead(d, nodes, n)) : n \in out}
<1>1. C \subseteq Nat /\ C # {}
  BY AheadIsFinite, Zenon
<1>2. PICK x \in C : \A y \in C : x <= y
  BY <1>1, LeastOf, Zenon
<1>3. PICK e \in out : x = Cardinality(Ahead(d, nodes, e))
  BY <1>2, Zenon
<1>4. e \in Node /\ e \in nodes /\ \A m \in Node : Score[d][m] \in Nat
  BY ReplicationAssumption, Zenon DEF Ranked
<1>5. Ahead(d, nodes, e) \subseteq top
  <2> SUFFICES ASSUME NEW m \in Ahead(d, nodes, e), m \in out
               PROVE  FALSE
    BY <1>4, AheadIsFinite, Zenon
  <2>1. m \in nodes /\ m \in Node /\ Score[d][m] > Score[d][e]
    BY Zenon DEF Ahead
  <2>2. Ahead(d, nodes, m) \subseteq Ahead(d, nodes, e)
    BY <1>4, <2>1 DEF Ahead
  <2>3. m \notin Ahead(d, nodes, m)
    BY <1>4, <2>1 DEF Ahead
  <2>4. Cardinality(Ahead(d, nodes, m)) < Cardinality(Ahead(d, nodes, e))
    BY <1>4, <2>1, <2>2, <2>3, AheadIsFinite, FS_Subset
  <2>5. Cardinality(Ahead(d, nodes, e)) <= Cardinality(Ahead(d, nodes, m))
    BY <1>2, <1>3, Zenon
  <2>6. /\ Cardinality(Ahead(d, nodes, m)) \in Nat
        /\ Cardinality(Ahead(d, nodes, e)) \in Nat
    BY <1>4, <2>1, AheadIsFinite, Zenon
  <2> QED
    BY <2>4, <2>5, <2>6
<1>6. ~(Cardinality(Ahead(d, nodes, e)) < r)
  BY <1>4, Zenon DEF Top
<1>7. IsFiniteSet(top) /\ Cardinality(top) \in Nat
  BY ReplicationAssumption, FS_Subset, FS_CardinalityType, Zenon DEF Top
<1>8. Cardinality(Ahead(d, nodes, e)) <= Cardinality(top)
  BY <1>5, <1>7, FS_Subset, Zenon
<1> QED
  BY <1>4, <1>6, <1>7, <1>8, AheadIsFinite

(* Minimal disruption: when the eligible nodes change from old to new, no  *)
(* more of the nodes that stay become replicas of a blob than replicas of  *)
(* it left.  The worst-scored newcomer has all the others, and every       *)
(* replica that stays, ahead of it (replicas_for).                         *)
LEMMA ReplacesOnlyTheGone ==
  ASSUME NEW d \in Ranked, NEW old \in SUBSET Node, NEW new \in SUBSET Node, NEW r \in Nat
  PROVE  Cardinality((Top(d, new, r) \ Top(d, old, r)) \cap old)
           <= Cardinality(Top(d, old, r) \ new)
<1> DEFINE before == Top(d, old, r)
           after == Top(d, new, r)
           G == (after \ before) \cap old
<1> SUFFICES Cardinality(G) <= Cardinality(before \ new)
  BY Zenon
<1>1. before \subseteq old /\ after \subseteq new
  BY Zenon DEF Top
<1>2. IsFiniteSet(before) /\ IsFiniteSet(G)
  BY <1>1, ReplicationAssumption, FS_Subset, Zenon
<1>3. /\ Cardinality(before) \in Nat /\ Cardinality(G) \in Nat
      /\ IsFiniteSet(before \cap new) /\ Cardinality(before \cap new) \in Nat
      /\ Cardinality(before \ new) = Cardinality(before) - Cardinality(before \cap new)
      /\ Cardinality(before \cap new) <= Cardinality(before)
  BY <1>2, FS_CardinalityType, FS_Intersection, FS_Difference, Zenon
<1>4. CASE G = {}
  <2>1. Cardinality(G) = 0
    BY <1>4, FS_EmptySet, Zenon
  <2> HIDE DEF G, before
  <2> QED  BY <1>3, <2>1
<1>5. CASE G # {}
  <2> DEFINE S == {Score[d][n] : n \in G}
  <2>1. \A m \in Node : Score[d][m] \in Nat
    BY ReplicationAssumption, Zenon DEF Ranked
  <2>2. S \subseteq Nat /\ S # {}
    BY <1>1, <1>5, <2>1, Zenon
  <2>3. PICK g \in G : \A n \in G : Score[d][g] <= Score[d][n]
    <3>1. PICK x \in S : \A y \in S : x <= y
      BY <2>2, LeastOf, Zenon
    <3> QED  BY <3>1, Zenon
  <2>4. g \in Node /\ g \in old /\ g \notin before /\ g \in after
    BY <1>1, Zenon
  <2>5. \A n \in before : Score[d][n] > Score[d][g]
    <3> TAKE n \in before
    <3>1. n \in Node /\ n # g
      BY <1>1, <2>4, Zenon
    <3>2. Score[d][n] # Score[d][g]
      BY <2>4, <3>1, ReplicationAssumption, Zenon DEF Ranked
    <3>3. ~(Score[d][g] > Score[d][n])
      BY <2>4, TopIsClosed, Zenon
    <3> QED  BY <2>1, <2>4, <3>1, <3>2, <3>3
  <2>6. \A n \in G \ {g} : Score[d][n] > Score[d][g]
    <3> TAKE n \in G \ {g}
    <3>1. n \in Node /\ n # g
      BY <1>1, Zenon
    <3>2. Score[d][n] # Score[d][g]
      BY <2>4, <3>1, ReplicationAssumption, Zenon DEF Ranked
    <3> QED  BY <2>1, <2>3, <2>4, <3>1, <3>2
  <2> DEFINE U == (before \cap new) \cup (G \ {g})
             A == Ahead(d, new, g)
  <2>7. U \subseteq A
    BY <1>1, <2>5, <2>6, Zenon DEF Ahead
  <2>8. IsFiniteSet(A) /\ Cardinality(A) \in Nat
    BY <2>4, AheadIsFinite, Zenon
  <2>9. Cardinality(A) < r
    BY <2>4, Zenon DEF Top
  <2>10. IsFiniteSet(G \ {g}) /\ Cardinality(G \ {g}) = Cardinality(G) - 1
    <3> HIDE DEF G
    <3> QED  BY <1>2, FS_RemoveElement, Zenon
  <2>11. (before \cap new) \cap (G \ {g}) = {}
    BY Zenon
  <2>12. Cardinality(U) = Cardinality(before \cap new) + Cardinality(G) - 1
    <3>1. Cardinality({}) = 0
      BY FS_EmptySet, Zenon
    <3> HIDE DEF G, before
    <3>2. Cardinality(U) = Cardinality(before \cap new) + Cardinality(G \ {g})
                            - Cardinality((before \cap new) \cap (G \ {g}))
      BY <1>3, <2>10, FS_Union, Zenon
    <3>3. Cardinality((before \cap new) \cap (G \ {g})) = 0
      BY <2>11, <3>1, Zenon
    <3> HIDE DEF U
    <3> QED  BY <1>3, <2>10, <3>2, <3>3
  <2>13. Cardinality(U) <= Cardinality(A)
    BY <2>7, <2>8, FS_Subset, Zenon
  <2>14. r <= Cardinality(before)
    BY <2>4, TopIsFull, Zenon
  <2> HIDE DEF G, U, A, before
  <2> QED
    BY <1>3, <2>8, <2>9, <2>12, <2>13, <2>14
<1> QED
  BY <1>4, <1>5, Zenon
-----------------------------------------------------------------------------
(* Writes, views and repairs.                                              *)

Write == [blob : SUBSET Ranked, pending : SUBSET Node, acks : SUBSET Node, nodes : SUBSET Node]
Repair == [todo : SUBSET Node, nodes : SUBSET Node, target : SUBSET Node, missing : SUBSET Ranked]
View == [generation : Nat, nodes : SUBSET Node]

ReplicasOk ==
    /\ membership \in View /\ view \in [Router -> View]
    /\ held \in [Node -> SUBSET Ranked] /\ wiped \in [Node -> SUBSET Ranked]
    /\ up \subseteq Node
    /\ writing \in [Router -> Write] /\ repair \in Repair
    /\ calm \in BOOLEAN
    /\ \A m, n \in repair.target : m = n

\* A view of a router is the current one or an older one.
ViewsOk ==
    \A c \in Router : /\ view[c].generation <= membership.generation
                      /\ view[c].generation = membership.generation => view[c] = membership

\* Q is a quorum of replicas that have stored d.
Placed(d, nodes, Q) ==
    /\ Q \subseteq ReplicaSet(d, nodes)
    /\ \A n \in Q : d \in held[n] \/ d \in wiped[n]

WritesOk ==
    /\ \A c \in Router : \A d \in writing[c].blob :
         /\ Factor > 0
         /\ writing[c].pending \subseteq ReplicaSet(d, writing[c].nodes)
         /\ Placed(d, writing[c].nodes, writing[c].acks)
    /\ \A a \in acked : /\ Factor > 0
                        /\ a[1] \in Ranked /\ a[2] \in SUBSET Node
                        /\ \E Q \in SUBSET Node : /\ Cardinality(Q) >= WriteQuorum
                                                  /\ Placed(a[1], a[2], Q)

\* Node n holds d if one of the replicas of d does.
Restored(n, d) ==
    (n \in ReplicaSet(d, repair.nodes) /\ \E m \in ReplicaSet(d, repair.nodes) : d \in held[m])
        => d \in held[n]

\* An undisturbed repair: nobody writes, what is done is restored, and what
\* the current target lacks is on its list.
RepairOk ==
    (repair # NoRepair /\ calm) =>
        /\ \A c \in Router : writing[c] = NoWrite
        /\ repair.target # {} => repair.nodes \subseteq up
        /\ \A n \in repair.nodes \ repair.todo : \A d \in Ranked : Restored(n, d)
        /\ \A n \in repair.target : \A d \in Ranked : d \in repair.missing \/ Restored(n, d)

ReplicatedInv == ReplicasOk /\ ViewsOk /\ WritesOk /\ RepairOk

(* A replica set is a set of eligible nodes; it is empty if no replicas    *)
(* are asked for.                                                          *)
LEMMA ReplicaSetIsEligible ==
  ASSUME NEW d \in Ranked, NEW nodes \in SUBSET Node
  PROVE  /\ ReplicaSet(d, nodes) \subseteq nodes
         /\ ReplicaSet(d, nodes) # {} => Factor > 0
<1>1. ReplicaSet(d, nodes) \subseteq nodes
  BY Zenon DEF ReplicaSet, Top
<1>2. ASSUME NEW n \in ReplicaSet(d, nodes)
      PROVE  Factor > 0
  <2>1. n \in Node /\ Cardinality(Ahead(d, nodes, n)) < Factor
    BY Zenon DEF ReplicaSet, Top
  <2>2. Cardinality(Ahead(d, nodes, n)) \in Nat
    BY <2>1, AheadIsFinite, Zenon
  <2> QED  BY <2>1, <2>2, ReplicationAssumption
<1> QED
  BY <1>1, <1>2, Zenon

\* Nothing is written or acknowledged at the start.
LEMMA ReplicatedInvInit == ReplicatedInit => ReplicatedInv
<1> SUFFICES ASSUME ReplicatedInit
             PROVE  ReplicatedInv
  BY Zenon
<1>1. PICK nodes \in Views : membership = [generation |-> 1, nodes |-> nodes]
  BY Zenon DEF ReplicatedInit
<1>2. ReplicasOk
  BY <1>1, ReplicationAssumption, Zenon DEF ReplicatedInit, ReplicasOk, View, Write, Repair, NoWrite, NoRepair
<1>3. ViewsOk
  BY <1>1 DEF ReplicatedInit, ViewsOk
<1>4. WritesOk
  BY Zenon DEF ReplicatedInit, WritesOk, NoWrite
<1>5. RepairOk
  BY Zenon DEF ReplicatedInit, RepairOk
<1> QED
  BY <1>2, <1>3, <1>4, <1>5, Zenon DEF ReplicatedInv

(* A replica that has stored a blob has it until it loses it.              *)
LEMMA StoredStays ==
  ASSUME NEW d, NEW nodes, NEW Q,
         \A n \in Node : held[n] \subseteq held'[n] \cup wiped'[n] /\ wiped[n] \subseteq held'[n] \cup wiped'[n],
         ReplicaSet(d, nodes) \subseteq Node, Placed(d, nodes, Q)
  PROVE  Placed(d, nodes, Q)'
<1>1. ReplicaSet(d, nodes)' = ReplicaSet(d, nodes)
  BY Zenon DEF ReplicaSet, Top, Ahead
<1> QED
  BY <1>1, Zenon DEF Placed

(* The conjunct about acknowledged writes, for a step that acknowledges    *)
(* none.                                                                   *)
LEMMA AckedStays ==
  ASSUME ReplicasOk, WritesOk, UNCHANGED acked,
         \A n \in Node : held[n] \subseteq held'[n] \cup wiped'[n] /\ wiped[n] \subseteq held'[n] \cup wiped'[n]
  PROVE  \A a \in acked' : /\ Factor > 0
                           /\ a[1] \in Ranked /\ a[2] \in SUBSET Node
                           /\ \E Q \in SUBSET Node : /\ Cardinality(Q) >= WriteQuorum
                                                     /\ Placed(a[1], a[2], Q)'
<1> TAKE a \in acked'
<1>1. /\ Factor > 0 /\ a[1] \in Ranked /\ a[2] \in SUBSET Node
      /\ \E Q \in SUBSET Node : Cardinality(Q) >= WriteQuorum /\ Placed(a[1], a[2], Q)
  BY Zenon DEF WritesOk
<1>2. PICK Q \in SUBSET Node : Cardinality(Q) >= WriteQuorum /\ Placed(a[1], a[2], Q)
  BY <1>1, Zenon
<1>3. ReplicaSet(a[1], a[2]) \subseteq Node
  BY <1>1, ReplicaSetIsEligible, Zenon
<1>4. Placed(a[1], a[2], Q)'
  BY <1>2, <1>3, StoredStays, Zenon
<1> QED
  BY <1>1, <1>2, <1>4, Zenon

(* A step that keeps what is stored and leaves the writes alone.           *)
LEMMA WritesStay ==
  ASSUME ReplicasOk, WritesOk, UNCHANGED <<writing, acked>>,
         \A n \in Node : held[n] \subseteq held'[n] \cup wiped'[n] /\ wiped[n] \subseteq held'[n] \cup wiped'[n]
  PROVE  WritesOk'
<1>1. ASSUME NEW c \in Router, NEW d \in writing[c].blob
      PROVE  /\ Factor > 0
             /\ writing[c].pending \subseteq ReplicaSet(d, writing[c].nodes)
             /\ Placed(d, writing[c].nodes, writing[c].acks)'
  <2>1. d \in Ranked /\ writing[c].nodes \in SUBSET Node
    BY <1>1, Zenon DEF ReplicasOk, Write
  <2>2. ReplicaSet(d, writing[c].nodes) \subseteq Node
    BY <2>1, ReplicaSetIsEligible, Zenon
  <2>3. /\ Factor > 0 /\ writing[c].pending \subseteq ReplicaSet(d, writing[c].nodes)
        /\ Placed(d, writing[c].nodes, writing[c].acks)
    BY <1>1, Zenon DEF WritesOk
  <2> DEFINE ns == writing[c].nodes
             as == writing[c].acks
  <2>4. \A n \in as : d \in held'[n] \/ d \in wiped'[n]
    BY <2>2, <2>3, Zenon DEF Placed
  <2> QED  BY <2>3, <2>4, Zenon DEF Placed, ReplicaSet, Top, Ahead
<1>2. ASSUME NEW c \in Router, NEW d \in writing[c].blob
      PROVE  ReplicaSet(d, writing[c].nodes)' = ReplicaSet(d, writing[c].nodes)
  BY Zenon DEF ReplicaSet, Top, Ahead
<1> QED
  BY <1>1, <1>2, AckedStays, Zenon DEF WritesOk

(* Topology changes, failures and returns touch no blob.                   *)
LEMMA SetNodesInv ==
  ASSUME ReplicatedInv, NEW nodes \in Views, SetNodes(nodes)
  PROVE  ReplicatedInv'
<1> USE DEF ReplicatedInv
<1>1. ReplicasOk'
  <2>1. /\ membership' = [generation |-> membership.generation + 1, nodes |-> nodes]
        /\ UNCHANGED <<view, held, up, writing, wiped, repair>> /\ calm' = FALSE
    BY Zenon DEF SetNodes, Bumped
  <2>2. membership' \in View
    BY <2>1, ReplicationAssumption DEF ReplicasOk, View
  <2> QED  BY <2>1, <2>2, Zenon DEF ReplicasOk
<1>2. ViewsOk'
  BY DEF SetNodes, ViewsOk, ReplicasOk, View, Bumped
<1>3. WritesOk'
  BY WritesStay, Zenon DEF SetNodes
<1>4. RepairOk'
  BY Zenon DEF SetNodes, RepairOk
<1> QED  BY <1>1, <1>2, <1>3, <1>4, Zenon

\* A router that takes a newer view (update_topology).
LEMMA UpdateTopologyInv ==
  ASSUME ReplicatedInv, NEW c \in Router, UpdateTopology(c)
  PROVE  ReplicatedInv'
<1> USE DEF ReplicatedInv
<1>1. ReplicasOk'
  BY Zenon DEF UpdateTopology, ReplicasOk
<1>2. ViewsOk'
  BY DEF UpdateTopology, ViewsOk, ReplicasOk, View
<1>3. WritesOk'
  BY WritesStay, Zenon DEF UpdateTopology
<1>4. RepairOk'
  BY Zenon DEF UpdateTopology, RepairOk, Restored, ReplicaSet, Top, Ahead
<1> QED  BY <1>1, <1>2, <1>3, <1>4, Zenon

\* A node that fails, returns, or loses its blobs.
LEMMA FaultsInv ==
  ASSUME ReplicatedInv, NEW n \in Node, GoDown(n) \/ ComeBack(n) \/ LoseBlobs(n)
  PROVE  ReplicatedInv'
<1> USE DEF ReplicatedInv
<1>1. calm' = FALSE /\ UNCHANGED <<membership, view, writing, acked, repair>>
  BY Zenon DEF GoDown, ComeBack, LoseBlobs, Fault
<1>2. /\ held' \in [Node -> SUBSET Ranked] /\ wiped' \in [Node -> SUBSET Ranked]
      /\ up' \subseteq Node
      /\ \A m \in Node : held[m] \subseteq held'[m] \cup wiped'[m] /\ wiped[m] \subseteq held'[m] \cup wiped'[m]
  BY Zenon DEF GoDown, ComeBack, LoseBlobs, Fault, ReplicasOk
<1>3. ReplicasOk'
  BY <1>1, <1>2, Zenon DEF ReplicasOk
<1>4. ViewsOk'
  BY <1>1, Zenon DEF ViewsOk
<1>5. WritesOk'
  BY <1>1, <1>2, WritesStay, Zenon
<1>6. RepairOk'
  BY <1>1, Zenon DEF RepairOk
<1> QED  BY <1>3, <1>4, <1>5, <1>6, Zenon

\* A write picks its replicas from the view of its router.
LEMMA StartWriteInv ==
  ASSUME ReplicatedInv, NEW c \in Router, NEW d \in Ranked, StartWrite(c, d)
  PROVE  ReplicatedInv'
<1> USE DEF ReplicatedInv
<1> DEFINE ns == view[c].nodes
           w == [blob |-> {d}, pending |-> ReplicaSet(d, ns), acks |-> {}, nodes |-> ns]
<1>1. ns \in SUBSET Node
  BY Zenon DEF ReplicasOk, View
<1>2. ReplicaSet(d, ns) \subseteq Node /\ Factor > 0
  BY <1>1, ReplicaSetIsEligible, Zenon DEF StartWrite
<1>3. w \in Write
  BY <1>1, <1>2, Zenon DEF Write
<1>4. /\ writing' = [writing EXCEPT ![c] = w] /\ calm' = FALSE
      /\ UNCHANGED <<membership, view, held, up, acked, wiped, repair>>
  BY Zenon DEF StartWrite
<1>5. w.blob = {d} /\ w.pending = ReplicaSet(d, ns) /\ w.acks = {} /\ w.nodes = ns
  BY Zenon
<1> HIDE DEF w
<1>6. ReplicasOk'
  BY <1>3, <1>4, Zenon DEF ReplicasOk
<1>7. ViewsOk'
  BY <1>4, Zenon DEF ViewsOk
<1>8. ASSUME NEW b \in Router, NEW e \in writing'[b].blob
      PROVE  /\ Factor > 0
             /\ writing'[b].pending \subseteq ReplicaSet(e, writing[b].nodes)'
             /\ Placed(e, writing[b].nodes, writing[b].acks)'
  <2>1. CASE b = c
    <3>1. writing'[b] = w /\ e = d
      BY <1>4, <1>5, <2>1, Zenon DEF ReplicasOk
    <3>2. ReplicaSet(e, writing[b].nodes)' = ReplicaSet(d, ns)
      BY <1>5, <3>1, Zenon DEF ReplicaSet, Top, Ahead
    <3> QED
      BY <1>2, <1>5, <3>1, <3>2, Zenon DEF Placed
  <2>2. CASE b # c
    <3>1. writing'[b] = writing[b]
      BY <1>4, <2>2, Zenon DEF ReplicasOk
    <3>2. ReplicaSet(e, writing[b].nodes)' = ReplicaSet(e, writing[b].nodes)
      BY <3>1, Zenon DEF ReplicaSet, Top, Ahead
    <3>3. /\ Factor > 0 /\ writing[b].pending \subseteq ReplicaSet(e, writing[b].nodes)
          /\ Placed(e, writing[b].nodes, writing[b].acks)
      BY <1>8, <3>1, Zenon DEF WritesOk
    <3> QED
      BY <1>4, <3>1, <3>2, <3>3, Zenon DEF Placed
  <2> QED  BY <2>1, <2>2, Zenon
<1>9. WritesOk'
  BY <1>4, <1>8, AckedStays, Zenon DEF WritesOk
<1>10. RepairOk'
  BY <1>4, Zenon DEF RepairOk
<1> QED  BY <1>6, <1>7, <1>9, <1>10, Zenon

\* One replica answers.
LEMMA WriteReplicaInv ==
  ASSUME ReplicatedInv, NEW c \in Router, NEW n \in Node, WriteReplica(c, n)
  PROVE  ReplicatedInv'
<1> USE DEF ReplicatedInv
<1> DEFINE w == writing[c]
           w2 == [w EXCEPT !.pending = @ \ {n}, !.acks = IF n \in up THEN @ \cup {n} ELSE @]
<1>1. w \in Write /\ n \in w.pending
  BY Zenon DEF ReplicasOk, WriteReplica
<1>2. /\ w2 \in Write /\ w2.blob = w.blob /\ w2.nodes = w.nodes /\ w2.pending = w.pending \ {n}
      /\ w2.acks = IF n \in up THEN w.acks \cup {n} ELSE w.acks
  BY <1>1, Zenon DEF Write
<1>3. writing' = [writing EXCEPT ![c] = w2]
  BY <1>1, Zenon DEF WriteReplica, Write, ReplicasOk
<1> HIDE DEF w2
<1>4. UNCHANGED <<membership, view, up, acked, repair, calm>>
  BY Zenon DEF WriteReplica
<1>5. /\ held' = IF n \in up THEN [held EXCEPT ![n] = @ \cup w.blob] ELSE held
      /\ wiped' = IF n \in up THEN [wiped EXCEPT ![n] = @ \ w.blob] ELSE wiped
  BY Zenon DEF WriteReplica
<1>6. w.blob \subseteq Ranked
  BY <1>1, Zenon DEF Write
<1>7. /\ held' \in [Node -> SUBSET Ranked] /\ wiped' \in [Node -> SUBSET Ranked]
      /\ \A m \in Node : held[m] \subseteq held'[m] \cup wiped'[m] /\ wiped[m] \subseteq held'[m] \cup wiped'[m]
      /\ n \in up => w.blob \subseteq held'[n]
  BY <1>5, <1>6, Zenon DEF ReplicasOk
<1>8. ReplicasOk'
  BY <1>2, <1>3, <1>4, <1>7, Zenon DEF ReplicasOk
<1>9. ViewsOk'
  BY <1>4, Zenon DEF ViewsOk
<1>10. ASSUME NEW b \in Router, NEW e \in writing'[b].blob
       PROVE  /\ Factor > 0
              /\ writing'[b].pending \subseteq ReplicaSet(e, writing[b].nodes)'
              /\ Placed(e, writing[b].nodes, writing[b].acks)'
  <2>1. /\ writing'[b].blob = writing[b].blob /\ writing'[b].nodes = writing[b].nodes
        /\ writing'[b].pending \subseteq writing[b].pending
        /\ \A m \in writing'[b].acks : m \in writing[b].acks \/ (b = c /\ m = n /\ n \in up)
    BY <1>2, <1>3, Zenon DEF ReplicasOk
  <2>2. /\ Factor > 0 /\ writing[b].pending \subseteq ReplicaSet(e, writing[b].nodes)
        /\ Placed(e, writing[b].nodes, writing[b].acks)
    BY <2>1, Zenon DEF WritesOk
  <2>3. e \in Ranked /\ writing[b].nodes \in SUBSET Node
    BY <2>1, Zenon DEF ReplicasOk, Write
  <2>4. ReplicaSet(e, writing[b].nodes) \subseteq Node
    BY <2>3, ReplicaSetIsEligible, Zenon
  <2>5. ReplicaSet(e, writing[b].nodes)' = ReplicaSet(e, writing[b].nodes)
    BY <2>1, Zenon DEF ReplicaSet, Top, Ahead
  <2>6. ASSUME NEW m \in writing'[b].acks
        PROVE  m \in ReplicaSet(e, writing[b].nodes) /\ (e \in held'[m] \/ e \in wiped'[m])
    <3>1. CASE m \in writing[b].acks
      BY <1>7, <2>2, <2>4, <3>1, Zenon DEF Placed
    <3>2. CASE b = c /\ m = n /\ n \in up
      BY <1>1, <1>7, <2>1, <2>2, <3>2, Zenon
    <3> QED  BY <2>1, <3>1, <3>2, Zenon
  <2> QED  BY <2>1, <2>2, <2>5, <2>6, Zenon DEF Placed
<1>11. WritesOk'
  BY <1>4, <1>7, <1>10, AckedStays, Zenon DEF WritesOk
<1>12. RepairOk'
  <2>1. ~(repair # NoRepair /\ calm)
    BY <1>1 DEF RepairOk, NoWrite
  <2> QED  BY <1>4, <2>1, Zenon DEF RepairOk
<1> QED  BY <1>8, <1>9, <1>11, <1>12, Zenon

\* A write that a quorum has taken is acknowledged.
LEMMA FinishWriteInv ==
  ASSUME ReplicatedInv, NEW c \in Router, FinishWrite(c)
  PROVE  ReplicatedInv'
<1> USE DEF ReplicatedInv
<1> DEFINE w == writing[c]
<1>1. /\ writing' = [writing EXCEPT ![c] = NoWrite]
      /\ UNCHANGED <<membership, view, held, up, wiped, repair, calm>>
  BY Zenon DEF FinishWrite
<1>2. NoWrite \in Write /\ NoWrite.blob = {}
  BY Zenon DEF NoWrite, Write
<1>3. ReplicasOk'
  BY <1>1, <1>2, Zenon DEF ReplicasOk
<1>4. ViewsOk'
  BY <1>1, Zenon DEF ViewsOk
<1>5. ASSUME NEW b \in Router, NEW e \in writing'[b].blob
      PROVE  /\ Factor > 0
             /\ writing'[b].pending \subseteq ReplicaSet(e, writing[b].nodes)'
             /\ Placed(e, writing[b].nodes, writing[b].acks)'
  <2>1. writing'[b] = writing[b]
    BY <1>1, <1>2, <1>5, Zenon DEF ReplicasOk
  <2>2. /\ Factor > 0 /\ writing[b].pending \subseteq ReplicaSet(e, writing[b].nodes)
        /\ Placed(e, writing[b].nodes, writing[b].acks)
    BY <1>5, <2>1, Zenon DEF WritesOk
  <2>3. ReplicaSet(e, writing[b].nodes)' = ReplicaSet(e, writing[b].nodes)
    BY <2>1, Zenon DEF ReplicaSet, Top, Ahead
  <2> QED  BY <1>1, <2>1, <2>2, <2>3, Zenon DEF Placed
<1>6. ASSUME NEW a \in acked'
      PROVE  /\ Factor > 0
             /\ a[1] \in Ranked /\ a[2] \in SUBSET Node
             /\ \E Q \in SUBSET Node : Cardinality(Q) >= WriteQuorum /\ Placed(a[1], a[2], Q)'
  <2>1. CASE a \in acked
    <3>1. /\ Factor > 0 /\ a[1] \in Ranked /\ a[2] \in SUBSET Node
          /\ \E Q \in SUBSET Node : Cardinality(Q) >= WriteQuorum /\ Placed(a[1], a[2], Q)
      BY <2>1, Zenon DEF WritesOk
    <3> QED
      BY <1>1, <3>1, Zenon DEF Placed, ReplicaSet, Top, Ahead
  <2>2. CASE a \notin acked
    <3>1. Cardinality(w.acks) >= WriteQuorum /\ a \in w.blob \X {w.nodes}
      BY <2>2, Zenon DEF FinishWrite
    <3>2. a[1] \in w.blob /\ a[2] = w.nodes
      BY <3>1, Zenon
    <3>3. w.acks \in SUBSET Node /\ a[1] \in Ranked /\ a[2] \in SUBSET Node
      BY <3>2, Zenon DEF ReplicasOk, Write
    <3>4. Factor > 0 /\ Placed(a[1], a[2], w.acks)
      BY <3>2, Zenon DEF WritesOk
    <3>5. PICK Q \in SUBSET Node : Cardinality(Q) >= WriteQuorum /\ Placed(a[1], a[2], Q)
      BY <3>1, <3>3, <3>4, Zenon
    <3>6. Q \subseteq ReplicaSet(a[1], a[2]) /\ \A n \in Q : a[1] \in held'[n] \/ a[1] \in wiped'[n]
      BY <1>1, <3>5, Zenon DEF Placed
    <3>7. \E P \in SUBSET Node : Cardinality(P) >= WriteQuorum /\ Placed(a[1], a[2], P)'
      <4>1. Placed(a[1], a[2], Q)'
        BY <3>6, Zenon DEF Placed
      <4> QED  BY <3>5, <4>1, Zenon
    <3> QED  BY <3>3, <3>4, <3>7, Zenon
  <2> QED  BY <2>1, <2>2, Zenon
<1>7. WritesOk'
  BY <1>5, <1>6, Zenon DEF WritesOk
<1>8. RepairOk'
  <2>1. ~(repair # NoRepair /\ calm)
    BY Zenon DEF RepairOk, FinishWrite
  <2> QED  BY <1>1, <2>1, Zenon DEF RepairOk
<1> QED  BY <1>3, <1>4, <1>7, <1>8, Zenon

(* A replica that has had its turn keeps its blobs.                        *)
LEMMA StartRepairInv ==
  ASSUME ReplicatedInv, StartRepair
  PROVE  ReplicatedInv'
<1> USE DEF ReplicatedInv
<1>1. /\ repair' = [todo |-> membership.nodes, nodes |-> membership.nodes, target |-> {}, missing |-> {}]
      /\ calm' = \A c \in Router : writing[c] = NoWrite
      /\ UNCHANGED <<membership, view, held, up, writing, acked, wiped>>
  BY Zenon DEF StartRepair, NoRepair
<1>2. ReplicasOk'
  BY <1>1, Zenon DEF ReplicasOk, Repair, View
<1>3. ViewsOk'
  BY <1>1, Zenon DEF ViewsOk
<1>4. WritesOk'
  BY <1>1, WritesStay, Zenon
<1>5. RepairOk'
  BY <1>1, Zenon DEF RepairOk
<1> QED  BY <1>2, <1>3, <1>4, <1>5, Zenon

\* A repair copies what a target lacks from the sources it found.
LEMMA ScanTargetInv ==
  ASSUME ReplicatedInv, NEW t \in repair.todo, ScanTarget(t)
  PROVE  ReplicatedInv'
<1> USE DEF ReplicatedInv
<1> DEFINE universe == UNION {held[n] : n \in repair.nodes}
           mine == {d \in universe : t \in ReplicaSet(d, repair.nodes)}
<1>1. UNCHANGED <<membership, view, held, up, writing, acked, wiped, calm>>
  BY Zenon DEF ScanTarget
<1>2. ViewsOk' /\ WritesOk'
  BY <1>1, WritesStay, Zenon DEF ViewsOk
<1>3. CASE repair.nodes \subseteq up
  <2>1. repair' = [repair EXCEPT !.target = {t}, !.missing = mine \ held[t]]
    BY <1>3, Zenon DEF ScanTarget
  <2>2. repair \in Repair /\ t \in Node
    BY Zenon DEF ReplicasOk, Repair
  <2>3. /\ repair'.todo = repair.todo /\ repair'.nodes = repair.nodes
        /\ repair'.target = {t} /\ repair'.missing = mine \ held[t]
        /\ repair' = [todo |-> repair.todo, nodes |-> repair.nodes, target |-> {t}, missing |-> mine \ held[t]]
    BY <2>1, <2>2, Zenon DEF Repair
  <2>4. universe \subseteq Ranked
    BY <2>2, Zenon DEF ReplicasOk, Repair
  <2>5. ReplicasOk'
    BY <1>1, <2>2, <2>3, <2>4, Zenon DEF ReplicasOk, Repair
  <2>6. repair # NoRepair
    BY DEF NoRepair
  <2>7. ASSUME NEW d \in Ranked
        PROVE  ReplicaSet(d, repair.nodes)' = ReplicaSet(d, repair.nodes)
    BY <2>3, Zenon DEF ReplicaSet, Top, Ahead
  <2>8. ASSUME NEW n \in Node, NEW d \in Ranked
        PROVE  Restored(n, d)' <=> Restored(n, d)
    BY <1>1, <2>7, Zenon DEF Restored
  <2>9. ASSUME NEW d \in Ranked, d \notin mine \ held[t]
        PROVE  Restored(t, d)
    <3>1. repair.nodes \in SUBSET Node
      BY <2>2, Zenon DEF Repair
    <3>2. ReplicaSet(d, repair.nodes) \subseteq repair.nodes
      BY <3>1, ReplicaSetIsEligible, Zenon
    <3> QED  BY <2>9, <3>2, Zenon DEF Restored
  <2>10. \A n \in repair.nodes : n \in Node
    BY <2>2, Zenon DEF Repair
  <2> HIDE DEF mine
  <2>11. RepairOk'
    BY <1>1, <1>3, <2>2, <2>3, <2>6, <2>8, <2>9, <2>10, Zenon DEF RepairOk
  <2> QED  BY <1>2, <2>5, <2>11, Zenon
<1>4. CASE ~(repair.nodes \subseteq up)
  <2>1. repair' = NoRepair
    BY <1>4, Zenon DEF ScanTarget
  <2>2. NoRepair \in Repair /\ NoRepair.target = {}
    BY Zenon DEF NoRepair, Repair
  <2> QED  BY <1>1, <1>2, <2>1, <2>2, Zenon DEF ReplicasOk, RepairOk
<1> QED  BY <1>3, <1>4, Zenon

\* It goes on to the next target.
LEMMA NextTargetInv ==
  ASSUME ReplicatedInv, NextTarget
  PROVE  ReplicatedInv'
<1> USE DEF ReplicatedInv
<1>1. /\ UNCHANGED <<membership, view, held, up, writing, acked, wiped, calm>>
      /\ repair' = [repair EXCEPT !.todo = @ \ repair.target, !.target = {}]
      /\ repair.target # {} /\ repair.missing = {}
  BY Zenon DEF NextTarget
<1>2. ViewsOk' /\ WritesOk'
  BY <1>1, WritesStay, Zenon DEF ViewsOk
<1>3. repair \in Repair /\ repair # NoRepair
  BY <1>1 DEF ReplicasOk, NoRepair
<1>4. /\ repair' = [todo |-> repair.todo \ repair.target, nodes |-> repair.nodes,
                    target |-> {}, missing |-> {}]
      /\ repair'.todo = repair.todo \ repair.target /\ repair'.nodes = repair.nodes
      /\ repair'.target = {}
  BY <1>1, <1>3, Zenon DEF Repair
<1>5. ReplicasOk'
  BY <1>1, <1>3, <1>4, Zenon DEF ReplicasOk, Repair
<1>6. ASSUME NEW n \in repair.nodes, NEW d \in Ranked
      PROVE  Restored(n, d)' <=> Restored(n, d)
  BY <1>1, <1>4, Zenon DEF Restored, ReplicaSet, Top, Ahead
<1>7. RepairOk'
  BY <1>1, <1>3, <1>4, <1>6, Zenon DEF RepairOk
<1> QED  BY <1>2, <1>5, <1>7, Zenon

\* Or ends.
LEMMA RepairEndsInv ==
  ASSUME ReplicatedInv, RepairEnds
  PROVE  ReplicatedInv'
<1> USE DEF ReplicatedInv
<1>1. UNCHANGED <<membership, view, held, up, writing, acked, wiped, calm>> /\ repair' = NoRepair
  BY Zenon DEF RepairEnds
<1>2. ViewsOk' /\ WritesOk'
  BY <1>1, WritesStay, Zenon DEF ViewsOk
<1>3. NoRepair \in Repair /\ NoRepair.target = {}
  BY Zenon DEF NoRepair, Repair
<1> QED  BY <1>1, <1>2, <1>3, Zenon DEF ReplicasOk, RepairOk

(* The pulled blob was on another replica, so every replica that has had   *)
(* its turn holds it already.                                              *)
LEMMA PullBlobInv ==
  ASSUME ReplicatedInv, NEW d \in Ranked, PullBlob(d)
  PROVE  ReplicatedInv'
<1> USE DEF ReplicatedInv
<1>1. PICK t \in repair.target :
        /\ d \in repair.missing
        /\ \/ /\ \E n \in Sources(d, t) : n \in up /\ d \in held[n]
              /\ IF t \in up
                 THEN /\ held' = [held EXCEPT ![t] = @ \cup {d}]
                      /\ wiped' = [wiped EXCEPT ![t] = @ \ {d}]
                      /\ repair' = [repair EXCEPT !.missing = @ \ {d}]
                 ELSE repair' = NoRepair /\ UNCHANGED <<held, wiped>>
           \/ /\ ~\E n \in Sources(d, t) : n \in up /\ d \in held[n]
              /\ repair' = [repair EXCEPT !.missing = @ \ {d}]
              /\ UNCHANGED <<held, wiped>>
        /\ UNCHANGED <<membership, view, up, writing, acked, calm>>
  BY Zenon DEF PullBlob
<1>2. repair \in Repair /\ t \in Node /\ repair # NoRepair
  BY <1>1 DEF ReplicasOk, Repair, NoRepair
<1>3. /\ held' \in [Node -> SUBSET Ranked] /\ wiped' \in [Node -> SUBSET Ranked]
      /\ \A m \in Node : held[m] \subseteq held'[m] \cup wiped'[m] /\ wiped[m] \subseteq held'[m] \cup wiped'[m]
  BY <1>1, <1>2 DEF ReplicasOk
<1>4. ViewsOk' /\ WritesOk'
  BY <1>1, <1>3, WritesStay, Zenon DEF ViewsOk
<1>5. CASE repair' = NoRepair
  <2>1. NoRepair \in Repair /\ NoRepair.target = {}
    BY Zenon DEF NoRepair, Repair
  <2> QED  BY <1>1, <1>3, <1>4, <1>5, <2>1, Zenon DEF ReplicasOk, RepairOk
<1>6. CASE repair' = [repair EXCEPT !.missing = @ \ {d}]
  <2>1. /\ repair' \in Repair /\ repair'.todo = repair.todo /\ repair'.nodes = repair.nodes
        /\ repair'.target = repair.target /\ repair'.missing = repair.missing \ {d}
    BY <1>2, <1>6, Zenon DEF Repair
  <2>2. ReplicasOk'
    BY <1>1, <1>3, <2>1, Zenon DEF ReplicasOk
  <2>3. ASSUME repair # NoRepair, calm
        PROVE  /\ \A n \in repair.nodes \ repair.todo : \A e \in Ranked : Restored(n, e)'
               /\ \A n \in repair.target : \A e \in Ranked : e \in repair'.missing \/ Restored(n, e)'
    <3> DEFINE RS(e) == ReplicaSet(e, repair.nodes)
    <3>1. \A e \in Ranked : ReplicaSet(e, repair.nodes)' = RS(e) /\ RS(e) \subseteq repair.nodes
      BY <1>2, <2>1, ReplicaSetIsEligible, Zenon DEF Repair, ReplicaSet, Top, Ahead
    <3>2. /\ repair.nodes \subseteq up
          /\ \A n \in repair.nodes \ repair.todo : \A e \in Ranked : Restored(n, e)
          /\ \A n \in repair.target : \A e \in Ranked : e \in repair.missing \/ Restored(n, e)
      BY <1>1, <2>3, Zenon DEF RepairOk
    <3>3. repair.nodes \in SUBSET Node /\ repair.target \in SUBSET Node
      BY <1>2, Zenon DEF Repair
    <3>4. \A m \in Node : /\ held[m] \subseteq held'[m]
                          /\ \A e \in held'[m] : e # d => e \in held[m]
      BY <1>1, <1>2 DEF ReplicasOk
    <3>5. ASSUME NEW n \in Node, NEW e \in Ranked, e # d
          PROVE  Restored(n, e)' <=> Restored(n, e)
      <4> HIDE DEF RS
      <4>1. \A m \in RS(e) : m \in Node
        BY <3>1, <3>3, Zenon
      <4>2. Restored(n, e)' <=> ((n \in RS(e) /\ \E m \in RS(e) : e \in held'[m]) => e \in held'[n])
        BY <3>1, Zenon DEF Restored
      <4>3. Restored(n, e) <=> ((n \in RS(e) /\ \E m \in RS(e) : e \in held[m]) => e \in held[n])
        BY Zenon DEF Restored, RS
      <4> QED  BY <3>4, <3>5, <4>1, <4>2, <4>3, Zenon
    <3>6. \A n \in repair.nodes \ repair.todo : Restored(n, d)'
      <4> TAKE n \in repair.nodes \ repair.todo
      <4>1. n \in Node /\ Restored(n, d)
        BY <3>2, <3>3, Zenon
      <4>2. CASE \E m \in Sources(d, t) : m \in up /\ d \in held[m]
        <5>1. n \in RS(d) => d \in held[n]
          BY <4>1, <4>2, Zenon DEF Sources, Restored
        <5> QED  BY <3>1, <3>4, <4>1, <5>1, Zenon DEF Restored
      <4>3. CASE ~\E m \in Sources(d, t) : m \in up /\ d \in held[m]
        BY <1>1, <3>1, <4>1, <4>3, Zenon DEF Restored
      <4> QED  BY <4>2, <4>3, Zenon
    <3>7. Restored(t, d)'
      <4>1. CASE \E m \in Sources(d, t) : m \in up /\ d \in held[m]
        <5>1. repair' # NoRepair
          BY <1>1, <2>1 DEF NoRepair
        <5>2. held' = [held EXCEPT ![t] = @ \cup {d}]
          BY <1>1, <4>1, <5>1, Zenon
        <5> QED  BY <1>2, <5>2, Zenon DEF Restored, ReplicasOk
      <4>2. CASE ~\E m \in Sources(d, t) : m \in up /\ d \in held[m]
        <5>1. \A m \in RS(d) : d \in held[m] => m = t
          BY <3>1, <3>2, <4>2, Zenon DEF Sources
        <5>2. held' = held
          BY <1>1, <4>2, Zenon
        <5> QED  BY <3>1, <5>1, <5>2, Zenon DEF Restored
      <4> QED  BY <4>1, <4>2, Zenon
    <3>8. \A n \in repair.target : n = t
      BY <1>1, Zenon DEF ReplicasOk
    <3>9. \A n \in repair.nodes \ repair.todo : \A e \in Ranked : Restored(n, e)'
      BY <3>2, <3>3, <3>5, <3>6, Zenon
    <3>10. \A n \in repair.target : \A e \in Ranked : e \in repair'.missing \/ Restored(n, e)'
      BY <2>1, <3>2, <3>3, <3>5, <3>7, <3>8, Zenon
    <3> QED  BY <3>9, <3>10, Zenon
  <2>4. RepairOk'
    BY <1>1, <1>2, <2>1, <2>3, Zenon DEF RepairOk
  <2> QED  BY <1>4, <2>2, <2>4, Zenon
<1> QED  BY <1>1, <1>5, <1>6, Zenon

\* Every step keeps the invariant.
LEMMA ReplicatedStepInv ==
  ASSUME ReplicatedInv, [ReplicatedNext]_rvars
  PROVE  ReplicatedInv'
<1>1. CASE UNCHANGED rvars
  <2>1. ReplicasOk' /\ ViewsOk' /\ RepairOk'
    BY <1>1, Zenon DEF rvars, ReplicatedInv, ReplicasOk, ViewsOk, RepairOk, Restored, ReplicaSet, Top, Ahead
  <2>2. WritesOk'
    BY <1>1, WritesStay, Zenon DEF rvars, ReplicatedInv
  <2> QED  BY <2>1, <2>2, Zenon DEF ReplicatedInv
<1>2. CASE ReplicatedNext
  BY <1>2, SetNodesInv, UpdateTopologyInv, FinishWriteInv, StartWriteInv, WriteReplicaInv, FaultsInv,
     StartRepairInv, NextTargetInv, RepairEndsInv, ScanTargetInv, PullBlobInv, Zenon DEF ReplicatedNext
<1> QED
  BY <1>1, <1>2, Zenon

\* So it always holds.
LEMMA ReplicatedInvariant == ReplicatedSpec => []ReplicatedInv
BY ReplicatedInvInit, ReplicatedStepInv, PTL DEF ReplicatedSpec

(* An acknowledged write outlives any minority of its replicas, for every  *)
(* replication factor, any number of nodes, clients and failures, and any  *)
(* topology changes and repairs: a quorum has stored the blob, so one of   *)
(* it is neither down nor wiped (batch_update_blobs, batch_read_blobs).    *)
THEOREM AckedWritesAreReadable == ReplicatedSpec => []AckedIsReadable
<1>1. ReplicatedInv => AckedIsReadable
  <2> SUFFICES ASSUME ReplicatedInv, NEW a \in acked,
                      2 * Cardinality({n \in ReplicaSet(a[1], a[2]) : n \notin up \/ a[1] \in wiped[n]}) <= Factor
               PROVE  Found(a[1], a[2])
    BY Zenon DEF AckedIsReadable
  <2> DEFINE rs == ReplicaSet(a[1], a[2])
             lost == {n \in rs : n \notin up \/ a[1] \in wiped[n]}
  <2>1. /\ Factor > 0 /\ a[1] \in Ranked /\ a[2] \in SUBSET Node
        /\ \E Q \in SUBSET Node : Cardinality(Q) >= WriteQuorum /\ Placed(a[1], a[2], Q)
    BY Zenon DEF ReplicatedInv, WritesOk
  <2>2. PICK Q \in SUBSET Node : Cardinality(Q) >= WriteQuorum /\ Placed(a[1], a[2], Q)
    BY <2>1, Zenon
  <2>3. Q \subseteq rs /\ \A n \in Q : a[1] \in held[n] \/ a[1] \in wiped[n]
    BY <2>2, Zenon DEF Placed
  <2>4. rs \subseteq Node
    BY <2>1, ReplicaSetIsEligible, Zenon
  <2>5. /\ IsFiniteSet(lost) /\ Cardinality(lost) \in Nat /\ IsFiniteSet(Q) /\ Cardinality(Q) \in Nat
        /\ \A S \in SUBSET lost : Cardinality(S) <= Cardinality(lost)
    BY <2>4, ReplicationAssumption, FS_Subset, FS_CardinalityType, Zenon
  <2>6. 2 * Cardinality(Q) > Factor
    <3>1. Factor \in Nat /\ Factor > 0 /\ Cardinality(Q) \in Nat
      BY <2>1, <2>5, ReplicationAssumption, Zenon
    <3>2. Cardinality(Q) >= Factor \div 2 + 1
      BY <2>2, <3>1 DEF WriteQuorum
    <3>3. 2 * (Factor \div 2) + 1 >= Factor /\ Factor \div 2 \in Nat
      BY <3>1
    <3> QED  BY <3>1, <3>2, <3>3
  <2>7. ~(Q \subseteq lost)
    <3> SUFFICES ASSUME Q \subseteq lost PROVE FALSE
      BY Zenon
    <3>1. Cardinality(Q) <= Cardinality(lost)
      BY <2>5, Zenon
    <3>2. 2 * Cardinality(lost) <= Factor
      BY Zenon
    <3> HIDE DEF lost
    <3> QED  BY <2>5, <2>6, <3>1, <3>2, ReplicationAssumption
  <2> QED
    BY <2>3, <2>7, Zenon DEF Found
<1> QED
  BY <1>1, ReplicatedInvariant, PTL

(* A repair that nothing disturbed has put every blob that a replica holds *)
(* on all its replicas, for any number of nodes and blobs (repair_cluster).*)
THEOREM RepairsRestore == ReplicatedSpec => []RepairRestoresReplicas
<1>1. ReplicatedInv => RepairRestoresReplicas
  <2> SUFFICES ASSUME ReplicatedInv, repair # NoRepair, repair.todo = {}, calm, NEW d \in Ranked,
                      NEW m \in ReplicaSet(d, repair.nodes), d \in held[m],
                      NEW n \in ReplicaSet(d, repair.nodes)
               PROVE  d \in held[n]
    BY Zenon DEF RepairRestoresReplicas
  <2>1. n \in repair.nodes
    BY ReplicaSetIsEligible, Zenon DEF ReplicatedInv, ReplicasOk, Repair
  <2>2. Restored(n, d)
    BY <2>1, Zenon DEF ReplicatedInv, RepairOk
  <2> QED
    BY <2>2, Zenon DEF Restored
<1> QED
  BY <1>1, ReplicatedInvariant, PTL

(* No client goes back to an older view, and a change of the topology      *)
(* moves as few blobs as it can, for every set of nodes, every scores and  *)
(* every number of replicas (set_nodes, update_topology, replicas_for).    *)
THEOREM TopologyMovesLittle == ReplicatedSpec => TopologyIsOrderly
<1> DEFINE Orderly ==
      /\ \A c \in Router : view'[c] # view[c] => view'[c].generation > view[c].generation
      /\ membership' # membership =>
           LET old == membership.nodes
               new == membership'.nodes
           IN  \A d \in Ranked : \A r \in 1 .. Cardinality(Node) :
                 LET before == Top(d, old, r)
                     after == Top(d, new, r)
                 IN  /\ Cardinality((after \ before) \cap old) <= Cardinality(before \ new)
                     /\ Cardinality((before \ after) \cap new) <= Cardinality(after \ old)
<1>1. ReplicatedInv /\ ReplicatedInv' /\ [ReplicatedNext]_rvars => [Orderly]_rvars
  <2> SUFFICES ASSUME ReplicatedInv, ReplicatedInv', ReplicatedNext
               PROVE  Orderly
    BY Zenon
  <2>1. ASSUME NEW c \in Router, view'[c] # view[c]
        PROVE  view'[c].generation > view[c].generation
    <3>1. PICK b \in Router : UpdateTopology(b)
      BY <2>1, Zenon DEF ReplicatedNext, SetNodes, FinishWrite, StartWrite, WriteReplica, GoDown, ComeBack, LoseBlobs,
         StartRepair, NextTarget, RepairEnds, ScanTarget, PullBlob
    <3>2. b = c /\ view'[c] = membership /\ view[c] # membership
      BY <2>1, <3>1, Zenon DEF UpdateTopology, ReplicatedInv, ReplicasOk
    <3>3. view[c] \in View /\ membership \in View
      BY Zenon DEF ReplicatedInv, ReplicasOk
    <3>4. view[c].generation \in Nat /\ membership.generation \in Nat
      BY <3>3, Zenon DEF View
    <3>5. /\ view[c].generation <= membership.generation
          /\ view[c].generation = membership.generation => view[c] = membership
      BY Zenon DEF ReplicatedInv, ViewsOk
    <3> QED
      BY <3>2, <3>4, <3>5
  <2>2. ASSUME NEW d \in Ranked, NEW r \in 1 .. Cardinality(Node)
        PROVE  LET old == membership.nodes
                   new == membership'.nodes
                   before == Top(d, old, r)
                   after == Top(d, new, r)
               IN  /\ Cardinality((after \ before) \cap old) <= Cardinality(before \ new)
                   /\ Cardinality((before \ after) \cap new) <= Cardinality(after \ old)
    <3>1. membership.nodes \in SUBSET Node /\ membership'.nodes \in SUBSET Node /\ r \in Nat
      BY DEF ReplicatedInv, ReplicasOk, View
    <3> QED
      BY <3>1, ReplacesOnlyTheGone, Zenon
  <2> QED
    BY <2>1, <2>2, Zenon
<1> QED
  BY <1>1, ReplicatedInvariant, PTL DEF ReplicatedSpec, TopologyIsOrderly
=============================================================================
