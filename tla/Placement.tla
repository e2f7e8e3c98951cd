------------------------------ MODULE Placement ------------------------------
(***************************************************************************)
(* Choosing a worker for a job: the built-in strategies, the host of a     *)
(* WASM policy, the shipped example policy, and the loads and the recent   *)
(* history they decide by.                                                 *)
(*                                                                         *)
(* src/crates/brokkr-control/src: scheduling.rs, locality.rs,              *)
(* wasm_strategy.rs, policy_abi.rs; src/crates/brokkr-policy/src: lib.rs,  *)
(* engine.rs; src/examples/policies/locality/src/lib.rs.                   *)
(*                                                                         *)
(* Workers are numbers, in the order of their ids.  Placements happen under*)
(* the scheduler's dispatch mutex, one at a time.                          *)
(***************************************************************************)
EXTENDS Integers, FiniteSets, SequencesExt

CONSTANTS Workers,
          Jobs,            \* records: an action and an input root, 0 for none
          Cap,             \* BinPacking
          Window,          \* completions kept for each worker
          MaxTracked,      \* workers the locality index keeps
          MaxPlacements

ASSUME PlacementAssumption ==
    /\ Workers \subseteq Nat \ {0} /\ Jobs \subseteq [action : Nat, root : Nat]
    /\ Cap \in Nat \ {0} /\ Window \in Nat \ {0} /\ MaxTracked \in Nat \ {0}
    /\ MaxPlacements \in Nat

VARIABLES conns,       \* ConnectedWorkers: the in-flight count of each worker
          index,       \* LocalityIndex: histories and the tick of the last use
          running,     \* jobs out: pairs of worker and job
          count

pvars == <<conns, index, running, count>>

NoWorker == 0
\* The orders in which a set of workers may be listed.
Orders == [S \in SUBSET Workers |-> SetToSeqs(S)]
DECLINE == -1
Raws == -2 .. 2

Inflight(w) == IF w \in DOMAIN conns THEN conns[w] ELSE 0

\* min_by of a strict order; the candidates come in the order of the sequence.
MinBy(s, Less(_, _)) ==
    IF s = <<>> THEN NoWorker
    ELSE FoldLeft(LAMBDA best, w : IF Less(w, best) THEN w ELSE best, Head(s), Tail(s))

SimpleFifo(s) ==
    MinBy(s, LAMBDA a, b : Inflight(a) < Inflight(b) \/ (Inflight(a) = Inflight(b) /\ a < b))

\* The most loaded worker under the cap, or else the least loaded one.
BinPacking(s) ==
    LET under == SelectSeq(s, LAMBDA w : Inflight(w) < Cap)
    IN  IF under # <<>>
        THEN MinBy(under, LAMBDA a, b : Inflight(a) > Inflight(b) \/ (Inflight(a) = Inflight(b) /\ a < b))
        ELSE SimpleFifo(s)

-----------------------------------------------------------------------------
(* The locality index. *)

NoHistory == [recent |-> <<>>, touch |-> 0]
HistoryOf(ix, w) == IF w \in DOMAIN ix.workers THEN ix.workers[w] ELSE NoHistory

\* A job without an input root has no hits for it.
InputRootHits(w, job) ==
    IF job.root = 0 THEN 0
    ELSE Len(SelectSeq(HistoryOf(index, w).recent, LAMBDA c : c.root = job.root))
ActionHits(w, job) ==
    Len(SelectSeq(HistoryOf(index, w).recent, LAMBDA c : c.action = job.action))

\* Mutant: the worker that was added last goes.
EvictNewest(ix, keep) ==
    LET others == DOMAIN ix.workers \ {keep}
        v == CHOOSE x \in others : \A y \in others : ix.workers[x].touch >= ix.workers[y].touch
    IN  [ix EXCEPT !.workers = [w \in DOMAIN ix.workers \ {v} |-> ix.workers[w]]]

EvictLeastRecent(ix, keep) ==
    LET others == DOMAIN ix.workers \ {keep}
        v == CHOOSE x \in others : \A y \in others : ix.workers[x].touch <= ix.workers[y].touch
    IN  [ix EXCEPT !.workers = [w \in DOMAIN ix.workers \ {v} |-> ix.workers[w]]]

RecordCompletion(ix, w, job) ==
    LET all == Append(HistoryOf(ix, w).recent, job)
        kept == IF Len(all) > Window THEN Tail(all) ELSE all
        new == [ix EXCEPT !.tick = @ + 1,
                          !.workers = [v \in DOMAIN ix.workers \cup {w} |->
                             IF v = w THEN [recent |-> kept, touch |-> ix.tick + 1] ELSE ix.workers[v]]]
    IN  IF Cardinality(DOMAIN new.workers) > MaxTracked THEN EvictLeastRecent(new, w) ELSE new

-----------------------------------------------------------------------------
(* Policies. *)

\* build_snapshot: the candidates as a guest is shown them.
BuildSnapshot(s, job) ==
    [i \in DOMAIN s |-> [inflight |-> Inflight(s[i]), root_hits |-> InputRootHits(s[i], job),
                         action_hits |-> ActionHits(s[i], job)]]

\* brokkr_choose of the example: the first of the best scores.
LocalityPolicy(snapshot, job) ==
    LET score(c) == 10 * c.root_hits + 3 * c.action_hits - 4 * c.inflight
        best == FoldLeft(LAMBDA b, i : IF score(snapshot[i]) > score(snapshot[b]) THEN i ELSE b, 1,
                         [i \in DOMAIN snapshot |-> i])
    IN  IF job.root = 0 \/ snapshot = <<>> THEN DECLINE ELSE best - 1

\* interpret: what the number that a guest returns means.
Interpret(raw, n) ==
    CASE raw = DECLINE -> [ok |-> TRUE, index |-> DECLINE]
      [] 0 <= raw /\ raw < n -> [ok |-> TRUE, index |-> raw]
      [] OTHER -> [ok |-> FALSE, index |-> raw]

\* choose_with: `raw` is what the guest returned, or a failure of the call.
WasmChoose(s, raw) ==
    LET d == Interpret(raw, Len(s))
    IN  IF s = <<>> THEN NoWorker
        ELSE IF d.ok /\ d.index # DECLINE THEN s[d.index + 1] ELSE SimpleFifo(s)

-----------------------------------------------------------------------------
PlacementInit ==
    /\ conns = [w \in {} |-> 0]
    /\ index = [tick |-> 0, workers |-> [w \in {} |-> NoHistory]]
    /\ running = <<>> /\ count = 0

\* A worker that opens its stream again starts with nothing in flight.
Connect(w) ==
    /\ conns' = [v \in DOMAIN conns \cup {w} |-> IF v = w THEN 0 ELSE conns[v]]
    /\ UNCHANGED <<index, running, count>>

Disconnect(w) ==
    /\ w \in DOMAIN conns
    /\ conns' = [v \in DOMAIN conns \ {w} |-> conns[v]]
    /\ UNCHANGED <<index, running, count>>

\* The strategies of --strategy and of --policy-wasm; `raw` is a guest's answer.
Choice(s, job, by, raw) ==
    CASE by = "fifo" -> SimpleFifo(s)
      [] by = "packing" -> BinPacking(s)
      [] by = "example" -> WasmChoose(s, LocalityPolicy(BuildSnapshot(s, job), job))
      [] by = "guest" -> WasmChoose(s, raw)

\* Some of the connected workers, in any order, are candidates for a job.
Place(s, job, by, raw) ==
    LET w == Choice(s, job, by, raw)
    IN  /\ count < MaxPlacements
        /\ count' = count + 1
        /\ IF w = NoWorker THEN UNCHANGED <<conns, running>>
           ELSE /\ conns' = [conns EXCEPT ![w] = @ + 1]
                /\ running' = Append(running, <<w, job>>)
        /\ UNCHANGED index

\* report: dec_inflight saturates, for a worker that has connected again since.
FinishJob(i) ==
    LET w == running[i][1]
    IN  /\ conns' = IF w \in DOMAIN conns
                    THEN [conns EXCEPT ![w] = IF @ = 0 THEN 0 ELSE @ - 1] ELSE conns
        /\ index' = RecordCompletion(index, w, running[i][2])
        /\ running' = RemoveAt(running, i)
        /\ UNCHANGED <<count>>

PlacementNext ==
    \/ \E w \in Workers : Connect(w) \/ Disconnect(w)
    \/ \E S \in SUBSET DOMAIN conns : \E s \in Orders[S] : \E job \in Jobs :
         \/ \E by \in {"fifo", "packing", "example"} : Place(s, job, by, 0)
         \/ \E raw \in Raws : Place(s, job, "guest", raw)
    \/ \E i \in DOMAIN running : FinishJob(i)

PlacementSpec == PlacementInit /\ [][PlacementNext]_pvars

-----------------------------------------------------------------------------
\* Every strategy picks a candidate, and none only if there is none.  The
\* built-in answers do not depend on the order of the candidates; a guest's
\* valid answer is taken as it is and any other falls back to the built-in
\* one, and the example prefers a worker that is better in every respect
\* (choose, choose_with, interpret, brokkr_choose).
ChoicesAreSound ==
    \A S \in SUBSET DOMAIN conns :
      LET fifo == SimpleFifo(CHOOSE s \in Orders[S] : TRUE)
          packed == BinPacking(CHOOSE s \in Orders[S] : TRUE)
      IN
      /\ {fifo, packed} \subseteq IF S = {} THEN {NoWorker} ELSE S
      /\ \A s \in Orders[S] :
        /\ SimpleFifo(s) = fifo /\ BinPacking(s) = packed
        /\ \A raw \in Raws : WasmChoose(s, raw) = IF raw \in 0 .. (Len(s) - 1) THEN s[raw + 1] ELSE fifo
        /\ \A job \in Jobs : \A v \in S, w \in S :
             ( /\ InputRootHits(v, job) > InputRootHits(w, job)
               /\ ActionHits(v, job) >= ActionHits(w, job) /\ Inflight(v) <= Inflight(w) )
             => Choice(s, job, "example", 0) # w

\* The index tracks the workers that completed work most recently, no more
\* than it may, each with its latest completions (record, evict_least_recent).
IndexKeepsRecent ==
    LET kept == DOMAIN index'.workers
    IN  /\ Cardinality(kept) <= MaxTracked
        /\ \A w \in kept : Len(index'.workers[w].recent) <= Window
        /\ \A v \in DOMAIN index.workers \ kept : \A w \in kept :
              index'.workers[w].touch > index.workers[v].touch

\* Both hold throughout: placements are sound whatever the loads, and the
\* history they are based on stays bounded and recent.
PlacementIsSound == []ChoicesAreSound /\ [][IndexKeepsRecent]_pvars
=============================================================================
