----------------------------- MODULE RaftDriver -----------------------------
(***************************************************************************)
(* The event loop around each node (crates/brokkr-raft/src/driver.rs) and  *)
(* the key-value machine it feeds (crates/brokkr-control/src/raftkv.rs).   *)
(*                                                                         *)
(* An iteration of the loop is one step of RaftNode followed by            *)
(* `post_event`: restore a newly installed snapshot, apply what is newly   *)
(* committed, answer the callers that waited for it and settle the reads   *)
(* the node has resolved.  Everything happens in one task, so it is one    *)
(* step here.  RaftKv is a caller: `put` and `delete` propose a command    *)
(* and wait until it is applied, `get` waits for a read index and then     *)
(* looks at the map.                                                       *)
(***************************************************************************)
EXTENDS RaftSafety

CONSTANT SnapshotThreshold   \* Config::snapshot_threshold

VARIABLES
  driver,    \* driver[i]: the loop of server i
  blobs,     \* the snapshot blobs written so far, with what they cover
  answers    \* history: what callers were told

driverVars == <<driver, blobs, answers>>
allVars    == <<vars, driverVars>>

-----------------------------------------------------------------------------
(* KvMachine.                                                              *)

\* What `put` and `delete` propose.
KvPut(key, value) == [op |-> "put", key |-> key, value |-> value]
KvDelete(key)     == [op |-> "delete", key |-> key, value |-> Nil]

\* Mutant of KvApply: nothing is ever removed.
KvApplyPuts(map, entry) ==
  IF entry.kind = "Command" /\ entry.data.op = "put"
  THEN Put(map, entry.data.key, entry.data.value)
  ELSE map

\* `apply`: only commands change the map.
KvApply(map, entry) ==
  IF entry.kind # "Command" THEN map
  ELSE IF entry.data.op = "put" THEN Put(map, entry.data.key, entry.data.value)
  ELSE Restrict(map, DOMAIN map \ {entry.data.key})

\* A driver before `run`: nothing applied, nobody waiting.
NewDriver == [applied |-> 0, machine |-> EmptyMap, waiting |-> {}]

\* A caller waiting until `index` is applied.  For a write the entry applied
\* there must have `term`; a read has none.  `call` is history: the command a
\* write proposed, the commit index a read has to see.
Waiter(index, term, call) == [index |-> index, term |-> term, call |-> call]

Answer(i, w, result, d) ==
  [server |-> i, waiter |-> w, result |-> result, applied |-> d.applied]

-----------------------------------------------------------------------------
(* post_event, in the order of the code, on the state of the loop and the  *)
(* answers it gives.                                                       *)

Progress(d, out) == [d |-> d, out |-> out]

\* Mutant of Outrun: only the writes below the snapshot's last index.
OutrunBelow(w, index) == w.index < index /\ w.term # Nil

\* A write whose index a snapshot has jumped over: its outcome is unknown.
Outrun(w, index) == w.index <= index /\ w.term # Nil

\* A snapshot ahead of what is applied replaces the machine's state.
RestoreSnapshot(i, n, blob, p) ==
  IF n.snap.index <= p.d.applied THEN p
  ELSE LET gone == {w \in p.d.waiting : Outrun(w, n.snap.index)}
           d == [applied |-> n.snap.index, machine |-> blob,
                 waiting |-> p.d.waiting \ gone]
       IN  Progress(d, p.out \cup {Answer(i, w, "unknown", d) : w \in gone})

\* Mutant of Outcome: whatever was applied at the index is a success.
OutcomeByIndex(w, entry) == "ok"

\* A write whose index was taken by an entry of another term was overwritten.
Outcome(w, entry) ==
  IF w.term # Nil /\ w.term # entry.term THEN "overwritten" ELSE "ok"

\* Applies the entries after p.d.applied up to the commit index, one by one.
ApplyCommitted(i, n, p) ==
  LET One(q, k) ==
        LET due == {w \in q.d.waiting : w.index = k}
            d == [applied |-> k, machine |-> KvApply(q.d.machine, n.log[k]),
                  waiting |-> q.d.waiting \ due]
        IN  Progress(d, q.out \cup {Answer(i, w, Outcome(w, n.log[k]), d) : w \in due})
      upTo[k \in p.d.applied..n.commit] ==
        IF k = p.d.applied THEN p ELSE One(upTo[k - 1], k)
  IN  IF p.d.applied < n.commit THEN upTo[n.commit] ELSE p

\* Mutant of Covered: a confirmed read is served at once.
CoveredWhenConfirmed(r, applied) == TRUE

\* A confirmed read may be served: its index is applied.
Covered(r, applied) == r.index <= applied

\* The read results the node has produced since the last iteration.
SettleReads(i, results, p) ==
  LET read(r) == Waiter(r.index, Nil, readFloor'[<<i, r.id>>])
      later == {r \in results : r.ok /\ ~Covered(r, p.d.applied)}
  IN  Progress([p.d EXCEPT !.waiting = @ \cup {read(r) : r \in later}],
               p.out \cup {Answer(i, read(r), IF r.ok THEN "ok" ELSE "deposed", p.d) :
                             r \in results \ later})

\* What was serialized when the snapshot of n was taken.
BlobsOf(n) ==
  {b.data : b \in {c \in blobs : c.index = n.snap.index /\ c.term = n.snap.term}}

\* The loop of server i, in state d, after the node has moved.
PostEvent(i, d) ==
  \E blob \in IF node'[i].snap.index > d.applied THEN BlobsOf(node'[i]) ELSE {EmptyMap} :
    \E p \in {SettleReads(i, node'[i].results \ node[i].results,
                ApplyCommitted(i, node'[i],
                  RestoreSnapshot(i, node'[i], blob, Progress(d, {}))))} :
      /\ driver' = [driver EXCEPT ![i] = p.d]
      /\ answers' = answers \cup p.out
      /\ UNCHANGED blobs

-----------------------------------------------------------------------------
(* The loop.                                                               *)

\* needs_snapshot
NeedsSnapshot(n) == n.commit - n.snap.index > SnapshotThreshold

\* A message, a tick, a read or a membership change.
Iterate(i) == Event(i) /\ PostEvent(i, driver[i])

\* Inbound::ProposeCommitted, from `put` or `delete`.
ProposeCommitted(i, command) ==
  /\ Propose(i, command)
  /\ PostEvent(i, [driver[i] EXCEPT !.waiting =
       @ \cup {Waiter(LastIndex(node[i]) + 1, node[i].term, command)}])

\* The end of an iteration that found NeedsSnapshot: the machine, fully
\* applied, becomes the snapshot.
AutoCompact(i) ==
  /\ Compact(i)
  /\ blobs' = blobs \cup {[index |-> node'[i].snap.index, term |-> node'[i].snap.term,
                           data |-> driver[i].machine]}
  /\ UNCHANGED <<driver, answers>>

\* `run` of a new process: the machine resumes from the snapshot.
Boot(i) ==
  /\ Crash(i)
  /\ PostEvent(i, NewDriver)

DriverInit ==
  /\ Init
  /\ driver = [i \in Server |-> NewDriver]
  /\ blobs = {} /\ answers = {}

\* A server whose log has outgrown the threshold compacts before it does
\* anything else, unless it crashes.
DriverNext ==
  \E i \in Server :
    \/ ~NeedsSnapshot(node[i]) /\ Iterate(i)
    \/ ~NeedsSnapshot(node[i]) /\ \E c \in Command : ProposeCommitted(i, c)
    \/ NeedsSnapshot(node[i]) /\ AutoCompact(i)
    \/ Boot(i)

DriverSpec == DriverInit /\ [][DriverNext]_allVars

-----------------------------------------------------------------------------
\* The commands on `key` among the first k entries of a log, by index.
Touching(log, k, key) ==
  {j \in 1..k : log[j].kind = "Command" /\ log[j].data.key = key}

\* What those entries leave in a map: for each key the last word on it.
LastWords(log, k) ==
  LET keys == {log[j].data.key : j \in {j \in 1..k : log[j].kind = "Command"}}
      last(key) == log[Max(Touching(log, k, key))].data
  IN  [key \in {x \in keys : last(x).op = "put"} |-> last(key).value]

(* The map of every server is the committed log, applied in order and      *)
(* exactly once up to the commit index, however it got there: entry by     *)
(* entry, from a snapshot of its own or a peer's, or after a restart       *)
(* (post_event, run).                                                      *)
MachineIsLog ==
  \A i \in Server :
    /\ driver[i].applied = node[i].commit
    /\ driver[i].machine = LastWords(chosen, driver[i].applied)

(* A write acknowledged by `propose_committed` is committed where the      *)
(* caller was told, and one refused as overwritten never will be: another  *)
(* entry is.                                                               *)
WritesAnsweredTruly ==
  \A a \in answers :
    a.waiter.term # Nil =>
      /\ a.result = "ok" =>
           /\ a.waiter.index \in DOMAIN chosen
           /\ chosen[a.waiter.index] = Entry(a.waiter.term, "Command", a.waiter.call)
      /\ a.result = "overwritten" =>
           /\ a.waiter.index \in DOMAIN chosen
           /\ chosen[a.waiter.index].term # a.waiter.term

(* Linearizable reads: when `read_index` returns, the map contains every   *)
(* write committed anywhere before the call.                               *)
ReadsSeeEarlierWrites ==
  \A a \in answers :
    a.waiter.term = Nil /\ a.result = "ok" => a.applied >= a.waiter.call

(* No write waits for an index that has already been applied: post_event   *)
(* answers it when the index is applied or jumped over, and would never    *)
(* look at it again.                                                       *)
NoWriteForgotten ==
  \A i \in Server : \A w \in driver[i].waiting :
    w.term # Nil => w.index > driver[i].applied

(* "reads are index-only and stay valid" (post_event): a read that waits   *)
(* for its index is answered when that index is applied, however the       *)
(* server gets there.                                                      *)
NoReadForgotten ==
  \A i \in Server : \A w \in driver[i].waiting :
    w.term = Nil => w.index > driver[i].applied
=============================================================================
