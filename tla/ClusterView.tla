----------------------------- MODULE ClusterView -----------------------------
(***************************************************************************)
(* What an operator sees: each node projects its own state, a poller merges*)
(* the answers of all nodes into a snapshot and publishes what changed, and*)
(* a client rebuilds the cluster from a snapshot and the deltas after it.  *)
(*                                                                         *)
(* src/crates/brokkr-control/src: cluster/{mod,probe,aggregate,events}.rs, *)
(* services/observability.rs, services/peer_observability.rs, views/*.rs.  *)
(*                                                                         *)
(* A node has at most one worker, of its own name.  Node states change     *)
(* arbitrarily between two rounds, so a round that reads them at one moment*)
(* sees every combination that one spread over time does.                  *)
(***************************************************************************)
EXTENDS Integers, FiniteSets, SequencesExt

CONSTANTS CNodes, Me,      \* the nodes, and the one that polls
          MaxTerm,
          Capacity,        \* EVENT_CHANNEL_CAPACITY
          Ring,            \* jobs a node remembers
          MaxChanges, MaxRounds, MaxSubscriptions

ASSUME ViewAssumption ==
    /\ IsFiniteSet(CNodes) /\ CNodes \subseteq Nat \ {0} /\ Me \in CNodes
    /\ MaxTerm \in Nat /\ Capacity \in Nat \ {0} /\ Ring \in Nat \ {0}
    /\ MaxChanges \in Nat /\ MaxRounds \in Nat /\ MaxSubscriptions \in Nat

VARIABLES nodes,       \* the state of each node
          silent,      \* peers that do not answer in time
          snapshot,    \* SharedSnapshot
          poller,      \* the round under way
          sent,        \* the events broadcast so far
          client,      \* one subscriber: where it is, what it believes, and whether
                       \* its snapshot lacks deltas that it was not sent (gap)
          spent        \* changes, rounds and subscriptions

vwvars == <<nodes, silent, snapshot, poller, sent, client, spent>>

NoLeader == 0
Never == [nodes |-> [n \in {} |-> 0], workers |-> [n \in {} |-> FALSE],
          policies |-> [n \in {} |-> FALSE], jobs |-> <<>>, leader |-> NoLeader, degraded |-> FALSE]

-----------------------------------------------------------------------------
(* A node's own state, and its projections. *)

\* node_view_from_status and, for a node that cannot read its Raft state,
\* unreachable_node_view.
UnreachableNodeView == [role |-> "unknown", term |-> 0, reachable |-> FALSE]
LocalNode(n) ==
    LET s == nodes[n]
    IN  IF ~s.readable THEN UnreachableNodeView
        ELSE [role |-> s.role, term |-> s.term, reachable |-> TRUE]

\* local_workers, local_policy and local_jobs: the newest job first.
LocalWorkers(n) == IF nodes[n].worker = "none" THEN {} ELSE {[id |-> n, stale |-> nodes[n].worker = "stale"]}
LocalPolicy(n) == nodes[n].quarantined
LocalJobs(n) == Reverse(nodes[n].jobs)

LocalState(n) ==
    [node |-> LocalNode(n), workers |-> LocalWorkers(n), policy |-> LocalPolicy(n), jobs |-> LocalJobs(n)]

\* A peer that answered counts as reachable, whatever it says of itself.
NodeStateFromProto(s) == [s EXCEPT !.node.reachable = TRUE]

\* poll_peers: a state, or nothing from a peer that fails or is too late.
PollPeers == [n \in CNodes \ {Me} |-> IF n \in silent THEN {} ELSE {NodeStateFromProto(LocalState(n))}]

\* JobHistory::record.
RecordJob(ring, job) == Append(IF Len(ring) = Ring THEN Tail(ring) ELSE ring, job)

-----------------------------------------------------------------------------
(* aggregate.rs *)

Elect(views) ==
    LET live == {n \in DOMAIN views : views[n].reachable}
        claimants == {n \in live : /\ views[n].role = "leader"
                                   /\ \A v \in live : views[v].term <= views[n].term}
    IN  IF Cardinality(claimants) = 1 THEN CHOOSE n \in claimants : TRUE ELSE NoLeader

NewestFirst(j, k) == j.at > k.at \/ (j.at = k.at /\ j.id < k.id)

\* merge of this node's state and of what poll_peers brought.
Merge(local, outcomes) ==
    LET states == {local} \cup UNION {outcomes[n] : n \in DOMAIN outcomes}
        heard == {Me} \cup {n \in DOMAIN outcomes : outcomes[n] # {}}
        Of(n) == IF n = Me THEN local ELSE CHOOSE s \in outcomes[n] : TRUE
        views == [n \in {Me} \cup DOMAIN outcomes |->
                    IF n \in heard THEN Of(n).node ELSE UnreachableNodeView]
        workers == UNION {s.workers : s \in states}
        leader == Elect(views)
        standalone == \A n \in DOMAIN views : views[n].reachable => views[n].role = "standalone"
    IN  [nodes |-> views,
         workers |-> [w \in {v.id : v \in workers} |-> [id |-> w, stale |-> TRUE] \in workers],
         policies |-> [n \in heard |-> Of(n).policy],
         jobs |-> SetToSortSeq(UNION {ToSet(s.jobs) : s \in states}, NewestFirst),
         leader |-> leader,
         degraded |-> heard # DOMAIN views \/ (~standalone /\ leader = NoLeader)]

-----------------------------------------------------------------------------
(* events.rs *)

Event(k, n) == [kind |-> k, of |-> n]

Each(S, k) == [i \in 1 .. Cardinality(S) |-> Event(k, SetToSortSeq(S, <)[i])]

Diff(prev, next) ==
    LET both == DOMAIN prev.nodes \cap DOMAIN next.nodes
        kept == DOMAIN prev.workers \cap DOMAIN next.workers
        policies == DOMAIN prev.policies \cap DOMAIN next.policies
    IN  Each({n \in both : prev.nodes[n].reachable /\ ~next.nodes[n].reachable}, "node_unreachable")
        \o Each({n \in both : ~prev.nodes[n].reachable /\ next.nodes[n].reachable}, "node_recovered")
        \o Each(DOMAIN next.workers \ DOMAIN prev.workers, "worker_added")
        \o Each({w \in kept : ~prev.workers[w] /\ next.workers[w]}, "worker_stale")
        \o Each(DOMAIN prev.workers \ DOMAIN next.workers, "worker_removed")
        \o Each({n \in policies : ~prev.policies[n] /\ next.policies[n]}, "policy_quarantined")
        \o Each({n \in policies : prev.policies[n] /\ ~next.policies[n]}, "policy_recovered")
        \o (IF prev.leader # next.leader THEN <<Event("leader_changed", next.leader)>> ELSE <<>>)

-----------------------------------------------------------------------------
(* What a client makes of the stream. *)

\* The messages of a snapshot: cluster_to_proto and its like, and the answers
\* of get_cluster, list_workers and get_policy too.
ClusterInfo(s) ==
    [nodes |-> s.nodes, leader_id |-> s.leader, degraded |-> s.degraded, quorum_healthy |-> ~s.degraded]
WorkerInfos(s) == {[worker_id |-> w, stale |-> s.workers[w]] : w \in DOMAIN s.workers}
PolicyInfos(s) == {[owning_node |-> n, quarantined |-> s.policies[n]] : n \in DOMAIN s.policies}

\* snapshot_event.
SnapshotEvent(s) == [cluster |-> ClusterInfo(s), workers |-> WorkerInfos(s), policies |-> PolicyInfos(s)]

World(s) ==
    LET e == SnapshotEvent(s)
    IN  [known |-> DOMAIN e.cluster.nodes,
         reachable |-> {n \in DOMAIN e.cluster.nodes : e.cluster.nodes[n].reachable},
         workers |-> {w.worker_id : w \in e.workers},
         stale |-> {w.worker_id : w \in {v \in e.workers : v.stale}},
         quarantined |-> {p.owning_node : p \in {q \in e.policies : q.quarantined}},
         leader |-> e.cluster.leader_id]

Apply(w, e) ==
    CASE e.kind = "node_unreachable" -> [w EXCEPT !.reachable = @ \ {e.of}]
      [] e.kind = "node_recovered" -> [w EXCEPT !.reachable = @ \cup {e.of}]
      [] e.kind = "worker_added" -> [w EXCEPT !.workers = @ \cup {e.of}]
      [] e.kind = "worker_removed" -> [w EXCEPT !.workers = @ \ {e.of}, !.stale = @ \ {e.of}]
      [] e.kind = "worker_stale" -> [w EXCEPT !.stale = @ \cup {e.of}]
      [] e.kind = "policy_quarantined" -> [w EXCEPT !.quarantined = @ \cup {e.of}]
      [] e.kind = "policy_recovered" -> [w EXCEPT !.quarantined = @ \ {e.of}]
      [] e.kind = "leader_changed" -> [w EXCEPT !.leader = e.of]

-----------------------------------------------------------------------------
ViewInit ==
    /\ nodes = [n \in CNodes |-> [role |-> IF Cardinality(CNodes) = 1 THEN "standalone" ELSE "follower",
                                  term |-> 0, readable |-> TRUE, worker |-> "none",
                                  quarantined |-> FALSE, jobs |-> <<>>]]
    /\ silent = {}
    /\ snapshot = Never
    /\ poller = [at |-> "idle", next |-> Never, queue |-> <<>>, from |-> 0]
    /\ sent = <<>>
    /\ client = [at |-> "away", pos |-> 0, world |-> World(Never), gap |-> FALSE]
    /\ spent = [changes |-> 0, rounds |-> 0, subscriptions |-> 0]

\* A node wins a term, follows, gains or loses a worker, completes a job...
Changed(n) ==
    LET s == nodes[n]
        now == spent.changes
    IN  {[s EXCEPT !.role = "leader", !.term = t] :
            t \in {t \in 1 .. MaxTerm : \A v \in CNodes : nodes[v].term < t}}
          \cup {[s EXCEPT !.role = r, !.term = t] :
                  r \in {"follower", "unknown"}, t \in {v.term : v \in {nodes[m] : m \in CNodes}}}
          \cup {[s EXCEPT !.worker = w] : w \in {"none", "fresh", "stale"}}
          \cup {[s EXCEPT !.quarantined = ~@], [s EXCEPT !.readable = ~@]}
          \cup {[s EXCEPT !.jobs = RecordJob(@, [id |-> now, at |-> now \div 2, state |-> st])] :
                  st \in {"succeeded", "failed"}}

NodeChanges(n) ==
    /\ spent.changes < MaxChanges /\ poller.at = "idle"
    /\ \E s \in Changed(n) : s # nodes[n] /\ s.term >= nodes[n].term /\ nodes' = [nodes EXCEPT ![n] = s]
    /\ spent' = [spent EXCEPT !.changes = @ + 1]
    /\ UNCHANGED <<silent, snapshot, poller, sent, client>>

LinkChanges(n) ==
    /\ spent.changes < MaxChanges /\ poller.at = "idle" /\ n # Me
    /\ silent' = IF n \in silent THEN silent \ {n} ELSE silent \cup {n}
    /\ spent' = [spent EXCEPT !.changes = @ + 1]
    /\ UNCHANGED <<nodes, snapshot, poller, sent, client>>

\* One round of spawn_poller: the deltas go out before the new snapshot is in
\* its place, one at a time, under the read lock.
PollRound ==
    /\ poller.at = "idle" /\ spent.rounds < MaxRounds
    /\ LET next == Merge(LocalState(Me), PollPeers)
       IN  poller' = [at |-> "sending", next |-> next, queue |-> Diff(snapshot, next),
                      from |-> Len(sent)]
    /\ spent' = [spent EXCEPT !.rounds = @ + 1]
    /\ UNCHANGED <<nodes, silent, snapshot, sent, client>>

SendEvent ==
    /\ poller.at = "sending" /\ poller.queue # <<>>
    /\ sent' = Append(sent, Head(poller.queue))
    /\ poller' = [poller EXCEPT !.queue = Tail(@)]
    /\ UNCHANGED <<nodes, silent, snapshot, client, spent>>

SwapSnapshot ==
    /\ poller.at = "sending" /\ poller.queue = <<>>
    /\ snapshot' = poller.next
    /\ poller' = [poller EXCEPT !.at = "idle", !.next = Never]
    /\ UNCHANGED <<nodes, silent, sent, client, spent>>

\* watch_events subscribes, and then reads the snapshot it starts from.
Subscribe ==
    /\ client.at = "away" /\ spent.subscriptions < MaxSubscriptions
    /\ client' = [client EXCEPT !.at = "subscribed", !.pos = Len(sent)]
    /\ spent' = [spent EXCEPT !.subscriptions = @ + 1]
    /\ UNCHANGED <<nodes, silent, snapshot, poller, sent>>

TakeSnapshot ==
    /\ client.at \in {"subscribed", "lagged"}
    /\ client' = [client EXCEPT !.at = "streaming", !.world = World(snapshot),
                                !.gap = poller.at = "sending" /\ client.pos > poller.from]
    /\ UNCHANGED <<nodes, silent, snapshot, poller, sent, spent>>

\* Mutant: a subscriber that fell behind goes on with what is left.
SkipAhead == [client EXCEPT !.pos = Len(sent) - Capacity]

\* RecvError::Lagged: the position moves to the oldest event still held.
FallBehind == [client EXCEPT !.at = "lagged", !.pos = Len(sent) - Capacity]

Receive ==
    /\ client.at = "streaming" /\ client.pos < Len(sent)
    /\ client' = IF Len(sent) - client.pos > Capacity THEN FallBehind
                 ELSE [client EXCEPT !.pos = @ + 1, !.world = Apply(@, sent[client.pos + 1])]
    /\ UNCHANGED <<nodes, silent, snapshot, poller, sent, spent>>

Disconnects ==
    /\ client.at # "away"
    /\ client' = [at |-> "away", pos |-> 0, world |-> World(Never), gap |-> FALSE]
    /\ UNCHANGED <<nodes, silent, snapshot, poller, sent, spent>>

ViewNext ==
    \/ \E n \in CNodes : NodeChanges(n) \/ LinkChanges(n)
    \/ PollRound \/ SendEvent \/ SwapSnapshot
    \/ Subscribe \/ TakeSnapshot \/ Receive \/ Disconnects

ViewSpec == ViewInit /\ [][ViewNext]_vwvars

-----------------------------------------------------------------------------
(* The listings. *)

\* list_jobs; an unknown filter is none, and no limit is the default one.
ListJobs(filter, limit) ==
    LET kept == SelectSeq(snapshot.jobs,
                  LAMBDA j : filter \in {"queued", "running", "succeeded", "failed"} => j.state = filter)
        n == IF limit = 0 THEN Cardinality(CNodes) * Ring ELSE limit
    IN  SubSeq(kept, 1, IF n < Len(kept) THEN n ELSE Len(kept))

GetJob(id) == {j \in ToSet(snapshot.jobs) : j.id = id}

UpToDate == client.at = "streaming" /\ client.pos = Len(sent) /\ poller.at = "idle"

\* A client that has received everything knows the workers, the leader and
\* which of the nodes in its snapshot answer, even if it fell behind and was
\* sent a snapshot newer than the deltas that followed it; unless it took a
\* snapshot while a round was being published whose first deltas it was not
\* sent.  A leader that is shown is one that no reachable node has outlived,
\* and a listing leaves out no job newer than one it has (diff, watch_events,
\* elect, list_jobs).
ClientsCatchUp ==
    /\ UpToDate /\ ~client.gap =>
         LET truth == World(snapshot)
         IN  /\ client.world.leader = truth.leader /\ client.world.workers = truth.workers
             /\ \A n \in client.world.known : n \in client.world.reachable <=> n \in truth.reachable
    /\ snapshot.leader # NoLeader =>
         \A n \in DOMAIN snapshot.nodes : snapshot.nodes[n].term <= snapshot.nodes[snapshot.leader].term
    /\ \A f \in {"failed", "all"}, limit \in 0 .. 2 :
         LET l == ListJobs(f, limit)
         IN  /\ \A j \in ToSet(snapshot.jobs) \ ToSet(l) :
                   \/ f = "failed" /\ j.state # f
                   \/ limit # 0 /\ Len(l) = limit /\ \A k \in ToSet(l) : k.at >= j.at
             /\ \A j \in ToSet(l) : GetJob(j.id) = {j}
    /\ snapshot.nodes # Never.nodes /\ ClusterInfo(snapshot).quorum_healthy =>
         \A n \in CNodes : n \notin DOMAIN snapshot.nodes \/ n \in DOMAIN snapshot.policies
=============================================================================
