---------------------------- MODULE ReplicatedCas ----------------------------
(***************************************************************************)
(* The replicated CAS: quorum writes over the replicas that rendezvous     *)
(* hashing selects, reads that fall back, and peer repair, while nodes     *)
(* fail and the topology changes.                                          *)
(*                                                                         *)
(* src/crates/brokkr-cas/src: replicated.rs, ring.rs, router.rs, peer.rs;  *)
(* the topology is that of src/crates/brokkr-control/src/membership.rs.    *)
(***************************************************************************)
EXTENDS Blobs

CONSTANTS Node,
          Score,        \* for each blob in use, the rank of every node
          Factor,       \* replication_factor
          Views,        \* sets of nodes the operator may configure as eligible
          Router,       \* clients that follow the topology
          MaxFaults, MaxViews, MaxWrites, MaxRepairs

\* ring.rs: nodes are ordered by score, then by id, so two nodes never tie.
ASSUME ReplicationAssumption ==
    /\ IsFiniteSet(Node)
    /\ \A d \in DOMAIN Score : /\ Score[d] \in [Node -> Nat]
                              /\ \A m, n \in Node : m # n => Score[d][m] # Score[d][n]
    /\ Factor \in Nat
    /\ Views \subseteq SUBSET Node
    /\ MaxFaults \in Nat /\ MaxViews \in Nat
    /\ MaxWrites \in Nat /\ MaxRepairs \in Nat

VARIABLES
    membership,   \* Membership: the current view, [generation, nodes]
    view,         \* the view of each router
    held,         \* blobs of each node
    up,           \* nodes that answer
    writing,      \* the write of each router in progress
    acked,        \* blobs whose write reached its quorum, with the view it used
    wiped,        \* blobs each node has lost since
    repair,       \* repair_cluster in progress
    calm,         \* no fault, write or new view since the repair began
    used

Ranked == DOMAIN Score

rvars == <<membership, view, held, up, writing, acked, wiped, repair, calm, used>>

NoWrite == [blob |-> {}, pending |-> {}, acks |-> {}, nodes |-> {}]
NoRepair == [todo |-> {}, nodes |-> {}, target |-> {}, missing |-> {}]

-----------------------------------------------------------------------------
(* Rendezvous hashing. *)

\* The eligible nodes that score better than n.
Ahead(d, nodes, n) == {m \in nodes : Score[d][m] > Score[d][n]}

\* Mutant: a position modulo the number of nodes, and the ones after it.
TopModulo(d, nodes, r) ==
    {n \in nodes : (Cardinality(Ahead(d, nodes, n)) + 3) % Cardinality(nodes) < r}

\* ring.rs replicas_for: the best-scored eligible nodes.
Top(d, nodes, r) == {n \in nodes : Cardinality(Ahead(d, nodes, n)) < r}

ReplicaSet(d, nodes) == Top(d, nodes, Factor)

\* Mutant: half of the replicas make a quorum.
HalfQuorum == Factor \div 2

WriteQuorum == IF Factor = 0 THEN 0 ELSE Factor \div 2 + 1

ReplicatedInit ==
    /\ \E nodes \in Views : membership = [generation |-> 1, nodes |-> nodes]
    /\ view = [c \in Router |-> membership]
    /\ held = [n \in Node |-> {}]
    /\ up = Node
    /\ writing = [c \in Router |-> NoWrite]
    /\ acked = {} /\ wiped = [n \in Node |-> {}]
    /\ repair = NoRepair /\ calm = TRUE
    /\ used = [faults |-> 0, views |-> 0, writes |-> 0, repairs |-> 0]

-----------------------------------------------------------------------------
(* The topology. *)

Bumped(old) == old.generation + 1

\* set_nodes: the generation moves when the view does.
SetNodes(nodes) ==
    /\ used.views < MaxViews
    /\ nodes # membership.nodes
    /\ membership' = [generation |-> Bumped(membership), nodes |-> nodes]
    /\ used' = [used EXCEPT !.views = @ + 1]
    /\ calm' = FALSE
    /\ UNCHANGED <<view, held, up, writing, acked, wiped, repair>>

\* WatchTopology yields the latest view; update_topology swaps it in.
UpdateTopology(c) ==
    /\ view[c] # membership
    /\ view' = [view EXCEPT ![c] = membership]
    /\ UNCHANGED <<membership, held, up, writing, acked, wiped, repair, calm, used>>

-----------------------------------------------------------------------------
(* Writes: every replica in parallel, then the acks are counted. *)

StartWrite(c, d) ==
    LET rs == ReplicaSet(d, view[c].nodes)
    IN  /\ writing[c] = NoWrite
        /\ used.writes < MaxWrites
        /\ rs # {}
        /\ writing' = [writing EXCEPT ![c] = [blob |-> {d}, pending |-> rs, acks |-> {},
                                              nodes |-> view[c].nodes]]
        /\ used' = [used EXCEPT !.writes = @ + 1]
        /\ calm' = FALSE
        /\ UNCHANGED <<membership, view, held, up, acked, wiped, repair>>

\* A replica that answers has stored the blob; one that is down fails.
WriteReplica(c, n) ==
    /\ n \in writing[c].pending
    /\ IF n \in up
       THEN /\ held' = [held EXCEPT ![n] = @ \cup writing[c].blob]
            /\ wiped' = [wiped EXCEPT ![n] = @ \ writing[c].blob]
            /\ writing' = [writing EXCEPT ![c].pending = @ \ {n}, ![c].acks = @ \cup {n}]
       ELSE /\ writing' = [writing EXCEPT ![c].pending = @ \ {n}]
            /\ UNCHANGED <<held, wiped>>
    /\ UNCHANGED <<membership, view, up, acked, repair, calm, used>>

FinishWrite(c) ==
    /\ writing[c] # NoWrite /\ writing[c].pending = {}
    /\ acked' = IF Cardinality(writing[c].acks) >= WriteQuorum
                THEN acked \cup (writing[c].blob \X {writing[c].nodes}) ELSE acked
    /\ writing' = [writing EXCEPT ![c] = NoWrite]
    /\ UNCHANGED <<membership, view, held, up, wiped, repair, calm, used>>

\* batch_read_blobs: the first replica that has the blob.
Found(d, nodes) == \E n \in ReplicaSet(d, nodes) : n \in up /\ d \in held[n]

-----------------------------------------------------------------------------
(* Faults. *)

Fault ==
    /\ used.faults < MaxFaults
    /\ used' = [used EXCEPT !.faults = @ + 1]
    /\ calm' = FALSE

GoDown(n) ==
    /\ Fault /\ n \in up
    /\ up' = up \ {n}
    /\ UNCHANGED <<membership, view, held, writing, acked, wiped, repair>>

ComeBack(n) ==
    /\ n \notin up
    /\ up' = up \cup {n}
    /\ calm' = FALSE
    /\ UNCHANGED <<membership, view, held, writing, acked, wiped, repair, used>>

LoseBlobs(n) ==
    /\ Fault /\ held[n] # {}
    /\ wiped' = [wiped EXCEPT ![n] = @ \cup held[n]]
    /\ held' = [held EXCEPT ![n] = {}]
    /\ UNCHANGED <<membership, view, up, writing, acked, repair>>

-----------------------------------------------------------------------------
(* repair_cluster: repair_node for one node of the topology after another. *)

StartRepair ==
    /\ repair = NoRepair
    /\ \E d \in Ranked : \E n \in membership.nodes : d \in held[n]
    /\ repair' = [NoRepair EXCEPT !.todo = membership.nodes, !.nodes = membership.nodes]
    /\ used.repairs < MaxRepairs
    /\ used' = [used EXCEPT !.repairs = @ + 1]
    /\ calm' = \A c \in Router : writing[c] = NoWrite
    /\ UNCHANGED <<membership, view, held, up, writing, acked, wiped>>

\* list_digests of every node of the topology: one that does not answer ends
\* the repair.  Then the share of the target that it lacks.
ScanTarget(t) ==
    /\ repair.target = {} /\ t \in repair.todo
    /\ LET universe == UNION {held[n] : n \in repair.nodes}
           mine == {d \in universe : t \in ReplicaSet(d, repair.nodes)}
       IN  repair' = IF repair.nodes \subseteq up
                     THEN [repair EXCEPT !.target = {t}, !.missing = mine \ held[t]]
                     ELSE NoRepair
    /\ UNCHANGED <<membership, view, held, up, writing, acked, wiped, calm, used>>

\* Mutant: only the primary is asked for the bytes.
SourcesPrimary(d, t) == Top(d, repair.nodes, 1) \ {t}

Sources(d, t) == ReplicaSet(d, repair.nodes) \ {t}

PullBlob(d) ==
    \E t \in repair.target :
        /\ d \in repair.missing
        /\ \/ /\ \E n \in Sources(d, t) : n \in up /\ d \in held[n]
              /\ IF t \in up
                 THEN /\ held' = [held EXCEPT ![t] = @ \cup {d}]
                      /\ wiped' = [wiped EXCEPT ![t] = @ \ {d}]
                      /\ repair' = [repair EXCEPT !.missing = @ \ {d}]
                 ELSE repair' = NoRepair /\ UNCHANGED <<held, wiped>>
           \/ /\ ~\E n \in Sources(d, t) : n \in up /\ d \in held[n]
              /\ repair' = [repair EXCEPT !.missing = @ \ {d}]
              /\ UNCHANGED <<held, wiped>>
        /\ UNCHANGED <<membership, view, up, writing, acked, calm, used>>

NextTarget ==
    /\ repair.target # {} /\ repair.missing = {}
    /\ repair' = [repair EXCEPT !.todo = @ \ repair.target, !.target = {}]
    /\ UNCHANGED <<membership, view, held, up, writing, acked, wiped, calm, used>>

RepairEnds ==
    /\ repair # NoRepair /\ repair.todo = {}
    /\ repair' = NoRepair
    /\ UNCHANGED <<membership, view, held, up, writing, acked, wiped, calm, used>>

ReplicatedNext ==
    \/ \E nodes \in Views : SetNodes(nodes)
    \/ \E c \in Router :
         \/ UpdateTopology(c)
         \/ FinishWrite(c)
         \/ \E d \in Ranked : StartWrite(c, d)
         \/ \E n \in Node : WriteReplica(c, n)
    \/ \E n \in Node : GoDown(n) \/ ComeBack(n) \/ LoseBlobs(n)
    \/ StartRepair \/ NextTarget \/ RepairEnds \/ \E n \in repair.todo : ScanTarget(n)
    \/ \E d \in Ranked : PullBlob(d)

ReplicatedSpec == ReplicatedInit /\ [][ReplicatedNext]_rvars

-----------------------------------------------------------------------------
\* A write that was acknowledged survives the loss of any minority of its
\* replicas, even if the write missed another minority: a read with the view
\* of the write finds it (write_quorum, batch_update_blobs, batch_read_blobs).
AckedIsReadable ==
    \A a \in acked :
        LET rs == ReplicaSet(a[1], a[2])
            lost == {n \in rs : n \notin up \/ a[1] \in wiped[n]}
        IN  2 * Cardinality(lost) <= Factor => Found(a[1], a[2])

\* A repair that nothing disturbed leaves every blob that one of its replicas
\* holds on all of them (repair_node, repair_cluster).
RepairRestoresReplicas ==
    (repair # NoRepair /\ repair.todo = {} /\ calm) =>
        \A d \in Ranked :
            LET rs == ReplicaSet(d, repair.nodes)
            IN  (\E n \in rs : d \in held[n]) => \A n \in rs : d \in held[n]

\* A client never goes back to an older view, and a new view moves blobs only
\* on account of the nodes that joined or left: a replica that stays eligible
\* loses a blob only to a node that joined, and gains one only from a node
\* that left (set_nodes, update_topology, ring.rs replicas_for).
TopologyIsOrderly ==
    [][/\ \A c \in Router : view'[c] # view[c] => view'[c].generation > view[c].generation
       /\ membership' # membership =>
            LET old == membership.nodes
                new == membership'.nodes
            IN  \A d \in Ranked : \A r \in 1 .. Cardinality(Node) :
                  LET before == Top(d, old, r)
                      after == Top(d, new, r)
                  IN  /\ Cardinality((after \ before) \cap old) <= Cardinality(before \ new)
                      /\ Cardinality((before \ after) \cap new) <= Cardinality(after \ old)]_rvars
=============================================================================
