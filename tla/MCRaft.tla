------------------------------- MODULE MCRaft -------------------------------
(***************************************************************************)
(* Instances of RaftNode for TLC: who is started how, who may campaign     *)
(* when, and the states TLC may identify.                                  *)
(***************************************************************************)
EXTENDS RaftSafety, TLC

\* Servers by name: a leader, its rival, and a third that only votes.
CONSTANTS s1, s2, s3

\* Every server is started with all the others as `peers`.
AllVoters ==
  [i \in Server |-> [voters |-> Server, oldVoters |-> {}, learners |-> {}]]

\* Elections between named servers, also one after a lost campaign.
JointRivals == {<<s1, 2>>, <<s2, 2>>}
Campaigns == JointRivals \cup ({s1, s2} \X (11..12))
Comeback == {<<s1, 3>>}

\* A reply that names an older term than its addressee has reached, and a
\* refused vote of its present term, can never change anything again: states
\* that differ only in those are the same to TLC.
Inert(m) ==
  \/ /\ m.type \in {"RequestVoteResponse", "AppendEntriesResponse",
                    "InstallSnapshotResponse"}
     /\ m.term < node[m.to].term
  \/ /\ m.type \in {"AppendEntriesResponse", "InstallSnapshotResponse"}
     /\ m.term = node[m.to].term
     /\ node[m.to].role = Follower
  \/ /\ m.type = "RequestVoteResponse"
     /\ m.term = node[m.to].term
     /\ ~m.granted \/ node[m.to].role # Candidate

LiveView == <<node, {m \in msgs : ~Inert(m)}, elected, chosen, readFloor, used>>
=============================================================================
