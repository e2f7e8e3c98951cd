----------------------------- MODULE RaftConfig -----------------------------
(***************************************************************************)
(* Cluster configurations of brokkr-raft (types.rs, `ClusterConfig`).      *)
(*                                                                         *)
(* A configuration names the voters, the voters of the configuration it    *)
(* replaces while a joint change is in flight, and the learners.  The      *)
(* code's `old_voters: Option<BTreeSet>` is a set here, with {} for None:  *)
(* the wire conversion identifies the two and the code never builds an     *)
(* empty `Some`.                                                           *)
(***************************************************************************)
EXTENDS Integers, FiniteSets

CONSTANT Server  \* the node ids that may ever be members

ASSUME ServerFinite == IsFiniteSet(Server)

ClusterConfig ==
  [voters : SUBSET Server, oldVoters : SUBSET Server, learners : SUBSET Server]

IsJoint(c) == c.oldVoters # {}

\* `has_quorum` counts only the members of the voter set among the acks.
IsMajority(voters, acks) ==
  /\ voters # {}
  /\ Cardinality(voters \cap acks) * 2 > Cardinality(voters)

HasQuorum(c, acks) ==
  /\ IsMajority(c.voters, acks)
  /\ IsJoint(c) => IsMajority(c.oldVoters, acks)

\* Everyone whose vote can count, and everyone the leader replicates to.
VotersOf(c)  == c.voters \cup c.oldVoters
MembersOf(c) == VotersOf(c) \cup c.learners

\* C_new, the configuration a committed joint configuration moves to.
FinalConfig(c) == [c EXCEPT !.oldVoters = {}]

\* C_old,new: the configuration `propose_conf_change` appends.
JointConfig(c, newVoters) ==
  [voters    |-> newVoters,
   oldVoters |-> c.voters,
   learners  |-> c.learners \ newVoters]
=============================================================================
