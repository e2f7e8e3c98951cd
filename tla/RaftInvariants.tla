---------------------------- MODULE RaftInvariants --------------------------
(***************************************************************************)
(* The invariants of the proofs about brokkr-raft, and the lemmas that the *)
(* proofs share: what a node is, what a node has whose configurations all  *)
(* have the voters V, the invariant of elections, and the invariant of     *)
(* logs.                                                                   *)
(*                                                                         *)
(* The last one speaks of three things no server keeps: W[t], the whole    *)
(* log that the leader of term t has written, from index 1 on; A, the      *)
(* acknowledgements <<p, t, k>>, p having held W[t] up to k in term t; and *)
(* F[i], the whole log that server i's snapshot and log stand for.         *)
(***************************************************************************)
EXTENDS RaftSafety, TLAPS

-----------------------------------------------------------------------------
(* Nodes, and what a step does to term, vote and role.                     *)

NodeFields == {"role", "term", "votedFor", "log", "snap", "commit", "configs",
               "leaderId", "contact", "votes", "lead", "readSeq", "results"}

\* What the proofs about elections need to know of a node.
IsNode(n) == DOMAIN n = NodeFields /\ n.term \in Nat

\* n2 has the hard state of n, and no more of a claim to lead.
SameHardState(n, n2) ==
  /\ IsNode(n2)
  /\ n2.term = n.term
  /\ n2.votedFor = n.votedFor
  /\ n2.role \in {n.role, Follower}
  /\ n2.votes \in {n.votes, {}}

\* Messages that carry a term and grant no vote.
NoGrants(out) ==
  \A m \in out : m.term \in Nat /\ (m.type = "RequestVoteResponse" => ~m.granted)

(* Stepping down keeps term and vote (step_down_to_follower).              *)
LEMMA StepDownSame ==
  ASSUME NEW n, IsNode(n)
  PROVE  SameHardState(n, StepDown(n)) /\ StepDown(n).role = Follower
BY Zenon DEF IsNode, SameHardState, StepDown, NodeFields, Follower

(* A committed configuration may end leadership, never touch the hard      *)
(* state (after_commit_config_actions).                                    *)
LEMMA CommitUpToSame ==
  ASSUME NEW n, IsNode(n), NEW i
  PROVE  SameHardState(n, CommitUpTo(i, n))
<1> DEFINE c == [n EXCEPT !.commit = CommitPoint(i, n)]
<1>1. IsNode(c) /\ SameHardState(n, c)
  BY Zenon DEF IsNode, SameHardState, NodeFields
<1>2. SameHardState(c, [StepDown(c) EXCEPT !.leaderId = Nil])
  BY <1>1, Zenon DEF IsNode, SameHardState, StepDown, NodeFields
<1>3. SameHardState(c, LeaveIfRemoved(i, c))
  BY <1>1, <1>2, Zenon DEF LeaveIfRemoved, SameHardState, IsNode
<1>4. SameHardState(n, n)
  BY Zenon DEF SameHardState
<1>5. SameHardState(n, LeaveIfRemoved(i, c))
  BY <1>1, <1>3, Zenon DEF SameHardState
<1> QED
  BY <1>4, <1>5, Zenon DEF CommitUpTo

(* Sending a round never touches the hard state (replicate_all,            *)
(* replicate_to).                                                          *)
LEMMA NextRoundSame ==
  ASSUME NEW n, IsNode(n)
  PROVE  SameHardState(n, NextRound(n))
BY Zenon DEF IsNode, SameHardState, NextRound, NodeFields

\* A round carries the term of its sender (append_entries_for).
LEMMA AppendEntriesForTerm ==
  ASSUME NEW n, IsNode(n), NEW i, NEW p
  PROVE  /\ AppendEntriesFor(i, n, p).term = n.term
         /\ AppendEntriesFor(i, n, p).type # "RequestVoteResponse"
BY Zenon DEF AppendEntriesFor

\* Replicating changes no vote and no term (replicate_all, replicate_to).
LEMMA ReplicateSame ==
  ASSUME NEW n, IsNode(n), NEW i, NEW p
  PROVE  /\ SameHardState(n, ReplicateAll(i, n).n)
         /\ NoGrants(ReplicateAll(i, n).out)
         /\ SameHardState(n, ReplicateTo(i, n, p).n)
         /\ NoGrants(ReplicateTo(i, n, p).out)
<1> DEFINE r == NextRound(n)
<1>1. SameHardState(n, n)
  BY Zenon DEF SameHardState
<1>2. IsNode(r) /\ SameHardState(n, r)
  BY NextRoundSame, Zenon DEF SameHardState
<1>3. \A q : /\ AppendEntriesFor(i, r, q).term \in Nat
             /\ AppendEntriesFor(i, r, q).type # "RequestVoteResponse"
  BY <1>2, AppendEntriesForTerm, Zenon DEF IsNode
<1>4. NoGrants({AppendEntriesFor(i, r, q) : q \in ReplicationTargets(i, r)})
  BY <1>3, Zenon DEF NoGrants
<1>5. NoGrants({AppendEntriesFor(i, r, p)})
  BY <1>3, Zenon DEF NoGrants
<1>6. NoGrants({})
  BY Zenon DEF NoGrants
<1> HIDE DEF r
<1>7. /\ SameHardState(n, ReplicateAll(i, n).n)
      /\ NoGrants(ReplicateAll(i, n).out)
  BY <1>1, <1>2, <1>4, <1>6, Zenon DEF ReplicateAll, Step, r
<1>8. /\ SameHardState(n, ReplicateTo(i, n, p).n)
      /\ NoGrants(ReplicateTo(i, n, p).out)
  BY <1>1, <1>2, <1>5, <1>6, Zenon DEF ReplicateTo, Step, r
<1> QED
  BY <1>7, <1>8, Zenon

(* Appending to the log, and a configuration entry with all it triggers,   *)
(* keep the hard state (append_config_entry).                              *)
LEMMA AppendLogSame ==
  ASSUME NEW n, IsNode(n), NEW kind, NEW data
  PROVE  SameHardState(n, AppendLog(n, kind, data))
BY Zenon DEF IsNode, SameHardState, AppendLog, NodeFields

\* Two steps that keep the hard state keep it together.
LEMMA SameTransitive ==
  ASSUME NEW a, NEW b, NEW c, SameHardState(a, b), SameHardState(b, c)
  PROVE  SameHardState(a, c)
BY Zenon DEF SameHardState

\* So does appending a configuration (append_config_entry).
LEMMA AppendConfigEntrySame ==
  ASSUME NEW n, IsNode(n), NEW i, NEW config
  PROVE  /\ SameHardState(n, AppendConfigEntry(i, n, config).n)
         /\ NoGrants(AppendConfigEntry(i, n, config).out)
<1> DEFINE a == AppendLog(n, "Config", config)
           b == [a EXCEPT !.configs = OnAppend(@, EntriesFrom(a, LastIndex(a)))]
           r == RefreshLeaderState(i, b)
           u == CommitUpTo(i, r)
<1>1. IsNode(a) /\ SameHardState(n, a)
  BY AppendLogSame DEF SameHardState
<1>2. IsNode(b) /\ SameHardState(a, b)
  <2> HIDE DEF a
  <2> QED  BY <1>1, Zenon DEF IsNode, SameHardState, NodeFields
<1>3. IsNode(r) /\ SameHardState(b, r)
  <2> HIDE DEF b
  <2> QED  BY <1>2, Zenon DEF IsNode, SameHardState, NodeFields, RefreshLeaderState
<1>4. IsNode(u) /\ SameHardState(r, u)
  <2> HIDE DEF r
  <2> QED  BY <1>3, CommitUpToSame, Zenon DEF SameHardState
<1>5. SameHardState(n, u)
  <2> HIDE DEF a, b, r, u
  <2> QED  BY <1>1, <1>2, <1>3, <1>4, SameTransitive, Zenon
<1>6. AppendConfigEntry(i, n, config) = ReplicateAll(i, u)
  BY Zenon DEF AppendConfigEntry
<1> HIDE DEF u
<1> QED
  BY <1>4, <1>5, <1>6, ReplicateSame, SameTransitive, Zenon

(* Advancing the commit index keeps the hard state (advance_commit_index). *)
LEMMA AdvanceCommitIndexSame ==
  ASSUME NEW n, IsNode(n), NEW i
  PROVE  /\ SameHardState(n, AdvanceCommitIndex(i, n).n)
         /\ NoGrants(AdvanceCommitIndex(i, n).out)
<1> DEFINE c == [n EXCEPT !.commit = CommitPoint(i, n)]
<1>1. IsNode(c) /\ SameHardState(n, c)
  BY Zenon DEF IsNode, SameHardState, NodeFields
<1>2. SameHardState(n, CommitUpTo(i, n))
  BY CommitUpToSame, Zenon
<1>3. NoGrants({})
  BY Zenon DEF NoGrants
<1>4. /\ SameHardState(n, AppendConfigEntry(i, c, FinalConfig(Active(c))).n)
      /\ NoGrants(AppendConfigEntry(i, c, FinalConfig(Active(c))).out)
  <2> HIDE DEF c
  <2> QED  BY <1>1, AppendConfigEntrySame, SameTransitive, Zenon
<1> QED
  BY <1>2, <1>3, <1>4, Zenon DEF AdvanceCommitIndex, Step

(* A new leader keeps the hard state of the candidate it was; it may have  *)
(* left again at once (become_leader).                                     *)
LEMMA BecomeLeaderHardState ==
  ASSUME NEW n, IsNode(n), NEW i
  PROVE  LET s == BecomeLeader(i, n)
         IN  /\ IsNode(s.n)
             /\ s.n.term = n.term /\ s.n.votedFor = n.votedFor
             /\ s.n.role \in {Leader, Follower} /\ s.n.votes = {}
             /\ NoGrants(s.out)
<1> DEFINE peers == ReplicationTargets(i, n)
           lead  == [next      |-> [p \in peers |-> LastIndex(n) + 1],
                     match     |-> [p \in peers |-> 0],
                     aeSeq     |-> 0,
                     termStart |-> LastIndex(n) + 1,
                     reads     |-> {}]
           a   == AppendLog(n, "Noop", Nil)
           l   == [a EXCEPT !.role = Leader, !.votes = {}, !.lead = lead, !.leaderId = i]
           adv == AdvanceCommitIndex(i, l)
           rep == ReplicateAll(i, adv.n)
<1>1. IsNode(a) /\ SameHardState(n, a)
  BY AppendLogSame DEF SameHardState
<1>2. /\ IsNode(l) /\ l.term = n.term /\ l.votedFor = n.votedFor
      /\ l.role = Leader /\ l.votes = {}
  <2> HIDE DEF a, lead
  <2> QED  BY <1>1, Zenon DEF IsNode, SameHardState, NodeFields
<1>3. SameHardState(l, adv.n) /\ NoGrants(adv.out)
  <2> HIDE DEF l
  <2> QED  BY <1>2, AdvanceCommitIndexSame, Zenon
<1>4. SameHardState(adv.n, rep.n) /\ NoGrants(rep.out)
  <2> HIDE DEF adv
  <2> QED  BY <1>3, ReplicateSame, Zenon DEF SameHardState
<1>5. BecomeLeader(i, n) = [n |-> rep.n, out |-> adv.out \cup rep.out]
  BY Zenon DEF BecomeLeader, AndThen, Step
<1>6. NoGrants(adv.out \cup rep.out)
  BY <1>3, <1>4, Zenon DEF NoGrants
<1>7. SameHardState(l, rep.n)
  BY <1>3, <1>4, SameTransitive, Zenon
<1> HIDE DEF l, adv, rep
<1> QED
  BY <1>2, <1>5, <1>6, <1>7 DEF SameHardState

(* A receiver that accepts a request has its sender's term, and has lost   *)
(* its vote only if that term is new to it (observe_term).                 *)
LEMMA ObserveTermGives ==
  ASSUME NEW n, IsNode(n), NEW t \in Nat
  PROVE  LET o == ObserveTerm(n, t)
         IN  \/ t <= n.term /\ o = n
             \/ /\ t > n.term /\ IsNode(o)
                /\ o.term = t /\ o.votedFor = Nil /\ o.role = Follower /\ o.votes = {}
<1>1. CASE t > n.term
  <2>1. IsNode(StepDown(n)) /\ StepDown(n).role = Follower /\ StepDown(n).votes = {}
    BY StepDownSame, Zenon DEF SameHardState, StepDown, IsNode, NodeFields
  <2> QED
    BY <1>1, <2>1, Zenon DEF ObserveTerm, IsNode, NodeFields
<1>2. CASE ~(t > n.term)
  BY <1>2 DEF ObserveTerm, IsNode
<1> QED  BY <1>1, <1>2, Zenon

\* Every node is one, and every message in the network carries a term.
Wellformed ==
  /\ DOMAIN node = Server
  /\ \A i \in Server : IsNode(node[i])
  /\ \A m \in msgs : m.term \in Nat

\* Server i alone moves, sends `out`, and leaves its trace in the histories.
Moved(i, out) ==
  /\ DOMAIN node' = Server
  /\ \A j \in Server \ {i} : node'[j] = node[j]
  /\ msgs' \subseteq msgs \cup out
  /\ ballots' = ballots \cup {<<i, node'[i].term, c>> : c \in {node'[i].votedFor} \ {Nil}}
  /\ elected' = IF node'[i].role = Leader THEN elected \cup {<<i, node'[i].term>>} ELSE elected

\* The hard state stays, and no role is gained.
Stays(i) ==
  /\ SameHardState(node[i], node'[i])
  /\ \E out : NoGrants(out) /\ Moved(i, out)

\* A later term is entered, without a vote in it.
Enters(i) ==
  /\ IsNode(node'[i])
  /\ node'[i].term > node[i].term
  /\ node'[i].votedFor = Nil /\ node'[i].role = Follower /\ node'[i].votes = {}
  /\ \E out : NoGrants(out) /\ Moved(i, out)

\* A vote for c, in this or a later term.
Votes(i, c) ==
  /\ IsNode(node'[i])
  /\ node'[i].votedFor = c
  /\ \/ /\ node'[i].term = node[i].term
        /\ node[i].votedFor \in {Nil, c}
        /\ node'[i].role = node[i].role /\ node'[i].votes = node[i].votes
     \/ /\ node'[i].term > node[i].term
        /\ node'[i].role = Follower /\ node'[i].votes = {}
  /\ \E out : /\ Moved(i, out)
              /\ \A m \in out : /\ m.term = node'[i].term
                                /\ m.from = i /\ m.to = c
                                /\ m.type = "RequestVoteResponse"

\* A campaign in the next term, won at once by a quorum of one.
Campaigns(i) ==
  /\ IsNode(node'[i])
  /\ node'[i].term = node[i].term + 1 /\ node'[i].votedFor = i
  /\ \/ node'[i].role = Candidate /\ node'[i].votes = {i}
     \/ /\ node'[i].role \in {Leader, Follower} /\ node'[i].votes = {}
        /\ HasQuorum(Active(node[i]), {i})
  /\ \E out : NoGrants(out) /\ Moved(i, out)

\* An answer to a campaign is counted, and decides it when a quorum agrees.
Counts(i, m) ==
  /\ IsNode(node'[i])
  /\ node[i].role = Candidate /\ m.term = node[i].term
  /\ node'[i].term = node[i].term /\ node'[i].votedFor = node[i].votedFor
  /\ \E votes :
       /\ votes = IF m.granted THEN node[i].votes \cup {m.from} ELSE node[i].votes
       /\ \/ node'[i].role = Candidate /\ node'[i].votes = votes
          \/ /\ node'[i].role \in {Leader, Follower} /\ node'[i].votes = {}
             /\ HasQuorum(Active(node[i]), votes)
  /\ \E out : NoGrants(out) /\ Moved(i, out)

(* Every handler ends in Take, which moves one node and adds what it sends. *)
LEMMA TakeMoves ==
  ASSUME Wellformed, NEW i \in Server, NEW in, NEW s, Take(i, in, s)
  PROVE  node'[i] = s.n /\ Moved(i, s.out)
<1>1. node' = [node EXCEPT ![i] = s.n]
  BY Zenon DEF Take
<1>2. DOMAIN node' = Server /\ node'[i] = s.n /\ \A j \in Server \ {i} : node'[j] = node[j]
  BY <1>1, Zenon DEF Wellformed
<1>3. msgs' \subseteq msgs \cup s.out
  BY Zenon DEF Take
<1>4. /\ ballots' = ballots \cup {<<i, node'[i].term, c>> : c \in {node'[i].votedFor} \ {Nil}}
      /\ elected' = IF node'[i].role = Leader THEN elected \cup {<<i, node'[i].term>>}
                                              ELSE elected
  BY <1>2 DEF Take
<1> QED  BY <1>2, <1>3, <1>4, Zenon DEF Moved

\* Only the server that steps changes its node.
LEMMA MovedAlone ==
  ASSUME NEW i, NEW out, Moved(i, out)
  PROVE  /\ DOMAIN node' = Server
         /\ \A j \in Server \ {i} : node'[j] = node[j]
         /\ msgs' \subseteq msgs \cup out
BY Zenon DEF Moved

-----------------------------------------------------------------------------
(* Nodes whose configurations have the voters V.                           *)

Fixed(V, c) == c = [voters |-> V, oldVoters |-> {}, learners |-> c.learners]

\* The keys of a log, or of the part of one: a bounded set of indices.
Indices(S) == S \subseteq Nat /\ \E b \in Nat : \A k \in S : k <= b

LogOk(V, log) ==
  /\ Indices(DOMAIN log)
  /\ \A k \in DOMAIN log : log[k].kind = "Config" => Fixed(V, log[k].data)

\* Only NoSnapshot, at index 0, has no configuration.
SnapOk(V, snap) ==
  /\ snap.index \in Nat
  /\ Fixed(V, snap.config) \/ (snap.config = Nil /\ snap.index = 0)

ConfigsOk(V, c) ==
  /\ c = [base |-> c.base, baseIndex |-> c.baseIndex, inLog |-> c.inLog]
  /\ Fixed(V, c.base)
  /\ Indices(DOMAIN c.inLog)
  /\ \A k \in DOMAIN c.inLog : Fixed(V, c.inLog[k])

LeadOk(l) ==
  /\ DOMAIN l = {"next", "match", "aeSeq", "termStart", "reads"}
  /\ \A p \in DOMAIN l.next : l.next[p] \in Nat /\ l.next[p] >= 1

Stable(V, n) ==
  /\ IsNode(n)
  /\ LogOk(V, n.log)
  /\ SnapOk(V, n.snap)
  /\ n.commit \in Nat
  /\ ConfigsOk(V, n.configs)
  /\ LeadOk(n.lead)

StableMsg(V, m) ==
  /\ m.type = "AppendEntries" =>
       LogOk(V, m.entries) /\ m.prevIndex \in Nat /\ m.commit \in Nat
  /\ m.type = "AppendEntriesResponse" => m.conflictIndex \in Nat /\ m.matchIndex \in Nat
  /\ m.type = "InstallSnapshot" => SnapOk(V, m.snap)

\* The invariant.
VotersStay(V) ==
  /\ \A i \in Server : Stable(V, node[i])
  /\ \A m \in msgs : StableMsg(V, m)

(* Sets of indices: they have a largest and a smallest element, which is   *)
(* what Max and Min pick.                                                  *)
(* What the proofs need of finite sets: a set of naturals has a least one, *)
(* two majorities share a voter, and what two cardinalities are.  The      *)
(* lemmas take it as a hypothesis; RaftProofs proves it.                *)
Counting ==
  /\ \A S : S \subseteq Nat /\ S # {} => \E x \in S : \A y \in S : x <= y
  /\ \A V \in SUBSET Server : \A P, Q :
       IsMajority(V, P) /\ IsMajority(V, Q) => P \cap Q # {}
  /\ \A S : Indices(S) => Cardinality(S) \in Nat
  /\ \A a, b \in Nat : a <= b => Cardinality((a + 1)..b) = b - a

\* A non-empty set of indices has its least element in it.
LEMMA MinOf ==
  ASSUME Counting, NEW S, S \subseteq Nat, S # {}
  PROVE  Min(S) \in S /\ \A k \in S : Min(S) <= k
<1>1. \E x \in S : \A y \in S : x =< y
  BY Zenon DEF Counting
<1> QED  BY <1>1, Zenon DEF Min

\* And its greatest.
LEMMA MaxOf ==
  ASSUME Counting, NEW S, Indices(S), S # {}
  PROVE  Max(S) \in S /\ \A k \in S : k <= Max(S)
<1> DEFINE B == {b \in Nat : \A k \in S : k <= b}
<1>1. B # {} /\ B \subseteq Nat /\ S \subseteq Nat
  BY Zenon DEF Indices
<1>2. PICK b \in B : \A c \in B : b <= c
  BY <1>1, Zenon DEF Counting
<1>3. b \in S
  <2> SUFFICES ASSUME b \notin S PROVE FALSE
    BY Zenon
  <2>1. \A k \in S : k < b
    BY <1>1
  <2>2. b # 0
    <3>1. PICK k : k \in S
      BY Zenon
    <3>2. k \in Nat /\ k < b /\ b \in Nat
      BY <1>1, <2>1, <3>1, Zenon
    <3> QED  BY <3>2
  <2>3. b - 1 \in B
    BY <1>1, <2>1, <2>2
  <2> QED  BY <1>2, <2>3
<1>4. \E x \in S : \A y \in S : x >= y
  BY <1>1, <1>3, Zenon
<1>5. Max(S) \in S /\ \A y \in S : Max(S) >= y
  BY <1>4, Zenon DEF Max
<1> QED  BY <1>1, <1>5, Zenon

\* Fewer indices are indices still.
LEMMA IndicesSubset ==
  ASSUME NEW S, Indices(S), NEW T, T \subseteq S
  PROVE  Indices(T)
BY Zenon DEF Indices

\* And so are those of two sets.
LEMMA IndicesUnion ==
  ASSUME NEW S, NEW T, Indices(S), Indices(T)
  PROVE  Indices(S \cup T)
<1>1. PICK a \in Nat : \A k \in S : k <= a
  BY Zenon DEF Indices
<1>2. PICK b \in Nat : \A k \in T : k <= b
  BY Zenon DEF Indices
<1>3. S \subseteq Nat /\ T \subseteq Nat
  BY Zenon DEF Indices
<1>4. \A k \in S \cup T : k <= a + b
  BY <1>1, <1>2, <1>3
<1>5. a + b \in Nat
  OBVIOUS
<1> QED  BY <1>3, <1>4, <1>5, Zenon DEF Indices

\* A single index.
LEMMA IndicesOne ==
  ASSUME NEW k \in Nat
  PROVE  Indices({k})
BY DEF Indices

\* Part of a log is a log.
LEMMA RestrictLog ==
  ASSUME NEW V, NEW log, LogOk(V, log), NEW S, S \subseteq DOMAIN log
  PROVE  LogOk(V, Restrict(log, S))
BY IndicesSubset, Zenon DEF LogOk, Restrict

\* The last index is a number, whether it is in the log or of the snapshot
\* (last_index).
LEMMA LastIndexIs ==
  ASSUME Counting, NEW V, NEW n, Stable(V, n)
  PROVE  LastIndex(n) \in Nat
<1>1. Indices(DOMAIN n.log) /\ n.snap.index \in Nat
  BY Zenon DEF Stable, LogOk, SnapOk
<1>2. DOMAIN n.log # {} => Max(DOMAIN n.log) \in Nat
  BY <1>1, MaxOf, Zenon DEF Indices
<1> QED  BY <1>1, <1>2, Zenon DEF LastIndex

(* The latest configuration is in force, and it has the voters V.          *)
LEMMA ActiveIsFixed ==
  ASSUME Counting, NEW V, NEW n, Stable(V, n)
  PROVE  Fixed(V, Active(n)) /\ ~IsJoint(Active(n))
<1>1. ConfigsOk(V, n.configs)
  BY Zenon DEF Stable
<1>2. DOMAIN n.configs.inLog # {} => Max(DOMAIN n.configs.inLog) \in DOMAIN n.configs.inLog
  BY <1>1, MaxOf, Zenon DEF ConfigsOk
<1>3. Fixed(V, Active(n))
  BY <1>1, <1>2, Zenon DEF ConfigsOk, Active
<1>4. Active(n).oldVoters = {}
  BY <1>3 DEF Fixed
<1> QED  BY <1>3, <1>4, Zenon DEF IsJoint

\* The tracker stays sound as entries are appended (ConfigTracker::on_append).
LEMMA OnAppendOk ==
  ASSUME NEW V, NEW c, ConfigsOk(V, c), NEW entries, LogOk(V, entries)
  PROVE  ConfigsOk(V, OnAppend(c, entries))
<1> DEFINE new == {k \in DOMAIN entries : entries[k].kind = "Config"}
           old == {k \in DOMAIN c.inLog : \A j \in new : k < j}
           in  == [k \in old \cup new |-> IF k \in new THEN entries[k].data ELSE c.inLog[k]]
<1>1. OnAppend(c, entries) = [c EXCEPT !.inLog = in]
  BY Zenon DEF OnAppend
<1>2. Indices(new) /\ Indices(old)
  BY IndicesSubset, Zenon DEF LogOk, ConfigsOk
<1>3. Indices(DOMAIN in)
  BY <1>2, IndicesUnion, Zenon
<1>4. \A k \in DOMAIN in : Fixed(V, in[k])
  BY Zenon DEF LogOk, ConfigsOk
<1> HIDE DEF in
<1>5. OnAppend(c, entries) = [base |-> c.base, baseIndex |-> c.baseIndex, inLog |-> in]
  BY <1>1, Zenon DEF ConfigsOk
<1> QED  BY <1>3, <1>4, <1>5 DEF ConfigsOk

(* A node that differs from a stable one in none of this is stable.        *)
LEMMA StableAlike ==
  ASSUME NEW V, NEW n, NEW n2, Stable(V, n), IsNode(n2),
         n2.log = n.log, n2.snap = n.snap, n2.commit = n.commit, n2.configs = n.configs,
         LeadOk(n2.lead)
  PROVE  Stable(V, n2)
BY Zenon DEF Stable

\* Stepping down leaves log and configurations alone (step_down).
LEMMA StepDownStable ==
  ASSUME NEW V, NEW n, Stable(V, n)
  PROVE  Stable(V, StepDown(n))
<1>1. IsNode(n)
  BY Zenon DEF Stable
<1>2. IsNode(StepDown(n))
  BY <1>1, StepDownSame, Zenon DEF SameHardState
<1>3. /\ StepDown(n).log = n.log /\ StepDown(n).snap = n.snap
      /\ StepDown(n).commit = n.commit /\ StepDown(n).configs = n.configs
      /\ StepDown(n).lead = NoLeaderState
  BY <1>1, Zenon DEF StepDown, IsNode, NodeFields
<1>4. LeadOk(NoLeaderState)
  BY Zenon DEF LeadOk, NoLeaderState, EmptyMap
<1> QED  BY <1>2, <1>3, <1>4, StableAlike, Zenon

\* So does entering a later term (observe_term).
LEMMA ObserveTermStable ==
  ASSUME NEW V, NEW n, Stable(V, n), NEW t \in Nat
  PROVE  Stable(V, ObserveTerm(n, t))
<1> DEFINE d == StepDown(n)
           o == [d EXCEPT !.term = t, !.votedFor = Nil, !.leaderId = Nil]
<1>1. Stable(V, d)
  BY StepDownStable, Zenon
<1> HIDE DEF d
<1>2. /\ IsNode(o) /\ o.log = d.log /\ o.snap = d.snap /\ o.commit = d.commit
      /\ o.configs = d.configs /\ o.lead = d.lead
  BY <1>1, Zenon DEF Stable, IsNode, NodeFields
<1> HIDE DEF o
<1>3. Stable(V, o)
  BY <1>1, <1>2, StableAlike, Zenon DEF Stable
<1> QED  BY <1>3, Zenon DEF ObserveTerm, o, d

\* And following its leader (accept_leader).
LEMMA AcceptLeaderStable ==
  ASSUME NEW V, NEW n, Stable(V, n), NEW leader
  PROVE  Stable(V, AcceptLeader(n, leader))
<1> DEFINE d == StepDown(n)
           a == [d EXCEPT !.leaderId = leader, !.contact = TRUE]
<1>1. Stable(V, d)
  BY StepDownStable, Zenon
<1> HIDE DEF d
<1>2. /\ IsNode(a) /\ a.log = d.log /\ a.snap = d.snap /\ a.commit = d.commit
      /\ a.configs = d.configs /\ a.lead = d.lead
  BY <1>1, Zenon DEF Stable, IsNode, NodeFields
<1> HIDE DEF a
<1>3. Stable(V, a)
  BY <1>1, <1>2, StableAlike, Zenon DEF Stable
<1> QED  BY <1>3, Zenon DEF AcceptLeader, a, d

\* And a commit index that moves.
LEMMA CommitStable ==
  ASSUME NEW V, NEW n, Stable(V, n), NEW k \in Nat
  PROVE  Stable(V, [n EXCEPT !.commit = k])
<1> DEFINE c == [n EXCEPT !.commit = k]
<1>1. /\ IsNode(c) /\ c.log = n.log /\ c.snap = n.snap /\ c.commit = k
      /\ c.configs = n.configs /\ c.lead = n.lead
  BY Zenon DEF Stable, IsNode, NodeFields
<1> HIDE DEF c
<1>2. Stable(V, c)
  BY <1>1, Zenon DEF Stable
<1> QED  BY <1>2, Zenon DEF c

\* An appended entry keeps a log a log (append_log).
LEMMA AppendLogStable ==
  ASSUME Counting,
         NEW V, NEW n, Stable(V, n), NEW kind, NEW data, kind = "Config" => Fixed(V, data)
  PROVE  Stable(V, AppendLog(n, kind, data))
<1> DEFINE e == Entry(n.term, kind, data)
           log == Put(n.log, LastIndex(n) + 1, e)
           a == AppendLog(n, kind, data)
<1>1. e.kind = kind /\ e.data = data
  BY Zenon DEF Entry
<1>2. LastIndex(n) + 1 \in Nat /\ Indices(DOMAIN n.log)
  BY LastIndexIs DEF Stable, LogOk
<1>3. Indices(DOMAIN n.log \cup {LastIndex(n) + 1})
  BY <1>2, IndicesOne, IndicesUnion, Zenon
<1> HIDE DEF e
<1>4. LogOk(V, log)
  BY <1>1, <1>3, Zenon DEF LogOk, Put, Stable
<1>5. /\ IsNode(a) /\ a.log = log /\ a.snap = n.snap /\ a.commit = n.commit
      /\ a.configs = n.configs /\ a.lead = n.lead
  BY Zenon DEF AppendLog, Stable, IsNode, NodeFields, e
<1> HIDE DEF a, log
<1> QED  BY <1>4, <1>5, Zenon DEF Stable, a

(* A configuration entry is appended and taken into force.                 *)
LEMMA NewConfigStable ==
  ASSUME Counting, NEW V, NEW n, Stable(V, n), NEW i, NEW config, Fixed(V, config),
         NEW b, b = LET a == AppendLog(n, "Config", config)
                    IN  [a EXCEPT !.configs = OnAppend(@, EntriesFrom(a, LastIndex(a)))]
  PROVE  Stable(V, b) /\ Stable(V, RefreshLeaderState(i, b))
<1> DEFINE a == AppendLog(n, "Config", config)
           new == EntriesFrom(a, LastIndex(a))
           r == RefreshLeaderState(i, b)
<1>1. Stable(V, a)
  BY AppendLogStable, Zenon
<1>2. b = [a EXCEPT !.configs = OnAppend(@, new)]
  BY Zenon
<1>3. Stable(V, b)
  <2> HIDE DEF a
  <2>1. LogOk(V, new)
    BY <1>1, RestrictLog, Zenon DEF EntriesFrom, Stable
  <2>2. ConfigsOk(V, OnAppend(a.configs, new))
    BY <1>1, <2>1, OnAppendOk, Zenon DEF Stable
  <2> HIDE DEF new
  <2>3. /\ IsNode(b) /\ b.log = a.log /\ b.snap = a.snap /\ b.commit = a.commit
        /\ b.configs = OnAppend(a.configs, new) /\ b.lead = a.lead
    BY <1>1, <1>2, Zenon DEF Stable, IsNode, NodeFields
  <2> QED  BY <1>1, <2>2, <2>3, Zenon DEF Stable
<1>4. Stable(V, r)
  <2>1. LastIndex(b) + 1 \in Nat /\ LastIndex(b) + 1 >= 1
    BY <1>3, LastIndexIs
  <2>2. /\ IsNode(r) /\ r.log = b.log /\ r.snap = b.snap /\ r.commit = b.commit
        /\ r.configs = b.configs
    BY <1>3, Zenon DEF RefreshLeaderState, Stable, IsNode, NodeFields
  <2>3. LeadOk(r.lead)
    BY <1>3, <2>1, Zenon DEF RefreshLeaderState, Stable, IsNode, NodeFields, LeadOk
  <2> HIDE DEF r
  <2> QED  BY <1>3, <2>2, <2>3, StableAlike, Zenon
<1> QED
  BY <1>3, <1>4, Zenon

(* The bookkeeping of a leader, and the tail of both success replies.      *)
LEMMA BookkeepingStable ==
  ASSUME Counting, NEW V, NEW n, Stable(V, n), NEW p, NEW k \in Nat, NEW seq
  PROVE  /\ Stable(V, NoteLeadershipAck(n, p, seq))
         /\ Stable(V, RecordMatch(n, p, k))
         /\ Stable(V, BackOff(n, p, k))
<1> DEFINE a == NoteLeadershipAck(n, p, seq)
           r == RecordMatch(n, p, k)
           b == BackOff(n, p, k)
<1>1. IsNode(n) /\ LeadOk(n.lead)
  BY Zenon DEF Stable
<1>2. Stable(V, a)
  <2>1. /\ IsNode(a) /\ a.log = n.log /\ a.snap = n.snap /\ a.commit = n.commit
        /\ a.configs = n.configs
    BY <1>1, Zenon DEF NoteLeadershipAck, IsNode, NodeFields
  <2>2. LeadOk(a.lead)
    BY <1>1, Zenon DEF NoteLeadershipAck, IsNode, NodeFields, LeadOk
  <2> HIDE DEF a
  <2> QED  BY <2>1, <2>2, StableAlike, Zenon
<1>3. Stable(V, r)
  <2>1. /\ IsNode(r) /\ r.log = n.log /\ r.snap = n.snap /\ r.commit = n.commit
        /\ r.configs = n.configs
    BY <1>1, Zenon DEF RecordMatch, IsNode, NodeFields
  <2>2. DOMAIN r.lead = DOMAIN n.lead /\ r.lead.next = Put(n.lead.next, p, k + 1)
    BY <1>1, Zenon DEF RecordMatch, IsNode, NodeFields, LeadOk
  <2>3. LeadOk(r.lead)
    <3> HIDE DEF r
    <3> QED  BY <1>1, <2>2 DEF LeadOk, Put
  <2> HIDE DEF r
  <2> QED  BY <2>1, <2>3, StableAlike, Zenon
<1>4. Stable(V, b)
  <2>1. /\ IsNode(b) /\ b.log = n.log /\ b.snap = n.snap /\ b.commit = n.commit
        /\ b.configs = n.configs
    BY <1>1, Zenon DEF BackOff, IsNode, NodeFields
  <2>2. Max({k, 1}) \in Nat /\ Max({k, 1}) >= 1
    <3>1. Indices({k, 1})
      BY IndicesOne, IndicesUnion DEF Indices
    <3> QED  BY <3>1, MaxOf
  <2>3. LeadOk(b.lead)
    BY <1>1, <2>2, Zenon DEF BackOff, IsNode, NodeFields, LeadOk, Put
  <2> HIDE DEF b
  <2> QED  BY <2>1, <2>3, StableAlike, Zenon
<1> QED  BY <1>2, <1>3, <1>4, Zenon

-----------------------------------------------------------------------------
(* Votes and leaders.                                                      *)

\* The servers of Q, a majority of V, have voted for i in term t.
Carried(V, i, t) ==
  \E Q \in SUBSET Server : IsMajority(V, Q) /\ \A v \in Q : <<v, t, i>> \in ballots

\* A ballot is the vote of its voter, now or in an earlier term, and a server
\* has one in a term.
BallotsOk ==
  /\ \A b \in ballots :
       /\ b = <<b[1], b[2], b[3]>> /\ b[1] \in Server /\ b[2] \in Nat /\ b[3] # Nil
       /\ b[2] <= node[b[1]].term
       /\ b[2] = node[b[1]].term => node[b[1]].votedFor = b[3]
  /\ \A a, b \in ballots : a[1] = b[1] /\ a[2] = b[2] => a[3] = b[3]

\* What a candidate counts, and what is on its way to one, are ballots.
CountsOk ==
  /\ \A m \in msgs : m.type = "RequestVoteResponse" /\ m.granted /\ m.to # Nil =>
       <<m.from, m.term, m.to>> \in ballots
  /\ \A i \in Server : node[i].role = Candidate =>
       \A v \in node[i].votes : <<v, node[i].term, i>> \in ballots

\* Who leads, or has led, was carried by a majority.
LeadersOk(V) ==
  /\ \A i \in Server : node[i].role = Leader => Carried(V, i, node[i].term)
  /\ \A e \in elected : Carried(V, e[1], e[2])

ElectionInv(V) == BallotsOk /\ CountsOk /\ LeadersOk(V)

-----------------------------------------------------------------------------
(* Two majorities of the voters share one of them (has_quorum).            *)
LEMMA MajoritiesMeet ==
  ASSUME Counting,
         NEW V \in SUBSET Server, NEW P, NEW Q, IsMajority(V, P), IsMajority(V, Q)
  PROVE  P \cap Q # {}
BY Zenon DEF Counting

-----------------------------------------------------------------------------
(* What a step leaves in the histories.                                    *)
LEMMA HistoriesGrow ==
  ASSUME NEW i, NEW out, Moved(i, out)
  PROVE  /\ ballots \subseteq ballots'
         /\ \A b \in ballots' \ ballots :
              b = <<i, node'[i].term, node'[i].votedFor>> /\ node'[i].votedFor # Nil
         /\ node'[i].votedFor # Nil => <<i, node'[i].term, node'[i].votedFor>> \in ballots'
         /\ \A e \in elected' \ elected :
              e = <<i, node'[i].term>> /\ node'[i].role = Leader
<1>1. ballots' = ballots \cup {<<i, node'[i].term, c>> : c \in {node'[i].votedFor} \ {Nil}}
  BY Zenon DEF Moved
<1>2. elected' = IF node'[i].role = Leader THEN elected \cup {<<i, node'[i].term>>} ELSE elected
  BY Zenon DEF Moved
<1>3. \A e \in elected' \ elected : e = <<i, node'[i].term>> /\ node'[i].role = Leader
  BY <1>2, Zenon
<1>4. ballots \subseteq ballots'
  BY <1>1, Zenon
<1>5. \A b \in ballots' \ ballots :
        b = <<i, node'[i].term, node'[i].votedFor>> /\ node'[i].votedFor # Nil
  BY <1>1, Zenon
<1>6. node'[i].votedFor # Nil => <<i, node'[i].term, node'[i].votedFor>> \in ballots'
  BY <1>1, Zenon
<1> QED
  BY <1>3, <1>4, <1>5, <1>6, Zenon

-----------------------------------------------------------------------------
(* Whole logs: functions on 1..n.                                          *)

Agree(L, M, j) == \A k \in 1..j : k \in DOMAIN L /\ k \in DOMAIN M /\ L[k] = M[k]

\* Every entry of L was written by the leader of its term, on top of the same
\* log, and terms do not fall.
Sound(W, L) ==
  /\ \E n \in Nat : DOMAIN L = 1..n
  /\ \A k \in DOMAIN L : /\ L[k].term \in DOMAIN W
                         /\ Agree(L, W[L[k].term], k)
                         /\ \A l \in 1..k : L[l].term <= L[k].term

Written(W) ==
  \A t \in DOMAIN W : /\ t \in Nat
                      /\ Sound(W, W[t])
                      /\ \A k \in DOMAIN W[t] : W[t][k].term <= t

\* W2 has all that W has, and more.
Extends(W, W2) ==
  \A t \in DOMAIN W : /\ t \in DOMAIN W2
                      /\ \A k \in DOMAIN W[t] : k \in DOMAIN W2[t] /\ W2[t][k] = W[t][k]

\* The snapshot and the log of n stand for L.
Stands(n, L) ==
  /\ DOMAIN L = 1..LastIndex(n)
  /\ n.snap.index <= LastIndex(n)
  /\ DOMAIN n.log = (n.snap.index + 1)..LastIndex(n)
  /\ \A k \in DOMAIN n.log : n.log[k] = L[k]
  /\ n.snap.term = IF n.snap.index = 0 THEN 0 ELSE L[n.snap.index].term

Contains(L, t, k) == k \in DOMAIN L /\ L[k].term = t

-----------------------------------------------------------------------------
(* Votes and acknowledgements.                                             *)

Acked(A, p, t, k) == \E a \in A : a[1] = p /\ a[2] = t /\ a[3] >= k

\* The leader of term t wrote the entry at k itself.
Own(W, t, k) == t \in DOMAIN W /\ Contains(W[t], t, k)

\* That entry is on a majority.
Decided(V, W, A, t, k) ==
  /\ Own(W, t, k)
  /\ \E Q \in SUBSET Server : IsMajority(V, Q) /\ \A v \in Q : Acked(A, v, t, k)

\* It will never be: a majority has gone on without it.
Dead(V, A, t, k) ==
  \E Q \in SUBSET Server :
    IsMajority(V, Q) /\ \A v \in Q : node[v].term > t /\ ~Acked(A, v, t, k)

\* A server of term T may take the first c entries of L for committed.
Backed(V, W, A, T, L, c) ==
  c = 0 \/ \E t, k \in Nat : t <= T /\ k >= c /\ Decided(V, W, A, t, k) /\ Agree(W[t], L, c)

-----------------------------------------------------------------------------
(* The invariant.                                                          *)

LeadFits(W, A, i, n) ==
  /\ n.term \in DOMAIN W
  /\ Acked(A, i, n.term, LastIndex(n))
  /\ \A p \in DOMAIN n.lead.match :
       /\ n.lead.match[p] \in Nat
       /\ n.lead.match[p] > n.commit => Acked(A, p, n.term, n.lead.match[p])
  /\ \A p \in DOMAIN n.lead.next : n.lead.next[p] <= LastIndex(n) + 1

NodeFits(V, W, A, L, i, n) ==
  /\ Stands(n, L)
  /\ Sound(W, L)
  /\ \A k \in DOMAIN L : L[k].term <= n.term
  /\ n.snap.index <= n.commit /\ n.commit <= LastIndex(n)
  /\ Backed(V, W, A, n.term, L, n.commit)
  /\ n.role # Follower => i \in V
  /\ n.role = Leader => W[n.term] = L /\ LeadFits(W, A, i, n)

RequestFits(V, W, A, m) ==
  /\ m.term \in DOMAIN W
  /\ m.prevIndex > 0 => m.prevIndex \in DOMAIN W[m.term] /\ m.prevTerm = W[m.term][m.prevIndex].term
  /\ \E e \in Nat : /\ DOMAIN m.entries = (m.prevIndex + 1)..e
                     /\ e >= m.prevIndex /\ e >= m.commit
  /\ \A k \in DOMAIN m.entries : k \in DOMAIN W[m.term] /\ m.entries[k] = W[m.term][k]
  /\ m.commit = 0 \/ \E t, k \in Nat : t <= m.term /\ k >= m.commit /\ Decided(V, W, A, t, k)

ReplyFits(W, A, m) ==
  /\ m.success => Acked(A, m.from, m.term, m.matchIndex)
  /\ m.conflictIndex > 0 => m.term \in DOMAIN W /\ m.conflictIndex \in DOMAIN W[m.term]

SnapshotFits(V, W, A, m) ==
  /\ m.term \in DOMAIN W
  /\ m.snap.index > 0 /\ Contains(W[m.term], m.snap.term, m.snap.index)
  /\ \E t, k \in Nat : t <= m.term /\ k >= m.snap.index /\ Decided(V, W, A, t, k)
  /\ m.snap.index \in DOMAIN chosen

MsgFits(V, W, A, m) ==
  /\ m.type = "AppendEntries" => RequestFits(V, W, A, m)
  /\ m.type = "AppendEntriesResponse" => ReplyFits(W, A, m)
  /\ m.type = "InstallSnapshot" => SnapshotFits(V, W, A, m)

\* What a later leader, an acknowledging server, and a candidate with its vote
\* know of an entry: it is in their log, or it is dead.
LaterLeadersFit(V, W, A) ==
  \A t, u \in DOMAIN W : t < u =>
    \A k \in DOMAIN W[t] : Own(W, t, k) => Contains(W[u], t, k) \/ Dead(V, A, t, k)

AcksFit(V, W, A, F) ==
  \A a \in A :
    /\ a[1] \in Server /\ a[2] \in DOMAIN W /\ a[2] <= node[a[1]].term
    /\ a[3] \in Nat /\ (a[3] > 0 => a[3] \in DOMAIN W[a[2]])
    /\ \A k \in 1..a[3] : Own(W, a[2], k) => Contains(F[a[1]], a[2], k) \/ Dead(V, A, a[2], k)

VotesFit(V, W, A, F) ==
  \A b \in ballots :
    /\ b[3] \in Server /\ b[2] <= node[b[3]].term
    /\ node[b[3]].role = Candidate /\ node[b[3]].term = b[2] =>
         \A a \in A : a[1] = b[1] /\ a[2] < b[2] =>
           \A k \in 1..a[3] :
             Own(W, a[2], k) => Contains(F[b[3]], a[2], k) \/ Dead(V, A, a[2], k)

\* A request for a vote shows the log of its candidate.
CampaignsFit ==
  \A m \in msgs : m.type = "RequestVote" =>
    /\ m.from \in Server /\ m.term <= node[m.from].term
    /\ node[m.from].role = Candidate /\ node[m.from].term = m.term =>
         m.lastTerm = LastTerm(node[m.from]) /\ m.lastIndex = LastIndex(node[m.from])

\* Who wrote for a term was elected in it, and will not be again.
TermsFit(V, W) ==
  \A t \in DOMAIN W : \E c \in Server :
    /\ Carried(V, c, t)
    /\ t <= node[c].term
    /\ node[c].term = t => node[c].role # Candidate

ChosenFits(V, W, A) ==
  /\ \A k \in DOMAIN chosen :
       /\ k \in Nat /\ k > 0 /\ \A j \in 1..k : j \in DOMAIN chosen
       /\ \E t, j \in Nat : j >= k /\ Decided(V, W, A, t, j) /\ chosen[k] = W[t][k]
  /\ \A i \in Server : node[i].commit > 0 => node[i].commit \in DOMAIN chosen

\* A vote is in the history of votes.
BallotsCast ==
  \A i \in Server :
    node[i].votedFor # Nil => <<i, node[i].term, node[i].votedFor>> \in ballots

LogInv(V, W, A, F) ==
  /\ Written(W) /\ BallotsCast
  /\ \A i \in Server : NodeFits(V, W, A, F[i], i, node[i])
  /\ \A m \in msgs : MsgFits(V, W, A, m)
  /\ LaterLeadersFit(V, W, A) /\ AcksFit(V, W, A, F) /\ VotesFit(V, W, A, F)
  /\ CampaignsFit /\ TermsFit(V, W) /\ ChosenFits(V, W, A)

-----------------------------------------------------------------------------
(* Two sound logs that have an entry of the same term at the same index    *)
(* are the same up to it: both have it from the leader of that term.       *)
LEMMA SameTermAgree ==
  ASSUME NEW W, NEW L, NEW M, Sound(W, L), Sound(W, M),
         NEW k \in DOMAIN L, k \in DOMAIN M, L[k].term = M[k].term
  PROVE  Agree(L, M, k)
<1>1. Agree(L, W[L[k].term], k) /\ Agree(M, W[L[k].term], k)
  BY Zenon DEF Sound
<1> QED
  BY <1>1, Zenon DEF Agree

(* An entry that is on a majority is not dead.                             *)
LEMMA DecidedIsAlive ==
  ASSUME Counting, NEW V \in SUBSET Server, NEW W, NEW A, NEW t, NEW k,
         Decided(V, W, A, t, k), Dead(V, A, t, k)
  PROVE  FALSE
<1>1. PICK P \in SUBSET Server : IsMajority(V, P) /\ \A v \in P : Acked(A, v, t, k)
  BY Zenon DEF Decided
<1>2. PICK Q \in SUBSET Server : IsMajority(V, Q) /\ \A v \in Q : ~Acked(A, v, t, k)
  BY Zenon DEF Dead
<1> QED
  BY <1>1, <1>2, MajoritiesMeet, Zenon

(* So the log of every later leader has it, and all that is below it.      *)
LEMMA DecidedIsKept ==
  ASSUME Counting,
         NEW V \in SUBSET Server, NEW W, NEW A, Written(W), LaterLeadersFit(V, W, A),
         NEW t, NEW k, Decided(V, W, A, t, k), NEW u \in DOMAIN W, t <= u
  PROVE  k \in DOMAIN W[u] /\ Agree(W[t], W[u], k)
<1>1. t \in DOMAIN W /\ k \in DOMAIN W[t] /\ W[t][k].term = t /\ Own(W, t, k)
  BY Zenon DEF Decided, Own, Contains
<1>2. Sound(W, W[t]) /\ Sound(W, W[u]) /\ t \in Nat /\ u \in Nat
  BY <1>1, Zenon DEF Written
<1>3. Contains(W[u], t, k)
  <2>1. CASE t = u
    BY <1>1, <2>1, Zenon DEF Contains
  <2>2. CASE t < u
    BY <1>1, <2>2, DecidedIsAlive, Zenon DEF LaterLeadersFit
  <2> QED  BY <1>2, <2>1, <2>2
<1> QED
  BY <1>1, <1>2, <1>3, SameTermAgree, Zenon DEF Contains

(* Two decided entries lie on one log.                                     *)
LEMMA DecidedAgree ==
  ASSUME Counting,
         NEW V \in SUBSET Server, NEW W, NEW A, Written(W), LaterLeadersFit(V, W, A),
         NEW t, NEW k, Decided(V, W, A, t, k), NEW u, NEW l, Decided(V, W, A, u, l),
         NEW j \in Nat, j <= k, j <= l, k \in Nat, l \in Nat
  PROVE  Agree(W[t], W[u], j)
<1>1. t \in DOMAIN W /\ u \in DOMAIN W /\ t \in Nat /\ u \in Nat
  BY Zenon DEF Decided, Own, Written
<1>2. CASE t <= u
  <2>1. Agree(W[t], W[u], k)
    BY <1>1, <1>2, DecidedIsKept, Zenon
  <2> QED  BY <2>1 DEF Agree
<1>3. CASE u <= t
  <2>1. Agree(W[u], W[t], l)
    BY <1>1, <1>3, DecidedIsKept, Zenon
  <2> QED  BY <2>1 DEF Agree
<1> QED
  BY <1>1, <1>2, <1>3

-----------------------------------------------------------------------------
(* More is written and more is acknowledged: what fitted still fits.       *)

\* An acknowledgement is never taken back.
LEMMA AckedGrows ==
  ASSUME NEW A, NEW A2, A \subseteq A2, NEW p, NEW t, NEW k, Acked(A, p, t, k)
  PROVE  Acked(A2, p, t, k)
BY Zenon DEF Acked

\* What is decided stays decided.
LEMMA DecidedGrows ==
  ASSUME NEW V, NEW W, NEW W2, Extends(W, W2), NEW A, NEW A2, A \subseteq A2,
         NEW t, NEW k, Decided(V, W, A, t, k)
  PROVE  Decided(V, W2, A2, t, k)
<1>1. Own(W2, t, k)
  BY Zenon DEF Decided, Own, Contains, Extends
<1>2. PICK Q \in SUBSET Server : IsMajority(V, Q) /\ \A v \in Q : Acked(A, v, t, k)
  BY Zenon DEF Decided
<1> QED
  BY <1>1, <1>2, AckedGrows, Zenon DEF Decided

\* A log that is sound stays so as more is written.
LEMMA SoundGrows ==
  ASSUME NEW W, NEW W2, Extends(W, W2), NEW L, Sound(W, L)
  PROVE  Sound(W2, L)
<1>1. ASSUME NEW k \in DOMAIN L
      PROVE  L[k].term \in DOMAIN W2 /\ Agree(L, W2[L[k].term], k)
  BY DEF Sound, Extends, Agree
<1> QED
  BY <1>1, Zenon DEF Sound

\* What is backed by a decision stays backed.
LEMMA BackedGrows ==
  ASSUME NEW V, NEW W, NEW W2, Extends(W, W2), NEW A, NEW A2, A \subseteq A2,
         NEW T \in Nat, NEW T2 \in Nat, T <= T2, NEW L, NEW c, Backed(V, W, A, T, L, c)
  PROVE  Backed(V, W2, A2, T2, L, c)
<1>1. CASE c = 0
  BY <1>1, Zenon DEF Backed
<1>2. CASE c # 0
  <2>1. PICK t, k \in Nat : /\ t <= T /\ k >= c /\ Decided(V, W, A, t, k) /\ Agree(W[t], L, c)
    BY <1>2, Zenon DEF Backed
  <2>2. Decided(V, W2, A2, t, k) /\ t \in DOMAIN W
    BY <2>1, DecidedGrows, Zenon DEF Decided, Own
  <2>3. Agree(W2[t], L, c)
    BY <2>1, <2>2, Zenon DEF Agree, Extends
  <2> QED  BY <2>1, <2>2, <2>3 DEF Backed
<1> QED  BY <1>1, <1>2, Zenon

(* What is dead stays dead: terms only grow, and a server acknowledges in  *)
(* its present term.                                                       *)
LEMMA DeadLasts ==
  ASSUME NEW V, NEW A, NEW A2, NEW t \in Nat, NEW k,
         \A v \in Server : /\ node[v].term \in Nat /\ node'[v].term \in Nat
                           /\ node'[v].term >= node[v].term,
         \A a \in A2 \ A : a[1] \in Server /\ a[2] >= node[a[1]].term,
         Dead(V, A, t, k)
  PROVE  Dead(V, A2, t, k)'
<1>1. PICK Q \in SUBSET Server :
        IsMajority(V, Q) /\ \A v \in Q : node[v].term > t /\ ~Acked(A, v, t, k)
  BY Zenon DEF Dead
<1>2. ASSUME NEW v \in Q
      PROVE  node'[v].term > t /\ ~Acked(A2, v, t, k)
  <2>1. node[v].term > t /\ ~Acked(A, v, t, k) /\ v \in Server
    BY <1>1, Zenon
  <2>2. ASSUME NEW a \in A2, a[1] = v, a[2] = t, a[3] >= k
        PROVE  FALSE
    BY <2>1, <2>2 DEF Acked
  <2> QED  BY <2>1, <2>2 DEF Acked
<1> QED
  BY <1>1, <1>2, Zenon DEF Dead, Acked

(* The length and the last term of the log that a node stands for are the  *)
(* ones it reports (last_index, last_term).                                *)
LEMMA StandsEnd ==
  ASSUME NEW n, NEW L, Stands(n, L), n.snap.index \in Nat, LastIndex(n) \in Nat
  PROVE  LastTerm(n) = IF LastIndex(n) = 0 THEN 0 ELSE L[LastIndex(n)].term
<1>1. CASE DOMAIN n.log = {}
  <2>1. LastIndex(n) = n.snap.index /\ LastTerm(n) = n.snap.term
    BY <1>1, Zenon DEF LastIndex, LastTerm
  <2> QED  BY <2>1, Zenon DEF Stands
<1>2. CASE DOMAIN n.log # {}
  <2>1. LastIndex(n) = Max(DOMAIN n.log) /\ LastTerm(n) = n.log[Max(DOMAIN n.log)].term
    BY <1>2, Zenon DEF LastIndex, LastTerm
  <2>2. LastIndex(n) > n.snap.index
    BY <1>2 DEF Stands
  <2>3. LastIndex(n) \in DOMAIN n.log
    BY <2>2 DEF Stands
  <2> QED  BY <2>1, <2>2, <2>3 DEF Stands
<1> QED  BY <1>1, <1>2, Zenon

-----------------------------------------------------------------------------
(* One step.  Server i moves; in W2 its leader may have written more, in   *)
(* A2 it has acknowledged more, and L2 is now its log.                     *)

\* A vote that i has just cast for c: c's log has what i has acknowledged.
VoteFits(V, W, A, F, i, t, c) ==
  /\ c \in Server /\ t <= node[c].term
  /\ node[c].role = Candidate /\ node[c].term = t =>
       \A a \in A : a[1] = i /\ a[2] < t =>
         \A k \in 1..a[3] : Own(W, a[2], k) => Contains(F[c], a[2], k) \/ Dead(V, A, a[2], k)

\* Only the leader of a term writes its log.
WritesFit(V, W, W2, A2, L2, n2) ==
  /\ Extends(W, W2) /\ Written(W2)
  /\ \A t \in DOMAIN W2 : (t \in DOMAIN W /\ W2[t] = W[t]) \/ (t = n2.term /\ n2.role = Leader)
  /\ n2.role = Leader /\ n2.term \notin DOMAIN W =>
       \A t \in DOMAIN W : \A k : t < n2.term /\ Own(W, t, k) =>
         Contains(L2, t, k) \/ Dead(V, A2, t, k)'

NewAcksFit(A, W2, A2, L2, i, t) ==
  /\ A \subseteq A2
  /\ \A a \in A2 \ A : /\ a[1] = i /\ a[2] = t /\ t \in DOMAIN W2
                       /\ a[3] \in Nat /\ Agree(L2, W2[t], a[3])

\* Nothing that i acknowledged and that may yet be decided leaves its log.
Keeps(V, W, A, L, L2, i) ==
  \A t, k : Own(W, t, k) /\ Acked(A, i, t, k) /\ Contains(L, t, k) =>
              Contains(L2, t, k) \/ Dead(V, A, t, k)

CampaignFits(n, n2, L, L2) ==
  n2.role = Candidate => /\ L2 = L
                         /\ n2.term > n.term \/ (n2.term = n.term /\ n.role = Candidate)

\* A request for a vote that n2 sends.
Asks(i, n2, m) ==
  m.type = "RequestVote" =>
    m.from = i /\ m.term = n2.term /\ m.lastTerm = LastTerm(n2) /\ m.lastIndex = LastIndex(n2)

\* Snapshot and commit index go forward, or a restart takes the latter back
\* to the former.
Advances(n, n2) ==
  \/ n.snap.index <= n2.snap.index /\ n.commit <= n2.commit
  \/ n2.snap.index = n.snap.index /\ n2.commit = n.snap.index

StepFits(V, W, A, F, W2, A2, L2, i, n2, out) ==
  /\ WritesFit(V, W, W2, A2, L2, n2)
  /\ NewAcksFit(A, W2, A2, L2, i, n2.term)
  /\ NodeFits(V, W2, A2, L2, i, n2)
  /\ Keeps(V, W, A, F[i], L2, i)
  /\ CampaignFits(node[i], n2, F[i], L2)
  /\ Advances(node[i], n2)
  /\ n2.snap.index > 0 => n2.snap.index \in DOMAIN chosen
  /\ \A m \in out : MsgFits(V, W2, A2, m) /\ Asks(i, n2, m)
  /\ n2.votedFor # Nil /\ <<i, n2.term, n2.votedFor>> \notin ballots =>
       n2.votedFor = i \/ VoteFits(V, W, A, F, i, n2.term, n2.votedFor)

\* The whole step: what held before, what is known of the new state already,
\* and what server i did.
Moves(V, W, A, F, W2, A2, L2, i, out) ==
  /\ Wellformed /\ VotersStay(V) /\ ElectionInv(V) /\ LogInv(V, W, A, F)
  /\ Wellformed' /\ VotersStay(V)' /\ ElectionInv(V)'
  /\ Moved(i, out) /\ node'[i].term >= node[i].term /\ chosen' = Learn(node'[i])
  /\ StepFits(V, W, A, F, W2, A2, L2, i, node'[i], out)

-----------------------------------------------------------------------------
(* What a leader does short of writing.                                    *)

\* A snapshot covers only chosen entries.
SnapChosen(n) == n.snap.index > 0 => n.snap.index \in DOMAIN chosen

Leads(V, W, A, L, i, n) ==
  /\ Stable(V, n) /\ NodeFits(V, W, A, L, i, n) /\ n.role = Leader
  /\ SnapChosen(n) /\ \A a \in A : a[3] \in Nat

\* n2 comes after n within a term: it may know of more that is committed.
Follows(n, n2) ==
  /\ n2.term = n.term /\ n2.snap = n.snap
  /\ n.commit \in Nat /\ n2.commit \in Nat /\ n.commit <= n2.commit

\* Step s, taken by leader n, leaves it one and sends what fits.
LeadsOn(V, W, A, L, i, n, s) ==
  /\ Leads(V, W, A, L, i, s.n) /\ Follows(n, s.n)
  /\ \A m \in s.out : MsgFits(V, W, A, m) /\ m.type # "RequestVote"

-----------------------------------------------------------------------------
(* From the pieces of a step to the invariant after it.                    *)

Before(V, W, A, F) ==
  /\ Wellformed /\ VotersStay(V) /\ ElectionInv(V) /\ LogInv(V, W, A, F)

After(V) == Wellformed' /\ VotersStay(V)' /\ ElectionInv(V)'

\* Some server took such a step.
Proceeds(V, W, A, F) ==
  \E i \in Server : \E W2, A2, L2, out : Moves(V, W, A, F, W2, A2, L2, i, out)

\* As far as votes go, i casts no new one for another, or one that fits.
Voted(V, W, A, F, i) ==
  \/ Stays(i) \/ Enters(i) \/ Campaigns(i)
  \/ \E m : Counts(i, m)
  \/ \E c : /\ Votes(i, c)
            /\ \/ c = Nil \/ <<i, node'[i].term, c>> \in ballots
               \/ VoteFits(V, W, A, F, i, node'[i].term, c)

\* Step s takes i from log L to log L2, more being written and acknowledged.
Fits(V, W, A, L, W2, A2, L2, i, s) ==
  /\ WritesFit(V, W, W2, A2, L2, s.n)
  /\ NewAcksFit(A, W2, A2, L2, i, s.n.term)
  /\ NodeFits(V, W2, A2, L2, i, s.n)
  /\ Keeps(V, W, A, L, L2, i)
  /\ s.n.role = Candidate => L2 = L
  /\ SnapChosen(s.n) /\ Advances(node[i], s.n)
  /\ \A m \in s.out : MsgFits(V, W2, A2, m) /\ Asks(i, s.n, m)

\* What the invariant says of one server.
LEMMA BeforeGives ==
  ASSUME NEW V, NEW W, NEW A, NEW F, Before(V, W, A, F), NEW i \in Server
  PROVE  /\ Stable(V, node[i]) /\ NodeFits(V, W, A, F[i], i, node[i]) /\ SnapChosen(node[i])
         /\ Written(W) /\ \A a \in A : a[3] \in Nat
         /\ node[i].role = Leader => Leads(V, W, A, F[i], i, node[i])
<1>1. Stable(V, node[i]) /\ NodeFits(V, W, A, F[i], i, node[i]) /\ Written(W)
  BY Zenon DEF Before, LogInv, VotersStay
<1>2. SnapChosen(node[i])
  <2>1. /\ node[i].snap.index \in Nat /\ node[i].commit \in Nat
        /\ node[i].snap.index <= node[i].commit
    BY <1>1, Zenon DEF Stable, SnapOk, NodeFits
  <2>2. ChosenFits(V, W, A)
    BY Zenon DEF Before, LogInv
  <2> QED  BY <2>1, <2>2 DEF ChosenFits, SnapChosen
<1>3. \A a \in A : a[3] \in Nat
  BY Zenon DEF Before, LogInv, AcksFit
<1> QED
  BY <1>1, <1>2, <1>3, Zenon DEF Leads

\* What the step of an election leaves of term, role and vote.
LEMMA VotedGives ==
  ASSUME NEW V, NEW W, NEW A, NEW F, NEW i \in Server, Wellformed, BallotsCast,
         Voted(V, W, A, F, i)
  PROVE  /\ node'[i].term >= node[i].term
         /\ node'[i].role = Candidate =>
              \/ node'[i].term > node[i].term
              \/ node'[i].term = node[i].term /\ node[i].role = Candidate
         /\ node'[i].votedFor # Nil /\ <<i, node'[i].term, node'[i].votedFor>> \notin ballots =>
              \/ node'[i].votedFor = i
              \/ VoteFits(V, W, A, F, i, node'[i].term, node'[i].votedFor)
<1>1. node[i].term \in Nat /\ IsNode(node[i])
  BY Zenon DEF Wellformed, IsNode
<1>2. node[i].votedFor # Nil => <<i, node[i].term, node[i].votedFor>> \in ballots
  BY Zenon DEF BallotsCast
<1>3. CASE Stays(i)
  BY <1>1, <1>2, <1>3 DEF Stays, SameHardState, Candidate, Follower
<1>4. CASE Enters(i)
  BY <1>1, <1>4 DEF Enters, Candidate, Follower, IsNode
<1>5. CASE Campaigns(i)
  BY <1>1, <1>5 DEF Campaigns, IsNode
<1>6. ASSUME NEW m, Counts(i, m)
      PROVE  /\ node'[i].term = node[i].term /\ node'[i].votedFor = node[i].votedFor
             /\ node[i].role = Candidate
  BY <1>6, Zenon DEF Counts
<1>7. ASSUME NEW c, Votes(i, c)
      PROVE  /\ node'[i].term >= node[i].term /\ node'[i].votedFor = c
             /\ node'[i].role = Candidate =>
                  \/ node'[i].term > node[i].term
                  \/ node'[i].term = node[i].term /\ node[i].role = Candidate
  BY <1>1, <1>7 DEF Votes, IsNode
<1> QED
  <2>1. ASSUME NEW m, Counts(i, m)
        PROVE  /\ node'[i].term >= node[i].term
               /\ node[i].role = Candidate /\ node'[i].term = node[i].term
               /\ node'[i].votedFor # Nil => <<i, node'[i].term, node'[i].votedFor>> \in ballots
    BY <1>1, <1>2, <1>6, <2>1
  <2>2. CASE \E m : Counts(i, m)
    BY <2>1, <2>2, Zenon
  <2>3. CASE \E c : /\ Votes(i, c)
                    /\ \/ c = Nil \/ <<i, node'[i].term, c>> \in ballots
                       \/ VoteFits(V, W, A, F, i, node'[i].term, c)
    BY <1>7, <2>3, Zenon
  <2> QED
    BY <1>3, <1>4, <1>5, <2>2, <2>3, Zenon DEF Voted

\* A step that fits, and is what the election proof allows, is a step of the
\* log proof.
LEMMA FitsProceeds ==
  ASSUME NEW V \in SUBSET Server, NEW W, NEW A, NEW F, Before(V, W, A, F), After(V),
         NEW i \in Server, NEW in, NEW s, Take(i, in, s), Voted(V, W, A, F, i),
         NEW W2, NEW A2, NEW L2, Fits(V, W, A, F[i], W2, A2, L2, i, s)
  PROVE  Proceeds(V, W, A, F)
<1>1. node'[i] = s.n /\ Moved(i, s.out)
  BY TakeMoves, Zenon DEF Before
<1>2. chosen' = Learn(node'[i])
  BY <1>1, Zenon DEF Take
<1>3. Wellformed /\ BallotsCast
  BY Zenon DEF Before, LogInv
<1>4. /\ node'[i].term >= node[i].term
      /\ node'[i].role = Candidate =>
           \/ node'[i].term > node[i].term
           \/ node'[i].term = node[i].term /\ node[i].role = Candidate
      /\ node'[i].votedFor # Nil /\ <<i, node'[i].term, node'[i].votedFor>> \notin ballots =>
           \/ node'[i].votedFor = i
           \/ VoteFits(V, W, A, F, i, node'[i].term, node'[i].votedFor)
  BY <1>3, VotedGives, Zenon
<1>5. CampaignFits(node[i], node'[i], F[i], L2)
  BY <1>1, <1>4, Zenon DEF CampaignFits, Fits
<1>6. StepFits(V, W, A, F, W2, A2, L2, i, node'[i], s.out)
  BY <1>1, <1>4, <1>5, Zenon DEF StepFits, Fits, SnapChosen
<1>7. Moves(V, W, A, F, W2, A2, L2, i, s.out)
  BY <1>1, <1>2, <1>4, <1>6, Zenon DEF Moves, Before, After
<1> QED
  BY <1>7, Zenon DEF Proceeds

\* Nothing is written: the step of a server that is no leader, or stays one.
LEMMA SameWrites ==
  ASSUME NEW V, NEW W, NEW A, NEW A2, NEW L2, NEW i, NEW n2,
         Written(W), NodeFits(V, W, A, L2, i, n2)
  PROVE  WritesFit(V, W, W, A2, L2, n2)
<1>1. n2.role = Leader => n2.term \in DOMAIN W
  BY Zenon DEF NodeFits, LeadFits
<1>2. Extends(W, W)
  BY Zenon DEF Extends
<1> QED  BY <1>1, <1>2, Zenon DEF WritesFit

\* The log stays as well.
LEMMA QuietKeeps ==
  ASSUME NEW V \in SUBSET Server, NEW W, NEW A, NEW F, Before(V, W, A, F), After(V),
         NEW i \in Server, NEW in, NEW s, Take(i, in, s), Voted(V, W, A, F, i),
         NodeFits(V, W, A, F[i], i, s.n), SnapChosen(s.n), Advances(node[i], s.n),
         \A m \in s.out : MsgFits(V, W, A, m) /\ Asks(i, s.n, m)
  PROVE  Proceeds(V, W, A, F)
<1>1. WritesFit(V, W, W, A, F[i], s.n)
  BY BeforeGives, SameWrites, Zenon
<1>2. NewAcksFit(A, W, A, F[i], i, s.n.term) /\ Keeps(V, W, A, F[i], F[i], i)
  BY Zenon DEF NewAcksFit, Keeps
<1>3. Fits(V, W, A, F[i], W, A, F[i], i, s)
  BY <1>1, <1>2, Zenon DEF Fits
<1> QED  BY <1>3, FitsProceeds, Zenon

\* Within a term the commit index only grows.
LEMMA FollowsAdvances ==
  ASSUME NEW V, NEW n, Stable(V, n), NEW n2, Follows(n, n2)
  PROVE  Advances(n, n2)
<1>1. n.snap.index \in Nat
  BY Zenon DEF Stable, SnapOk
<1> QED  BY <1>1 DEF Follows, Advances

\* A leader that stays one and writes nothing.
LEMMA LeaderKeeps ==
  ASSUME NEW V \in SUBSET Server, NEW W, NEW A, NEW F, Before(V, W, A, F), After(V),
         NEW i \in Server, NEW in, NEW s, Take(i, in, s), Voted(V, W, A, F, i),
         LeadsOn(V, W, A, F[i], i, node[i], s)
  PROVE  Proceeds(V, W, A, F)
<1>1. \A m \in s.out : MsgFits(V, W, A, m) /\ Asks(i, s.n, m)
  BY Zenon DEF LeadsOn, Asks
<1>2. NodeFits(V, W, A, F[i], i, s.n) /\ SnapChosen(s.n)
  BY Zenon DEF LeadsOn, Leads
<1>3. Advances(node[i], s.n)
  <2>1. Stable(V, node[i]) /\ Follows(node[i], s.n)
    BY BeforeGives, Zenon DEF LeadsOn
  <2> QED  BY <2>1, FollowsAdvances, Zenon
<1> QED  BY <1>1, <1>2, <1>3, QuietKeeps, Zenon

\* Who does not lead fits with any term it enters and any vote it casts.
LEMMA NodeFitsAlike ==
  ASSUME NEW V, NEW W, NEW A, NEW L, NEW i, NEW n, NodeFits(V, W, A, L, i, n),
         Written(W), NEW n2, n2.log = n.log, n2.snap = n.snap, n2.commit = n.commit,
         n.term \in Nat, n2.term \in Nat, n2.term >= n.term,
         n2.role # Leader, n2.role # Follower => i \in V
  PROVE  NodeFits(V, W, A, L, i, n2)
<1>1. LastIndex(n2) = LastIndex(n)
  BY Zenon DEF LastIndex
<1>2. Stands(n2, L)
  BY <1>1, Zenon DEF NodeFits, Stands
<1>3. Backed(V, W, A, n2.term, L, n2.commit)
  <2>1. Extends(W, W) /\ Backed(V, W, A, n.term, L, n.commit)
    BY Zenon DEF Extends, NodeFits
  <2> QED  BY <2>1, BackedGrows, Zenon
<1>4. \A k \in DOMAIN L : L[k].term \in Nat /\ L[k].term <= n2.term
  BY DEF NodeFits, Sound, Written
<1> QED
  BY <1>1, <1>2, <1>3, <1>4, Zenon DEF NodeFits

\* A server that keeps its log and does not lead.
LEMMA FollowerKeeps ==
  ASSUME NEW V \in SUBSET Server, NEW W, NEW A, NEW F, Before(V, W, A, F), After(V),
         NEW i \in Server, NEW in, NEW n, NEW out, Take(i, in, Step(n, out)),
         Voted(V, W, A, F, i),
         \/ n = node[i]
         \/ /\ n.log = node[i].log /\ n.snap = node[i].snap /\ n.commit = node[i].commit
            /\ n.term \in Nat /\ n.term >= node[i].term
            /\ n.role # Leader /\ (n.role # Follower => i \in V),
         \A m \in out : MsgFits(V, W, A, m) /\ Asks(i, n, m)
  PROVE  Proceeds(V, W, A, F)
<1>1. Step(n, out).n = n /\ Step(n, out).out = out
  BY Zenon DEF Step
<1>2. /\ NodeFits(V, W, A, F[i], i, node[i]) /\ SnapChosen(node[i]) /\ Written(W)
      /\ node[i].term \in Nat
  BY BeforeGives, Zenon DEF Before, Wellformed, IsNode
<1>3. NodeFits(V, W, A, F[i], i, n) /\ SnapChosen(n)
  BY <1>2, NodeFitsAlike, Zenon DEF SnapChosen
<1>4. Advances(node[i], n)
  <2>1. Stable(V, node[i])
    BY BeforeGives, Zenon
  <2>2. node[i].snap.index \in Nat /\ node[i].commit \in Nat
    BY <2>1, Zenon DEF Stable, SnapOk
  <2> QED  BY <2>2 DEF Advances
<1> QED
  BY <1>1, <1>3, <1>4, QuietKeeps, Zenon

\* What step_down leaves of a node.
LEMMA StepDownAlike ==
  ASSUME NEW y, IsNode(y)
  PROVE  /\ StepDown(y).log = y.log /\ StepDown(y).snap = y.snap
         /\ StepDown(y).commit = y.commit /\ StepDown(y).term = y.term
         /\ StepDown(y).role = Follower /\ IsNode(StepDown(y))
BY Zenon DEF StepDown, IsNode, NodeFields

\* What observe_term leaves of it.
LEMMA ObserveAlike ==
  ASSUME NEW n, IsNode(n), NEW t \in Nat
  PROVE  /\ ObserveTerm(n, t).log = n.log /\ ObserveTerm(n, t).snap = n.snap
         /\ ObserveTerm(n, t).commit = n.commit
         /\ IsNode(ObserveTerm(n, t)) /\ ObserveTerm(n, t).term >= n.term
         /\ ObserveTerm(n, t) = n \/ ObserveTerm(n, t).role = Follower
         /\ t >= n.term => ObserveTerm(n, t).term = t
<1>1. CASE t > n.term
  <2> DEFINE z == StepDown(n)
             o == ObserveTerm(n, t)
  <2>1. /\ z.log = n.log /\ z.snap = n.snap /\ z.commit = n.commit /\ z.role = Follower
        /\ IsNode(z)
    BY StepDownAlike, Zenon
  <2>2. o = [z EXCEPT !.term = t, !.votedFor = Nil, !.leaderId = Nil]
    BY <1>1, Zenon DEF ObserveTerm
  <2> HIDE DEF z
  <2>3. /\ o.log = n.log /\ o.snap = n.snap /\ o.commit = n.commit /\ o.role = Follower
        /\ IsNode(o) /\ o.term = t
    BY <2>1, <2>2, Zenon DEF IsNode, NodeFields
  <2> QED  BY <1>1, <2>3 DEF IsNode
<1>2. CASE ~(t > n.term)
  BY <1>2 DEF ObserveTerm, IsNode
<1> QED  BY <1>1, <1>2, Zenon

\* What accept_leader leaves of it.
LEMMA AcceptAlike ==
  ASSUME NEW n, IsNode(n), NEW t \in Nat, NEW x, NEW a, a = AcceptLeader(ObserveTerm(n, t), x)
  PROVE  /\ a.log = n.log /\ a.snap = n.snap /\ a.commit = n.commit
         /\ IsNode(a) /\ a.term >= n.term /\ a.role = Follower
         /\ t >= n.term => a.term = t
<1> DEFINE o == ObserveTerm(n, t)
           d == StepDown(o)
<1>1. /\ o.log = n.log /\ o.snap = n.snap /\ o.commit = n.commit
      /\ IsNode(o) /\ o.term >= n.term
      /\ t >= n.term => o.term = t
  BY ObserveAlike, Zenon
<1>2. /\ d.log = o.log /\ d.snap = o.snap /\ d.commit = o.commit /\ d.term = o.term
      /\ d.role = Follower /\ IsNode(d)
  BY <1>1, StepDownAlike, Zenon
<1>3. a = [d EXCEPT !.leaderId = x, !.contact = TRUE]
  BY Zenon DEF AcceptLeader
<1> HIDE DEF o, d
<1>4. /\ a.log = d.log /\ a.snap = d.snap /\ a.commit = d.commit /\ a.term = d.term
      /\ a.role = d.role /\ IsNode(a)
  BY <1>2, <1>3, Zenon DEF IsNode, NodeFields
<1> QED  BY <1>1, <1>2, <1>4, Zenon
=============================================================================
