---------------------------- MODULE RaftElections ---------------------------
(***************************************************************************)
(* Proofs about terms, votes and leaders.  HardStateMonotone holds for     *)
(* every set of servers and every value of the bounds.  ElectionSafety     *)
(* holds for every number of servers that share a fixed set of voters V:   *)
(* nobody asks for other voters, so every configuration a server appends,  *)
(* truncates, compacts, installs or recovers has the voters V, while       *)
(* learners may come and go.                                               *)
(***************************************************************************)
EXTENDS RaftInvariants

(* What a leader does with an answer keeps the hard state.                 *)
LEMMA LeaderBookkeepingSame ==
  ASSUME NEW n, IsNode(n), NEW p, NEW k
  PROVE  /\ SameHardState(n, NoteLeadershipAck(n, p, k))
         /\ SameHardState(n, RecordMatch(n, p, k))
         /\ SameHardState(n, BackOff(n, p, k))
<1>1. SameHardState(n, NoteLeadershipAck(n, p, k))
  BY Zenon DEF IsNode, SameHardState, NodeFields, NoteLeadershipAck
<1>2. SameHardState(n, RecordMatch(n, p, k))
  BY Zenon DEF IsNode, SameHardState, NodeFields, RecordMatch
<1>3. SameHardState(n, BackOff(n, p, k))
  BY Zenon DEF IsNode, SameHardState, NodeFields, BackOff
<1> QED  BY <1>1, <1>2, <1>3, Zenon

\* Replicating on after a reply keeps the hard state.
LEMMA KeepReplicatingSame ==
  ASSUME NEW n, NEW adv, NEW i, NEW p, adv = [n |-> adv.n, out |-> adv.out],
         SameHardState(n, adv.n), NoGrants(adv.out)
  PROVE  /\ SameHardState(n, KeepReplicating(i, adv, p).n)
         /\ NoGrants(KeepReplicating(i, adv, p).out)
<1> DEFINE rep == ReplicateTo(i, adv.n, p)
<1>1. SameHardState(adv.n, rep.n) /\ NoGrants(rep.out)
  BY ReplicateSame DEF SameHardState
<1>2. SameHardState(n, rep.n) /\ NoGrants(adv.out \cup rep.out)
  BY <1>1, SameTransitive, Zenon DEF NoGrants
<1> HIDE DEF rep
<1> QED
  BY <1>2, Zenon DEF KeepReplicating, AndThen, Step, rep

\* Following a leader, taking its entries or its snapshot, and committing
\* keep the hard state.
LEMMA ReceiverSame ==
  ASSUME NEW n, IsNode(n), NEW x
  PROVE  /\ SameHardState(n, AcceptLeader(n, x))
         /\ SameHardState(n, AppendNewEntries(n, x))
         /\ SameHardState(n, InstallOver(n, x))
         /\ \A c : SameHardState(n, [n EXCEPT !.commit = c])
<1>1. SameHardState(n, AcceptLeader(n, x))
  BY StepDownSame, Zenon DEF AcceptLeader, SameHardState, IsNode, NodeFields
<1>2. SameHardState(n, InstallOver(n, x))
  BY Zenon DEF InstallOver, SameHardState, IsNode, NodeFields
<1>3. ASSUME NEW new
      PROVE  SameHardState(n, TruncateConflict(n, new))
  BY Zenon DEF TruncateConflict, SameHardState, IsNode, NodeFields
<1>4. SameHardState(n, AppendNewEntries(n, x))
  <2> DEFINE t == TruncateConflict(n, NewEntries(n, x))
  <2>1. SameHardState(n, t)  BY <1>3, Zenon
  <2> HIDE DEF t
  <2> QED  BY <2>1, Zenon DEF AppendNewEntries, SameHardState, IsNode, NodeFields, t
<1>5. ASSUME NEW c
      PROVE  SameHardState(n, [n EXCEPT !.commit = c])
  BY Zenon DEF SameHardState, IsNode, NodeFields
<1> QED  BY <1>1, <1>2, <1>4, <1>5, Zenon

-----------------------------------------------------------------------------
(* What the steps of a server come to, as far as elections are concerned.  *)

\* A step that keeps term and vote and grants none is a staying one.
LEMMA TakeStays ==
  ASSUME Wellformed, NEW i \in Server, NEW in, NEW n, NEW out,
         Take(i, in, Step(n, out)), SameHardState(node[i], n), NoGrants(out)
  PROVE  Stays(i)
<1>1. Step(n, out).n = n /\ Step(n, out).out = out
  BY Zenon DEF Step
<1>2. node'[i] = n /\ Moved(i, out)
  BY <1>1, TakeMoves, Zenon
<1> QED  BY <1>2, Zenon DEF Stays

(* Replies name their sender, their addressee and the term they are given. *)
LEMMA VoteReplyIs ==
  ASSUME NEW i, NEW m, NEW term, NEW granted, NEW r \in VoteReply(i, m, term, granted)
  PROVE  /\ r.type = "RequestVoteResponse"
         /\ r.term = term /\ r.granted = granted /\ r.from = i /\ r.to = m.from
BY DEF VoteReply

\* Replies to rounds and snapshots are no votes.
LEMMA OtherReplies ==
  ASSUME NEW i, NEW m, NEW term \in Nat, NEW success, NEW hint, NEW match
  PROVE  /\ NoGrants(AppendReply(i, m, term, success, hint, match))
         /\ NoGrants(SnapshotReply(i, m, term))
BY DEF AppendReply, SnapshotReply, NoGrants

-----------------------------------------------------------------------------
(* One lemma per action: which of the steps above it is.                   *)

(* start_election either asks for votes or, with a quorum of one, leads.   *)
LEMMA StartElectionStep ==
  ASSUME Wellformed, NEW i \in Server, StartElection(i)
  PROVE  Campaigns(i)
<1> DEFINE n == [node[i] EXCEPT !.term = @ + 1, !.votedFor = i, !.role = Candidate,
                                !.votes = {i}, !.leaderId = Nil, !.contact = FALSE]
           req(p) == [type |-> "RequestVote", from |-> i, to |-> p, term |-> n.term,
                      lastIndex |-> LastIndex(n), lastTerm |-> LastTerm(n)]
           out == {req(p) : p \in VoteTargets(i, n)}
<1>1. IsNode(node[i])
  BY Zenon DEF Wellformed
<1>2. /\ IsNode(n) /\ n.term = node[i].term + 1 /\ n.votedFor = i
      /\ n.role = Candidate /\ n.votes = {i} /\ n.configs = node[i].configs
  BY <1>1 DEF IsNode, NodeFields
<1>3. Active(n) = Active(node[i])
  BY <1>2 DEF Active
<1>4. NoGrants(out)
  <2> SUFFICES ASSUME NEW p \in VoteTargets(i, n)
               PROVE  req(p).term \in Nat /\ req(p).type = "RequestVote"
    BY Zenon DEF NoGrants
  <2> HIDE DEF n
  <2> QED  BY <1>2, Zenon DEF IsNode
<1>5. \/ HasQuorum(Active(n), n.votes) /\ Take(i, {}, BecomeLeader(i, n))
      \/ Take(i, {}, Step(n, out))
  BY Zenon DEF StartElection
<1> HIDE DEF n
<1>6. CASE HasQuorum(Active(n), n.votes) /\ Take(i, {}, BecomeLeader(i, n))
  <2> DEFINE s == BecomeLeader(i, n)
  <2>1. node'[i] = s.n /\ Moved(i, s.out)
    BY <1>6, TakeMoves, Zenon
  <2>2. /\ IsNode(s.n) /\ s.n.term = n.term /\ s.n.votedFor = n.votedFor
        /\ s.n.role \in {Leader, Follower} /\ s.n.votes = {} /\ NoGrants(s.out)
    BY <1>2, BecomeLeaderHardState
  <2> HIDE DEF s
  <2> QED  BY <1>2, <1>3, <1>6, <2>1, <2>2, Zenon DEF Campaigns
<1>7. CASE Take(i, {}, Step(n, out))
  <2> HIDE DEF out
  <2>1. Step(n, out).n = n /\ Step(n, out).out = out
    BY Zenon DEF Step
  <2>2. node'[i] = n /\ Moved(i, out)
    BY <1>7, <2>1, TakeMoves, Zenon
  <2> QED  BY <1>2, <1>4, <2>2, Zenon DEF Campaigns
<1> QED  BY <1>5, <1>6, <1>7, Zenon

(* tick of a leader sends a round and changes nothing else.                *)
LEMMA HeartbeatStep ==
  ASSUME Wellformed, NEW i \in Server, Heartbeat(i)
  PROVE  Stays(i)
<1> DEFINE s == ReplicateAll(i, node[i])
<1>1. SameHardState(node[i], s.n) /\ NoGrants(s.out)
  BY ReplicateSame, Zenon DEF Wellformed
<1>2. Take(i, {}, s)
  BY Zenon DEF Heartbeat
<1>3. node'[i] = s.n /\ Moved(i, s.out)
  BY <1>2, TakeMoves, Zenon
<1> HIDE DEF s
<1> QED  BY <1>1, <1>3, Zenon DEF Stays

(* handle_request_vote refuses, or votes for the candidate that asks.      *)
LEMMA HandleRequestVoteStep ==
  ASSUME Wellformed, NEW i \in Server, NEW m \in Received(i, "RequestVote"),
         HandleRequestVote(i, m)
  PROVE  Stays(i) \/ Enters(i) \/ Votes(i, m.from)
<1> DEFINE f == [node[i] EXCEPT !.contact = FALSE]
           n == ObserveTerm(f, m.term)
           v == [n EXCEPT !.votedFor = m.from]
           deny(t)  == VoteReply(i, m, t, FALSE)
           grant == VoteReply(i, m, n.term, TRUE)
<1>1. IsNode(node[i]) /\ m.term \in Nat
  BY Zenon DEF Wellformed, Received
<1>2. IsNode(f) /\ SameHardState(node[i], f) /\ f.role = node[i].role /\ f.votes = node[i].votes
  BY <1>1, Zenon DEF SameHardState, IsNode, NodeFields
<1>3. \/ m.term <= f.term /\ n = f
      \/ /\ m.term > f.term /\ IsNode(n)
         /\ n.term = m.term /\ n.votedFor = Nil /\ n.role = Follower /\ n.votes = {}
  <2> HIDE DEF f
  <2> QED  BY <1>1, <1>2, ObserveTermGives, Zenon
<1>4. IsNode(n) /\ IsNode(v) /\ v.term = n.term /\ v.votedFor = m.from
      /\ v.role = n.role /\ v.votes = n.votes
  <2>1. IsNode(n)
    BY <1>2, <1>3, Zenon
  <2> HIDE DEF n
  <2> QED  BY <2>1, Zenon DEF IsNode, NodeFields
<1>5. \A t \in Nat : NoGrants(deny(t))
  BY DEF VoteReply, NoGrants
<1>6. \/ Take(i, {m}, Step(node[i], deny(node[i].term)))
      \/ Take(i, {m}, Step(n, deny(n.term)))
      \/ MayVoteFor(n, m.from) /\ Take(i, {m}, Step(v, grant))
  BY Zenon DEF HandleRequestVote
<1> HIDE DEF f, n, v, deny, grant
<1>7. CASE Take(i, {m}, Step(node[i], deny(node[i].term)))
  <2>1. SameHardState(node[i], node[i]) /\ NoGrants(deny(node[i].term))
    BY <1>1, <1>5, Zenon DEF SameHardState, IsNode
  <2> QED  BY <1>7, <2>1, TakeStays, Zenon
<1>8. CASE Take(i, {m}, Step(n, deny(n.term)))
  <2>1. NoGrants(deny(n.term))
    BY <1>4, <1>5, Zenon DEF IsNode
  <2>2. Step(n, deny(n.term)).n = n /\ Step(n, deny(n.term)).out = deny(n.term)
    BY Zenon DEF Step
  <2>3. node'[i] = n /\ Moved(i, deny(n.term))
    BY <1>8, <2>2, TakeMoves, Zenon
  <2>4. CASE n = f
    BY <1>2, <2>1, <2>3, <2>4, Zenon DEF Stays
  <2>5. CASE m.term > f.term /\ n.term = m.term /\ n.votedFor = Nil /\ n.role = Follower
             /\ n.votes = {}
    BY <1>2, <1>4, <2>1, <2>3, <2>5, Zenon DEF Enters, SameHardState
  <2> QED  BY <1>3, <2>4, <2>5, Zenon
<1>9. CASE MayVoteFor(n, m.from) /\ Take(i, {m}, Step(v, grant))
  <2>1. Step(v, grant).n = v /\ Step(v, grant).out = grant
    BY Zenon DEF Step
  <2>2. node'[i] = v /\ Moved(i, grant)
    BY <1>9, <2>1, TakeMoves, Zenon
  <2>3. \A r \in grant : /\ r.term = node'[i].term /\ r.from = i /\ r.to = m.from
                        /\ r.type = "RequestVoteResponse"
    BY <1>4, <2>2 DEF grant, VoteReply
  <2>4. CASE n = f
    BY <1>2, <1>4, <1>9, <2>2, <2>3, <2>4, Zenon DEF Votes, MayVoteFor, SameHardState
  <2>5. CASE m.term > f.term /\ n.term = m.term /\ n.role = Follower /\ n.votes = {}
    BY <1>2, <1>4, <2>2, <2>3, <2>5, Zenon DEF Votes, SameHardState
  <2> QED  BY <1>3, <2>4, <2>5, Zenon
<1> QED  BY <1>6, <1>7, <1>8, <1>9, Zenon

(* A handler that follows a term of at least its own, and then changes     *)
(* nothing of the hard state, stays in its term or enters the later one.   *)
LEMMA FollowsTerm ==
  ASSUME Wellformed, NEW i \in Server, NEW t \in Nat, NEW in, NEW n, NEW out,
         SameHardState(ObserveTerm(node[i], t), n), NoGrants(out),
         Take(i, in, Step(n, out))
  PROVE  Stays(i) \/ Enters(i)
<1> DEFINE o == ObserveTerm(node[i], t)
<1>1. \/ t <= node[i].term /\ o = node[i]
      \/ /\ t > node[i].term
         /\ o.term = t /\ o.votedFor = Nil /\ o.role = Follower /\ o.votes = {}
  BY ObserveTermGives, Zenon DEF Wellformed
<1>2. Step(n, out).n = n /\ Step(n, out).out = out
  BY Zenon DEF Step
<1>3. node'[i] = n /\ Moved(i, out)
  BY <1>2, TakeMoves, Zenon
<1> HIDE DEF o
<1>4. SameHardState(o, n)
  BY Zenon DEF o
<1>5. CASE o = node[i]
  BY <1>3, <1>4, <1>5, Zenon DEF Stays
<1>6. CASE t > node[i].term /\ o.term = t /\ o.votedFor = Nil /\ o.role = Follower /\ o.votes = {}
  BY <1>3, <1>4, <1>6, Zenon DEF Enters, SameHardState
<1> QED  BY <1>1, <1>5, <1>6, Zenon

(* handle_request_vote_response follows a later term, or counts a vote.    *)
LEMMA HandleRequestVoteResponseStep ==
  ASSUME Wellformed, NEW i \in Server, NEW m \in Received(i, "RequestVoteResponse"),
         HandleRequestVoteResponse(i, m)
  PROVE  Stays(i) \/ Enters(i) \/ Counts(i, m)
<1> DEFINE votes == IF m.granted THEN node[i].votes \cup {m.from} ELSE node[i].votes
           n == [node[i] EXCEPT !.votes = IF m.granted THEN @ \cup {m.from} ELSE @]
<1>1. IsNode(node[i]) /\ m.term \in Nat
  BY Zenon DEF Wellformed, Received
<1>2. /\ IsNode(n) /\ n.term = node[i].term /\ n.votedFor = node[i].votedFor
      /\ n.role = node[i].role /\ n.votes = votes /\ n.configs = node[i].configs
  BY <1>1, Zenon DEF IsNode, NodeFields
<1>3. Active(n) = Active(node[i])
  BY <1>2 DEF Active
<1>4. NoGrants({})
  BY Zenon DEF NoGrants
<1>5. \/ Take(i, {m}, Step(ObserveTerm(node[i], m.term), {}))
      \/ VoteCounts(n, m) /\ Take(i, {m}, Step(n, {}))
      \/ VoteCounts(n, m) /\ HasQuorum(Active(n), n.votes) /\ Take(i, {m}, BecomeLeader(i, n))
  BY Zenon DEF HandleRequestVoteResponse
<1> HIDE DEF n, votes
<1>6. CASE Take(i, {m}, Step(ObserveTerm(node[i], m.term), {}))
  <2>1. SameHardState(ObserveTerm(node[i], m.term), ObserveTerm(node[i], m.term))
    BY <1>1, ObserveTermGives, Zenon DEF SameHardState
  <2> QED  BY <1>1, <1>4, <1>6, <2>1, FollowsTerm, Zenon
<1>7. CASE VoteCounts(n, m) /\ Take(i, {m}, Step(n, {}))
  <2>1. Step(n, {}).n = n /\ Step(n, {}).out = {}
    BY Zenon DEF Step
  <2>2. node'[i] = n /\ Moved(i, {})
    BY <1>7, <2>1, TakeMoves, Zenon
  <2> QED  BY <1>2, <1>4, <1>7, <2>2, Zenon DEF Counts, VoteCounts, votes
<1>8. CASE VoteCounts(n, m) /\ HasQuorum(Active(n), n.votes) /\ Take(i, {m}, BecomeLeader(i, n))
  <2> DEFINE s == BecomeLeader(i, n)
  <2>1. node'[i] = s.n /\ Moved(i, s.out)
    BY <1>8, TakeMoves, Zenon
  <2>2. /\ IsNode(s.n) /\ s.n.term = n.term /\ s.n.votedFor = n.votedFor
        /\ s.n.role \in {Leader, Follower} /\ s.n.votes = {} /\ NoGrants(s.out)
    BY <1>2, BecomeLeaderHardState, Zenon
  <2> HIDE DEF s
  <2> QED  BY <1>2, <1>3, <1>8, <2>1, <2>2, Zenon DEF Counts, VoteCounts, votes
<1> QED  BY <1>5, <1>6, <1>7, <1>8, Zenon

(* handle_append_entries and handle_install_snapshot follow the sender's   *)
(* term, unless it is stale.                                               *)
LEMMA HandleAppendEntriesStep ==
  ASSUME Wellformed, NEW i \in Server, NEW m \in Received(i, "AppendEntries"),
         HandleAppendEntries(i, m)
  PROVE  Stays(i) \/ Enters(i)
<1> DEFINE o == ObserveTerm(node[i], m.term)
           n == AcceptLeader(o, m.from)
           a == AppendNewEntries(n, m.entries)
           c == [a EXCEPT !.commit = CommitAfter(a, m)]
           stale == AppendReply(i, m, node[i].term, FALSE, 0, 0)
           no  == AppendReply(i, m, n.term, FALSE, ConflictHint(n, m.prevIndex), 0)
           yes == AppendReply(i, m, a.term, TRUE, 0, MatchIndex(m))
<1>1. IsNode(node[i]) /\ m.term \in Nat
  BY Zenon DEF Wellformed, Received
<1>2. IsNode(o)
  BY <1>1, ObserveTermGives, Zenon
<1>3. SameHardState(o, n)
  <2> HIDE DEF o
  <2> QED  BY <1>2, ReceiverSame, Zenon
<1>4. SameHardState(n, a)
  <2> HIDE DEF n
  <2> QED  BY <1>3, ReceiverSame, Zenon DEF SameHardState
<1>5. SameHardState(a, c)
  <2> HIDE DEF a
  <2> QED  BY <1>4, ReceiverSame, Zenon DEF SameHardState
<1>6. \/ Take(i, {m}, Step(node[i], stale))
      \/ Take(i, {m}, Step(n, no))
      \/ Take(i, {m}, Step(c, yes))
  BY Zenon DEF HandleAppendEntries
<1> HIDE DEF o, n, a, c
<1>7. NoGrants(stale) /\ NoGrants(no) /\ NoGrants(yes)
  BY <1>1, <1>3, <1>4, OtherReplies, Zenon DEF SameHardState, IsNode
<1> HIDE DEF stale, no, yes
<1>8. SameHardState(node[i], node[i]) /\ SameHardState(o, c)
  BY <1>1, <1>3, <1>4, <1>5, Zenon DEF SameHardState
<1>9. CASE Take(i, {m}, Step(node[i], stale))
  BY <1>7, <1>8, <1>9, TakeStays, Zenon
<1>10. CASE Take(i, {m}, Step(n, no))
  BY <1>1, <1>3, <1>7, <1>10, FollowsTerm, Zenon DEF o
<1>11. CASE Take(i, {m}, Step(c, yes))
  BY <1>1, <1>7, <1>8, <1>11, FollowsTerm, Zenon DEF o
<1> QED  BY <1>6, <1>9, <1>10, <1>11, Zenon

\* handle_install_snapshot: term and vote change only with the term.
LEMMA HandleInstallSnapshotStep ==
  ASSUME Wellformed, NEW i \in Server, NEW m \in Received(i, "InstallSnapshot"),
         HandleInstallSnapshot(i, m)
  PROVE  Stays(i) \/ Enters(i)
<1> DEFINE o == ObserveTerm(node[i], m.term)
           n == AcceptLeader(o, m.from)
           a == InstallOver(n, m.snap)
           stale == SnapshotReply(i, m, node[i].term)
           ack == SnapshotReply(i, m, n.term)
<1>1. IsNode(node[i]) /\ m.term \in Nat
  BY Zenon DEF Wellformed, Received
<1>2. IsNode(o)
  BY <1>1, ObserveTermGives, Zenon
<1>3. SameHardState(o, n)
  <2> HIDE DEF o
  <2> QED  BY <1>2, ReceiverSame, Zenon
<1>4. SameHardState(n, a)
  <2> HIDE DEF n
  <2> QED  BY <1>3, ReceiverSame, Zenon DEF SameHardState
<1>5. \/ Take(i, {m}, Step(node[i], stale))
      \/ Take(i, {m}, Step(n, ack))
      \/ Take(i, {m}, Step(a, ack))
  BY Zenon DEF HandleInstallSnapshot
<1> HIDE DEF o, n, a
<1>6. NoGrants(stale) /\ NoGrants(ack)
  BY <1>1, <1>3, OtherReplies, Zenon DEF SameHardState, IsNode
<1> HIDE DEF stale, ack
<1>7. SameHardState(node[i], node[i]) /\ SameHardState(o, a)
  BY <1>1, <1>3, <1>4, Zenon DEF SameHardState
<1>8. CASE Take(i, {m}, Step(node[i], stale))
  BY <1>6, <1>7, <1>8, TakeStays, Zenon
<1>9. CASE Take(i, {m}, Step(n, ack))
  BY <1>1, <1>3, <1>6, <1>9, FollowsTerm, Zenon DEF o
<1>10. CASE Take(i, {m}, Step(a, ack))
  BY <1>1, <1>6, <1>7, <1>10, FollowsTerm, Zenon DEF o
<1> QED  BY <1>5, <1>8, <1>9, <1>10, Zenon

(* Restarting recovers the hard state (with_bootstrap).                    *)
LEMMA RestartStep ==
  ASSUME Wellformed, NEW i \in Server, Restart(i)
  PROVE  Stays(i)
<1> DEFINE n == node[i]
           r == Recovered(i, n.term, n.votedFor, n.log, n.snap)
<1>1. IsNode(n)
  BY Zenon DEF Wellformed
<1>2. SameHardState(n, r) /\ NoGrants({})
  <2> HIDE DEF n
  <2> QED  BY <1>1, Zenon DEF Recovered, SameHardState, IsNode, NodeFields, NoGrants
<1>3. Take(i, {}, Step(r, {}))
  BY Zenon DEF Restart
<1> HIDE DEF r
<1> QED  BY <1>2, <1>3, TakeStays, Zenon

\* A crash between two writes loses neither term nor vote.
LEMMA CrashWhileAppendingStep ==
  ASSUME Wellformed, NEW i \in Server, NEW m \in Received(i, "AppendEntries"),
         CrashWhileAppending(i, m)
  PROVE  Stays(i) \/ Enters(i)
<1> DEFINE o == ObserveTerm(node[i], m.term)
           n == AcceptLeader(o, m.from)
           t == TruncateConflict(n, NewEntries(n, m.entries))
           r == Recovered(i, t.term, t.votedFor, t.log, t.snap)
<1>1. IsNode(node[i]) /\ m.term \in Nat
  BY Zenon DEF Wellformed, Received
<1>2. IsNode(o)
  BY <1>1, ObserveTermGives, Zenon
<1>3. SameHardState(o, n)
  <2> HIDE DEF o
  <2> QED  BY <1>2, ReceiverSame, Zenon
<1>4. SameHardState(n, t)
  <2>1. IsNode(n)
    BY <1>3, Zenon DEF SameHardState
  <2> HIDE DEF n
  <2> QED  BY <2>1, Zenon DEF TruncateConflict, SameHardState, IsNode, NodeFields
<1>5. SameHardState(t, r) /\ NoGrants({})
  <2>1. IsNode(t)
    BY <1>4, Zenon DEF SameHardState
  <2> HIDE DEF t
  <2>2. SameHardState(t, r)
    BY <2>1, Zenon DEF Recovered, SameHardState, IsNode, NodeFields
  <2> QED  BY <2>2, Zenon DEF NoGrants
<1>6. Take(i, {m}, Step(r, {}))
  BY Zenon DEF CrashWhileAppending
<1> HIDE DEF o, n, t, r
<1>7. SameHardState(o, r)
  BY <1>3, <1>4, <1>5, Zenon DEF SameHardState
<1> QED  BY <1>1, <1>5, <1>6, <1>7, FollowsTerm, Zenon DEF o

(* What a leader does, on a reply or for a client, keeps the hard state.   *)
LEMMA TakenStepStays ==
  ASSUME Wellformed, NEW i \in Server, NEW in, NEW s,
         Take(i, in, s), SameHardState(node[i], s.n), NoGrants(s.out)
  PROVE  Stays(i)
BY TakeMoves, Zenon DEF Stays

\* What advance_commit_index returns is a node and its messages.
LEMMA AdvanceIsStep ==
  ASSUME NEW i, NEW n
  PROVE  AdvanceCommitIndex(i, n) =
           [n |-> AdvanceCommitIndex(i, n).n, out |-> AdvanceCommitIndex(i, n).out]
<1>1. \A x : ReplicateAll(i, x) = [n |-> ReplicateAll(i, x).n, out |-> ReplicateAll(i, x).out]
  BY Zenon DEF ReplicateAll, Step
<1>2. \A x : Step(x, {}) = [n |-> Step(x, {}).n, out |-> Step(x, {}).out]
  BY Zenon DEF Step
<1> QED
  BY <1>1, <1>2, Zenon DEF AdvanceCommitIndex, AppendConfigEntry

\* The tail of both success replies keeps it.
LEMMA AfterMatchStep ==
  ASSUME Wellformed, NEW i \in Server, NEW m, NEW n, NEW p,
         SameHardState(node[i], n), AfterMatch(i, m, n, p)
  PROVE  Stays(i)
<1> DEFINE adv == AdvanceCommitIndex(i, n)
           s == KeepReplicating(i, adv, p)
<1>1. SameHardState(n, adv.n) /\ NoGrants(adv.out)
  BY AdvanceCommitIndexSame, Zenon DEF SameHardState
<1>2. adv = [n |-> adv.n, out |-> adv.out]
  BY AdvanceIsStep, Zenon
<1>3. Take(i, {m}, s)
  BY Zenon DEF AfterMatch
<1>4. SameHardState(node[i], adv.n)
  BY <1>1, SameTransitive, Zenon
<1> HIDE DEF adv
<1>5. SameHardState(node[i], s.n) /\ NoGrants(s.out)
  BY <1>1, <1>2, <1>4, KeepReplicatingSame, Zenon
<1> HIDE DEF s
<1> QED  BY <1>3, <1>5, TakenStepStays, Zenon

\* handle_append_entries_response: kept, or a later term entered.
LEMMA HandleAppendEntriesResponseStep ==
  ASSUME Wellformed, NEW i \in Server, NEW m \in Received(i, "AppendEntriesResponse"),
         HandleAppendEntriesResponse(i, m)
  PROVE  Stays(i) \/ Enters(i)
<1> DEFINE o == ObserveTerm(node[i], m.term)
           n == NoteLeadershipAck(node[i], m.from, m.seq)
           r == RecordMatch(n, m.from, m.matchIndex)
           b == BackOff(n, m.from, m.conflictIndex)
           s == ReplicateTo(i, b, m.from)
<1>1. IsNode(node[i]) /\ m.term \in Nat
  BY Zenon DEF Wellformed, Received
<1>2. SameHardState(node[i], n)
  BY <1>1, LeaderBookkeepingSame, Zenon
<1>3. SameHardState(n, r) /\ SameHardState(n, b)
  <2> HIDE DEF n
  <2> QED  BY <1>2, LeaderBookkeepingSame DEF SameHardState
<1>4. SameHardState(b, s.n) /\ NoGrants(s.out)
  <2> HIDE DEF b
  <2>1. IsNode(b)
    BY <1>3, Zenon DEF SameHardState
  <2> QED  BY <2>1, ReplicateSame, Zenon
<1>5. \/ Take(i, {m}, Step(o, {}))
      \/ AfterMatch(i, m, r, m.from)
      \/ Take(i, {m}, s)
  BY Zenon DEF HandleAppendEntriesResponse
<1>6. SameHardState(o, o) /\ NoGrants({})
  BY <1>1, ObserveTermGives, Zenon DEF SameHardState, NoGrants
<1> HIDE DEF n, r, b, s, o
<1>7. SameHardState(node[i], r) /\ SameHardState(node[i], s.n)
  BY <1>2, <1>3, <1>4, Zenon DEF SameHardState
<1>8. CASE Take(i, {m}, Step(o, {}))
  BY <1>1, <1>6, <1>8, FollowsTerm, Zenon DEF o
<1>9. CASE AfterMatch(i, m, r, m.from)
  BY <1>7, <1>9, AfterMatchStep, Zenon
<1>10. CASE Take(i, {m}, s)
  BY <1>4, <1>7, <1>10, TakenStepStays, Zenon
<1> QED  BY <1>5, <1>8, <1>9, <1>10, Zenon

\* handle_install_snapshot_response: the same.
LEMMA HandleInstallSnapshotResponseStep ==
  ASSUME Wellformed, NEW i \in Server, NEW m \in Received(i, "InstallSnapshotResponse"),
         HandleInstallSnapshotResponse(i, m)
  PROVE  Stays(i) \/ Enters(i)
<1> DEFINE o == ObserveTerm(node[i], m.term)
           r == RecordMatch(node[i], m.from, node[i].snap.index)
<1>1. IsNode(node[i]) /\ m.term \in Nat
  BY Zenon DEF Wellformed, Received
<1>2. SameHardState(node[i], r)
  BY <1>1, LeaderBookkeepingSame, Zenon
<1>3. \/ Take(i, {m}, Step(o, {}))
      \/ AfterMatch(i, m, r, m.from)
  BY Zenon DEF HandleInstallSnapshotResponse
<1>4. SameHardState(o, o) /\ NoGrants({})
  BY <1>1, ObserveTermGives, Zenon DEF SameHardState, NoGrants
<1> HIDE DEF r, o
<1>5. CASE Take(i, {m}, Step(o, {}))
  BY <1>1, <1>4, <1>5, FollowsTerm, Zenon DEF o
<1>6. CASE AfterMatch(i, m, r, m.from)
  BY <1>2, <1>6, AfterMatchStep, Zenon
<1> QED  BY <1>3, <1>5, <1>6, Zenon

\* propose keeps the hard state.
LEMMA ProposeStep ==
  ASSUME Wellformed, NEW i \in Server, NEW c, Propose(i, c)
  PROVE  Stays(i)
<1> DEFINE a == AppendLog(node[i], "Command", c)
           adv == AdvanceCommitIndex(i, a)
           rep == ReplicateAll(i, adv.n)
           s == AndThen(adv, rep)
<1>1. SameHardState(node[i], a)
  BY AppendLogSame, Zenon DEF Wellformed
<1>2. SameHardState(a, adv.n) /\ NoGrants(adv.out)
  <2> HIDE DEF a
  <2> QED  BY <1>1, AdvanceCommitIndexSame, Zenon DEF SameHardState
<1>3. SameHardState(adv.n, rep.n) /\ NoGrants(rep.out)
  <2> HIDE DEF adv
  <2> QED  BY <1>2, ReplicateSame, Zenon DEF SameHardState
<1>4. Take(i, {}, s)
  BY Zenon DEF Propose
<1> HIDE DEF a, adv, rep
<1>5. SameHardState(node[i], rep.n) /\ NoGrants(adv.out \cup rep.out)
  BY <1>1, <1>2, <1>3, Zenon DEF SameHardState, NoGrants
<1>6. s.n = rep.n /\ s.out = adv.out \cup rep.out
  BY Zenon DEF AndThen, Step
<1> HIDE DEF s
<1> QED  BY <1>4, <1>5, <1>6, TakenStepStays, Zenon

\* start_read keeps the hard state.
LEMMA StartReadStep ==
  ASSUME Wellformed, NEW i \in Server, StartRead(i)
  PROVE  Stays(i)
<1> DEFINE n == [node[i] EXCEPT !.readSeq = @ + 1]
           index == Max({n.lead.termStart, n.commit})
           read == [id |-> n.readSeq, index |-> index, confirmSeq |-> ConfirmSeq(n),
                    acks |-> {i}]
           done == [id |-> n.readSeq, ok |-> TRUE, index |-> index]
           d == [n EXCEPT !.results = @ \cup {done}]
           w == [n EXCEPT !.lead.reads = @ \cup {read}]
           s == ReplicateAll(i, w)
<1>1. IsNode(node[i])
  BY Zenon DEF Wellformed
<1>2. IsNode(n) /\ SameHardState(node[i], n)
  BY <1>1, Zenon DEF IsNode, SameHardState, NodeFields
<1>3. SameHardState(n, d) /\ SameHardState(n, w)
  <2> HIDE DEF n, done, read
  <2> QED  BY <1>2, Zenon DEF IsNode, SameHardState, NodeFields
<1>4. SameHardState(w, s.n) /\ NoGrants(s.out)
  <2> HIDE DEF w
  <2> QED  BY <1>3, ReplicateSame, Zenon DEF SameHardState
<1>5. Take(i, {}, Step(d, {})) \/ Take(i, {}, s)
  BY Zenon DEF StartRead
<1> HIDE DEF n, d, w, s
<1>6. SameHardState(node[i], d) /\ SameHardState(node[i], s.n) /\ NoGrants({})
  BY <1>2, <1>3, <1>4, Zenon DEF SameHardState, NoGrants
<1>7. CASE Take(i, {}, Step(d, {}))
  BY <1>6, <1>7, TakeStays, Zenon
<1>8. CASE Take(i, {}, s)
  BY <1>4, <1>6, <1>8, TakenStepStays, Zenon
<1> QED  BY <1>5, <1>7, <1>8, Zenon

\* propose_add_learner and propose_conf_change keep the hard state.
LEMMA ConfChangeStep ==
  ASSUME Wellformed, NEW i \in Server, NEW x, ProposeConfChange(i, x) \/ ProposeAddLearner(i, x)
  PROVE  Stays(i)
<1>1. PICK config : Take(i, {}, AppendConfigEntry(i, node[i], config))
  BY Zenon DEF ProposeConfChange, ProposeAddLearner
<1> DEFINE s == AppendConfigEntry(i, node[i], config)
<1>2. SameHardState(node[i], s.n) /\ NoGrants(s.out)
  BY AppendConfigEntrySame, Zenon DEF Wellformed
<1>3. Take(i, {}, s)
  BY <1>1, Zenon
<1> HIDE DEF s
<1> QED  BY <1>2, <1>3, TakenStepStays, Zenon

\* compact keeps the hard state.
LEMMA CompactStep ==
  ASSUME Wellformed, NEW i \in Server, Compact(i)
  PROVE  Stays(i)
<1> DEFINE n == node[i]
           snap == [index |-> n.commit, term |-> TermAt(n, n.commit),
                    config |-> ConfigAt(n, n.commit)]
           c == [n EXCEPT !.snap = snap, !.log = EntriesFrom(n, n.commit + 1),
                          !.configs = OnCompact(n, n.commit)]
<1>1. IsNode(n)
  BY Zenon DEF Wellformed
<1>2. SameHardState(n, c) /\ NoGrants({})
  <2> HIDE DEF n, snap
  <2> QED  BY <1>1, Zenon DEF IsNode, SameHardState, NodeFields, NoGrants
<1>3. Take(i, {}, Step(c, {}))
  BY Zenon DEF Compact
<1> HIDE DEF c
<1> QED  BY <1>2, <1>3, TakeStays, Zenon

-----------------------------------------------------------------------------
\* Every step of a server is one of five kinds.
ElectionStep(i) ==
  \/ Stays(i)
  \/ Enters(i)
  \/ Campaigns(i)
  \/ \E m \in Received(i, "RequestVote") : Votes(i, m.from)
  \/ \E m \in Received(i, "RequestVoteResponse") : Counts(i, m)

\* Every step is one of those the election argument tells apart.
LEMMA NextIsElectionStep ==
  ASSUME Wellformed, Next
  PROVE  \E i \in Server : ElectionStep(i)
<1>1. PICK i \in Server :
        \/ StartElection(i)
        \/ Heartbeat(i)
        \/ \E m \in Received(i, "RequestVote") : HandleRequestVote(i, m)
        \/ \E m \in Received(i, "RequestVoteResponse") : HandleRequestVoteResponse(i, m)
        \/ \E m \in Received(i, "AppendEntries") : HandleAppendEntries(i, m)
        \/ \E m \in Received(i, "AppendEntries") : CrashWhileAppending(i, m)
        \/ \E m \in Received(i, "AppendEntriesResponse") : HandleAppendEntriesResponse(i, m)
        \/ \E m \in Received(i, "InstallSnapshot") : HandleInstallSnapshot(i, m)
        \/ \E m \in Received(i, "InstallSnapshotResponse") : HandleInstallSnapshotResponse(i, m)
        \/ \E c \in Command : Propose(i, c)
        \/ StartRead(i)
        \/ \E v \in ConfTargets : ProposeConfChange(i, v)
        \/ \E p \in LearnerTargets : ProposeAddLearner(i, p)
        \/ Compact(i)
        \/ Restart(i)
  BY Zenon DEF Next, Event, Crash
<1> SUFFICES ElectionStep(i)
  BY Zenon
<1>2. CASE StartElection(i)
  BY <1>2, StartElectionStep, Zenon DEF ElectionStep
<1>3. CASE Heartbeat(i)
  BY <1>3, HeartbeatStep, Zenon DEF ElectionStep
<1>4. CASE \E m \in Received(i, "RequestVote") : HandleRequestVote(i, m)
  BY <1>4, HandleRequestVoteStep, Zenon DEF ElectionStep
<1>5. CASE \E m \in Received(i, "RequestVoteResponse") : HandleRequestVoteResponse(i, m)
  BY <1>5, HandleRequestVoteResponseStep, Zenon DEF ElectionStep
<1>6. CASE \E m \in Received(i, "AppendEntries") : HandleAppendEntries(i, m)
  BY <1>6, HandleAppendEntriesStep, Zenon DEF ElectionStep
<1>7. CASE \E m \in Received(i, "AppendEntries") : CrashWhileAppending(i, m)
  BY <1>7, CrashWhileAppendingStep, Zenon DEF ElectionStep
<1>8. CASE \E m \in Received(i, "AppendEntriesResponse") : HandleAppendEntriesResponse(i, m)
  BY <1>8, HandleAppendEntriesResponseStep, Zenon DEF ElectionStep
<1>9. CASE \E m \in Received(i, "InstallSnapshot") : HandleInstallSnapshot(i, m)
  BY <1>9, HandleInstallSnapshotStep, Zenon DEF ElectionStep
<1>10. CASE \E m \in Received(i, "InstallSnapshotResponse") : HandleInstallSnapshotResponse(i, m)
  BY <1>10, HandleInstallSnapshotResponseStep, Zenon DEF ElectionStep
<1>11. CASE \E c \in Command : Propose(i, c)
  BY <1>11, ProposeStep, Zenon DEF ElectionStep
<1>12. CASE StartRead(i)
  BY <1>12, StartReadStep, Zenon DEF ElectionStep
<1>13. CASE (\E v \in ConfTargets : ProposeConfChange(i, v))
            \/ (\E p \in LearnerTargets : ProposeAddLearner(i, p))
  BY <1>13, ConfChangeStep, Zenon DEF ElectionStep
<1>14. CASE Compact(i)
  BY <1>14, CompactStep, Zenon DEF ElectionStep
<1>15. CASE Restart(i)
  BY <1>15, RestartStep, Zenon DEF ElectionStep
<1> QED
  BY <1>1, <1>2, <1>3, <1>4, <1>5, <1>6, <1>7, <1>8, <1>9, <1>10, <1>11, <1>12,
     <1>13, <1>14, <1>15, Zenon

\* A node is built with all its fields (with_bootstrap).
LEMMA WellformedInit ==
  ASSUME Init
  PROVE  Wellformed
<1>1. \A i \in Server : IsNode(Recovered(i, 0, Nil, EmptyMap, NoSnapshot))
  BY Zenon DEF Recovered, IsNode, NodeFields
<1> QED  BY <1>1, Zenon DEF Init, Wellformed

\* Each of those steps moves one server.
LEMMA ElectionStepMoves ==
  ASSUME NEW i, ElectionStep(i)
  PROVE  /\ IsNode(node'[i])
         /\ \E out : Moved(i, out) /\ \A m \in out : m.term \in Nat
<1>1. CASE Stays(i)
  BY <1>1, Zenon DEF Stays, SameHardState, NoGrants
<1>2. CASE Enters(i)
  BY <1>2, Zenon DEF Enters, NoGrants
<1>3. CASE Campaigns(i)
  BY <1>3, Zenon DEF Campaigns, NoGrants
<1>4. ASSUME NEW c, Votes(i, c)
      PROVE  /\ IsNode(node'[i])
             /\ \E out : Moved(i, out) /\ \A m \in out : m.term \in Nat
  BY <1>4, Zenon DEF Votes, IsNode
<1>5. ASSUME NEW m, Counts(i, m)
      PROVE  /\ IsNode(node'[i])
             /\ \E out : Moved(i, out) /\ \A x \in out : x.term \in Nat
  BY <1>5, Zenon DEF Counts, NoGrants
<1> QED  BY <1>1, <1>2, <1>3, <1>4, <1>5, Zenon DEF ElectionStep

\* No step loses a field.
LEMMA WellformedNext ==
  ASSUME Wellformed, Next
  PROVE  Wellformed'
<1>1. PICK i \in Server : ElectionStep(i)
  BY NextIsElectionStep, Zenon
<1>2. PICK out : Moved(i, out) /\ \A m \in out : m.term \in Nat
  BY <1>1, ElectionStepMoves, Zenon
<1>3. IsNode(node'[i])
  BY <1>1, ElectionStepMoves, Zenon
<1>4. \A j \in Server : IsNode(node'[j])
  BY <1>2, <1>3, MovedAlone, Zenon DEF Wellformed
<1>5. DOMAIN node' = Server /\ \A m \in msgs' : m.term \in Nat
  BY <1>2, MovedAlone, Zenon DEF Wellformed
<1> QED  BY <1>4, <1>5, Zenon DEF Wellformed, IsNode

(* The nodes and messages keep the shape the proofs rely on.               *)
THEOREM WellformedInvariant == Spec => []Wellformed
<1>1. Wellformed /\ UNCHANGED vars => Wellformed'
  BY Zenon DEF Wellformed, vars
<1> QED  BY <1>1, WellformedInit, WellformedNext, PTL DEF Spec

-----------------------------------------------------------------------------
\* No step takes a term back or changes a vote within one.
LEMMA HardStateStep ==
  ASSUME Wellformed, Next, NEW j \in Server
  PROVE  /\ node'[j].term >= node[j].term
         /\ node'[j].term = node[j].term => node[j].votedFor \in {Nil, node'[j].votedFor}
<1>1. PICK i \in Server : ElectionStep(i)
  BY NextIsElectionStep, Zenon
<1>2. node[j].term \in Nat /\ node[i].term \in Nat
  BY Zenon DEF Wellformed, IsNode
<1>3. CASE i # j
  <2>1. PICK out : Moved(i, out)
    BY <1>1, ElectionStepMoves, Zenon
  <2>2. node'[j] = node[j]
    BY <1>3, <2>1, MovedAlone
  <2> QED  BY <1>2, <2>2
<1>4. CASE i = j
  <2>1. CASE Stays(i)
    BY <1>2, <1>4, <2>1 DEF Stays, SameHardState
  <2>2. CASE Enters(i)
    BY <1>2, <1>4, <2>2 DEF Enters, IsNode
  <2>3. CASE Campaigns(i)
    BY <1>2, <1>4, <2>3 DEF Campaigns
  <2>4. CASE \E m \in Received(i, "RequestVote") : Votes(i, m.from)
    BY <1>2, <1>4, <2>4 DEF Votes, IsNode
  <2>5. CASE \E m \in Received(i, "RequestVoteResponse") : Counts(i, m)
    BY <1>2, <1>4, <2>5 DEF Counts
  <2> QED  BY <1>1, <2>1, <2>2, <2>3, <2>4, <2>5, Zenon DEF ElectionStep
<1> QED  BY <1>3, <1>4, Zenon

(* In every behaviour a server's term never decreases, and within a term   *)
(* its vote, once cast, never changes: through every handler, every        *)
(* restart and a crash between two writes, with messages lost, duplicated, *)
(* delayed and reordered, and with any number of servers.                  *)
THEOREM HardStateOnlyAdvances == Spec => HardStateMonotone
<1> DEFINE A == \A i \in Server :
                  /\ node'[i].term >= node[i].term
                  /\ node'[i].term = node[i].term =>
                       node[i].votedFor \in {Nil, node'[i].votedFor}
<1>1. Wellformed /\ [Next]_vars => [A]_node
  BY HardStateStep, Zenon DEF vars
<1>2. HardStateMonotone <=> [][A]_node
  BY Zenon DEF HardStateMonotone
<1> HIDE DEF A
<1> QED  BY <1>1, <1>2, WellformedInvariant, PTL DEF Spec

-----------------------------------------------------------------------------
(* The voters stay.                                                        *)

StableStep(V, s) == Stable(V, s.n) /\ \A m \in s.out : StableMsg(V, m)

\* A set of indices has a size.
LEMMA IndicesCount ==
  ASSUME Counting, NEW S, Indices(S)
  PROVE  Cardinality(S) \in Nat
BY Zenon DEF Counting

-----------------------------------------------------------------------------
(* Logs and configurations.                                                *)

\* Two logs laid over one another are a log.
LEMMA OverLog ==
  ASSUME NEW V, NEW f, NEW g, LogOk(V, f), LogOk(V, g)
  PROVE  LogOk(V, Over(f, g))
BY IndicesUnion, Zenon DEF LogOk, Over

\* The configuration that a snapshot stores has the voters V (config_at).
LEMMA ConfigAtIsFixed ==
  ASSUME Counting, NEW V, NEW n, Stable(V, n), NEW index
  PROVE  Fixed(V, ConfigAt(n, index))
<1> DEFINE upTo == {k \in DOMAIN n.configs.inLog : k <= index}
<1>1. ConfigsOk(V, n.configs)
  BY Zenon DEF Stable
<1>2. Indices(upTo)
  BY <1>1, IndicesSubset, Zenon DEF ConfigsOk
<1>3. upTo # {} => Max(upTo) \in DOMAIN n.configs.inLog
  BY <1>2, MaxOf, Zenon
<1>4. ConfigAt(n, index) = IF upTo = {} THEN n.configs.base ELSE n.configs.inLog[Max(upTo)]
  BY Zenon DEF ConfigAt
<1> HIDE DEF upTo
<1> QED  BY <1>1, <1>3, <1>4, Zenon DEF ConfigsOk

\* Truncation leaves the tracker sound (ConfigTracker::on_truncate).
LEMMA OnTruncateOk ==
  ASSUME NEW V, NEW c, ConfigsOk(V, c), NEW from
  PROVE  ConfigsOk(V, OnTruncate(c, from))
<1> DEFINE in == Restrict(c.inLog, {k \in DOMAIN c.inLog : k < from})
<1>1. OnTruncate(c, from) = [c EXCEPT !.inLog = in]
  BY Zenon DEF OnTruncate
<1>2. Indices(DOMAIN in) /\ \A k \in DOMAIN in : Fixed(V, in[k])
  BY IndicesSubset, Zenon DEF ConfigsOk, Restrict
<1> HIDE DEF in
<1>3. OnTruncate(c, from) = [base |-> c.base, baseIndex |-> c.baseIndex, inLog |-> in]
  BY <1>1, Zenon DEF ConfigsOk
<1> QED  BY <1>2, <1>3 DEF ConfigsOk

-----------------------------------------------------------------------------
(* The methods of a node, one by one.                                      *)

\* So does committing, and up to an index (advance_commit_index).
LEMMA CommitUpToStable ==
  ASSUME Counting, NEW V, NEW n, Stable(V, n), NEW i
  PROVE  Stable(V, CommitUpTo(i, n)) /\ CommitPoint(i, n) \in Nat
<1> DEFINE able == {k \in DOMAIN n.log : /\ k > n.commit
                                         /\ n.log[k].term = n.term
                                         /\ HasQuorum(Active(n), Acks(i, n, k))}
<1>1. Indices(able)
  BY IndicesSubset, Zenon DEF Stable, LogOk
<1>2. able # {} => Max(able) \in Nat
  BY <1>1, MaxOf, Zenon DEF Indices
<1>3. CommitPoint(i, n) = IF able = {} THEN n.commit ELSE Max(able)
  BY Zenon DEF CommitPoint
<1> HIDE DEF able
<1>4. CommitPoint(i, n) \in Nat
  BY <1>2, <1>3, Zenon DEF Stable
<1> DEFINE c == [n EXCEPT !.commit = CommitPoint(i, n)]
           d == StepDown(c)
           l == [d EXCEPT !.leaderId = Nil]
<1>5. Stable(V, c)
  BY <1>4, CommitStable, Zenon
<1>6. CommitUpTo(i, n) \in {n, c, l}
  BY Zenon DEF CommitUpTo, LeaveIfRemoved
<1> HIDE DEF c
<1>7. Stable(V, d)
  BY <1>5, StepDownStable, Zenon
<1> HIDE DEF d
<1>8. /\ IsNode(l) /\ l.log = d.log /\ l.snap = d.snap /\ l.commit = d.commit
      /\ l.configs = d.configs /\ l.lead = d.lead
  BY <1>7, Zenon DEF Stable, IsNode, NodeFields
<1> HIDE DEF l
<1>9. Stable(V, l)
  BY <1>7, <1>8, StableAlike, Zenon DEF Stable
<1> QED  BY <1>4, <1>5, <1>6, <1>9, Zenon

(* A leader has nothing to finish: no configuration is joint.              *)
LEMMA AdvanceStable ==
  ASSUME Counting, NEW V, NEW n, Stable(V, n), NEW i
  PROVE  StableStep(V, AdvanceCommitIndex(i, n))
<1> DEFINE c == [n EXCEPT !.commit = CommitPoint(i, n)]
<1>1. Stable(V, c)
  BY CommitUpToStable, CommitStable, Zenon
<1>2. ~IsJoint(Active(c))
  BY <1>1, ActiveIsFixed, Zenon
<1>3. AdvanceCommitIndex(i, n) = Step(CommitUpTo(i, n), {})
  BY <1>2, Zenon DEF AdvanceCommitIndex
<1>4. Stable(V, CommitUpTo(i, n))
  BY CommitUpToStable, Zenon
<1> QED  BY <1>3, <1>4 DEF StableStep, Step

(* What a leader sends is what it has.                                     *)
LEMMA AppendEntriesForStable ==
  ASSUME NEW V, NEW n, Stable(V, n), NEW i, NEW p
  PROVE  StableMsg(V, AppendEntriesFor(i, n, p))
<1> DEFINE next == NextFor(n, p)
           sent == [type |-> "AppendEntries", from |-> i, to |-> p, term |-> n.term,
                    prevIndex |-> next - 1,
                    prevTerm  |-> IF next = 1 THEN 0 ELSE TermAt(n, next - 1),
                    entries   |-> EntriesFrom(n, next),
                    commit    |-> n.commit,
                    seq       |-> n.lead.aeSeq]
           snap == [type |-> "InstallSnapshot", from |-> i, to |-> p,
                    term |-> n.term, snap |-> n.snap]
<1>1. next - 1 \in Nat
  BY DEF NextFor, Stable, LeadOk
<1>2. LogOk(V, EntriesFrom(n, next))
  BY RestrictLog, Zenon DEF EntriesFrom, Stable
<1>3. AppendEntriesFor(i, n, p) \in {sent, snap}
  BY Zenon DEF AppendEntriesFor
<1> HIDE DEF next
<1>4. StableMsg(V, sent)
  BY <1>1, <1>2, Zenon DEF StableMsg, Stable
<1>5. StableMsg(V, snap)
  BY Zenon DEF StableMsg, Stable
<1> QED  BY <1>3, <1>4, <1>5, Zenon

\* Replication sends only what is stable.
LEMMA ReplicateStable ==
  ASSUME NEW V, NEW n, Stable(V, n), NEW i, NEW p
  PROVE  StableStep(V, ReplicateAll(i, n)) /\ StableStep(V, ReplicateTo(i, n, p))
<1> DEFINE r == NextRound(n)
           all == {AppendEntriesFor(i, r, q) : q \in ReplicationTargets(i, r)}
           one == {AppendEntriesFor(i, r, p)}
<1>1. /\ IsNode(r) /\ r.log = n.log /\ r.snap = n.snap /\ r.commit = n.commit
      /\ r.configs = n.configs
  BY Zenon DEF NextRound, Stable, IsNode, NodeFields
<1>2. LeadOk(r.lead)
  BY Zenon DEF NextRound, Stable, IsNode, NodeFields, LeadOk
<1> HIDE DEF r
<1>3. Stable(V, r)
  BY <1>1, <1>2, StableAlike, Zenon
<1>4. \A m \in all \cup one : StableMsg(V, m)
  BY <1>3, AppendEntriesForStable, Zenon
<1>5. ReplicateAll(i, n) \in {Step(n, {}), Step(r, all)}
  BY Zenon DEF ReplicateAll, r
<1>6. ReplicateTo(i, n, p) \in {Step(n, {}), Step(r, one)}
  BY Zenon DEF ReplicateTo, r
<1> HIDE DEF all, one
<1>7. StableStep(V, Step(n, {})) /\ StableStep(V, Step(r, all)) /\ StableStep(V, Step(r, one))
  BY <1>3, <1>4, Zenon DEF StableStep, Step
<1> QED  BY <1>5, <1>6, <1>7, Zenon

\* Two stable steps, one after the other.
LEMMA AndThenStable ==
  ASSUME NEW V, NEW s, NEW t, StableStep(V, s), StableStep(V, t)
  PROVE  StableStep(V, AndThen(s, t))
BY Zenon DEF StableStep, AndThen, Step

\* A new leader and its first round (become_leader).
LEMMA BecomeLeaderStable ==
  ASSUME Counting, NEW V, NEW n, Stable(V, n), NEW i
  PROVE  StableStep(V, BecomeLeader(i, n))
<1> DEFINE peers == ReplicationTargets(i, n)
           lead  == [next      |-> [p \in peers |-> LastIndex(n) + 1],
                     match     |-> [p \in peers |-> 0],
                     aeSeq     |-> 0,
                     termStart |-> LastIndex(n) + 1,
                     reads     |-> {}]
           a   == AppendLog(n, "Noop", Nil)
           l   == [a EXCEPT !.role = Leader, !.votes = {}, !.lead = lead, !.leaderId = i]
           adv == AdvanceCommitIndex(i, l)
           rep == ReplicateAll(i, adv.n)
<1>1. Stable(V, a)
  BY AppendLogStable, Zenon
<1>2. LeadOk(lead)
  <2>1. LastIndex(n) + 1 \in Nat /\ LastIndex(n) + 1 >= 1
    BY LastIndexIs
  <2> HIDE DEF peers
  <2> QED  BY <2>1, Zenon DEF LeadOk
<1>3. Stable(V, l)
  <2> HIDE DEF a, lead
  <2>1. /\ IsNode(l) /\ l.log = a.log /\ l.snap = a.snap /\ l.commit = a.commit
        /\ l.configs = a.configs /\ l.lead = lead
    BY <1>1, Zenon DEF Stable, IsNode, NodeFields
  <2> HIDE DEF l
  <2> QED  BY <1>1, <1>2, <2>1, StableAlike, Zenon
<1>4. StableStep(V, adv)
  <2> HIDE DEF l
  <2> QED  BY <1>3, AdvanceStable, Zenon
<1>5. StableStep(V, rep)
  <2> HIDE DEF adv
  <2> QED  BY <1>4, ReplicateStable, Zenon DEF StableStep
<1>6. BecomeLeader(i, n) = AndThen(adv, rep)
  BY Zenon DEF BecomeLeader
<1> HIDE DEF adv, rep
<1> QED  BY <1>4, <1>5, <1>6, AndThenStable, Zenon

(* A learner is added with the voters left as they are.                    *)
LEMMA AppendConfigEntryStable ==
  ASSUME Counting, NEW V, NEW n, Stable(V, n), NEW i, NEW config, Fixed(V, config)
  PROVE  StableStep(V, AppendConfigEntry(i, n, config))
<1> DEFINE a == AppendLog(n, "Config", config)
           b == [a EXCEPT !.configs = OnAppend(@, EntriesFrom(a, LastIndex(a)))]
           r == RefreshLeaderState(i, b)
           u == CommitUpTo(i, r)
<1>1. Stable(V, r)
  BY NewConfigStable, Zenon
<1>2. Stable(V, u)
  <2> HIDE DEF r
  <2> QED  BY <1>1, CommitUpToStable, Zenon
<1>3. AppendConfigEntry(i, n, config) = ReplicateAll(i, u)
  BY Zenon DEF AppendConfigEntry
<1> HIDE DEF u
<1> QED  BY <1>2, <1>3, ReplicateStable, Zenon

(* The receiver of AppendEntries truncates and appends what it is sent.    *)
LEMMA TruncateStable ==
  ASSUME NEW V, NEW n, Stable(V, n), NEW new
  PROVE  Stable(V, TruncateConflict(n, new))
<1> DEFINE k0 == Min(DOMAIN new)
           log == Restrict(n.log, {k \in DOMAIN n.log : k < k0})
           t == [n EXCEPT !.log = log, !.configs = OnTruncate(@, k0)]
<1>1. LogOk(V, log)
  BY RestrictLog, Zenon DEF Stable
<1>2. ConfigsOk(V, OnTruncate(n.configs, k0))
  BY OnTruncateOk, Zenon DEF Stable
<1>3. TruncateConflict(n, new) \in {n, t}
  BY Zenon DEF TruncateConflict
<1> HIDE DEF log, k0
<1>4. /\ IsNode(t) /\ t.log = log /\ t.snap = n.snap /\ t.commit = n.commit
      /\ t.configs = OnTruncate(n.configs, k0) /\ t.lead = n.lead
  BY Zenon DEF Stable, IsNode, NodeFields
<1> HIDE DEF t
<1>5. Stable(V, t)
  BY <1>1, <1>2, <1>4, Zenon DEF Stable
<1> QED  BY <1>3, <1>5, Zenon

\* Entries taken over from a leader (append_new_entries).
LEMMA AppendNewEntriesStable ==
  ASSUME NEW V, NEW n, Stable(V, n), NEW entries, LogOk(V, entries)
  PROVE  Stable(V, AppendNewEntries(n, entries))
<1> DEFINE new == NewEntries(n, entries)
           t == TruncateConflict(n, new)
           a == [t EXCEPT !.log = Over(new, @), !.configs = OnAppend(@, new)]
<1>1. LogOk(V, new)
  BY RestrictLog, Zenon DEF NewEntries
<1>2. Stable(V, t)
  BY TruncateStable, Zenon
<1>3. AppendNewEntries(n, entries) = a
  BY Zenon DEF AppendNewEntries
<1> HIDE DEF new, t
<1>4. LogOk(V, Over(new, t.log)) /\ ConfigsOk(V, OnAppend(t.configs, new))
  BY <1>1, <1>2, OverLog, OnAppendOk, Zenon DEF Stable
<1>5. /\ IsNode(a) /\ a.log = Over(new, t.log) /\ a.snap = t.snap /\ a.commit = t.commit
      /\ a.configs = OnAppend(t.configs, new) /\ a.lead = t.lead
  BY <1>2, Zenon DEF Stable, IsNode, NodeFields
<1> HIDE DEF a
<1> QED  BY <1>2, <1>3, <1>4, <1>5, Zenon DEF Stable

\* The index that a follower acknowledges is a number.
LEMMA MatchIndexIs ==
  ASSUME Counting,
         NEW V, NEW m, LogOk(V, m.entries), m.prevIndex \in Nat, m.commit \in Nat,
         NEW n, Stable(V, n)
  PROVE  MatchIndex(m) \in Nat /\ CommitAfter(n, m) \in Nat
<1>1. MatchIndex(m) \in Nat
  BY IndicesCount DEF LogOk, MatchIndex
<1>2. Min({m.commit, MatchIndex(m)}) \in Nat
  BY <1>1, MinOf, Zenon
<1> QED  BY <1>1, <1>2, Zenon DEF CommitAfter, Stable

\* So is the one it asks the leader to go back to (conflict_hint).
LEMMA ConflictHintIs ==
  ASSUME Counting, NEW V, NEW n, Stable(V, n), NEW prev \in Nat, prev # 0
  PROVE  ConflictHint(n, prev) \in Nat
<1> DEFINE term == IF prev \in DOMAIN n.log THEN n.log[prev].term ELSE 0
           run(f) == \A k \in f..(prev - 1) : k \in DOMAIN n.log /\ n.log[k].term = term
           S == {f \in 1..prev : run(f)}
<1>1. ConflictHint(n, prev) = IF prev > LastIndex(n) THEN LastIndex(n) + 1 ELSE Min(S)
  BY Zenon DEF ConflictHint
<1>2. prev \in 1..prev /\ run(prev)
  OBVIOUS
<1> HIDE DEF run
<1>3. S \subseteq 1..prev /\ prev \in S
  BY <1>2, Zenon
<1> HIDE DEF S
<1>4. Min(S) \in Nat
  <2>1. S \subseteq Nat /\ S # {}
    BY <1>3
  <2> QED  BY <2>1, MinOf, Zenon
<1> QED  BY <1>1, <1>4, LastIndexIs

(* A node recovers its configuration from its log and snapshot, over the   *)
(* bootstrap (with_bootstrap).                                             *)
LEMMA RecoveredStable ==
  ASSUME NEW V, NEW i \in Server, Fixed(V, Bootstrap[i]),
         NEW n, Stable(V, n)
  PROVE  Stable(V, Recovered(i, n.term, n.votedFor, n.log, n.snap))
<1> DEFINE in == [k \in {j \in DOMAIN n.log : n.log[j].kind = "Config"} |-> n.log[k].data]
           base == IF n.snap.config = Nil THEN Bootstrap[i] ELSE n.snap.config
           c == ScanConfigs(i, n.log, n.snap)
           r == Recovered(i, n.term, n.votedFor, n.log, n.snap)
<1>1. c = [base |-> base, baseIndex |-> n.snap.index, inLog |-> in]
  BY Zenon DEF ScanConfigs
<1>2. Indices(DOMAIN in) /\ \A k \in DOMAIN in : Fixed(V, in[k])
  BY IndicesSubset, Zenon DEF Stable, LogOk
<1>3. Fixed(V, base)
  BY Zenon DEF Stable, SnapOk
<1> HIDE DEF in, base
<1>4. ConfigsOk(V, c)
  BY <1>1, <1>2, <1>3 DEF ConfigsOk
<1>5. LeadOk(NoLeaderState)
  BY Zenon DEF LeadOk, NoLeaderState, EmptyMap
<1>6. /\ IsNode(r) /\ r.log = n.log /\ r.snap = n.snap /\ r.commit = n.snap.index
      /\ r.configs = c /\ r.lead = NoLeaderState
  BY Zenon DEF Recovered, Stable, IsNode, NodeFields
<1> HIDE DEF r, c
<1>7. n.snap.index \in Nat
  BY Zenon DEF Stable, SnapOk
<1>8. Stable(V, r)
  BY <1>4, <1>5, <1>6, <1>7, Zenon DEF Stable
<1> QED  BY <1>8, Zenon DEF r

\* The tail of both success replies.
LEMMA KeepReplicatingStable ==
  ASSUME Counting, NEW V, NEW i, NEW n, Stable(V, n), NEW p
  PROVE  StableStep(V, KeepReplicating(i, AdvanceCommitIndex(i, n), p))
<1> DEFINE adv == AdvanceCommitIndex(i, n)
           rep == ReplicateTo(i, adv.n, p)
<1>1. StableStep(V, adv)
  BY AdvanceStable, Zenon
<1> HIDE DEF adv
<1>2. StableStep(V, rep)
  BY <1>1, ReplicateStable, Zenon DEF StableStep
<1>3. KeepReplicating(i, adv, p) \in {adv, AndThen(adv, rep)}
  BY Zenon DEF KeepReplicating
<1> HIDE DEF rep
<1>4. StableStep(V, KeepReplicating(i, adv, p))
  BY <1>1, <1>2, <1>3, AndThenStable, Zenon
<1> QED  BY <1>4, Zenon DEF adv

(* Only a later snapshot is installed, so one with a configuration.        *)
LEMMA InstallStable ==
  ASSUME NEW V, NEW n, Stable(V, n), NEW snap, SnapOk(V, snap), IsNews(n, snap)
  PROVE  Stable(V, InstallOver(n, snap))
<1> DEFINE matches == snap.index \in DOMAIN n.log /\ n.log[snap.index].term = snap.term
           kept == IF matches THEN {k \in DOMAIN n.log : k > snap.index} ELSE {}
           log == Restrict(n.log, kept)
           conf == OnInstallSnapshot(n.configs, snap, ~matches)
           o == InstallOver(n, snap)
<1>1. Fixed(V, snap.config) /\ snap.index \in Nat
  BY DEF SnapOk, IsNews, Stable
<1>2. kept \subseteq DOMAIN n.log
  BY Zenon
<1>3. LogOk(V, log)
  <2> HIDE DEF kept
  <2> QED  BY <1>2, RestrictLog, Zenon DEF Stable
<1>4. ConfigsOk(V, conf)
  <2> HIDE DEF matches
  <2> DEFINE S == IF ~matches THEN {} ELSE {k \in DOMAIN n.configs.inLog : k > snap.index}
             in == Restrict(n.configs.inLog, S)
  <2>1. conf = [base |-> snap.config, baseIndex |-> snap.index, inLog |-> in]
    BY Zenon DEF OnInstallSnapshot
  <2>2. S \subseteq DOMAIN n.configs.inLog
    BY Zenon
  <2>3. Indices(DOMAIN in) /\ \A k \in DOMAIN in : Fixed(V, in[k])
    <3> HIDE DEF S
    <3> QED  BY <2>2, IndicesSubset, Zenon DEF Stable, ConfigsOk, Restrict
  <2> HIDE DEF in
  <2> QED  BY <1>1, <2>1, <2>3 DEF ConfigsOk
<1>5. o = [n EXCEPT !.log = log, !.configs = conf, !.commit = snap.index, !.snap = snap]
  BY Zenon DEF InstallOver
<1> HIDE DEF log, conf, o
<1>6. /\ IsNode(o) /\ o.log = log /\ o.snap = snap /\ o.commit = snap.index
      /\ o.configs = conf /\ o.lead = n.lead
  BY <1>5, Zenon DEF Stable, IsNode, NodeFields
<1>7. Stable(V, o)
  BY <1>1, <1>3, <1>4, <1>6, Zenon DEF Stable
<1> QED  BY <1>7, Zenon DEF o

-----------------------------------------------------------------------------
(* The actions: each takes a stable step.                                  *)

\* A stable step keeps the voters.
LEMMA TakeStable ==
  ASSUME NEW V, Wellformed, VotersStay(V), NEW i \in Server, NEW in, NEW s,
         Take(i, in, s), StableStep(V, s)
  PROVE  VotersStay(V)'
<1>1. node'[i] = s.n /\ Moved(i, s.out)
  BY TakeMoves, Zenon
<1>2. /\ \A j \in Server \ {i} : node'[j] = node[j]
      /\ \A m \in msgs' : m \in msgs \/ m \in s.out
  BY <1>1, MovedAlone, Zenon
<1>3. \A j \in Server : Stable(V, node'[j])
  BY <1>1, <1>2, Zenon DEF StableStep, VotersStay
<1>4. \A m \in msgs' : StableMsg(V, m)
  BY <1>2, Zenon DEF StableStep, VotersStay
<1> QED  BY <1>3, <1>4, Zenon DEF VotersStay, Stable, StableMsg

(* A step that sends nothing which carries a log or a snapshot.            *)
LEMMA TakeQuiet ==
  ASSUME NEW V, Wellformed, VotersStay(V), NEW i \in Server, NEW in, NEW n, NEW out,
         Take(i, in, Step(n, out)), Stable(V, n), \A m \in out : StableMsg(V, m)
  PROVE  VotersStay(V)'
<1>1. StableStep(V, Step(n, out))
  BY Zenon DEF StableStep, Step
<1> QED  BY <1>1, TakeStable, Zenon

\* Every reply is stable.
LEMMA RepliesStable ==
  ASSUME NEW V, NEW i, NEW m, NEW term
  PROVE  /\ \A g : \A r \in VoteReply(i, m, term, g) : StableMsg(V, r)
         /\ \A r \in SnapshotReply(i, m, term) : StableMsg(V, r)
         /\ \A ok : \A c, k \in Nat : \A r \in AppendReply(i, m, term, ok, c, k) : StableMsg(V, r)
<1>1. \A g : \A r \in VoteReply(i, m, term, g) : StableMsg(V, r)
  BY DEF VoteReply, StableMsg
<1>2. \A r \in SnapshotReply(i, m, term) : StableMsg(V, r)
  BY DEF SnapshotReply, StableMsg
<1>3. \A ok : \A c, k \in Nat : \A r \in AppendReply(i, m, term, ok, c, k) : StableMsg(V, r)
  BY DEF AppendReply, StableMsg
<1> QED  BY <1>1, <1>2, <1>3, Zenon

\* start_election keeps the voters.
LEMMA StartElectionKeeps ==
  ASSUME Counting, NEW V, Wellformed, VotersStay(V), NEW i \in Server, StartElection(i)
  PROVE  VotersStay(V)'
<1> DEFINE n == [node[i] EXCEPT !.term = @ + 1, !.votedFor = i, !.role = Candidate,
                                !.votes = {i}, !.leaderId = Nil, !.contact = FALSE]
           req(p) == [type |-> "RequestVote", from |-> i, to |-> p, term |-> n.term,
                      lastIndex |-> LastIndex(n), lastTerm |-> LastTerm(n)]
           out == {req(p) : p \in VoteTargets(i, n)}
<1>1. Stable(V, node[i])
  BY Zenon DEF VotersStay
<1>2. /\ IsNode(n) /\ n.log = node[i].log /\ n.snap = node[i].snap
      /\ n.commit = node[i].commit /\ n.configs = node[i].configs /\ n.lead = node[i].lead
  BY <1>1 DEF Stable, IsNode, NodeFields
<1>3. Take(i, {}, BecomeLeader(i, n)) \/ Take(i, {}, Step(n, out))
  BY Zenon DEF StartElection
<1> HIDE DEF n
<1>4. Stable(V, n)
  BY <1>1, <1>2, StableAlike, Zenon DEF Stable
<1>5. \A m \in out : StableMsg(V, m)
  BY DEF StableMsg
<1> HIDE DEF out
<1>6. CASE Take(i, {}, BecomeLeader(i, n))
  BY <1>4, <1>6, BecomeLeaderStable, TakeStable, Zenon
<1>7. CASE Take(i, {}, Step(n, out))
  BY <1>4, <1>5, <1>7, TakeQuiet, Zenon
<1> QED  BY <1>3, <1>6, <1>7, Zenon

\* A heartbeat keeps the voters (tick).
LEMMA HeartbeatKeeps ==
  ASSUME NEW V, Wellformed, VotersStay(V), NEW i \in Server, Heartbeat(i)
  PROVE  VotersStay(V)'
<1>1. Take(i, {}, ReplicateAll(i, node[i]))
  BY Zenon DEF Heartbeat
<1>2. StableStep(V, ReplicateAll(i, node[i]))
  BY ReplicateStable, Zenon DEF VotersStay
<1> QED  BY <1>1, <1>2, TakeStable, Zenon

\* handle_request_vote keeps the voters.
LEMMA HandleRequestVoteKeeps ==
  ASSUME NEW V, Wellformed, VotersStay(V), NEW i \in Server,
         NEW m \in Received(i, "RequestVote"), HandleRequestVote(i, m)
  PROVE  VotersStay(V)'
<1> DEFINE f == [node[i] EXCEPT !.contact = FALSE]
           n == ObserveTerm(f, m.term)
           g == [n EXCEPT !.votedFor = m.from]
<1>1. Stable(V, node[i]) /\ m.term \in Nat
  BY Zenon DEF VotersStay, Wellformed, Received
<1>2. /\ IsNode(f) /\ f.log = node[i].log /\ f.snap = node[i].snap
      /\ f.commit = node[i].commit /\ f.configs = node[i].configs /\ f.lead = node[i].lead
  BY <1>1, Zenon DEF Stable, IsNode, NodeFields
<1>3. \/ Take(i, {m}, Step(node[i], VoteReply(i, m, node[i].term, FALSE)))
      \/ Take(i, {m}, Step(n, VoteReply(i, m, n.term, FALSE)))
      \/ Take(i, {m}, Step(g, VoteReply(i, m, n.term, TRUE)))
  BY Zenon DEF HandleRequestVote
<1> HIDE DEF f
<1>4. Stable(V, f)
  BY <1>1, <1>2, StableAlike, Zenon DEF Stable
<1>5. Stable(V, n)
  BY <1>1, <1>4, ObserveTermStable, Zenon
<1> HIDE DEF n
<1>6. /\ IsNode(g) /\ g.log = n.log /\ g.snap = n.snap
      /\ g.commit = n.commit /\ g.configs = n.configs /\ g.lead = n.lead
  BY <1>5, Zenon DEF Stable, IsNode, NodeFields
<1> HIDE DEF g
<1>7. Stable(V, g)
  BY <1>5, <1>6, StableAlike, Zenon DEF Stable
<1>8. CASE Take(i, {m}, Step(node[i], VoteReply(i, m, node[i].term, FALSE)))
  BY <1>1, <1>8, RepliesStable, TakeQuiet, Zenon
<1>9. CASE Take(i, {m}, Step(n, VoteReply(i, m, n.term, FALSE)))
  BY <1>5, <1>9, RepliesStable, TakeQuiet, Zenon
<1>10. CASE Take(i, {m}, Step(g, VoteReply(i, m, n.term, TRUE)))
  BY <1>7, <1>10, RepliesStable, TakeQuiet, Zenon
<1> QED  BY <1>3, <1>8, <1>9, <1>10, Zenon

\* handle_request_vote_response keeps the voters.
LEMMA HandleRequestVoteResponseKeeps ==
  ASSUME Counting, NEW V, Wellformed, VotersStay(V), NEW i \in Server,
         NEW m \in Received(i, "RequestVoteResponse"), HandleRequestVoteResponse(i, m)
  PROVE  VotersStay(V)'
<1> DEFINE n == [node[i] EXCEPT !.votes = IF m.granted THEN @ \cup {m.from} ELSE @]
           o == ObserveTerm(node[i], m.term)
<1>1. Stable(V, node[i]) /\ m.term \in Nat
  BY Zenon DEF VotersStay, Wellformed, Received
<1>2. /\ IsNode(n) /\ n.log = node[i].log /\ n.snap = node[i].snap
      /\ n.commit = node[i].commit /\ n.configs = node[i].configs /\ n.lead = node[i].lead
  BY <1>1, Zenon DEF Stable, IsNode, NodeFields
<1>3. \/ Take(i, {m}, Step(o, {}))
      \/ Take(i, {m}, Step(n, {}))
      \/ Take(i, {m}, BecomeLeader(i, n))
  BY Zenon DEF HandleRequestVoteResponse
<1> HIDE DEF n
<1>4. Stable(V, n)
  BY <1>1, <1>2, StableAlike, Zenon DEF Stable
<1>5. Stable(V, o)
  BY <1>1, ObserveTermStable, Zenon
<1> HIDE DEF o
<1>6. CASE Take(i, {m}, Step(o, {}))
  BY <1>5, <1>6, TakeQuiet
<1>7. CASE Take(i, {m}, Step(n, {}))
  BY <1>4, <1>7, TakeQuiet
<1>8. CASE Take(i, {m}, BecomeLeader(i, n))
  BY <1>4, <1>8, BecomeLeaderStable, TakeStable, Zenon
<1> QED  BY <1>3, <1>6, <1>7, <1>8, Zenon

\* handle_append_entries keeps the voters.
LEMMA HandleAppendEntriesKeeps ==
  ASSUME Counting, NEW V, Wellformed, VotersStay(V), NEW i \in Server,
         NEW m \in Received(i, "AppendEntries"), HandleAppendEntries(i, m)
  PROVE  VotersStay(V)'
<1> DEFINE n == AcceptLeader(ObserveTerm(node[i], m.term), m.from)
           a == AppendNewEntries(n, m.entries)
           c == [a EXCEPT !.commit = CommitAfter(a, m)]
           stale == AppendReply(i, m, node[i].term, FALSE, 0, 0)
           no  == AppendReply(i, m, n.term, FALSE, ConflictHint(n, m.prevIndex), 0)
           yes == AppendReply(i, m, a.term, TRUE, 0, MatchIndex(m))
<1>1. Stable(V, node[i]) /\ m.term \in Nat
  BY Zenon DEF VotersStay, Wellformed, Received
<1>2. LogOk(V, m.entries) /\ m.prevIndex \in Nat /\ m.commit \in Nat
  BY Zenon DEF VotersStay, StableMsg, Received
<1>3. \/ Take(i, {m}, Step(node[i], stale))
      \/ ~LogMatches(n, m.prevIndex, m.prevTerm) /\ Take(i, {m}, Step(n, no))
      \/ Take(i, {m}, Step(c, yes))
  BY Zenon DEF HandleAppendEntries
<1>4. Stable(V, n)
  BY <1>1, ObserveTermStable, AcceptLeaderStable, Zenon
<1> HIDE DEF n
<1>5. Stable(V, a)
  BY <1>2, <1>4, AppendNewEntriesStable, Zenon
<1> HIDE DEF a
<1>6. Stable(V, c) /\ MatchIndex(m) \in Nat
  BY <1>2, <1>5, MatchIndexIs, CommitStable, Zenon
<1> HIDE DEF c
<1>7. CASE Take(i, {m}, Step(node[i], stale))
  BY <1>1, <1>7, RepliesStable, TakeQuiet, Zenon
<1>8. CASE ~LogMatches(n, m.prevIndex, m.prevTerm) /\ Take(i, {m}, Step(n, no))
  <2>1. ConflictHint(n, m.prevIndex) \in Nat
    BY <1>2, <1>4, <1>8, ConflictHintIs, Zenon DEF LogMatches
  <2>2. \A r \in no : StableMsg(V, r)
    BY <2>1, RepliesStable, Zenon
  <2> HIDE DEF no
  <2> QED  BY <1>4, <1>8, <2>2, TakeQuiet, Zenon
<1>9. CASE Take(i, {m}, Step(c, yes))
  <2>1. \A r \in yes : StableMsg(V, r)
    BY <1>6, RepliesStable, Zenon
  <2> HIDE DEF yes
  <2> QED  BY <1>6, <1>9, <2>1, TakeQuiet, Zenon
<1> QED  BY <1>3, <1>7, <1>8, <1>9, Zenon

\* A crash between truncation and append keeps the voters.
LEMMA CrashWhileAppendingKeeps ==
  ASSUME NEW V, Wellformed, VotersStay(V), NEW i \in Server, Fixed(V, Bootstrap[i]),
         NEW m \in Received(i, "AppendEntries"), CrashWhileAppending(i, m)
  PROVE  VotersStay(V)'
<1> DEFINE n == AcceptLeader(ObserveTerm(node[i], m.term), m.from)
           t == TruncateConflict(n, NewEntries(n, m.entries))
           r == Recovered(i, t.term, t.votedFor, t.log, t.snap)
<1>1. Stable(V, node[i]) /\ m.term \in Nat
  BY Zenon DEF VotersStay, Wellformed, Received
<1>2. Take(i, {m}, Step(r, {}))
  BY Zenon DEF CrashWhileAppending
<1>3. Stable(V, n)
  BY <1>1, ObserveTermStable, AcceptLeaderStable, Zenon
<1> HIDE DEF n
<1>4. Stable(V, t)
  BY <1>3, TruncateStable, Zenon
<1> HIDE DEF t
<1>5. Stable(V, r)
  BY <1>4, RecoveredStable, Zenon
<1> HIDE DEF r
<1> QED  BY <1>2, <1>5, TakeQuiet

\* A restart finds the same voters in log or snapshot (ConfigTracker::scan).
LEMMA RestartKeeps ==
  ASSUME NEW V, Wellformed, VotersStay(V), NEW i \in Server, Fixed(V, Bootstrap[i]), Restart(i)
  PROVE  VotersStay(V)'
<1> DEFINE n == node[i]
           r == Recovered(i, n.term, n.votedFor, n.log, n.snap)
<1>1. Take(i, {}, Step(r, {}))
  BY Zenon DEF Restart
<1>2. Stable(V, n)
  BY Zenon DEF VotersStay
<1>3. Stable(V, r)
  BY <1>2, RecoveredStable, Zenon
<1> HIDE DEF r
<1> QED  BY <1>1, <1>3, TakeQuiet

\* The tail of both success replies keeps the voters.
LEMMA AfterMatchKeeps ==
  ASSUME Counting,
         NEW V, Wellformed, VotersStay(V), NEW i \in Server, NEW m, NEW n, NEW p,
         Stable(V, n), AfterMatch(i, m, n, p)
  PROVE  VotersStay(V)'
<1> DEFINE s == KeepReplicating(i, AdvanceCommitIndex(i, n), p)
<1>1. Take(i, {m}, s)
  BY Zenon DEF AfterMatch
<1>2. StableStep(V, s)
  BY KeepReplicatingStable, Zenon
<1> HIDE DEF s
<1> QED  BY <1>1, <1>2, TakeStable, Zenon

\* handle_append_entries_response keeps the voters.
LEMMA HandleAppendEntriesResponseKeeps ==
  ASSUME Counting, NEW V, Wellformed, VotersStay(V), NEW i \in Server,
         NEW m \in Received(i, "AppendEntriesResponse"), HandleAppendEntriesResponse(i, m)
  PROVE  VotersStay(V)'
<1> DEFINE o == ObserveTerm(node[i], m.term)
           n == NoteLeadershipAck(node[i], m.from, m.seq)
           r == RecordMatch(n, m.from, m.matchIndex)
           b == BackOff(n, m.from, m.conflictIndex)
           s == ReplicateTo(i, b, m.from)
<1>1. Stable(V, node[i]) /\ m.term \in Nat
  BY Zenon DEF VotersStay, Wellformed, Received
<1>2. m.conflictIndex \in Nat /\ m.matchIndex \in Nat
  BY Zenon DEF VotersStay, StableMsg, Received
<1>3. \/ Take(i, {m}, Step(o, {}))
      \/ AfterMatch(i, m, r, m.from)
      \/ Take(i, {m}, s)
  BY Zenon DEF HandleAppendEntriesResponse
<1>4. Stable(V, o)
  BY <1>1, ObserveTermStable, Zenon
<1>5. Stable(V, n)
  BY <1>1, <1>2, BookkeepingStable, Zenon
<1> HIDE DEF o, n
<1>6. Stable(V, r) /\ Stable(V, b)
  BY <1>2, <1>5, BookkeepingStable, Zenon
<1> HIDE DEF r, b
<1>7. StableStep(V, s)
  BY <1>6, ReplicateStable, Zenon
<1> HIDE DEF s
<1>8. CASE Take(i, {m}, Step(o, {}))
  BY <1>4, <1>8, TakeQuiet
<1>9. CASE AfterMatch(i, m, r, m.from)
  BY <1>6, <1>9, AfterMatchKeeps, Zenon
<1>10. CASE Take(i, {m}, s)
  BY <1>7, <1>10, TakeStable, Zenon
<1> QED  BY <1>3, <1>8, <1>9, <1>10, Zenon

\* handle_install_snapshot keeps the voters.
LEMMA HandleInstallSnapshotKeeps ==
  ASSUME NEW V, Wellformed, VotersStay(V), NEW i \in Server,
         NEW m \in Received(i, "InstallSnapshot"), HandleInstallSnapshot(i, m)
  PROVE  VotersStay(V)'
<1> DEFINE n == AcceptLeader(ObserveTerm(node[i], m.term), m.from)
           a == InstallOver(n, m.snap)
<1>1. Stable(V, node[i]) /\ m.term \in Nat
  BY Zenon DEF VotersStay, Wellformed, Received
<1>2. SnapOk(V, m.snap)
  BY Zenon DEF VotersStay, StableMsg, Received
<1>3. \/ Take(i, {m}, Step(node[i], SnapshotReply(i, m, node[i].term)))
      \/ Take(i, {m}, Step(n, SnapshotReply(i, m, n.term)))
      \/ IsNews(n, m.snap) /\ Take(i, {m}, Step(a, SnapshotReply(i, m, n.term)))
  BY Zenon DEF HandleInstallSnapshot
<1>4. Stable(V, n)
  BY <1>1, ObserveTermStable, AcceptLeaderStable, Zenon
<1> HIDE DEF n
<1>5. CASE Take(i, {m}, Step(node[i], SnapshotReply(i, m, node[i].term)))
  BY <1>1, <1>5, RepliesStable, TakeQuiet, Zenon
<1>6. CASE Take(i, {m}, Step(n, SnapshotReply(i, m, n.term)))
  BY <1>4, <1>6, RepliesStable, TakeQuiet, Zenon
<1>7. CASE IsNews(n, m.snap) /\ Take(i, {m}, Step(a, SnapshotReply(i, m, n.term)))
  <2>1. Stable(V, a)
    BY <1>2, <1>4, <1>7, InstallStable, Zenon
  <2> HIDE DEF a
  <2> QED  BY <1>7, <2>1, RepliesStable, TakeQuiet, Zenon
<1> QED  BY <1>3, <1>5, <1>6, <1>7, Zenon

\* handle_install_snapshot_response keeps the voters.
LEMMA HandleInstallSnapshotResponseKeeps ==
  ASSUME Counting, NEW V, Wellformed, VotersStay(V), NEW i \in Server,
         NEW m \in Received(i, "InstallSnapshotResponse"), HandleInstallSnapshotResponse(i, m)
  PROVE  VotersStay(V)'
<1> DEFINE o == ObserveTerm(node[i], m.term)
           r == RecordMatch(node[i], m.from, node[i].snap.index)
<1>1. Stable(V, node[i]) /\ m.term \in Nat /\ node[i].snap.index \in Nat
  BY Zenon DEF VotersStay, Wellformed, Received, Stable, SnapOk
<1>2. Take(i, {m}, Step(o, {})) \/ AfterMatch(i, m, r, m.from)
  BY Zenon DEF HandleInstallSnapshotResponse
<1>3. Stable(V, o)
  BY <1>1, ObserveTermStable, Zenon
<1>4. Stable(V, r)
  BY <1>1, BookkeepingStable, Zenon
<1> HIDE DEF o, r
<1>5. CASE Take(i, {m}, Step(o, {}))
  BY <1>3, <1>5, TakeQuiet
<1>6. CASE AfterMatch(i, m, r, m.from)
  BY <1>4, <1>6, AfterMatchKeeps, Zenon
<1> QED  BY <1>2, <1>5, <1>6, Zenon

\* compact keeps the voters: the snapshot stores them.
LEMMA CompactKeeps ==
  ASSUME Counting, NEW V, Wellformed, VotersStay(V), NEW i \in Server, Compact(i)
  PROVE  VotersStay(V)'
<1> DEFINE n == node[i]
           snap == [index |-> n.commit, term |-> TermAt(n, n.commit),
                    config |-> ConfigAt(n, n.commit)]
           log == EntriesFrom(n, n.commit + 1)
           conf == OnCompact(n, n.commit)
           c == [n EXCEPT !.snap = snap, !.log = log, !.configs = conf]
<1>1. Stable(V, n)
  BY Zenon DEF VotersStay
<1>2. Take(i, {}, Step(c, {}))
  BY Zenon DEF Compact
<1> HIDE DEF n
<1>3. SnapOk(V, snap)
  BY <1>1, ConfigAtIsFixed, Zenon DEF SnapOk, Stable
<1>4. LogOk(V, log)
  BY <1>1, RestrictLog, Zenon DEF EntriesFrom, Stable
<1>5. ConfigsOk(V, conf)
  <2> DEFINE in == Restrict(n.configs.inLog, {k \in DOMAIN n.configs.inLog : k > n.commit})
  <2>1. conf = [base |-> ConfigAt(n, n.commit), baseIndex |-> n.commit, inLog |-> in]
    BY Zenon DEF OnCompact
  <2>2. Indices(DOMAIN in) /\ \A k \in DOMAIN in : Fixed(V, in[k])
    BY <1>1, IndicesSubset, Zenon DEF Stable, ConfigsOk, Restrict
  <2> HIDE DEF in
  <2> QED  BY <1>1, <2>1, <2>2, ConfigAtIsFixed DEF ConfigsOk
<1> HIDE DEF snap, log, conf
<1>6. /\ IsNode(c) /\ c.log = log /\ c.snap = snap /\ c.commit = n.commit
      /\ c.configs = conf /\ c.lead = n.lead
  BY <1>1, Zenon DEF Stable, IsNode, NodeFields
<1> HIDE DEF c
<1>7. Stable(V, c)
  BY <1>1, <1>3, <1>4, <1>5, <1>6, Zenon DEF Stable
<1> QED  BY <1>2, <1>7, TakeQuiet

\* propose keeps the voters.
LEMMA ProposeKeeps ==
  ASSUME Counting,
         NEW V, Wellformed, VotersStay(V), NEW i \in Server, NEW command, Propose(i, command)
  PROVE  VotersStay(V)'
<1> DEFINE a == AppendLog(node[i], "Command", command)
           adv == AdvanceCommitIndex(i, a)
           rep == ReplicateAll(i, adv.n)
<1>1. Take(i, {}, AndThen(adv, rep))
  BY Zenon DEF Propose
<1>2. Stable(V, a)
  BY AppendLogStable, Zenon DEF VotersStay
<1> HIDE DEF a
<1>3. StableStep(V, adv)
  BY <1>2, AdvanceStable, Zenon
<1> HIDE DEF adv
<1>4. StableStep(V, rep)
  BY <1>3, ReplicateStable, Zenon DEF StableStep
<1> HIDE DEF rep
<1> QED  BY <1>1, <1>3, <1>4, AndThenStable, TakeStable, Zenon

\* start_read keeps the voters.
LEMMA StartReadKeeps ==
  ASSUME NEW V, Wellformed, VotersStay(V), NEW i \in Server, StartRead(i)
  PROVE  VotersStay(V)'
<1> DEFINE n == [node[i] EXCEPT !.readSeq = @ + 1]
           index == Max({n.lead.termStart, n.commit})
           read == [id |-> n.readSeq, index |-> index, confirmSeq |-> ConfirmSeq(n),
                    acks |-> {i}]
           done == [id |-> n.readSeq, ok |-> TRUE, index |-> index]
           d == [n EXCEPT !.results = @ \cup {done}]
           w == [n EXCEPT !.lead.reads = @ \cup {read}]
           s == ReplicateAll(i, w)
<1>1. Stable(V, node[i])
  BY Zenon DEF VotersStay
<1>2. Take(i, {}, Step(d, {})) \/ Take(i, {}, s)
  BY Zenon DEF StartRead
<1>3. /\ IsNode(n) /\ n.log = node[i].log /\ n.snap = node[i].snap
      /\ n.commit = node[i].commit /\ n.configs = node[i].configs /\ n.lead = node[i].lead
  BY <1>1, Zenon DEF Stable, IsNode, NodeFields
<1> HIDE DEF n
<1>4. Stable(V, n)
  BY <1>1, <1>3, StableAlike, Zenon DEF Stable
<1> HIDE DEF read, done
<1>5. /\ IsNode(d) /\ d.log = n.log /\ d.snap = n.snap
      /\ d.commit = n.commit /\ d.configs = n.configs /\ d.lead = n.lead
  BY <1>4, Zenon DEF Stable, IsNode, NodeFields
<1>6. /\ IsNode(w) /\ w.log = n.log /\ w.snap = n.snap
      /\ w.commit = n.commit /\ w.configs = n.configs
  BY <1>4, Zenon DEF Stable, IsNode, NodeFields
<1>7. LeadOk(w.lead)
  BY <1>4, Zenon DEF Stable, IsNode, NodeFields, LeadOk
<1> HIDE DEF d, w
<1>8. Stable(V, d) /\ Stable(V, w)
  BY <1>4, <1>5, <1>6, <1>7, StableAlike, Zenon DEF Stable
<1>9. StableStep(V, s)
  BY <1>8, ReplicateStable, Zenon
<1> HIDE DEF s
<1>10. CASE Take(i, {}, Step(d, {}))
  BY <1>8, <1>10, TakeQuiet
<1>11. CASE Take(i, {}, s)
  BY <1>9, <1>11, TakeStable, Zenon
<1> QED  BY <1>2, <1>10, <1>11, Zenon

\* propose_add_learner changes the learners alone.
LEMMA ProposeAddLearnerKeeps ==
  ASSUME Counting,
         NEW V, Wellformed, VotersStay(V), NEW i \in Server, NEW p, ProposeAddLearner(i, p)
  PROVE  VotersStay(V)'
<1> DEFINE old == Active(node[i])
           config == [old EXCEPT !.learners = @ \cup {p}]
           s == AppendConfigEntry(i, node[i], config)
<1>1. Take(i, {}, s)
  BY Zenon DEF ProposeAddLearner
<1>2. Stable(V, node[i])
  BY Zenon DEF VotersStay
<1>3. Fixed(V, old)
  BY <1>2, ActiveIsFixed, Zenon
<1> HIDE DEF old
<1>4. Fixed(V, config)
  BY <1>3 DEF Fixed
<1> HIDE DEF config
<1>5. StableStep(V, s)
  BY <1>2, <1>4, AppendConfigEntryStable, Zenon
<1> HIDE DEF s
<1> QED  BY <1>1, <1>5, TakeStable, Zenon

-----------------------------------------------------------------------------
\* No step changes the voters.
LEMMA VotersStayNext ==
  ASSUME Counting, NEW V, \A i \in Server : Fixed(V, Bootstrap[i]), ConfTargets = {},
         Wellformed, VotersStay(V), Next
  PROVE  VotersStay(V)'
<1>1. PICK i \in Server :
        Event(i) \/ (\E c \in Command : Propose(i, c)) \/ Compact(i) \/ Crash(i)
  BY Zenon DEF Next
<1>2. CASE Event(i)
  <2>1. CASE \/ StartElection(i) \/ Heartbeat(i) \/ StartRead(i)
             \/ \E p \in LearnerTargets : ProposeAddLearner(i, p)
    BY <2>1, StartElectionKeeps, HeartbeatKeeps, StartReadKeeps, ProposeAddLearnerKeeps, Zenon
  <2>2. CASE \/ \E m \in Received(i, "RequestVote") : HandleRequestVote(i, m)
             \/ \E m \in Received(i, "RequestVoteResponse") : HandleRequestVoteResponse(i, m)
    BY <2>2, HandleRequestVoteKeeps, HandleRequestVoteResponseKeeps, Zenon
  <2>3. CASE \/ \E m \in Received(i, "AppendEntries") : HandleAppendEntries(i, m)
             \/ \E m \in Received(i, "AppendEntriesResponse") : HandleAppendEntriesResponse(i, m)
    BY <2>3, HandleAppendEntriesKeeps, HandleAppendEntriesResponseKeeps, Zenon
  <2>4. CASE \/ \E m \in Received(i, "InstallSnapshot") : HandleInstallSnapshot(i, m)
             \/ \E m \in Received(i, "InstallSnapshotResponse") :
                  HandleInstallSnapshotResponse(i, m)
    BY <2>4, HandleInstallSnapshotKeeps, HandleInstallSnapshotResponseKeeps, Zenon
  <2> QED  BY <1>2, <2>1, <2>2, <2>3, <2>4, Zenon DEF Event
<1>3. CASE (\E c \in Command : Propose(i, c)) \/ Compact(i)
  BY <1>3, ProposeKeeps, CompactKeeps, Zenon
<1>4. CASE Crash(i)
  BY <1>4, CrashWhileAppendingKeeps, RestartKeeps, Zenon DEF Crash
<1> QED  BY <1>1, <1>2, <1>3, <1>4, Zenon

\* Every node starts with the voters V (with_bootstrap).
LEMMA VotersStayInit ==
  ASSUME NEW V, \A i \in Server : Fixed(V, Bootstrap[i]), Init
  PROVE  VotersStay(V)
<1> SUFFICES ASSUME NEW i \in Server PROVE Stable(V, node[i])
  BY Zenon DEF VotersStay, Init
<1> DEFINE c == ScanConfigs(i, EmptyMap, NoSnapshot)
<1>1. node[i] = Recovered(i, 0, Nil, EmptyMap, NoSnapshot)
  BY Zenon DEF Init
<1>2. LogOk(V, EmptyMap) /\ SnapOk(V, NoSnapshot)
  BY Zenon DEF LogOk, SnapOk, Indices, EmptyMap, NoSnapshot
<1>3. ConfigsOk(V, c)
  BY Zenon DEF ScanConfigs, ConfigsOk, Indices, EmptyMap, NoSnapshot
<1>4. LeadOk(NoLeaderState)
  BY Zenon DEF LeadOk, NoLeaderState, EmptyMap
<1>5. NoSnapshot.index = 0
  BY Zenon DEF NoSnapshot
<1> HIDE DEF c
<1>6. /\ node[i].log = EmptyMap /\ node[i].snap = NoSnapshot
      /\ node[i].commit = 0 /\ node[i].configs = c /\ node[i].lead = NoLeaderState
  BY <1>1, <1>5 DEF Recovered, c
<1>7. IsNode(node[i])
  BY <1>1 DEF Recovered, IsNode, NodeFields
<1>8. node[i].commit \in Nat
  BY <1>6
<1> QED  BY <1>2, <1>3, <1>4, <1>6, <1>7, <1>8, Zenon DEF Stable

-----------------------------------------------------------------------------
(* Elections.                                                              *)

\* V decides every election.
Decides(V) == \A i \in Server : Active(node[i]).voters = V /\ Active(node[i]).oldVoters = {}

(* So a term has one leader, since a server has one ballot in it.          *)
LEMMA CarriedIsUnique ==
  ASSUME Counting, NEW V \in SUBSET Server, ElectionInv(V), NEW i, NEW j, NEW t,
         Carried(V, i, t), Carried(V, j, t)
  PROVE  i = j
<1>1. PICK P \in SUBSET Server : IsMajority(V, P) /\ \A v \in P : <<v, t, i>> \in ballots
  BY Zenon DEF Carried
<1>2. PICK Q \in SUBSET Server : IsMajority(V, Q) /\ \A v \in Q : <<v, t, j>> \in ballots
  BY Zenon DEF Carried
<1>3. PICK v : v \in P /\ v \in Q
  BY <1>1, <1>2, MajoritiesMeet, Zenon
<1>4. <<v, t, i>> \in ballots /\ <<v, t, j>> \in ballots
  BY <1>1, <1>2, <1>3, Zenon
<1>5. <<v, t, i>>[3] = <<v, t, j>>[3]
  BY <1>4, Zenon DEF ElectionInv, BallotsOk
<1> QED
  BY <1>5, Zenon

\* Two leaders of a term would share a voter, and it votes once.
LEMMA InvGivesSafety ==
  ASSUME Counting, NEW V \in SUBSET Server, ElectionInv(V)
  PROVE  ElectionSafety
BY CarriedIsUnique, Zenon DEF ElectionInv, LeadersOk, ElectionSafety

\* An election that is won stays won.
LEMMA CarriedLasts ==
  ASSUME ballots \subseteq ballots', NEW V, NEW i, NEW t, Carried(V, i, t)
  PROVE  \E Q \in SUBSET Server : IsMajority(V, Q) /\ \A v \in Q : <<v, t, i>> \in ballots'
BY Zenon DEF Carried

(* A vote is never taken back (save_hard_state before every reply).        *)
LEMMA BallotsStep ==
  ASSUME Wellformed, Next, BallotsOk, NEW i \in Server, NEW out, Moved(i, out),
         IsNode(node'[i])
  PROVE  BallotsOk'
<1> DEFINE new == <<i, node'[i].term, node'[i].votedFor>>
<1>1. \A b \in ballots' : b \in ballots \/ (b = new /\ node'[i].votedFor # Nil)
  BY HistoriesGrow, Zenon
<1>2. \A j \in Server : /\ node[j].term \in Nat /\ node'[j].term \in Nat
                        /\ node'[j].term >= node[j].term
                        /\ node'[j].term = node[j].term => node[j].votedFor \in {Nil, node'[j].votedFor}
  <2>1. \A j \in Server : node[j].term \in Nat
    BY Zenon DEF Wellformed, IsNode
  <2>2. \A j \in Server : node'[j].term \in Nat
    BY WellformedNext, Zenon DEF Wellformed, IsNode
  <2> QED
    BY <2>1, <2>2, HardStateStep, Zenon
<1>3. ASSUME NEW b \in ballots
      PROVE  /\ b = <<b[1], b[2], b[3]>> /\ b[1] \in Server /\ b[2] \in Nat /\ b[3] # Nil
             /\ b[2] <= node'[b[1]].term
             /\ b[2] = node'[b[1]].term => node'[b[1]].votedFor = b[3]
  <2>1. /\ b = <<b[1], b[2], b[3]>> /\ b[1] \in Server /\ b[2] \in Nat /\ b[3] # Nil
        /\ b[2] <= node[b[1]].term
        /\ b[2] = node[b[1]].term => node[b[1]].votedFor = b[3]
    BY Zenon DEF BallotsOk
  <2> QED
    BY <1>2, <2>1
<1>4. /\ new = <<new[1], new[2], new[3]>> /\ new[1] = i /\ new[2] = node'[i].term
      /\ new[3] = node'[i].votedFor
  BY Zenon
<1> HIDE DEF new
<1>5. \A b \in ballots' :
        /\ b = <<b[1], b[2], b[3]>> /\ b[1] \in Server /\ b[2] \in Nat /\ b[3] # Nil
        /\ b[2] <= node'[b[1]].term
        /\ b[2] = node'[b[1]].term => node'[b[1]].votedFor = b[3]
  BY <1>1, <1>2, <1>3, <1>4
<1>6. ASSUME NEW a \in ballots', NEW b \in ballots', a[1] = b[1], a[2] = b[2]
      PROVE  a[3] = b[3]
  <2>1. CASE a \in ballots /\ b \in ballots
    BY <1>6, <2>1, Zenon DEF BallotsOk
  <2>2. CASE a = new \/ b = new
    BY <1>4, <1>5, <1>6, <2>2, Zenon
  <2> QED
    BY <1>1, <2>1, <2>2, Zenon
<1> QED
  BY <1>5, <1>6, Zenon DEF BallotsOk

(* A granted vote that is sent has been cast (handle_request_vote), and    *)
(* only votes that have been sent are counted.                             *)
LEMMA CountsStep ==
  ASSUME Wellformed, BallotsOk, CountsOk, NEW i \in Server, ElectionStep(i)
  PROVE  CountsOk'
<1>1. PICK out : Moved(i, out)
  BY ElectionStepMoves, Zenon
<1>2. ballots \subseteq ballots' /\ \A j \in Server \ {i} : node'[j] = node[j]
  BY <1>1, HistoriesGrow, MovedAlone, Zenon
<1>3. node'[i].votedFor # Nil => <<i, node'[i].term, node'[i].votedFor>> \in ballots'
  BY <1>1, HistoriesGrow, Zenon
<1>4. ASSUME NEW m \in msgs', m.type = "RequestVoteResponse", m.granted, m.to # Nil
      PROVE  <<m.from, m.term, m.to>> \in ballots'
  <2>1. CASE m \in msgs
    BY <1>2, <1>4, <2>1, Zenon DEF CountsOk
  <2>2. ASSUME NEW sent, NoGrants(sent), Moved(i, sent)
        PROVE  m \in msgs
    BY <1>4, <2>2, MovedAlone, Zenon DEF NoGrants
  <2>3. ASSUME NEW c, Votes(i, c)
        PROVE  m \in msgs \/ <<m.from, m.term, m.to>> \in ballots'
    <3>1. PICK sent : /\ Moved(i, sent)
                      /\ \A x \in sent : x.term = node'[i].term /\ x.from = i /\ x.to = c
      BY <2>3, Zenon DEF Votes
    <3>2. m \in msgs \/ m \in sent
      BY <3>1, MovedAlone, Zenon
    <3>3. node'[i].votedFor = c
      BY <2>3, Zenon DEF Votes
    <3> QED
      BY <1>3, <1>4, <3>1, <3>2, <3>3, Zenon
  <2>4. CASE Stays(i) \/ Enters(i) \/ Campaigns(i) \/ \E x : Counts(i, x)
    BY <2>1, <2>2, <2>4, Zenon DEF Stays, Enters, Campaigns, Counts
  <2> QED
    BY <2>1, <2>3, <2>4, Zenon DEF ElectionStep
<1>5. ASSUME NEW j \in Server, node'[j].role = Candidate, NEW v \in node'[j].votes
      PROVE  <<v, node'[j].term, j>> \in ballots'
  <2>1. CASE j # i
    BY <1>2, <1>5, <2>1, Zenon DEF CountsOk
  <2>2. CASE j = i /\ Stays(i)
    <3>1. node[i].role = Candidate /\ node'[i].term = node[i].term /\ v \in node[i].votes
      BY <1>5, <2>2, Zenon DEF Stays, SameHardState, Candidate, Follower
    <3> QED
      BY <1>2, <2>2, <3>1, Zenon DEF CountsOk
  <2>3. CASE j = i /\ Enters(i)
    BY <1>5, <2>3, Zenon DEF Enters, Candidate, Follower
  <2>4. CASE j = i /\ Campaigns(i)
    <3>1. v = i /\ node'[i].votedFor = i
      BY <1>5, <2>4, Zenon DEF Campaigns, Candidate, Leader, Follower
    <3> QED
      BY <1>3, <2>4, <3>1, NilAssumption, Zenon
  <2>5. ASSUME j = i, NEW c, Votes(i, c)
        PROVE  <<v, node'[j].term, j>> \in ballots'
    <3>1. node[i].role = Candidate /\ node'[i].term = node[i].term /\ v \in node[i].votes
      BY <1>5, <2>5, Zenon DEF Votes, Candidate, Follower
    <3> QED
      BY <1>2, <2>5, <3>1, Zenon DEF CountsOk
  <2>6. ASSUME j = i, NEW m \in Received(i, "RequestVoteResponse"), Counts(i, m)
        PROVE  <<v, node'[j].term, j>> \in ballots'
    <3>1. /\ node[i].role = Candidate /\ m.term = node[i].term /\ node'[i].term = node[i].term
          /\ v \in node[i].votes \/ (m.granted /\ v = m.from)
      BY <1>5, <2>6, Zenon DEF Counts, Candidate, Leader, Follower
    <3>2. m \in msgs /\ m.to = i /\ m.type = "RequestVoteResponse" /\ m.to # Nil
      BY NilAssumption, Zenon DEF Received
    <3> QED
      BY <1>2, <2>6, <3>1, <3>2, Zenon DEF CountsOk
  <2> QED
    BY <2>1, <2>2, <2>3, <2>4, <2>5, <2>6, Zenon DEF ElectionStep
<1> QED
  BY <1>4, <1>5, Zenon DEF CountsOk

(* A campaign is won with a majority of V, all of whom have voted for the  *)
(* candidate (start_election, handle_request_vote_response).               *)
LEMMA WinnerIsCarried ==
  ASSUME NEW V, Wellformed, Decides(V), BallotsOk, CountsOk, NEW i \in Server,
         ElectionStep(i), node'[i].role = Leader, ballots \subseteq ballots',
         node'[i].votedFor # Nil => <<i, node'[i].term, node'[i].votedFor>> \in ballots'
  PROVE  \/ node[i].role = Leader /\ node'[i].term = node[i].term
         \/ \E Q \in SUBSET Server : /\ IsMajority(V, Q)
                                     /\ \A v \in Q : <<v, node'[i].term, i>> \in ballots'
<1>1. CASE Stays(i)
  BY <1>1, Zenon DEF Stays, SameHardState, Leader, Follower
<1>2. CASE Enters(i)
  BY <1>2, Zenon DEF Enters, Leader, Follower
<1>3. CASE Campaigns(i)
  <2>1. node'[i].votedFor = i /\ HasQuorum(Active(node[i]), {i})
    BY <1>3, Zenon DEF Campaigns, Candidate, Leader
  <2>2. IsMajority(V, {i})
    BY <2>1, Zenon DEF HasQuorum, Decides
  <2>3. <<i, node'[i].term, i>> \in ballots'
    BY <2>1, NilAssumption, Zenon
  <2> QED
    BY <2>2, <2>3
<1>4. ASSUME NEW c, Votes(i, c)
      PROVE  node[i].role = Leader /\ node'[i].term = node[i].term
  BY <1>4, Zenon DEF Votes, Leader, Follower
<1>5. ASSUME NEW m \in Received(i, "RequestVoteResponse"), Counts(i, m)
      PROVE  \E Q \in SUBSET Server : /\ IsMajority(V, Q)
                                      /\ \A v \in Q : <<v, node'[i].term, i>> \in ballots'
  <2>1. PICK Q : /\ Q = IF m.granted THEN node[i].votes \cup {m.from} ELSE node[i].votes
                 /\ HasQuorum(Active(node[i]), Q)
    BY <1>5, Zenon DEF Counts, Candidate, Leader
  <2>2. node[i].role = Candidate /\ m.term = node[i].term /\ node'[i].term = node[i].term
    BY <1>5, Zenon DEF Counts
  <2>3. m \in msgs /\ m.to = i /\ m.type = "RequestVoteResponse" /\ m.to # Nil
    BY NilAssumption, Zenon DEF Received
  <2>4. \A v \in Q : <<v, node[i].term, i>> \in ballots
    BY <2>1, <2>2, <2>3, Zenon DEF CountsOk
  <2>5. \A v \in Q : v \in Server
    BY <2>4, Zenon DEF BallotsOk
  <2>6. IsMajority(V, Q)
    BY <2>1, Zenon DEF HasQuorum, Decides
  <2> QED
    BY <2>2, <2>4, <2>5, <2>6, Zenon
<1> QED
  BY <1>1, <1>2, <1>3, <1>4, <1>5, Zenon DEF ElectionStep

\* Who leads after a step has been elected.
LEMMA LeadersStep ==
  ASSUME NEW V, Wellformed, Decides(V), ElectionInv(V), NEW i \in Server, ElectionStep(i)
  PROVE  LeadersOk(V)'
<1> DEFINE Carried2(j, t) == \E Q \in SUBSET Server :
                               IsMajority(V, Q) /\ \A v \in Q : <<v, t, j>> \in ballots'
<1>1. PICK out : Moved(i, out)
  BY ElectionStepMoves, Zenon
<1>2. /\ ballots \subseteq ballots' /\ \A j \in Server \ {i} : node'[j] = node[j]
      /\ node'[i].votedFor # Nil => <<i, node'[i].term, node'[i].votedFor>> \in ballots'
      /\ \A e \in elected' \ elected : e = <<i, node'[i].term>> /\ node'[i].role = Leader
  BY <1>1, HistoriesGrow, MovedAlone, Zenon
<1>3. \A j, t : Carried(V, j, t) => Carried2(j, t)
  BY <1>2, CarriedLasts, Zenon
<1>4. node'[i].role = Leader => Carried2(i, node'[i].term)
  BY <1>2, <1>3, WinnerIsCarried, Zenon DEF ElectionInv, LeadersOk
<1> HIDE DEF Carried2
<1>5. \A j \in Server : node'[j].role = Leader => Carried2(j, node'[j].term)
  BY <1>2, <1>3, <1>4, Zenon DEF ElectionInv, LeadersOk
<1>6. \A e \in elected' : Carried2(e[1], e[2])
  BY <1>2, <1>3, <1>4 DEF ElectionInv, LeadersOk
<1> QED
  BY <1>5, <1>6, Zenon DEF LeadersOk, Carried, Carried2

\* The three parts of the election invariant, for a step.
LEMMA ElectionInvStep ==
  ASSUME NEW V, Wellformed, Decides(V), ElectionInv(V), Next
  PROVE  ElectionInv(V)'
<1>1. PICK i \in Server : ElectionStep(i)
  BY NextIsElectionStep, Zenon
<1>2. PICK out : Moved(i, out)
  BY <1>1, ElectionStepMoves, Zenon
<1>3. BallotsOk'
  BY <1>1, <1>2, BallotsStep, ElectionStepMoves, Zenon DEF ElectionInv
<1>4. CountsOk'
  BY <1>1, CountsStep, Zenon DEF ElectionInv
<1>5. LeadersOk(V)'
  BY <1>1, LeadersStep, Zenon
<1> QED
  BY <1>3, <1>4, <1>5, Zenon DEF ElectionInv

\* And at the start, when nobody has voted.
LEMMA ElectionInvInit ==
  ASSUME NEW V, Init
  PROVE  ElectionInv(V)
<1>1. ballots = {} /\ msgs = {} /\ elected = {} /\ \A i \in Server : node[i].role = Follower
  BY Zenon DEF Init, Recovered
<1> QED
  BY <1>1, Zenon DEF ElectionInv, BallotsOk, CountsOk, LeadersOk, Follower, Candidate, Leader

-----------------------------------------------------------------------------
(* While the voters stay, they decide every election.                      *)
LEMMA StayingVotersDecide ==
  ASSUME Counting, NEW V, VotersStay(V)
  PROVE  Decides(V)
<1>1. ASSUME NEW i \in Server
      PROVE  Active(node[i]).voters = V /\ Active(node[i]).oldVoters = {}
  <2>1. Fixed(V, Active(node[i]))
    BY ActiveIsFixed, Zenon DEF VotersStay
  <2> QED  BY <2>1 DEF Fixed
<1> QED  BY <1>1, Zenon DEF Decides
=============================================================================
