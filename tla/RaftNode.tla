------------------------------ MODULE RaftNode ------------------------------
(***************************************************************************)
(* A cluster of brokkr-raft nodes (crates/brokkr-raft/src/node.rs).        *)
(*                                                                         *)
(* `RaftNode` is a single-owner state machine whose methods return the     *)
(* messages to send.  One record per server holds its state; the private   *)
(* methods are operators from records to records, and each public method   *)
(* (a tick, a handler, a client call) is one action.                       *)
(*                                                                         *)
(* The network (driver.rs `dispatch` over a tonic channel) delivers a      *)
(* request or a reply late, in any order, or never.  With Redelivery it    *)
(* also delivers again what it has delivered: tonic does not, but the      *)
(* heartbeats keep sending the same request.                               *)
(***************************************************************************)
EXTENDS RaftConfig, FiniteSetsExt, Functions

CONSTANTS
  Nil,            \* no node: an empty votedFor or leaderId
  Command,        \* the client commands
  Bootstrap,      \* [Server -> ClusterConfig]: `peers` plus self, or new_learner
  ConfTargets,    \* the voter sets an operator may ask for
  LearnerTargets, \* the nodes an operator may add as learners
  CatchUpMargin,  \* Config::catch_up_margin
  LateReplies,    \* may a reply reach a node that has left the request's term?
  Redelivery      \* may a message be delivered twice?

\* Bounds of the model, not of the code: MayCampaign holds <<i, t>> when
\* server i may run for leader of term t, Server \X Nat being no bound at all;
\* MaxHeartbeats = Nil is none either.
CONSTANTS MayCampaign, MaxIndex, MaxHeartbeats, MaxRounds, MaxRestarts,
          MaxCompactions, MaxReads, MaxWrites, MaxConfChanges

ASSUME NilAssumption == Nil \notin Server

ASSUME BootstrapAssumption ==
  /\ Bootstrap \in [Server -> ClusterConfig]
  /\ \A i \in Server : Bootstrap[i].voters # {}

ASSUME BoundsAssumption ==
  /\ MaxHeartbeats \in Nat \cup {Nil}
  /\ {MaxIndex, MaxRounds, MaxRestarts, MaxCompactions, MaxReads,
      MaxWrites, MaxConfChanges, CatchUpMargin} \subseteq Nat
  /\ \A c \in MayCampaign : c[1] \in Server /\ c[2] \in Nat
  /\ ConfTargets \subseteq (SUBSET Server) \ {{}}
  /\ LearnerTargets \subseteq Server
  /\ LateReplies \in BOOLEAN /\ Redelivery \in BOOLEAN

VARIABLES
  node,       \* node[i]: the state of server i
  msgs,       \* the requests and replies in the network
  ballots,    \* history: <<i, t, c>> when server i voted for c in term t
  elected,    \* history: <<i, t>> when server i became leader of term t
  chosen,     \* history: the entry first committed at each index, by anyone
  readFloor,  \* history: for read <<i, id>>, the last chosen index when it began
  used        \* how much of each bounded kind of event has happened

vars == <<node, msgs, ballots, elected, chosen, readFloor, used>>

-----------------------------------------------------------------------------
(* Data.  The log table is keyed by the 1-based index, so a log is a       *)
(* function from the indices it holds to entries; compaction removes a     *)
(* prefix and truncation a suffix.  Index 0 with term 0 stands for "no     *)
(* snapshot" and for the position before the first entry.                  *)

Follower  == "Follower"
Candidate == "Candidate"
Leader    == "Leader"

Entry(t, k, d) == [term |-> t, kind |-> k, data |-> d]

EmptyMap == [x \in {} |-> 0]

\* The map f with v at k, and with all of g's entries at the keys f lacks.
Put(f, k, v) == [x \in DOMAIN f \cup {k} |-> IF x = k THEN v ELSE f[x]]
Over(f, g)   == [x \in DOMAIN f \cup DOMAIN g |-> IF x \in DOMAIN f THEN f[x] ELSE g[x]]

NoSnapshot == [index |-> 0, term |-> 0, config |-> Nil]

\* LeaderState: what a leader alone keeps, dropped when it steps down.
NoLeaderState ==
  [next |-> EmptyMap, match |-> EmptyMap, aeSeq |-> 0, termStart |-> 0,
   reads |-> {}]

\* ConfigTracker::new followed by the start-up scan of the log: the
\* configuration a node (re)starts with.
ScanConfigs(i, log, snap) ==
  [base      |-> IF snap.config = Nil THEN Bootstrap[i] ELSE snap.config,
   baseIndex |-> snap.index,
   inLog     |-> [k \in {j \in DOMAIN log : log[j].kind = "Config"} |-> log[k].data]]

\* Mutant of Recovered: the vote is not durable.
RecoveredWithoutVote(i, term, votedFor, log, snap) ==
  [role     |-> Follower,   term     |-> term,       votedFor |-> Nil,
   log      |-> log,        snap     |-> snap,       commit   |-> snap.index,
   configs  |-> ScanConfigs(i, log, snap),
   leaderId |-> Nil,        contact  |-> FALSE,      votes    |-> {},
   lead     |-> NoLeaderState, readSeq |-> 0,        results  |-> {}]

\* with_bootstrap: the node a process builds from what is on disk.
Recovered(i, term, votedFor, log, snap) ==
  [role     |-> Follower,   term     |-> term,       votedFor |-> votedFor,
   log      |-> log,        snap     |-> snap,       commit   |-> snap.index,
   configs  |-> ScanConfigs(i, log, snap),
   leaderId |-> Nil,        contact  |-> FALSE,      votes    |-> {},
   lead     |-> NoLeaderState, readSeq |-> 0,        results  |-> {}]

-----------------------------------------------------------------------------
(* ConfigTracker: the latest configuration in the log is in force.         *)

Active(n) ==
  IF DOMAIN n.configs.inLog = {} THEN n.configs.base
  ELSE n.configs.inLog[Max(DOMAIN n.configs.inLog)]

LatestConfigIndex(n) ==
  IF DOMAIN n.configs.inLog = {} THEN n.configs.baseIndex
  ELSE Max(DOMAIN n.configs.inLog)

ConfigAt(n, index) ==
  LET upTo == {k \in DOMAIN n.configs.inLog : k <= index}
  IN  IF upTo = {} THEN n.configs.base ELSE n.configs.inLog[Max(upTo)]

\* on_append for every configuration entry of `entries`, in index order.
OnAppend(configs, entries) ==
  LET new == {k \in DOMAIN entries : entries[k].kind = "Config"}
      old == {k \in DOMAIN configs.inLog : \A j \in new : k < j}
  IN  [configs EXCEPT !.inLog = [k \in old \cup new |->
         IF k \in new THEN entries[k].data ELSE configs.inLog[k]]]

\* Mutant of OnTruncate: configurations outlive their entries.
OnTruncateKeeping(configs, from) == configs

OnTruncate(configs, from) ==
  [configs EXCEPT !.inLog = Restrict(@, {k \in DOMAIN @ : k < from})]

OnCompact(n, to) ==
  [base |-> ConfigAt(n, to), baseIndex |-> to,
   inLog |-> Restrict(n.configs.inLog, {k \in DOMAIN n.configs.inLog : k > to})]

OnInstallSnapshot(configs, snap, logWiped) ==
  [base |-> snap.config, baseIndex |-> snap.index,
   inLog |-> Restrict(configs.inLog,
               IF logWiped THEN {} ELSE {k \in DOMAIN configs.inLog : k > snap.index})]

IsVoter(i, n)            == i \in VotersOf(Active(n))
VoteTargets(i, n)        == VotersOf(Active(n)) \ {i}
ReplicationTargets(i, n) == MembersOf(Active(n)) \ {i}

-----------------------------------------------------------------------------
(* RaftLog: the durable log, with the snapshot standing in for its prefix. *)

LastIndex(n) == IF DOMAIN n.log = {} THEN n.snap.index ELSE Max(DOMAIN n.log)
LastTerm(n)  == IF DOMAIN n.log = {} THEN n.snap.term ELSE n.log[Max(DOMAIN n.log)].term

\* term_at: -1 stands for None, a term that was compacted away or is not there.
TermAt(n, index) ==
  IF index \in DOMAIN n.log THEN n.log[index].term
  ELSE IF index = n.snap.index THEN n.snap.term ELSE -1

EntriesFrom(n, from) == Restrict(n.log, {k \in DOMAIN n.log : k >= from})

AppendLog(n, kind, data) ==
  [n EXCEPT !.log = Put(@, LastIndex(n) + 1, Entry(n.term, kind, data))]

-----------------------------------------------------------------------------
(* Terms and roles.                                                        *)

\* step_down_to_follower: reads still awaiting confirmation fail.
StepDown(n) ==
  [n EXCEPT !.role    = Follower,
            !.votes   = {},
            !.lead    = NoLeaderState,
            !.results = @ \cup {[id |-> r.id, ok |-> FALSE, index |-> 0] :
                                  r \in n.lead.reads}]

\* observe_term: the hard state is saved before anything else happens.
ObserveTerm(n, term) ==
  IF term > n.term
  THEN [StepDown(n) EXCEPT !.term = term, !.votedFor = Nil, !.leaderId = Nil]
  ELSE n

\* leader_is_current: a leader, or one heard from a leader within the
\* minimum election timeout.
LeaderIsCurrent(n) == n.role = Leader \/ n.contact

\* One vote per term, repeated to the same candidate when asked again.
MayVoteFor(n, candidate) == n.votedFor \in {Nil, candidate}

\* Mutant of UpToDate: the longer log wins, whatever its last term.
LongEnough(n, lastTerm, lastIndex) == lastIndex >= LastIndex(n)

UpToDate(n, lastTerm, lastIndex) ==
  \/ lastTerm > LastTerm(n)
  \/ lastTerm = LastTerm(n) /\ lastIndex >= LastIndex(n)

-----------------------------------------------------------------------------
(* Replication.  `seq` is only ever compared by pending reads, and only    *)
(* with the counter's value when the read began, so one stamp per round of *)
(* messages tells apart all that the code's one stamp per message does.    *)
(* It stands still when nothing will compare it again.                     *)

NextRound(n) ==
  IF used.reads = MaxReads /\ n.lead.reads = {} THEN n
  ELSE [n EXCEPT !.lead.aeSeq = @ + 1]

NextFor(n, peer) ==
  IF peer \in DOMAIN n.lead.next THEN n.lead.next[peer] ELSE 1

AppendEntriesFor(i, n, peer) ==
  LET next == NextFor(n, peer)
  IN  IF next <= n.snap.index
      THEN [type |-> "InstallSnapshot", from |-> i, to |-> peer,
            term |-> n.term, snap |-> n.snap]
      ELSE [type |-> "AppendEntries", from |-> i, to |-> peer, term |-> n.term,
            prevIndex |-> next - 1,
            prevTerm  |-> IF next = 1 THEN 0 ELSE TermAt(n, next - 1),
            entries   |-> EntriesFrom(n, next),
            commit    |-> n.commit,
            seq       |-> n.lead.aeSeq]

\* A step of the node: its new state and the messages it wants sent.
Step(n, out) == [n |-> n, out |-> out]

ReplicateAll(i, n) ==
  IF n.role # Leader THEN Step(n, {})
  ELSE LET r == NextRound(n)
       IN  Step(r, {AppendEntriesFor(i, r, p) : p \in ReplicationTargets(i, r)})

ReplicateTo(i, n, peer) ==
  IF n.role # Leader THEN Step(n, {})
  ELSE LET r == NextRound(n) IN Step(r, {AppendEntriesFor(i, r, peer)})

\* Runs `Then`'s step after step s, sending what both send.
AndThen(s, t) == Step(t.n, s.out \cup t.out)

\* refresh_leader_state: track exactly the members of the active configuration.
RefreshLeaderState(i, n) ==
  LET targets == ReplicationTargets(i, n)
      Keep(f, new) == [p \in targets |-> IF p \in DOMAIN f THEN f[p] ELSE new]
  IN  [n EXCEPT !.lead.next  = Keep(@, LastIndex(n) + 1),
                !.lead.match = Keep(@, 0)]

-----------------------------------------------------------------------------
(* Commitment (the Figure-8 rule) and what a moved commit index triggers.  *)

Acks(i, n, index) ==
  {i} \cup {p \in DOMAIN n.lead.match : n.lead.match[p] >= index}

CommitPoint(i, n) ==
  LET able == {k \in DOMAIN n.log : /\ k > n.commit
                                    /\ n.log[k].term = n.term
                                    /\ HasQuorum(Active(n), Acks(i, n, k))}
  IN  IF able = {} THEN n.commit ELSE Max(able)

\* The tail of after_commit_config_actions: a committed configuration that
\* leaves the leader out ends its leadership.
LeaveIfRemoved(i, n) ==
  IF LatestConfigIndex(n) <= n.commit /\ ~IsJoint(Active(n))
     /\ i \notin Active(n).voters
  THEN [StepDown(n) EXCEPT !.leaderId = Nil]
  ELSE n

CommitUpTo(i, n) ==
  IF CommitPoint(i, n) = n.commit THEN n
  ELSE LeaveIfRemoved(i, [n EXCEPT !.commit = CommitPoint(i, n)])

\* append_config_entry.  Its own entry is held by this node alone, so only a
\* configuration without other voters commits at once, never a joint one:
\* the recursion into after_commit_config_actions ends here.
AppendConfigEntry(i, n, config) ==
  LET a == AppendLog(n, "Config", config)
      b == [a EXCEPT !.configs = OnAppend(@, EntriesFrom(a, LastIndex(a)))]
  IN  ReplicateAll(i, CommitUpTo(i, RefreshLeaderState(i, b)))

AdvanceCommitIndex(i, n) ==
  LET c == [n EXCEPT !.commit = CommitPoint(i, n)]
  IN  IF c.commit > n.commit /\ LatestConfigIndex(c) <= c.commit /\ IsJoint(Active(c))
      THEN AppendConfigEntry(i, c, FinalConfig(Active(c)))
      ELSE Step(CommitUpTo(i, n), {})

\* become_leader: next indices are taken before the no-op is appended.
BecomeLeader(i, n) ==
  LET peers == ReplicationTargets(i, n)
      lead  == [next      |-> [p \in peers |-> LastIndex(n) + 1],
                match     |-> [p \in peers |-> 0],
                aeSeq     |-> 0,
                termStart |-> LastIndex(n) + 1,
                reads     |-> {}]
      l     == [AppendLog(n, "Noop", Nil) EXCEPT
                  !.role = Leader, !.votes = {}, !.lead = lead, !.leaderId = i]
      adv   == AdvanceCommitIndex(i, l)
  IN  AndThen(adv, ReplicateAll(i, adv.n))

-----------------------------------------------------------------------------
(* What every action has in common.                                        *)

MaxChosen == IF DOMAIN chosen = {} THEN 0 ELSE Max(DOMAIN chosen)

\* History only: an index keeps the entry first committed there.
Learn(n) ==
  Over(chosen, Restrict(n.log, {k \in DOMAIN n.log : k <= n.commit}))

WithinBounds(n) == LastIndex(n) <= MaxIndex /\ n.lead.aeSeq <= MaxRounds

\* Server i moves as s says after receiving `in`; the driver sends what the
\* node returned.  (Bound by \E, a value is computed once.)
Take(i, in, s) ==
  \E r \in {s} :
    /\ WithinBounds(r.n)
    /\ node' = [node EXCEPT ![i] = r.n]
    /\ msgs' = (IF Redelivery THEN msgs ELSE msgs \ in) \cup r.out
    /\ ballots' = ballots \cup {<<i, r.n.term, c>> : c \in {r.n.votedFor} \ {Nil}}
    /\ elected' = IF r.n.role = Leader THEN elected \cup {<<i, r.n.term>>} ELSE elected
    /\ chosen' = Learn(r.n)

Spend(what, limit) ==
  /\ used[what] < limit
  /\ used' = [used EXCEPT ![what] = @ + 1]

Received(i, type) == {m \in msgs : m.to = i /\ m.type = type}

\* A reply's `reqTerm` is history: the term its request was sent in.  The
\* code has no such field and accepts every reply; LateReplies = FALSE is a
\* transport that drops a reply once the caller has left that term.
Timely(i, m) == LateReplies \/ m.reqTerm = node[i].term

-----------------------------------------------------------------------------
(* Time: tick.                                                             *)

\* tick of a non-leader past its election deadline, which is re-armed at
\* least the minimum timeout ahead whenever a leader is heard: by then that
\* contact has expired.  A non-voter re-arms and stays quiet.
StartElection(i) ==
  LET n == [node[i] EXCEPT !.term = @ + 1, !.votedFor = i, !.role = Candidate,
                           !.votes = {i}, !.leaderId = Nil, !.contact = FALSE]
      req(p) == [type |-> "RequestVote", from |-> i, to |-> p, term |-> n.term,
                 lastIndex |-> LastIndex(n), lastTerm |-> LastTerm(n)]
  IN  /\ node[i].role # Leader
      /\ IsVoter(i, n)
      /\ <<i, n.term>> \in MayCampaign
      /\ \/ /\ HasQuorum(Active(n), n.votes)
            /\ Take(i, {}, BecomeLeader(i, n))
         \/ /\ ~HasQuorum(Active(n), n.votes)
            /\ Take(i, {}, Step(n, {req(p) : p \in VoteTargets(i, n)}))
      /\ UNCHANGED <<readFloor, used>>

\* tick of a leader past its heartbeat deadline.  A round that repeats what
\* the network already holds is a duplicate and costs nothing.
Heartbeat(i) ==
  LET s == ReplicateAll(i, node[i])
  IN  /\ node[i].role = Leader
      /\ Take(i, {}, s)
      /\ \/ /\ s.out \subseteq msgs \/ MaxHeartbeats = Nil
            /\ UNCHANGED used
         \/ /\ ~(s.out \subseteq msgs) /\ MaxHeartbeats # Nil
            /\ Spend("heartbeats", MaxHeartbeats)
      /\ UNCHANGED readFloor

-----------------------------------------------------------------------------
(* RequestVote.                                                            *)

VoteReply(i, m, term, granted) ==
  {[type |-> "RequestVoteResponse", from |-> i, to |-> m.from, term |-> term,
    reqTerm |-> m.term, granted |-> granted]}

\* While it hears from a leader a node refuses, whatever the term.  Contact
\* lapses unseen when the minimum election timeout passes, so a node that has
\* heard from one either refuses or goes on without it.
HandleRequestVote(i, m) ==
  LET n == ObserveTerm([node[i] EXCEPT !.contact = FALSE], m.term)
      grant == m.term = n.term /\ MayVoteFor(n, m.from)
               /\ UpToDate(n, m.lastTerm, m.lastIndex)
  IN  /\ \/ /\ LeaderIsCurrent(node[i])
            /\ Take(i, {m}, Step(node[i], VoteReply(i, m, node[i].term, FALSE)))
         \/ /\ node[i].role # Leader
            /\ ~grant
            /\ Take(i, {m}, Step(n, VoteReply(i, m, n.term, FALSE)))
         \/ /\ node[i].role # Leader
            /\ grant
            /\ Take(i, {m}, Step([n EXCEPT !.votedFor = m.from],
                            VoteReply(i, m, n.term, TRUE)))
      /\ UNCHANGED <<readFloor, used>>

\* Mutant of VoteCounts: a vote of an earlier term counts too.
StaleVoteCounts(n, m) == m.term <= n.term /\ n.role = Candidate

\* A reply of an older term, or to a node no longer campaigning, is ignored.
VoteCounts(n, m) == m.term = n.term /\ n.role = Candidate

HandleRequestVoteResponse(i, m) ==
  LET n == [node[i] EXCEPT !.votes = IF m.granted THEN @ \cup {m.from} ELSE @]
  IN  /\ Timely(i, m)
      /\ \/ /\ m.term > node[i].term
            /\ Take(i, {m}, Step(ObserveTerm(node[i], m.term), {}))
         \/ /\ VoteCounts(n, m)
            /\ ~HasQuorum(Active(n), n.votes)
            /\ Take(i, {m}, Step(n, {}))
         \/ /\ VoteCounts(n, m)
            /\ HasQuorum(Active(n), n.votes)
            /\ Take(i, {m}, BecomeLeader(i, n))
      /\ UNCHANGED <<readFloor, used>>

-----------------------------------------------------------------------------
(* AppendEntries, receiver side.                                           *)

\* Mutant of LogMatches: any entry at prevIndex will do.
LogReaches(n, prevIndex, prevTerm) == prevIndex <= LastIndex(n)

LogMatches(n, prevIndex, prevTerm) ==
  \/ prevIndex = 0
  \/ prevIndex < n.snap.index
  \/ TermAt(n, prevIndex) = prevTerm

\* conflict_hint: just past a log that is too short, else the first index of
\* the run of entries with the conflicting term.  The hint's term is not sent
\* on: the leader's back_off reads the index alone.
ConflictHint(n, prevIndex) ==
  LET term == IF prevIndex \in DOMAIN n.log THEN n.log[prevIndex].term ELSE 0
      run(f) == \A k \in f..(prevIndex - 1) : k \in DOMAIN n.log /\ n.log[k].term = term
  IN  IF prevIndex > LastIndex(n) THEN LastIndex(n) + 1
      ELSE Min({f \in 1..prevIndex : run(f)})

\* The entries of a request from the first one this log lacks or holds with
\* another term; empty when there is nothing to do.
NewEntries(n, entries) ==
  LET known(k) == \/ k <= n.snap.index
                  \/ k \in DOMAIN n.log /\ n.log[k].term = entries[k].term
  IN  Restrict(entries, {k \in DOMAIN entries : \E j \in DOMAIN entries :
                            j <= k /\ ~known(j)})

\* truncate_from on a genuine conflict with the first new entry.
TruncateConflict(n, new) ==
  IF \E k \in DOMAIN new : k = Min(DOMAIN new) /\ k \in DOMAIN n.log
  THEN [n EXCEPT !.log = Restrict(@, {k \in DOMAIN @ : k < Min(DOMAIN new)}),
                 !.configs = OnTruncate(@, Min(DOMAIN new))]
  ELSE n

AppendNewEntries(n, entries) ==
  LET new == NewEntries(n, entries)
      t   == TruncateConflict(n, new)
  IN  [t EXCEPT !.log = Over(new, @), !.configs = OnAppend(@, new)]

AppendReply(i, m, term, success, conflictIndex, matchIndex) ==
  {[type |-> "AppendEntriesResponse", from |-> i, to |-> m.from, term |-> term,
    reqTerm |-> m.term, success |-> success, conflictIndex |-> conflictIndex,
    matchIndex |-> matchIndex, seq |-> m.seq]}

\* Mutant of MatchIndex: one too many.
MatchIndexAfter(m) == m.prevIndex + Cardinality(DOMAIN m.entries) + 1

\* The index up to which a successful reply vouches for this log.
MatchIndex(m) == m.prevIndex + Cardinality(DOMAIN m.entries)

CommitAfter(n, m) ==
  IF m.commit > n.commit THEN Min({m.commit, MatchIndex(m)}) ELSE n.commit

\* A valid leader for this term: accept its authority.
AcceptLeader(n, leader) ==
  [StepDown(n) EXCEPT !.leaderId = leader, !.contact = TRUE]

HandleAppendEntries(i, m) ==
  /\ \/ /\ m.term < node[i].term
        /\ Take(i, {m}, Step(node[i], AppendReply(i, m, node[i].term, FALSE, 0, 0)))
     \/ /\ m.term >= node[i].term
        /\ \E n \in {AcceptLeader(ObserveTerm(node[i], m.term), m.from)} :
             \/ /\ ~LogMatches(n, m.prevIndex, m.prevTerm)
                /\ Take(i, {m}, Step(n, AppendReply(i, m, n.term, FALSE,
                                                   ConflictHint(n, m.prevIndex), 0)))
             \/ /\ LogMatches(n, m.prevIndex, m.prevTerm)
                /\ \E a \in {AppendNewEntries(n, m.entries)} :
                     Take(i, {m}, Step([a EXCEPT !.commit = CommitAfter(a, m)],
                                       AppendReply(i, m, a.term, TRUE, 0, MatchIndex(m))))
  /\ UNCHANGED <<readFloor, used>>

\* The process dies between the two transactions of append_new_entries, with
\* the conflicting suffix gone and nothing appended, and starts again.
CrashWhileAppending(i, m) ==
  LET n == AcceptLeader(ObserveTerm(node[i], m.term), m.from)
      t == TruncateConflict(n, NewEntries(n, m.entries))
  IN  /\ m.term >= node[i].term
      /\ LogMatches(n, m.prevIndex, m.prevTerm)
      /\ t.log # n.log
      /\ Take(i, {m}, Step(Recovered(i, t.term, t.votedFor, t.log, t.snap), {}))
      /\ Spend("restarts", MaxRestarts)
      /\ UNCHANGED readFloor

-----------------------------------------------------------------------------
(* AppendEntries, leader side.                                             *)

\* note_leadership_ack: a pending read resolves once a quorum has answered
\* requests stamped after it began.
NoteLeadershipAck(n, from, seq) ==
  LET Acked(r) == IF seq >= r.confirmSeq THEN [r EXCEPT !.acks = @ \cup {from}] ELSE r
      acked == {Acked(r) : r \in n.lead.reads}
      ready == {r \in acked : HasQuorum(Active(n), r.acks)}
  IN  [n EXCEPT !.lead.reads = acked \ ready,
                !.results = @ \cup {[id |-> r.id, ok |-> TRUE, index |-> r.index] :
                                      r \in ready}]

MatchOf(n, peer) == IF peer \in DOMAIN n.lead.match THEN n.lead.match[peer] ELSE 0

RecordMatch(n, peer, matchIndex) ==
  [n EXCEPT !.lead.match = Put(@, peer, Max({MatchOf(n, peer), matchIndex})),
            !.lead.next  = Put(@, peer, matchIndex + 1)]

\* Mutant of BackOff: the hint is ignored.
NoBackOff(n, peer, conflictIndex) == n

BackOff(n, peer, conflictIndex) ==
  [n EXCEPT !.lead.next = Put(@, peer, Max({conflictIndex, 1}))]

\* The common tail of both success replies: advance the commit index, then
\* keep replicating to a peer that is still behind.
KeepReplicating(i, adv, peer) ==
  IF adv.n.role = Leader /\ NextFor(adv.n, peer) <= LastIndex(adv.n)
  THEN AndThen(adv, ReplicateTo(i, adv.n, peer))
  ELSE adv

AfterMatch(i, m, n, peer) ==
  \E adv \in {AdvanceCommitIndex(i, n)} : Take(i, {m}, KeepReplicating(i, adv, peer))

HandleAppendEntriesResponse(i, m) ==
  /\ Timely(i, m)
  /\ \/ /\ m.term > node[i].term
        /\ Take(i, {m}, Step(ObserveTerm(node[i], m.term), {}))
     \/ /\ m.term = node[i].term
        /\ node[i].role = Leader
        /\ \E n \in {NoteLeadershipAck(node[i], m.from, m.seq)} :
             \/ /\ m.success
                /\ AfterMatch(i, m, RecordMatch(n, m.from, m.matchIndex), m.from)
             \/ /\ ~m.success
                /\ Take(i, {m}, ReplicateTo(i, BackOff(n, m.from, m.conflictIndex), m.from))
  /\ UNCHANGED <<readFloor, used>>

-----------------------------------------------------------------------------
(* Snapshots.                                                              *)

\* compact: the committed prefix becomes a snapshot, in one transaction.
Compact(i) ==
  LET n == node[i]
      snap == [index |-> n.commit, term |-> TermAt(n, n.commit),
               config |-> ConfigAt(n, n.commit)]
  IN  /\ n.commit > n.snap.index
      /\ Take(i, {}, Step([n EXCEPT !.snap = snap,
                                !.log = EntriesFrom(n, n.commit + 1),
                                !.configs = OnCompact(n, n.commit)], {}))
      /\ Spend("compactions", MaxCompactions)
      /\ UNCHANGED readFloor

SnapshotReply(i, m, term) ==
  {[type |-> "InstallSnapshotResponse", from |-> i, to |-> m.from, term |-> term,
    reqTerm |-> m.term]}

\* Mutant of InstallOver: the commit index is left behind.
InstallUncommitted(n, snap) ==
  [n EXCEPT !.log = Restrict(@, {}),
            !.configs = OnInstallSnapshot(@, snap, TRUE),
            !.snap = snap]

\* compact_to when the log holds the snapshot's last entry, else
\* install_snapshot_replacing_log.
InstallOver(n, snap) ==
  LET matches == snap.index \in DOMAIN n.log /\ n.log[snap.index].term = snap.term
      kept == IF matches THEN {k \in DOMAIN n.log : k > snap.index} ELSE {}
  IN  [n EXCEPT !.log = Restrict(@, kept),
                !.configs = OnInstallSnapshot(@, snap, ~matches),
                !.commit = snap.index,
                !.snap = snap]

\* Installing any other snapshot would take back what was applied.
IsNews(n, snap) == snap.index > n.snap.index /\ snap.index > n.commit

HandleInstallSnapshot(i, m) ==
  LET n == AcceptLeader(ObserveTerm(node[i], m.term), m.from)
  IN  /\ \/ /\ m.term < node[i].term
            /\ Take(i, {m}, Step(node[i], SnapshotReply(i, m, node[i].term)))
         \/ /\ m.term >= node[i].term
            /\ ~IsNews(n, m.snap)
            /\ Take(i, {m}, Step(n, SnapshotReply(i, m, n.term)))
         \/ /\ m.term >= node[i].term
            /\ IsNews(n, m.snap)
            /\ Take(i, {m}, Step(InstallOver(n, m.snap), SnapshotReply(i, m, n.term)))
      /\ UNCHANGED <<readFloor, used>>

\* The reply names no index: the leader credits its own current snapshot.
HandleInstallSnapshotResponse(i, m) ==
  LET n == node[i]
  IN  /\ Timely(i, m)
      /\ \/ /\ m.term > n.term
            /\ Take(i, {m}, Step(ObserveTerm(n, m.term), {}))
         \/ /\ m.term = n.term
            /\ n.role = Leader
            /\ n.snap.index > 0
            /\ AfterMatch(i, m, RecordMatch(n, m.from, n.snap.index), m.from)
      /\ UNCHANGED <<readFloor, used>>

-----------------------------------------------------------------------------
(* Client calls.  On a node that is not the leader each returns an error   *)
(* and changes nothing.                                                    *)

Propose(i, command) ==
  LET adv == AdvanceCommitIndex(i, AppendLog(node[i], "Command", command))
  IN  /\ node[i].role = Leader
      /\ Take(i, {}, AndThen(adv, ReplicateAll(i, adv.n)))
      /\ Spend("writes", MaxWrites)
      /\ UNCHANGED readFloor

\* The first stamp of the round that a read starting now waits for.
ConfirmSeq(n) == n.lead.aeSeq + 1

StartRead(i) ==
  LET n  == [node[i] EXCEPT !.readSeq = @ + 1]
      index == Max({n.lead.termStart, n.commit})
      read == [id |-> n.readSeq, index |-> index, confirmSeq |-> ConfirmSeq(n),
               acks |-> {i}]
      done == [id |-> n.readSeq, ok |-> TRUE, index |-> index]
  IN  /\ n.role = Leader
      /\ \/ /\ HasQuorum(Active(n), {i})
            /\ Take(i, {}, Step([n EXCEPT !.results = @ \cup {done}], {}))
         \/ /\ ~HasQuorum(Active(n), {i})
            /\ Take(i, {}, ReplicateAll(i, [n EXCEPT !.lead.reads = @ \cup {read}]))
      /\ readFloor' = Put(readFloor, <<i, n.readSeq>>, MaxChosen)
      /\ Spend("reads", MaxReads)

\* One change at a time: the latest configuration is committed and not joint.
ConfChangeAllowed(n) ==
  /\ n.role = Leader
  /\ ~IsJoint(Active(n))
  /\ LatestConfigIndex(n) <= n.commit

\* Mutant of CaughtUp: one entry too lenient.
AlmostCaughtUp(n, newVoters) ==
  \A p \in newVoters \ Active(n).voters :
    MatchOf(n, p) >= LastIndex(n) - CatchUpMargin - 1

\* The catch-up gate.
CaughtUp(n, newVoters) ==
  \A p \in newVoters \ Active(n).voters :
    MatchOf(n, p) >= LastIndex(n) - CatchUpMargin

ProposeConfChange(i, newVoters) ==
  LET n == node[i]
  IN  /\ ConfChangeAllowed(n)
      /\ newVoters # Active(n).voters
      /\ CaughtUp(n, newVoters)
      /\ Take(i, {}, AppendConfigEntry(i, n, JointConfig(Active(n), newVoters)))
      /\ Spend("confChanges", MaxConfChanges)
      /\ UNCHANGED readFloor

ProposeAddLearner(i, p) ==
  LET n == node[i]
      config == [Active(n) EXCEPT !.learners = @ \cup {p}]
  IN  /\ ConfChangeAllowed(n)
      /\ p \notin Active(n).voters \cup Active(n).learners
      /\ Take(i, {}, AppendConfigEntry(i, n, config))
      /\ Spend("confChanges", MaxConfChanges)
      /\ UNCHANGED readFloor

-----------------------------------------------------------------------------
\* The process dies and starts again with what it had persisted.
Restart(i) ==
  LET n == node[i]
  IN  /\ Take(i, {}, Step(Recovered(i, n.term, n.votedFor, n.log, n.snap), {}))
      /\ Spend("restarts", MaxRestarts)
      /\ UNCHANGED readFloor

Init ==
  /\ node = [i \in Server |-> Recovered(i, 0, Nil, EmptyMap, NoSnapshot)]
  /\ msgs = {} /\ ballots = {} /\ elected = {}
  /\ chosen = EmptyMap
  /\ readFloor = EmptyMap
  /\ used = [heartbeats |-> 0, restarts |-> 0, compactions |-> 0, reads |-> 0,
             writes |-> 0, confChanges |-> 0]

\* What the loop of a running server may do next.
Event(i) ==
  \/ StartElection(i)
  \/ Heartbeat(i)
  \/ \E m \in Received(i, "RequestVote") : HandleRequestVote(i, m)
  \/ \E m \in Received(i, "RequestVoteResponse") : HandleRequestVoteResponse(i, m)
  \/ \E m \in Received(i, "AppendEntries") : HandleAppendEntries(i, m)
  \/ \E m \in Received(i, "AppendEntriesResponse") : HandleAppendEntriesResponse(i, m)
  \/ \E m \in Received(i, "InstallSnapshot") : HandleInstallSnapshot(i, m)
  \/ \E m \in Received(i, "InstallSnapshotResponse") : HandleInstallSnapshotResponse(i, m)
  \/ StartRead(i)
  \/ \E v \in ConfTargets : ProposeConfChange(i, v)
  \/ \E p \in LearnerTargets : ProposeAddLearner(i, p)

Crash(i) ==
  \/ \E m \in Received(i, "AppendEntries") : CrashWhileAppending(i, m)
  \/ Restart(i)

Next ==
  \E i \in Server :
    \/ Event(i)
    \/ \E c \in Command : Propose(i, c)
    \/ Compact(i)
    \/ Crash(i)

Spec == Init /\ [][Next]_vars
=============================================================================
