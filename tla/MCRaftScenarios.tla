-------------------------- MODULE MCRaftScenarios --------------------------
(***************************************************************************)
(* Instances of RaftNode that start after some elections: states that the  *)
(* steps described here reach, too deep for a search from the beginning.   *)
(***************************************************************************)
EXTENDS MCRaft

Noop(t) == Entry(t, "Noop", Nil)

Round(i, t, prev, prevTerm, entries, s) ==
  {[type |-> "AppendEntries", from |-> i, to |-> p, term |-> t, prevIndex |-> prev,
    prevTerm |-> prevTerm, entries |-> entries, commit |-> 0, seq |-> s] : p \in Server \ {i}}

Blank(i) == Recovered(i, 0, Nil, EmptyMap, NoSnapshot)

Rejected(from, t, reqTerm, s) ==
  [type |-> "AppendEntriesResponse", from |-> from, to |-> s1, term |-> t,
   reqTerm |-> reqTerm, success |-> FALSE, conflictIndex |-> 0, matchIndex |-> 0,
   seq |-> s]

NewLeader(i, t, log) ==
  [Blank(i) EXCEPT
     !.role = Leader, !.term = t, !.votedFor = i, !.leaderId = i, !.log = log,
     !.lead = [next      |-> [p \in Server \ {i} |-> Cardinality(DOMAIN log)],
               match     |-> [p \in Server \ {i} |-> 0],
               aeSeq     |-> IF MaxReads = 0 THEN 0 ELSE 1,
               termStart |-> Cardinality(DOMAIN log),
               reads     |-> {}]]

Fresh == [heartbeats |-> 0, restarts |-> 0, compactions |-> 0, reads |-> 0,
          writes |-> 0, confChanges |-> 0]

\* s1 led term 1 with the votes of everyone, then s3 elected s2 in term 2 before
\* any of the first rounds, both still under way, had arrived.
TwoLeadersInit ==
  /\ node = (s1 :> NewLeader(s1, 1, 1 :> Noop(1)))
            @@ (s2 :> NewLeader(s2, 2, 1 :> Noop(2)))
            @@ (s3 :> [Blank(s3) EXCEPT !.term = 2, !.votedFor = s2])
  /\ msgs = Round(s1, 1, 0, 0, 1 :> Noop(1), 0) \cup Round(s2, 2, 0, 0, 1 :> Noop(2), 0)
  /\ ballots = {} /\ elected = {<<s1, 1>>, <<s2, 2>>} /\ chosen = EmptyMap
  /\ readFloor = EmptyMap
  /\ used = Fresh

TwoLeadersSpec == TwoLeadersInit /\ [][Next]_vars

\* s1 leads term 1 and heartbeats once, loses the lead to the campaign of s3 in
\* term 2 (learnt from s3's rejection), and is elected again in term 3 by s2,
\* which only then answers the heartbeat of term 1.  s3 votes too, late, and
\* is elected in term 4 by s2, behind the back of s1.  The first rounds of the
\* two leaders and that late answer are still in the network.
OvertakenInit ==
  /\ node = (s1 :> NewLeader(s1, 3, (1 :> Noop(1)) @@ (2 :> Noop(3))))
            @@ (s2 :> [Blank(s2) EXCEPT !.term = 4, !.votedFor = s3])
            @@ (s3 :> NewLeader(s3, 4, 1 :> Noop(4)))
  /\ msgs = Round(s1, 3, 1, 1, 2 :> Noop(3), 1) \cup Round(s3, 4, 0, 0, 1 :> Noop(4), 1)
            \cup {Rejected(s2, 3, 1, 2)}
  /\ ballots = {} /\ elected = {}
  /\ chosen = EmptyMap
  /\ readFloor = EmptyMap
  /\ used = [Fresh EXCEPT !.heartbeats = 1]

OvertakenSpec == OvertakenInit /\ [][Next]_vars

\* Leaders of two terms each appended what only they hold: s1 its no-op of
\* term 1, s2 a no-op and a command of term 2.  s2 restarts, s3 elects s1 in
\* term 3 and takes its log, which commits.  The first round to s2 is under way.
DivergedInit ==
  LET log == (1 :> Noop(1)) @@ (2 :> Noop(3))
  IN  /\ \E c \in Command :
           node = (s1 :> [NewLeader(s1, 3, log) EXCEPT
                            !.commit = 2, !.lead.next[s3] = 3, !.lead.match[s3] = 2])
                  @@ (s2 :> [Blank(s2) EXCEPT !.term = 2, !.votedFor = s2,
                               !.log = (1 :> Noop(2)) @@ (2 :> Entry(2, "Command", c))])
                  @@ (s3 :> [AcceptLeader(Blank(s3), s1) EXCEPT
                               !.term = 3, !.votedFor = s1, !.log = log])
      /\ msgs = {m \in Round(s1, 3, 1, 1, 2 :> Noop(3), 0) : m.to = s2}
      /\ ballots = {} /\ elected = {} /\ chosen = log /\ readFloor = EmptyMap
      /\ used = Fresh

DivergedSpec == DivergedInit /\ [][Next]_vars /\ Fairness

-----------------------------------------------------------------------------
(* Membership.  How many of each kind of event a scenario may still spend  *)
(* differs: a counter of `used` that starts higher leaves less.            *)

JointLog == (1 :> Noop(1)) @@ (2 :> Entry(1, "Config", JointConfig(AllVoters[s1], {s1})))

\* s1, elected in term 1 by everyone, proposed to remain alone and crashed: the
\* joint entry is on its way to s2, the rest of what it sent is lost.
Shrinking ==
  /\ node = (s1 :> Recovered(s1, 1, s1, JointLog, NoSnapshot))
            @@ [i \in {s2, s3} |-> [Blank(i) EXCEPT !.term = 1, !.votedFor = s1]]
  /\ msgs = {m \in Round(s1, 1, 0, 0, JointLog, 0) : m.to = s2}
  /\ ballots = {} /\ elected = {<<s1, 1>>} /\ chosen = EmptyMap
  /\ readFloor = EmptyMap
  /\ used = [Fresh EXCEPT !.heartbeats = 1, !.restarts = 2, !.confChanges = 2,
                         !.reads = 1, !.writes = 1]

\* The change went through with the help of s3 alone: s1, the only voter left,
\* has compacted it and may add s2, which saw none of it, and promote it.
Alone == [voters |-> {s1}, oldVoters |-> {}, learners |-> {}]

Growing ==
  LET snap == [index |-> 3, term |-> 1, config |-> Alone]
  IN  /\ node = (s1 :> [Recovered(s1, 1, s1, EmptyMap, snap) EXCEPT
                          !.role = Leader, !.leaderId = s1,
                          !.lead = [NoLeaderState EXCEPT !.termStart = 1]])
                @@ (s2 :> [Blank(s2) EXCEPT !.term = 1, !.votedFor = s1])
                @@ (s3 :> Recovered(s3, 1, s1, JointLog, NoSnapshot))
      /\ msgs = {} /\ ballots = {} /\ elected = {<<s1, 1>>}
      /\ chosen = Put(JointLog, 3, Entry(1, "Config", Alone))
      /\ readFloor = EmptyMap

ServedAlone == [Fresh EXCEPT !.heartbeats = 1, !.restarts = 2, !.confChanges = 2]

\* Three voters with the same committed log, compacted, restart after the leader
\* of term 10 is gone; s1 may campaign in the next two terms, s2 in the second.
Electing ==
  LET snap == [index |-> 8, term |-> 10, config |-> AllVoters[s1]]
  IN  /\ node = [i \in Server |-> Recovered(i, 10, s1, EmptyMap, snap)]
      /\ msgs = {} /\ ballots = {} /\ elected = {<<s1, 10>>}
      /\ chosen = [k \in 1..8 |-> Noop(10)]
      /\ readFloor = EmptyMap
      /\ used = [Fresh EXCEPT !.heartbeats = 1, !.restarts = 1, !.confChanges = 2,
                             !.reads = 1, !.writes = 1]

MembershipSpec ==
  /\ \/ Electing
     \/ Shrinking
     \/ Growing /\ used = [Fresh EXCEPT !.restarts = 2, !.reads = 1, !.writes = 1]
     \/ Growing /\ used = ServedAlone
  /\ [][Next]_vars
=============================================================================
