---------------------------- MODULE MCRaftDriver ----------------------------
(***************************************************************************)
(* Instances of RaftDriver for TLC.                                        *)
(***************************************************************************)
EXTENDS RaftDriver, MCRaftScenarios

CONSTANTS k1, v1

\* What clients propose: one key is written and deleted.
KvCommands == {KvPut(k1, v1), KvDelete(k1)}
Puts == {KvPut(k1, v1)}

\* The scenarios spend differently: what one must not do is already used up.
Spent == [heartbeats |-> MaxHeartbeats, restarts |-> MaxRestarts, compactions |-> 0,
          reads |-> MaxReads, writes |-> 1, confChanges |-> 0]

\* s1 leads term 1 in a group whose other members have been removed: the only
\* voter, it has applied and compacted the removal.
ServingAlone ==
  /\ Growing /\ used = [Spent EXCEPT !.restarts = 0, !.reads = 0, !.writes = 0]
  /\ driver = [i \in Server |-> IF i = s1 THEN [NewDriver EXCEPT !.applied = 3]
                                          ELSE NewDriver]
  /\ blobs = {[index |-> 3, term |-> 1, data |-> EmptyMap]} /\ answers = {}

\* s1 led term 1 and appended a write that reached nobody.  s3 elected s2 in
\* term 2, whose first round is under way.
Outrunning ==
  /\ \E c \in Puts :
       /\ node = (s1 :> [NewLeader(s1, 1, 1 :> Noop(1)) EXCEPT
                           !.log = Put(@, 2, Entry(1, "Command", c))])
                 @@ (s2 :> NewLeader(s2, 2, 1 :> Noop(2)))
                 @@ (s3 :> [Blank(s3) EXCEPT !.term = 2, !.votedFor = s2])
       /\ driver = [i \in Server |-> IF i = s1
                      THEN [NewDriver EXCEPT !.waiting = {Waiter(2, 1, c)}]
                      ELSE NewDriver]
  /\ msgs = Round(s2, 2, 0, 0, 1 :> Noop(2), 0)
  /\ ballots = {} /\ elected = {<<s1, 1>>, <<s2, 2>>} /\ chosen = EmptyMap
  /\ readFloor = EmptyMap /\ used = [Spent EXCEPT !.heartbeats = 0]
  /\ blobs = {} /\ answers = {}

\* s1 led term 1 and committed a no-op that s2 acknowledged.  s3, which never
\* saw it, elected s2 in term 2, whose first round is under way: s2 has yet to
\* learn what is committed.
Takeover ==
  /\ node = (s1 :> [NewLeader(s1, 1, 1 :> Noop(1)) EXCEPT
                      !.commit = 1, !.lead.next[s2] = 2, !.lead.match[s2] = 1])
            @@ (s2 :> NewLeader(s2, 2, (1 :> Noop(1)) @@ (2 :> Noop(2))))
            @@ (s3 :> [Blank(s3) EXCEPT !.term = 2, !.votedFor = s2])
  /\ driver = [i \in Server |-> IF i = s1 THEN [NewDriver EXCEPT !.applied = 1]
                                          ELSE NewDriver]
  /\ msgs = Round(s2, 2, 1, 1, 2 :> Noop(2), 1)
  /\ ballots = {} /\ elected = {<<s1, 1>>, <<s2, 2>>} /\ chosen = (1 :> Noop(1))
  /\ readFloor = EmptyMap /\ used = [Spent EXCEPT !.reads = 0, !.writes = MaxWrites]
  /\ blobs = {} /\ answers = {}

MCDriverSpec ==
  (ServingAlone \/ Outrunning \/ Takeover) /\ [][DriverNext]_allVars

\* s1 led terms 1 and 2 and holds a no-op of each that reached nobody.  It began
\* a read in term 2; s3, whose log is empty, rejected the round, which confirms
\* the read at index 2, not yet applied.  s3 then elected s2 in term 3.
UnappliedReadInit ==
  /\ node = (s1 :> [NewLeader(s1, 2, (1 :> Noop(1)) @@ (2 :> Noop(2))) EXCEPT
                      !.readSeq = 1, !.results = {[id |-> 1, ok |-> TRUE, index |-> 2]}])
            @@ (s2 :> NewLeader(s2, 3, 1 :> Noop(3)))
            @@ (s3 :> [Blank(s3) EXCEPT !.term = 3, !.votedFor = s2])
  /\ driver = [i \in Server |-> IF i = s1
                 THEN [NewDriver EXCEPT !.waiting = {Waiter(2, Nil, 0)}]
                 ELSE NewDriver]
  /\ msgs = Round(s2, 3, 0, 0, 1 :> Noop(3), 0)
  /\ ballots = {} /\ elected = {<<s1, 1>>, <<s1, 2>>, <<s2, 3>>} /\ chosen = EmptyMap
  /\ readFloor = (<<s1, 1>> :> 0) /\ used = Fresh
  /\ blobs = {} /\ answers = {}

UnappliedReadSpec == UnappliedReadInit /\ [][DriverNext]_allVars

DriverView == <<LiveView, driver, blobs, answers>>
=============================================================================
