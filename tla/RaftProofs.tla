----------------------------- MODULE RaftProofs -----------------------------
(***************************************************************************)
(* Proof of ElectionSafety, LogMatching and StateMachineSafety for every   *)
(* number of servers that share a fixed set of voters V: any number of     *)
(* terms, entries, restarts, compactions and installed snapshots, and a    *)
(* network that loses, repeats, delays and reorders.                       *)
(***************************************************************************)
EXTENDS RaftElections, RaftLogMoves, RaftLeaderLogs, RaftFollowerLogs,
        FiniteSetTheorems, WellFoundedInduction

-----------------------------------------------------------------------------
(* The facts about finite sets, from the library.                          *)

\* A non-empty set of numbers has a least one.
LEMMA LeastNatural ==
  ASSUME NEW S, S \subseteq Nat, S # {}
  PROVE  \E x \in S : \A y \in S : x <= y
<1> DEFINE R == OpToRel(<, Nat)
<1>1. PICK x \in S : \A y \in S : ~(<<y, x>> \in R)
  BY NatLessThanWellFounded, WFMin, Zenon
<1>2. ASSUME NEW y \in S
      PROVE  x <= y
  <2>1. x \in Nat /\ y \in Nat
    BY Zenon
  <2>2. ~(y < x)
    BY <1>1, <2>1, Zenon DEF OpToRel
  <2> QED  BY <2>1, <2>2
<1> QED  BY <1>2, Zenon

(* Two majorities of the voters share one of them (has_quorum).            *)
LEMMA MajoritiesShare ==
  ASSUME NEW V \in SUBSET Server, NEW P, NEW Q, IsMajority(V, P), IsMajority(V, Q)
  PROVE  P \cap Q # {}
<1> DEFINE A == V \cap P
           B == V \cap Q
<1>1. IsFiniteSet(V) /\ A \subseteq V /\ B \subseteq V
  BY ServerFinite, FS_Subset, Zenon
<1>2. /\ Cardinality(V) \in Nat /\ Cardinality(A) \in Nat /\ Cardinality(B) \in Nat
      /\ Cardinality(A) + Cardinality(B) > Cardinality(V)
  <2>1. IsFiniteSet(A) /\ IsFiniteSet(B)
    BY <1>1, FS_Subset, Zenon
  <2>2. Cardinality(V) \in Nat /\ Cardinality(A) \in Nat /\ Cardinality(B) \in Nat
    BY <1>1, <2>1, FS_CardinalityType, Zenon
  <2>3. Cardinality(A) * 2 > Cardinality(V) /\ Cardinality(B) * 2 > Cardinality(V)
    BY Zenon DEF IsMajority
  <2> HIDE DEF A, B
  <2> QED
    BY <2>2, <2>3
<1>3. A \cap B # {}
  BY <1>1, <1>2, FS_MajoritiesIntersect, Zenon
<1> QED
  BY <1>3, Zenon

\* The facts about sizes that the other modules take as a hypothesis.
LEMMA CountingHolds == Counting
<1>1. \A S : S \subseteq Nat /\ S # {} => \E x \in S : \A y \in S : x <= y
  BY LeastNatural, Zenon
<1>2. \A V \in SUBSET Server : \A P, Q :
        IsMajority(V, P) /\ IsMajority(V, Q) => P \cap Q # {}
  BY MajoritiesShare, Zenon
<1>3. ASSUME NEW S, Indices(S)
      PROVE  Cardinality(S) \in Nat
  <2>1. IsFiniteSet(S)
    BY <1>3, FS_BoundedSetOfNaturals, Zenon DEF Indices
  <2> QED  BY <2>1, FS_CardinalityType, Zenon
<1>4. ASSUME NEW a \in Nat, NEW b \in Nat, a <= b
      PROVE  Cardinality((a + 1)..b) = b - a
  <2>1. a + 1 \in Int /\ b \in Int
    OBVIOUS
  <2>2. Cardinality((a + 1)..b) = IF a + 1 > b THEN 0 ELSE b - (a + 1) + 1
    BY <2>1, FS_Interval, Zenon
  <2> QED  BY <1>4, <2>2
<1> QED  BY <1>1, <1>2, <1>3, <1>4, Zenon DEF Counting

-----------------------------------------------------------------------------
(* Every step, and the theorems.                                           *)

\* The invariant holds for some W, A and F.
Kept(V) == \E W, A, F : LogInv(V, W, A, F)

\* Every step is a step of the log proof, action by action.
LEMMA LogsNext ==
  ASSUME Counting, NEW V \in SUBSET Server, ConfTargets = {}, NEW W, NEW A, NEW F,
         Before(V, W, A, F), After(V), Next
  PROVE  Proceeds(V, W, A, F)
<1>1. PICK i \in Server : \/ Event(i)
                          \/ \E c \in Command : Propose(i, c)
                          \/ Compact(i)
                          \/ Crash(i)
  BY Zenon DEF Next
<1>2. Wellformed
  BY Zenon DEF Before
<1>3. CASE Event(i)
  <2>1. CASE StartElection(i)
    BY <1>2, <2>1, StartElectionStep, StartElectionLogs, Zenon
  <2>2. CASE Heartbeat(i)
    BY <1>2, <2>2, HeartbeatStep, HeartbeatLogs, Zenon
  <2>3. ASSUME NEW m \in Received(i, "RequestVote"), HandleRequestVote(i, m)
        PROVE  Proceeds(V, W, A, F)
    BY <2>3, <1>2, HandleRequestVoteStep, HandleRequestVoteLogs, Zenon
  <2>4. ASSUME NEW m \in Received(i, "RequestVoteResponse"), HandleRequestVoteResponse(i, m)
        PROVE  Proceeds(V, W, A, F)
    BY <2>4, <1>2, HandleRequestVoteResponseStep, HandleRequestVoteResponseLogs, Zenon
  <2>5. ASSUME NEW m \in Received(i, "AppendEntries"), HandleAppendEntries(i, m)
        PROVE  Proceeds(V, W, A, F)
    BY <2>5, <1>2, HandleAppendEntriesStep, HandleAppendEntriesLogs, Zenon
  <2>6. ASSUME NEW m \in Received(i, "AppendEntriesResponse"), HandleAppendEntriesResponse(i, m)
        PROVE  Proceeds(V, W, A, F)
    BY <2>6, <1>2, HandleAppendEntriesResponseStep, HandleAppendEntriesResponseLogs, Zenon
  <2>7. ASSUME NEW m \in Received(i, "InstallSnapshot"), HandleInstallSnapshot(i, m)
        PROVE  Proceeds(V, W, A, F)
    BY <2>7, <1>2, HandleInstallSnapshotStep, HandleInstallSnapshotLogs, Zenon
  <2>8. ASSUME NEW m \in Received(i, "InstallSnapshotResponse"), HandleInstallSnapshotResponse(i, m)
        PROVE  Proceeds(V, W, A, F)
    BY <2>8, <1>2, HandleInstallSnapshotResponseStep, HandleInstallSnapshotResponseLogs, Zenon
  <2>9. CASE StartRead(i)
    BY <1>2, <2>9, StartReadStep, StartReadLogs, Zenon
  <2>10. ASSUME NEW p, ProposeAddLearner(i, p)
         PROVE  Proceeds(V, W, A, F)
    BY <1>2, <2>10, ConfChangeStep, ProposeAddLearnerLogs, Zenon
  <2>11. ~ \E v \in ConfTargets : ProposeConfChange(i, v)
    BY Zenon
  <2> QED
    BY <1>3, <2>1, <2>2, <2>3, <2>4, <2>5, <2>6, <2>7, <2>8, <2>9, <2>10, <2>11,
       Zenon DEF Event
<1>4. ASSUME NEW c, Propose(i, c)
      PROVE  Proceeds(V, W, A, F)
  BY <1>2, <1>4, ProposeStep, ProposeLogs, Zenon
<1>5. CASE Compact(i)
  BY <1>2, <1>5, CompactStep, CompactLogs, Zenon
<1>6. CASE Restart(i)
  BY <1>2, <1>6, RestartStep, RestartLogs, Zenon
<1>7. ASSUME NEW m \in Received(i, "AppendEntries"), CrashWhileAppending(i, m)
      PROVE  Proceeds(V, W, A, F)
  BY <1>2, <1>7, CrashWhileAppendingStep, CrashWhileAppendingLogs, Zenon
<1> QED
  BY <1>1, <1>3, <1>4, <1>5, <1>6, <1>7, Zenon DEF Crash

\* The inductive invariant, with the one of the elections in it.
LogsAreKept(V) == Wellformed /\ VotersStay(V) /\ ElectionInv(V) /\ Kept(V)

\* The invariant is inductive.
LEMMA LogsAreKeptAlways ==
  ASSUME Counting, NEW CONSTANT V \in SUBSET Server,
         \A i \in Server : Fixed(V, Bootstrap[i]), ConfTargets = {}
  PROVE  Spec => []LogsAreKept(V)
<1>1. Init => LogsAreKept(V)
  <2> SUFFICES ASSUME Init PROVE LogsAreKept(V)
    BY Zenon
  <2>1. Wellformed /\ VotersStay(V) /\ ElectionInv(V)
    BY WellformedInit, VotersStayInit, ElectionInvInit, Zenon
  <2>2. Kept(V)
    BY LogInvInit, Zenon DEF Kept
  <2> QED  BY <2>1, <2>2, Zenon DEF LogsAreKept
<1>2. LogsAreKept(V) /\ [Next]_vars => LogsAreKept(V)'
  <2> SUFFICES ASSUME LogsAreKept(V), [Next]_vars PROVE LogsAreKept(V)'
    BY Zenon
  <2>1. PICK W, A, F : Before(V, W, A, F)
    BY Zenon DEF LogsAreKept, Kept, Before
  <2>2. Wellformed /\ VotersStay(V) /\ ElectionInv(V)
    BY Zenon DEF LogsAreKept
  <2>3. CASE Next
    <3>1. Wellformed'
      BY <2>2, <2>3, WellformedNext, Zenon
    <3>2. VotersStay(V)'
      BY <2>2, <2>3, VotersStayNext, Zenon
    <3>3. ElectionInv(V)'
      BY <2>2, <2>3, StayingVotersDecide, ElectionInvStep, Zenon
    <3>4. Kept(V)'
      <4>1. Proceeds(V, W, A, F)
        BY <2>1, <2>3, <3>1, <3>2, <3>3, LogsNext, Zenon DEF After
      <4> QED  BY <4>1, LogStep, Zenon DEF Proceeds, Kept
    <3> QED  BY <3>1, <3>2, <3>3, <3>4, Zenon DEF LogsAreKept
  <2>4. CASE UNCHANGED vars
    <3>1. Wellformed'
      BY <2>2, <2>4, Zenon DEF vars, Wellformed
    <3>2. VotersStay(V)'
      BY <2>2, <2>4, Zenon DEF vars, VotersStay
    <3>3. ElectionInv(V)'
      BY <2>2, <2>4, Zenon DEF vars, ElectionInv, BallotsOk, CountsOk, LeadersOk, Carried
    <3>4. LogInv(V, W, A, F)
      BY <2>1, Zenon DEF Before
    <3>5. LogInv(V, W, A, F)'
      BY <2>4, <3>4 DEF vars, LogInv, BallotsCast, MsgFits, SnapshotFits, LaterLeadersFit, Dead,
                        AcksFit, VotesFit, CampaignsFit, TermsFit, Carried, ChosenFits
    <3> QED  BY <3>1, <3>2, <3>3, <3>5, Zenon DEF LogsAreKept, Kept
  <2> QED  BY <2>3, <2>4, Zenon
<1> QED  BY <1>1, <1>2, PTL DEF Spec

(***************************************************************************)
(* Where every node starts with the voters V and nobody asks for others,   *)
(* no term ever has two leaders: for any V, with learners added at will,   *)
(* messages lost, repeated, delayed and reordered, logs truncated,         *)
(* compacted and replaced by snapshots, and any number of crashes          *)
(* (start_election, handle_request_vote, handle_request_vote_response).    *)
(***************************************************************************)
THEOREM OneLeaderPerTerm ==
  ASSUME NEW CONSTANT V \in SUBSET Server,
         \A i \in Server : Fixed(V, Bootstrap[i]), ConfTargets = {}
  PROVE  Spec => []ElectionSafety
<1>1. Spec => []LogsAreKept(V)
  BY CountingHolds, LogsAreKeptAlways, Zenon
<1>2. LogsAreKept(V) => ElectionSafety
  BY CountingHolds, InvGivesSafety, Zenon DEF LogsAreKept
<1> QED  BY <1>1, <1>2, PTL

(***************************************************************************)
(* Log matching: two logs with an entry of the same index and term are the *)
(* same up to it, whatever append_new_entries truncates, whichever process *)
(* dies between its two writes, and however compact and install_snapshot   *)
(* cut the logs.  For every number of servers with voters V, learners that *)
(* come and go, and any network.                                           *)
(***************************************************************************)
THEOREM LogsMatch ==
  ASSUME NEW CONSTANT V \in SUBSET Server,
         \A i \in Server : Fixed(V, Bootstrap[i]), ConfTargets = {}
  PROVE  Spec => []LogMatching
<1>1. Spec => []LogsAreKept(V)
  BY CountingHolds, LogsAreKeptAlways, Zenon
<1>2. LogsAreKept(V) => LogMatching
  BY CountingHolds, LogInvMatches, Zenon DEF LogsAreKept, Kept
<1> QED  BY <1>1, <1>2, PTL

(***************************************************************************)
(* State machine safety: what one server has applied at an index, no other *)
(* server ever applies differently, and a snapshot ends with the entry     *)
(* that was applied at its index (advance_commit_index,                    *)
(* handle_append_entries, compact, install_snapshot).                      *)
(***************************************************************************)
THEOREM AppliedIsAgreed ==
  ASSUME NEW CONSTANT V \in SUBSET Server,
         \A i \in Server : Fixed(V, Bootstrap[i]), ConfTargets = {}
  PROVE  Spec => []StateMachineSafety
<1>1. Spec => []LogsAreKept(V)
  BY CountingHolds, LogsAreKeptAlways, Zenon
<1>2. LogsAreKept(V) => StateMachineSafety
  BY CountingHolds, LogInvIsSafe, Zenon DEF LogsAreKept, Kept
<1> QED  BY <1>1, <1>2, PTL

-----------------------------------------------------------------------------
(* The refinement.  Of the invariant it needs what is stated of one state  *)
(* below, and of a step that only one server moves, forward or back to its *)
(* snapshot.                                                               *)

\* What a server applies lies between its snapshot and its commit index, and
\* what is chosen has no gaps.
WindowsFit ==
  /\ \A i \in Server :
       /\ node[i].snap.index \in Nat /\ node[i].commit \in Nat
       /\ node[i].snap.index <= node[i].commit
       /\ node[i].commit > 0 => node[i].commit \in DOMAIN chosen
       /\ \A k \in DOMAIN node[i].log : k \in Nat /\ k > node[i].snap.index
  /\ \A k \in DOMAIN chosen : k \in Nat /\ k > 0 /\ \A j \in 1..k : j \in DOMAIN chosen
  /\ StateMachineSafety

ChosenIsMap == chosen = [k \in DOMAIN chosen |-> chosen[k]]

\* Server i alone moves, and what it commits is chosen (commit_entries,
\* advance_commit_index, install_snapshot, with_bootstrap).
Progresses(i) ==
  /\ \A j \in Server \ {i} : node'[j] = node[j]
  /\ chosen' = Learn(node'[i])
  /\ Advances(node[i], node'[i])

(* The invariant of logs says as much of a state.                          *)
LEMMA KeptWindowsFit ==
  ASSUME Counting, NEW V \in SUBSET Server, LogsAreKept(V)
  PROVE  WindowsFit
<1>1. PICK W, A, F : LogInv(V, W, A, F)
  BY Zenon DEF LogsAreKept, Kept
<1>2. VotersStay(V)
  BY Zenon DEF LogsAreKept
<1>3. StateMachineSafety
  BY <1>1, <1>2, LogInvIsSafe, Zenon
<1>4. ChosenFits(V, W, A) /\ \A i \in Server : NodeFits(V, W, A, F[i], i, node[i])
  BY <1>1, Zenon DEF LogInv
<1>5. ASSUME NEW i \in Server
      PROVE  /\ node[i].snap.index \in Nat /\ node[i].commit \in Nat
             /\ node[i].snap.index <= node[i].commit
             /\ \A k \in DOMAIN node[i].log : k \in Nat /\ k > node[i].snap.index
  <2>1. Stable(V, node[i])
    BY <1>2, Zenon DEF VotersStay
  <2>2. /\ node[i].snap.index \in Nat /\ node[i].commit \in Nat
        /\ LastIndex(node[i]) \in Nat
    BY <2>1, LastIndexIs, Zenon DEF Stable, SnapOk
  <2>3. /\ node[i].snap.index <= node[i].commit
        /\ DOMAIN node[i].log = (node[i].snap.index + 1)..LastIndex(node[i])
    BY <1>4, Zenon DEF NodeFits, Stands
  <2> QED  BY <2>2, <2>3
<1> QED
  BY <1>3, <1>4, <1>5, Zenon DEF WindowsFit, ChosenFits

(* Every step is the step of one server.                                   *)
LEMMA OneProgresses ==
  ASSUME Counting, NEW V \in SUBSET Server, ConfTargets = {},
         LogsAreKept(V), LogsAreKept(V)', Next
  PROVE  \E i \in Server : Progresses(i)
<1>1. PICK W, A, F : Before(V, W, A, F)
  BY Zenon DEF LogsAreKept, Kept, Before
<1>2. After(V)
  BY Zenon DEF LogsAreKept, After
<1>3. Proceeds(V, W, A, F)
  BY <1>1, <1>2, LogsNext, Zenon
<1>4. PICK i \in Server : \E W2, A2, L2, out : Moves(V, W, A, F, W2, A2, L2, i, out)
  BY <1>3, Zenon DEF Proceeds
<1>5. PICK W2, A2, L2, out : Moves(V, W, A, F, W2, A2, L2, i, out)
  BY <1>4, Zenon
<1>6. Moved(i, out) /\ chosen' = Learn(node'[i]) /\ Advances(node[i], node'[i])
  BY <1>5, Zenon DEF Moves, StepFits
<1>7. Progresses(i)
  BY <1>6, MovedAlone, Zenon DEF Progresses
<1> QED  BY <1>7, Zenon

(* What has been chosen stays, and stays a map.                            *)
LEMMA ChosenGrows ==
  ASSUME NEW i, Progresses(i)
  PROVE  /\ DOMAIN chosen \subseteq DOMAIN chosen'
         /\ \A k \in DOMAIN chosen : chosen'[k] = chosen[k]
         /\ ChosenIsMap'
<1>1. chosen' = Learn(node'[i])
  BY Zenon DEF Progresses
<1> QED  BY <1>1, Zenon DEF Learn, Over, ChosenIsMap

(* A server that goes no further than its snapshot adds nothing to it.     *)
LEMMA RestartsChooseNothing ==
  ASSUME NEW i \in Server, Progresses(i), ChosenIsMap, WindowsFit',
         node'[i].commit = node'[i].snap.index
  PROVE  chosen' = chosen
<1> DEFINE n2 == node'[i]
<1>1. /\ n2.snap.index \in Nat /\ n2.commit \in Nat
      /\ \A k \in DOMAIN n2.log : k \in Nat /\ k > n2.snap.index
  BY Zenon DEF WindowsFit
<1>2. chosen' = Learn(n2) /\ n2.commit = n2.snap.index
  BY Zenon DEF Progresses
<1> HIDE DEF n2
<1>3. {k \in DOMAIN n2.log : k <= n2.commit} = {}
  <2>1. ASSUME NEW k \in DOMAIN n2.log
        PROVE  ~(k <= n2.commit)
    BY <1>1, <1>2
  <2> QED  BY <2>1, Zenon
<1>4. chosen' = [k \in DOMAIN chosen |-> chosen[k]]
  BY <1>2, <1>3, Zenon DEF Learn, Over, Restrict
<1> QED  BY <1>4, Zenon DEF ChosenIsMap

(* A step of one server is a step of ReplicatedLog: the log grows at its   *)
(* end, and the server sees the part of it between its two bounds.         *)
LEMMA ProgressRefines ==
  ASSUME NEW i \in Server, Progresses(i), ChosenIsMap, WindowsFit, WindowsFit'
  PROVE  Committed!Advance(i) \/ Committed!Reopen(i)
<1> DEFINE n == node[i]
           n2 == node'[i]
           within == (n2.snap.index + 1)..n2.commit
<1>1. /\ n.snap.index \in Nat /\ n.commit \in Nat
      /\ n2.snap.index \in Nat /\ n2.commit \in Nat /\ n2.snap.index <= n2.commit
  BY Zenon DEF WindowsFit
<1>2. Committed!Grows
  <2>1. \A k \in DOMAIN chosen' : \A j \in 1..k : j \in DOMAIN chosen'
    BY Zenon DEF WindowsFit
  <2> QED  BY <2>1, ChosenGrows, Zenon DEF Committed!Grows
<1>3. \A k \in within : k \in DOMAIN chosen' /\ n2.log[k] = chosen'[k]
  <2> SUFFICES ASSUME NEW k \in within
               PROVE  k \in DOMAIN chosen' /\ n2.log[k] = chosen'[k]
    BY Zenon
  <2>1. k \in 1..n2.commit /\ k > n2.snap.index /\ n2.commit > 0
    BY <1>1
  <2>2. k \in DOMAIN chosen'
    BY <2>1, Zenon DEF WindowsFit
  <2>3. n2.log[k] = chosen'[k]
    BY <2>1, Zenon DEF WindowsFit, StateMachineSafety, Holds
  <2> QED  BY <2>2, <2>3, Zenon
<1>4. Committed!Moves(i)
  <2>1. \A j \in Server \ {i} : node'[j] = node[j]
    BY Zenon DEF Progresses
  <2>2. Restrict(n2.log, within) = [k \in within |-> chosen'[k]]
    BY <1>3, Zenon DEF Restrict
  <2> QED  BY <1>3, <2>1, <2>2, Zenon DEF Committed!Moves
<1>5. CASE n.snap.index <= n2.snap.index /\ n.commit <= n2.commit
  <2>1. Committed!Advance(i)
    BY <1>1, <1>2, <1>4, <1>5, Zenon DEF Committed!Advance
  <2> QED  BY <2>1, Zenon
<1>6. CASE n2.snap.index = n.snap.index /\ n2.commit = n.snap.index
  <2>1. chosen' = chosen
    BY <1>6, RestartsChooseNothing, Zenon
  <2>2. Committed!Reopen(i)
    BY <1>4, <1>6, <2>1, Zenon DEF Committed!Reopen
  <2> QED  BY <2>2, Zenon
<1> QED
  BY <1>5, <1>6, Zenon DEF Progresses, Advances

(* The initial states are initial states of ReplicatedLog.                 *)
LEMMA InitRefines ==
  ASSUME Init
  PROVE  Committed!Init
<1>1. \A i \in Server : /\ node[i].snap = NoSnapshot /\ node[i].log = EmptyMap
                        /\ node[i].commit = 0
  BY Zenon DEF Init, Recovered, NoSnapshot
<1>2. \A i \in Server : /\ node[i].snap.index = 0 /\ node[i].commit = 0
                        /\ (node[i].snap.index + 1)..node[i].commit = {}
  BY <1>1 DEF NoSnapshot
<1>3. chosen = Committed!EmptyLog
  BY Zenon DEF Init, EmptyMap, Committed!EmptyLog
<1>4. \A i \in Server :
        Restrict(node[i].log, (node[i].snap.index + 1)..node[i].commit) = Committed!EmptyLog
  BY <1>2, Zenon DEF Restrict, Committed!EmptyLog
<1> QED
  BY <1>2, <1>3, <1>4, Zenon DEF Committed!Init

(***************************************************************************)
(* The cluster is one log that only grows: every commit index follows it,  *)
(* every server would apply exactly the part of it after its snapshot, and *)
(* a crash takes a server back to its snapshot and nothing else back.  It  *)
(* is what the drivers above the nodes rely on (commit_entries, compact,   *)
(* install_snapshot, with_bootstrap), and it holds for every number of     *)
(* servers with voters V, of terms, entries, restarts and compactions.     *)
(***************************************************************************)
THEOREM ClusterIsOneLog ==
  ASSUME NEW CONSTANT V \in SUBSET Server,
         \A i \in Server : Fixed(V, Bootstrap[i]), ConfTargets = {}
  PROVE  Spec => ImplementsReplicatedLog
<1>1. Spec => []LogsAreKept(V)
  BY CountingHolds, LogsAreKeptAlways, Zenon
<1>2. LogsAreKept(V) => WindowsFit
  BY CountingHolds, KeptWindowsFit, Zenon
<1>3. Init => ChosenIsMap /\ Committed!Init
  BY InitRefines, Zenon DEF Init, ChosenIsMap, EmptyMap
<1>4. LogsAreKept(V) /\ LogsAreKept(V)' /\ ChosenIsMap /\ [Next]_vars => ChosenIsMap'
  <2> SUFFICES ASSUME LogsAreKept(V), LogsAreKept(V)', ChosenIsMap, [Next]_vars
               PROVE  ChosenIsMap'
    BY Zenon
  <2>1. CASE Next
    <3>1. PICK i \in Server : Progresses(i)
      BY <2>1, CountingHolds, OneProgresses, Zenon
    <3> QED  BY <3>1, ChosenGrows, Zenon
  <2>2. CASE UNCHANGED vars
    BY <2>2, Zenon DEF vars, ChosenIsMap
  <2> QED  BY <2>1, <2>2, Zenon
<1>5. LogsAreKept(V) /\ LogsAreKept(V)' /\ ChosenIsMap /\ WindowsFit /\ WindowsFit'
        /\ [Next]_vars => [Committed!Next]_(Committed!vars)
  <2> SUFFICES ASSUME LogsAreKept(V), LogsAreKept(V)', ChosenIsMap, WindowsFit, WindowsFit',
                      [Next]_vars
               PROVE  [Committed!Next]_(Committed!vars)
    BY Zenon
  <2>1. CASE Next
    <3>1. PICK i \in Server : Progresses(i)
      BY <2>1, CountingHolds, OneProgresses, Zenon
    <3>2. Committed!Advance(i) \/ Committed!Reopen(i)
      BY <3>1, ProgressRefines, Zenon
    <3> QED  BY <3>2, Zenon DEF Committed!Next
  <2>2. CASE UNCHANGED vars
    BY <2>2, Zenon DEF vars, Committed!vars
  <2> QED  BY <2>1, <2>2, Zenon
<1> QED
  BY <1>1, <1>2, <1>3, <1>4, <1>5, PTL DEF Spec, ImplementsReplicatedLog, Committed!Spec
=============================================================================
