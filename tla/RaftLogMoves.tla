----------------------------- MODULE RaftLogMoves ---------------------------
(***************************************************************************)
(* A step that does to one server what Moves says preserves the invariant  *)
(* of logs, and the invariant gives LogMatching and StateMachineSafety.    *)
(***************************************************************************)
EXTENDS RaftInvariants

-----------------------------------------------------------------------------
(* The two theorems follow from the invariant.                             *)

\* The invariant gives log matching.
LEMMA LogInvMatches ==
  ASSUME Counting, NEW V, NEW W, NEW A, NEW F, VotersStay(V), LogInv(V, W, A, F)
  PROVE  LogMatching
<1> SUFFICES ASSUME NEW i \in Server, NEW j \in Server,
                    NEW k \in DOMAIN node[i].log \cap DOMAIN node[j].log,
                    node[i].log[k].term = node[j].log[k].term,
                    NEW l \in DOMAIN node[i].log \cap DOMAIN node[j].log, l <= k
             PROVE  node[i].log[l] = node[j].log[l]
  BY Zenon DEF LogMatching
<1>1. \A s \in Server : /\ Stands(node[s], F[s]) /\ Sound(W, F[s])
                        /\ node[s].snap.index \in Nat /\ LastIndex(node[s]) \in Nat
  BY LastIndexIs, Zenon DEF LogInv, NodeFits, VotersStay, Stable, SnapOk
<1>2. \A s \in Server : \A x \in DOMAIN node[s].log :
        x \in Nat /\ x >= 1 /\ x \in DOMAIN F[s] /\ node[s].log[x] = F[s][x]
  BY <1>1 DEF Stands
<1>3. Agree(F[i], F[j], k)
  BY <1>1, <1>2, SameTermAgree, Zenon
<1>4. F[i][l] = F[j][l]
  BY <1>2, <1>3 DEF Agree
<1> QED
  BY <1>2, <1>4, Zenon

\* The invariant gives state machine safety.
LEMMA LogInvIsSafe ==
  ASSUME Counting,
         NEW V \in SUBSET Server, NEW W, NEW A, NEW F, VotersStay(V), LogInv(V, W, A, F)
  PROVE  StateMachineSafety
<1> SUFFICES ASSUME NEW i \in Server
             PROVE  /\ \A k \in 1..node[i].commit :
                         k > node[i].snap.index => Holds(i, k, chosen[k])
                    /\ node[i].snap.index > 0 =>
                         /\ node[i].snap.index \in DOMAIN chosen
                         /\ node[i].snap.term = chosen[node[i].snap.index].term
  BY Zenon DEF StateMachineSafety
<1> DEFINE n == node[i]
           L == F[i]
<1>1. /\ Stands(n, L) /\ n.snap.index \in Nat /\ n.commit \in Nat /\ LastIndex(n) \in Nat
      /\ n.snap.index <= n.commit /\ n.commit <= LastIndex(n)
      /\ Backed(V, W, A, n.term, L, n.commit)
  BY LastIndexIs, Zenon DEF LogInv, NodeFits, VotersStay, Stable, SnapOk
<1>2. ASSUME NEW k \in 1..n.commit
      PROVE  k \in DOMAIN chosen /\ chosen[k] = L[k]
  <2>1. k \in DOMAIN chosen
    BY <1>1 DEF LogInv, ChosenFits
  <2>2. PICK u, l \in Nat : l >= k /\ Decided(V, W, A, u, l) /\ chosen[k] = W[u][k]
    BY <2>1, Zenon DEF LogInv, ChosenFits
  <2>3. PICK t, j \in Nat : j >= n.commit /\ Decided(V, W, A, t, j) /\ Agree(W[t], L, n.commit)
    BY <1>1 DEF Backed
  <2>4. Agree(W[u], W[t], k)
    <3>1. Written(W) /\ LaterLeadersFit(V, W, A) /\ k \in Nat /\ k <= j
      BY <1>1, <2>3 DEF LogInv
    <3> QED  BY <2>2, <2>3, <3>1, DecidedAgree, Zenon
  <2>5. W[u][k] = W[t][k] /\ W[t][k] = L[k]
    BY <1>1, <2>3, <2>4 DEF Agree
  <2> QED  BY <2>1, <2>2, <2>5, Zenon
<1>3. ASSUME NEW k \in 1..n.commit, k > n.snap.index
      PROVE  Holds(i, k, chosen[k])
  BY <1>1, <1>2, <1>3 DEF Stands, Holds
<1>4. ASSUME n.snap.index > 0
      PROVE  n.snap.index \in DOMAIN chosen /\ n.snap.term = chosen[n.snap.index].term
  BY <1>1, <1>2, <1>4 DEF Stands
<1> QED  BY <1>3, <1>4, Zenon

\* It holds at the start, with nothing written or acknowledged.
LEMMA LogInvInit ==
  ASSUME NEW V, Init
  PROVE  LogInv(V, EmptyMap, {}, [i \in Server |-> EmptyMap])
<1> DEFINE F == [i \in Server |-> EmptyMap]
<1>1. /\ msgs = {} /\ ballots = {} /\ chosen = EmptyMap
      /\ DOMAIN EmptyMap = {}
  BY Zenon DEF Init, EmptyMap
<1>2. ASSUME NEW i \in Server
      PROVE  NodeFits(V, EmptyMap, {}, F[i], i, node[i]) /\ node[i].commit = 0
  <2>1. /\ node[i].log = EmptyMap /\ node[i].snap = NoSnapshot /\ node[i].commit = NoSnapshot.index
        /\ node[i].role = Follower
    BY Zenon DEF Init, Recovered
  <2>2. NoSnapshot.index = 0 /\ NoSnapshot.term = 0
    BY Zenon DEF NoSnapshot
  <2>3. LastIndex(node[i]) = 0
    BY <1>1, <2>1, <2>2, Zenon DEF LastIndex
  <2>4. F[i] = EmptyMap
    BY Zenon
  <2>5. Stands(node[i], EmptyMap)
    BY <1>1, <2>1, <2>2, <2>3 DEF Stands
  <2>6. Sound(EmptyMap, EmptyMap)
    BY <1>1 DEF Sound
  <2> QED
    BY <1>1, <2>1, <2>2, <2>3, <2>4, <2>5, <2>6 DEF NodeFits, Backed, Follower, Leader
<1>6. BallotsCast
  BY Zenon DEF BallotsCast, Init, Recovered
<1> HIDE DEF F
<1>3. Written(EmptyMap) /\ LaterLeadersFit(V, EmptyMap, {}) /\ TermsFit(V, EmptyMap)
  BY <1>1, Zenon DEF Written, LaterLeadersFit, TermsFit
<1>4. AcksFit(V, EmptyMap, {}, F) /\ VotesFit(V, EmptyMap, {}, F) /\ CampaignsFit
  BY <1>1, Zenon DEF AcksFit, VotesFit, CampaignsFit
<1>5. ChosenFits(V, EmptyMap, {})
  BY <1>1, <1>2 DEF ChosenFits
<1> QED
  BY <1>1, <1>2, <1>3, <1>4, <1>5, <1>6, Zenon DEF LogInv, F

-----------------------------------------------------------------------------
(* More is written and more is acknowledged: what fitted still fits.       *)

\* A server that does not move still fits when others write and acknowledge.
LEMMA NodeFitsGrows ==
  ASSUME NEW V, NEW W, NEW W2, Extends(W, W2), NEW A, NEW A2, A \subseteq A2,
         NEW L, NEW i, NEW n, n.term \in Nat, NodeFits(V, W, A, L, i, n),
         n.role = Leader => W2[n.term] = W[n.term]
  PROVE  NodeFits(V, W2, A2, L, i, n)
<1>1. Sound(W2, L) /\ Backed(V, W2, A2, n.term, L, n.commit)
  BY SoundGrows, BackedGrows DEF NodeFits
<1>2. ASSUME n.role = Leader
      PROVE  W2[n.term] = L /\ LeadFits(W2, A2, i, n)
  BY <1>2, AckedGrows, Zenon DEF NodeFits, LeadFits, Extends
<1> QED
  BY <1>1, <1>2, Zenon DEF NodeFits

\* And so does a message under way.
LEMMA MsgFitsGrows ==
  ASSUME NEW V, NEW W, NEW W2, Extends(W, W2), NEW A, NEW A2, A \subseteq A2,
         DOMAIN chosen \subseteq DOMAIN chosen', NEW m, MsgFits(V, W, A, m)
  PROVE  MsgFits(V, W2, A2, m)'
<1>1. \A t, k : Decided(V, W, A, t, k) => Decided(V, W2, A2, t, k)
  BY DecidedGrows, Zenon
<1>2. m.type = "AppendEntries" => RequestFits(V, W2, A2, m)
  BY <1>1, Zenon DEF MsgFits, RequestFits, Extends
<1>3. m.type = "AppendEntriesResponse" => ReplyFits(W2, A2, m)
  BY AckedGrows, Zenon DEF MsgFits, ReplyFits, Extends
<1>4. m.type = "InstallSnapshot" => SnapshotFits(V, W2, A2, m)'
  BY <1>1, Zenon DEF MsgFits, SnapshotFits, Extends, Contains
<1> QED
  BY <1>2, <1>3, <1>4, Zenon DEF MsgFits, RequestFits, ReplyFits, Decided, Acked

\* Two nodes that stand for the same log end alike.
LEMMA SameEnd ==
  ASSUME NEW n, NEW n2, NEW L, Stands(n, L), Stands(n2, L),
         n.snap.index \in Nat, LastIndex(n) \in Nat, n2.snap.index \in Nat, LastIndex(n2) \in Nat
  PROVE  LastIndex(n2) = LastIndex(n) /\ LastTerm(n2) = LastTerm(n)
<1>1. 1..LastIndex(n) = 1..LastIndex(n2)
  BY Zenon DEF Stands
<1>2. LastIndex(n2) = LastIndex(n)
  BY <1>1
<1> QED
  BY <1>2, StandsEnd, Zenon

-----------------------------------------------------------------------------
(* One step.  Server i moves; in W2 its leader may have written more, in   *)
(* A2 it has acknowledged more, and L2 is now its log.                     *)

\* What it comes to for the rest.
Grown(V, W, A, W2, A2, i, out) ==
  /\ \A v \in Server : /\ node[v].term \in Nat /\ node'[v].term \in Nat
                       /\ node'[v].term >= node[v].term
  /\ \A j \in Server \ {i} : node'[j] = node[j]
  /\ ballots \subseteq ballots' /\ msgs' \subseteq msgs \cup out
  /\ DOMAIN chosen \subseteq DOMAIN chosen'
  /\ \A k \in DOMAIN chosen : chosen'[k] = chosen[k]
  /\ A \subseteq A2 /\ Extends(W, W2) /\ Written(W) /\ Written(W2)
  /\ \A a \in A2 \ A : a[1] = i /\ a[2] = node'[i].term
  /\ \A t \in Nat : \A k : Dead(V, A, t, k) => Dead(V, A2, t, k)'

\* What every step leaves of the histories.
LEMMA MovesGives ==
  ASSUME NEW V, NEW W, NEW A, NEW F, NEW W2, NEW A2, NEW L2, NEW i \in Server, NEW out,
         Moves(V, W, A, F, W2, A2, L2, i, out)
  PROVE  Grown(V, W, A, W2, A2, i, out)
<1>1. \A v \in Server : node[v].term \in Nat /\ node'[v].term \in Nat
  BY Zenon DEF Moves, Wellformed, IsNode
<1>2. \A j \in Server \ {i} : node'[j] = node[j]
  BY MovedAlone, Zenon DEF Moves
<1>3. \A v \in Server : node'[v].term >= node[v].term
  BY <1>1, <1>2 DEF Moves
<1>4. ballots \subseteq ballots' /\ msgs' \subseteq msgs \cup out
  <2>1. Moved(i, out)
    BY Zenon DEF Moves
  <2> QED  BY <2>1, MovedAlone, HistoriesGrow, Zenon
<1>5. DOMAIN chosen \subseteq DOMAIN chosen' /\ \A k \in DOMAIN chosen : chosen'[k] = chosen[k]
  BY Zenon DEF Moves, Learn, Over
<1>6. A \subseteq A2 /\ Extends(W, W2) /\ Written(W) /\ Written(W2)
  BY Zenon DEF Moves, StepFits, NewAcksFit, WritesFit, LogInv
<1>7. \A a \in A2 \ A : a[1] = i /\ a[2] = node'[i].term
  BY Zenon DEF Moves, StepFits, NewAcksFit
<1>8. \A a \in A2 \ A : a[1] \in Server /\ a[2] >= node[a[1]].term
  BY <1>3, <1>7, Zenon
<1>9. ASSUME NEW t \in Nat, NEW k, Dead(V, A, t, k)
      PROVE  Dead(V, A2, t, k)'
  BY <1>1, <1>3, <1>8, <1>9, DeadLasts, Zenon
<1> QED
  BY <1>1, <1>2, <1>3, <1>4, <1>5, <1>6, <1>7, <1>9, Zenon DEF Grown

(* The nodes and the messages still fit.                                   *)
LEMMA MovesNodes ==
  ASSUME Counting,
         NEW V, NEW W, NEW A, NEW F, NEW W2, NEW A2, NEW L2, NEW i \in Server, NEW out,
         NEW F2, F2 = [j \in Server |-> IF j = i THEN L2 ELSE F[j]], V \in SUBSET Server,
         Moves(V, W, A, F, W2, A2, L2, i, out)
  PROVE  /\ \A j \in Server : NodeFits(V, W2, A2, F2[j], j, node'[j])
         /\ \A m \in msgs' : MsgFits(V, W2, A2, m)'
<1>0. /\ \A j \in Server \ {i} : node'[j] = node[j]
      /\ msgs' \subseteq msgs \cup out /\ DOMAIN chosen \subseteq DOMAIN chosen'
      /\ A \subseteq A2 /\ Extends(W, W2)
  <2>1. Grown(V, W, A, W2, A2, i, out)
    BY MovesGives, Zenon
  <2> QED  BY <2>1, Zenon DEF Grown
<1>1. NodeFits(V, W2, A2, L2, i, node'[i])
  BY Zenon DEF Moves, StepFits
<1>2. ASSUME NEW j \in Server, j # i
      PROVE  NodeFits(V, W2, A2, F[j], j, node'[j])
  <2>1. NodeFits(V, W, A, F[j], j, node[j]) /\ node'[j] = node[j] /\ Stable(V, node[j])
    BY <1>0, <1>2, Zenon DEF Moves, LogInv, VotersStay
  <2>2. node[j].role = Leader => W2[node[j].term] = W[node[j].term]
    <3> SUFFICES ASSUME node[j].role = Leader
                 PROVE  W2[node[j].term] = W[node[j].term]
      BY Zenon
    <3>1. node[j].term \in DOMAIN W
      BY <2>1, Zenon DEF NodeFits, LeadFits
    <3>2. node[j].term \in DOMAIN W2
      BY <3>1, <1>0, Zenon DEF Extends
    <3>3. CASE node[j].term = node'[i].term /\ node'[i].role = Leader
      <4>1. LeadersOk(V)' /\ BallotsOk'
        BY Zenon DEF Moves, ElectionInv
      <4>2. PICK P \in SUBSET Server :
              IsMajority(V, P) /\ \A v \in P : <<v, node'[i].term, i>> \in ballots'
        BY <3>3, <4>1, Zenon DEF LeadersOk, Carried
      <4>3. PICK Q \in SUBSET Server :
              IsMajority(V, Q) /\ \A v \in Q : <<v, node'[j].term, j>> \in ballots'
        BY <2>1, <3>3, <4>1, Zenon DEF LeadersOk, Carried
      <4>4. PICK v : v \in P /\ v \in Q
        BY <4>2, <4>3, MajoritiesMeet, Zenon
      <4>5. <<v, node'[i].term, i>> \in ballots' /\ <<v, node'[i].term, j>> \in ballots'
        BY <2>1, <3>3, <4>2, <4>3, <4>4, Zenon
      <4>6. <<v, node'[i].term, i>>[3] = <<v, node'[i].term, j>>[3]
        BY <4>1, <4>5, Zenon DEF BallotsOk
      <4> QED  BY <1>2, <4>6, Zenon
    <3> QED  BY <3>2, <3>3, Zenon DEF Moves, StepFits, WritesFit
  <2>3. NodeFits(V, W2, A2, F[j], j, node[j])
    BY <1>0, <2>1, <2>2, NodeFitsGrows, Zenon DEF Stable, IsNode
  <2> QED  BY <2>1, <2>3, Zenon
<1>3. ASSUME NEW m \in msgs'
      PROVE  MsgFits(V, W2, A2, m)'
  <2>1. CASE m \in msgs
    <3>1. MsgFits(V, W, A, m)
      BY <2>1, Zenon DEF Moves, LogInv
    <3> QED  BY <1>0, <3>1, MsgFitsGrows, Zenon
  <2>2. CASE m \in out
    <3>1. MsgFits(V, W2, A2, m) /\ Extends(W2, W2)
      BY <2>2, Zenon DEF Moves, StepFits, Extends
    <3> QED  BY <1>0, <3>1, MsgFitsGrows, Zenon
  <2> QED  BY <1>0, <2>1, <2>2, Zenon
<1> QED
  BY <1>1, <1>2, <1>3, Zenon

(* A later leader still has what an earlier one wrote, or it is dead: what *)
(* a leader writes when a later one has been elected already is dead from  *)
(* the start.                                                              *)
LEMMA MovesLeaders ==
  ASSUME NEW V, NEW W, NEW A, NEW F, NEW W2, NEW A2, NEW L2, NEW i \in Server, NEW out,
         Moves(V, W, A, F, W2, A2, L2, i, out)
  PROVE  LaterLeadersFit(V, W2, A2)'
<1>1. Grown(V, W, A, W2, A2, i, out)
  BY MovesGives, Zenon
<1>2. /\ Extends(W, W2) /\ Written(W) /\ Written(W2) /\ A \subseteq A2
      /\ \A a \in A2 \ A : a[1] = i /\ a[2] = node'[i].term
      /\ \A t \in Nat : \A k : Dead(V, A, t, k) => Dead(V, A2, t, k)'
      /\ \A v \in Server : /\ node[v].term \in Nat /\ node'[v].term \in Nat
                           /\ node'[v].term >= node[v].term
  BY <1>1, Zenon DEF Grown
<1>3. WritesFit(V, W, W2, A2, L2, node'[i]) /\ NodeFits(V, W2, A2, L2, i, node'[i])
  BY Zenon DEF Moves, StepFits
<1>4. /\ LaterLeadersFit(V, W, A) /\ AcksFit(V, W, A, F) /\ TermsFit(V, W) /\ BallotsOk
  BY Zenon DEF Moves, LogInv, ElectionInv
<1>5. ASSUME NEW t \in DOMAIN W2, NEW u \in DOMAIN W2, t < u,
             NEW k \in DOMAIN W2[t], Own(W2, t, k)
      PROVE  Contains(W2[u], t, k) \/ Dead(V, A2, t, k)'
  <2>1. t \in Nat /\ u \in Nat /\ k \in Nat /\ k >= 1
    BY <1>2 DEF Written, Sound
  <2>2. CASE t \in DOMAIN W /\ k \in DOMAIN W[t]
    <3>1. Own(W, t, k)
      BY <1>2, <1>5, <2>2, Zenon DEF Own, Contains, Extends
    <3>2. CASE u \in DOMAIN W
      <4>1. Contains(W[u], t, k) \/ Dead(V, A, t, k)
        BY <1>4, <1>5, <2>2, <3>1, <3>2, Zenon DEF LaterLeadersFit
      <4>2. Contains(W[u], t, k) => Contains(W2[u], t, k)
        BY <1>2, <3>2, Zenon DEF Contains, Extends
      <4> QED  BY <1>2, <2>1, <4>1, <4>2, Zenon
    <3>3. CASE u \notin DOMAIN W
      <4>1. u = node'[i].term /\ node'[i].role = Leader
        BY <1>3, <3>3, Zenon DEF WritesFit
      <4>2. Contains(L2, t, k) \/ Dead(V, A2, t, k)'
        BY <1>3, <1>5, <2>2, <3>1, <3>3, <4>1, Zenon DEF WritesFit
      <4>3. W2[u] = L2
        BY <1>3, <4>1, Zenon DEF NodeFits
      <4> QED  BY <4>2, <4>3, Zenon
    <3> QED  BY <3>2, <3>3, Zenon
  <2>3. CASE ~(t \in DOMAIN W /\ k \in DOMAIN W[t])
    <3>1. t = node'[i].term /\ u \in DOMAIN W
      BY <1>3, <1>5, <2>1, <2>3 DEF WritesFit
    <3>2. PICK c \in Server : Carried(V, c, u)
      BY <1>4, <3>1, Zenon DEF TermsFit
    <3>3. PICK Q \in SUBSET Server : IsMajority(V, Q) /\ \A v \in Q : <<v, u, c>> \in ballots
      BY <3>2, Zenon DEF Carried
    <3>4. ASSUME NEW v \in Q
          PROVE  node'[v].term > t /\ ~Acked(A2, v, t, k)
      <4>1. v \in Server /\ node[v].term >= u
        <5>1. <<v, u, c>> \in ballots
          BY <3>3, Zenon
        <5>2. <<v, u, c>>[2] <= node[<<v, u, c>>[1]].term
          BY <1>4, <5>1, Zenon DEF BallotsOk
        <5>3. v \in Server
          BY Zenon
        <5> QED  BY <1>2, <2>1, <5>2, <5>3, Zenon
      <4>2. node'[v].term > t /\ v # i
        BY <1>2, <1>5, <2>1, <3>1, <4>1
      <4>3. ASSUME NEW a \in A2, a[1] = v, a[2] = t, a[3] >= k
            PROVE  FALSE
        <5>1. a \in A
          BY <1>2, <4>2, <4>3, Zenon
        <5>2. t \in DOMAIN W /\ a[3] \in Nat /\ (a[3] > 0 => a[3] \in DOMAIN W[t])
          BY <1>4, <4>3, <5>1, Zenon DEF AcksFit
        <5>3. PICK len \in Nat : DOMAIN W[t] = 1..len
          BY <1>2, <5>2, Zenon DEF Written, Sound
        <5>4. a[3] \in 1..len
          BY <2>1, <4>3, <5>2, <5>3
        <5>5. k \in 1..len
          BY <2>1, <4>3, <5>2, <5>4
        <5> QED  BY <2>3, <5>2, <5>3, <5>5, Zenon
      <4> QED  BY <4>2, <4>3, Zenon DEF Acked
    <3>5. Dead(V, A2, t, k)'
      BY <3>3, <3>4, Zenon DEF Dead, Acked
    <3> QED  BY <3>5, Zenon
  <2> QED  BY <2>2, <2>3, Zenon
<1> QED
  BY <1>5, Zenon DEF LaterLeadersFit, Own, Contains

(* Acknowledged entries stay in the logs, or are dead.                     *)
LEMMA MovesAcks ==
  ASSUME NEW V, NEW W, NEW A, NEW F, NEW W2, NEW A2, NEW L2, NEW i \in Server, NEW out,
         NEW F2, F2 = [j \in Server |-> IF j = i THEN L2 ELSE F[j]],
         Moves(V, W, A, F, W2, A2, L2, i, out)
  PROVE  AcksFit(V, W2, A2, F2)'
<1>1. Grown(V, W, A, W2, A2, i, out)
  BY MovesGives, Zenon
<1>2. /\ Extends(W, W2) /\ Written(W) /\ Written(W2) /\ A \subseteq A2
      /\ \A a \in A2 \ A : a[1] = i /\ a[2] = node'[i].term
      /\ \A t \in Nat : \A k : Dead(V, A, t, k) => Dead(V, A2, t, k)'
      /\ \A v \in Server : /\ node[v].term \in Nat /\ node'[v].term \in Nat
                           /\ node'[v].term >= node[v].term
  BY <1>1, Zenon DEF Grown
<1>3. NewAcksFit(A, W2, A2, L2, i, node'[i].term) /\ Keeps(V, W, A, F[i], L2, i)
  BY Zenon DEF Moves, StepFits
<1>4. AcksFit(V, W, A, F)
  BY Zenon DEF Moves, LogInv
<1>5. ASSUME NEW a \in A2
      PROVE  /\ a[1] \in Server /\ a[2] \in DOMAIN W2 /\ a[2] <= node'[a[1]].term
             /\ a[3] \in Nat /\ (a[3] > 0 => a[3] \in DOMAIN W2[a[2]])
             /\ \A k \in 1..a[3] : Own(W2, a[2], k) =>
                  Contains(F2[a[1]], a[2], k) \/ Dead(V, A2, a[2], k)'
  <2>1. CASE a \in A
    <3>1. /\ a[1] \in Server /\ a[2] \in DOMAIN W /\ a[2] <= node[a[1]].term
          /\ a[3] \in Nat /\ (a[3] > 0 => a[3] \in DOMAIN W[a[2]])
          /\ \A k \in 1..a[3] : Own(W, a[2], k) =>
               Contains(F[a[1]], a[2], k) \/ Dead(V, A, a[2], k)
      BY <1>4, <2>1, Zenon DEF AcksFit
    <3>2. a[2] \in Nat /\ \E len \in Nat : DOMAIN W[a[2]] = 1..len
      BY <1>2, <3>1, Zenon DEF Written, Sound
    <3>3. ASSUME NEW k \in 1..a[3], Own(W2, a[2], k)
          PROVE  Contains(F2[a[1]], a[2], k) \/ Dead(V, A2, a[2], k)'
      <4>1. k \in DOMAIN W[a[2]]
        BY <3>1, <3>2
      <4>2. Own(W, a[2], k)
        BY <1>2, <3>1, <3>3, <4>1, Zenon DEF Own, Contains, Extends
      <4>3. Contains(F[a[1]], a[2], k) \/ Dead(V, A, a[2], k)
        BY <3>1, <4>2, Zenon
      <4>4. CASE Dead(V, A, a[2], k)
        BY <1>2, <3>2, <4>4, Zenon
      <4>5. CASE Contains(F[a[1]], a[2], k) /\ a[1] # i
        BY <3>1, <4>5, Zenon
      <4>6. CASE Contains(F[a[1]], a[2], k) /\ a[1] = i
        <5>1. Acked(A, i, a[2], k)
          BY <2>1, <3>1, <4>6 DEF Acked
        <5>2. Contains(L2, a[2], k) \/ Dead(V, A, a[2], k)
          BY <1>3, <4>2, <4>6, <5>1, Zenon DEF Keeps
        <5> QED  BY <1>2, <3>2, <4>6, <5>2, Zenon
      <4> QED  BY <4>3, <4>4, <4>5, <4>6, Zenon
    <3>4. a[2] <= node'[a[1]].term
      BY <1>2, <3>1, <3>2
    <3> QED  BY <1>2, <3>1, <3>3, <3>4, Zenon DEF Extends
  <2>2. CASE a \notin A
    <3>1. /\ a[1] = i /\ a[2] = node'[i].term /\ a[2] \in DOMAIN W2
          /\ a[3] \in Nat /\ Agree(L2, W2[a[2]], a[3])
      BY <1>3, <2>2, Zenon DEF NewAcksFit
    <3>2. a[3] > 0 => a[3] \in DOMAIN W2[a[2]]
      BY <3>1 DEF Agree
    <3>3. \A k \in 1..a[3] : Own(W2, a[2], k) => Contains(F2[a[1]], a[2], k)
      BY <3>1, Zenon DEF Agree, Own, Contains
    <3> QED  BY <1>2, <3>1, <3>2, <3>3
  <2> QED  BY <2>1, <2>2, Zenon
<1> QED
  BY <1>5, Zenon DEF AcksFit, Own, Contains

(* A candidate still has what its voters have acknowledged.                *)
LEMMA MovesVotes ==
  ASSUME NEW V, NEW W, NEW A, NEW F, NEW W2, NEW A2, NEW L2, NEW i \in Server, NEW out,
         NEW F2, F2 = [j \in Server |-> IF j = i THEN L2 ELSE F[j]],
         Moves(V, W, A, F, W2, A2, L2, i, out), AcksFit(V, W2, A2, F2)'
  PROVE  VotesFit(V, W2, A2, F2)'
<1>1. Grown(V, W, A, W2, A2, i, out)
  BY MovesGives, Zenon
<1>2. /\ Extends(W, W2) /\ Written(W) /\ Written(W2) /\ A \subseteq A2
      /\ \A a \in A2 \ A : a[1] = i /\ a[2] = node'[i].term
      /\ \A t \in Nat : \A k : Dead(V, A, t, k) => Dead(V, A2, t, k)'
      /\ \A v \in Server : /\ node[v].term \in Nat /\ node'[v].term \in Nat
                           /\ node'[v].term >= node[v].term
      /\ \A j \in Server \ {i} : node'[j] = node[j]
  BY <1>1, Zenon DEF Grown
<1>3. /\ CampaignFits(node[i], node'[i], F[i], L2)
      /\ node'[i].votedFor # Nil /\ <<i, node'[i].term, node'[i].votedFor>> \notin ballots =>
           \/ node'[i].votedFor = i
           \/ VoteFits(V, W, A, F, i, node'[i].term, node'[i].votedFor)
  BY Zenon DEF Moves, StepFits
<1>4. /\ AcksFit(V, W, A, F) /\ VotesFit(V, W, A, F) /\ BallotsOk /\ BallotsOk'
  BY Zenon DEF Moves, LogInv, ElectionInv
<1>5. \A b \in ballots' \ ballots :
        b = <<i, node'[i].term, node'[i].votedFor>> /\ node'[i].votedFor # Nil
  <2>1. Moved(i, out)
    BY Zenon DEF Moves
  <2> QED  BY <2>1, HistoriesGrow, Zenon
(* What an old acknowledgement says of an entry, for the new state.        *)
<1>6. ASSUME NEW a \in A, NEW L, NEW k \in 1..a[3], Own(W2, a[2], k),
             \A l \in 1..a[3] : Own(W, a[2], l) => Contains(L, a[2], l) \/ Dead(V, A, a[2], l)
      PROVE  Contains(L, a[2], k) \/ Dead(V, A2, a[2], k)'
  <2>1. a[2] \in DOMAIN W /\ a[3] \in Nat /\ (a[3] > 0 => a[3] \in DOMAIN W[a[2]])
    BY <1>4, <1>6, Zenon DEF AcksFit
  <2>2. a[2] \in Nat /\ \E len \in Nat : DOMAIN W[a[2]] = 1..len
    BY <1>2, <2>1, Zenon DEF Written, Sound
  <2>3. k \in DOMAIN W[a[2]]
    BY <2>1, <2>2
  <2>4. Own(W, a[2], k)
    BY <1>2, <1>6, <2>1, <2>3, Zenon DEF Own, Contains, Extends
  <2>5. Contains(L, a[2], k) \/ Dead(V, A, a[2], k)
    BY <1>6, <2>4, Zenon
  <2> QED  BY <1>2, <2>2, <2>5, Zenon
<1>7. ASSUME NEW b \in ballots'
      PROVE  /\ b[3] \in Server /\ b[2] <= node'[b[3]].term
             /\ node'[b[3]].role = Candidate /\ node'[b[3]].term = b[2] =>
                  \A a \in A2 : a[1] = b[1] /\ a[2] < b[2] =>
                    \A k \in 1..a[3] : Own(W2, a[2], k) =>
                      Contains(F2[b[3]], a[2], k) \/ Dead(V, A2, a[2], k)'
  <2> DEFINE c == b[3]
  <2>1. CASE b \in ballots
    <3>1. /\ c \in Server /\ b[2] <= node[c].term /\ b[1] \in Server /\ b[2] \in Nat
          /\ b[2] <= node[b[1]].term
          /\ node[c].role = Candidate /\ node[c].term = b[2] =>
               \A a \in A : a[1] = b[1] /\ a[2] < b[2] =>
                 \A k \in 1..a[3] :
                   Own(W, a[2], k) => Contains(F[c], a[2], k) \/ Dead(V, A, a[2], k)
      BY <1>4, <2>1, Zenon DEF VotesFit, BallotsOk
    <3>2. b[2] <= node'[c].term
      BY <1>2, <3>1
    <3>3. ASSUME node'[c].role = Candidate, node'[c].term = b[2],
                 NEW a \in A2, a[1] = b[1], a[2] < b[2], NEW k \in 1..a[3], Own(W2, a[2], k)
          PROVE  Contains(F2[c], a[2], k) \/ Dead(V, A2, a[2], k)'
      <4>1. a \in A
        BY <1>2, <3>1, <3>3
      <4>2. node[c].role = Candidate /\ node[c].term = b[2] /\ F2[c] = F[c]
        <5>1. CASE c # i
          BY <1>2, <3>1, <3>3, <5>1, Zenon
        <5>2. CASE c = i
          <6>1. L2 = F[i] /\ (node'[i].term > node[i].term \/ node[i].role = Candidate)
            BY <1>3, <3>3, <5>2, Zenon DEF CampaignFits
          <6>2. ~(node'[i].term > node[i].term)
            BY <1>2, <3>1, <3>3, <5>2
          <6> QED  BY <1>2, <3>1, <3>3, <5>2, <6>1, <6>2
        <5> QED  BY <5>1, <5>2, Zenon
      <4>3. \A l \in 1..a[3] : Own(W, a[2], l) => Contains(F2[c], a[2], l) \/ Dead(V, A, a[2], l)
        BY <3>1, <3>3, <4>1, <4>2, Zenon
      <4> QED  BY <1>6, <3>3, <4>1, <4>3, Zenon
    <3> QED  BY <3>1, <3>2, <3>3, Zenon
  <2>2. CASE b \notin ballots
    <3>1. b[1] = i /\ b[2] = node'[i].term /\ c = node'[i].votedFor /\ c # Nil
      BY <1>5, <2>2
    <3>2. CASE c = i
      <4>1. ASSUME NEW a \in A2, a[1] = i, NEW k \in 1..a[3], Own(W2, a[2], k)
            PROVE  Contains(F2[i], a[2], k) \/ Dead(V, A2, a[2], k)'
        BY <4>1, Zenon DEF AcksFit, Own, Contains
      <4> QED  BY <1>2, <3>1, <3>2, <4>1
    <3>3. CASE c # i
      <4>1. VoteFits(V, W, A, F, i, node'[i].term, c)
        BY <1>3, <1>5, <2>2, <3>1, <3>3, Zenon
      <4>2. c \in Server /\ b[2] <= node[c].term /\ node'[c] = node[c] /\ F2[c] = F[c]
        BY <1>2, <3>1, <3>3, <4>1, Zenon DEF VoteFits
      <4>3. ASSUME node[c].role = Candidate, node[c].term = b[2],
                   NEW a \in A2, a[1] = i, a[2] < b[2], NEW k \in 1..a[3], Own(W2, a[2], k)
            PROVE  Contains(F2[c], a[2], k) \/ Dead(V, A2, a[2], k)'
        <5>1. a \in A
          BY <1>2, <3>1, <4>3
        <5>2. \A l \in 1..a[3] : Own(W, a[2], l) => Contains(F2[c], a[2], l) \/ Dead(V, A, a[2], l)
          BY <3>1, <4>1, <4>2, <4>3, <5>1, Zenon DEF VoteFits
        <5> QED  BY <1>6, <4>3, <5>1, <5>2, Zenon
      <4> QED  BY <3>1, <4>2, <4>3, Zenon
    <3> QED  BY <3>2, <3>3, Zenon
  <2> QED  BY <2>1, <2>2, Zenon
<1> QED
  BY <1>7, Zenon DEF VotesFit, Own, Contains

(* A request for a vote still shows the log of its candidate, and who      *)
(* wrote for a term will not run in it again.                              *)
LEMMA MovesCampaigns ==
  ASSUME Counting,
         NEW V, NEW W, NEW A, NEW F, NEW W2, NEW A2, NEW L2, NEW i \in Server, NEW out,
         Moves(V, W, A, F, W2, A2, L2, i, out)
  PROVE  CampaignsFit' /\ TermsFit(V, W2)'
<1>1. Grown(V, W, A, W2, A2, i, out)
  BY MovesGives, Zenon
<1>2. /\ Extends(W, W2) /\ Written(W) /\ Written(W2)
      /\ \A v \in Server : /\ node[v].term \in Nat /\ node'[v].term \in Nat
                           /\ node'[v].term >= node[v].term
      /\ \A j \in Server \ {i} : node'[j] = node[j]
      /\ ballots \subseteq ballots' /\ msgs' \subseteq msgs \cup out
  BY <1>1, Zenon DEF Grown
<1>3. /\ CampaignFits(node[i], node'[i], F[i], L2) /\ WritesFit(V, W, W2, A2, L2, node'[i])
      /\ \A m \in out : Asks(i, node'[i], m)
  BY Zenon DEF Moves, StepFits
<1>4. CampaignsFit /\ TermsFit(V, W) /\ LeadersOk(V)' /\ \A m \in msgs : m.term \in Nat
  BY Zenon DEF Moves, LogInv, ElectionInv, Wellformed
<1>5. ASSUME node'[i].role = Candidate, node'[i].term = node[i].term
      PROVE  /\ node[i].role = Candidate
             /\ LastIndex(node'[i]) = LastIndex(node[i]) /\ LastTerm(node'[i]) = LastTerm(node[i])
  <2>1. L2 = F[i] /\ node[i].role = Candidate
    BY <1>2, <1>3, <1>5 DEF CampaignFits
  <2>2. Stands(node[i], F[i]) /\ Stands(node'[i], F[i])
    BY <2>1, Zenon DEF Moves, StepFits, LogInv, NodeFits
  <2>3. Stable(V, node[i]) /\ Stable(V, node'[i])
    BY Zenon DEF Moves, VotersStay
  <2>4. /\ node[i].snap.index \in Nat /\ node'[i].snap.index \in Nat
        /\ LastIndex(node[i]) \in Nat /\ LastIndex(node'[i]) \in Nat
    BY <2>3, LastIndexIs, Zenon DEF Stable, SnapOk
  <2> QED  BY <2>1, <2>2, <2>4, SameEnd, Zenon
<1>6. ASSUME NEW m \in msgs', m.type = "RequestVote"
      PROVE  /\ m.from \in Server /\ m.term <= node'[m.from].term
             /\ node'[m.from].role = Candidate /\ node'[m.from].term = m.term =>
                  m.lastTerm = LastTerm(node'[m.from]) /\ m.lastIndex = LastIndex(node'[m.from])
  <2>1. CASE m \in out
    <3>1. m.from = i /\ m.term = node'[i].term
          /\ m.lastTerm = LastTerm(node'[i]) /\ m.lastIndex = LastIndex(node'[i])
      BY <1>3, <1>6, <2>1, Zenon DEF Asks
    <3> QED  BY <1>2, <3>1
  <2>2. CASE m \in msgs
    <3>1. /\ m.from \in Server /\ m.term <= node[m.from].term /\ m.term \in Nat
          /\ node[m.from].role = Candidate /\ node[m.from].term = m.term =>
                  m.lastTerm = LastTerm(node[m.from]) /\ m.lastIndex = LastIndex(node[m.from])
      BY <1>4, <1>6, <2>2, Zenon DEF CampaignsFit
    <3>2. m.term <= node'[m.from].term
      BY <1>2, <3>1
    <3>3. CASE m.from # i
      BY <1>2, <3>1, <3>3, Zenon
    <3>4. CASE m.from = i
      <4>1. node'[i].term = m.term => node'[i].term = node[i].term
        BY <1>2, <3>1, <3>4
      <4> QED  BY <1>5, <3>1, <3>2, <3>4, <4>1, Zenon
    <3> QED  BY <3>3, <3>4, Zenon
  <2> QED  BY <1>2, <2>1, <2>2, Zenon
<1>7. ASSUME NEW t \in DOMAIN W2
      PROVE  \E c \in Server :
               /\ Carried(V, c, t)'
               /\ t <= node'[c].term
               /\ node'[c].term = t => node'[c].role # Candidate
  <2>1. CASE t \in DOMAIN W
    <3>1. PICK c \in Server : /\ Carried(V, c, t) /\ t <= node[c].term
                              /\ node[c].term = t => node[c].role # Candidate
      BY <1>4, <2>1, Zenon DEF TermsFit
    <3>2. Carried(V, c, t)'
      BY <1>2, <3>1, Zenon DEF Carried
    <3>3. t \in Nat
      BY <1>2, Zenon DEF Written
    <3>4. t <= node'[c].term
      BY <1>2, <3>1, <3>3
    <3>5. node'[c].term = t => node'[c].role # Candidate
      <4>1. CASE c # i
        BY <1>2, <3>1, <4>1, Zenon
      <4>2. CASE c = i
        <5>1. node'[i].term = t => node'[i].term = node[i].term
          BY <1>2, <3>1, <3>3, <4>2
        <5> QED  BY <1>5, <3>1, <4>2, <5>1, Zenon
      <4> QED  BY <4>1, <4>2, Zenon
    <3> QED  BY <3>2, <3>4, <3>5, Zenon
  <2>2. CASE t \notin DOMAIN W
    <3>1. t = node'[i].term /\ node'[i].role = Leader
      BY <1>3, <2>2, Zenon DEF WritesFit
    <3>2. Carried(V, i, t)'
      BY <1>4, <3>1, Zenon DEF LeadersOk, Carried
    <3> QED  BY <1>2, <3>1, <3>2 DEF Leader, Candidate
  <2> QED  BY <2>1, <2>2, Zenon
<1> QED
  BY <1>6, <1>7, Zenon DEF CampaignsFit, TermsFit

(* What has been chosen is a prefix of the log of some decided entry.      *)
LEMMA MovesChosen ==
  ASSUME Counting,
         NEW V, NEW W, NEW A, NEW F, NEW W2, NEW A2, NEW L2, NEW i \in Server, NEW out,
         Moves(V, W, A, F, W2, A2, L2, i, out)
  PROVE  ChosenFits(V, W2, A2)'
<1> DEFINE n2 == node'[i]
<1>1. Grown(V, W, A, W2, A2, i, out)
  BY MovesGives, Zenon
<1>2. /\ Extends(W, W2) /\ Written(W) /\ A \subseteq A2
      /\ \A j \in Server \ {i} : node'[j] = node[j]
      /\ DOMAIN chosen \subseteq DOMAIN chosen'
      /\ \A k \in DOMAIN chosen : chosen'[k] = chosen[k]
  BY <1>1, Zenon DEF Grown
<1>3. /\ Stands(n2, L2) /\ Backed(V, W2, A2, n2.term, L2, n2.commit)
      /\ n2.snap.index <= n2.commit /\ n2.commit <= LastIndex(n2)
      /\ n2.snap.index > 0 => n2.snap.index \in DOMAIN chosen
  BY Zenon DEF Moves, StepFits, NodeFits
<1>4. n2.snap.index \in Nat /\ LastIndex(n2) \in Nat /\ n2.commit \in Nat
  <2>1. Stable(V, n2)
    BY Zenon DEF Moves, VotersStay
  <2> QED  BY <2>1, LastIndexIs, Zenon DEF Stable, SnapOk
<1>5. ChosenFits(V, W, A)
  BY Zenon DEF Moves, LogInv
<1>6. /\ DOMAIN chosen' = DOMAIN chosen \cup {k \in DOMAIN n2.log : k <= n2.commit}
      /\ \A k \in DOMAIN chosen' \ DOMAIN chosen : chosen'[k] = n2.log[k]
  BY Zenon DEF Moves, Learn, Over, Restrict
<1> HIDE DEF n2
<1>7. DOMAIN n2.log = (n2.snap.index + 1)..LastIndex(n2) /\ \A k \in DOMAIN n2.log : n2.log[k] = L2[k]
  BY <1>3, Zenon DEF Stands
<1>8. ASSUME NEW k \in DOMAIN chosen'
      PROVE  /\ k \in Nat /\ k > 0 /\ \A j \in 1..k : j \in DOMAIN chosen'
             /\ \E t, j \in Nat : j >= k /\ Decided(V, W2, A2, t, j) /\ chosen'[k] = W2[t][k]
  <2>1. CASE k \in DOMAIN chosen
    <3>1. /\ k \in Nat /\ k > 0 /\ \A j \in 1..k : j \in DOMAIN chosen
      BY <1>5, <2>1, Zenon DEF ChosenFits
    <3>2. PICK t, j \in Nat : j >= k /\ Decided(V, W, A, t, j) /\ chosen[k] = W[t][k]
      BY <1>5, <2>1, Zenon DEF ChosenFits
    <3>3. Decided(V, W2, A2, t, j)
      BY <1>2, <3>2, DecidedGrows, Zenon
    <3>4. t \in DOMAIN W /\ j \in DOMAIN W[t]
      BY <3>2, Zenon DEF Decided, Own, Contains
    <3>5. k \in DOMAIN W[t]
      <4>1. PICK len \in Nat : DOMAIN W[t] = 1..len
        BY <1>2, <3>4, Zenon DEF Written, Sound
      <4> QED  BY <3>1, <3>2, <3>4, <4>1
    <3>6. chosen'[k] = W2[t][k]
      BY <1>2, <2>1, <3>2, <3>4, <3>5, Zenon DEF Extends
    <3> QED  BY <1>2, <3>1, <3>2, <3>3, <3>6, Zenon
  <2>2. CASE k \notin DOMAIN chosen
    <3>1. /\ k \in DOMAIN n2.log /\ k <= n2.commit /\ chosen'[k] = L2[k]
          /\ k \in Nat /\ k > n2.snap.index /\ k <= LastIndex(n2)
      BY <1>4, <1>6, <1>7, <2>2
    <3>2. ASSUME NEW j \in 1..k
          PROVE  j \in DOMAIN chosen'
      <4>1. CASE j <= n2.snap.index
        <5>1. n2.snap.index > 0 /\ n2.snap.index \in DOMAIN chosen
          BY <1>3, <1>4, <3>1, <4>1
        <5>2. j \in 1..n2.snap.index
          BY <1>4, <3>1, <4>1
        <5> QED  BY <1>2, <1>5, <5>1, <5>2, Zenon DEF ChosenFits
      <4>2. CASE j > n2.snap.index
        BY <1>4, <1>6, <1>7, <3>1, <4>2
      <4> QED  BY <1>4, <3>1, <4>1, <4>2
    <3>3. PICK t, j \in Nat : j >= n2.commit /\ Decided(V, W2, A2, t, j) /\ Agree(W2[t], L2, n2.commit)
      BY <1>3, <1>4, <3>1 DEF Backed
    <3>4. L2[k] = W2[t][k] /\ j >= k
      BY <1>4, <3>1, <3>3 DEF Agree
    <3> QED  BY <1>4, <3>1, <3>2, <3>3, <3>4
  <2> QED  BY <2>1, <2>2, Zenon
<1>9. ASSUME NEW j \in Server, node'[j].commit > 0
      PROVE  node'[j].commit \in DOMAIN chosen'
  <2>1. CASE j # i
    BY <1>2, <1>5, <1>9, <2>1, Zenon DEF ChosenFits
  <2>2. CASE j = i
    <3>1. n2.commit > 0
      BY <1>9, <2>2, Zenon DEF n2
    <3>2. n2.commit \in DOMAIN chosen'
      <4>1. CASE n2.commit > n2.snap.index
        BY <1>3, <1>4, <1>6, <1>7, <4>1
      <4>2. CASE n2.commit = n2.snap.index
        BY <1>2, <1>3, <3>1, <4>2, Zenon
      <4> QED  BY <1>3, <1>4, <4>1, <4>2
    <3> QED  BY <2>2, <3>2, Zenon DEF n2
  <2> QED  BY <2>1, <2>2, Zenon
<1> QED
  BY <1>8, <1>9, Zenon DEF ChosenFits, Decided, Own, Contains, Acked

(* The step preserves the invariant.                                       *)
LEMMA LogStep ==
  ASSUME Counting, NEW V \in SUBSET Server, NEW W, NEW A, NEW F, NEW W2, NEW A2, NEW L2,
         NEW i \in Server, NEW out, Moves(V, W, A, F, W2, A2, L2, i, out)
  PROVE  \E F2 : LogInv(V, W2, A2, F2)'
<1>1. PICK F2 : F2 = [j \in Server |-> IF j = i THEN L2 ELSE F[j]]
  BY Zenon
<1>0. BallotsCast'
  <2>1. Moved(i, out) /\ BallotsCast
    BY Zenon DEF Moves, LogInv
  <2>2. /\ \A j \in Server \ {i} : node'[j] = node[j]
        /\ ballots \subseteq ballots'
        /\ node'[i].votedFor # Nil => <<i, node'[i].term, node'[i].votedFor>> \in ballots'
    BY <2>1, MovedAlone, HistoriesGrow, Zenon
  <2> QED  BY <2>1, <2>2, Zenon DEF BallotsCast
<1>2. /\ \A j \in Server : NodeFits(V, W2, A2, F2[j], j, node'[j])
      /\ \A m \in msgs' : MsgFits(V, W2, A2, m)'
  BY <1>1, MovesNodes
<1>3. Written(W2)
  BY Zenon DEF Moves, StepFits, WritesFit
<1>4. LaterLeadersFit(V, W2, A2)'
  BY MovesLeaders, Zenon
<1>5. AcksFit(V, W2, A2, F2)'
  BY <1>1, MovesAcks, Zenon
<1>6. VotesFit(V, W2, A2, F2)'
  BY <1>1, <1>5, MovesVotes, Zenon
<1>7. CampaignsFit' /\ TermsFit(V, W2)'
  BY MovesCampaigns, Zenon
<1>8. ChosenFits(V, W2, A2)'
  BY MovesChosen, Zenon
<1>9. \A j \in Server : NodeFits(V, W2, A2, F2[j], j, node[j])'
  BY <1>2, Zenon
<1> QED
  BY <1>0, <1>2, <1>3, <1>4, <1>5, <1>6, <1>7, <1>8, <1>9, Zenon DEF LogInv
=============================================================================
