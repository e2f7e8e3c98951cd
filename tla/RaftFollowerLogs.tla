--------------------------- MODULE RaftFollowerLogs -------------------------
(***************************************************************************)
(* What voters and followers do fits the invariant of logs: a vote goes to *)
(* a log no older than the voter's, a follower takes over a leader's log   *)
(* without losing what it has acknowledged, and compaction, snapshots,     *)
(* restarts and a crash between two writes leave a log that stands for the *)
(* same one or a shorter one.                                              *)
(***************************************************************************)
EXTENDS RaftInvariants

-----------------------------------------------------------------------------
(* One lemma per action.                                                   *)

(* A voter that finds the candidate's log no older than its own finds in   *)
(* it all that it has acknowledged and that may yet be decided             *)
(* (handle_request_vote).                                                  *)
LEMMA GrantFits ==
  ASSUME Counting, NEW V \in SUBSET Server, NEW W, NEW A, NEW F, Before(V, W, A, F),
         NEW i \in Server, NEW m \in Received(i, "RequestVote"),
         NEW n, n.log = node[i].log, n.snap = node[i].snap,
         UpToDate(n, m.lastTerm, m.lastIndex)
  PROVE  VoteFits(V, W, A, F, i, m.term, m.from)
<1> DEFINE c == m.from
           d == node[c]
<1>1. /\ c \in Server /\ m.term <= d.term
      /\ d.role = Candidate /\ d.term = m.term =>
           m.lastTerm = LastTerm(d) /\ m.lastIndex = LastIndex(d)
  BY Zenon DEF Before, LogInv, CampaignsFit, Received
<1> SUFFICES ASSUME d.role = Candidate, d.term = m.term,
                    NEW a \in A, a[1] = i, a[2] < m.term, NEW k \in 1..a[3], Own(W, a[2], k)
             PROVE  Contains(F[c], a[2], k) \/ Dead(V, A, a[2], k)
  BY <1>1, Zenon DEF VoteFits
<1> DEFINE t == a[2]
           li == LastIndex(d)
           lt == LastTerm(d)
           ln == LastIndex(node[i])
           tn == LastTerm(node[i])
<1>2. /\ Written(W) /\ AcksFit(V, W, A, F) /\ LaterLeadersFit(V, W, A)
      /\ Stands(node[i], F[i]) /\ Sound(W, F[i]) /\ Stands(d, F[c]) /\ Sound(W, F[c])
  BY <1>1, Zenon DEF Before, LogInv, NodeFits
<1>3. /\ node[i].snap.index \in Nat /\ ln \in Nat /\ d.snap.index \in Nat /\ li \in Nat
  BY <1>1, LastIndexIs, Zenon DEF Before, VotersStay, Stable, SnapOk
<1>4. a[3] \in Nat /\ t \in DOMAIN W /\ t \in Nat /\ k \in Nat /\ k >= 1
  BY <1>2 DEF AcksFit, Written
<1>5. Contains(F[i], t, k) \/ Dead(V, A, t, k)
  BY <1>2, Zenon DEF AcksFit
<1>6. ASSUME Contains(F[i], t, k)
      PROVE  Contains(F[c], t, k) \/ Dead(V, A, t, k)
  <2>1. tn = (IF ln = 0 THEN 0 ELSE F[i][ln].term) /\ lt = (IF li = 0 THEN 0 ELSE F[c][li].term)
    BY <1>2, <1>3, StandsEnd, Zenon
  <2>2. lt > tn \/ (lt = tn /\ li >= ln)
    <3>1. LastTerm(n) = tn /\ LastIndex(n) = ln
      BY Zenon DEF LastTerm, LastIndex
    <3> QED  BY <1>1, <3>1, Zenon DEF UpToDate
  <2> HIDE DEF li, lt, ln, tn, t, d, c
  <2>3. k \in DOMAIN F[i] /\ F[i][k].term = t /\ k <= ln /\ ln \in DOMAIN F[i]
    BY <1>2, <1>3, <1>4, <1>6 DEF Contains, Stands, ln
  <2>4. tn = F[i][ln].term /\ tn \in Nat /\ t <= tn
    <3>1. ln # 0 /\ k \in 1..ln
      BY <1>3, <1>4, <2>3
    <3>2. F[i][ln].term \in DOMAIN W /\ F[i][k].term <= F[i][ln].term
      BY <1>2, <2>3, <3>1, Zenon DEF Sound
    <3> QED  BY <1>2, <2>1, <2>3, <3>1, <3>2, Zenon DEF Written
  <2>5. li = 0 => lt = 0
    BY <2>1, Zenon
  <2>6. lt >= t /\ (lt = t => li >= k) /\ li # 0 /\ lt = F[c][li].term /\ lt \in Nat
        /\ li \in DOMAIN F[c]
    <3>1. li # 0
      BY <1>3, <1>4, <2>2, <2>3, <2>4, <2>5
    <3>2. li \in DOMAIN F[c] /\ lt = F[c][li].term
      BY <1>2, <1>3, <2>1, <3>1 DEF Stands, li
    <3>3. lt \in Nat
      BY <1>2, <3>2, Zenon DEF Sound, Written
    <3> QED  BY <1>3, <1>4, <2>2, <2>3, <2>4, <3>1, <3>2, <3>3
  <2>7. lt \in DOMAIN W /\ Agree(F[c], W[lt], li)
    BY <1>2, <2>6, Zenon DEF Sound
  <2>8. CASE lt = t
    <3>1. k \in 1..li
      BY <1>3, <1>4, <2>6, <2>8
    <3>2. k \in DOMAIN F[c] /\ F[c][k] = W[t][k]
      BY <2>7, <2>8, <3>1, Zenon DEF Agree
    <3> QED  BY <3>2, Zenon DEF Own, Contains, t
  <2>9. CASE lt > t
    <3>1. Contains(W[lt], t, k) \/ Dead(V, A, t, k)
      BY <1>2, <1>4, <2>7, <2>9, Zenon DEF LaterLeadersFit, Own, Contains, t
    <3>2. ASSUME Contains(W[lt], t, k)
          PROVE  Contains(F[c], t, k)
      <4>1. k \in DOMAIN W[lt] /\ W[lt][k].term = t
        BY <3>2, Zenon DEF Contains
      <4>2. W[lt][li].term = lt
        BY <1>3, <2>6, <2>7 DEF Agree
      <4>3. k <= li
        <5>1. Sound(W, W[lt])
          BY <1>2, <2>7, Zenon DEF Written
        <5>2. ASSUME k > li
              PROVE  FALSE
          <6>1. li \in 1..k
            BY <1>3, <1>4, <2>6, <5>2
          <6>2. W[lt][li].term <= W[lt][k].term
            BY <4>1, <5>1, <6>1, Zenon DEF Sound
          <6> QED  BY <1>4, <2>6, <2>9, <4>1, <4>2, <6>2
        <5> QED  BY <1>3, <1>4, <5>2
      <4>4. k \in DOMAIN F[c] /\ F[c][k] = W[lt][k]
        BY <1>3, <1>4, <2>7, <4>3 DEF Agree
      <4> QED  BY <4>1, <4>4, Zenon DEF Contains
    <3> QED  BY <3>1, <3>2, Zenon
  <2> QED  BY <1>4, <2>6, <2>8, <2>9
<1> QED
  BY <1>5, <1>6, Zenon

\* handle_request_vote: a vote goes only to a log that is as good as the own.
LEMMA HandleRequestVoteLogs ==
  ASSUME Counting,
         NEW V \in SUBSET Server, NEW W, NEW A, NEW F, Before(V, W, A, F), After(V),
         NEW i \in Server, NEW m \in Received(i, "RequestVote"), HandleRequestVote(i, m),
         Stays(i) \/ Enters(i) \/ Votes(i, m.from)
  PROVE  Proceeds(V, W, A, F)
<1> DEFINE f == [node[i] EXCEPT !.contact = FALSE]
           n == ObserveTerm(f, m.term)
           v == [n EXCEPT !.votedFor = m.from]
           reply(t, g) == VoteReply(i, m, t, g)
<1>1. IsNode(node[i]) /\ m.term \in Nat
  BY Zenon DEF Before, Wellformed, Received
<1>2. /\ IsNode(f) /\ f.log = node[i].log /\ f.snap = node[i].snap /\ f.commit = node[i].commit
      /\ f.term = node[i].term /\ f.role = node[i].role /\ f.votedFor = node[i].votedFor
  BY <1>1, Zenon DEF IsNode, NodeFields
<1>3. \/ Take(i, {m}, Step(node[i], reply(node[i].term, FALSE)))
      \/ node[i].role # Leader /\ Take(i, {m}, Step(n, reply(n.term, FALSE)))
      \/ /\ node[i].role # Leader /\ m.term = n.term /\ UpToDate(n, m.lastTerm, m.lastIndex)
         /\ Take(i, {m}, Step(v, reply(n.term, TRUE)))
  BY Zenon DEF HandleRequestVote
<1> HIDE DEF f
<1>4. /\ n.log = node[i].log /\ n.snap = node[i].snap /\ n.commit = node[i].commit
      /\ IsNode(n) /\ n.term >= node[i].term /\ n.role \in {node[i].role, Follower}
      /\ n.votedFor = Nil \/ (n.term = node[i].term /\ n.votedFor = node[i].votedFor)
  <2>1. n.votedFor = Nil \/ (n.term = f.term /\ n.votedFor = f.votedFor)
    BY <1>1, <1>2, ObserveTermGives, Zenon
  <2>2. /\ n.log = f.log /\ n.snap = f.snap /\ n.commit = f.commit
        /\ IsNode(n) /\ n.term >= f.term /\ (n = f \/ n.role = Follower)
    BY <1>1, <1>2, ObserveAlike
  <2> QED  BY <1>2, <2>1, <2>2, Zenon
<1> HIDE DEF n
<1>5. /\ v.log = n.log /\ v.snap = n.snap /\ v.commit = n.commit /\ v.term = n.term
      /\ v.role = n.role /\ v.votedFor = m.from
  BY <1>4, Zenon DEF IsNode, NodeFields
<1> HIDE DEF v
<1>6. node[i].role # Leader => n.role # Leader /\ (n.role # Follower => i \in V)
  BY <1>4, BeforeGives, Zenon DEF NodeFits, Leader, Follower
<1>7. \A t, g, x : \A r \in reply(t, g) : MsgFits(V, W, A, r) /\ Asks(i, x, r)
  BY DEF VoteReply, MsgFits, Asks
<1> HIDE DEF reply
<1>8. ASSUME NEW x, NEW out, Take(i, {m}, Step(x, out)),
             \/ x.votedFor = Nil \/ <<i, x.term, x.votedFor>> \in ballots
             \/ VoteFits(V, W, A, F, i, x.term, x.votedFor)
      PROVE  Voted(V, W, A, F, i)
  <2>1. Stays(i) \/ Enters(i) \/ Votes(i, m.from)
    BY Zenon
  <2>2. node'[i] = Step(x, out).n
    BY <1>8, TakeMoves, Zenon DEF Before
  <2>3. node'[i] = x
    BY <2>2, Zenon DEF Step
  <2>4. Votes(i, m.from) => node'[i].votedFor = m.from
    BY Zenon DEF Votes
  <2> QED  BY <1>8, <2>1, <2>3, <2>4, Zenon DEF Voted
<1>9. BallotsCast
  BY Zenon DEF Before, LogInv
<1>10. CASE Take(i, {m}, Step(node[i], reply(node[i].term, FALSE)))
  <2>1. Voted(V, W, A, F, i)
    BY <1>8, <1>9, <1>10, Zenon DEF BallotsCast
  <2> QED  BY <1>7, <1>10, <2>1, FollowerKeeps, Zenon
<1>11. CASE node[i].role # Leader /\ Take(i, {m}, Step(n, reply(n.term, FALSE)))
  <2>1. Voted(V, W, A, F, i)
    BY <1>4, <1>8, <1>9, <1>11, Zenon DEF BallotsCast
  <2>2. n.term \in Nat
    BY <1>4, Zenon DEF IsNode
  <2> QED  BY <1>4, <1>6, <1>7, <1>11, <2>1, <2>2, FollowerKeeps, Zenon
<1>12. CASE /\ node[i].role # Leader /\ m.term = n.term /\ UpToDate(n, m.lastTerm, m.lastIndex)
            /\ Take(i, {m}, Step(v, reply(n.term, TRUE)))
  <2>1. VoteFits(V, W, A, F, i, m.term, m.from)
    BY <1>4, <1>12, GrantFits, Zenon
  <2>2. Voted(V, W, A, F, i)
    BY <1>5, <1>8, <1>12, <2>1, Zenon
  <2>3. n.term \in Nat
    BY <1>4, Zenon DEF IsNode
  <2> QED  BY <1>4, <1>5, <1>6, <1>7, <1>12, <2>2, <2>3, FollowerKeeps, Zenon
<1> QED
  BY <1>3, <1>10, <1>11, <1>12, Zenon

-----------------------------------------------------------------------------
(* Taking over a leader's log.                                             *)

(* What a server of term T holds for committed is in the log of T.         *)
LEMMA BackedAgrees ==
  ASSUME Counting,
         NEW V \in SUBSET Server, NEW W, NEW A, Written(W), LaterLeadersFit(V, W, A),
         NEW T \in DOMAIN W, NEW L, NEW c \in Nat, Backed(V, W, A, T, L, c)
  PROVE  Agree(L, W[T], c)
<1>1. CASE c = 0
  BY <1>1 DEF Agree
<1>2. CASE c # 0
  <2>1. PICK t, k \in Nat : /\ t <= T /\ k >= c /\ Decided(V, W, A, t, k) /\ Agree(W[t], L, c)
    BY <1>2, Zenon DEF Backed
  <2>2. Agree(W[t], W[T], k)
    BY <2>1, DecidedIsKept, Zenon
  <2>3. \A j \in 1..c : j \in 1..k
    BY <2>1
  <2> QED  BY <2>1, <2>2, <2>3, Zenon DEF Agree
<1> QED  BY <1>1, <1>2, Zenon

\* A log that agrees with a term backs what is decided in that term or before.
LEMMA DecidedBacks ==
  ASSUME Counting,
         NEW V \in SUBSET Server, NEW W, NEW A, Written(W), LaterLeadersFit(V, W, A),
         NEW T \in DOMAIN W, NEW t \in Nat, NEW k \in Nat, t <= T, Decided(V, W, A, t, k),
         NEW L, NEW x \in Nat, Agree(L, W[T], x), NEW c \in Nat, c <= x, c <= k
  PROVE  Backed(V, W, A, T, L, c)
<1>1. Agree(W[t], W[T], k)
  BY DecidedIsKept, Zenon
<1>2. \A j \in 1..c : j \in 1..k /\ j \in 1..x
  OBVIOUS
<1>3. Agree(W[t], L, c)
  BY <1>1, <1>2, Zenon DEF Agree
<1> QED  BY <1>3, Zenon DEF Backed

\* The last index of a log without holes.
LEMMA EndOf ==
  ASSUME Counting, NEW n, n.snap.index \in Nat, NEW x \in Nat, n.snap.index <= x,
         DOMAIN n.log = (n.snap.index + 1)..x
  PROVE  LastIndex(n) = x
<1>1. CASE n.snap.index = x
  BY <1>1 DEF LastIndex
<1>2. CASE n.snap.index # x
  <2>1. x \in DOMAIN n.log /\ Indices(DOMAIN n.log)
    BY <1>2 DEF Indices
  <2>2. Max(DOMAIN n.log) \in DOMAIN n.log /\ x <= Max(DOMAIN n.log)
    BY <2>1, MaxOf, Zenon
  <2>3. Max(DOMAIN n.log) = x
    BY <2>2
  <2> QED  BY <2>1, <2>3, Zenon DEF LastIndex
<1> QED  BY <1>1, <1>2, Zenon

\* The first entries of a sound log are a sound log.
LEMMA PrefixFits ==
  ASSUME NEW W, Written(W), NEW T \in DOMAIN W, NEW x \in Nat, x = 0 \/ x \in DOMAIN W[T],
         NEW L, L = [k \in 1..x |-> W[T][k]]
  PROVE  /\ Sound(W, L) /\ Agree(L, W[T], x) /\ \A k \in DOMAIN L : L[k].term <= T
<1>1. Sound(W, W[T]) /\ \A k \in DOMAIN W[T] : W[T][k].term <= T
  BY Zenon DEF Written
<1>2. \A k \in 1..x : k \in DOMAIN W[T] /\ L[k] = W[T][k]
  <2>1. PICK y \in Nat : DOMAIN W[T] = 1..y
    BY <1>1, Zenon DEF Sound
  <2> QED  BY <2>1
<1>3. DOMAIN L = 1..x
  BY Zenon
<1>4. Agree(L, W[T], x)
  BY <1>2, <1>3, Zenon DEF Agree
<1>5. ASSUME NEW k \in DOMAIN L
      PROVE  /\ L[k].term \in DOMAIN W /\ Agree(L, W[L[k].term], k)
             /\ \A l \in 1..k : L[l].term <= L[k].term
  <2>1. k \in 1..x /\ \A l \in 1..k : l \in 1..x
    BY <1>3
  <2> QED  BY <1>1, <1>2, <1>3, <2>1, Zenon DEF Sound, Agree
<1> QED
  BY <1>1, <1>2, <1>3, <1>4, <1>5, Zenon DEF Sound

(* L is given up for the first x entries of the log of term T, after which *)
(* L had gone another way: what is lost can no longer be decided.          *)
LEMMA TakeoverKeeps ==
  ASSUME NEW V, NEW W, NEW A, NEW i, NEW L, NEW L2, Written(W), LaterLeadersFit(V, W, A),
         NEW T \in DOMAIN W, Sound(W, L), \A k \in DOMAIN L : L[k].term <= T,
         NEW x \in Nat, Agree(L2, W[T], x),
         \A k \in DOMAIN L : k > x =>
           \E f \in 1..k : f \in DOMAIN W[T] /\ L[f].term # W[T][f].term
  PROVE  Keeps(V, W, A, L, L2, i)
<1> SUFFICES ASSUME NEW t, NEW k, Own(W, t, k), Contains(L, t, k)
             PROVE  Contains(L2, t, k) \/ Dead(V, A, t, k)
  BY Zenon DEF Keeps
<1>1. t \in DOMAIN W /\ k \in DOMAIN W[t] /\ k \in DOMAIN L /\ L[k].term = t /\ t <= T
  BY Zenon DEF Own, Contains
<1>2. t \in Nat /\ T \in Nat /\ k \in Nat /\ k >= 1 /\ Sound(W, W[T])
  BY <1>1 DEF Written, Sound
<1>3. Contains(W[T], t, k) \/ Dead(V, A, t, k)
  <2>1. CASE t = T
    BY <2>1, Zenon DEF Own
  <2>2. CASE t # T
    BY <1>1, <1>2, <2>2 DEF LaterLeadersFit
  <2> QED  BY <2>1, <2>2, Zenon
<1>4. ASSUME Contains(W[T], t, k)
      PROVE  Contains(L2, t, k)
  <2>1. k \in DOMAIN W[T] /\ W[T][k].term = t
    BY <1>4, Zenon DEF Contains
  <2>2. Agree(L, W[T], k)
    BY <1>1, <1>2, <2>1, SameTermAgree, Zenon
  <2>3. k <= x
    <3>1. ASSUME k > x
          PROVE  FALSE
      <4>1. PICK f \in 1..k : f \in DOMAIN W[T] /\ L[f].term # W[T][f].term
        BY <1>1, <3>1, Zenon
      <4> QED  BY <2>2, <4>1, Zenon DEF Agree
    <3> QED  BY <1>2, <3>1
  <2>4. k \in DOMAIN L2 /\ L2[k] = W[T][k]
    BY <1>2, <2>3 DEF Agree
  <2> QED  BY <2>1, <2>4, Zenon DEF Contains
<1> QED
  BY <1>3, <1>4, Zenon

\* Node n, standing for L, is of the term of request m and finds m's previous
\* entry in its log.
Receives(V, W, A, L, i, n, m) ==
  /\ V \in SUBSET Server /\ Written(W) /\ LaterLeadersFit(V, W, A)
  /\ Stable(V, n) /\ NodeFits(V, W, A, L, i, n) /\ n.role = Follower /\ n.term = m.term
  /\ RequestFits(V, W, A, m) /\ m.prevIndex \in Nat /\ m.commit \in Nat
  /\ LogMatches(n, m.prevIndex, m.prevTerm)

\* What a follower and a round for it have in common.
LEMMA ReceivesGives ==
  ASSUME Counting,
         NEW V, NEW W, NEW A, NEW L, NEW i, NEW n, NEW m, Receives(V, W, A, L, i, n, m)
  PROVE  /\ m.term \in DOMAIN W /\ m.term \in Nat
         /\ Sound(W, L) /\ Sound(W, W[m.term]) /\ \A k \in DOMAIN L : L[k].term <= m.term
         /\ Stands(n, L) /\ LastIndex(n) \in Nat /\ n.snap.index \in Nat /\ n.commit \in Nat
         /\ n.snap.index <= n.commit /\ n.commit <= LastIndex(n)
         /\ Agree(L, W[m.term], n.commit)
         /\ \A k \in DOMAIN m.entries : k \in DOMAIN W[m.term] /\ m.entries[k] = W[m.term][k]
<1>1. /\ V \in SUBSET Server /\ Written(W) /\ LaterLeadersFit(V, W, A)
      /\ Stable(V, n) /\ NodeFits(V, W, A, L, i, n) /\ n.term = m.term
      /\ RequestFits(V, W, A, m)
  BY Zenon DEF Receives
<1>2. m.term \in DOMAIN W /\ m.term \in Nat /\ Sound(W, W[m.term])
  BY <1>1, Zenon DEF RequestFits, Written
<1>3. LastIndex(n) \in Nat /\ n.snap.index \in Nat /\ n.commit \in Nat
  BY <1>1, LastIndexIs, Zenon DEF Stable, SnapOk
<1>4. Backed(V, W, A, m.term, L, n.commit)
  BY <1>1, Zenon DEF NodeFits
<1>5. Agree(L, W[m.term], n.commit)
  BY <1>1, <1>2, <1>3, <1>4, BackedAgrees, Zenon
<1> QED
  BY <1>1, <1>2, <1>3, <1>5, Zenon DEF NodeFits, RequestFits

(* What log_matches and append_new_entries take for known is the same on   *)
(* both sides.                                                             *)
LEMMA PrevAgrees ==
  ASSUME Counting,
         NEW V, NEW W, NEW A, NEW L, NEW i, NEW n, NEW m, Receives(V, W, A, L, i, n, m)
  PROVE  m.prevIndex <= LastIndex(n) /\ Agree(L, W[m.term], m.prevIndex)
<1> DEFINE prev == m.prevIndex
           M == W[m.term]
<1>1. /\ m.term \in DOMAIN W /\ Sound(W, L) /\ Sound(W, M)
      /\ Stands(n, L) /\ LastIndex(n) \in Nat /\ n.snap.index \in Nat /\ n.commit \in Nat
      /\ n.snap.index <= n.commit /\ n.commit <= LastIndex(n) /\ Agree(L, M, n.commit)
  BY ReceivesGives, Zenon
<1>2. /\ prev \in Nat /\ Written(W)
      /\ prev > 0 => prev \in DOMAIN M /\ m.prevTerm = M[prev].term
      /\ prev = 0 \/ prev < n.snap.index \/ TermAt(n, prev) = m.prevTerm
  BY Zenon DEF Receives, RequestFits, LogMatches
<1> HIDE DEF prev, M
<1>3. CASE prev = 0
  BY <1>1, <1>3 DEF Agree, prev, M
<1>4. CASE prev < n.snap.index
  <2>1. prev <= LastIndex(n) /\ \A j \in 1..prev : j \in 1..n.commit
    BY <1>1, <1>2, <1>4
  <2> QED  BY <1>1, <2>1, Zenon DEF Agree, prev, M
<1>5. CASE prev > 0 /\ TermAt(n, prev) = m.prevTerm
  <2>1. prev \in DOMAIN M /\ TermAt(n, prev) = M[prev].term
    BY <1>2, <1>5, Zenon
  <2>2. M[prev].term \in Nat
    BY <1>1, <1>2, <2>1, Zenon DEF Sound, Written
  <2>3. CASE prev \in DOMAIN n.log
    <3>1. prev \in DOMAIN L /\ L[prev].term = M[prev].term /\ prev <= LastIndex(n)
      BY <1>1, <1>2, <1>5, <2>1, <2>3 DEF TermAt, Stands
    <3>2. Agree(L, M, prev)
      BY <1>1, <2>1, <3>1, SameTermAgree, Zenon
    <3> QED  BY <3>1, <3>2, Zenon DEF prev, M
  <2>4. CASE prev \notin DOMAIN n.log
    <3>1. prev = n.snap.index /\ n.snap.term = M[prev].term
      BY <2>1, <2>2, <2>4 DEF TermAt
    <3>2. prev \in DOMAIN L /\ L[prev].term = M[prev].term /\ prev <= LastIndex(n)
      BY <1>1, <1>2, <1>5, <3>1 DEF Stands
    <3>3. Agree(L, M, prev)
      BY <1>1, <2>1, <3>2, SameTermAgree, Zenon
    <3> QED  BY <3>2, <3>3, Zenon DEF prev, M
  <2> QED  BY <2>3, <2>4, Zenon
<1> QED
  BY <1>2, <1>3, <1>4, <1>5

Known(n, entries, k) ==
  k <= n.snap.index \/ (k \in DOMAIN n.log /\ n.log[k].term = entries[k].term)

\* An entry that the follower has with the same term, it has with all before
\* it.
LEMMA KnownAgrees ==
  ASSUME Counting,
         NEW V, NEW W, NEW A, NEW L, NEW i, NEW n, NEW m, Receives(V, W, A, L, i, n, m),
         NEW k \in DOMAIN m.entries, k \in Nat, Known(n, m.entries, k)
  PROVE  k <= LastIndex(n) /\ Agree(L, W[m.term], k)
<1> DEFINE M == W[m.term]
<1>1. /\ Sound(W, L) /\ Sound(W, M)
      /\ Stands(n, L) /\ LastIndex(n) \in Nat /\ n.snap.index \in Nat /\ n.commit \in Nat
      /\ n.snap.index <= n.commit /\ n.commit <= LastIndex(n) /\ Agree(L, M, n.commit)
      /\ k \in DOMAIN M /\ m.entries[k] = M[k]
  BY ReceivesGives
<1> HIDE DEF M
<1>2. CASE k <= n.snap.index
  <2>1. k <= LastIndex(n) /\ \A j \in 1..k : j \in 1..n.commit
    BY <1>1, <1>2
  <2> QED  BY <1>1, <2>1, Zenon DEF Agree, M
<1>3. CASE k \in DOMAIN n.log /\ n.log[k].term = m.entries[k].term
  <2>1. k \in DOMAIN L /\ L[k].term = M[k].term /\ k <= LastIndex(n)
    BY <1>1, <1>3 DEF Stands
  <2>2. Agree(L, M, k)
    BY <1>1, <2>1, SameTermAgree, Zenon
  <2> QED  BY <2>1, <2>2, Zenon DEF M
<1> QED
  BY <1>2, <1>3, Zenon DEF Known

(* The first entry that is new, at f, ends what is shared: nothing that is *)
(* committed is replaced, and L goes on another way or not at all          *)
(* (append_new_entries).  D is where the new entries go, M the leader's    *)
(* log.                                                                    *)
Splits(n, L, M, m, e, D, f) ==
  /\ \A k \in D : k \in DOMAIN m.entries /\ NewEntries(n, m.entries)[k] = m.entries[k]
  /\ D = {} => e <= LastIndex(n) /\ Agree(L, M, e)
  /\ D # {} => /\ f \in D
               /\ f \in Nat /\ f <= e /\ D = f..e /\ f > n.commit /\ f > n.snap.index
               /\ f <= LastIndex(n) + 1 /\ Agree(L, M, f - 1)
               /\ f \in DOMAIN M
               /\ f \in DOMAIN L => L[f].term # M[f].term

\* The entries it lacks start where its log and the leader's part
\* (new_entries).
LEMMA NewEntriesFit ==
  ASSUME Counting,
         NEW V, NEW W, NEW A, NEW L, NEW i, NEW n, NEW m, Receives(V, W, A, L, i, n, m),
         NEW e \in Nat, DOMAIN m.entries = (m.prevIndex + 1)..e, e >= m.prevIndex,
         NEW D, D = DOMAIN NewEntries(n, m.entries), NEW f, f = Min(D)
  PROVE  Splits(n, L, W[m.term], m, e, D, f)
<1> DEFINE prev == m.prevIndex
           M == W[m.term]
           E == DOMAIN m.entries
<1>1. D = {k \in E : \E j \in E : j <= k /\ ~Known(n, m.entries, j)}
  BY Zenon DEF NewEntries, Restrict, Known
<1>2. \A k \in D : NewEntries(n, m.entries)[k] = m.entries[k]
  <2>1. NewEntries(n, m.entries) = Restrict(m.entries, D)
    BY <1>1, Zenon DEF NewEntries, Known, Restrict
  <2> QED  BY <2>1, Zenon DEF Restrict
<1>3. /\ Stands(n, L) /\ LastIndex(n) \in Nat /\ n.snap.index \in Nat /\ n.commit \in Nat
      /\ n.snap.index <= n.commit /\ n.commit <= LastIndex(n) /\ Agree(L, M, n.commit)
      /\ \A k \in E : k \in DOMAIN M /\ m.entries[k] = M[k]
  <2>1. /\ Stands(n, L) /\ LastIndex(n) \in Nat /\ n.snap.index \in Nat /\ n.commit \in Nat
        /\ n.snap.index <= n.commit /\ n.commit <= LastIndex(n) /\ Agree(L, M, n.commit)
    BY ReceivesGives, Zenon
  <2>2. \A k \in E : k \in DOMAIN M /\ m.entries[k] = M[k]
    BY Zenon DEF Receives, RequestFits
  <2> QED  BY <2>1, <2>2, Zenon
<1>4. prev \in Nat /\ E = (prev + 1)..e /\ e >= prev
  BY Zenon DEF Receives
<1>5. prev <= LastIndex(n) /\ Agree(L, M, prev)
  BY PrevAgrees, Zenon
<1>6. \A k \in E : Known(n, m.entries, k) => k <= LastIndex(n) /\ Agree(L, M, k)
  <2>1. \A k \in E : k \in Nat
    BY <1>4
  <2> QED  BY <2>1, KnownAgrees, Zenon
<1> HIDE DEF prev, M, E
<1>10. \A k \in E : k \notin D => Known(n, m.entries, k)
  BY <1>1, <1>4
<1>7. ASSUME D = {}
      PROVE  e <= LastIndex(n) /\ Agree(L, M, e)
  <2>1. CASE e = prev
    BY <1>5, <2>1, Zenon
  <2>2. CASE e # prev
    <3>1. e \in E
      BY <1>4, <2>2
    <3>2. Known(n, m.entries, e)
      BY <1>10, <1>7, <3>1, Zenon
    <3> QED  BY <1>6, <3>1, <3>2, Zenon
  <2> QED  BY <2>1, <2>2, Zenon
<1>8. ASSUME D # {}
      PROVE  /\ f \in D
             /\ f \in Nat /\ f <= e /\ D = f..e /\ f > n.commit /\ f > n.snap.index
             /\ f <= LastIndex(n) + 1 /\ Agree(L, M, f - 1)
             /\ f \in DOMAIN M
             /\ f \in DOMAIN L => L[f].term # M[f].term
  <2>1. f \in D /\ \A k \in D : f <= k
    <3>1. D \subseteq Nat
      BY <1>1, <1>4
    <3> QED  BY <1>8, <3>1, MinOf, Zenon
  <2>2. f \in E /\ f \in Nat /\ f >= prev + 1 /\ f <= e /\ ~Known(n, m.entries, f)
    <3>1. f \in E
      BY <1>1, <2>1, Zenon
    <3>2. f \in Nat /\ f >= prev + 1 /\ f <= e
      BY <1>4, <3>1
    <3>3. PICK j \in E : j <= f /\ ~Known(n, m.entries, j)
      BY <1>1, <2>1, Zenon
    <3>4. j \in D /\ j \in Nat
      BY <1>1, <1>4, <3>3
    <3>5. j = f
      BY <2>1, <3>2, <3>3, <3>4
    <3> QED  BY <3>1, <3>2, <3>3, <3>5, Zenon
  <2>3. D = f..e
    <3>1. ASSUME NEW k \in D
          PROVE  k \in f..e
      BY <1>1, <1>4, <2>1, <2>2
    <3>2. ASSUME NEW k \in f..e
          PROVE  k \in D
      <4>1. k \in E /\ f <= k
        BY <1>4, <2>2
      <4> QED  BY <1>1, <2>2, <4>1, Zenon
    <3> QED  BY <3>1, <3>2, Zenon
  <2>4. f <= LastIndex(n) + 1 /\ Agree(L, M, f - 1)
    <3>1. CASE f = prev + 1
      <4>1. f - 1 = prev
        BY <1>4, <3>1
      <4> QED  BY <1>3, <1>4, <1>5, <3>1, <4>1
    <3>2. CASE f # prev + 1
      <4>1. f - 1 \in E /\ f - 1 < f /\ f - 1 \in Nat
        BY <1>4, <2>2, <3>2
      <4>2. f - 1 \notin D
        BY <2>1, <2>2, <4>1
      <4>3. Known(n, m.entries, f - 1)
        BY <1>10, <4>1, <4>2, Zenon
      <4>4. f - 1 <= LastIndex(n) /\ Agree(L, M, f - 1)
        BY <1>6, <4>1, <4>3, Zenon
      <4> QED  BY <1>3, <2>2, <4>4
    <3> QED  BY <3>1, <3>2, Zenon
  <2>5. f > n.snap.index
    BY <1>3, <2>2 DEF Known
  <2>6. f \in DOMAIN M /\ m.entries[f] = M[f]
    BY <1>3, <2>2, Zenon
  <2>7. ASSUME f \in DOMAIN L
        PROVE  L[f].term # M[f].term
    <3>1. f \in DOMAIN n.log /\ n.log[f] = L[f]
      BY <1>3, <2>2, <2>5, <2>7 DEF Stands
    <3> QED  BY <2>2, <2>6, <3>1, Zenon DEF Known
  <2>8. f > n.commit
    <3>1. ASSUME f <= n.commit
          PROVE  FALSE
      <4>1. f \in 1..n.commit
        BY <1>3, <1>4, <2>2, <3>1
      <4>2. f \in DOMAIN L /\ L[f] = M[f]
        BY <1>3, <4>1, Zenon DEF Agree
      <4> QED  BY <2>7, <4>2, Zenon
    <3> QED  BY <1>3, <2>2, <3>1
  <2> QED  BY <2>1, <2>2, <2>3, <2>4, <2>5, <2>6, <2>7, <2>8, Zenon
<1>9. \A k \in D : k \in E
  BY <1>1, Zenon
<1> QED
  BY <1>2, <1>7, <1>8, <1>9, Zenon DEF M, E, Splits

\* t differs from n in its log and the configurations counted from it only.
SameButLog(n, t) ==
  /\ IsNode(t) /\ t.snap = n.snap /\ t.commit = n.commit /\ t.term = n.term
  /\ t.role = n.role

\* What truncate_from leaves of a node: the log goes on up to the first new entry.
LEMMA TruncateIs ==
  ASSUME NEW n, IsNode(n), NEW new
  PROVE  /\ SameButLog(n, TruncateConflict(n, new))
         /\ \/ /\ TruncateConflict(n, new) = n
               /\ ~ \E k \in DOMAIN new : k = Min(DOMAIN new) /\ k \in DOMAIN n.log
            \/ /\ \E k \in DOMAIN new : k = Min(DOMAIN new) /\ k \in DOMAIN n.log
               /\ TruncateConflict(n, new).log =
                    Restrict(n.log, {k \in DOMAIN n.log : k < Min(DOMAIN new)})
<1> DEFINE t == TruncateConflict(n, new)
           cut == \E k \in DOMAIN new : k = Min(DOMAIN new) /\ k \in DOMAIN n.log
           lg == Restrict(n.log, {k \in DOMAIN n.log : k < Min(DOMAIN new)})
           cf == OnTruncate(n.configs, Min(DOMAIN new))
<1>1. cut => t = [n EXCEPT !.log = lg, !.configs = cf]
  BY Zenon DEF TruncateConflict
<1>2. ~cut => t = n
  BY Zenon DEF TruncateConflict
<1> HIDE DEF t, cut, lg, cf
<1>3. CASE cut
  <2>1. SameButLog(n, t) /\ t.log = lg
    BY <1>1, <1>3, Zenon DEF IsNode, NodeFields, SameButLog
  <2> QED  BY <1>3, <2>1, Zenon DEF t, cut, lg
<1>4. CASE ~cut
  <2>1. SameButLog(n, t)
    BY <1>2, <1>4, Zenon DEF SameButLog
  <2> QED  BY <1>2, <1>4, <2>1, Zenon DEF t, cut
<1> QED  BY <1>3, <1>4, Zenon

\* What append_new_entries leaves of the other fields.
LEMMA AppendNewEntriesIs ==
  ASSUME NEW n, IsNode(n), NEW entries, NEW new, new = NewEntries(n, entries),
         NEW t, t = TruncateConflict(n, new), NEW a, a = AppendNewEntries(n, entries)
  PROVE  /\ IsNode(a) /\ a.snap = n.snap /\ a.commit = n.commit /\ a.term = n.term
         /\ a.role = n.role /\ a.log = Over(new, t.log)
<1>1. SameButLog(n, TruncateConflict(n, new))
  BY TruncateIs, Zenon
<1>2. a = [t EXCEPT !.log = Over(new, @), !.configs = OnAppend(@, new)]
  BY Zenon DEF AppendNewEntries
<1>3. SameButLog(n, t)
  BY <1>1, Zenon
<1> QED
  BY <1>2, <1>3, Zenon DEF IsNode, NodeFields, SameButLog

\* t is n with its log cut at f, or n when its log ends before f.
Cut(n, f, t) ==
  \/ t = n /\ f \notin DOMAIN n.log
  \/ /\ f \in DOMAIN n.log
     /\ t.log = Restrict(n.log, {k \in DOMAIN n.log : k < f})

\* t has the entries of M from n's snapshot on up to f, where L goes on if
\* anything was cut.
EndsBefore(n, L, M, f, t) ==
  /\ DOMAIN t.log = (n.snap.index + 1)..(f - 1)
  /\ \A k \in DOMAIN t.log : t.log[k] = M[k]
  /\ t.log # n.log => f \in DOMAIN L

\* The entries that stay when a log is cut at f.
LEMMA CutLog ==
  ASSUME NEW n, NEW L, NEW M, NEW f \in Nat, Stands(n, L), LastIndex(n) \in Nat,
         n.snap.index \in Nat, f > n.snap.index, f <= LastIndex(n) + 1, Agree(L, M, f - 1),
         NEW t, Cut(n, f, t)
  PROVE  EndsBefore(n, L, M, f, t)
<1>1. DOMAIN n.log = (n.snap.index + 1)..LastIndex(n) /\ DOMAIN L = 1..LastIndex(n)
  BY Zenon DEF Stands
<1>2. /\ DOMAIN t.log = (n.snap.index + 1)..(f - 1)
      /\ \A k \in DOMAIN t.log : t.log[k] = n.log[k] /\ k \in DOMAIN n.log
  <2>1. CASE t = n /\ f \notin DOMAIN n.log
    <3>1. LastIndex(n) = f - 1
      BY <1>1, <2>1
    <3> QED  BY <1>1, <2>1, <3>1, Zenon
  <2>2. CASE /\ f \in DOMAIN n.log
             /\ t.log = Restrict(n.log, {k \in DOMAIN n.log : k < f})
    <3>1. {k \in DOMAIN n.log : k < f} = (n.snap.index + 1)..(f - 1)
      BY <1>1, <2>2
    <3>2. t.log = [k \in (n.snap.index + 1)..(f - 1) |-> n.log[k]]
      BY <2>2, <3>1, Zenon DEF Restrict
    <3>3. \A k \in (n.snap.index + 1)..(f - 1) : k \in DOMAIN n.log
      BY <3>1, Zenon
    <3> QED  BY <3>2, <3>3, Zenon
  <2> QED  BY <2>1, <2>2, Zenon DEF Cut
<1>3. ASSUME NEW k \in DOMAIN t.log
      PROVE  t.log[k] = M[k]
  <2>1. t.log[k] = n.log[k] /\ k \in DOMAIN n.log /\ k \in 1..(f - 1)
    BY <1>2
  <2>2. n.log[k] = L[k]
    BY <2>1, Zenon DEF Stands
  <2> QED  BY <2>1, <2>2, Zenon DEF Agree
<1>4. t.log # n.log => f \in DOMAIN L
  <2>1. t.log # n.log => f \in DOMAIN n.log
    BY Zenon DEF Cut
  <2> QED  BY <1>1, <2>1
<1> QED
  BY <1>1, <1>2, <1>3, <1>4, Zenon DEF EndsBefore

\* The entries that stay, up to the first new one.
LEMMA KeptEntries ==
  ASSUME Counting,
         NEW V, NEW W, NEW A, NEW L, NEW i, NEW n, NEW m, Receives(V, W, A, L, i, n, m),
         NEW e \in Nat, DOMAIN m.entries = (m.prevIndex + 1)..e, e >= m.prevIndex,
         NEW D, D = DOMAIN NewEntries(n, m.entries), D # {}, NEW f, f = Min(D),
         NEW t, t = TruncateConflict(n, NewEntries(n, m.entries))
  PROVE  EndsBefore(n, L, W[m.term], f, t)
<1>1. /\ f \in D
      /\ f \in Nat /\ f > n.snap.index /\ f <= LastIndex(n) + 1 /\ Agree(L, W[m.term], f - 1)
  <2>1. Splits(n, L, W[m.term], m, e, D, f)
    BY NewEntriesFit, Zenon
  <2> QED  BY <2>1, Zenon DEF Splits
<1>2. Stands(n, L) /\ LastIndex(n) \in Nat /\ n.snap.index \in Nat
  BY ReceivesGives, Zenon
<1>3. IsNode(n)
  BY Zenon DEF Receives, Stable
<1>4. Cut(n, f, t)
  <2> DEFINE new == NewEntries(n, m.entries)
  <2>1. \/ t = n /\ ~ \E k \in DOMAIN new : k = Min(DOMAIN new) /\ k \in DOMAIN n.log
        \/ /\ \E k \in DOMAIN new : k = Min(DOMAIN new) /\ k \in DOMAIN n.log
           /\ t.log = Restrict(n.log, {k \in DOMAIN n.log : k < Min(DOMAIN new)})
    BY <1>3, TruncateIs, Zenon
  <2>2. D = DOMAIN new /\ f = Min(DOMAIN new)
    BY Zenon
  <2> HIDE DEF new
  <2> QED  BY <1>1, <2>1, <2>2, Zenon DEF Cut
<1> QED
  BY <1>1, <1>2, <1>4, CutLog, Zenon

(* A follower that finds the previous entry ends up with the leader's log  *)
(* as far as the request goes.                                             *)
LEMMA AppendedFits ==
  ASSUME Counting,
         NEW V, NEW W, NEW A, NEW L, NEW i, NEW n, NEW m, Receives(V, W, A, L, i, n, m),
         NEW e \in Nat, DOMAIN m.entries = (m.prevIndex + 1)..e, e >= m.prevIndex,
         NEW a, a = AppendNewEntries(n, m.entries)
  PROVE  \E L2 : /\ Stands(a, L2) /\ Sound(W, L2) /\ \A k \in DOMAIN L2 : L2[k].term <= m.term
                 /\ Agree(L2, W[m.term], e) /\ Backed(V, W, A, m.term, L2, n.commit)
                 /\ e <= LastIndex(a) /\ n.commit <= LastIndex(a)
                 /\ Keeps(V, W, A, L, L2, i)
<1> DEFINE M == W[m.term]
           new == NewEntries(n, m.entries)
           t == TruncateConflict(n, new)
           D == DOMAIN new
           f == Min(D)
<1>1. /\ IsNode(n) /\ V \in SUBSET Server /\ Written(W) /\ LaterLeadersFit(V, W, A)
      /\ Backed(V, W, A, m.term, L, n.commit)
  BY Zenon DEF Receives, Stable, NodeFits
<1>2. /\ m.term \in DOMAIN W /\ m.term \in Nat
      /\ Sound(W, L) /\ Sound(W, M) /\ \A k \in DOMAIN L : L[k].term <= m.term
      /\ Stands(n, L) /\ LastIndex(n) \in Nat /\ n.snap.index \in Nat /\ n.commit \in Nat
      /\ n.snap.index <= n.commit /\ n.commit <= LastIndex(n) /\ Agree(L, M, n.commit)
  BY ReceivesGives, Zenon
<1>9. \A k \in DOMAIN m.entries : k \in DOMAIN M /\ m.entries[k] = M[k]
  BY Zenon DEF Receives, RequestFits
<1>3. a.snap = n.snap /\ a.log = Over(new, t.log)
  BY <1>1, AppendNewEntriesIs
<1>10. D = DOMAIN NewEntries(n, m.entries) /\ f = Min(D) /\ t = TruncateConflict(n, NewEntries(n, m.entries))
  BY Zenon
<1>11. D = DOMAIN new
  BY Zenon
<1> HIDE DEF D, f, t
<1>12. Splits(n, L, W[m.term], m, e, D, f)
  BY <1>10, NewEntriesFit, Zenon
<1>4. /\ \A k \in DOMAIN new : k \in DOMAIN m.entries /\ new[k] = m.entries[k]
      /\ DOMAIN new = {} => e <= LastIndex(n) /\ Agree(L, M, e)
      /\ DOMAIN new # {} =>
           /\ f \in Nat /\ f <= e /\ DOMAIN new = f..e /\ f > n.commit /\ f > n.snap.index
           /\ f <= LastIndex(n) + 1 /\ Agree(L, M, f - 1) /\ f \in DOMAIN M
           /\ f \in DOMAIN L => L[f].term # M[f].term
  BY <1>11, <1>12, Zenon DEF Splits
<1>5. DOMAIN new # {} => /\ DOMAIN t.log = (n.snap.index + 1)..(f - 1)
                         /\ \A k \in DOMAIN t.log : t.log[k] = M[k]
  <2>1. D # {} => EndsBefore(n, L, W[m.term], f, t)
    BY <1>10, KeptEntries, Zenon
  <2> QED  BY <1>11, <2>1, Zenon DEF EndsBefore
<1>6. DOMAIN new = {} => t = n
  BY Zenon DEF TruncateConflict, t
<1> HIDE DEF M, new
<1>7. CASE DOMAIN new = {}
  <2>1. DOMAIN a.log = DOMAIN n.log /\ \A k \in DOMAIN a.log : a.log[k] = n.log[k]
    BY <1>3, <1>6, <1>7, Zenon DEF Over
  <2>2. LastIndex(a) = LastIndex(n)
    BY <1>3, <2>1, Zenon DEF LastIndex
  <2>3. Stands(a, L)
    BY <1>2, <1>3, <2>1, <2>2, Zenon DEF Stands
  <2>4. Keeps(V, W, A, L, L, i)
    BY Zenon DEF Keeps
  <2> QED  BY <1>1, <1>2, <1>4, <1>7, <2>2, <2>3, <2>4, Zenon DEF M
<1>8. CASE DOMAIN new # {}
  <2> DEFINE L2 == [k \in 1..e |-> M[k]]
  <2>1. e \in DOMAIN M
    <3>1. e \in DOMAIN new
      BY <1>4, <1>8
    <3> QED  BY <1>4, <1>9, <3>1, Zenon
  <2>2. Sound(W, L2) /\ Agree(L2, M, e) /\ \A k \in DOMAIN L2 : L2[k].term <= m.term
    BY <1>1, <1>2, <2>1, PrefixFits, Zenon DEF M
  <2>3. DOMAIN a.log = (n.snap.index + 1)..e
    <3>1. DOMAIN a.log = (f..e) \cup ((n.snap.index + 1)..(f - 1))
      BY <1>3, <1>4, <1>5, <1>8, Zenon DEF Over
    <3>2. (f..e) \cup ((n.snap.index + 1)..(f - 1)) = (n.snap.index + 1)..e
      BY <1>2, <1>4, <1>8
    <3> QED  BY <3>1, <3>2, Zenon
  <2>4. \A k \in DOMAIN a.log : a.log[k] = M[k]
    BY <1>3, <1>4, <1>5, <1>8, <1>9, Zenon DEF Over
  <2>5. n.snap.index <= e /\ n.commit <= e /\ n.snap.index <= f - 1
    BY <1>2, <1>4, <1>8
  <2>6. LastIndex(a) = e
    BY <1>2, <1>3, <2>3, <2>5, EndOf, Zenon
  <2>7. Stands(a, L2)
    <3>1. \A k \in DOMAIN a.log : a.log[k] = L2[k]
      BY <1>2, <2>3, <2>4
    <3>2. n.snap.index # 0 => L2[n.snap.index] = L[n.snap.index]
      BY <1>2, <1>4, <1>8, <2>5 DEF Agree
    <3>3. n.snap.term = IF n.snap.index = 0 THEN 0 ELSE L[n.snap.index].term
      BY <1>2, Zenon DEF Stands
    <3>4. DOMAIN L2 = 1..e
      BY Zenon
    <3> HIDE DEF L2
    <3> QED  BY <1>3, <2>3, <2>5, <2>6, <3>1, <3>2, <3>3, <3>4, Zenon DEF Stands
  <2> HIDE DEF L2
  <2>8. Keeps(V, W, A, L, L2, i)
    <3>1. ASSUME NEW k \in DOMAIN L, k > e
          PROVE  \E g \in 1..k : g \in DOMAIN M /\ L[g].term # M[g].term
      <4>1. f \in DOMAIN L /\ f \in 1..k
        BY <1>2, <1>4, <1>8, <3>1 DEF Stands
      <4> QED  BY <1>4, <1>8, <4>1, Zenon
    <3> QED  BY <1>1, <1>2, <2>2, <3>1, TakeoverKeeps, Zenon DEF M
  <2>9. Backed(V, W, A, m.term, L2, n.commit)
    <3>1. CASE n.commit = 0
      BY <3>1, Zenon DEF Backed
    <3>2. CASE n.commit # 0
      <4>1. PICK u, k \in Nat : u <= m.term /\ k >= n.commit /\ Decided(V, W, A, u, k)
        BY <1>1, <3>2, Zenon DEF Backed
      <4> QED  BY <1>1, <1>2, <2>2, <2>5, <4>1, DecidedBacks, Zenon DEF M
    <3> QED  BY <3>1, <3>2, Zenon
  <2>10. e <= LastIndex(a) /\ n.commit <= LastIndex(a)
    BY <2>5, <2>6
  <2> QED  BY <2>2, <2>7, <2>8, <2>9, <2>10, Zenon DEF M
<1> QED
  BY <1>7, <1>8, Zenon

-----------------------------------------------------------------------------
(* The steps of a follower.                                                *)

(* A follower that takes over a log, with what it acknowledges of it.      *)
LEMMA FollowerTakes ==
  ASSUME NEW V \in SUBSET Server, NEW W, NEW A, NEW F, Before(V, W, A, F), After(V),
         NEW i \in Server, NEW in, NEW n, NEW out, Take(i, in, Step(n, out)),
         Voted(V, W, A, F, i), n.role = Follower,
         NEW A2, NEW L2, NewAcksFit(A, W, A2, L2, i, n.term),
         NodeFits(V, W, A2, L2, i, n), Keeps(V, W, A, F[i], L2, i), SnapChosen(n),
         Advances(node[i], n),
         \A m \in out : MsgFits(V, W, A2, m) /\ Asks(i, n, m)
  PROVE  Proceeds(V, W, A, F)
<1> DEFINE s == Step(n, out)
<1>1. s.n = n /\ s.out = out
  BY Zenon DEF Step
<1> HIDE DEF s
<1>2. WritesFit(V, W, W, A2, L2, s.n)
  <2>1. Extends(W, W) /\ Written(W)
    BY Zenon DEF Extends, Before, LogInv
  <2> QED  BY <1>1, <2>1, Zenon DEF WritesFit, Leader, Follower
<1>3. Fits(V, W, A, F[i], W, A2, L2, i, s)
  BY <1>1, <1>2, Zenon DEF Fits, Candidate, Follower
<1>4. Take(i, in, s)
  BY Zenon DEF s
<1> QED
  BY <1>3, <1>4, FitsProceeds, Zenon

\* Node n is server i after it has accepted a leader of term t: a follower of
\* that term with the log that i had.
Accepted(V, W, A, L, i, t, n) ==
  /\ n.log = node[i].log /\ n.snap = node[i].snap /\ n.commit = node[i].commit
  /\ IsNode(n) /\ n.term = t /\ n.role = Follower
  /\ Stable(V, n) /\ NodeFits(V, W, A, L, i, n) /\ SnapChosen(n)

\* accept_leader leaves a follower whose log still fits.
LEMMA AcceptedFits ==
  ASSUME NEW V \in SUBSET Server, NEW W, NEW A, NEW F, Before(V, W, A, F),
         NEW i \in Server, NEW t \in Nat, t >= node[i].term, NEW x,
         NEW n, n = AcceptLeader(ObserveTerm(node[i], t), x)
  PROVE  Accepted(V, W, A, F[i], i, t, n)
<1>1. /\ IsNode(node[i]) /\ Stable(V, node[i]) /\ NodeFits(V, W, A, F[i], i, node[i])
      /\ SnapChosen(node[i]) /\ Written(W) /\ node[i].term \in Nat
  BY BeforeGives, Zenon DEF Before, Wellformed, IsNode
<1>2. /\ n.log = node[i].log /\ n.snap = node[i].snap /\ n.commit = node[i].commit
      /\ IsNode(n) /\ n.term = t /\ n.role = Follower
  BY <1>1, AcceptAlike
<1>3. Stable(V, n)
  <2>1. Stable(V, ObserveTerm(node[i], t))
    BY <1>1, ObserveTermStable, Zenon
  <2> QED  BY <2>1, AcceptLeaderStable, Zenon
<1>4. NodeFits(V, W, A, F[i], i, n)
  <2>1. n.role # Leader
    BY <1>2, Zenon DEF Leader, Follower
  <2> QED  BY <1>1, <1>2, <2>1, NodeFitsAlike, Zenon
<1>5. SnapChosen(n)
  BY <1>1, <1>2, Zenon DEF SnapChosen
<1> QED
  BY <1>2, <1>3, <1>4, <1>5, Zenon DEF Accepted

\* What a round under way carries.
LEMMA RequestGives ==
  ASSUME NEW V \in SUBSET Server, NEW W, NEW A, NEW F, Before(V, W, A, F),
         NEW i \in Server, NEW m \in Received(i, "AppendEntries")
  PROVE  /\ m.term \in Nat /\ m.prevIndex \in Nat /\ m.commit \in Nat
         /\ RequestFits(V, W, A, m)
BY Zenon DEF Before, Wellformed, VotersStay, StableMsg, LogInv, MsgFits, Received

\* A follower that passes the consistency check receives a round that fits.
LEMMA ReceiverFits ==
  ASSUME NEW V \in SUBSET Server, NEW W, NEW A, NEW F, Before(V, W, A, F),
         NEW i \in Server, NEW m \in Received(i, "AppendEntries"), m.term >= node[i].term,
         NEW n, n = AcceptLeader(ObserveTerm(node[i], m.term), m.from),
         LogMatches(n, m.prevIndex, m.prevTerm)
  PROVE  Receives(V, W, A, F[i], i, n, m)
<1>1. /\ m.term \in Nat /\ m.prevIndex \in Nat /\ m.commit \in Nat
      /\ RequestFits(V, W, A, m)
  BY RequestGives, Zenon
<1>2. Stable(V, n) /\ NodeFits(V, W, A, F[i], i, n) /\ n.role = Follower /\ n.term = m.term
  <2>1. Accepted(V, W, A, F[i], i, m.term, n)
    BY <1>1, AcceptedFits, Zenon
  <2> QED  BY <2>1, Zenon DEF Accepted
<1>3. Written(W) /\ LaterLeadersFit(V, W, A)
  BY Zenon DEF Before, LogInv
<1> QED
  BY <1>1, <1>2, <1>3, Zenon DEF Receives

(* The index a follower asks for is one the leader has (conflict_hint).    *)
LEMMA HintFits ==
  ASSUME Counting, NEW V, NEW n, Stable(V, n), NEW prev \in Nat, prev > 0
  PROVE  ConflictHint(n, prev) \in 1..prev
<1>1. LastIndex(n) \in Nat
  BY LastIndexIs, Zenon
<1>2. CASE prev > LastIndex(n)
  BY <1>1, <1>2 DEF ConflictHint
<1>3. CASE ~(prev > LastIndex(n))
  <2>1. PICK S \in SUBSET (1..prev) : prev \in S /\ ConflictHint(n, prev) = Min(S)
    <3> DEFINE term == IF prev \in DOMAIN n.log THEN n.log[prev].term ELSE 0
               S == {f \in 1..prev :
                       \A k \in f..(prev - 1) : k \in DOMAIN n.log /\ n.log[k].term = term}
    <3>1. ConflictHint(n, prev) = Min(S)
      BY <1>3, Zenon DEF ConflictHint
    <3>2. prev \in S
      <4>1. prev..(prev - 1) = {} /\ prev \in 1..prev
        OBVIOUS
      <4> HIDE DEF term
      <4> QED  BY <4>1, Zenon
    <3>3. S \in SUBSET (1..prev)
      BY Zenon
    <3> HIDE DEF S
    <3> QED  BY <3>1, <3>2, <3>3, Zenon
  <2>2. S \subseteq Nat /\ S # {}
    BY <2>1
  <2> QED  BY <2>1, <2>2, MinOf, Zenon
<1> QED  BY <1>2, <1>3, Zenon

\* What a request says it reaches is what it reaches.
LEMMA ReachIs ==
  ASSUME Counting, NEW m, m.prevIndex \in Nat, NEW e \in Nat, e >= m.prevIndex,
         DOMAIN m.entries = (m.prevIndex + 1)..e
  PROVE  MatchIndex(m) = e
<1>1. Cardinality((m.prevIndex + 1)..e) = e - m.prevIndex
  BY Zenon DEF Counting
<1> QED
  BY <1>1 DEF MatchIndex

\* The commit index that a request takes a follower to.
LEMMA CommitAfterIs ==
  ASSUME Counting,
         NEW a, NEW m, m.prevIndex \in Nat, m.commit \in Nat, a.commit \in Nat,
         NEW e \in Nat, e >= m.prevIndex, e >= m.commit,
         DOMAIN m.entries = (m.prevIndex + 1)..e
  PROVE  CommitAfter(a, m) = IF m.commit > a.commit THEN m.commit ELSE a.commit
<1>1. MatchIndex(m) = e
  BY ReachIs, Zenon
<1>2. Min({m.commit, e}) = m.commit
  <2> DEFINE S == {m.commit, e}
  <2>1. S \subseteq Nat /\ S # {}
    BY Zenon
  <2>2. Min(S) \in S /\ \A k \in S : Min(S) <= k
    BY <2>1, MinOf, Zenon
  <2> QED  BY <2>2
<1> QED
  BY <1>1, <1>2, Zenon DEF CommitAfter

(* A request with the entry before its own matching: the follower has the  *)
(* leader's log up to the end of the request, and says so.                 *)
LEMMA AppendsFits ==
  ASSUME Counting,
         NEW V \in SUBSET Server, NEW W, NEW A, NEW F, Before(V, W, A, F), After(V),
         NEW i \in Server, NEW m, NEW n, Receives(V, W, A, F[i], i, n, m), SnapChosen(n),
         n.snap = node[i].snap, n.commit = node[i].commit,
         NEW a, a = AppendNewEntries(n, m.entries), Voted(V, W, A, F, i),
         Take(i, {m}, Step([a EXCEPT !.commit = CommitAfter(a, m)],
                           AppendReply(i, m, a.term, TRUE, 0, MatchIndex(m))))
  PROVE  Proceeds(V, W, A, F)
<1> DEFINE T == m.term
           c == [a EXCEPT !.commit = CommitAfter(a, m)]
           out == AppendReply(i, m, a.term, TRUE, 0, MatchIndex(m))
<1>1. /\ V \in SUBSET Server /\ Written(W) /\ LaterLeadersFit(V, W, A) /\ IsNode(n)
      /\ n.role = Follower /\ n.term = T /\ m.prevIndex \in Nat /\ m.commit \in Nat
      /\ n.commit \in Nat
      /\ m.commit = 0 \/ \E t, k \in Nat : t <= T /\ k >= m.commit /\ Decided(V, W, A, t, k)
  BY Zenon DEF Receives, RequestFits, Stable
<1>2. PICK e \in Nat : /\ DOMAIN m.entries = (m.prevIndex + 1)..e
                        /\ e >= m.prevIndex /\ e >= m.commit
  BY Zenon DEF Receives, RequestFits
<1>3. T \in DOMAIN W /\ T \in Nat /\ n.snap.index \in Nat /\ n.snap.index <= n.commit
  BY ReceivesGives, Zenon
<1>4. PICK L2 : /\ Stands(a, L2) /\ Sound(W, L2) /\ \A k \in DOMAIN L2 : L2[k].term <= T
                /\ Agree(L2, W[T], e) /\ Backed(V, W, A, T, L2, n.commit)
                /\ e <= LastIndex(a) /\ n.commit <= LastIndex(a)
                /\ Keeps(V, W, A, F[i], L2, i)
  BY <1>2, AppendedFits, Zenon
<1>5. /\ IsNode(a) /\ a.snap = n.snap /\ a.commit = n.commit /\ a.term = T /\ a.role = Follower
  BY <1>1, AppendNewEntriesIs
<1>6. /\ c.snap = a.snap /\ c.term = a.term /\ c.role = a.role /\ c.log = a.log
      /\ c.commit = IF m.commit > n.commit THEN m.commit ELSE n.commit
  <2>1. /\ c.snap = a.snap /\ c.term = a.term /\ c.role = a.role /\ c.log = a.log
        /\ c.commit = CommitAfter(a, m)
    BY <1>5, Zenon DEF IsNode, NodeFields
  <2> QED  BY <1>1, <1>2, <1>5, <2>1, CommitAfterIs
<1>7. Take(i, {m}, Step(c, out))
  BY Zenon
<1> DEFINE A2 == A \cup {<<i, T, e>>}
<1>8. \A r \in out : MsgFits(V, W, A2, r) /\ Asks(i, c, r)
  <2>1. MatchIndex(m) = e
    BY <1>1, <1>2, ReachIs, Zenon
  <2>2. Acked(A2, i, T, e)
    <3> DEFINE b == <<i, T, e>>
    <3>1. b \in A2 /\ b[1] = i /\ b[2] = T /\ b[3] >= e
      OBVIOUS
    <3> HIDE DEF A2, b
    <3> QED  BY <3>1, Zenon DEF Acked
  <2>3. ASSUME NEW r \in out
        PROVE  /\ r.type = "AppendEntriesResponse" /\ r.from = i /\ r.term = T
               /\ r.success = TRUE /\ r.matchIndex = e /\ r.conflictIndex = 0
    BY <1>5, <2>1 DEF AppendReply
  <2> HIDE DEF out, c, A2, T
  <2>4. \A r \in out : r.type = "AppendEntriesResponse" /\ ReplyFits(W, A2, r)
    <3> SUFFICES ASSUME NEW r \in out
                 PROVE  r.type = "AppendEntriesResponse" /\ ReplyFits(W, A2, r)
      BY Zenon
    <3>1. Acked(A2, r.from, r.term, r.matchIndex)
      BY <2>2, <2>3, Zenon
    <3>3. r.conflictIndex = 0
      BY <2>3, Zenon
    <3>2. ~(r.conflictIndex > 0)
      BY <3>3
    <3> QED  BY <2>3, <3>1, <3>2, Zenon DEF ReplyFits
  <2> QED  BY <2>4, Zenon DEF MsgFits, Asks
<1>9. NewAcksFit(A, W, A2, L2, i, T)
  BY <1>2, <1>3, <1>4 DEF NewAcksFit
<1>10. A \subseteq A2
  BY Zenon
<1> HIDE DEF c, out, A2
<1>11. LastIndex(c) = LastIndex(a) /\ Stands(c, L2)
  <2>1. LastIndex(c) = LastIndex(a)
    BY <1>6, Zenon DEF LastIndex
  <2> QED  BY <1>4, <1>6, <2>1, Zenon DEF Stands
<1>12. Backed(V, W, A, T, L2, c.commit)
  <2>1. CASE m.commit > n.commit
    <3>1. PICK t, k \in Nat : t <= T /\ k >= m.commit /\ Decided(V, W, A, t, k)
      BY <1>1, <2>1
    <3> QED  BY <1>1, <1>2, <1>3, <1>4, <1>6, <2>1, <3>1, DecidedBacks, Zenon
  <2>2. CASE ~(m.commit > n.commit)
    BY <1>4, <1>6, <2>2, Zenon
  <2> QED  BY <2>1, <2>2, Zenon
<1>13. Backed(V, W, A2, T, L2, c.commit)
  <2>1. Extends(W, W) /\ T <= T
    BY <1>3 DEF Extends
  <2> QED  BY <1>3, <1>10, <1>12, <2>1, BackedGrows, Zenon
<1>14. c.snap.index <= c.commit /\ c.commit <= LastIndex(c)
  <2>1. LastIndex(c) \in Nat
    <3>1. node'[i] = c
      <4>1. node'[i] = Step(c, out).n
        BY <1>7, TakeMoves, Zenon DEF Before
      <4> QED  BY <4>1, Zenon DEF Step
    <3>2. \A V1, n1 : Stable(V1, n1) => LastIndex(n1) \in Nat
      BY LastIndexIs, Zenon
    <3>3. Stable(V, c)
      BY <3>1, Zenon DEF After, VotersStay
    <3> QED  BY <3>2, <3>3, Zenon
  <2>2. /\ c.snap.index = n.snap.index /\ c.commit >= n.commit
        /\ c.commit = m.commit \/ c.commit = n.commit
    BY <1>1, <1>5, <1>6
  <2>3. /\ m.commit \in Nat /\ n.commit \in Nat
        /\ e >= m.commit /\ e <= LastIndex(c) /\ n.commit <= LastIndex(c)
    BY <1>1, <1>2, <1>4, <1>11, Zenon
  <2> QED  BY <1>3, <2>1, <2>2, <2>3
<1>15. NodeFits(V, W, A2, L2, i, c)
  BY <1>4, <1>5, <1>6, <1>11, <1>13, <1>14, Zenon DEF NodeFits, Leader, Follower
<1>16. SnapChosen(c)
  BY <1>5, <1>6, Zenon DEF SnapChosen
<1>17. c.role = Follower /\ c.term = T
  BY <1>5, <1>6, Zenon
<1>18. Advances(node[i], c)
  BY <1>1, <1>3, <1>5, <1>6 DEF Advances
<1> HIDE DEF T
<1> QED
  BY <1>4, <1>7, <1>8, <1>9, <1>15, <1>16, <1>17, <1>18, FollowerTakes, Zenon

(* handle_append_entries.                                                  *)
LEMMA HandleAppendEntriesLogs ==
  ASSUME Counting,
         NEW V \in SUBSET Server, NEW W, NEW A, NEW F, Before(V, W, A, F), After(V),
         NEW i \in Server, NEW m \in Received(i, "AppendEntries"), HandleAppendEntries(i, m),
         Stays(i) \/ Enters(i)
  PROVE  Proceeds(V, W, A, F)
<1> DEFINE n == AcceptLeader(ObserveTerm(node[i], m.term), m.from)
           stale == AppendReply(i, m, node[i].term, FALSE, 0, 0)
           no == AppendReply(i, m, n.term, FALSE, ConflictHint(n, m.prevIndex), 0)
           a == AppendNewEntries(n, m.entries)
<1>1. Voted(V, W, A, F, i)
  BY Zenon DEF Voted
<1>2. /\ m.term \in Nat /\ m.prevIndex \in Nat /\ m.commit \in Nat
      /\ RequestFits(V, W, A, m)
  BY RequestGives, Zenon
<1>3. \/ Take(i, {m}, Step(node[i], stale))
      \/ /\ m.term >= node[i].term /\ ~LogMatches(n, m.prevIndex, m.prevTerm)
         /\ Take(i, {m}, Step(n, no))
      \/ /\ m.term >= node[i].term /\ LogMatches(n, m.prevIndex, m.prevTerm)
         /\ Take(i, {m}, Step([a EXCEPT !.commit = CommitAfter(a, m)],
                              AppendReply(i, m, a.term, TRUE, 0, MatchIndex(m))))
  BY Zenon DEF HandleAppendEntries
<1>4. CASE Take(i, {m}, Step(node[i], stale))
  <2>1. \A r \in stale : MsgFits(V, W, A, r) /\ Asks(i, node[i], r)
    BY DEF AppendReply, MsgFits, ReplyFits, Asks
  <2> HIDE DEF stale
  <2> QED  BY <1>1, <1>4, <2>1, FollowerKeeps, Zenon
<1>5. ASSUME m.term >= node[i].term
      PROVE  /\ n.log = node[i].log /\ n.snap = node[i].snap /\ n.commit = node[i].commit
             /\ n.term = m.term /\ n.role = Follower /\ Stable(V, n) /\ SnapChosen(n)
  <2>1. Accepted(V, W, A, F[i], i, m.term, n)
    BY <1>2, <1>5, AcceptedFits, Zenon
  <2> QED  BY <2>1, Zenon DEF Accepted
<1>6. n = AcceptLeader(ObserveTerm(node[i], m.term), m.from)
  BY Zenon
<1> HIDE DEF n
<1>7. CASE /\ m.term >= node[i].term /\ ~LogMatches(n, m.prevIndex, m.prevTerm)
           /\ Take(i, {m}, Step(n, no))
  <2>1. /\ n.log = node[i].log /\ n.snap = node[i].snap /\ n.commit = node[i].commit
        /\ n.term = m.term /\ n.role = Follower /\ Stable(V, n)
    BY <1>5, <1>7, Zenon
  <2>2. m.prevIndex > 0 /\ m.term \in DOMAIN W /\ m.prevIndex \in DOMAIN W[m.term]
    BY <1>2, <1>7 DEF LogMatches, RequestFits
  <2>3. ConflictHint(n, m.prevIndex) \in 1..m.prevIndex
    BY <1>2, <2>1, <2>2, HintFits, Zenon
  <2>4. ConflictHint(n, m.prevIndex) \in DOMAIN W[m.term]
    <3>1. Sound(W, W[m.term])
      BY <2>2, Zenon DEF Before, LogInv, Written
    <3>2. PICK x \in Nat : DOMAIN W[m.term] = 1..x
      BY <3>1, Zenon DEF Sound
    <3> QED  BY <1>2, <2>2, <2>3, <3>2
  <2>5. ASSUME NEW r \in no
        PROVE  /\ r.type = "AppendEntriesResponse" /\ r.term = m.term
               /\ r.success = FALSE /\ r.conflictIndex = ConflictHint(n, m.prevIndex)
    BY <2>1 DEF AppendReply
  <2>6. \A r \in no : MsgFits(V, W, A, r) /\ Asks(i, n, r)
    <3> HIDE DEF no
    <3> QED  BY <2>2, <2>4, <2>5, Zenon DEF MsgFits, ReplyFits, Asks
  <2> HIDE DEF no
  <2>7. n.role # Leader
    BY <2>1, Zenon DEF Leader, Follower
  <2> QED  BY <1>1, <1>2, <1>7, <2>1, <2>6, <2>7, FollowerKeeps, Zenon
<1>8. CASE /\ m.term >= node[i].term /\ LogMatches(n, m.prevIndex, m.prevTerm)
           /\ Take(i, {m}, Step([a EXCEPT !.commit = CommitAfter(a, m)],
                                AppendReply(i, m, a.term, TRUE, 0, MatchIndex(m))))
  <2>1. Receives(V, W, A, F[i], i, n, m)
    BY <1>6, <1>8, ReceiverFits, Zenon
  <2>2. SnapChosen(n) /\ n.snap = node[i].snap /\ n.commit = node[i].commit
    BY <1>5, <1>8, Zenon
  <2>3. a = AppendNewEntries(n, m.entries)
    BY Zenon
  <2> HIDE DEF a
  <2> QED  BY <1>1, <1>8, <2>1, <2>2, <2>3, AppendsFits, Zenon
<1> QED
  BY <1>3, <1>4, <1>7, <1>8, Zenon

(* Node r has the first x entries of the log of term T and nothing else;   *)
(* L, which it had before, goes another way after them or ends.            *)
LEMMA PrefixTaken ==
  ASSUME Counting,
         NEW V \in SUBSET Server, NEW W, NEW A, Written(W), LaterLeadersFit(V, W, A),
         NEW T \in DOMAIN W, NEW i, NEW L, Sound(W, L), \A k \in DOMAIN L : L[k].term <= T,
         NEW x \in Nat, x = 0 \/ x \in DOMAIN W[T],
         NEW r, r.snap.index \in Nat, r.commit \in Nat, r.snap.index <= r.commit, r.commit <= x,
         DOMAIN r.log = (r.snap.index + 1)..x, \A k \in DOMAIN r.log : r.log[k] = W[T][k],
         r.snap.term = (IF r.snap.index = 0 THEN 0 ELSE W[T][r.snap.index].term),
         r.role = Follower, r.term = T,
         r.commit = 0 \/ \E t, k \in Nat : t <= T /\ k >= r.commit /\ Decided(V, W, A, t, k),
         \A k \in DOMAIN L : k > x =>
           \E f \in 1..k : f \in DOMAIN W[T] /\ L[f].term # W[T][f].term
  PROVE  \E L2 : NodeFits(V, W, A, L2, i, r) /\ Keeps(V, W, A, L, L2, i)
<1> DEFINE M == W[T]
           L2 == [k \in 1..x |-> M[k]]
<1>1. Sound(W, L2) /\ Agree(L2, M, x) /\ \A k \in DOMAIN L2 : L2[k].term <= T
  BY PrefixFits
<1>2. LastIndex(r) = x
  <2>1. r.snap.index <= x
    OBVIOUS
  <2> QED  BY <2>1, EndOf, Zenon
<1>3. DOMAIN L2 = 1..x /\ \A k \in 1..x : L2[k] = M[k]
  BY Zenon
<1> HIDE DEF L2
<1>4. Stands(r, L2)
  <2>1. \A k \in DOMAIN r.log : r.log[k] = L2[k]
    BY <1>3
  <2>2. r.snap.index # 0 => L2[r.snap.index] = M[r.snap.index]
    BY <1>3
  <2> QED  BY <1>2, <1>3, <2>1, <2>2 DEF Stands
<1>5. Keeps(V, W, A, L, L2, i)
  BY <1>1, TakeoverKeeps, Zenon
<1>6. Backed(V, W, A, T, L2, r.commit)
  <2>1. CASE r.commit = 0
    BY <2>1, Zenon DEF Backed
  <2>2. CASE r.commit # 0
    <3>1. PICK t, k \in Nat : t <= T /\ k >= r.commit /\ Decided(V, W, A, t, k)
      BY <2>2, Zenon
    <3> QED  BY <1>1, <3>1, DecidedBacks, Zenon
  <2> QED  BY <2>1, <2>2, Zenon
<1>7. NodeFits(V, W, A, L2, i, r)
  BY <1>1, <1>2, <1>4, <1>6, Zenon DEF NodeFits, Leader, Follower
<1> QED
  BY <1>5, <1>7, Zenon

\* It acknowledges nothing new.
LEMMA FollowerRewrites ==
  ASSUME NEW V \in SUBSET Server, NEW W, NEW A, NEW F, Before(V, W, A, F), After(V),
         NEW i \in Server, NEW in, NEW n, NEW out, Take(i, in, Step(n, out)),
         Voted(V, W, A, F, i), n.role = Follower, SnapChosen(n), Advances(node[i], n),
         \E L2 : NodeFits(V, W, A, L2, i, n) /\ Keeps(V, W, A, F[i], L2, i),
         \A m \in out : MsgFits(V, W, A, m) /\ Asks(i, n, m)
  PROVE  Proceeds(V, W, A, F)
<1>1. PICK L2 : NodeFits(V, W, A, L2, i, n) /\ Keeps(V, W, A, F[i], L2, i)
  BY Zenon
<1>2. NewAcksFit(A, W, A, L2, i, n.term)
  BY Zenon DEF NewAcksFit
<1> QED
  BY <1>1, <1>2, FollowerTakes, Zenon

(* A crash between the truncation and the append leaves the entries that   *)
(* the leader has as well.                                                 *)
LEMMA CrashWhileAppendingLogs ==
  ASSUME Counting,
         NEW V \in SUBSET Server, NEW W, NEW A, NEW F, Before(V, W, A, F), After(V),
         NEW i \in Server, NEW m \in Received(i, "AppendEntries"), CrashWhileAppending(i, m),
         Stays(i) \/ Enters(i)
  PROVE  Proceeds(V, W, A, F)
<1> DEFINE n == AcceptLeader(ObserveTerm(node[i], m.term), m.from)
           new == NewEntries(n, m.entries)
           t == TruncateConflict(n, new)
           r == Recovered(i, t.term, t.votedFor, t.log, t.snap)
           none == {}
           L == F[i]
           M == W[m.term]
           D == DOMAIN new
           f == Min(D)
<1>1. Voted(V, W, A, F, i)
  BY Zenon DEF Voted
<1>2. /\ m.term >= node[i].term /\ LogMatches(n, m.prevIndex, m.prevTerm)
      /\ t.log # n.log /\ Take(i, {m}, Step(r, none))
  BY Zenon DEF CrashWhileAppending
<1>3. \A x \in none : MsgFits(V, W, A, x) /\ Asks(i, r, x)
  BY Zenon
<1>4. n = AcceptLeader(ObserveTerm(node[i], m.term), m.from)
  BY Zenon
<1>5. r.role = Follower /\ r.term = t.term /\ r.log = t.log /\ r.snap = t.snap
      /\ r.commit = t.snap.index
  BY Zenon DEF Recovered
<1> HIDE DEF n, r, none
<1>6. Receives(V, W, A, L, i, n, m)
  BY <1>2, <1>4, ReceiverFits, Zenon
<1>7. m.term \in Nat
  BY RequestGives, Zenon
<1>8. Accepted(V, W, A, L, i, m.term, n)
  BY <1>2, <1>4, <1>7, AcceptedFits, Zenon
<1>9. IsNode(n) /\ n.term = m.term /\ SnapChosen(n) /\ n.commit \in Nat
      /\ n.snap = node[i].snap
  BY <1>8, Zenon DEF Accepted, Stable
<1>10. t.snap = n.snap /\ t.term = n.term
  <2> HIDE DEF new
  <2> QED  BY <1>9, Zenon DEF TruncateConflict, IsNode, NodeFields
<1>11. D # {}
  <2>1. D = {} => t = n
    BY Zenon DEF TruncateConflict
  <2> QED  BY <1>2, <2>1, Zenon
<1>12. /\ D = DOMAIN NewEntries(n, m.entries) /\ f = Min(D)
       /\ t = TruncateConflict(n, NewEntries(n, m.entries))
  BY Zenon
<1> HIDE DEF D, f, t, new
<1>13. PICK e \in Nat : DOMAIN m.entries = (m.prevIndex + 1)..e /\ e >= m.prevIndex
  BY <1>6, Zenon DEF Receives, RequestFits
<1>14. EndsBefore(n, L, M, f, t)
  BY <1>6, <1>11, <1>12, <1>13, KeptEntries, Zenon
<1>15. Splits(n, L, M, m, e, D, f)
  BY <1>6, <1>12, <1>13, NewEntriesFit, Zenon
<1>16. /\ f \in Nat /\ f > n.commit /\ f > n.snap.index /\ Agree(L, M, f - 1)
       /\ f \in DOMAIN M /\ L[f].term # M[f].term
  BY <1>2, <1>11, <1>14, <1>15, Zenon DEF Splits, EndsBefore
<1>17. /\ m.term \in DOMAIN W /\ Sound(W, L) /\ Sound(W, M)
       /\ \A k \in DOMAIN L : L[k].term <= m.term
       /\ Stands(n, L) /\ LastIndex(n) \in Nat /\ n.snap.index \in Nat
       /\ n.snap.index <= n.commit
  BY <1>6, ReceivesGives, Zenon
<1>18. Written(W) /\ LaterLeadersFit(V, W, A) /\ Backed(V, W, A, m.term, L, n.commit)
  BY <1>6, <1>9, Zenon DEF Receives, NodeFits
<1> DEFINE x == f - 1
<1>19. x \in Nat /\ n.snap.index <= x /\ (x = 0 \/ x \in DOMAIN M)
  <2>1. PICK y \in Nat : DOMAIN M = 1..y
    BY <1>17, Zenon DEF Sound
  <2> QED  BY <1>16, <1>17, <2>1
<1>20. /\ DOMAIN r.log = (r.snap.index + 1)..x /\ \A k \in DOMAIN r.log : r.log[k] = M[k]
       /\ r.snap = n.snap /\ r.commit = r.snap.index /\ r.term = m.term
  BY <1>5, <1>9, <1>10, <1>14, Zenon DEF EndsBefore
<1>21. r.snap.term = IF r.snap.index = 0 THEN 0 ELSE M[r.snap.index].term
  <2>1. n.snap.term = IF n.snap.index = 0 THEN 0 ELSE L[n.snap.index].term
    BY <1>17, Zenon DEF Stands
  <2>2. n.snap.index # 0 => L[n.snap.index] = M[n.snap.index]
    BY <1>16, <1>17, <1>19 DEF Agree
  <2> QED  BY <1>20, <2>1, <2>2, Zenon
<1>22. r.commit = 0 \/ \E u, k \in Nat : /\ u <= m.term /\ k >= r.commit
                                          /\ Decided(V, W, A, u, k)
  <2>1. CASE n.commit = 0
    BY <1>9, <1>17, <1>20, <2>1
  <2>2. CASE n.commit # 0
    <3>1. PICK u, k \in Nat : u <= m.term /\ k >= n.commit /\ Decided(V, W, A, u, k)
      BY <1>18, <2>2, Zenon DEF Backed
    <3>2. k >= r.commit
      BY <1>9, <1>17, <1>20, <3>1
    <3> QED  BY <3>1, <3>2, Zenon
  <2> QED  BY <2>1, <2>2, Zenon
<1>23. \A k \in DOMAIN L : k > x =>
         \E g \in 1..k : g \in DOMAIN M /\ L[g].term # M[g].term
  <2> SUFFICES ASSUME NEW k \in DOMAIN L, k > x
               PROVE  \E g \in 1..k : g \in DOMAIN M /\ L[g].term # M[g].term
    BY Zenon
  <2>1. f \in 1..k
    BY <1>16, <1>17 DEF Stands
  <2> QED  BY <1>16, <2>1, Zenon
<1>24. r.snap.index \in Nat /\ r.commit \in Nat /\ r.snap.index <= r.commit /\ r.commit <= x
  BY <1>17, <1>19, <1>20
<1> HIDE DEF x
<1>25. \E L2 : NodeFits(V, W, A, L2, i, r) /\ Keeps(V, W, A, L, L2, i)
  BY <1>5, <1>17, <1>18, <1>19, <1>20, <1>21, <1>22, <1>23, <1>24, PrefixTaken, Zenon
<1>26. SnapChosen(r)
  BY <1>9, <1>20, Zenon DEF SnapChosen
<1>27. Advances(node[i], r)
  BY <1>9, <1>20, Zenon DEF Advances
<1> QED
  BY <1>1, <1>2, <1>3, <1>5, <1>25, <1>26, <1>27, FollowerRewrites, Zenon

(* Restart: the log is the same, and so is what is committed of it.        *)
LEMMA RestartLogs ==
  ASSUME Counting,
         NEW V \in SUBSET Server, NEW W, NEW A, NEW F, Before(V, W, A, F), After(V),
         NEW i \in Server, Restart(i),
         Stays(i)
  PROVE  Proceeds(V, W, A, F)
<1> DEFINE n == node[i]
           r == Recovered(i, n.term, n.votedFor, n.log, n.snap)
           none == {}
<1>1. Voted(V, W, A, F, i)
  BY Zenon DEF Voted
<1>2. Take(i, none, Step(r, none))
  BY Zenon DEF Restart
<1>3. \A x \in none : MsgFits(V, W, A, x) /\ Asks(i, r, x)
  BY Zenon
<1>4. r.role = Follower /\ r.term = n.term /\ r.log = n.log /\ r.snap = n.snap
      /\ r.commit = n.snap.index
  BY Zenon DEF Recovered
<1> HIDE DEF r, none
<1>14. Advances(node[i], r)
  BY <1>4, Zenon DEF Advances
<1>5. Stable(V, n) /\ NodeFits(V, W, A, F[i], i, n) /\ SnapChosen(n)
  BY BeforeGives, Zenon
<1>6. /\ Stands(n, F[i]) /\ Sound(W, F[i]) /\ \A k \in DOMAIN F[i] : F[i][k].term <= n.term
      /\ n.snap.index <= n.commit /\ n.commit <= LastIndex(n)
      /\ Backed(V, W, A, n.term, F[i], n.commit)
      /\ n.snap.index \in Nat /\ n.commit \in Nat /\ LastIndex(n) \in Nat
  BY <1>5, LastIndexIs, Zenon DEF NodeFits, Stable, SnapOk
<1> HIDE DEF n
<1>7. LastIndex(r) = LastIndex(n)
  BY <1>4, Zenon DEF LastIndex
<1>8. Stands(r, F[i])
  BY <1>4, <1>6, <1>7, Zenon DEF Stands
<1>9. Backed(V, W, A, n.term, F[i], n.snap.index)
  <2>1. CASE n.snap.index = 0
    BY <2>1, Zenon DEF Backed
  <2>2. CASE n.snap.index # 0
    <3>1. PICK t, k \in Nat : /\ t <= n.term /\ k >= n.commit /\ Decided(V, W, A, t, k)
                              /\ Agree(W[t], F[i], n.commit)
      BY <1>6, <2>2 DEF Backed
    <3>2. k >= n.snap.index /\ \A j \in 1..n.snap.index : j \in 1..n.commit
      BY <1>6, <3>1
    <3>3. Agree(W[t], F[i], n.snap.index)
      BY <3>1, <3>2, Zenon DEF Agree
    <3> QED  BY <3>1, <3>2, <3>3, Zenon DEF Backed
  <2> QED  BY <2>1, <2>2, Zenon
<1>10. r.snap.index <= r.commit /\ r.commit <= LastIndex(r)
  BY <1>4, <1>6, <1>7
<1>11. NodeFits(V, W, A, F[i], i, r)
  BY <1>4, <1>6, <1>8, <1>9, <1>10, Zenon DEF NodeFits, Leader, Follower
<1>12. Keeps(V, W, A, F[i], F[i], i) /\ SnapChosen(r)
  BY <1>4, <1>5, Zenon DEF Keeps, SnapChosen
<1>13. \E L2 : NodeFits(V, W, A, L2, i, r) /\ Keeps(V, W, A, F[i], L2, i)
  BY <1>11, <1>12, Zenon
<1> QED
  BY <1>1, <1>2, <1>3, <1>4, <1>12, <1>13, <1>14, FollowerRewrites, Zenon

(* compact: the snapshot takes the place of the committed entries.         *)
LEMMA CompactedFits ==
  ASSUME Counting,
         NEW V, NEW W, NEW A, NEW L, NEW i, NEW n, Stable(V, n), NodeFits(V, W, A, L, i, n),
         n.commit > n.snap.index,
         NEW c, c.snap.index = n.commit, c.snap.term = TermAt(n, n.commit),
         c.log = EntriesFrom(n, n.commit + 1), c.commit = n.commit, c.term = n.term,
         c.role = n.role, c.lead = n.lead
  PROVE  NodeFits(V, W, A, L, i, c)
<1>1. /\ Stands(n, L) /\ n.commit <= LastIndex(n)
      /\ n.snap.index \in Nat /\ n.commit \in Nat /\ LastIndex(n) \in Nat
  BY LastIndexIs, Zenon DEF NodeFits, Stable, SnapOk
<1>2. DOMAIN n.log = (n.snap.index + 1)..LastIndex(n) /\ \A k \in DOMAIN n.log : n.log[k] = L[k]
  BY <1>1, Zenon DEF Stands
<1>3. c.snap.term = L[n.commit].term /\ n.commit # 0
  <2>1. n.commit \in DOMAIN n.log
    BY <1>1, <1>2
  <2> QED  BY <1>1, <1>2, <2>1 DEF TermAt
<1>4. DOMAIN c.log = (n.commit + 1)..LastIndex(n) /\ \A k \in DOMAIN c.log : c.log[k] = L[k]
  <2>1. {k \in DOMAIN n.log : k >= n.commit + 1} = (n.commit + 1)..LastIndex(n)
    BY <1>1, <1>2
  <2>2. c.log = [k \in (n.commit + 1)..LastIndex(n) |-> n.log[k]]
    BY <2>1, Zenon DEF EntriesFrom, Restrict
  <2>3. \A k \in (n.commit + 1)..LastIndex(n) : n.log[k] = L[k]
    BY <1>2, <2>1, Zenon
  <2> QED  BY <2>2, <2>3, Zenon
<1>5. LastIndex(c) = LastIndex(n)
  BY <1>1, <1>4, EndOf, Zenon
<1>6. Stands(c, L)
  BY <1>1, <1>3, <1>4, <1>5, Zenon DEF Stands
<1>7. c.role = Leader => LeadFits(W, A, i, c)
  BY <1>5, Zenon DEF NodeFits, LeadFits
<1>8. c.snap.index <= c.commit /\ c.commit <= LastIndex(c)
  BY <1>1, <1>5
<1> QED
  BY <1>6, <1>7, <1>8, Zenon DEF NodeFits

\* compact keeps the invariant: the log it stands for is the same.
LEMMA CompactLogs ==
  ASSUME Counting,
         NEW V \in SUBSET Server, NEW W, NEW A, NEW F, Before(V, W, A, F), After(V),
         NEW i \in Server, Compact(i),
         Stays(i)
  PROVE  Proceeds(V, W, A, F)
<1> DEFINE n == node[i]
           snap == [index |-> n.commit, term |-> TermAt(n, n.commit),
                    config |-> ConfigAt(n, n.commit)]
           c == [n EXCEPT !.snap = snap, !.log = EntriesFrom(n, n.commit + 1),
                          !.configs = OnCompact(n, n.commit)]
           none == {}
           s == Step(c, none)
<1>1. Voted(V, W, A, F, i)
  BY Zenon DEF Voted
<1>2. n.commit > n.snap.index /\ Take(i, none, s)
  BY Zenon DEF Compact
<1>3. \A x \in none : MsgFits(V, W, A, x) /\ Asks(i, c, x)
  BY Zenon
<1>4. Stable(V, n) /\ NodeFits(V, W, A, F[i], i, n) /\ IsNode(n) /\ n.commit \in Nat
      /\ n.snap.index \in Nat
  BY BeforeGives, Zenon DEF Stable, SnapOk
<1>5. snap.index = n.commit /\ snap.term = TermAt(n, n.commit)
  BY Zenon
<1>6. n.commit \in DOMAIN chosen
  <2>1. n.commit > 0
    BY <1>2, <1>4
  <2> QED  BY <2>1, Zenon DEF Before, LogInv, ChosenFits
<1> HIDE DEF snap, n
<1>7. /\ c.snap = snap /\ c.log = EntriesFrom(n, n.commit + 1) /\ c.commit = n.commit
      /\ c.term = n.term /\ c.role = n.role /\ c.lead = n.lead
  BY <1>4, Zenon DEF IsNode, NodeFields
<1>8. s.n = c /\ s.out = none
  BY Zenon DEF Step
<1>11. Advances(node[i], c)
  <2> HIDE DEF c
  <2>1. n.snap.index <= c.snap.index /\ n.commit <= c.commit
    BY <1>2, <1>4, <1>5, <1>7
  <2> QED  BY <2>1, Zenon DEF Advances, n
<1> HIDE DEF c, none, s
<1>9. NodeFits(V, W, A, F[i], i, c)
  BY <1>2, <1>4, <1>5, <1>7, CompactedFits, Zenon
<1>10. SnapChosen(c)
  BY <1>5, <1>6, <1>7, Zenon DEF SnapChosen
<1> QED
  BY <1>1, <1>2, <1>3, <1>8, <1>9, <1>10, <1>11, QuietKeeps, Zenon

(* A snapshot with news: the entry it ends with is committed, and what the *)
(* follower keeps after it, it has from the same leader (install_snapshot).*)
Installed(n, snap, r) ==
  /\ r.snap = snap /\ r.commit = snap.index /\ r.term = n.term /\ r.role = n.role
  /\ \/ /\ snap.index \in DOMAIN n.log /\ n.log[snap.index].term = snap.term
        /\ r.log = Restrict(n.log, {k \in DOMAIN n.log : k > snap.index})
     \/ /\ snap.index \notin DOMAIN n.log \/ n.log[snap.index].term # snap.term
        /\ r.log = Restrict(n.log, {})

\* The two cases of install_snapshot.
LEMMA InstallOverIs ==
  ASSUME NEW n, IsNode(n), NEW snap, NEW r, r = InstallOver(n, snap)
  PROVE  Installed(n, snap, r)
<1> DEFINE matches == snap.index \in DOMAIN n.log /\ n.log[snap.index].term = snap.term
           kept == IF matches THEN {k \in DOMAIN n.log : k > snap.index} ELSE {}
           cf == OnInstallSnapshot(n.configs, snap, ~matches)
           lg == Restrict(n.log, kept)
<1>1. r = [n EXCEPT !.log = lg, !.configs = cf, !.commit = snap.index, !.snap = snap]
  BY Zenon DEF InstallOver
<1>2. matches => kept = {k \in DOMAIN n.log : k > snap.index}
  BY Zenon
<1>3. ~matches => kept = {}
  BY Zenon
<1>6. lg = Restrict(n.log, kept)
  BY Zenon
<1> HIDE DEF lg, cf, kept, matches
<1>4. /\ r.snap = snap /\ r.commit = snap.index /\ r.term = n.term /\ r.role = n.role
      /\ r.log = lg
  BY <1>1, Zenon DEF IsNode, NodeFields
<1>5. /\ matches => r.log = Restrict(n.log, {k \in DOMAIN n.log : k > snap.index})
      /\ ~matches => r.log = Restrict(n.log, {})
  BY <1>2, <1>3, <1>4, <1>6, Zenon
<1> QED
  BY <1>4, <1>5, Zenon DEF matches, Installed

\* In both the follower's log fits: what the snapshot covers is decided.
LEMMA InstalledFits ==
  ASSUME Counting,
         NEW V \in SUBSET Server, NEW W, NEW A, Written(W), LaterLeadersFit(V, W, A),
         NEW L, NEW i, NEW n, Stable(V, n), NodeFits(V, W, A, L, i, n), n.role = Follower,
         NEW m, n.term = m.term, SnapshotFits(V, W, A, m), m.snap.index \in Nat,
         IsNews(n, m.snap), NEW r, Installed(n, m.snap, r)
  PROVE  \E L2 : NodeFits(V, W, A, L2, i, r) /\ Keeps(V, W, A, L, L2, i)
<1> DEFINE T == m.term
           M == W[T]
           x == m.snap.index
           matches == x \in DOMAIN n.log /\ n.log[x].term = m.snap.term
<1>1. /\ T \in DOMAIN W /\ x > 0 /\ x \in DOMAIN M /\ M[x].term = m.snap.term
      /\ \E t, k \in Nat : t <= T /\ k >= x /\ Decided(V, W, A, t, k)
  BY Zenon DEF SnapshotFits, Contains
<1>2. /\ Stands(n, L) /\ Sound(W, L) /\ (\A k \in DOMAIN L : L[k].term <= T)
      /\ n.snap.index \in Nat /\ n.commit \in Nat /\ LastIndex(n) \in Nat /\ IsNode(n)
      /\ n.snap.index <= n.commit /\ n.commit <= LastIndex(n)
  BY LastIndexIs, Zenon DEF NodeFits, Stable, SnapOk
<1>3. /\ r.snap = m.snap /\ r.commit = x /\ r.term = T /\ r.role = Follower
      /\ matches => r.log = Restrict(n.log, {k \in DOMAIN n.log : k > x})
      /\ ~matches => r.log = Restrict(n.log, {})
  BY Zenon DEF Installed
<1>4. x > n.snap.index /\ x \in Nat
  BY Zenon DEF IsNews
<1>5. Sound(W, M)
  BY <1>1, Zenon DEF Written
<1>6. DOMAIN n.log = (n.snap.index + 1)..LastIndex(n) /\ DOMAIN L = 1..LastIndex(n)
      /\ \A k \in DOMAIN n.log : n.log[k] = L[k]
  BY <1>2, Zenon DEF Stands
<1> HIDE DEF M
<1>7. CASE matches
  <2>1. x \in DOMAIN n.log /\ n.log[x].term = m.snap.term
    BY <1>7, Zenon
  <2>2. x \in DOMAIN L /\ L[x].term = M[x].term /\ x <= LastIndex(n) /\ L[x].term = m.snap.term
    BY <1>1, <1>4, <1>6, <2>1
  <2>3. Agree(L, M, x)
    BY <1>1, <1>2, <1>5, <2>2, SameTermAgree, Zenon
  <2>4. r.log = Restrict(n.log, {k \in DOMAIN n.log : k > x})
    BY <1>3, <1>7, Zenon
  <2> HIDE DEF x, matches
  <2>5. DOMAIN r.log = (x + 1)..LastIndex(n) /\ \A k \in DOMAIN r.log : r.log[k] = L[k]
    <3>1. {k \in DOMAIN n.log : k > x} = (x + 1)..LastIndex(n)
      BY <1>2, <1>4, <1>6, <2>2
    <3>2. r.log = [k \in (x + 1)..LastIndex(n) |-> n.log[k]]
      BY <2>4, <3>1, Zenon DEF Restrict
    <3>3. \A k \in (x + 1)..LastIndex(n) : n.log[k] = L[k]
      BY <1>6, <3>1, Zenon
    <3> QED  BY <3>2, <3>3, Zenon
  <2>6. r.snap.index = x /\ r.snap.term = m.snap.term
    BY <1>3, Zenon DEF x
  <2>7. LastIndex(r) = LastIndex(n)
    BY <1>2, <1>4, <2>2, <2>5, <2>6, EndOf, Zenon
  <2>8. Stands(r, L)
    BY <1>1, <1>6, <2>2, <2>5, <2>6, <2>7 DEF Stands
  <2>9. Backed(V, W, A, T, L, x)
    <3>1. PICK t, k \in Nat : t <= T /\ k >= x /\ Decided(V, W, A, t, k)
      BY <1>1, Zenon
    <3> QED  BY <1>1, <1>4, <2>3, <3>1, DecidedBacks DEF M
  <2>10. r.snap.index <= r.commit /\ r.commit <= LastIndex(r)
    BY <1>3, <1>4, <2>2, <2>6, <2>7
  <2>11. NodeFits(V, W, A, L, i, r)
    BY <1>2, <1>3, <2>8, <2>9, <2>10, Zenon DEF NodeFits, Leader, Follower
  <2>12. Keeps(V, W, A, L, L, i)
    BY Zenon DEF Keeps
  <2> QED  BY <2>11, <2>12, Zenon
<1>8. CASE ~matches
  <2>1. x \notin DOMAIN n.log \/ n.log[x].term # m.snap.term
    BY <1>8, Zenon
  <2>2. r.log = Restrict(n.log, {}) /\ r.snap.index = x /\ r.snap.term = m.snap.term
    BY <1>3, <1>8, Zenon
  <2> HIDE DEF x, matches
  <2>3. DOMAIN r.log = (x + 1)..x /\ \A k \in DOMAIN r.log : r.log[k] = M[k]
    <3>1. (x + 1)..x = {}
      BY <1>4
    <3>2. DOMAIN r.log = {}
      BY <2>2, Zenon DEF Restrict
    <3> QED  BY <3>1, <3>2, Zenon
  <2>4. \A k \in DOMAIN L : k > x =>
          \E f \in 1..k : f \in DOMAIN M /\ L[f].term # M[f].term
    <3> SUFFICES ASSUME NEW k \in DOMAIN L, k > x
                 PROVE  \E f \in 1..k : f \in DOMAIN M /\ L[f].term # M[f].term
      BY Zenon
    <3>1. x \in 1..k /\ x \in DOMAIN n.log
      BY <1>1, <1>2, <1>4, <1>6
    <3>2. L[x].term # M[x].term
      BY <1>1, <1>6, <2>1, <3>1, Zenon
    <3> QED  BY <1>1, <3>1, <3>2, Zenon
  <2>5. r.snap.term = IF r.snap.index = 0 THEN 0 ELSE M[r.snap.index].term
    BY <1>1, <1>4, <2>2
  <2>6. /\ r.snap.index \in Nat /\ r.commit \in Nat /\ r.snap.index <= r.commit
        /\ r.commit <= x /\ DOMAIN r.log = (r.snap.index + 1)..x
    BY <1>3, <1>4, <2>2, <2>3
  <2>7. r.commit = 0 \/ \E t, k \in Nat : t <= T /\ k >= r.commit /\ Decided(V, W, A, t, k)
    BY <1>1, <1>3, Zenon
  <2>8. /\ T \in DOMAIN W /\ Sound(W, L) /\ \A k \in DOMAIN L : L[k].term <= T
    BY <1>1, <1>2, Zenon
  <2>9. /\ x \in Nat /\ (x = 0 \/ x \in DOMAIN W[T])
        /\ \A k \in DOMAIN r.log : r.log[k] = W[T][k]
    BY <1>1, <1>4, <2>3, Zenon DEF M
  <2>10. r.snap.term = IF r.snap.index = 0 THEN 0 ELSE W[T][r.snap.index].term
    BY <2>5, Zenon DEF M
  <2>11. \A k \in DOMAIN L : k > x =>
           \E f \in 1..k : f \in DOMAIN W[T] /\ L[f].term # W[T][f].term
    BY <2>4, Zenon DEF M
  <2>12. r.role = Follower /\ r.term = T
    BY <1>3, Zenon
  <2> HIDE DEF T
  <2> QED
    BY <2>6, <2>7, <2>8, <2>9, <2>10, <2>11, <2>12, PrefixTaken, Zenon
<1> QED
  BY <1>7, <1>8, Zenon

\* handle_install_snapshot keeps the invariant.
LEMMA HandleInstallSnapshotLogs ==
  ASSUME Counting,
         NEW V \in SUBSET Server, NEW W, NEW A, NEW F, Before(V, W, A, F), After(V),
         NEW i \in Server, NEW m \in Received(i, "InstallSnapshot"),
         HandleInstallSnapshot(i, m),
         Stays(i) \/ Enters(i)
  PROVE  Proceeds(V, W, A, F)
<1> DEFINE n == AcceptLeader(ObserveTerm(node[i], m.term), m.from)
           r == InstallOver(n, m.snap)
           stale == SnapshotReply(i, m, node[i].term)
           ack == SnapshotReply(i, m, n.term)
<1>1. Voted(V, W, A, F, i)
  BY Zenon DEF Voted
<1>2. m.term \in Nat /\ m.snap.index \in Nat /\ SnapshotFits(V, W, A, m)
  BY Zenon DEF Before, Wellformed, VotersStay, StableMsg, SnapOk, LogInv, MsgFits, Received
<1>3. \/ Take(i, {m}, Step(node[i], stale))
      \/ m.term >= node[i].term /\ Take(i, {m}, Step(n, ack))
      \/ /\ m.term >= node[i].term /\ IsNews(n, m.snap)
         /\ Take(i, {m}, Step(r, ack))
  BY Zenon DEF HandleInstallSnapshot
<1>4. \A y : /\ \A q \in stale : MsgFits(V, W, A, q) /\ Asks(i, y, q)
             /\ \A q \in ack : MsgFits(V, W, A, q) /\ Asks(i, y, q)
  <2>1. /\ \A q \in stale : q.type = "InstallSnapshotResponse"
        /\ \A q \in ack : q.type = "InstallSnapshotResponse"
    BY DEF SnapshotReply
  <2> HIDE DEF stale, ack
  <2> QED  BY <2>1, Zenon DEF MsgFits, Asks
<1>5. n = AcceptLeader(ObserveTerm(node[i], m.term), m.from)
  BY Zenon
<1> HIDE DEF stale, ack, n
<1>6. CASE Take(i, {m}, Step(node[i], stale))
  BY <1>1, <1>4, <1>6, FollowerKeeps, Zenon
<1>7. m.term >= node[i].term => Accepted(V, W, A, F[i], i, m.term, n)
  BY <1>2, <1>5, AcceptedFits, Zenon
<1>8. CASE m.term >= node[i].term /\ Take(i, {m}, Step(n, ack))
  <2>1. /\ n.log = node[i].log /\ n.snap = node[i].snap /\ n.commit = node[i].commit
        /\ n.term \in Nat /\ n.term >= node[i].term
        /\ n.role # Leader /\ (n.role # Follower => i \in V)
    BY <1>2, <1>7, <1>8, Zenon DEF Accepted, Leader, Follower
  <2> QED  BY <1>1, <1>4, <1>8, <2>1, FollowerKeeps, Zenon
<1>9. CASE /\ m.term >= node[i].term /\ IsNews(n, m.snap)
           /\ Take(i, {m}, Step(r, ack))
  <2>1. /\ Stable(V, n) /\ NodeFits(V, W, A, F[i], i, n) /\ n.role = Follower
        /\ n.term = m.term /\ IsNode(n)
        /\ n.snap = node[i].snap /\ n.commit = node[i].commit
    BY <1>7, <1>9, Zenon DEF Accepted
  <2>5. Installed(n, m.snap, r)
    BY <2>1, InstallOverIs, Zenon
  <2>2. r.role = Follower /\ r.snap = m.snap /\ r.commit = m.snap.index
    BY <2>1, <2>5, Zenon DEF Installed
  <2>7. Advances(node[i], r)
    <3>1. n.snap.index \in Nat /\ n.commit \in Nat
      BY <2>1, Zenon DEF Stable, SnapOk
    <3>2. m.snap.index > n.snap.index /\ m.snap.index > n.commit
      BY <1>9, Zenon DEF IsNews
    <3> HIDE DEF r
    <3> QED  BY <1>2, <2>1, <2>2, <3>1, <3>2 DEF Advances
  <2>3. SnapChosen(r)
    BY <1>2, <2>2, Zenon DEF SnapChosen, SnapshotFits
  <2>4. Written(W) /\ LaterLeadersFit(V, W, A)
    BY Zenon DEF Before, LogInv
  <2> HIDE DEF r
  <2>6. \E L2 : NodeFits(V, W, A, L2, i, r) /\ Keeps(V, W, A, F[i], L2, i)
    BY <1>2, <1>9, <2>1, <2>4, <2>5, InstalledFits, Zenon
  <2> QED  BY <1>1, <1>4, <1>9, <2>2, <2>3, <2>6, <2>7, FollowerRewrites, Zenon
<1> QED
  BY <1>3, <1>6, <1>8, <1>9, Zenon
=============================================================================
