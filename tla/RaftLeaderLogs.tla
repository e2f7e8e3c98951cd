---------------------------- MODULE RaftLeaderLogs --------------------------
(***************************************************************************)
(* What candidates and leaders do fits the invariant of logs: a new        *)
(* leader's log has all that earlier ones have decided, and a leader       *)
(* appends to the log of its own term alone, sends what it wrote, and      *)
(* commits what a majority has acknowledged.                               *)
(***************************************************************************)
EXTENDS RaftInvariants

-----------------------------------------------------------------------------
(* What a leader does short of writing.                                    *)

\* What a leader knows of its own log.
LEMMA LeadsGives ==
  ASSUME Counting, NEW V, NEW W, NEW A, NEW L, NEW i, NEW n, Leads(V, W, A, L, i, n)
  PROVE  /\ LastIndex(n) \in Nat /\ n.snap.index \in Nat /\ n.commit \in Nat /\ n.term \in Nat
         /\ Stands(n, L) /\ Sound(W, L) /\ W[n.term] = L /\ n.term \in DOMAIN W
         /\ n.snap.index <= n.commit /\ n.commit <= LastIndex(n)
         /\ Backed(V, W, A, n.term, L, n.commit)
         /\ i \in V /\ LeadFits(W, A, i, n) /\ LeadOk(n.lead) /\ SnapChosen(n)
         /\ \A a \in A : a[3] \in Nat
<1>1. /\ Stable(V, n) /\ NodeFits(V, W, A, L, i, n) /\ n.role = Leader /\ SnapChosen(n)
      /\ \A a \in A : a[3] \in Nat
  BY Zenon DEF Leads
<1>2. LastIndex(n) \in Nat
  BY <1>1, LastIndexIs, Zenon
<1> QED
  BY <1>1, <1>2, Zenon DEF NodeFits, Stable, SnapOk, IsNode, LeadFits, Leader, Follower

\* Bookkeeping that leaves the log alone.
LEMMA LeadsAlike ==
  ASSUME NEW V, NEW W, NEW A, NEW L, NEW i, NEW n, Leads(V, W, A, L, i, n),
         NEW n2, Stable(V, n2), n2.role = n.role, n2.term = n.term, n2.log = n.log,
         n2.snap = n.snap, n2.commit = n.commit, LeadFits(W, A, i, n2)
  PROVE  Leads(V, W, A, L, i, n2)
<1>1. LastIndex(n2) = LastIndex(n)
  BY Zenon DEF LastIndex
<1>2. NodeFits(V, W, A, L, i, n) /\ n.role = Leader /\ SnapChosen(n)
  BY Zenon DEF Leads
<1>3. Stands(n2, L)
  BY <1>1, <1>2, Zenon DEF NodeFits, Stands
<1>4. NodeFits(V, W, A, L, i, n2)
  BY <1>1, <1>2, <1>3, Zenon DEF NodeFits
<1> QED
  BY <1>2, <1>4, Zenon DEF Leads, SnapChosen

\* The same for what it knows of its peers.
LEMMA LeadFitsAlike ==
  ASSUME NEW W, NEW A, NEW i, NEW n, LeadFits(W, A, i, n), NEW n2, n2.term = n.term,
         n2.log = n.log, n2.snap = n.snap, n2.commit = n.commit,
         n2.lead.match = n.lead.match, n2.lead.next = n.lead.next
  PROVE  LeadFits(W, A, i, n2)
<1>1. LastIndex(n2) = LastIndex(n)
  BY Zenon DEF LastIndex
<1> QED  BY <1>1, Zenon DEF LeadFits

\* And it follows itself through any such bookkeeping.
LEMMA FollowsAlike ==
  ASSUME Counting, NEW V, NEW W, NEW A, NEW L, NEW i, NEW n, Leads(V, W, A, L, i, n),
         NEW n2, n2.term = n.term, n2.snap = n.snap, n2.commit = n.commit
  PROVE  Follows(n, n2)
<1>1. n.commit \in Nat
  BY LeadsGives, Zenon
<1> QED  BY <1>1 DEF Follows

\* One bookkeeping step before a step of the leader.
LEMMA FollowsThenLeads ==
  ASSUME NEW V, NEW W, NEW A, NEW L, NEW i, NEW n, NEW n2, NEW s,
         Follows(n, n2), LeadsOn(V, W, A, L, i, n2, s)
  PROVE  LeadsOn(V, W, A, L, i, n, s)
<1>1. Follows(n, s.n)
  BY DEF LeadsOn, Follows
<1> QED  BY <1>1, Zenon DEF LeadsOn

\* Two steps of the leader, one after the other.
LEMMA LeadsOnAndThen ==
  ASSUME NEW V, NEW W, NEW A, NEW L, NEW i, NEW n, NEW s, NEW s2,
         LeadsOn(V, W, A, L, i, n, s), LeadsOn(V, W, A, L, i, s.n, s2)
  PROVE  LeadsOn(V, W, A, L, i, n, AndThen(s, s2))
<1>1. AndThen(s, s2).n = s2.n /\ AndThen(s, s2).out = s.out \cup s2.out
  BY Zenon DEF AndThen, Step
<1>2. LeadsOn(V, W, A, L, i, n, s2)
  <2>1. Follows(n, s.n)
    BY Zenon DEF LeadsOn
  <2> QED  BY <2>1, FollowsThenLeads, Zenon
<1> QED  BY <1>1, <1>2, Zenon DEF LeadsOn

(* Stamping a round (replicate_all) and noting who still follows           *)
(* (note_leadership_ack).                                                  *)
LEMMA NextRoundLeads ==
  ASSUME Counting, NEW V, NEW W, NEW A, NEW L, NEW i, NEW n, Leads(V, W, A, L, i, n)
  PROVE  Leads(V, W, A, L, i, NextRound(n)) /\ Follows(n, NextRound(n))
<1> DEFINE r == [n EXCEPT !.lead.aeSeq = @ + 1]
<1>1. IsNode(n) /\ LeadOk(n.lead) /\ Stable(V, n) /\ LeadFits(W, A, i, n)
  BY LeadsGives, Zenon DEF Leads, Stable
<1>2. /\ IsNode(r) /\ r.term = n.term /\ r.log = n.log /\ r.snap = n.snap /\ r.commit = n.commit
      /\ r.role = n.role /\ r.configs = n.configs /\ r.lead = [n.lead EXCEPT !.aeSeq = @ + 1]
  BY <1>1, Zenon DEF IsNode, NodeFields
<1>3. LeadOk(r.lead) /\ r.lead.match = n.lead.match /\ r.lead.next = n.lead.next
  BY <1>1, <1>2 DEF LeadOk
<1> HIDE DEF r
<1>4. Stable(V, r)
  BY <1>1, <1>2, <1>3, StableAlike, Zenon
<1>5. LeadFits(W, A, i, r)
  BY <1>1, <1>2, <1>3, LeadFitsAlike, Zenon
<1>6. Leads(V, W, A, L, i, r)
  BY <1>2, <1>4, <1>5, LeadsAlike, Zenon
<1>7. Follows(n, r) /\ Follows(n, n)
  BY <1>2, FollowsAlike, Zenon
<1>8. NextRound(n) = n \/ NextRound(n) = r
  BY Zenon DEF NextRound, r
<1> QED
  BY <1>6, <1>7, <1>8, Zenon

\* note_leadership_ack leaves a leader one.
LEMMA NoteLeads ==
  ASSUME Counting,
         NEW V, NEW W, NEW A, NEW L, NEW i, NEW n, Leads(V, W, A, L, i, n), NEW p, NEW seq
  PROVE  /\ Leads(V, W, A, L, i, NoteLeadershipAck(n, p, seq))
         /\ Follows(n, NoteLeadershipAck(n, p, seq))
<1> DEFINE r == NoteLeadershipAck(n, p, seq)
<1>1. IsNode(n) /\ LeadOk(n.lead) /\ Stable(V, n) /\ LeadFits(W, A, i, n)
  BY LeadsGives, Zenon DEF Leads, Stable
<1>2. /\ r.term = n.term /\ r.log = n.log /\ r.snap = n.snap /\ r.commit = n.commit
      /\ r.role = n.role /\ r.lead.match = n.lead.match /\ r.lead.next = n.lead.next
  BY <1>1, Zenon DEF IsNode, NodeFields, NoteLeadershipAck, LeadOk
<1>3. Stable(V, r)
  BY <1>1, BookkeepingStable, Zenon
<1> HIDE DEF r
<1>4. LeadFits(W, A, i, r)
  BY <1>1, <1>2, LeadFitsAlike, Zenon
<1>5. Follows(n, r)
  BY <1>2, FollowsAlike, Zenon
<1> QED
  BY <1>2, <1>3, <1>4, <1>5, LeadsAlike, Zenon DEF r

(* What a leader sends a peer, the entries from some index on or its       *)
(* snapshot, is from the log of its term (append_entries_for).             *)
LEMMA AppendEntriesForFits ==
  ASSUME Counting,
         NEW V, NEW W, NEW A, NEW L, NEW i, NEW n, Leads(V, W, A, L, i, n), NEW p
  PROVE  /\ MsgFits(V, W, A, AppendEntriesFor(i, n, p))
         /\ AppendEntriesFor(i, n, p).type # "RequestVote"
<1> DEFINE m == AppendEntriesFor(i, n, p)
           x == NextFor(n, p)
<1>1. /\ LastIndex(n) \in Nat /\ n.snap.index \in Nat /\ n.commit \in Nat
      /\ Stands(n, L) /\ W[n.term] = L /\ n.term \in DOMAIN W
      /\ n.snap.index <= n.commit /\ n.commit <= LastIndex(n)
      /\ Backed(V, W, A, n.term, L, n.commit)
      /\ LeadFits(W, A, i, n) /\ LeadOk(n.lead) /\ SnapChosen(n)
  BY LeadsGives
<1>2. x \in Nat /\ x >= 1 /\ x <= LastIndex(n) + 1
  BY <1>1 DEF NextFor, LeadFits, LeadOk
<1>3. n.commit = 0 \/ \E t, k \in Nat : t <= n.term /\ k >= n.commit /\ Decided(V, W, A, t, k)
  BY <1>1, Zenon DEF Backed
<1>4. CASE x <= n.snap.index
  <2>1. m.type = "InstallSnapshot" /\ m.term = n.term /\ m.snap = n.snap
    BY <1>4, Zenon DEF AppendEntriesFor
  <2>2. n.snap.index > 0 /\ Contains(L, n.snap.term, n.snap.index)
    BY <1>1, <1>2, <1>4 DEF Stands, Contains
  <2>3. \E t, k \in Nat : t <= n.term /\ k >= n.snap.index /\ Decided(V, W, A, t, k)
    BY <1>1, <2>2 DEF Backed
  <2> HIDE DEF m, x
  <2>4. SnapshotFits(V, W, A, m)
    BY <1>1, <2>1, <2>2, <2>3, Zenon DEF SnapshotFits, SnapChosen
  <2> QED  BY <2>1, <2>4, Zenon DEF MsgFits, m
<1>5. CASE ~(x <= n.snap.index)
  <2>1. /\ m.type = "AppendEntries" /\ m.term = n.term /\ m.prevIndex = x - 1
        /\ m.prevTerm = (IF x = 1 THEN 0 ELSE TermAt(n, x - 1))
        /\ m.entries = EntriesFrom(n, x) /\ m.commit = n.commit
    BY <1>5, Zenon DEF AppendEntriesFor
  <2> HIDE DEF m, x
  <2>2. DOMAIN EntriesFrom(n, x) = x..LastIndex(n)
    BY <1>1, <1>2, <1>5 DEF EntriesFrom, Restrict, Stands
  <2>3. \A k \in x..LastIndex(n) : k \in DOMAIN L /\ EntriesFrom(n, x)[k] = L[k]
    BY <1>1, <1>2, <1>5, <2>2 DEF EntriesFrom, Restrict, Stands
  <2>4. ASSUME m.prevIndex > 0
        PROVE  m.prevIndex \in DOMAIN L /\ m.prevTerm = L[m.prevIndex].term
    <3>1. x - 1 \in 1..LastIndex(n) /\ x # 1 /\ x - 1 >= n.snap.index
      BY <1>1, <1>2, <1>5, <2>1, <2>4
    <3>2. TermAt(n, x - 1) = L[x - 1].term
      BY <1>1, <1>2, <3>1 DEF Stands, TermAt
    <3> QED  BY <1>1, <2>1, <3>1, <3>2, Zenon DEF Stands
  <2>5. \E e \in Nat : /\ DOMAIN m.entries = (m.prevIndex + 1)..e
                       /\ e >= m.prevIndex /\ e >= m.commit
    <3>1. m.prevIndex + 1 = x /\ LastIndex(n) >= m.prevIndex /\ LastIndex(n) >= m.commit
      BY <1>1, <1>2, <2>1
    <3> QED  BY <1>1, <2>1, <2>2, <3>1, Zenon
  <2>6. RequestFits(V, W, A, m)
    BY <1>1, <1>3, <2>1, <2>2, <2>3, <2>4, <2>5, Zenon DEF RequestFits
  <2> QED  BY <2>1, <2>6, Zenon DEF MsgFits, m
<1> QED
  BY <1>4, <1>5, Zenon

\* replicate_all and replicate_to: the leader stays one and sends what fits.
LEMMA ReplicateLeads ==
  ASSUME Counting,
         NEW V, NEW W, NEW A, NEW L, NEW i, NEW n, Leads(V, W, A, L, i, n), NEW p
  PROVE  /\ LeadsOn(V, W, A, L, i, n, ReplicateAll(i, n))
         /\ LeadsOn(V, W, A, L, i, n, ReplicateTo(i, n, p))
<1> DEFINE r == NextRound(n)
           all == {AppendEntriesFor(i, r, q) : q \in ReplicationTargets(i, r)}
           one == {AppendEntriesFor(i, r, p)}
<1>1. Leads(V, W, A, L, i, r) /\ Follows(n, r) /\ n.role = Leader
  BY NextRoundLeads, Zenon DEF Leads
<1> HIDE DEF r
<1>2. \A q : /\ MsgFits(V, W, A, AppendEntriesFor(i, r, q))
             /\ AppendEntriesFor(i, r, q).type # "RequestVote"
  BY <1>1, AppendEntriesForFits, Zenon
<1>3. \A m \in all \cup one : MsgFits(V, W, A, m) /\ m.type # "RequestVote"
  BY <1>2, Zenon
<1>4. ReplicateAll(i, n) = Step(r, all) /\ ReplicateTo(i, n, p) = Step(r, one)
  BY <1>1, Zenon DEF ReplicateAll, ReplicateTo, r
<1> HIDE DEF all, one
<1>5. ReplicateAll(i, n).n = r /\ ReplicateAll(i, n).out = all
  BY <1>4 DEF Step
<1>6. ReplicateTo(i, n, p).n = r /\ ReplicateTo(i, n, p).out = one
  BY <1>4 DEF Step
<1> QED
  BY <1>1, <1>3, <1>5, <1>6, Zenon DEF LeadsOn

(* Who acknowledges an index acknowledges those below it.                  *)
LEMMA AckReaches ==
  ASSUME NEW A, \A a \in A : a[3] \in Nat, NEW p, NEW t, NEW k \in Nat, NEW l \in Nat, l <= k,
         Acked(A, p, t, k)
  PROVE  Acked(A, p, t, l)
BY DEF Acked

\* The larger of two numbers is one of them.
LEMMA MaxOfTwo ==
  ASSUME Counting, NEW a \in Nat, NEW b \in Nat
  PROVE  Max({a, b}) \in {a, b}
<1>1. Indices({a, b})
  BY DEF Indices
<1> QED  BY <1>1, MaxOf, Zenon

(* The largest index of the leader's own term that a majority has          *)
(* acknowledged is decided (advance_commit_index).                         *)
LEMMA CommitPointFits ==
  ASSUME Counting,
         NEW V \in SUBSET Server, NEW W, NEW A, NEW L, NEW i, NEW n, Leads(V, W, A, L, i, n)
  PROVE  LET c == CommitPoint(i, n)
         IN  c \in Nat /\ c >= n.commit /\ c <= LastIndex(n) /\ Backed(V, W, A, n.term, L, c)
<1> DEFINE c == CommitPoint(i, n)
           able == {k \in DOMAIN n.log : /\ k > n.commit
                                         /\ n.log[k].term = n.term
                                         /\ HasQuorum(Active(n), Acks(i, n, k))}
<1>1. /\ LastIndex(n) \in Nat /\ n.snap.index \in Nat /\ n.commit \in Nat /\ n.term \in Nat
      /\ Stands(n, L) /\ W[n.term] = L /\ n.term \in DOMAIN W
      /\ n.snap.index <= n.commit /\ n.commit <= LastIndex(n)
      /\ Backed(V, W, A, n.term, L, n.commit) /\ LeadFits(W, A, i, n) /\ i \in V
      /\ \A a \in A : a[3] \in Nat
  BY LeadsGives
<1>2. c = IF able = {} THEN n.commit ELSE Max(able)
  BY Zenon DEF CommitPoint
<1>3. CASE able = {}
  BY <1>1, <1>2, <1>3
<1>4. CASE able # {}
  <2>1. Indices(able)
    BY IndicesSubset, Zenon DEF Leads, Stable, LogOk
  <2>2. c \in able
    BY <1>2, <1>4, <2>1, MaxOf, Zenon
  <2>3. /\ c \in DOMAIN n.log /\ c > n.commit /\ n.log[c].term = n.term
        /\ HasQuorum(Active(n), Acks(i, n, c))
    BY <2>2, Zenon
  <2> HIDE DEF c, able
  <2>4. c \in Nat /\ c >= 1 /\ c <= LastIndex(n) /\ c \in DOMAIN L /\ L[c].term = n.term
    BY <1>1, <2>3 DEF Stands
  <2>5. IsMajority(V, Acks(i, n, c))
    <3>1. Fixed(V, Active(n))
      BY ActiveIsFixed, Zenon DEF Leads
    <3>2. Active(n).voters = V
      BY <3>1 DEF Fixed
    <3> QED  BY <2>3, <3>2, Zenon DEF HasQuorum
  <2>6. \A v \in Acks(i, n, c) : Acked(A, v, n.term, c)
    <3>1. ASSUME NEW v \in Acks(i, n, c)
          PROVE  Acked(A, v, n.term, c)
      <4>1. CASE v = i
        <5>1. Acked(A, i, n.term, LastIndex(n))
          BY <1>1, Zenon DEF LeadFits
        <5> QED  BY <1>1, <2>4, <4>1, <5>1, AckReaches, Zenon
      <4>2. CASE v # i
        <5>1. v \in DOMAIN n.lead.match /\ n.lead.match[v] >= c
          BY <4>2, Zenon DEF Acks
        <5>2. n.lead.match[v] \in Nat /\ Acked(A, v, n.term, n.lead.match[v])
          BY <1>1, <2>3, <2>4, <5>1 DEF LeadFits
        <5> QED  BY <1>1, <2>4, <5>1, <5>2, AckReaches, Zenon
      <4> QED  BY <4>1, <4>2, Zenon
    <3> QED  BY <3>1, Zenon
  <2>7. IsMajority(V, V \cap Acks(i, n, c))
    <3>1. V \cap (V \cap Acks(i, n, c)) = V \cap Acks(i, n, c)
      BY Zenon
    <3> QED  BY <2>5, <3>1, Zenon DEF IsMajority
  <2>8. Decided(V, W, A, n.term, c)
    <3>1. V \cap Acks(i, n, c) \in SUBSET Server
      BY Zenon
    <3>2. Own(W, n.term, c)
      BY <1>1, <2>4, Zenon DEF Own, Contains
    <3> QED  BY <2>6, <2>7, <3>1, <3>2, Zenon DEF Decided
  <2>9. Agree(W[n.term], L, c)
    BY <1>1, <2>4 DEF Agree, Stands
  <2>10. Backed(V, W, A, n.term, L, c)
    BY <1>1, <2>4, <2>8, <2>9 DEF Backed
  <2> QED  BY <1>1, <2>3, <2>4, <2>10 DEF c
<1> QED
  BY <1>3, <1>4, Zenon

\* A leader that commits up to there stays one.
LEMMA CommitUpToLeads ==
  ASSUME Counting,
         NEW V \in SUBSET Server, NEW W, NEW A, NEW L, NEW i, NEW n, Leads(V, W, A, L, i, n)
  PROVE  Leads(V, W, A, L, i, CommitUpTo(i, n)) /\ Follows(n, CommitUpTo(i, n))
<1> DEFINE c == CommitPoint(i, n)
           r == [n EXCEPT !.commit = c]
<1>1. c \in Nat /\ c >= n.commit /\ c <= LastIndex(n) /\ Backed(V, W, A, n.term, L, c)
  BY CommitPointFits, Zenon
<1>2. /\ LastIndex(n) \in Nat /\ n.snap.index \in Nat /\ n.commit \in Nat
      /\ n.snap.index <= n.commit /\ LeadFits(W, A, i, n) /\ i \in V
  BY LeadsGives, Zenon
<1>3. NodeFits(V, W, A, L, i, n) /\ n.role = Leader /\ SnapChosen(n) /\ Stable(V, n)
  BY Zenon DEF Leads
<1> HIDE DEF c
<1>4. /\ r.term = n.term /\ r.log = n.log /\ r.snap = n.snap /\ r.commit = c
      /\ r.role = n.role /\ r.lead = n.lead
  BY <1>3, Zenon DEF Stable, IsNode, NodeFields
<1>5. Stable(V, r)
  BY <1>1, <1>3, CommitStable, Zenon
<1> HIDE DEF r
<1>6. LastIndex(r) = LastIndex(n)
  BY <1>4, Zenon DEF LastIndex
<1>7. LeadFits(W, A, i, r)
  <2>1. ASSUME NEW p \in DOMAIN n.lead.match, n.lead.match[p] > c
        PROVE  Acked(A, p, n.term, n.lead.match[p])
    <3>1. n.lead.match[p] \in Nat
      BY <1>2, Zenon DEF LeadFits
    <3>2. n.lead.match[p] > n.commit
      BY <1>1, <1>2, <2>1, <3>1
    <3> QED  BY <1>2, <3>2, Zenon DEF LeadFits
  <2> QED  BY <1>2, <1>4, <1>6, <2>1, Zenon DEF LeadFits
<1>8. Stands(r, L)
  BY <1>3, <1>4, <1>6, Zenon DEF NodeFits, Stands
<1>9. n.snap.index <= c
  BY <1>1, <1>2
<1>10. NodeFits(V, W, A, L, i, r)
  BY <1>1, <1>3, <1>4, <1>6, <1>7, <1>8, <1>9, Zenon DEF NodeFits
<1>11. Leads(V, W, A, L, i, r)
  BY <1>3, <1>4, <1>5, <1>10, Zenon DEF Leads, SnapChosen
<1>12. LeaveIfRemoved(i, r) = r
  <2>1. Fixed(V, Active(r))
    BY <1>5, ActiveIsFixed, Zenon
  <2>2. i \in Active(r).voters
    BY <1>2, <2>1 DEF Fixed
  <2> QED  BY <2>2, Zenon DEF LeaveIfRemoved
<1>13. Follows(n, r) /\ Follows(n, n)
  BY <1>1, <1>2, <1>4 DEF Follows
<1>14. CommitUpTo(i, n) = n \/ CommitUpTo(i, n) = r
  BY <1>12, Zenon DEF CommitUpTo, c, r
<1> QED
  BY <1>11, <1>13, <1>14, Zenon

\* advance_commit_index, where the voters stay.
LEMMA AdvanceLeads ==
  ASSUME Counting,
         NEW V \in SUBSET Server, NEW W, NEW A, NEW L, NEW i, NEW n, Leads(V, W, A, L, i, n)
  PROVE  LeadsOn(V, W, A, L, i, n, AdvanceCommitIndex(i, n))
<1> DEFINE u == CommitUpTo(i, n)
           c == [n EXCEPT !.commit = CommitPoint(i, n)]
<1>1. Leads(V, W, A, L, i, u) /\ Follows(n, u)
  BY CommitUpToLeads, Zenon
<1>2. ~IsJoint(Active(c))
  <2>1. Stable(V, n) /\ CommitPoint(i, n) \in Nat
    BY CommitPointFits, Zenon DEF Leads
  <2>2. Stable(V, c)
    BY <2>1, CommitStable, Zenon
  <2> QED  BY <2>2, ActiveIsFixed, Zenon
<1>3. AdvanceCommitIndex(i, n) = Step(u, {})
  BY <1>2, Zenon DEF AdvanceCommitIndex
<1> HIDE DEF u
<1>4. Step(u, {}).n = u /\ Step(u, {}).out = {}
  BY Zenon DEF Step
<1> QED
  BY <1>1, <1>3, <1>4, Zenon DEF LeadsOn

(* A peer is credited with what it has acknowledged, or with no more than  *)
(* is committed (handle_append_entries_response,                           *)
(* handle_install_snapshot_response).                                      *)
LEMMA RecordMatchLeads ==
  ASSUME Counting, NEW V, NEW W, NEW A, NEW L, NEW i, NEW n, Leads(V, W, A, L, i, n),
         NEW p, NEW k \in Nat, k <= LastIndex(n), k > n.commit => Acked(A, p, n.term, k)
  PROVE  Leads(V, W, A, L, i, RecordMatch(n, p, k)) /\ Follows(n, RecordMatch(n, p, k))
<1> DEFINE r == RecordMatch(n, p, k)
           x == Max({MatchOf(n, p), k})
<1>1. /\ LastIndex(n) \in Nat /\ n.commit \in Nat /\ LeadFits(W, A, i, n) /\ LeadOk(n.lead)
      /\ Stable(V, n) /\ IsNode(n)
  BY LeadsGives, Zenon DEF Leads, Stable
<1>2. Stable(V, r)
  BY <1>1, BookkeepingStable, Zenon
<1>3. /\ r.term = n.term /\ r.log = n.log /\ r.snap = n.snap /\ r.commit = n.commit
      /\ r.role = n.role /\ r.lead.match = Put(n.lead.match, p, x)
      /\ r.lead.next = Put(n.lead.next, p, k + 1)
  BY <1>1, Zenon DEF RecordMatch, IsNode, NodeFields, LeadOk
<1>4. x \in Nat /\ (x > n.commit => Acked(A, p, n.term, x))
  <2>1. MatchOf(n, p) \in Nat
    BY <1>1, Zenon DEF MatchOf, LeadFits
  <2>2. x \in {MatchOf(n, p), k}
    BY <2>1, MaxOfTwo, Zenon
  <2>3. MatchOf(n, p) > n.commit => Acked(A, p, n.term, MatchOf(n, p))
    BY <1>1 DEF MatchOf, LeadFits
  <2> HIDE DEF x
  <2> QED  BY <2>1, <2>2, <2>3, Zenon
<1> HIDE DEF r, x
<1>5. LastIndex(r) = LastIndex(n)
  BY <1>3, Zenon DEF LastIndex
<1>6. LeadFits(W, A, i, r)
  <2>1. \A q \in DOMAIN r.lead.match :
          IF q = p THEN r.lead.match[q] = x
          ELSE q \in DOMAIN n.lead.match /\ r.lead.match[q] = n.lead.match[q]
    BY <1>3, Zenon DEF Put
  <2>2. \A q \in DOMAIN r.lead.next :
          IF q = p THEN r.lead.next[q] = k + 1
          ELSE q \in DOMAIN n.lead.next /\ r.lead.next[q] = n.lead.next[q]
    BY <1>3, Zenon DEF Put
  <2>3. \A q \in DOMAIN r.lead.match :
          /\ r.lead.match[q] \in Nat
          /\ r.lead.match[q] > r.commit => Acked(A, q, r.term, r.lead.match[q])
    BY <1>1, <1>3, <1>4, <2>1, Zenon DEF LeadFits
  <2>4. \A q \in DOMAIN r.lead.next : r.lead.next[q] <= LastIndex(r) + 1
    BY <1>1, <1>5, <2>2 DEF LeadFits
  <2> QED  BY <1>1, <1>3, <1>5, <2>3, <2>4, Zenon DEF LeadFits
<1>7. Follows(n, r)
  BY <1>3, FollowsAlike, Zenon
<1> QED
  BY <1>2, <1>3, <1>6, <1>7, LeadsAlike, Zenon DEF r

(* Going back to the index a peer asks for (back_off).                     *)
LEMMA BackOffLeads ==
  ASSUME Counting, NEW V, NEW W, NEW A, NEW L, NEW i, NEW n, Leads(V, W, A, L, i, n),
         NEW p, NEW k \in Nat, k > 0 => k \in DOMAIN W[n.term]
  PROVE  Leads(V, W, A, L, i, BackOff(n, p, k)) /\ Follows(n, BackOff(n, p, k))
<1> DEFINE r == BackOff(n, p, k)
           x == Max({k, 1})
<1>1. /\ LastIndex(n) \in Nat /\ LeadFits(W, A, i, n) /\ LeadOk(n.lead)
      /\ Stable(V, n) /\ IsNode(n) /\ DOMAIN W[n.term] = 1..LastIndex(n)
  BY LeadsGives DEF Leads, Stable, Stands
<1>2. Stable(V, r)
  BY <1>1, BookkeepingStable, Zenon
<1>3. /\ r.term = n.term /\ r.log = n.log /\ r.snap = n.snap /\ r.commit = n.commit
      /\ r.role = n.role /\ r.lead.match = n.lead.match
      /\ r.lead.next = Put(n.lead.next, p, x)
  BY <1>1, Zenon DEF BackOff, IsNode, NodeFields, LeadOk
<1>4. x <= LastIndex(n) + 1
  <2>1. x \in {k, 1}
    BY MaxOfTwo, Zenon
  <2> HIDE DEF x
  <2> QED  BY <1>1, <2>1
<1> HIDE DEF r, x
<1>5. LastIndex(r) = LastIndex(n)
  BY <1>3, Zenon DEF LastIndex
<1>6. LeadFits(W, A, i, r)
  <2>1. \A q \in DOMAIN r.lead.next :
          IF q = p THEN r.lead.next[q] = x
          ELSE q \in DOMAIN n.lead.next /\ r.lead.next[q] = n.lead.next[q]
    BY <1>3, Zenon DEF Put
  <2>2. \A q \in DOMAIN r.lead.next : r.lead.next[q] <= LastIndex(r) + 1
    BY <1>1, <1>4, <1>5, <2>1, Zenon DEF LeadFits
  <2> QED  BY <1>1, <1>3, <1>5, <2>2, Zenon DEF LeadFits
<1>7. Follows(n, r)
  BY <1>3, FollowsAlike, Zenon
<1> QED
  BY <1>2, <1>3, <1>6, <1>7, LeadsAlike, Zenon DEF r

(* Tracking the members of a new configuration (refresh_leader_state).     *)
LEMMA RefreshLeads ==
  ASSUME Counting, NEW V, NEW W, NEW A, NEW L, NEW i, NEW n, Leads(V, W, A, L, i, n),
         Stable(V, RefreshLeaderState(i, n))
  PROVE  Leads(V, W, A, L, i, RefreshLeaderState(i, n)) /\ Follows(n, RefreshLeaderState(i, n))
<1> DEFINE r == RefreshLeaderState(i, n)
           to == ReplicationTargets(i, n)
           next == [p \in to |-> IF p \in DOMAIN n.lead.next THEN n.lead.next[p]
                                 ELSE LastIndex(n) + 1]
           match == [p \in to |-> IF p \in DOMAIN n.lead.match THEN n.lead.match[p] ELSE 0]
<1>1. /\ LastIndex(n) \in Nat /\ n.commit \in Nat /\ LeadFits(W, A, i, n) /\ LeadOk(n.lead)
      /\ IsNode(n)
  BY LeadsGives, Zenon DEF Leads, Stable
<1>2. /\ r.term = n.term /\ r.log = n.log /\ r.snap = n.snap /\ r.commit = n.commit
      /\ r.role = n.role /\ r.lead.match = match /\ r.lead.next = next
  BY <1>1, Zenon DEF RefreshLeaderState, IsNode, NodeFields, LeadOk
<1>3. \A p \in DOMAIN match :
        match[p] \in Nat /\ (match[p] > n.commit => Acked(A, p, n.term, match[p]))
  BY <1>1 DEF LeadFits
<1>4. \A p \in DOMAIN next : next[p] <= LastIndex(n) + 1
  BY <1>1 DEF LeadFits
<1> HIDE DEF r, next, match, to
<1>5. LastIndex(r) = LastIndex(n)
  BY <1>2, Zenon DEF LastIndex
<1>6. LeadFits(W, A, i, r)
  BY <1>1, <1>2, <1>3, <1>4, <1>5, Zenon DEF LeadFits
<1>7. Follows(n, r)
  BY <1>2, FollowsAlike, Zenon
<1> QED
  BY <1>2, <1>6, <1>7, LeadsAlike, Zenon DEF r

(* The tail of both success replies.                                       *)
LEMMA KeepReplicatingLeads ==
  ASSUME Counting,
         NEW V \in SUBSET Server, NEW W, NEW A, NEW L, NEW i, NEW n, Leads(V, W, A, L, i, n),
         NEW p
  PROVE  LeadsOn(V, W, A, L, i, n, KeepReplicating(i, AdvanceCommitIndex(i, n), p))
<1> DEFINE adv == AdvanceCommitIndex(i, n)
           rep == ReplicateTo(i, adv.n, p)
<1>1. LeadsOn(V, W, A, L, i, n, adv)
  BY AdvanceLeads, Zenon
<1>2. LeadsOn(V, W, A, L, i, adv.n, rep)
  <2> HIDE DEF adv
  <2> QED  BY <1>1, ReplicateLeads, Zenon DEF LeadsOn
<1> HIDE DEF rep, adv
<1>3. LeadsOn(V, W, A, L, i, n, AndThen(adv, rep))
  BY <1>1, <1>2, LeadsOnAndThen, Zenon
<1> QED
  BY <1>1, <1>3, Zenon DEF KeepReplicating, adv, rep

-----------------------------------------------------------------------------
(* One lemma per action.                                                   *)

(* tick of a leader: a round of what it has written.                       *)
LEMMA HeartbeatLogs ==
  ASSUME Counting,
         NEW V \in SUBSET Server, NEW W, NEW A, NEW F, Before(V, W, A, F), After(V),
         NEW i \in Server, Heartbeat(i),
         Stays(i)
  PROVE  Proceeds(V, W, A, F)
<1> DEFINE s == ReplicateAll(i, node[i])
<1>1. Take(i, {}, s) /\ node[i].role = Leader
  BY Zenon DEF Heartbeat
<1>2. Voted(V, W, A, F, i)
  BY Zenon DEF Voted
<1>3. Leads(V, W, A, F[i], i, node[i])
  BY <1>1, BeforeGives, Zenon
<1>4. LeadsOn(V, W, A, F[i], i, node[i], s)
  BY <1>3, ReplicateLeads, Zenon
<1> HIDE DEF s
<1> QED  BY <1>1, <1>2, <1>4, LeaderKeeps, Zenon

(* start_read changes nothing of the log.                                  *)
LEMMA StartReadLogs ==
  ASSUME Counting,
         NEW V \in SUBSET Server, NEW W, NEW A, NEW F, Before(V, W, A, F), After(V),
         NEW i \in Server, StartRead(i),
         Stays(i)
  PROVE  Proceeds(V, W, A, F)
<1>1. Voted(V, W, A, F, i)
  BY Zenon DEF Voted
<1>2. PICK index, read, done :
        LET n == [node[i] EXCEPT !.readSeq = @ + 1]
            d == [n EXCEPT !.results = @ \cup {done}]
            w == [n EXCEPT !.lead.reads = @ \cup {read}]
        IN  /\ n.role = Leader
            /\ \/ Take(i, {}, Step(d, {}))
               \/ Take(i, {}, ReplicateAll(i, w))
  BY Zenon DEF StartRead
<1> DEFINE n == [node[i] EXCEPT !.readSeq = @ + 1]
           d == [n EXCEPT !.results = @ \cup {done}]
           w == [n EXCEPT !.lead.reads = @ \cup {read}]
<1>3. IsNode(node[i]) /\ LeadOk(node[i].lead)
  BY Zenon DEF Before, Wellformed, VotersStay, Stable
<1>4. /\ IsNode(n) /\ n.role = node[i].role /\ n.term = node[i].term /\ n.log = node[i].log
      /\ n.snap = node[i].snap /\ n.commit = node[i].commit /\ n.configs = node[i].configs
      /\ n.lead = node[i].lead
  BY <1>3, Zenon DEF IsNode, NodeFields
<1> HIDE DEF n
<1>5. /\ IsNode(d) /\ d.role = n.role /\ d.term = n.term /\ d.log = n.log
      /\ d.snap = n.snap /\ d.commit = n.commit /\ d.configs = n.configs /\ d.lead = n.lead
  BY <1>4, Zenon DEF IsNode, NodeFields
<1>6. /\ IsNode(w) /\ w.role = n.role /\ w.term = n.term /\ w.log = n.log
      /\ w.snap = n.snap /\ w.commit = n.commit /\ w.configs = n.configs
      /\ w.lead.match = n.lead.match /\ w.lead.next = n.lead.next /\ LeadOk(w.lead)
  <2>1. /\ IsNode(w) /\ w.role = n.role /\ w.term = n.term /\ w.log = n.log
        /\ w.snap = n.snap /\ w.commit = n.commit /\ w.configs = n.configs
        /\ w.lead = [n.lead EXCEPT !.reads = @ \cup {read}]
    BY <1>4, Zenon DEF IsNode, NodeFields
  <2> HIDE DEF w
  <2>2. LeadOk(n.lead)
    BY <1>3, <1>4, Zenon
  <2>3. w.lead.match = n.lead.match /\ w.lead.next = n.lead.next /\ LeadOk(w.lead)
    BY <2>1, <2>2, Zenon DEF LeadOk
  <2> QED  BY <2>1, <2>3, Zenon
<1>7. n.role = Leader /\ (Take(i, {}, Step(d, {})) \/ Take(i, {}, ReplicateAll(i, w)))
  BY <1>2, Zenon DEF n
<1> HIDE DEF d, w
<1>8. Leads(V, W, A, F[i], i, node[i]) /\ Stable(V, node[i]) /\ LeadFits(W, A, i, node[i])
  <2>1. Leads(V, W, A, F[i], i, node[i])
    BY <1>4, <1>7, BeforeGives, Zenon
  <2> QED  BY <2>1, LeadsGives, Zenon DEF Leads
<1>9. Leads(V, W, A, F[i], i, d)
  <2>1. Stable(V, d)
    BY <1>3, <1>4, <1>5, <1>8, StableAlike, Zenon
  <2>2. LeadFits(W, A, i, d)
    BY <1>4, <1>5, <1>8, LeadFitsAlike, Zenon
  <2> QED  BY <1>4, <1>5, <1>8, <2>1, <2>2, LeadsAlike, Zenon
<1>10. Leads(V, W, A, F[i], i, w)
  <2>1. Stable(V, w)
    BY <1>4, <1>6, <1>8, StableAlike, Zenon
  <2>2. LeadFits(W, A, i, w)
    BY <1>4, <1>6, <1>8, LeadFitsAlike, Zenon
  <2> QED  BY <1>4, <1>6, <1>8, <2>1, <2>2, LeadsAlike, Zenon
<1>11. CASE Take(i, {}, Step(d, {}))
  <2>1. Step(d, {}).n = d /\ Step(d, {}).out = {}
    BY Zenon DEF Step
  <2>3. Follows(node[i], d)
    BY <1>4, <1>5, <1>8, FollowsAlike, Zenon
  <2>2. LeadsOn(V, W, A, F[i], i, node[i], Step(d, {}))
    BY <1>9, <2>1, <2>3, Zenon DEF LeadsOn
  <2> QED  BY <1>1, <1>11, <2>2, LeaderKeeps, Zenon
<1>12. CASE Take(i, {}, ReplicateAll(i, w))
  <2>1. LeadsOn(V, W, A, F[i], i, w, ReplicateAll(i, w))
    BY <1>10, ReplicateLeads, Zenon
  <2>2. Follows(node[i], w)
    BY <1>4, <1>6, <1>8, FollowsAlike, Zenon
  <2>3. LeadsOn(V, W, A, F[i], i, node[i], ReplicateAll(i, w))
    BY <2>1, <2>2, FollowsThenLeads, Zenon
  <2> QED  BY <1>1, <1>12, <2>3, LeaderKeeps, Zenon
<1> QED
  BY <1>7, <1>11, <1>12, Zenon

(* Who is told of a later term follows it (observe_term).                  *)
LEMMA ObservedKeeps ==
  ASSUME NEW V \in SUBSET Server, NEW W, NEW A, NEW F, Before(V, W, A, F), After(V),
         NEW i \in Server, NEW in, NEW t \in Nat,
         Take(i, in, Step(ObserveTerm(node[i], t), {})), Voted(V, W, A, F, i)
  PROVE  Proceeds(V, W, A, F)
<1> DEFINE o == ObserveTerm(node[i], t)
           none == {}
<1>1. /\ o.log = node[i].log /\ o.snap = node[i].snap /\ o.commit = node[i].commit
      /\ IsNode(o) /\ o.term >= node[i].term /\ (o = node[i] \/ o.role = Follower)
  BY ObserveAlike DEF Before, Wellformed
<1>2. Take(i, in, Step(o, none))
  BY Zenon
<1>4. \A m \in none : MsgFits(V, W, A, m) /\ Asks(i, o, m)
  BY Zenon
<1> HIDE DEF o, none
<1>3. \/ o = node[i]
      \/ /\ o.log = node[i].log /\ o.snap = node[i].snap /\ o.commit = node[i].commit
         /\ o.term \in Nat /\ o.term >= node[i].term
         /\ o.role # Leader /\ (o.role # Follower => i \in V)
  BY <1>1, Zenon DEF IsNode, Leader, Follower
<1> QED
  BY <1>2, <1>3, <1>4, FollowerKeeps, Zenon

(* handle_append_entries_response.                                         *)
LEMMA HandleAppendEntriesResponseLogs ==
  ASSUME Counting,
         NEW V \in SUBSET Server, NEW W, NEW A, NEW F, Before(V, W, A, F), After(V),
         NEW i \in Server, NEW m \in Received(i, "AppendEntriesResponse"),
         HandleAppendEntriesResponse(i, m),
         Stays(i) \/ Enters(i)
  PROVE  Proceeds(V, W, A, F)
<1> DEFINE n == NoteLeadershipAck(node[i], m.from, m.seq)
           r == RecordMatch(n, m.from, m.matchIndex)
           b == BackOff(n, m.from, m.conflictIndex)
<1>1. Voted(V, W, A, F, i)
  BY Zenon DEF Voted
<1>2. /\ m.term \in Nat /\ m.matchIndex \in Nat /\ m.conflictIndex \in Nat
      /\ ReplyFits(W, A, m)
  BY Zenon DEF Before, Wellformed, VotersStay, StableMsg, LogInv, MsgFits, Received
<1>3. \/ Take(i, {m}, Step(ObserveTerm(node[i], m.term), {}))
      \/ /\ m.term = node[i].term /\ node[i].role = Leader /\ m.success
         /\ AfterMatch(i, m, r, m.from)
      \/ /\ m.term = node[i].term /\ node[i].role = Leader
         /\ Take(i, {m}, ReplicateTo(i, b, m.from))
  BY Zenon DEF HandleAppendEntriesResponse
<1>4. ASSUME node[i].role = Leader
      PROVE  /\ Leads(V, W, A, F[i], i, n) /\ Follows(node[i], n)
             /\ n.term = node[i].term
  <2>1. Leads(V, W, A, F[i], i, node[i])
    BY <1>4, BeforeGives, Zenon
  <2> QED  BY <2>1, NoteLeads DEF Follows
<1> HIDE DEF n
<1>5. CASE Take(i, {m}, Step(ObserveTerm(node[i], m.term), {}))
  BY <1>1, <1>2, <1>5, ObservedKeeps, Zenon
<1>6. CASE /\ m.term = node[i].term /\ node[i].role = Leader /\ m.success
           /\ AfterMatch(i, m, r, m.from)
  <2>1. Acked(A, m.from, n.term, m.matchIndex)
    BY <1>2, <1>4, <1>6, Zenon DEF ReplyFits
  <2>2. m.matchIndex <= LastIndex(n)
    <3>1. LastIndex(n) \in Nat /\ DOMAIN W[n.term] = 1..LastIndex(n)
      BY <1>4, <1>6, LeadsGives DEF Stands
    <3>2. PICK a \in A : a[2] = n.term /\ a[3] >= m.matchIndex
      BY <2>1, Zenon DEF Acked
    <3>3. a[3] \in Nat /\ (a[3] > 0 => a[3] \in DOMAIN W[n.term])
      BY <3>2, Zenon DEF Before, LogInv, AcksFit
    <3> QED  BY <1>2, <3>1, <3>2, <3>3
  <2>3. Leads(V, W, A, F[i], i, r) /\ Follows(n, r)
    BY <1>2, <1>4, <1>6, <2>1, <2>2, RecordMatchLeads, Zenon
  <2> HIDE DEF r
  <2>4. Take(i, {m}, KeepReplicating(i, AdvanceCommitIndex(i, r), m.from))
    BY <1>6, Zenon DEF AfterMatch
  <2>5. LeadsOn(V, W, A, F[i], i, r, KeepReplicating(i, AdvanceCommitIndex(i, r), m.from))
    BY <2>3, KeepReplicatingLeads, Zenon
  <2>6. LeadsOn(V, W, A, F[i], i, node[i],
                KeepReplicating(i, AdvanceCommitIndex(i, r), m.from))
    BY <1>4, <1>6, <2>3, <2>5, FollowsThenLeads, Zenon
  <2> QED  BY <1>1, <2>4, <2>6, LeaderKeeps, Zenon
<1>7. CASE /\ m.term = node[i].term /\ node[i].role = Leader
           /\ Take(i, {m}, ReplicateTo(i, b, m.from))
  <2>1. m.conflictIndex > 0 => m.conflictIndex \in DOMAIN W[n.term]
    BY <1>2, <1>4, <1>7, Zenon DEF ReplyFits
  <2>2. Leads(V, W, A, F[i], i, b) /\ Follows(n, b)
    BY <1>2, <1>4, <1>7, <2>1, BackOffLeads, Zenon
  <2> HIDE DEF b
  <2>3. LeadsOn(V, W, A, F[i], i, b, ReplicateTo(i, b, m.from))
    BY <2>2, ReplicateLeads, Zenon
  <2>4. LeadsOn(V, W, A, F[i], i, node[i], ReplicateTo(i, b, m.from))
    BY <1>4, <1>7, <2>2, <2>3, FollowsThenLeads, Zenon
  <2> QED  BY <1>1, <1>7, <2>4, LeaderKeeps, Zenon
<1> QED
  BY <1>3, <1>5, <1>6, <1>7, Zenon

(* handle_install_snapshot_response: the credit is the leader's own        *)
(* snapshot, and that is committed.                                        *)
LEMMA HandleInstallSnapshotResponseLogs ==
  ASSUME Counting,
         NEW V \in SUBSET Server, NEW W, NEW A, NEW F, Before(V, W, A, F), After(V),
         NEW i \in Server, NEW m \in Received(i, "InstallSnapshotResponse"),
         HandleInstallSnapshotResponse(i, m),
         Stays(i) \/ Enters(i)
  PROVE  Proceeds(V, W, A, F)
<1> DEFINE n == node[i]
           r == RecordMatch(n, m.from, n.snap.index)
<1>1. Voted(V, W, A, F, i)
  BY Zenon DEF Voted
<1>2. m.term \in Nat
  BY Zenon DEF Before, Wellformed, Received
<1>3. \/ Take(i, {m}, Step(ObserveTerm(node[i], m.term), {}))
      \/ n.role = Leader /\ AfterMatch(i, m, r, m.from)
  BY Zenon DEF HandleInstallSnapshotResponse
<1>4. CASE Take(i, {m}, Step(ObserveTerm(node[i], m.term), {}))
  BY <1>1, <1>2, <1>4, ObservedKeeps, Zenon
<1>5. CASE n.role = Leader /\ AfterMatch(i, m, r, m.from)
  <2>1. Leads(V, W, A, F[i], i, n)
    BY <1>5, BeforeGives, Zenon
  <2>2. /\ n.snap.index \in Nat /\ n.commit \in Nat /\ LastIndex(n) \in Nat
        /\ n.snap.index <= n.commit /\ n.commit <= LastIndex(n)
    BY <2>1, LeadsGives, Zenon
  <2> HIDE DEF n
  <2>3. n.snap.index <= LastIndex(n) /\ ~(n.snap.index > n.commit)
    BY <2>2
  <2>4. Leads(V, W, A, F[i], i, r) /\ Follows(n, r)
    BY <2>1, <2>2, <2>3, RecordMatchLeads, Zenon
  <2> HIDE DEF r
  <2>5. Take(i, {m}, KeepReplicating(i, AdvanceCommitIndex(i, r), m.from))
    BY <1>5, Zenon DEF AfterMatch
  <2>6. LeadsOn(V, W, A, F[i], i, r, KeepReplicating(i, AdvanceCommitIndex(i, r), m.from))
    BY <2>4, KeepReplicatingLeads, Zenon
  <2>7. LeadsOn(V, W, A, F[i], i, n, KeepReplicating(i, AdvanceCommitIndex(i, r), m.from))
    BY <2>4, <2>6, FollowsThenLeads, Zenon
  <2> QED  BY <1>1, <2>5, <2>7, LeaderKeeps, Zenon DEF n
<1> QED
  BY <1>3, <1>4, <1>5, Zenon

-----------------------------------------------------------------------------
(* Writing.  Node n appends entry e to the log L of its term.              *)

Writes(V, W, A, L, i, n, e, W2, A2, L2) ==
  /\ Stable(V, n) /\ NodeFits(V, W, A, L, i, n) /\ Written(W) /\ \A a \in A : a[3] \in Nat
  /\ e.term = n.term /\ (n.term \in DOMAIN W => W[n.term] = L)
  /\ L2 = [k \in 1..(LastIndex(n) + 1) |-> IF k = LastIndex(n) + 1 THEN e ELSE L[k]]
  /\ W2 = Put(W, n.term, L2)
  /\ A2 = A \cup {<<i, n.term, LastIndex(n) + 1>>}

\* What a write leaves of the logs of all terms.
LEMMA WritesGives ==
  ASSUME Counting,
         NEW V, NEW W, NEW A, NEW L, NEW i, NEW n, NEW e, NEW W2, NEW A2, NEW L2,
         Writes(V, W, A, L, i, n, e, W2, A2, L2)
  PROVE  /\ Extends(W, W2) /\ Written(W2) /\ Sound(W2, L2)
         /\ n.term \in DOMAIN W2 /\ W2[n.term] = L2
         /\ \A u \in DOMAIN W2 : (u \in DOMAIN W /\ W2[u] = W[u]) \/ u = n.term
         /\ \A k \in DOMAIN L : k \in DOMAIN L2 /\ L2[k] = L[k]
         /\ \A k \in DOMAIN L2 : L2[k].term <= n.term
<1> DEFINE t == n.term
           len == LastIndex(n)
<1>1. /\ Stable(V, n) /\ NodeFits(V, W, A, L, i, n) /\ Written(W)
      /\ e.term = t /\ (t \in DOMAIN W => W[t] = L)
      /\ L2 = [k \in 1..(len + 1) |-> IF k = len + 1 THEN e ELSE L[k]]
      /\ W2 = Put(W, t, L2)
  BY Zenon DEF Writes
<1>2. len \in Nat /\ t \in Nat /\ DOMAIN L = 1..len /\ Sound(W, L)
      /\ \A k \in DOMAIN L : L[k].term <= t
  BY <1>1, LastIndexIs, Zenon DEF Stable, IsNode, NodeFits, Stands
<1> HIDE DEF t, len
<1>3. /\ DOMAIN L2 = 1..(len + 1) /\ L2[len + 1] = e
      /\ \A k \in 1..len : k \in DOMAIN L2 /\ L2[k] = L[k]
  BY <1>1, <1>2
<1>4. /\ DOMAIN W2 = DOMAIN W \cup {t} /\ W2[t] = L2
      /\ \A u \in DOMAIN W2 : (u \in DOMAIN W /\ W2[u] = W[u]) \/ u = t
  BY <1>1, Zenon DEF Put
<1>5. Extends(W, W2)
  <2>1. ASSUME NEW u \in DOMAIN W, NEW k \in DOMAIN W[u]
        PROVE  u \in DOMAIN W2 /\ k \in DOMAIN W2[u] /\ W2[u][k] = W[u][k]
    <3>1. CASE u = t
      BY <1>1, <1>2, <1>3, <1>4, <3>1, Zenon
    <3>2. CASE u # t
      BY <1>4, <3>2, Zenon
    <3> QED  BY <3>1, <3>2, Zenon
  <2> QED  BY <1>4, <2>1, Zenon DEF Extends
<1>6. Sound(W2, L)
  BY <1>2, <1>5, SoundGrows, Zenon
<1>7. \A k \in DOMAIN L2 : L2[k].term \in Nat /\ L2[k].term <= t
  <2>1. \A k \in 1..len : L[k].term \in Nat /\ L[k].term <= t
    BY <1>1, <1>2, Zenon DEF Sound, Written
  <2>2. \A k \in 1..(len + 1) : k = len + 1 \/ k \in 1..len
    BY <1>2
  <2> QED  BY <1>1, <1>2, <1>3, <2>1, <2>2
<1>8. Sound(W2, L2)
  <2>1. ASSUME NEW k \in DOMAIN L2
        PROVE  /\ L2[k].term \in DOMAIN W2
               /\ Agree(L2, W2[L2[k].term], k)
               /\ \A l \in 1..k : L2[l].term <= L2[k].term
    <3>1. CASE k = len + 1
      <4>1. L2[k].term = t
        BY <1>1, <1>3, <3>1, Zenon
      <4>2. Agree(L2, L2, k)
        BY <1>2, <1>3, <3>1, Zenon DEF Agree
      <4>3. \A l \in 1..k : L2[l].term <= t
        BY <1>3, <1>7, <3>1, Zenon
      <4> QED  BY <1>4, <4>1, <4>2, <4>3, Zenon
    <3>2. CASE k # len + 1
      <4>1. k \in 1..len /\ k \in DOMAIN L /\ L2[k] = L[k]
        BY <1>2, <1>3, <3>2
      <4>2. /\ L[k].term \in DOMAIN W2 /\ Agree(L, W2[L[k].term], k)
            /\ \A l \in 1..k : L[l].term <= L[k].term
        BY <1>6, <4>1, Zenon DEF Sound
      <4>3. \A l \in 1..k : l \in 1..len
        BY <1>2, <4>1
      <4>4. Agree(L2, W2[L[k].term], k)
        BY <1>3, <4>2, <4>3, Zenon DEF Agree
      <4>5. \A l \in 1..k : L2[l].term <= L2[k].term
        BY <1>3, <4>1, <4>2, <4>3, Zenon
      <4> QED  BY <4>1, <4>2, <4>4, <4>5, Zenon
    <3> QED  BY <3>1, <3>2, Zenon
  <2>2. len + 1 \in Nat
    BY <1>2
  <2> QED  BY <1>3, <2>1, <2>2, Zenon DEF Sound
<1>9. Written(W2)
  <2>1. ASSUME NEW u \in DOMAIN W2
        PROVE  u \in Nat /\ Sound(W2, W2[u]) /\ \A k \in DOMAIN W2[u] : W2[u][k].term <= u
    <3>1. CASE u = t
      BY <1>2, <1>4, <1>7, <1>8, <3>1, Zenon
    <3>2. CASE u # t
      <4>1. u \in DOMAIN W /\ W2[u] = W[u]
        BY <1>4, <3>2, Zenon
      <4>2. u \in Nat /\ Sound(W, W[u]) /\ \A k \in DOMAIN W[u] : W[u][k].term <= u
        BY <1>1, <4>1, Zenon DEF Written
      <4>3. Sound(W2, W[u])
        BY <1>5, <4>2, SoundGrows, Zenon
      <4> QED  BY <4>1, <4>2, <4>3, Zenon
    <3> QED  BY <3>1, <3>2, Zenon
  <2> QED  BY <2>1, Zenon DEF Written
<1> QED
  BY <1>2, <1>3, <1>4, <1>5, <1>7, <1>8, <1>9, Zenon DEF t

(* The writer leads with the longer log, and has acknowledged it           *)
(* (append, become_leader).                                                *)
LEMMA WriterLeads ==
  ASSUME Counting,
         NEW V, NEW W, NEW A, NEW L, NEW i, NEW n, NEW e, NEW W2, NEW A2, NEW L2,
         Writes(V, W, A, L, i, n, e, W2, A2, L2), SnapChosen(n), i \in V,
         NEW n2, Stable(V, n2), n2.log = Put(n.log, LastIndex(n) + 1, e), n2.snap = n.snap,
         n2.commit = n.commit, n2.term = n.term, n2.role = Leader,
         \A p \in DOMAIN n2.lead.match :
           /\ n2.lead.match[p] \in Nat
           /\ n2.lead.match[p] > n.commit => Acked(A, p, n.term, n2.lead.match[p]),
         \A p \in DOMAIN n2.lead.next : n2.lead.next[p] <= LastIndex(n) + 1
  PROVE  Leads(V, W2, A2, L2, i, n2)
<1> DEFINE t == n.term
           len == LastIndex(n)
<1>1. /\ Extends(W, W2) /\ Sound(W2, L2) /\ t \in DOMAIN W2 /\ W2[t] = L2
      /\ \A k \in DOMAIN L : k \in DOMAIN L2 /\ L2[k] = L[k]
      /\ \A k \in DOMAIN L2 : L2[k].term <= t
  BY WritesGives
<1>2. /\ Stable(V, n) /\ NodeFits(V, W, A, L, i, n) /\ \A a \in A : a[3] \in Nat
      /\ L2 = [k \in 1..(len + 1) |-> IF k = len + 1 THEN e ELSE L[k]]
      /\ A2 = A \cup {<<i, t, len + 1>>}
  BY Zenon DEF Writes
<1>3. /\ len \in Nat /\ n.snap.index \in Nat /\ n.commit \in Nat /\ t \in Nat
      /\ Stands(n, L) /\ n.snap.index <= n.commit /\ n.commit <= len
      /\ Backed(V, W, A, t, L, n.commit)
      /\ \A p \in DOMAIN n2.lead.next : n2.lead.next[p] \in Nat
  BY <1>2, LastIndexIs, Zenon DEF Stable, SnapOk, IsNode, NodeFits, LeadOk
<1>4. /\ DOMAIN L = 1..len /\ DOMAIN n.log = (n.snap.index + 1)..len
      /\ n.snap.index <= len
      /\ \A k \in DOMAIN n.log : n.log[k] = L[k]
      /\ n.snap.term = IF n.snap.index = 0 THEN 0 ELSE L[n.snap.index].term
  BY <1>3, Zenon DEF Stands
<1> HIDE DEF t, len
<1>5. /\ DOMAIN n2.log = (n.snap.index + 1)..(len + 1)
      /\ \A k \in DOMAIN n2.log : n2.log[k] = L2[k]
  <2>1. DOMAIN n2.log = ((n.snap.index + 1)..len) \cup {len + 1}
    BY <1>4, Zenon DEF Put, len
  <2>2. ((n.snap.index + 1)..len) \cup {len + 1} = (n.snap.index + 1)..(len + 1)
    BY <1>3, <1>4
  <2>3. ASSUME NEW k \in DOMAIN n2.log
        PROVE  n2.log[k] = L2[k]
    <3>1. CASE k = len + 1
      BY <1>2, <1>3, <2>1, <3>1 DEF Put, len
    <3>2. CASE k # len + 1
      <4>1. k \in DOMAIN n.log /\ k \in 1..len
        BY <1>3, <1>4, <2>1, <3>2
      <4>2. n2.log[k] = n.log[k]
        BY <3>2, <4>1, Zenon DEF Put, len
      <4> QED  BY <1>1, <1>4, <4>1, <4>2, Zenon
    <3> QED  BY <3>1, <3>2, Zenon
  <2> QED  BY <2>1, <2>2, <2>3, Zenon
<1>6. LastIndex(n2) = len + 1
  <2>1. len + 1 \in DOMAIN n2.log /\ Indices(DOMAIN n2.log)
    BY <1>3, <1>4, <1>5 DEF Indices
  <2>2. Max(DOMAIN n2.log) \in DOMAIN n2.log /\ len + 1 <= Max(DOMAIN n2.log)
    BY <2>1, MaxOf, Zenon
  <2>3. Max(DOMAIN n2.log) = len + 1
    BY <1>3, <1>5, <2>2
  <2> QED  BY <2>1, <2>3, Zenon DEF LastIndex
<1>7. Stands(n2, L2)
  <2>1. DOMAIN L2 = 1..(len + 1) /\ n.snap.index <= len + 1
    BY <1>2, <1>3, <1>4
  <2>2. n.snap.index # 0 => L2[n.snap.index] = L[n.snap.index]
    BY <1>1, <1>3, <1>4
  <2> QED  BY <1>4, <1>5, <1>6, <2>1, <2>2, Zenon DEF Stands
<1>8. Acked(A2, i, t, len + 1) /\ A \subseteq A2 /\ \A a \in A2 : a[3] \in Nat
  <2>1. <<i, t, len + 1>> \in A2 /\ A \subseteq A2
    BY <1>2, Zenon
  <2>2. /\ <<i, t, len + 1>>[1] = i /\ <<i, t, len + 1>>[2] = t
        /\ <<i, t, len + 1>>[3] = len + 1 /\ len + 1 \in Nat /\ len + 1 >= len + 1
    BY <1>3
  <2> QED  BY <1>2, <2>1, <2>2, Zenon DEF Acked
<1>9. LeadFits(W2, A2, i, n2)
  <2>1. ASSUME NEW p \in DOMAIN n2.lead.match, n2.lead.match[p] > n2.commit
        PROVE  Acked(A2, p, n2.term, n2.lead.match[p])
    BY <1>8, <2>1, AckedGrows, Zenon
  <2>2. \A p \in DOMAIN n2.lead.next : n2.lead.next[p] <= (len + 1) + 1
    BY <1>3 DEF len
  <2> QED  BY <1>1, <1>6, <1>8, <2>1, <2>2, Zenon DEF LeadFits, t
<1>10. Backed(V, W2, A2, n2.term, L2, n2.commit)
  <2>1. Backed(V, W2, A2, t, L, n.commit)
    BY <1>1, <1>3, <1>8, BackedGrows
  <2>2. CASE n.commit = 0
    BY <2>2, Zenon DEF Backed
  <2>3. CASE n.commit # 0
    <3>1. PICK u, k \in Nat : /\ u <= t /\ k >= n.commit /\ Decided(V, W2, A2, u, k)
                              /\ Agree(W2[u], L, n.commit)
      BY <2>1, <2>3, Zenon DEF Backed
    <3>2. Agree(W2[u], L2, n.commit)
      BY <1>1, <3>1, Zenon DEF Agree
    <3> QED  BY <3>1, <3>2, Zenon DEF Backed, t
  <2> QED  BY <2>2, <2>3, Zenon
<1>11. n2.snap.index <= n2.commit /\ n2.commit <= LastIndex(n2)
  BY <1>3, <1>6
<1>12. NodeFits(V, W2, A2, L2, i, n2)
  BY <1>1, <1>7, <1>9, <1>10, <1>11, Zenon DEF NodeFits, t
<1> QED
  BY <1>8, <1>12, Zenon DEF Leads, SnapChosen

(* A step that writes.  In a new term the writer knows, of every earlier   *)
(* entry, that it has it or that it is dead.                               *)
LEMMA WriterKeeps ==
  ASSUME Counting,
         NEW V \in SUBSET Server, NEW W, NEW A, NEW F, Before(V, W, A, F), After(V),
         NEW i \in Server, NEW in, NEW s, Take(i, in, s), Voted(V, W, A, F, i),
         NEW n, NEW e, NEW W2, NEW A2, NEW L2, Writes(V, W, A, F[i], i, n, e, W2, A2, L2),
         n.snap = node[i].snap, n.commit = node[i].commit,
         LeadsOn(V, W2, A2, L2, i, n, s),
         n.term \notin DOMAIN W =>
           \A t \in DOMAIN W : \A k : t < n.term /\ Own(W, t, k) =>
             Contains(F[i], t, k) \/ Dead(V, A2, t, k)'
  PROVE  Proceeds(V, W, A, F)
<1> DEFINE len == LastIndex(n)
<1>1. /\ Extends(W, W2) /\ Written(W2) /\ n.term \in DOMAIN W2 /\ W2[n.term] = L2
      /\ \A u \in DOMAIN W2 : (u \in DOMAIN W /\ W2[u] = W[u]) \/ u = n.term
      /\ \A k \in DOMAIN F[i] : k \in DOMAIN L2 /\ L2[k] = F[i][k]
  BY WritesGives
<1>2. /\ Leads(V, W2, A2, L2, i, s.n) /\ s.n.term = n.term /\ s.n.role = Leader
      /\ \A m \in s.out : MsgFits(V, W2, A2, m) /\ m.type # "RequestVote"
  BY Zenon DEF LeadsOn, Leads, Follows
<1>3. \A t, k : Contains(F[i], t, k) => Contains(L2, t, k)
  BY <1>1, Zenon DEF Contains
<1>4. WritesFit(V, W, W2, A2, L2, s.n)
  BY <1>1, <1>2, <1>3, Zenon DEF WritesFit
<1>5. NewAcksFit(A, W2, A2, L2, i, s.n.term)
  <2>1. /\ A2 = A \cup {<<i, n.term, len + 1>>} /\ DOMAIN L2 = 1..(len + 1)
        /\ len + 1 \in Nat
    BY LastIndexIs DEF Writes
  <2> HIDE DEF len
  <2>2. Agree(L2, L2, len + 1)
    BY <2>1, Zenon DEF Agree
  <2>3. \A a \in A2 \ A : a[1] = i /\ a[2] = n.term /\ a[3] = len + 1
    BY <2>1
  <2> QED  BY <1>1, <1>2, <2>1, <2>2, <2>3, Zenon DEF NewAcksFit
<1>6. Keeps(V, W, A, F[i], L2, i)
  BY <1>3, Zenon DEF Keeps
<1>7. Fits(V, W, A, F[i], W2, A2, L2, i, s)
  <2>1. NodeFits(V, W2, A2, L2, i, s.n) /\ SnapChosen(s.n) /\ s.n.role # Candidate
    BY <1>2, Zenon DEF Leads, Leader, Candidate
  <2>2. \A m \in s.out : MsgFits(V, W2, A2, m) /\ Asks(i, s.n, m)
    BY <1>2, Zenon DEF Asks
  <2>3. Advances(node[i], s.n)
    <3>1. Stable(V, node[i]) /\ Follows(n, s.n)
      BY BeforeGives, Zenon DEF LeadsOn
    <3>2. node[i].snap.index \in Nat
      BY <3>1, Zenon DEF Stable, SnapOk
    <3> QED  BY <3>1, <3>2 DEF Follows, Advances
  <2> QED  BY <1>4, <1>5, <1>6, <2>1, <2>2, <2>3, Zenon DEF Fits
<1> QED
  BY <1>7, FitsProceeds, Zenon

\* a is n with e at the end of its log.
Appended(n, e, a) ==
  /\ a.log = Put(n.log, LastIndex(n) + 1, e) /\ a.snap = n.snap /\ a.commit = n.commit
  /\ a.term = n.term /\ a.role = n.role /\ a.lead = n.lead /\ a.configs = n.configs
  /\ IsNode(a)

\* append_log.
LEMMA AppendLogIs ==
  ASSUME NEW n, IsNode(n), NEW kind, NEW data
  PROVE  Appended(n, Entry(n.term, kind, data), AppendLog(n, kind, data))
BY Zenon DEF AppendLog, Appended, IsNode, NodeFields

(* The tail of become_leader and propose.                                  *)
LEMMA AdvanceAllLeads ==
  ASSUME Counting,
         NEW V \in SUBSET Server, NEW W, NEW A, NEW L, NEW i, NEW n, Leads(V, W, A, L, i, n)
  PROVE  LET adv == AdvanceCommitIndex(i, n)
         IN  LeadsOn(V, W, A, L, i, n, AndThen(adv, ReplicateAll(i, adv.n)))
<1> DEFINE adv == AdvanceCommitIndex(i, n)
           rep == ReplicateAll(i, adv.n)
<1>1. LeadsOn(V, W, A, L, i, n, adv)
  BY AdvanceLeads, Zenon
<1>2. LeadsOn(V, W, A, L, i, adv.n, rep)
  <2> HIDE DEF adv
  <2> QED  BY <1>1, ReplicateLeads, Zenon DEF LeadsOn
<1> HIDE DEF rep, adv
<1>3. LeadsOn(V, W, A, L, i, n, AndThen(adv, rep))
  BY <1>1, <1>2, LeadsOnAndThen, Zenon
<1> QED
  BY <1>3, Zenon DEF adv, rep

\* A write of a leader or of a winner, whatever the entry.
LEMMA MayWrite ==
  ASSUME NEW V, NEW W, NEW A, NEW L, NEW i, NEW n, NEW e,
         Stable(V, n), NodeFits(V, W, A, L, i, n), Written(W), \A a \in A : a[3] \in Nat,
         e.term = n.term, n.term \in DOMAIN W => W[n.term] = L
  PROVE  \E W2, A2, L2 : Writes(V, W, A, L, i, n, e, W2, A2, L2)
BY Zenon DEF Writes

(* A leader adds to the log of its term (propose).                         *)
LEMMA ProposeLogs ==
  ASSUME Counting,
         NEW V \in SUBSET Server, NEW W, NEW A, NEW F, Before(V, W, A, F), After(V),
         NEW i \in Server, NEW c, Propose(i, c),
         Stays(i)
  PROVE  Proceeds(V, W, A, F)
<1> DEFINE n == node[i]
           a == AppendLog(n, "Command", c)
           e == Entry(n.term, "Command", c)
           adv == AdvanceCommitIndex(i, a)
           s == AndThen(adv, ReplicateAll(i, adv.n))
<1>1. Take(i, {}, s) /\ n.role = Leader
  BY Zenon DEF Propose
<1>2. Voted(V, W, A, F, i)
  BY Zenon DEF Voted
<1>3. Leads(V, W, A, F[i], i, n)
  BY <1>1, BeforeGives, Zenon
<1>4. /\ n.term \in DOMAIN W /\ W[n.term] = F[i] /\ LeadFits(W, A, i, n) /\ i \in V
      /\ SnapChosen(n) /\ Stable(V, n) /\ NodeFits(V, W, A, F[i], i, n) /\ Written(W)
      /\ \A x \in A : x[3] \in Nat
  BY <1>3, LeadsGives, BeforeGives DEF Leads
<1>14. n.snap = node[i].snap /\ n.commit = node[i].commit
  BY Zenon
<1>5. /\ a.log = Put(n.log, LastIndex(n) + 1, e) /\ a.snap = n.snap /\ a.commit = n.commit
      /\ a.term = n.term /\ a.role = n.role /\ a.lead = n.lead
  <2>1. IsNode(n)
    BY <1>4, Zenon DEF Stable
  <2> HIDE DEF n
  <2>2. Appended(n, e, a)
    BY <2>1, AppendLogIs, Zenon
  <2> HIDE DEF a, e
  <2> QED  BY <2>2, Zenon DEF Appended
<1>6. Stable(V, a)
  BY <1>4, AppendLogStable, Zenon
<1>7. e.term = n.term
  BY Zenon DEF Entry
<1> HIDE DEF n, a, e
<1>8. PICK W2, A2, L2 : Writes(V, W, A, F[i], i, n, e, W2, A2, L2)
  BY <1>4, <1>7, MayWrite, Zenon
<1>9. Leads(V, W2, A2, L2, i, a)
  BY <1>1, <1>4, <1>5, <1>6, <1>8, WriterLeads, Zenon DEF LeadFits
<1>10. LeadsOn(V, W2, A2, L2, i, a, s)
  BY <1>9, AdvanceAllLeads, Zenon
<1> HIDE DEF s
<1>11. Follows(n, a)
  BY <1>3, <1>5, FollowsAlike, Zenon
<1>12. LeadsOn(V, W2, A2, L2, i, n, s)
  BY <1>10, <1>11, FollowsThenLeads, Zenon
<1> QED
  BY <1>1, <1>2, <1>4, <1>8, <1>12, <1>14, WriterKeeps, Zenon

(* Adding a learner writes too (propose_add_learner, append_config_entry). *)
LEMMA ProposeAddLearnerLogs ==
  ASSUME Counting,
         NEW V \in SUBSET Server, NEW W, NEW A, NEW F, Before(V, W, A, F), After(V),
         NEW i \in Server, NEW p, ProposeAddLearner(i, p),
         Stays(i)
  PROVE  Proceeds(V, W, A, F)
<1> DEFINE n == node[i]
           old == Active(n)
           config == [old EXCEPT !.learners = @ \cup {p}]
           a == AppendLog(n, "Config", config)
           e == Entry(n.term, "Config", config)
           b == [a EXCEPT !.configs = OnAppend(@, EntriesFrom(a, LastIndex(a)))]
           r == RefreshLeaderState(i, b)
           u == CommitUpTo(i, r)
           s == ReplicateAll(i, u)
<1>1. Take(i, {}, s) /\ n.role = Leader
  BY Zenon DEF ProposeAddLearner, AppendConfigEntry, ConfChangeAllowed
<1>2. Voted(V, W, A, F, i)
  BY Zenon DEF Voted
<1>3. Leads(V, W, A, F[i], i, n)
  BY <1>1, BeforeGives, Zenon
<1>4. /\ n.term \in DOMAIN W /\ W[n.term] = F[i] /\ LeadFits(W, A, i, n) /\ i \in V
      /\ SnapChosen(n) /\ Stable(V, n) /\ NodeFits(V, W, A, F[i], i, n) /\ Written(W)
      /\ \A x \in A : x[3] \in Nat
  BY <1>3, LeadsGives, BeforeGives DEF Leads
<1>14. n.snap = node[i].snap /\ n.commit = node[i].commit
  BY Zenon
<1>5. Fixed(V, config)
  <2>1. Fixed(V, old)
    BY <1>4, ActiveIsFixed, Zenon
  <2> HIDE DEF old
  <2> QED  BY <2>1 DEF Fixed
<1> HIDE DEF config
<1>6. Stable(V, b) /\ Stable(V, r)
  BY <1>4, <1>5, NewConfigStable, Zenon
<1>7. /\ b.log = Put(n.log, LastIndex(n) + 1, e) /\ b.snap = n.snap /\ b.commit = n.commit
      /\ b.term = n.term /\ b.role = n.role /\ b.lead = n.lead
  <2>1. IsNode(n)
    BY <1>4, Zenon DEF Stable
  <2> HIDE DEF n
  <2>2. Appended(n, e, a)
    BY <2>1, AppendLogIs, Zenon
  <2> HIDE DEF a, e
  <2>3. /\ b.log = a.log /\ b.snap = a.snap /\ b.commit = a.commit
        /\ b.term = a.term /\ b.role = a.role /\ b.lead = a.lead
    BY <2>2, Zenon DEF Appended, IsNode, NodeFields
  <2> QED  BY <2>2, <2>3, Zenon DEF Appended
<1>8. e.term = n.term
  BY Zenon DEF Entry
<1> HIDE DEF n, b, e
<1>9. PICK W2, A2, L2 : Writes(V, W, A, F[i], i, n, e, W2, A2, L2)
  BY <1>4, <1>8, MayWrite, Zenon
<1>10. Leads(V, W2, A2, L2, i, b)
  BY <1>1, <1>4, <1>6, <1>7, <1>9, WriterLeads, Zenon DEF LeadFits
<1>11. Leads(V, W2, A2, L2, i, r) /\ Follows(b, r)
  BY <1>6, <1>10, RefreshLeads, Zenon
<1> HIDE DEF r
<1>12. Leads(V, W2, A2, L2, i, u) /\ Follows(r, u)
  BY <1>11, CommitUpToLeads, Zenon
<1> HIDE DEF u
<1>13. LeadsOn(V, W2, A2, L2, i, u, s)
  BY <1>12, ReplicateLeads, Zenon
<1> HIDE DEF s
<1>15. Follows(n, b)
  BY <1>3, <1>7, FollowsAlike, Zenon
<1>16. LeadsOn(V, W2, A2, L2, i, n, s)
  BY <1>11, <1>12, <1>13, <1>15, FollowsThenLeads, Zenon
<1> QED
  BY <1>1, <1>2, <1>4, <1>9, <1>14, <1>16, WriterKeeps, Zenon

-----------------------------------------------------------------------------
(* Elections.                                                              *)

\* The servers of Q have elected i for the term that it has now entered.
Elects(V, Q, i) ==
  /\ Q \in SUBSET Server /\ IsMajority(V, Q)
  /\ \A v \in Q : <<v, node'[i].term, i>> \in ballots'
  /\ \/ node'[i].term > node[i].term
     \/ node'[i].term = node[i].term /\ node[i].role = Candidate

(* Nobody has written for that term.                                       *)
LEMMA TermIsNew ==
  ASSUME Counting,
         NEW V \in SUBSET Server, NEW W, NEW A, NEW F, Before(V, W, A, F), After(V),
         NEW i \in Server, ballots \subseteq ballots', NEW Q, Elects(V, Q, i)
  PROVE  node'[i].term \notin DOMAIN W
<1> DEFINE T == node'[i].term
<1> SUFFICES ASSUME T \in DOMAIN W PROVE FALSE
  BY Zenon
<1>1. PICK c \in Server : /\ Carried(V, c, T) /\ T <= node[c].term
                          /\ node[c].term = T => node[c].role # Candidate
  BY Zenon DEF Before, LogInv, TermsFit
<1>2. PICK P \in SUBSET Server : IsMajority(V, P) /\ \A v \in P : <<v, T, c>> \in ballots
  BY <1>1, Zenon DEF Carried
<1>3. PICK v : v \in P /\ v \in Q
  BY <1>2, MajoritiesMeet, Zenon DEF Elects
<1>4. <<v, T, c>> \in ballots' /\ <<v, T, i>> \in ballots'
  BY <1>2, <1>3, Zenon DEF Elects
<1>5. \A a, b \in ballots' : a[1] = b[1] /\ a[2] = b[2] => a[3] = b[3]
  BY Zenon DEF After, ElectionInv, BallotsOk
<1>6. <<v, T, c>>[3] = <<v, T, i>>[3]
  BY <1>4, <1>5, Zenon
<1>7. c = i
  BY <1>6, Zenon
<1>8. node[i].term \in Nat /\ T \in Nat
  BY Zenon DEF Before, After, Wellformed, IsNode
<1> QED
  BY <1>1, <1>7, <1>8 DEF Elects

(* A winner has every earlier entry that may yet be decided: a voter that  *)
(* acknowledged it has checked, and without one it is dead.                *)
LEMMA WinnerHasIt ==
  ASSUME NEW V \in SUBSET Server, NEW W, NEW A, NEW F, Before(V, W, A, F), After(V),
         NEW i \in Server, NEW out, Moved(i, out), NEW Q, Elects(V, Q, i),
         NEW A2, \A a \in A2 : a \in A \/ (a[1] = i /\ a[2] = node'[i].term),
         NEW t \in DOMAIN W, NEW k, t < node'[i].term, Own(W, t, k)
  PROVE  Contains(F[i], t, k) \/ Dead(V, A2, t, k)'
<1> DEFINE T == node'[i].term
<1>1. /\ \A v \in Server : /\ node[v].term \in Nat /\ node'[v].term \in Nat
      /\ t \in Nat /\ k \in Nat /\ k >= 1
  <2>1. Written(W)
    BY Zenon DEF Before, LogInv
  <2>2. t \in Nat /\ \E x \in Nat : DOMAIN W[t] = 1..x
    BY <2>1, Zenon DEF Written, Sound
  <2> QED  BY <2>2 DEF Before, After, Wellformed, IsNode, Own, Contains
<1>2. \A j \in Server \ {i} : node'[j] = node[j]
  BY MovedAlone, Zenon
<1>3. \A v \in Server : node'[v].term >= node[v].term
  BY <1>1, <1>2 DEF Elects
<1>4. /\ AcksFit(V, W, A, F) /\ VotesFit(V, W, A, F)
  BY Zenon DEF Before, LogInv
<1>5. ASSUME Dead(V, A, t, k)
      PROVE  Dead(V, A2, t, k)'
  <2>1. \A a \in A2 \ A : a[1] \in Server /\ a[2] >= node[a[1]].term
    BY <1>3, Zenon
  <2> QED  BY <1>1, <1>3, <1>5, <2>1, DeadLasts, Zenon
<1>6. CASE \E v \in Q : Acked(A, v, t, k)
  <2>1. PICK v \in Q : Acked(A, v, t, k)
    BY <1>6, Zenon
  <2>2. PICK a \in A : a[1] = v /\ a[2] = t /\ a[3] >= k
    BY <2>1, Zenon DEF Acked
  <2>3. k \in 1..a[3]
    BY <1>1, <1>4, <2>2 DEF AcksFit
  <2> DEFINE b == <<v, T, i>>
  <2>4. b \in ballots' /\ b[1] = v /\ b[2] = T /\ b[3] = i
    BY Zenon DEF Elects
  <2> HIDE DEF b
  <2>5. CASE b \in ballots
    <3>1. T <= node[i].term
      BY <1>4, <2>4, <2>5, Zenon DEF VotesFit
    <3>2. node[i].role = Candidate /\ node[i].term = T
      BY <1>1, <3>1 DEF Elects
    <3>3. Contains(F[i], t, k) \/ Dead(V, A, t, k)
      BY <1>4, <2>2, <2>3, <2>4, <2>5, <3>2, Zenon DEF VotesFit
    <3> QED  BY <1>5, <3>3, Zenon
  <2>6. CASE b \notin ballots
    <3>1. b = <<i, node'[i].term, node'[i].votedFor>>
      BY <2>4, <2>6, HistoriesGrow, Zenon
    <3>2. v = i
      BY <2>4, <3>1
    <3>3. Contains(F[i], t, k) \/ Dead(V, A, t, k)
      BY <1>4, <2>2, <2>3, <3>2, Zenon DEF AcksFit
    <3> QED  BY <1>5, <3>3, Zenon
  <2> QED  BY <2>5, <2>6, Zenon
<1>7. CASE ~ \E v \in Q : Acked(A, v, t, k)
  <2>1. ASSUME NEW v \in Q
        PROVE  node'[v].term > t /\ ~Acked(A2, v, t, k)
    <3> DEFINE b == <<v, T, i>>
    <3>1. b \in ballots' /\ b[1] = v /\ b[2] = T /\ v \in Server
      BY Zenon DEF Elects
    <3> HIDE DEF b
    <3>2. T <= node'[v].term
      BY <3>1, Zenon DEF After, ElectionInv, BallotsOk
    <3>3. ASSUME NEW a \in A2, a[1] = v, a[2] = t, a[3] >= k
          PROVE  FALSE
      <4>1. a \in A
        BY <1>1, <3>3
      <4> QED  BY <1>7, <3>3, <4>1, Zenon DEF Acked
    <3> QED  BY <1>1, <3>1, <3>2, <3>3 DEF Acked
  <2>2. Q \in SUBSET Server /\ IsMajority(V, Q)
    BY Zenon DEF Elects
  <2> QED  BY <2>1, <2>2, Zenon DEF Dead, Acked
<1> QED
  BY <1>6, <1>7, Zenon

(* A new leader starts its term with a no-op (become_leader).              *)
LEMMA BecomeLeaderLeads ==
  ASSUME Counting,
         NEW V \in SUBSET Server, NEW W, NEW A, NEW L, NEW i, NEW n, NEW W2, NEW A2, NEW L2,
         Writes(V, W, A, L, i, n, Entry(n.term, "Noop", Nil), W2, A2, L2), SnapChosen(n), i \in V
  PROVE  LeadsOn(V, W2, A2, L2, i, n, BecomeLeader(i, n))
<1> DEFINE peers == ReplicationTargets(i, n)
           lead  == [next      |-> [p \in peers |-> LastIndex(n) + 1],
                     match     |-> [p \in peers |-> 0],
                     aeSeq     |-> 0,
                     termStart |-> LastIndex(n) + 1,
                     reads     |-> {}]
           e   == Entry(n.term, "Noop", Nil)
           a   == AppendLog(n, "Noop", Nil)
           l   == [a EXCEPT !.role = Leader, !.votes = {}, !.lead = lead, !.leaderId = i]
           adv == AdvanceCommitIndex(i, l)
<1>1. Stable(V, n) /\ LastIndex(n) \in Nat /\ n.commit \in Nat
  BY LastIndexIs, Zenon DEF Writes, Stable
<1>2. Stable(V, a)
  BY <1>1, AppendLogStable, Zenon
<1>3. /\ a.log = Put(n.log, LastIndex(n) + 1, e) /\ a.snap = n.snap /\ a.commit = n.commit
      /\ a.term = n.term /\ IsNode(a)
  <2>1. IsNode(n)
    BY <1>1, Zenon DEF Stable
  <2>2. Appended(n, e, a)
    BY <2>1, AppendLogIs, Zenon
  <2> HIDE DEF a, e
  <2> QED  BY <2>2, Zenon DEF Appended
<1>4. LeadOk(lead)
  <2>1. LastIndex(n) + 1 \in Nat /\ LastIndex(n) + 1 >= 1
    BY <1>1
  <2> HIDE DEF peers
  <2> QED  BY <2>1, Zenon DEF LeadOk
<1>5. /\ \A p \in DOMAIN lead.match : lead.match[p] = 0
      /\ \A p \in DOMAIN lead.next : lead.next[p] = LastIndex(n) + 1
  BY Zenon
<1>6. BecomeLeader(i, n) = AndThen(adv, ReplicateAll(i, adv.n))
  BY Zenon DEF BecomeLeader
<1> HIDE DEF a, lead, e
<1>7. /\ IsNode(l) /\ l.log = a.log /\ l.snap = a.snap /\ l.commit = a.commit
      /\ l.configs = a.configs /\ l.lead = lead /\ l.term = a.term /\ l.role = Leader
  BY <1>3, Zenon DEF IsNode, NodeFields
<1> HIDE DEF l
<1>8. Stable(V, l)
  BY <1>2, <1>4, <1>7, StableAlike, Zenon
<1>9. /\ \A p \in DOMAIN l.lead.match :
           /\ l.lead.match[p] \in Nat
           /\ l.lead.match[p] > n.commit => Acked(A, p, n.term, l.lead.match[p])
      /\ \A p \in DOMAIN l.lead.next : l.lead.next[p] <= LastIndex(n) + 1
  BY <1>1, <1>5, <1>7
<1>10. Leads(V, W2, A2, L2, i, l)
  BY <1>3, <1>7, <1>8, <1>9, WriterLeads, Zenon DEF e
<1>11. LeadsOn(V, W2, A2, L2, i, l, BecomeLeader(i, n))
  BY <1>6, <1>10, AdvanceAllLeads, Zenon
<1>12. Follows(n, l)
  BY <1>1, <1>3, <1>7 DEF Follows
<1> QED
  BY <1>11, <1>12, FollowsThenLeads, Zenon

(* Winning keeps the invariant.                                            *)
LEMMA BecomeLeaderKeeps ==
  ASSUME Counting,
         NEW V \in SUBSET Server, NEW W, NEW A, NEW F, Before(V, W, A, F), After(V),
         NEW i \in Server, NEW in, NEW n, Take(i, in, BecomeLeader(i, n)),
         Voted(V, W, A, F, i), Stable(V, n), n.log = node[i].log, n.snap = node[i].snap,
         n.commit = node[i].commit, n.term >= node[i].term, n.role = Candidate, i \in V,
         NEW Q, Elects(V, Q, i)
  PROVE  Proceeds(V, W, A, F)
<1> DEFINE s == BecomeLeader(i, n)
           e == Entry(n.term, "Noop", Nil)
<1>1. node'[i] = s.n /\ Moved(i, s.out)
  BY TakeMoves, Zenon DEF Before
<1>2. s.n.term = n.term
  BY BecomeLeaderHardState, Zenon DEF Stable
<1>3. node'[i].term = n.term
  BY <1>1, <1>2, Zenon
<1> HIDE DEF s
<1>4. ballots \subseteq ballots'
  BY <1>1, HistoriesGrow, Zenon
<1>5. n.term \notin DOMAIN W
  BY <1>3, <1>4, TermIsNew, Zenon
<1>6. /\ NodeFits(V, W, A, F[i], i, node[i]) /\ SnapChosen(node[i]) /\ Written(W)
      /\ \A a \in A : a[3] \in Nat
  BY BeforeGives, Zenon
<1>7. NodeFits(V, W, A, F[i], i, n) /\ SnapChosen(n)
  <2>1. node[i].term \in Nat /\ n.term \in Nat
    BY Zenon DEF Before, Wellformed, Stable, IsNode
  <2>2. n.role # Leader
    BY Zenon DEF Leader, Candidate
  <2> QED  BY <1>6, <2>1, <2>2, NodeFitsAlike, Zenon DEF SnapChosen
<1>8. e.term = n.term
  BY Zenon DEF Entry
<1>9. PICK W2, A2, L2 : Writes(V, W, A, F[i], i, n, e, W2, A2, L2)
  BY <1>5, <1>6, <1>7, <1>8, MayWrite, Zenon
<1>10. LeadsOn(V, W2, A2, L2, i, n, s)
  BY <1>7, <1>9, BecomeLeaderLeads, Zenon DEF s
<1>11. \A a \in A2 : a \in A \/ (a[1] = i /\ a[2] = node'[i].term)
  BY <1>3, <1>9 DEF Writes
<1>12. ASSUME NEW t \in DOMAIN W, NEW k, t < n.term, Own(W, t, k)
       PROVE  Contains(F[i], t, k) \/ Dead(V, A2, t, k)'
  BY <1>1, <1>3, <1>11, <1>12, WinnerHasIt, Zenon
<1> HIDE DEF e
<1> QED
  BY <1>9, <1>10, <1>12, WriterKeeps, Zenon DEF s

(* A campaign: the candidate asks with its own log, or wins alone          *)
(* (start_election).                                                       *)
LEMMA StartElectionLogs ==
  ASSUME Counting,
         NEW V \in SUBSET Server, NEW W, NEW A, NEW F, Before(V, W, A, F), After(V),
         NEW i \in Server, StartElection(i),
         Campaigns(i)
  PROVE  Proceeds(V, W, A, F)
<1> DEFINE n == [node[i] EXCEPT !.term = @ + 1, !.votedFor = i, !.role = Candidate,
                                !.votes = {i}, !.leaderId = Nil, !.contact = FALSE]
           req(p) == [type |-> "RequestVote", from |-> i, to |-> p, term |-> n.term,
                      lastIndex |-> LastIndex(n), lastTerm |-> LastTerm(n)]
           out == {req(p) : p \in VoteTargets(i, n)}
<1>1. Stable(V, node[i]) /\ node[i].term \in Nat
  BY Zenon DEF Before, VotersStay, Stable, IsNode
<1>2. /\ IsNode(n) /\ n.log = node[i].log /\ n.snap = node[i].snap
      /\ n.commit = node[i].commit /\ n.configs = node[i].configs /\ n.lead = node[i].lead
      /\ n.term = node[i].term + 1 /\ n.role = Candidate /\ n.votes = {i}
  BY <1>1 DEF Stable, IsNode, NodeFields
<1>3. /\ IsVoter(i, n)
      /\ \/ HasQuorum(Active(n), n.votes) /\ Take(i, {}, BecomeLeader(i, n))
         \/ Take(i, {}, Step(n, out))
  BY Zenon DEF StartElection
<1>4. Campaigns(i)
  BY Zenon
<1>5. Voted(V, W, A, F, i)
  BY <1>4, Zenon DEF Voted
<1> HIDE DEF n
<1>6. Stable(V, n)
  BY <1>1, <1>2, StableAlike, Zenon DEF Stable
<1>7. Fixed(V, Active(n))
  BY <1>6, ActiveIsFixed, Zenon
<1>8. i \in V /\ Active(n).voters = V
  BY <1>3, <1>7 DEF IsVoter, VotersOf, Fixed
<1>9. n.term >= node[i].term /\ n.term \in Nat /\ n.role # Leader
  BY <1>1, <1>2 DEF Leader, Candidate
<1>10. CASE HasQuorum(Active(n), n.votes) /\ Take(i, {}, BecomeLeader(i, n))
  <2>1. IsMajority(V, {i})
    BY <1>2, <1>8, <1>10, Zenon DEF HasQuorum
  <2>2. Moved(i, BecomeLeader(i, n).out)
    BY <1>10, TakeMoves, Zenon DEF Before
  <2>3. <<i, node'[i].term, i>> \in ballots'
    <3>1. node'[i].votedFor = i /\ i # Nil
      BY <1>4, NilAssumption, Zenon DEF Campaigns
    <3> QED  BY <2>2, <3>1, HistoriesGrow, Zenon
  <2>4. Elects(V, {i}, i)
    BY <1>1, <1>4, <2>1, <2>3 DEF Elects, Campaigns
  <2> QED  BY <1>2, <1>5, <1>6, <1>8, <1>9, <1>10, <2>4, BecomeLeaderKeeps, Zenon
<1>11. CASE Take(i, {}, Step(n, out))
  <2>1. \A m \in out : MsgFits(V, W, A, m) /\ Asks(i, n, m)
    BY DEF MsgFits, Asks
  <2> HIDE DEF out
  <2> QED  BY <1>2, <1>5, <1>8, <1>9, <1>11, <2>1, FollowerKeeps, Zenon
<1> QED
  BY <1>3, <1>10, <1>11, Zenon

(* A vote is counted (handle_request_vote_response).                       *)
LEMMA HandleRequestVoteResponseLogs ==
  ASSUME Counting,
         NEW V \in SUBSET Server, NEW W, NEW A, NEW F, Before(V, W, A, F), After(V),
         NEW i \in Server, NEW m \in Received(i, "RequestVoteResponse"),
         HandleRequestVoteResponse(i, m),
         Stays(i) \/ Enters(i) \/ Counts(i, m)
  PROVE  Proceeds(V, W, A, F)
<1> DEFINE votes == IF m.granted THEN node[i].votes \cup {m.from} ELSE node[i].votes
           n == [node[i] EXCEPT !.votes = votes]
           none == {}
<1>1. Stable(V, node[i]) /\ node[i].term \in Nat /\ m.term \in Nat
  BY Zenon DEF Before, VotersStay, Wellformed, Received, Stable, IsNode
<1>2. Voted(V, W, A, F, i)
  BY Zenon DEF Voted
<1>3. \/ Take(i, {m}, Step(ObserveTerm(node[i], m.term), {}))
      \/ VoteCounts(n, m) /\ Take(i, {m}, Step(n, none))
      \/ /\ VoteCounts(n, m) /\ HasQuorum(Active(n), n.votes)
         /\ Take(i, {m}, BecomeLeader(i, n))
  BY Zenon DEF HandleRequestVoteResponse
<1> HIDE DEF votes
<1>4. /\ IsNode(n) /\ n.log = node[i].log /\ n.snap = node[i].snap
      /\ n.commit = node[i].commit /\ n.configs = node[i].configs /\ n.lead = node[i].lead
      /\ n.term = node[i].term /\ n.role = node[i].role /\ n.votes = votes
  BY <1>1, Zenon DEF Stable, IsNode, NodeFields
<1>5. \A x \in none : MsgFits(V, W, A, x) /\ Asks(i, n, x)
  BY Zenon
<1> HIDE DEF n, none
<1>6. Stable(V, n)
  BY <1>1, <1>4, StableAlike, Zenon DEF Stable
<1>7. ASSUME VoteCounts(n, m)
      PROVE  /\ n.role = Candidate /\ node[i].role = Candidate /\ m.term = node[i].term
             /\ n.role # Leader /\ i \in V
  <2>1. n.role = Candidate /\ m.term = n.term
    BY <1>7, Zenon DEF VoteCounts
  <2>2. NodeFits(V, W, A, F[i], i, node[i])
    BY BeforeGives, Zenon
  <2> QED  BY <1>4, <2>1, <2>2, Zenon DEF NodeFits, Candidate, Leader, Follower
<1>8. CASE Take(i, {m}, Step(ObserveTerm(node[i], m.term), {}))
  BY <1>1, <1>2, <1>8, ObservedKeeps, Zenon
<1>9. n.term \in Nat /\ n.term >= node[i].term
  <2>1. n.term = node[i].term
    BY <1>4, Zenon
  <2> QED  BY <1>1, <2>1
<1>10. CASE VoteCounts(n, m) /\ Take(i, {m}, Step(n, none))
  BY <1>2, <1>4, <1>5, <1>7, <1>9, <1>10, FollowerKeeps, Zenon
<1>11. CASE /\ VoteCounts(n, m) /\ HasQuorum(Active(n), n.votes)
            /\ Take(i, {m}, BecomeLeader(i, n))
  <2>1. IsMajority(V, votes)
    <3>1. Fixed(V, Active(n))
      BY <1>6, ActiveIsFixed, Zenon
    <3> QED  BY <1>4, <1>11, <3>1 DEF HasQuorum, Fixed
  <2>2. \A v \in votes : <<v, node[i].term, i>> \in ballots
    <3>1. m \in msgs /\ m.to = i /\ m.type = "RequestVoteResponse" /\ m.to # Nil
      BY NilAssumption, Zenon DEF Received
    <3>2. CountsOk
      BY Zenon DEF Before, ElectionInv
    <3> QED  BY <1>7, <1>11, <3>1, <3>2, Zenon DEF CountsOk, votes
  <2>3. \A v \in votes : v \in Server
    <3>1. ASSUME NEW v \in votes
          PROVE  v \in Server
      <4> DEFINE b == <<v, node[i].term, i>>
      <4>1. b \in ballots /\ b[1] = v
        BY <2>2, Zenon
      <4> HIDE DEF b
      <4> QED  BY <4>1, Zenon DEF Before, ElectionInv, BallotsOk
    <3> QED  BY <3>1, Zenon
  <2>4. node'[i].term = node[i].term
    <3>1. node'[i] = BecomeLeader(i, n).n
      BY <1>11, TakeMoves, Zenon DEF Before
    <3>2. BecomeLeader(i, n).n.term = n.term
      BY <1>4, BecomeLeaderHardState, Zenon
    <3> QED  BY <1>4, <3>1, <3>2, Zenon
  <2>5. ballots \subseteq ballots'
    <3>1. Moved(i, BecomeLeader(i, n).out)
      BY <1>11, TakeMoves, Zenon DEF Before
    <3> QED  BY <3>1, HistoriesGrow, Zenon
  <2>6. Elects(V, votes, i)
    BY <1>7, <1>11, <2>1, <2>2, <2>3, <2>4, <2>5, Zenon DEF Elects
  <2> QED  BY <1>2, <1>4, <1>6, <1>7, <1>9, <1>11, <2>6, BecomeLeaderKeeps, Zenon
<1> QED
  BY <1>3, <1>8, <1>10, <1>11, Zenon
=============================================================================
