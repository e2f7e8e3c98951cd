----------------------------- MODULE RaftSafety -----------------------------
(***************************************************************************)
(* What the cluster of RaftNode promises.                                  *)
(***************************************************************************)
EXTENDS RaftNode

(* Election Safety: start_election and handle_request_vote persist a vote  *)
(* before it counts, so no term ever has two leaders, across restarts and  *)
(* membership changes.                                                     *)
ElectionSafety == \A a, b \in elected : a[2] = b[2] => a[1] = b[1]

(* The entry of server i at index k is one it still holds.                 *)
Holds(i, k, e) == k \in DOMAIN node[i].log /\ node[i].log[k] = e

(* Log Matching: the consistency check of handle_append_entries keeps two  *)
(* logs identical below every index at which they agree on the term.       *)
LogMatching ==
  \A i, j \in Server : \A k \in DOMAIN node[i].log \cap DOMAIN node[j].log :
    node[i].log[k].term = node[j].log[k].term =>
      \A l \in DOMAIN node[i].log \cap DOMAIN node[j].log :
        l <= k => node[i].log[l] = node[j].log[l]

(* State Machine Safety: no server ever reports committed an entry other   *)
(* than the one first committed at that index, and a snapshot stands for   *)
(* exactly such a prefix (advance_commit_index, handle_append_entries,     *)
(* compact, handle_install_snapshot).                                      *)
StateMachineSafety ==
  \A i \in Server :
    LET n == node[i]
    IN  /\ \A k \in 1..n.commit : k > n.snap.index => Holds(i, k, chosen[k])
        /\ n.snap.index > 0 => n.snap.index \in DOMAIN chosen
                               /\ n.snap.term = chosen[n.snap.index].term

(* What leader i counts as replicated on p, p does hold, unless it has since *)
(* followed a later leader: `match_index` is "truth", commitment and the     *)
(* catch-up gate count on it.                                              *)
HoldsUpTo(p, i, index) ==
  /\ LastIndex(node[p]) >= index
  /\ \A k \in DOMAIN node[i].log \cap 1..index :
       k <= node[p].snap.index \/ Holds(p, k, node[i].log[k])

MatchIndexTruth ==
  \A i, p \in Server :
    node[i].role = Leader /\ node[p].term <= node[i].term =>
      HoldsUpTo(p, i, MatchOf(node[i], p))

(* A linearizable read resolves at or above everything that was committed  *)
(* anywhere when it began: start_read registers it and note_leadership_ack *)
(* confirms that no later leader had taken over.                           *)
ReadIndexFresh ==
  \A i \in Server : \A r \in node[i].results :
    r.ok => r.index >= readFloor[<<i, r.id>>]

(* The incremental ConfigTracker (on_append, on_truncate, on_compact,      *)
(* on_install_snapshot) always equals what with_bootstrap would rebuild    *)
(* from disk, so a restart never changes the membership a node acts on.    *)
ConfigsSurviveRestart ==
  \A i \in Server : node[i].configs = ScanConfigs(i, node[i].log, node[i].snap)

-----------------------------------------------------------------------------
(* Hard state only moves forward: a term never decreases and a vote, once  *)
(* cast, is not changed within its term, whatever is received and however  *)
(* often the process restarts.                                             *)
HardStateMonotone ==
  [][\A i \in Server :
       /\ node'[i].term >= node[i].term
       /\ node'[i].term = node[i].term =>
            node[i].votedFor \in {Nil, node'[i].votedFor}]_node

(* The committed entries, as each node's driver sees them, are one log that *)
(* only grows and that every node follows in order: the cluster implements *)
(* ReplicatedLog.                                                          *)
Committed == INSTANCE ReplicatedLog WITH
  log    <- chosen,
  floor  <- [i \in Server |-> node[i].snap.index],
  upTo   <- [i \in Server |-> node[i].commit],
  window <- [i \in Server |->
               Restrict(node[i].log, (node[i].snap.index + 1)..node[i].commit)]

ImplementsReplicatedLog == Committed!Spec

(* A voter is only added while it is replicated to within catch_up_margin  *)
(* of the leader's log (propose_conf_change), so the joint configuration   *)
(* never waits on a member that is far behind.                             *)
PromotionIsCaughtUp ==
  [][\A i, p \in Server :
       /\ node[i].role = Leader /\ LastIndex(node'[i]) > LastIndex(node[i])
       /\ IsJoint(Active(node'[i])) /\ ~IsJoint(Active(node[i]))
       /\ p \in Active(node'[i]).voters \ Active(node[i]).voters
       /\ node[p].term <= node[i].term
       => HoldsUpTo(p, i, LastIndex(node[i]) - CatchUpMargin)]_node
-----------------------------------------------------------------------------
(* Fairness.  The driver ticks every node on its timer and runs each RPC   *)
(* in a task of its own, and a leader sends again until it is answered: an *)
(* election or heartbeat that stays due happens, and while messages from p *)
(* would change i, one of them gets through.  Crashes, client calls and    *)
(* compaction need never happen.                                           *)
From(i, p, type) == {m \in Received(i, type) : m.from = p}

Delivery(i, p) ==
  /\ WF_vars(\E m \in From(i, p, "RequestVote") : HandleRequestVote(i, m))
  /\ WF_vars(\E m \in From(i, p, "RequestVoteResponse") : HandleRequestVoteResponse(i, m))
  /\ WF_vars(\E m \in From(i, p, "AppendEntries") : HandleAppendEntries(i, m))
  /\ WF_vars(\E m \in From(i, p, "AppendEntriesResponse") :
               HandleAppendEntriesResponse(i, m))
  /\ WF_vars(\E m \in From(i, p, "InstallSnapshot") : HandleInstallSnapshot(i, m))
  /\ WF_vars(\E m \in From(i, p, "InstallSnapshotResponse") :
               HandleInstallSnapshotResponse(i, m))

Fairness ==
  \A i \in Server : /\ WF_vars(StartElection(i))
                    /\ WF_vars(Heartbeat(i))
                    /\ \A p \in Server : Delivery(i, p)

FairSpec == Spec /\ Fairness

(* Once some server leads for good, every server ends up with the leader's *)
(* whole log, committed, whatever its own log held and however far behind  *)
(* or compacted it was: back_off, replicate_to, InstallSnapshot and the    *)
(* heartbeats always make up the difference.                               *)
SomeoneLeads == \E i \in Server : node[i].role = Leader

AllCaughtUp ==
  \E i \in Server :
    /\ node[i].role = Leader
    /\ \A j \in Server : node[j].commit = LastIndex(node[i])

Converges == <>[]SomeoneLeads => <>[]AllCaughtUp
=============================================================================
