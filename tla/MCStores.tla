------------------------------ MODULE MCStores -------------------------------
(***************************************************************************)
(* The stores, one at a time: `part` says which of them a behaviour is     *)
(* about, and the others rest.                                             *)
(***************************************************************************)
EXTENDS Collector, HotTier, FilteredCas, ReplicatedCas, CasService, MetaStore, InputTree

CONSTANTS b1, b2, b3, b4, n1, n2, n3, p1, p2

VARIABLE part

svars == <<part, cvars, hvars, bvars, rvars, svcvars, mvars, tvars>>

MCRefs == p1 :> {b1} @@ p2 :> {b1, b2}
MCPublishes == p1 :> "a" @@ p2 :> "b"
MCAction == {"a", "b"}
MCSizeOf == b1 :> 1 @@ b2 :> 2 @@ b3 :> 1 @@ b4 :> 1
MCH1 == b1 :> 3 @@ b2 :> 6 @@ b3 :> 13 @@ b4 :> 11
MCH2 == b1 :> 9 @@ b2 :> 5 @@ b3 :> 5 @@ b4 :> 0
MCScore == b1 :> (n1 :> 2 @@ n2 :> 1 @@ n3 :> 3)
MCViews == {{n1, n3}, {n1, n2, n3}}

MCItems ==
    {[digest |-> [hash |-> b1, size |-> 1], data |-> d] : d \in {b1, b2}}
      \cup {[digest |-> [hash |-> b2, size |-> z], data |-> b2] : z \in {-1, 1, 2}}
MCKeys == {<<0>>, <<1>>, <<1, 0>>, <<1, 1>>, <<1, 2>>, <<2>>}
MCAcPrefix == <<1>>

\* A collector at rest: everything is published.
CollectorRests ==
    /\ blobs = {} /\ barrier = Free /\ orphans = {}
    /\ entries = [a \in Action |-> {}]
    /\ at = [c \in Caller |-> "done"] /\ op = [c \in Caller |-> NoOp]
    /\ plan = [reachable |-> {}, unreachable |-> {}]
    /\ done = [sweeps |-> 0, cancels |-> 0]
CollectorStarts == IF part = "collector" THEN CollectorInit ELSE CollectorRests

ReplicasStart ==
    /\ ReplicatedInit
    /\ part # "replicas" => membership.nodes = {n1, n3}

TreeRests == tree = Empty /\ listing = <<1, 2>>

Init ==
    /\ part \in {"collector", "tier", "filter", "replicas", "service", "meta", "tree"}
    /\ CollectorStarts /\ HotInit /\ FilterInit /\ ReplicasStart /\ ServiceInit /\ MetaInit
    /\ IF part = "tree" THEN TreeInit ELSE TreeRests

CollectorMoves ==
    /\ part = "collector" /\ CollectorNext
    /\ UNCHANGED <<part, hvars, bvars, rvars, svcvars, mvars, tvars>>
TierMoves ==
    /\ part = "tier" /\ HotNext
    /\ UNCHANGED <<part, cvars, bvars, rvars, svcvars, mvars, tvars>>
FilterMoves ==
    /\ part = "filter" /\ FilterNext
    /\ UNCHANGED <<part, cvars, hvars, rvars, svcvars, mvars, tvars>>
ReplicasMove ==
    /\ part = "replicas" /\ ReplicatedNext
    /\ UNCHANGED <<part, cvars, hvars, bvars, svcvars, mvars, tvars>>
ServiceMoves ==
    /\ part = "service" /\ ServiceNext
    /\ UNCHANGED <<part, cvars, hvars, bvars, rvars, mvars, tvars>>
MetaMoves ==
    /\ part = "meta" /\ MetaNext
    /\ UNCHANGED <<part, cvars, hvars, bvars, rvars, svcvars, tvars>>

Next == CollectorMoves \/ TierMoves \/ FilterMoves \/ ReplicasMove \/ ServiceMoves \/ MetaMoves

\* Every task of the runtime is polled again, and a blocking task ends.
Fairness ==
    \A c \in Caller :
        WF_svars(/\ part = "collector"
                 /\ \/ CallerStep(c)
                    \/ c \in Publisher /\ PublisherStep(c)
                    \/ c = Sweeper /\ SweeperStep
                 /\ UNCHANGED <<part, hvars, bvars, rvars, svcvars, mvars, tvars>>)

StoresSpec == Init /\ [][Next]_svars
FairStores == StoresSpec /\ Fairness
CollectorAlone == (Init /\ part = "collector") /\ [][Next]_svars
=============================================================================
