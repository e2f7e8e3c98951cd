---------------------------- MODULE ControlNode ----------------------------
(***************************************************************************)
(* One brokkr-control process from its command line to its exit            *)
(* (brokkr-control/src/main.rs): the flag checks and the order in which    *)
(* they run, the stores and tasks each stage starts, which services end up *)
(* on which listener behind which credentials, what the loss of a task     *)
(* does to the process, and the loop that publishes the node's client      *)
(* address while it leads (raftkv.rs).                                     *)
(***************************************************************************)
EXTENDS Integers, FiniteSets

CONSTANTS
    Flags,       \* the flags the process may be started with
    PortMax,            \* 65535 in the program
    MaxTurns            \* bound: changes of leadership and lost tasks

ASSUME ControlNodeAssumption == PortMax \in Nat \ {0} /\ MaxTurns \in Nat

VARIABLES
    args,       \* the flags
    stage,      \* how far main has come; "exited" at the end
    open,       \* the listeners that accept connections
    spawned,    \* background tasks that are running
    lead,       \* whether this node leads its Raft group
    record,     \* the address in the applied cfg/nodes/<id>: {} or {address}
    turns

cnvars == <<args, stage, open, spawned, lead, record, turns>>

-----------------------------------------------------------------------------
(* What the flags mean.                                                    *)

\* authenticator: one key source, readable; none is open mode.
AuthReadable == ~(args.hmac # "absent" /\ args.rsa # "absent")
                /\ "unreadable" \notin {args.hmac, args.rsa}
AuthEnabled == args.hmac # "absent" \/ args.rsa # "absent"

HasCa == args.clientCa # "absent"

\* The worker port is --worker-listen, else --listen, bumped by one when a
\* client CA calls for a second port and the address is IPv4.
ResolvedWorkerListen ==
    IF args.workerListen # {} THEN CHOOSE a \in args.workerListen : TRUE
    ELSE IF ~HasCa \/ args.listen.v6 THEN args.listen
    ELSE [args.listen EXCEPT !.port = IF @ = PortMax THEN @ ELSE @ + 1]

EffectiveSinglePort == args.singlePort \/ ResolvedWorkerListen = args.listen

ValidateAuthFlags ==
    /\ AuthReadable
    /\ AuthEnabled => ~args.singlePort /\ HasCa /\ ~EffectiveSinglePort

\* clap's requires and requires_all.
Parses ==
    /\ (args.cert = "absent") = (args.key = "absent")
    /\ HasCa => args.cert # "absent"
    /\ Cardinality({args.raftTls.cert, args.raftTls.key, args.raftTls.ca} \cap {"absent"}) = 0
       \/ {args.raftTls.cert, args.raftTls.key, args.raftTls.ca} = {"absent"}
    /\ {args.observeTls.cert, args.observeTls.key, args.observeTls.ca} = {"absent"}
       \/ "absent" \notin {args.observeTls.cert, args.observeTls.key, args.observeTls.ca}

\* raft_peers: well-formed, distinct, not ourselves, and only with --raft and
\* a listener the peers can reach.
RaftPeersValid ==
    /\ args.peers.wellFormed
    /\ args.nodeId \notin args.peers.ids /\ ~args.peers.repeated
    /\ args.peers.ids # {} => args.raft /\ args.raftListen

\* resolved_advertise_addr, {} when it refuses.
ResolvedAdvertiseAddr ==
    IF args.advertise # "absent"
    THEN IF args.advertise = "blank" THEN {} ELSE {args.advertise}
    ELSE IF args.raft /\ args.listen.ip = "wildcard" THEN {} ELSE {args.listen.ip}

RaftTlsEnabled == args.raftTls.cert # "absent"
ResolveRaftTls == RaftTlsEnabled => args.raft

Readable(tls) == "unreadable" \notin {tls.cert, tls.key, tls.ca}

\* tls_config and base_tls_config_opt.
ServerTlsReadable == "unreadable" \notin {args.cert, args.key, args.clientCa}
ClientCert(workerPort) ==
    IF ~HasCa THEN "none" ELSE IF workerPort THEN "required" ELSE "optional"

ObserveMtls == args.observeTls.cert # "absent"

ValidateObserveBind ==
    args.observeListen.ip = "loopback" \/ ObserveMtls \/ args.observeInsecure

\* A poll interval of n seconds against a deadline in milliseconds.
ValidateObserveTiming ==
    args.pollSecs > 0 /\ args.peerTimeoutMs < args.pollSecs * 1000

-----------------------------------------------------------------------------
(* main.                                                                   *)

Listener(name, addr, services, jwt, cert) ==
    [name |-> name, addr |-> addr, services |-> services, jwt |-> jwt, cert |-> cert]

ClientServices == {"CAS", "ActionCache", "Capabilities", "Execution"}

ClientListener ==
    Listener("client", args.listen,
             ClientServices \cup (IF EffectiveSinglePort THEN {"Worker"} ELSE {}),
             AuthEnabled, ClientCert(FALSE))
WorkerListener ==
    Listener("worker", ResolvedWorkerListen, {"Worker", "CAS"}, FALSE, ClientCert(TRUE))
ObserveListener ==
    Listener("observe", args.observeListen, {"Observability"}, FALSE,
             IF ObserveMtls THEN "required" ELSE "none")
PeerListener ==
    Listener("peer", [ip |-> "routable", v6 |-> FALSE, port |-> 0], {"Raft", "PeerObservability"}, FALSE,
             IF RaftTlsEnabled THEN "required" ELSE "none")

Free(addr) == \A l \in open : l.addr # addr

\* An error return of main, or the end of a listener it waits for: the runtime
\* is dropped with every task and socket.
ExitProcess == stage' = "exited" /\ open' = {} /\ spawned' = {}

Proceed(ok, next, listeners, tasks) ==
    IF ok THEN stage' = next /\ open' = open \cup listeners /\ spawned' = spawned \cup tasks
    ELSE ExitProcess

\* A store or a policy file may be in the way of any start.
Works(what) == what \notin args.broken

CheckFlags == stage = "parse" /\ Proceed(Parses /\ ValidateAuthFlags, "cas", {}, {})

OpenCas == stage = "cas" /\ Proceed(Works("cas"), "flags", {}, {})

CheckRaftFlags ==
    /\ stage = "flags"
    /\ Proceed(RaftPeersValid /\ ResolvedAdvertiseAddr # {} /\ ResolveRaftTls, "metadata", {}, {})

\* The metadata in redb, or in a Raft group whose driver and publisher start.
OpenMetadata ==
    /\ stage = "metadata"
    /\ IF ~args.raft THEN Proceed(Works("meta"), "policy", {}, {})
       ELSE Proceed(/\ Works("raft log")
                    /\ (args.peers.ids # {} \/ args.raftListen) => Readable(args.raftTls),
                    "policy", {}, {"driver", "publisher"})

LoadPolicy == stage = "policy" /\ Proceed(Works("policy"), "tls", {}, {})

StartReapers ==
    /\ stage = "tls"
    /\ Proceed(ServerTlsReadable /\ AuthReadable, "client", {}, {"eviction", "reaper"})

ServeClients == stage = "client" /\ Proceed(Free(args.listen), "observe", {ClientListener}, {})

BindObserve ==
    /\ stage = "observe"
    /\ Proceed(ValidateObserveBind /\ Free(args.observeListen) /\ Readable(args.observeTls),
               "peer", {}, {})

\* A peer port that cannot be bound is logged.
ServePeers ==
    /\ stage = "peer"
    /\ Proceed(TRUE, "poller",
               IF args.raft /\ args.raftListen /\ Works("peer port") THEN {PeerListener} ELSE {}, {})

StartPoller ==
    stage = "poller" /\ Proceed(ValidateObserveTiming, "worker", {ObserveListener}, {"poller"})

ServeWorkers ==
    /\ stage = "worker"
    /\ IF EffectiveSinglePort THEN Proceed(TRUE, "running", {}, {})
       ELSE Proceed(Free(ResolvedWorkerListen), "running", {WorkerListener}, {})

BootStep ==
    /\ \/ CheckFlags \/ OpenCas \/ CheckRaftFlags \/ OpenMetadata \/ LoadPolicy \/ StartReapers
       \/ ServeClients \/ BindObserve \/ ServePeers \/ StartPoller \/ ServeWorkers
    /\ lead' = (lead /\ "driver" \in spawned')
    /\ UNCHANGED <<args, record, turns>>

\* select! over the client, worker and observability listeners; the peer
\* listener and the Raft driver log their end and the process goes on.
TaskEnds ==
    /\ turns < MaxTurns /\ turns' = turns + 1
    /\ \/ \E l \in open : l.name # "peer" /\ stage = "running" /\ ExitProcess
       \/ \E l \in open : l.name = "peer" /\ open' = open \ {l} /\ UNCHANGED <<stage, spawned>>
       \/ "driver" \in spawned /\ spawned' = spawned \ {"driver"} /\ UNCHANGED <<stage, open>>
    /\ lead' = (lead /\ "driver" \in spawned')
    /\ UNCHANGED <<args, record>>

\* The Raft group elects this node, or deposes it; a deposed leader's record
\* may be truncated with the rest of its uncommitted log.
Elected ==
    /\ "driver" \in spawned /\ ~lead /\ turns < MaxTurns
    /\ lead' = TRUE /\ turns' = turns + 1
    /\ UNCHANGED <<args, stage, open, spawned, record>>

Deposed ==
    /\ lead /\ turns < MaxTurns
    /\ lead' = FALSE /\ turns' = turns + 1
    /\ record' \in {record, {}}
    /\ UNCHANGED <<args, stage, open, spawned>>

\* Mutant: the node publishes the first time it leads and not again.
PublishOnce ==
    /\ "publisher" \in spawned /\ lead /\ turns <= 1
    /\ record' = ResolvedAdvertiseAddr
    /\ UNCHANGED <<args, stage, open, spawned, lead, turns>>

\* One round of the publisher: is_leader, then publish_node_record, which
\* writes only when the applied record differs.
PublishNodeRecord ==
    /\ "publisher" \in spawned /\ lead
    /\ record' = IF record = ResolvedAdvertiseAddr THEN record ELSE ResolvedAdvertiseAddr
    /\ UNCHANGED <<args, stage, open, spawned, lead, turns>>

ControlInit ==
    /\ args \in Flags
    /\ stage = "parse" /\ open = {} /\ spawned = {}
    /\ lead = FALSE /\ turns = 0
    /\ record \in (IF args.raft THEN {{}, {"earlier"}} ELSE {{}})

ControlNext == BootStep \/ TaskEnds \/ Elected \/ Deposed \/ PublishNodeRecord

ControlSpec == ControlInit /\ [][ControlNext]_cnvars /\ WF_cnvars(PublishNodeRecord)

-----------------------------------------------------------------------------
(* Properties.                                                             *)

\* With client authentication on, WorkerService is only ever on a listener
\* without the JWT interceptor that requires a client certificate, and the
\* client services only behind the interceptor; the operator's service is on
\* loopback, behind mutual TLS or exposed on purpose; two listeners never
\* share an address; a running process has every listener its mode calls
\* for, with a poll deadline below its interval, and an exited one has none; the
\* address published is never a wildcard the node merely binds.
ListenersAreConsistent ==
    /\ AuthReadable /\ AuthEnabled => \A l \in open :
        /\ "Worker" \in l.services => ~l.jwt /\ l.cert = "required"
        /\ l.services \cap (ClientServices \ {"CAS"}) # {} => l.jwt
        /\ "CAS" \in l.services => l.jwt \/ l.cert = "required"
    /\ \A l \in open : "Observability" \in l.services =>
            l.addr.ip = "loopback" \/ l.cert = "required" \/ args.observeInsecure
    /\ \A l, m \in open : l.addr = m.addr => l = m
    /\ stage = "running" =>
        /\ {"client", "observe"} \subseteq {l.name : l \in open}
        /\ \E l \in open : "Worker" \in l.services
        /\ args.peerTimeoutMs < args.pollSecs * 1000
        /\ args.peers.ids # {} => args.raft /\ args.raftListen
    /\ stage = "exited" => open = {} /\ spawned = {}
    /\ record = {"wildcard"} => args.advertise = "wildcard"

\* The listeners are consistent at every moment, and a leader that stays
\* leader has its own current address in the replicated record, also after a
\* step-down truncated it or an earlier run left another one.
NodeIsReachable ==
    /\ []ListenersAreConsistent
    /\ (lead /\ "publisher" \in spawned)
        ~> (~lead \/ "publisher" \notin spawned \/ record = ResolvedAdvertiseAddr)
=============================================================================
