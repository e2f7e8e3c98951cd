------------------------------ MODULE MCPlanes -------------------------------
(***************************************************************************)
(* The control plane around the scheduler, the client, and the worker, one *)
(* component at a time: `part` says which of them a behaviour is about,    *)
(* and the others rest in an initial state.                                *)
(***************************************************************************)
EXTENDS FairShare, Placement, PolicyHost, ClusterView, ControlNode, Client,
        WorkerSession, Sandbox, InputMount, TLC

CONSTANTS ta, tb, good, other, flaky, slow, bad

VARIABLE part

plvars == <<part, fvars, pvars, povars, vwvars, cnvars, clvars, wsvars, sbvars, mvars>>

-----------------------------------------------------------------------------
(* The queue and the policy host: two tenants, one of double weight.       *)

MCWeight == [t \in Tenant |-> IF t = ta THEN 2 ELSE 1]
MCJobs == {[action |-> 1, root |-> 0], [action |-> 2, root |-> 1]}
MCDefect == good :> "none" @@ other :> "none" @@ flaky :> "none" @@ slow :> "none" @@ bad :> "abi"
MCEndings == good :> {"chose"} @@ other :> {"declined"} @@ flaky :> {"chose", "trap", "bad_index"} @@ slow :> {"deadline", "fuel_exhausted"} @@ bad :> {"chose"}
-----------------------------------------------------------------------------
(* Command lines of a control-plane node.                                  *)

Addr(ip, port) == [ip |-> ip, v6 |-> FALSE, port |-> port]
NoTls == [cert |-> "absent", key |-> "absent", ca |-> "absent"]
FullTls == [cert |-> "ok", key |-> "ok", ca |-> "ok"]
BadTls == {[FullTls EXCEPT !.ca = "unreadable"], [FullTls EXCEPT !.key = "absent"]}
Alone == [wellFormed |-> TRUE, ids |-> {}, repeated |-> FALSE]
Plain == [listen |-> Addr("loopback", 1), workerListen |-> {}, singlePort |-> FALSE,
          hmac |-> "absent", rsa |-> "absent", cert |-> "absent", key |-> "absent", clientCa |-> "absent",
          raft |-> FALSE, nodeId |-> "a", peers |-> Alone, raftListen |-> FALSE, advertise |-> "absent",
          raftTls |-> NoTls, observeListen |-> Addr("loopback", 3), observeTls |-> NoTls,
          observeInsecure |-> FALSE, pollSecs |-> 2, peerTimeoutMs |-> 750, broken |-> {}]
Mtls == [Plain EXCEPT !.cert = "ok", !.key = "ok", !.clientCa = "ok", !.hmac = "ok"]
Member == [Plain EXCEPT !.raft = TRUE, !.raftListen = TRUE, !.peers.ids = {"b"}, !.advertise = "routable"]
MCFlags ==
    {Plain, Mtls, Member}
    \* authentication: key sources, ports and modes
    \cup {[Mtls EXCEPT !.hmac = h, !.rsa = r] : h, r \in {"absent", "ok", "unreadable"}}
    \cup {[Mtls EXCEPT !.listen = [ip |-> "loopback", v6 |-> v, port |-> p], !.workerListen = w, !.singlePort = s] :
            v \in BOOLEAN, p \in {1, PortMax}, w \in {{}, {Addr("loopback", 1)}, {Addr("loopback", 2)}, {Addr("loopback", 3)}}, s \in BOOLEAN}
    \cup {[Plain EXCEPT !.cert = c, !.key = k, !.clientCa = a, !.hmac = h] :
            c, k \in {"absent", "ok"}, a \in {"absent", "ok", "unreadable"}, h \in {"absent", "ok"}}
    \* Raft flags
    \cup {[Member EXCEPT !.raft = r, !.raftListen = l, !.raftTls = t] : r, l \in BOOLEAN, t \in {NoTls, FullTls} \cup BadTls}
    \cup {[Member EXCEPT !.peers = p] : p \in {[Alone EXCEPT !.ids = {"a"}], [Alone EXCEPT !.wellFormed = FALSE],
                                               [Alone EXCEPT !.ids = {"b"}, !.repeated = TRUE], Alone}}
    \cup {[Member EXCEPT !.advertise = a, !.listen.ip = i] : a \in {"absent", "blank", "wildcard"}, i \in {"wildcard", "loopback"}}
    \* the operator's listener
    \cup {[Plain EXCEPT !.observeListen = Addr(i, 3), !.observeTls = t, !.observeInsecure = x] :
            i \in {"loopback", "routable"}, t \in {NoTls, FullTls} \cup BadTls, x \in BOOLEAN}
    \cup {[Plain EXCEPT !.observeListen = Addr("loopback", 1)]}
    \cup {[Plain EXCEPT !.pollSecs = s, !.peerTimeoutMs = m] : s \in 0..1, m \in {0, 999, 1000}}
    \* what may be in the way
    \cup {[Member EXCEPT !.broken = {b}] : b \in {"cas", "raft log", "policy", "peer port"}}
    \cup {[Plain EXCEPT !.broken = {b}] : b \in {"cas", "meta", "policy"}}
-----------------------------------------------------------------------------
(* Sessions of a client.                                                   *)

Off == [enabled |-> FALSE, issuer |-> FALSE, audience |-> FALSE]
On == [enabled |-> TRUE, issuer |-> TRUE, audience |-> FALSE]
Token == [signed |-> TRUE, expired |-> FALSE, issuer |-> TRUE, audience |-> FALSE, claim |-> "acme", printable |-> TRUE]
Tokens == {Token, [Token EXCEPT !.expired = TRUE], [Token EXCEPT !.issuer = FALSE],
           [Token EXCEPT !.claim = "absent"], [Token EXCEPT !.claim = "malformed"], [Token EXCEPT !.printable = FALSE]}
U(s, n) == [valid |-> TRUE, scheme |-> s, node |-> n]
Opts == [control |-> <<U("http", 1), U("http", 2)>>, argv |-> TRUE, ca |-> "absent", cert |-> "absent", key |-> "absent",
         token |-> {}, tokenFile |-> "absent", fileToken |-> Token, given |-> {}]
Calm == [leader |-> 1, believes |-> [n \in Planes |-> 1], peers |-> [n \in Planes |-> {1}], up |-> Planes]
Stale == [leader |-> 3, believes |-> [n \in Planes |-> IF n = 1 THEN 2 ELSE IF n = 2 THEN 1 ELSE 3],
          peers |-> [n \in Planes |-> {1, 2}], up |-> Planes]
Server == [tls |-> FALSE, auth |-> Off, full |-> FALSE, cluster |-> Calm, blobs |-> {}]
Ask(command, o, s, old) == [command |-> command, options |-> o, server |-> s, old |-> old]
Secure == [Opts EXCEPT !.control = <<U("https", 2), U("https", 3)>>, !.ca = "ok"]
MCSessions ==
    {Ask("library", [Opts EXCEPT !.token = t], [Server EXCEPT !.auth = On], {}) : t \in {{}} \cup {{x} : x \in Tokens}}
    \cup {Ask("library", Opts, [Server EXCEPT !.cluster = Stale], {})}
    \cup {Ask("library", [Opts EXCEPT !.control = <<U("https", 2)>>, !.given = {[ca |-> "ok", cert |-> "ok", key |-> "ok"]}],
            [Server EXCEPT !.tls = TRUE, !.cluster = c], {}) : c \in {Calm, Stale}}
    \cup {Ask("run", [Opts EXCEPT !.token = t, !.tokenFile = f, !.argv = a], [Server EXCEPT !.auth = On], {}) :
            t \in {{}, {Token}}, f \in {"absent", "readable", "unreadable"}, a \in BOOLEAN}
    \cup {Ask("run", [Secure EXCEPT !.cert = c, !.key = k, !.ca = a], [Server EXCEPT !.tls = TRUE, !.full = TRUE], {}) :
            c, k \in {"absent", "ok", "unreadable"}, a \in {"absent", "ok"}}
    \cup {Ask("run", Opts, [Server EXCEPT !.blobs = b, !.full = TRUE], {}) : b \in {{}, {"input root"}, Candidates}}
    \cup {Ask("init", Opts, Server, o) : o \in SUBSET {"brokk.toml", ".brokkrignore", "brokkr.yml"}}
-----------------------------------------------------------------------------
(* Command lines of a worker, and the jobs it is offered.                  *)

Url(h, t, p) == [host |-> h, tls |-> t, port |-> p]
Cmd(c, w, ca, cert, plain, ok) ==
    [control |-> c, worker_control |-> w, ca |-> ca, cert |-> cert, key |-> cert, no_sandbox |-> plain, capable |-> ok,
     runner |-> "adjacent", check_host |-> FALSE]
Half == Cmd(<<Url(1, FALSE, 7878)>>, <<>>, TRUE, TRUE, FALSE, TRUE)
MCCommandLines ==
  { Cmd(<<Url(1, FALSE, 7878), Url(2, FALSE, 7878)>>, <<>>, FALSE, FALSE, TRUE, FALSE),
    Cmd(<<Url(1, TRUE, 7878), Url(2, TRUE, 65535)>>, <<>>, TRUE, TRUE, FALSE, TRUE),
    Cmd(<<Url(1, FALSE, 7878), Url(2, TRUE, NoPort)>>, <<>>, TRUE, FALSE, FALSE, TRUE),
    Cmd(<<Url(1, FALSE, 7878)>>, <<Url(1, FALSE, 1), Url(2, FALSE, 2)>>, TRUE, TRUE, FALSE, TRUE),
    [Half EXCEPT !.key = FALSE], [Half EXCEPT !.runner = "missing"], [Half EXCEPT !.capable = FALSE, !.runner = "given"],
    [Half EXCEPT !.ca = FALSE], [Half EXCEPT !.control = <<>>], [Half EXCEPT !.check_host = TRUE] }
J(wd, st, out, up) == [command |-> TRUE, arguments |-> 1, workdir |-> wd, status |-> st, output |-> out, uploads |-> up]
MCJobsOffered ==
  { J("empty", [kind |-> "exited", code |-> 0], 3, TRUE), J("parent", [kind |-> "exited", code |-> 0], 1, TRUE),
    J("relative", [kind |-> "signaled", code |-> 9], 1, TRUE), J("relative", [kind |-> "timeout"], 1, TRUE),
    J("empty", [kind |-> "exited", code |-> 0], 1, FALSE) }
-----------------------------------------------------------------------------
(* Sandboxed runs: one for each step that can fail, and the odd ones.      *)

GoodHost == [kernel |-> <<6, 1>>, userns |-> 100, gate |-> "absent", cgroup2 |-> TRUE, slice |-> "writable",
             controllers |-> {"cpu", "memory", "pids", "io"}, seccomp |-> TRUE, peak |-> FALSE,
             setgroups |-> TRUE, fuse |-> "denied", dirs |-> {"usr"}, links |-> {"lib", "lib64"}]
OldHost == [GoodHost EXCEPT !.dirs = {"usr", "lib"}, !.links = {"lib64"}]
NoEtc == [DefaultRootfs(GoodHost) EXCEPT !.tmpfs = <<"tmp", "work">>]
Heard(from, seq, errno) == [long |-> TRUE, from |-> from, type |-> "error", seq |-> seq, errno |-> errno]
BaseRun == [rootfs |-> DefaultRootfs(GoodHost), no_isolation |-> FALSE, argv |-> "ok", workdir |-> "work", extra |-> {}, retained |-> {},
            env |-> << <<"PATH", "mine">>, <<"TZ", "mine">>, <<"LD_PRELOAD", "mine">> >>, policy |-> BrokkrDefaults,
            network |-> "none", netlink |-> <<>>, cgroup |-> TRUE, memory |-> TRUE, wall |-> TRUE,
            on |-> GoodHost, mishap |-> "none", wellformed |-> TRUE]
Mishaps == {IsolatedSteps[i][2] : i \in DOMAIN IsolatedSteps} \cup {"start", "spawn", "cgroup", "write"}
MCRuns ==
    {[BaseRun EXCEPT !.mishap = m] : m \in Mishaps} \cup
    { BaseRun,
      [BaseRun EXCEPT !.cgroup = FALSE, !.memory = FALSE, !.extra = {"mount", "prctl", ""},
                      !.on.kernel = <<5, 4>>, !.on.fuse = "absent"],
      [BaseRun EXCEPT !.rootfs = DefaultRootfs(OldHost), !.on = OldHost, !.retained = {"NET_ADMIN"}, !.wall = FALSE, !.network = "loopback",
                      !.netlink = << Heard(7, 1, 0), Heard(0, 2, 0), [Heard(0, 1, 0) EXCEPT !.long = FALSE], Heard(0, 1, 0) >>],
      [BaseRun EXCEPT !.network = "loopback", !.netlink = << Heard(7, 1, 0), Heard(0, 1, 1) >>, !.wellformed = FALSE],
      [BaseRun EXCEPT !.rootfs = EmptyRootfs, !.no_isolation = TRUE, !.policy = NoDeterminism],
      [BaseRun EXCEPT !.rootfs = EmptyRootfs, !.no_isolation = TRUE, !.cgroup = FALSE, !.memory = FALSE],
      [BaseRun EXCEPT !.rootfs = EmptyRootfs, !.wellformed = FALSE],
      [BaseRun EXCEPT !.argv = "empty", !.wellformed = FALSE], [BaseRun EXCEPT !.argv = "nul", !.wellformed = FALSE],
      [BaseRun EXCEPT !.workdir = "missing", !.wellformed = FALSE], [BaseRun EXCEPT !.retained = {"bogus"}, !.wellformed = FALSE],
      [BaseRun EXCEPT !.extra = {"bogus"}, !.wellformed = FALSE], [BaseRun EXCEPT !.env = << <<"bad", "x">> >>, !.wellformed = FALSE],
      [BaseRun EXCEPT !.rootfs = NoEtc, !.wellformed = FALSE], [BaseRun EXCEPT !.rootfs.ro_binds = <<"opt">>, !.wellformed = FALSE],
      [BaseRun EXCEPT !.on.userns = 0], [BaseRun EXCEPT !.on.gate = "0"], [BaseRun EXCEPT !.on.seccomp = FALSE],
      [BaseRun EXCEPT !.on.setgroups = FALSE], [BaseRun EXCEPT !.on.controllers = {"cpu"}], [BaseRun EXCEPT !.on.slice = "missing"],
      [BaseRun EXCEPT !.on.cgroup2 = FALSE] }
-----------------------------------------------------------------------------
(* Input trees to mount, and the spans read from their files.              *)

FileNode(n, h, size) == [name |-> n, hash |-> h, size |-> size, exec |-> h = 1]
DirNode(n, h) == [name |-> n, hash |-> h]
Folder(fs, ls, ds) == [files |-> fs, links |-> ls, dirs |-> ds]
Twice == Folder(<<FileNode("a", 1, 2), FileNode("b", 1, 2)>>, <<>>, <<DirNode("d", 2)>>)
Blobs(d2) == [root |-> 1, dirs |-> (1 :> Twice @@ 2 :> d2), blobs |-> (1 :> 2 @@ 2 :> 3)]
InStore ==
    { Blobs(Folder(<<FileNode("a", 1, 2)>>, <<[name |-> "b", target |-> "t"]>>, <<>>)),
      Blobs(Folder(<<FileNode("a", 2, 2)>>, <<>>, <<DirNode("b", 3)>>)),
      Blobs(Folder(<<FileNode("a", 2, 2)>>, <<[name |-> "a", target |-> "t"]>>, <<>>)),
      Blobs(Folder(<<FileNode("..", 2, 2)>>, <<>>, <<>>)),
      [root |-> 1, blobs |-> (1 :> 2 @@ 2 :> 3),
       dirs |-> (1 :> Folder(<<>>, <<>>, <<DirNode("a", 2), DirNode("b", 2)>>) @@
                 2 :> Folder(<<FileNode("a", 2, 3), FileNode("b", 3, 1), FileNode("d", 1, 1)>>, <<>>, <<>>))] }
Asking(store, ops) == [asks |-> ops] @@ store
MCTrees == {Asking(store, ops) : store \in InStore,
                ops \in {{"read"}, {"readdir"}, {"lookup", "getattr", "readlink", "opendir", "open"}}}
Span(o, n) == [offset |-> o, size |-> n]
MCSpans == {Span(0, 1), Span(1, 4), Span(5, 1)}
-----------------------------------------------------------------------------
(* One component moves, the others rest.                                   *)

OrFirst(p, set) == IF part = p THEN set ELSE {CHOOSE x \in set : TRUE}

Init ==
    /\ part \in {"queue", "placement", "policy", "view", "node", "client", "worker", "sandbox", "mount"}
    /\ file \in OrFirst("policy", Files) /\ args \in OrFirst("node", Flags)
    /\ ask \in OrFirst("client", Sessions) /\ flags \in OrFirst("worker", CommandLines)
    /\ conf \in OrFirst("sandbox", Runs) /\ mtree \in OrFirst("mount", Trees)
    /\ record \in (IF part = "node" THEN {{}, {"earlier"}} ELSE {{}})
    /\ FairInit /\ PlacementInit /\ HostInit /\ ViewInit /\ ControlInit
    /\ ClientInit /\ WorkerInit /\ SandboxInit /\ MountInit

QueueMoves ==
    UNCHANGED <<part, pvars, povars, vwvars, cnvars, clvars, wsvars, sbvars, mvars>>
PlacementMoves ==
    UNCHANGED <<part, fvars, povars, vwvars, cnvars, clvars, wsvars, sbvars, mvars>>
PolicyMoves ==
    UNCHANGED <<part, fvars, pvars, vwvars, cnvars, clvars, wsvars, sbvars, mvars>>
ViewMoves ==
    UNCHANGED <<part, fvars, pvars, povars, cnvars, clvars, wsvars, sbvars, mvars>>
NodeMoves ==
    UNCHANGED <<part, fvars, pvars, povars, vwvars, clvars, wsvars, sbvars, mvars>>
ClientMoves ==
    UNCHANGED <<part, fvars, pvars, povars, vwvars, cnvars, wsvars, sbvars, mvars>>
WorkerMoves ==
    UNCHANGED <<part, fvars, pvars, povars, vwvars, cnvars, clvars, sbvars, mvars>>
SandboxMoves ==
    UNCHANGED <<part, fvars, pvars, povars, vwvars, cnvars, clvars, wsvars, mvars>>
MountMoves ==
    UNCHANGED <<part, fvars, pvars, povars, vwvars, cnvars, clvars, wsvars, sbvars>>

Next ==
    \/ part = "queue" /\ FairNext /\ QueueMoves
    \/ part = "placement" /\ PlacementNext /\ PlacementMoves
    \/ part = "policy" /\ HostNext /\ PolicyMoves
    \/ part = "view" /\ ViewNext /\ ViewMoves
    \/ part = "node" /\ ControlNext /\ NodeMoves
    \/ part = "client" /\ ClientNext /\ ClientMoves
    \/ part = "worker" /\ WorkerNext /\ WorkerMoves
    \/ part = "sandbox" /\ SandboxNext /\ SandboxMoves
    \/ part = "mount" /\ MountNext /\ MountMoves

\* The reloader's interval ticks, the worker's loop is polled, the host and the
\* runner processes run, the kernel delivers the signals it accepted, and the
\* publisher's loop comes round.
PlanesSpec ==
    /\ Init /\ [][Next]_plvars
    /\ WF_plvars(part = "policy" /\ (\E o \in Answers \cup GuestFailures : ReloadTick(o)) /\ PolicyMoves)
    /\ WF_plvars(part = "worker" /\ LoopStep /\ WorkerMoves)
    /\ WF_plvars(part = "sandbox" /\ HostStep /\ SandboxMoves)
    /\ WF_plvars(part = "sandbox" /\ RunnerStep /\ SandboxMoves)
    /\ WF_plvars(part = "sandbox" /\ KernelStep /\ SandboxMoves)
    /\ WF_plvars(part = "node" /\ PublishNodeRecord /\ NodeMoves)

\* The mount by itself, for longer.
MountRunSpec == Init /\ part = "mount" /\ [][Next]_plvars
=============================================================================
