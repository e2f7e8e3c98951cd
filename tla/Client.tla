------------------------------- MODULE Client -------------------------------
(***************************************************************************)
(* The `brokk` command and the SDK it is built on (brokkr-cli/src/main.rs, *)
(* brokkr-sdk/src/{client,redirect}.rs), against the part of a control     *)
(* plane they can see: authentication (brokkr-control/src/auth.rs), the    *)
(* action-cache service with its leader hints (services/action_cache.rs),  *)
(* and an Execute stream.  One step is one RPC or one dial; elections,     *)
(* crashes, address records that replicate late and blob collection happen *)
(* between any two of them.                                                *)
(***************************************************************************)
EXTENDS Integers, Sequences, FiniteSets

CONSTANTS
    Planes,         \* the control-plane nodes
    Sessions,       \* what a user may ask: records, see the MC module
    MAX_LEADER_HOPS,
    MaxFaults,     \* bound: elections, crashes, recoveries and collections
    MaxCalls        \* bound: SDK calls made on one connection

ASSUME ClientAssumption == MAX_LEADER_HOPS \in Nat /\ MaxFaults \in Nat /\ MaxCalls \in Nat

VARIABLES
    ask,        \* the session: command-line options, server setup, old files
    cli,        \* the client: where it is, its connection and credentials
    cluster,    \* leader, who each node believes leads, addresses, live nodes
    remote,     \* what the cluster holds: cached result, blobs, executions
    files,      \* the project directory `brokk init` scaffolds
    hist        \* what was followed and answered, for the properties

clvars == <<ask, cli, cluster, remote, files, hist>>

Nobody == 0

-----------------------------------------------------------------------------
(* Tokens and their validation.  A token is good or not under the          *)
(* configured key, issuer and audience, and may carry a tenant claim.      *)

\* jsonwebtoken::decode under the validator's rules: the signature and the
\* expiry always count, issuer and audience only when configured.
Valid(auth, token) ==
    /\ token.signed /\ ~token.expired
    /\ auth.issuer => token.issuer
    /\ auth.audience => token.audience

\* A tenant the server answers with, or the reason it does not.
Authenticated(auth, bearer) ==
    IF ~auth.enabled THEN [ok |-> TRUE, tenant |-> "header"]
    ELSE IF bearer = {} THEN [ok |-> FALSE, tenant |-> "MissingToken"]
    ELSE LET token == CHOOSE t \in bearer : TRUE IN
        IF ~Valid(auth, token) THEN [ok |-> FALSE, tenant |-> "InvalidToken"]
        ELSE IF token.claim = "absent" THEN [ok |-> FALSE, tenant |-> "MissingTenantClaim"]
        ELSE IF token.claim = "malformed" THEN [ok |-> FALSE, tenant |-> "InvalidTenant"]
        ELSE [ok |-> TRUE, tenant |-> token.claim]

\* The interceptors of both ends: an illegal header value never leaves the
\* client, a request the server cannot authenticate never reaches a handler.
Admit(auth, bearer) ==
    IF \E t \in bearer : ~t.printable THEN [ok |-> FALSE, tenant |-> "INVALID_ARGUMENT"]
    ELSE Authenticated(auth, bearer)

-----------------------------------------------------------------------------
(* Connecting.                                                             *)

\* connect_tls refuses half an identity and files it cannot read.
TlsUsable(tls) ==
    /\ (tls.cert = "absent") = (tls.key = "absent")
    /\ "unreadable" \notin {tls.ca, tls.cert, tls.key}

\* connect, connect_with_tls, connect_with_bearer, connect_with_tls_and_bearer:
\* tls and bearer are {} or {x}.  Plaintext and TLS ends do not understand
\* each other, and an https URL needs a TLS configuration.
Connects(url, tls) ==
    /\ url.valid
    /\ \A t \in tls : TlsUsable(t)
    /\ url.node \in cluster.up
    /\ (url.scheme = "https") => tls # {}
    /\ (url.scheme = "https") = ask.server.tls

\* The client of a session before it has connected to anything.
Fresh(o) == [at |-> "started", url |-> [valid |-> FALSE, scheme |-> "", node |-> Nobody],
             tls |-> {}, bearer |-> {}, todo |-> o.control, hops |-> 0,
             call |-> "none", missing |-> {}, calls |-> 0, exit |-> "none"]

Fail(why) == cli' = [cli EXCEPT !.at = "failed", !.exit = why]

\* What clap and run_subcmd refuse before any connection is made.
UsageError(o) ==
    \/ ~o.argv
    \/ (o.cert = "absent") # (o.key = "absent")
    \/ o.cert # "absent" /\ o.ca = "absent"
    \/ o.token # {} /\ o.tokenFile # "absent"

\* run_subcmd: --bearer-token, else the trimmed contents of the token file.
BearerOf(o) == IF o.token # {} THEN o.token
               ELSE IF o.tokenFile = "readable" THEN {o.fileToken} ELSE {}

RunSubcmd ==
    /\ cli.at = "started" /\ ask.command = "run"
    /\ IF UsageError(ask.options) THEN Fail("usage")
       ELSE IF ask.options.tokenFile = "unreadable" THEN Fail("token file")
       ELSE cli' = [cli EXCEPT
                !.at = "connecting",
                !.tls = IF ask.options.ca = "absent" THEN {}
                        ELSE {[ca |-> ask.options.ca, cert |-> ask.options.cert,
                               key |-> ask.options.key]},
                !.bearer = BearerOf(ask.options)]
    /\ UNCHANGED <<ask, cluster, remote, files, hist>>

\* connect_first and connect_any: the endpoints in order, the last error when
\* none answers.
ConnectFirst ==
    /\ cli.at = "connecting"
    /\ IF cli.todo = <<>> THEN Fail("no endpoint answered")
       ELSE IF Connects(Head(cli.todo), cli.tls)
       THEN cli' = [cli EXCEPT !.at = "connected", !.url = Head(cli.todo), !.todo = <<>>]
       ELSE cli' = [cli EXCEPT !.todo = Tail(cli.todo)]
    /\ UNCHANGED <<ask, cluster, remote, files, hist>>

-----------------------------------------------------------------------------
(* Action-cache calls and the leader redirects they follow.                *)

\* A status, with the two hints a follower may attach.
Status(code, leader, addr) == [code |-> code, leader |-> leader, addr |-> addr]

\* cas_status: a follower names the leader it believes in, and the address if
\* that leader's record has reached it.
Refusal(n) ==
    LET l == cluster.believes[n] IN
    Status("FAILED_PRECONDITION", l, IF l \in cluster.peers[n] THEN {l} ELSE {})

\* Mutant: the last hop is checked one redirect too late.
ClassifyLate(status, hops) ==
    IF \/ status.code # "FAILED_PRECONDITION"
       \/ status.leader = Nobody /\ status.addr = {} THEN "None"
    ELSE IF hops > MAX_LEADER_HOPS THEN "Exhausted"
    ELSE IF status.addr # {} THEN "Follow" ELSE "Unroutable"

Classify(status, hops) ==
    IF \/ status.code # "FAILED_PRECONDITION"
       \/ status.leader = Nobody /\ status.addr = {} THEN "None"
    ELSE IF hops >= MAX_LEADER_HOPS THEN "Exhausted"
    ELSE IF status.addr # {} THEN "Follow" ELSE "Unroutable"

\* The server advertises host:port; the scheme is the one already in use.
HintToUrl(addr, current) == [current EXCEPT !.node = addr]

Returned(result) ==
    /\ cli' = [cli EXCEPT !.at = "connected", !.call = "none", !.calls = cli.calls + 1]
    /\ hist' = [hist EXCEPT !.answers = hist.answers \cup {[call |-> cli.call, result |-> result,
                    held |-> remote.cached, calm |-> hist.calm]}]

\* follow_redirect, and the assignment to *self that keeps the new connection.
FollowRedirect(status) ==
    LET move == Classify(status, cli.hops)
        to == HintToUrl(CHOOSE a \in status.addr : TRUE, cli.url) IN
    CASE move = "Follow" /\ Connects(to, cli.tls) ->
            /\ cli' = [cli EXCEPT !.url = to, !.hops = cli.hops + 1]
            /\ hist' = [hist EXCEPT !.followed = hist.followed + 1]
      [] move = "Follow" /\ ~Connects(to, cli.tls) -> Returned("UNAVAILABLE")
      [] move = "Exhausted" -> Returned("EXHAUSTED")
      [] OTHER -> Returned(status.code)

Begin(call) ==
    /\ cli.at = "connected" /\ cli.call = "none" /\ cli.calls < MaxCalls
    /\ ask.command = "library"
    /\ cli' = [cli EXCEPT !.at = "calling", !.call = call, !.hops = 0]
    /\ hist' = [hist EXCEPT !.followed = 0,
                            !.calm = /\ cluster.leader # Nobody /\ cluster.up = Planes
                                     /\ \A n \in Planes : /\ cluster.believes[n] = cluster.leader
                                                          /\ cluster.leader \in cluster.peers[n]]
    /\ UNCHANGED <<ask, cluster, remote, files>>

\* One attempt of get_action_result or update_action_result at the node the
\* client is connected to.
Attempt ==
    /\ cli.at = "calling"
    /\ LET n == cli.url.node
           admitted == Admit(ask.server.auth, cli.bearer) IN
       IF n \notin cluster.up
       THEN Returned("UNAVAILABLE") /\ UNCHANGED remote
       ELSE IF ~admitted.ok
       THEN Returned(admitted.tenant) /\ UNCHANGED remote
       ELSE IF n # cluster.leader
       THEN FollowRedirect(Refusal(n)) /\ UNCHANGED remote
       ELSE IF cli.call = "update"
       THEN Returned("OK") /\ remote' = [remote EXCEPT !.cached = "ours"]
       ELSE Returned(IF remote.cached = "none" THEN "miss" ELSE remote.cached) /\ UNCHANGED remote
    /\ UNCHANGED <<ask, cluster, files>>

-----------------------------------------------------------------------------
(* run_command.                                                            *)

\* The three blobs of a command with an empty input root.
Candidates == {"action", "command", "input root"}

\* find_missing_blobs.
FindMissing ==
    /\ cli.at = "connected" /\ ask.command = "run"
    /\ IF cli.url.node \notin cluster.up THEN Fail("UNAVAILABLE")
       ELSE IF ~Admit(ask.server.auth, cli.bearer).ok
       THEN Fail(Admit(ask.server.auth, cli.bearer).tenant)
       ELSE cli' = [cli EXCEPT !.at = "uploading", !.missing = Candidates \ remote.blobs]
    /\ UNCHANGED <<ask, cluster, remote, files, hist>>

\* batch_update_blobs of what is missing, skipped when nothing is; a per-blob
\* failure is an error even though the call succeeded.
Upload ==
    /\ cli.at = "uploading"
    /\ IF cli.missing = {} THEN cli' = [cli EXCEPT !.at = "executing"] /\ UNCHANGED remote
       ELSE IF cli.url.node \notin cluster.up THEN Fail("UNAVAILABLE") /\ UNCHANGED remote
       ELSE \E refused \in {{}} \cup (IF ask.server.full THEN {{b} : b \in cli.missing} ELSE {}) :
            /\ remote' = [remote EXCEPT !.blobs = @ \cup (cli.missing \ refused)]
            /\ IF refused # {} THEN Fail("CAS rejected blob")
               ELSE cli' = [cli EXCEPT !.at = "executing"]
    /\ UNCHANGED <<ask, cluster, files, hist>>

\* The execute RPC: admitted under a tenant, refused when a blob is gone.
Execute ==
    /\ cli.at = "executing"
    /\ IF cli.url.node \notin cluster.up THEN Fail("UNAVAILABLE") /\ UNCHANGED <<remote, hist>>
       ELSE /\ hist' = [hist EXCEPT !.lacked = Candidates \ remote.blobs]
            /\ IF Candidates \subseteq remote.blobs
               THEN /\ cli' = [cli EXCEPT !.at = "streaming"]
                    /\ remote' = [remote EXCEPT !.tenant = Admit(ask.server.auth, cli.bearer).tenant]
               ELSE Fail("blob not found") /\ UNCHANGED remote
    /\ UNCHANGED <<ask, cluster, files>>

\* The stream: operations that are not done are skipped; a done one ends it
\* with a checked response, an operation error or nothing at all.
Stream ==
    /\ cli.at = "streaming"
    /\ IF cli.url.node \notin cluster.up THEN Fail("UNAVAILABLE") /\ UNCHANGED hist
       ELSE \/ UNCHANGED <<cli, hist>>                                     \* not done
            \/ \E code \in {"zero", "one"} :                               \* status OK, a result
                /\ cli' = [cli EXCEPT !.at = "done", !.exit = code]
                /\ hist' = [hist EXCEPT !.ran = code]
            \/ \E why \in {"status", "no result", "operation error", "empty", "closed"} :
                Fail(why) /\ UNCHANGED hist
    /\ UNCHANGED <<ask, cluster, remote, files>>

-----------------------------------------------------------------------------
(* brokk init.                                                             *)

Scaffold == <<"brokk.toml", ".brokkrignore", "brokkr.yml">>

\* scaffold_file for each of the three in turn; the first that exists stops a
\* run without --force, and what was created before it stays.
InitProject ==
    /\ cli.at = "started" /\ ask.command = "init" /\ cli.calls < MaxCalls
    /\ \E force \in BOOLEAN :
        LET stops == {i \in 1..3 : files[Scaffold[i]] # "absent" /\ ~force}
            upto == IF stops = {} THEN 3 ELSE (CHOOSE i \in stops : \A j \in stops : i <= j) - 1 IN
        /\ files' = [f \in DOMAIN files |-> IF \E i \in 1..upto : Scaffold[i] = f
                                            THEN "ours" ELSE files[f]]
        /\ cli' = [cli EXCEPT !.calls = @ + 1]
        /\ hist' = [hist EXCEPT !.forced = @ \/ force]
    /\ UNCHANGED <<ask, cluster, remote>>

-----------------------------------------------------------------------------
(* The cluster around the client.                                          *)

Change(c) ==
    /\ cli.at \notin {"started", "failed", "done"} /\ hist.changes < MaxFaults
    /\ cluster' = c
    /\ hist' = [hist EXCEPT !.changes = @ + 1, !.calm = FALSE]
    /\ UNCHANGED <<ask, cli, files>>

\* An election: the winner knows itself and publishes its address, the others
\* hear of it, and of its record, later.
ElectPlane(n) ==
    /\ n \in cluster.up /\ n # cluster.leader
    /\ Change([cluster EXCEPT !.leader = n, !.believes[n] = n, !.peers[n] = @ \cup {n}])
    /\ UNCHANGED remote

Hear(n) ==
    /\ n \in cluster.up /\ cluster.believes[n] # cluster.leader
    /\ Change([cluster EXCEPT !.believes[n] = cluster.leader])
    /\ UNCHANGED remote

Learn(n) ==
    /\ cluster.leader # Nobody /\ cluster.leader \notin cluster.peers[n]
    /\ Change([cluster EXCEPT !.peers[n] = @ \cup {cluster.leader}])
    /\ UNCHANGED remote

Down(n) ==
    /\ n \in cluster.up
    /\ Change([cluster EXCEPT !.up = @ \ {n}, !.leader = IF n = @ THEN Nobody ELSE @])
    /\ UNCHANGED remote

Up(n) ==
    /\ n \notin cluster.up
    /\ Change([cluster EXCEPT !.up = @ \cup {n}, !.believes[n] = Nobody])
    /\ UNCHANGED remote

\* A blob the precheck found may be swept before Execute.
Sweep(b) ==
    /\ b \in remote.blobs /\ cli.at \in {"uploading", "executing"}
    /\ Change(cluster)
    /\ remote' = [remote EXCEPT !.blobs = @ \ {b}]

ClusterStep ==
    \/ \E n \in Planes : ElectPlane(n) \/ Hear(n) \/ Learn(n) \/ Down(n) \/ Up(n)
    \/ \E b \in Candidates : Sweep(b)

ClientInit ==
    /\ ask \in Sessions
    /\ cli = [Fresh(ask.options) EXCEPT
                !.at = IF ask.command = "library" THEN "connecting" ELSE "started",
                !.tls = IF ask.command = "library" THEN ask.options.given ELSE {},
                !.bearer = IF ask.command = "library" THEN ask.options.token ELSE {}]
    /\ cluster = ask.server.cluster
    /\ remote = [cached |-> "none", blobs |-> ask.server.blobs, tenant |-> "none"]
    /\ files = [f \in {Scaffold[i] : i \in 1..3} |-> IF f \in ask.old THEN "user" ELSE "absent"]
    /\ hist = [followed |-> 0, calm |-> FALSE, answers |-> {}, changes |-> 0,
               lacked |-> {}, ran |-> "none", forced |-> FALSE]

ClientStep ==
    \/ RunSubcmd \/ ConnectFirst \/ Attempt \/ InitProject
    \/ \E call \in {"get", "update"} : Begin(call)
    \/ FindMissing \/ Upload \/ Execute \/ Stream

ClientNext == ClientStep \/ ClusterStep

ClientSpec == ClientInit /\ [][ClientNext]_clvars

-----------------------------------------------------------------------------
(* Properties.                                                             *)

\* The tenant an execution may be charged to.
Rightful == IF ask.server.auth.enabled THEN {t.claim : t \in cli.bearer} ELSE {"header"}

\* What a user of the SDK and of brokk relies on.  A call follows at most
\* MAX_LEADER_HOPS redirects even when two followers name each other, and never
\* leaves the scheme it started with; a call made while every node agrees on a live, published leader is
\* answered by it; an update reported as done is held, and a result read is
\* one that was written.  brokk executes only once its three blobs are
\* stored, unless the cluster itself dropped one in between, is charged to
\* the tenant of its token and exits with the code the action exited with;
\* brokk init never overwrites a file without --force.
ClientIsSound ==
    /\ hist.followed <= MAX_LEADER_HOPS
    /\ cli.url.valid => cli.url.scheme = ask.options.control[1].scheme
    /\ \A a \in hist.answers :
        /\ (a.call = "update" /\ a.result = "OK") => remote.cached = "ours"
        /\ a.result = "ours" => a.held = "ours"
        /\ (a.calm /\ Admit(ask.server.auth, cli.bearer).ok) => a.result \in {"OK", "ours", "miss"}
    /\ (hist.lacked # {}) => hist.changes > 0
    /\ remote.tenant # "none" => remote.tenant \in Rightful
    /\ cli.at = "done" => cli.exit = hist.ran /\ remote.tenant # "none"
    /\ hist.forced \/ \A f \in ask.old : files[f] = "user"
=============================================================================
