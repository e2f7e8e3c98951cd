---------------------------- MODULE WorkerSession ----------------------------
(***************************************************************************)
(* A worker from its command line on: the control planes it may attach to, *)
(* the rotation over them, one session after another with a heartbeat task *)
(* each, and the jobs of a session.                                        *)
(*                                                                         *)
(* src/crates/brokkr-worker/src: main.rs, endpoint.rs, worker.rs,          *)
(* runner.rs.  The registries and streams of the control planes are those  *)
(* of worker_service.rs and registry.rs in src/crates/brokkr-control/src.  *)
(***************************************************************************)
EXTENDS Integers, Sequences, FiniteSets

CONSTANTS CommandLines,    \* what the worker may be started with
          NoPort,          \* a URL whose port is not a number
          JobsOffered,     \* what a control plane may send
          OutputCap,       \* MAX_CAPTURED_OUTPUT_BYTES
          MaxFailures,    \* failed attempts in a row
          MaxSessions,     \* registrations
          MaxOutages,      \* changes of a control plane's health
          MaxLate          \* heartbeats that come too late

VARIABLES flags,       \* the command line
          planes,      \* WorkerConfig.control_planes, as worker URLs
          loop,        \* where run_worker and its session are
          attempt,     \* attempt of run_worker
          failed,      \* planes tried in vain since the last registration
          health,      \* of each plane: "up", "down", or "shut" to new streams
          registered,  \* each plane's WorkerRegistry
          tasks,       \* heartbeat tasks: pairs of plane and identity
          broken,      \* identities whose session ended with an error
          job,         \* the job being run, and the last report
          wused        \* sessions, outages and late heartbeats so far

wsvars == <<flags, planes, loop, attempt, failed, health, registered, tasks, broken, job, wused>>

NoJob == [doing |-> {}, report |-> [kind |-> "none"]]

-----------------------------------------------------------------------------
(* Start. *)

\* derive_default_worker_endpoint: the next port, if there is one.
Derivable(url) == url.port # NoPort /\ url.port + 1 < 65536
DeriveWorkerEndpoint(url) == [url EXCEPT !.port = @ + 1]

\* build_control_planes and worker_url.
WorkerUrl(f, i) ==
    IF f.worker_control # <<>> THEN f.worker_control[i]
    ELSE IF f.ca /\ Derivable(f.control[i]) THEN DeriveWorkerEndpoint(f.control[i])
    ELSE f.control[i]

BuildControlPlanes(f) == [i \in DOMAIN f.control |-> WorkerUrl(f, i)]

\* discover_runner_binary: next to the worker, or on its PATH.
DiscoverRunnerBinary(f) == f.runner \in {"adjacent", "path"}

\* No sandbox, or a host that passes the probes and a runner, named or found.
BuildRunner(f) == f.no_sandbox \/ (f.capable /\ (f.runner = "given" \/ DiscoverRunnerBinary(f)))

\* The checks with which run_worker begins.
PlanesAreUsable(f) ==
    /\ Len(f.control) > 0
    /\ \A i \in DOMAIN f.control : BuildControlPlanes(f)[i].tls => f.ca /\ f.cert

\* The errors of run_daemon, in its order.
Refuses(f) ==
    \/ (f.cert \/ f.key) /\ ~f.ca
    \/ ~BuildRunner(f)
    \/ Len(f.worker_control) \notin {0, Len(f.control)}
    \/ ~PlanesAreUsable(f)

Start ==
    /\ loop.at = "starting"
    /\ IF flags.check_host \/ Refuses(flags)
       THEN /\ loop' = [loop EXCEPT !.at = "exited"]
            /\ UNCHANGED <<planes, health, registered>>
       ELSE /\ loop' = [loop EXCEPT !.at = "rotating"]
            /\ planes' = BuildControlPlanes(flags)
            /\ health' = [p \in DOMAIN flags.control |-> "up"]
            /\ registered' = [p \in DOMAIN flags.control |-> {}]
    /\ UNCHANGED <<flags, attempt, failed, tasks, broken, job, wused>>

-----------------------------------------------------------------------------
(* Rotation. *)

BASE_BACKOFF == 250
MAX_BACKOFF == 30000
Least(a, b) == IF a < b THEN a ELSE b

\* Mutant: the wait begins one attempt early.
RotationPlanEager(len, n) ==
    IF len = 0 THEN [index |-> 0, wait |-> MAX_BACKOFF]
    ELSE [index |-> n % len, wait |-> IF n + 1 < len THEN 0 ELSE BASE_BACKOFF]

RotationPlan(len, n) ==
    LET cycles == n \div len
        backoff == Least(BASE_BACKOFF * 2 ^ (cycles - 1), MAX_BACKOFF)
        jitter == (n * 37) % 100
    IN  IF len = 0 THEN [index |-> 0, wait |-> MAX_BACKOFF]
        ELSE [index |-> n % len,
              wait |-> IF cycles = 0 THEN 0 ELSE Least(backoff + jitter, MAX_BACKOFF)]

Rotate ==
    LET next == RotationPlan(Len(planes), attempt)
    IN  /\ loop.at = "rotating"
        /\ loop' = [loop EXCEPT !.at = "dialing", !.plane = next.index + 1, !.waited = next.wait]
        /\ UNCHANGED <<flags, planes, attempt, failed, health, registered, tasks, broken, job, wused>>

\* Mutant: the counter starts over after every session.
NextAttemptStuck(ok) == 0

\* The counter starts over once a session has registered.
NextAttempt(ok) == IF ok THEN 0 ELSE attempt + 1

\* The end of a session, with (err) or without an error: the heartbeat task is
\* stopped on the way out without one.
EndSession(err) ==
    LET ok == loop.id # 0
    IN  /\ attempt < MaxFailures
        /\ attempt' = NextAttempt(ok)
        /\ failed' = IF ok THEN {} ELSE failed \cup {loop.plane}
        /\ tasks' = IF err THEN tasks ELSE tasks \ {<<loop.plane, loop.id>>}
        /\ broken' = IF err /\ ok THEN broken \cup {loop.id} ELSE broken
        /\ loop' = [loop EXCEPT !.at = "rotating", !.id = 0]
        /\ job' = NoJob

-----------------------------------------------------------------------------
(* One session. *)

\* build_channel: with TLS, both halves of an identity or none.
BuildChannel(p) == health[p] # "down" /\ (flags.ca => flags.cert = flags.key)

\* build_channel for the worker and the CAS client, and Register.
Attach ==
    LET p == loop.plane
        id == wused.sessions + 1
    IN  /\ loop.at = "dialing" /\ BuildChannel(p) /\ wused.sessions < MaxSessions
        /\ registered' = [registered EXCEPT ![p] = @ \cup {id}]
        /\ tasks' = tasks \cup {<<p, id>>}
        /\ loop' = [loop EXCEPT !.at = "registered", !.id = id]
        /\ wused' = [wused EXCEPT !.sessions = id]
        /\ failed' = {}
        /\ UNCHANGED <<flags, planes, attempt, health, broken, job>>

AttachFails ==
    /\ loop.at = "dialing" /\ ~BuildChannel(loop.plane)
    /\ EndSession(TRUE)
    /\ UNCHANGED <<flags, planes, health, registered, wused>>

\* Hello and Stream.
OpenStream ==
    /\ loop.at = "registered" /\ health[loop.plane] = "up"
    /\ loop' = [loop EXCEPT !.at = "serving"]
    /\ UNCHANGED <<flags, planes, attempt, failed, health, registered, tasks, broken, job, wused>>

OpenFails ==
    /\ loop.at = "registered" /\ health[loop.plane] # "up"
    /\ EndSession(TRUE)
    /\ UNCHANGED <<flags, planes, health, registered, wused>>

\* The node is gone or closes its streams: the worker waits for the next message and is told of an
\* error or of the end; or it finds out when it has a result to send.
StreamEnds(err) ==
    /\ loop.at = "serving" /\ health[loop.plane] # "up"
    /\ job.doing = {} \/ ~err
    /\ EndSession(err)
    /\ UNCHANGED <<flags, planes, health, registered, wused>>

Heartbeat(p, id) ==
    /\ <<p, id>> \in tasks /\ health[p] # "down"
    /\ id \notin registered[p]
    /\ tasks' = tasks \ {<<p, id>>}
    /\ UNCHANGED <<flags, planes, loop, attempt, failed, health, registered, broken, job, wused>>

\* evict_stale: an identity nobody beats for, or whose heartbeats are late.
Evict(p, id) ==
    /\ health[p] # "down" /\ id \in registered[p]
    /\ <<p, id>> \in tasks => wused.late < MaxLate
    /\ registered' = [registered EXCEPT ![p] = @ \ {id}]
    /\ wused' = [wused EXCEPT !.late = IF <<p, id>> \in tasks THEN @ + 1 ELSE @]
    /\ UNCHANGED <<flags, planes, loop, attempt, failed, health, tasks, broken, job>>

\* A node stops and forgets its workers, comes back, or serves no new streams.
HealthChanges(p, h) ==
    /\ wused.outages < MaxOutages /\ health[p] # h
    /\ health' = [health EXCEPT ![p] = h]
    /\ registered' = [registered EXCEPT ![p] = IF h = "down" THEN {} ELSE @]
    /\ wused' = [wused EXCEPT !.outages = @ + 1]
    /\ UNCHANGED <<flags, planes, loop, attempt, failed, tasks, broken, job>>

-----------------------------------------------------------------------------
(* Jobs: a record of a command (arguments, working_directory), of how its  *)
(* process ends (status, output) and of the upload.                        *)

\* resolve_workdir; a plain process is left in the worker's own directory.
WorkdirAllowed(wd) == wd \in {"empty", "relative"}

CanRun(j) ==
    /\ j.arguments # 0
    /\ ~flags.no_sandbox => WorkdirAllowed(j.workdir)

\* The exit code of run_plain, and the one run_sandboxed makes up.
ExitCode(s) ==
    CASE s.kind = "exited" -> s.code
      [] s.kind = "signaled" /\ flags.no_sandbox -> -1
      [] s.kind = "signaled" -> 128 + s.code
      [] s.kind = "oom" -> 137
      [] s.kind = "timeout" -> 124

\* read_capped: the rest is read and dropped.
ReadCapped(n) == Least(n, OutputCap)

ReceiveJob(j) ==
    /\ loop.at = "serving" /\ health[loop.plane] = "up"
    /\ job.doing = {} /\ job.report = NoJob.report
    /\ flags.no_sandbox => j.status.kind \in {"exited", "signaled"}
    /\ job' = [job EXCEPT !.doing = {j}]
    /\ UNCHANGED <<flags, planes, loop, attempt, failed, health, registered, tasks, broken, wused>>

\* handle_job and the report: an error on the way is the report.
ReportJob ==
    \E j \in job.doing :
        /\ health[loop.plane] # "down"
        /\ job' = [doing |-> {},
                   report |-> IF ~j.command \/ ~CanRun(j) \/ ~j.uploads THEN [kind |-> "error"]
                              ELSE [kind |-> "result", code |-> ExitCode(j.status),
                                    stdout |-> ReadCapped(j.output), of |-> j]]
        /\ UNCHANGED <<flags, planes, loop, attempt, failed, health, registered, tasks, broken, wused>>

-----------------------------------------------------------------------------
WorkerInit ==
    /\ flags \in CommandLines
    /\ planes = <<>> /\ health = <<>> /\ registered = <<>>
    /\ loop = [at |-> "starting", plane |-> 1, id |-> 0, waited |-> 0]
    /\ attempt = 0 /\ failed = {} /\ tasks = {} /\ broken = {} /\ job = NoJob
    /\ wused = [sessions |-> 0, outages |-> 0, late |-> 0]

\* What the worker does next in its loop.
LoopStep ==
    \/ Start \/ Rotate \/ Attach \/ AttachFails \/ OpenStream \/ OpenFails
    \/ \E err \in BOOLEAN : StreamEnds(err)

WorkerNext ==
    \/ LoopStep
    \/ \E p \in DOMAIN planes :
         \/ \E id \in 1 .. wused.sessions : Heartbeat(p, id) \/ Evict(p, id)
         \/ \E h \in {"up", "down", "shut"} : HealthChanges(p, h)
    \/ \E j \in JobsOffered : ReceiveJob(j)
    \/ ReportJob

WorkerSpec == WorkerInit /\ [][WorkerNext]_wsvars

-----------------------------------------------------------------------------
\* A worker that starts can present a certificate to every plane it may rotate
\* to.  It waits only after every plane has failed since it was last attached,
\* and never longer than the ceiling.  No identity is kept alive but that of
\* the session under way and those of sessions that ended in an error.  And a
\* result with exit code 0 is that of a process which exited with it, allowed
\* to run where it ran (run_daemon, run_worker, rotation_plan,
\* run_session_inner, handle_job).
SessionsAreSound ==
    /\ loop.at \notin {"starting", "exited"} =>
         planes # <<>> /\ \A i \in DOMAIN planes : planes[i].tls => flags.cert
    /\ loop.at = "dialing" =>
         /\ loop.waited <= MAX_BACKOFF
         /\ loop.waited > 0 => failed = DOMAIN planes
    /\ \A t \in tasks : t[2] = loop.id \/ t[2] \in broken
    /\ job.report.kind = "result" =>
         /\ job.report.code = 0 => job.report.of.status = [kind |-> "exited", code |-> 0]
         /\ ~flags.no_sandbox => job.report.of.workdir \notin {"absolute", "parent"}

\* Once the planes stay as they are and one of them is up, with none before it
\* that registers a worker and then refuses its stream, the worker is served
\* (run_worker: the rotation reaches every plane).  A worker with half of an
\* identity starts and attaches to none.
WorkerIsServed ==
    (/\ planes # <<>> /\ flags.cert = flags.key /\ wused.outages = MaxOutages
     /\ \E p \in DOMAIN planes : /\ health[p] = "up"
                                 /\ \A q \in 1 .. p : health[q] # "shut")
        ~> (\/ loop.at = "serving" /\ health[loop.plane] # "down"
            \/ attempt = MaxFailures \/ wused.sessions = MaxSessions)
=============================================================================
