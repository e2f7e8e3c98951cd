------------------------------- MODULE Sandbox -------------------------------
(***************************************************************************)
(* One action in the sandbox: the host side that spawns a runner, puts it  *)
(* in a cgroup, sends it its configuration and waits for it; the runner    *)
(* that isolates itself, forks an init and the action; the program; and    *)
(* the kernel's part in how processes die.                                 *)
(*                                                                         *)
(* src/crates/brokkr-sandbox/src: host/, runner/, config.rs, outcome.rs.   *)
(* A process that is sent SIGKILL takes no further step and dies some time *)
(* later; the death of a PID namespace's init is that of everyone in it.   *)
(***************************************************************************)
EXTENDS SandboxPolicy

CONSTANTS Runs     \* what may be run: a SandboxConfig, the host, one mishap

VARIABLES conf,     \* the run
          side,     \* the host side: where it is and what it returned
          alive,    \* processes
          doomed,   \* of these, the ones sent SIGKILL
          exits,    \* each process's wait status
          step,     \* setup steps done, plus one
          fd3,      \* the configuration pipe
          leaf,     \* the action's cgroup
          inleaf,   \* processes ever attached to it, by hand or by birth
          escaped,  \* processes that left the runner's process group
          oomed,    \* memory.events: oom_kill > 0
          prog      \* the program: its root, capabilities and environment, the last
                    \* call granted, and whether its child has closed its output

sbvars == <<conf, side, alive, doomed, exits, step, fd3, leaf, inleaf, escaped, oomed, prog>>

Exited(n) == [kind |-> "exited", n |-> n]
Signaled(n) == [kind |-> "signaled", n |-> n]
Pending == [kind |-> "pending"]

-----------------------------------------------------------------------------
(* The runner's steps, each by the process that takes it. *)

\* RootfsSpec::is_empty.
Isolated == conf.rootfs # EmptyRootfs

EmptyRootfsWithoutOptIn == ~Isolated /\ ~conf.no_isolation

\* chdir_and_exec on the host's file system.
PlainSteps == << <<"runner", "chdir">>, <<"runner", "argv">>, <<"runner", "env">>, <<"runner", "exec">> >>

\* runner_main, run_init_then_exec and chdir_and_exec.
IsolatedSteps ==
    << <<"runner", "namespaces">>, <<"runner", "root">>, <<"runner", "network">>, <<"runner", "hostname">>,
       <<"runner", "fork">>, <<"init", "proc">>, <<"init", "fork">>,
       <<"action", "chdir">>, <<"action", "caps">>, <<"action", "tsc">>, <<"action", "seccomp">>,
       <<"action", "argv">>, <<"action", "env">>, <<"action", "exec">> >>

Steps == IF Isolated THEN IsolatedSteps ELSE PlainSteps
Running == step > Len(Steps)
Program == IF Isolated THEN "action" ELSE "runner"

\* The filters in force when a step is taken.
Filters ==
    IF \E i \in DOMAIN Steps : i < step /\ Steps[i][2] = "seccomp" THEN {"deny", "base"} ELSE {}

\* bring_loopback_up: messages that are short, from another process or about
\* another request are passed over; an errno of 0 is the ack, silence an error.
LinkUp(messages) ==
    LET heard == SelectSeq(messages, LAMBDA m : m.long /\ m.from = 0 /\ m.type = "error" /\ m.seq = 1)
    IN  heard # <<>> /\ Head(heard).errno = 0

\* setup_namespaces: the user namespace and the maps, for which setgroups must
\* be denied first.
SetupNamespaces == CheckUserNamespaces(conf.on) = "pass" /\ conf.on.setgroups

ApplyPolicy == conf.network = "loopback" => LinkUp(conf.netlink)

\* apply_pre_fork writes /etc/localtime.
ApplyPreFork == conf.policy.utc => "etc" \in DOMAIN prog.root /\ prog.root["etc"] # "ro"

\* A working directory is one of the root's, or absent in it.
Chdir == Isolated => conf.workdir \in DOMAIN prog.root

\* The bounding set is dropped with prctl.
DropAllExcept ==
    /\ ParseRetained(conf.retained) /\ CapsAfter(conf.retained) # <<>>
    /\ Allows(Filters, conf.extra, Call("prctl", "PR_CAPBSET_DROP"))

DisableTsc == Allows(Filters, conf.extra, Call("prctl", "PR_SET_TSC"))

Install == conf.on.seccomp /\ ~InstallFails(conf.extra)

BuildArgv == conf.argv # "nul"

BuildEnv == ~BadEnv(ScrubEnv(conf.env, conf.policy))

\* execvpe, under the filters: the program and its loader are found.
Execvpe ==
    /\ Allows(Filters, conf.extra, Call("execve", "-"))
    /\ Isolated => \A p \in {"bin", "lib", "lib64"} : Resolves(prog.root, p)

\* die: a step that fails ends its process.
StepFails(name) ==
    \/ conf.mishap = name
    \/ ~ CASE name = "namespaces" -> SetupNamespaces
           [] name = "network" -> ApplyPolicy
           [] name = "hostname" -> ApplyPreFork
           [] name = "chdir" -> Chdir
           [] name = "caps" -> DropAllExcept
           [] name = "tsc" -> DisableTsc
           [] name = "seccomp" -> Install
           [] name = "argv" -> BuildArgv
           [] name = "env" -> BuildEnv
           [] name = "exec" -> Execvpe
           [] OTHER -> TRUE

-----------------------------------------------------------------------------
(* Processes. *)

Gone(p) == IF p = "init" THEN {"init", "action", "child"} ELSE {p}

Exit(p, status) ==
    /\ alive' = alive \ Gone(p)
    /\ doomed' = doomed \ Gone(p)
    /\ exits' = [exits EXCEPT ![p] = status]

Able(p) == p \in alive \ doomed

\* fork: the child is in its parent's cgroup and process group.
Born(p, parent) ==
    /\ alive' = alive \cup {p}
    /\ inleaf' = IF parent \in inleaf THEN inleaf \cup {p} ELSE inleaf

Die(p) ==
    /\ p \in doomed
    /\ Exit(p, Signaled(9))
    /\ UNCHANGED <<conf, side, step, fd3, leaf, inleaf, escaped, oomed, prog>>

OomKill(p) ==
    /\ Running /\ conf.memory /\ p \in inleaf /\ Able(p) /\ p \in {Program, "child"} /\ ~oomed
    /\ doomed' = doomed \cup {p} /\ oomed' = TRUE
    /\ UNCHANGED <<conf, side, alive, exits, step, fd3, leaf, inleaf, escaped, prog>>

-----------------------------------------------------------------------------
(* The runner. *)

\* It may fail before it gets to main.
RunnerCrashes ==
    /\ Able("runner") /\ step = 0 /\ conf.mishap = "start"
    /\ Exit("runner", Exited(127))
    /\ UNCHANGED <<conf, side, step, fd3, leaf, inleaf, escaped, oomed, prog>>

\* read_config returns at the end of the pipe.
ReadConfig ==
    /\ Able("runner") /\ step = 0 /\ fd3 \in {"sent", "cut"}
    /\ IF fd3 = "cut" \/ EmptyRootfsWithoutOptIn
       THEN Exit("runner", Exited(127)) /\ step' = step
       ELSE step' = 1 /\ UNCHANGED <<alive, doomed, exits>>
    /\ UNCHANGED <<conf, side, fd3, leaf, inleaf, escaped, oomed, prog>>

SetUp ==
    LET doer == Steps[step][1]
        name == Steps[step][2]
    IN  /\ step \in DOMAIN Steps /\ Able(doer)
        /\ IF StepFails(name)
           THEN Exit(doer, Exited(127)) /\ UNCHANGED <<step, inleaf, prog>>
           ELSE /\ step' = step + 1
                /\ IF name = "fork" THEN Born(Steps[step + 1][1], doer) ELSE UNCHANGED <<alive, inleaf>>
                /\ prog' = CASE name = "root" -> [prog EXCEPT !.root = SetupRootfs(conf.rootfs, conf.on)]
                             [] name = "caps" -> [prog EXCEPT !.caps = CapsAfter(conf.retained)]
                             [] name = "exec" -> [prog EXCEPT !.env = ScrubEnv(conf.env, conf.policy)]
                             [] OTHER -> prog
                /\ UNCHANGED <<doomed, exits>>
        /\ UNCHANGED <<conf, side, fd3, leaf, escaped, oomed>>

\* reap_until and exit_with, in the init: a signal it sends itself is ignored.
InitReaps ==
    /\ Able("init") /\ exits["action"] # Pending
    /\ Exit("init", IF exits["action"].kind = "signaled" THEN Exited(128 + exits["action"].n)
                    ELSE exits["action"])
    /\ UNCHANGED <<conf, side, step, fd3, leaf, inleaf, escaped, oomed, prog>>

\* waitpid and exit_with, in the runner.
RunnerReaps ==
    /\ Able("runner") /\ exits["init"] # Pending
    /\ Exit("runner", exits["init"])
    /\ UNCHANGED <<conf, side, step, fd3, leaf, inleaf, escaped, oomed, prog>>

-----------------------------------------------------------------------------
(* The program. *)

Forks ==
    /\ Running /\ Able(Program) /\ "child" \notin alive /\ exits["child"] = Pending
    /\ Born("child", Program)
    /\ UNCHANGED <<conf, side, doomed, exits, step, fd3, leaf, escaped, oomed, prog>>

\* setsid in the child, which may close its output too.
Escapes(quiet) ==
    /\ Running /\ Able("child") /\ "child" \notin escaped
    /\ escaped' = escaped \cup {"child"}
    /\ prog' = [prog EXCEPT !.quiet = quiet]
    /\ UNCHANGED <<conf, side, alive, doomed, exits, step, fd3, leaf, inleaf, oomed>>

Calls(call) ==
    /\ Running /\ Able(Program) /\ Allows(Filters, conf.extra, call)
    /\ prog' = [prog EXCEPT !.granted = {call}]
    /\ UNCHANGED <<conf, side, alive, doomed, exits, step, fd3, leaf, inleaf, escaped, oomed>>

Ends(p, status) ==
    /\ Running /\ Able(p) /\ p \in {Program, "child"}
    /\ Exit(p, status)
    /\ UNCHANGED <<conf, side, step, fd3, leaf, inleaf, escaped, oomed, prog>>

-----------------------------------------------------------------------------
(* The host side: run_action. *)

At(place) == side' = [side EXCEPT !.at = place]

Group == alive \ escaped

\* run_action returns and drops its locals: the Cgroup, whose rmdir fails while
\* anyone is in it, then the KillpgOnDrop.
Return(result) ==
    /\ side' = [side EXCEPT !.at = "returned", !.result = result]
    /\ leaf' = IF leaf # "made" THEN leaf ELSE IF inleaf \cap alive = {} THEN "removed" ELSE "left"
    /\ doomed' = doomed \cup Group

Failure(why) == [kind |-> "error", why |-> why]

Spawn ==
    /\ side.at = "called"
    /\ IF conf.argv = "empty" \/ conf.mishap = "spawn"
       THEN Return(Failure("setup")) /\ UNCHANGED alive
       ELSE At("spawned") /\ alive' = {"runner"} /\ UNCHANGED <<leaf, doomed>>
    /\ UNCHANGED <<conf, exits, step, fd3, inleaf, escaped, oomed, prog>>

\* Cgroup::create, which undoes its mkdir when a limit cannot be written.
LeafFails ==
    \/ conf.mishap = "cgroup" \/ conf.on.slice # "writable" \/ ~conf.on.cgroup2
    \/ conf.memory /\ "memory" \notin conf.on.controllers

MakeLeaf ==
    /\ side.at = "spawned"
    /\ IF ~conf.cgroup THEN At("attached") /\ UNCHANGED <<leaf, inleaf, doomed>>
       ELSE IF LeafFails THEN Return(Failure("cgroup")) /\ UNCHANGED inleaf
       ELSE /\ At("attached") /\ leaf' = "made"
            /\ inleaf' = inleaf \cup (alive \cap {"runner"})
            /\ UNCHANGED doomed
    /\ UNCHANGED <<conf, alive, exits, step, fd3, escaped, oomed, prog>>

\* EPIPE is tolerated.
WriteConfig ==
    /\ side.at = "attached"
    /\ IF conf.mishap = "write"
       THEN Return(Failure("setup")) /\ fd3' = "cut"
       ELSE /\ side' = [side EXCEPT !.at = "waiting", !.epipe = "runner" \notin alive]
            /\ fd3' = "sent" /\ UNCHANGED <<leaf, doomed>>
    /\ UNCHANGED <<conf, alive, exits, step, inleaf, escaped, oomed, prog>>

Wait ==
    /\ side.at \in {"waiting", "reaping"} /\ exits["runner"] # Pending
    /\ side' = [side EXCEPT !.at = "draining", !.timeout = (side.at = "reaping")]
    /\ UNCHANGED <<conf, alive, doomed, exits, step, fd3, leaf, inleaf, escaped, oomed, prog>>

\* Mutant: only the runner is killed.
KilledRunnerOnly(killed) == {"runner"} \cap alive

\* Cgroup::kill_all, if it works, and killpg.
Killed(killed) == IF killed THEN Group \cup (inleaf \cap alive) ELSE Group

Elapse(killed) ==
    /\ side.at = "waiting" /\ conf.wall /\ At("reaping")
    /\ killed => leaf = "made"
    /\ doomed' = doomed \cup Killed(killed)
    /\ UNCHANGED <<conf, alive, exits, step, fd3, leaf, inleaf, escaped, oomed, prog>>

\* "runner did not exit after timeout SIGKILL".
GiveUp ==
    /\ side.at = "reaping" /\ "runner" \in alive
    /\ Return(Failure("stuck"))
    /\ UNCHANGED <<conf, alive, exits, step, fd3, inleaf, escaped, oomed, prog>>

ClassifyExit(timeout, oom, status) ==
    IF timeout THEN [kind |-> "timeout"] ELSE IF oom THEN [kind |-> "oom"] ELSE status

\* The output pumps end when nobody holds the pipes any more.
Drained == alive \subseteq (IF prog.quiet THEN {"child"} ELSE {})

WasOomKilled == oomed /\ leaf = "made"

Finish ==
    /\ side.at = "draining" /\ Drained
    /\ Return(IF side.epipe /\ exits["runner"] # Exited(0) THEN Failure("crashed")
              ELSE [kind |-> "outcome", status |-> ClassifyExit(side.timeout, WasOomKilled, exits["runner"])])
    /\ UNCHANGED <<conf, alive, exits, step, fd3, inleaf, escaped, oomed, prog>>

-----------------------------------------------------------------------------
SandboxInit ==
    /\ conf \in Runs
    /\ side = [at |-> "called", timeout |-> FALSE, epipe |-> FALSE, result |-> [kind |-> "none"]]
    /\ alive = {} /\ doomed = {} /\ inleaf = {} /\ escaped = {} /\ oomed = FALSE
    /\ exits = [p \in {"runner", "init", "action", "child"} |-> Pending]
    /\ step = 0 /\ fd3 = "open" /\ leaf = "none"
    /\ prog = [root |-> <<>>, caps |-> FullCaps, env |-> <<>>, granted |-> {}, quiet |-> FALSE]

HostStep ==
    \/ Spawn \/ MakeLeaf \/ WriteConfig \/ Wait \/ GiveUp \/ Finish
    \/ \E killed \in BOOLEAN : Elapse(killed)
RunnerStep == ReadConfig \/ SetUp \/ InitReaps \/ RunnerReaps
KernelStep == \E p \in DOMAIN exits : Die(p)

SandboxNext ==
    \/ HostStep \/ RunnerStep \/ KernelStep \/ RunnerCrashes \/ Forks
    \/ \E quiet \in BOOLEAN : Escapes(quiet)
    \/ \E p \in DOMAIN exits : OomKill(p) \/ \E s \in {Exited(0), Exited(3), Signaled(11)} : Ends(p, s)
    \/ \E call \in {Call("read", "-"), Call("mount", "-"), Call("prctl", "PR_SET_TSC")} : Calls(call)

SandboxSpec == SandboxInit /\ [][SandboxNext]_sbvars

-----------------------------------------------------------------------------
\* The program runs only as configured: with no isolation only when that was
\* asked for, otherwise in a directory of its own and with no capability but the
\* retained ones, in its cgroup from its first instruction on whenever there is
\* one, never with a denied call granted nor with what the policy strips from
\* the environment.  When run has returned, nothing that ran in the sandbox is left
\* that has not been sent its SIGKILL (without isolation a process that left the
\* group may be), and an isolated run's outcome leaves no cgroup behind.  An outcome tells the
\* truth: success is that of a program that ran, exited 0 and was not short of
\* memory; a timeout that of a run with a deadline.  On a host the probes call
\* functional a well-formed configuration reaches its program (run_action,
\* runner_main, chdir_and_exec, KillpgOnDrop, Cgroup, checks).
RunIsContained ==
    /\ Running =>
         /\ ~Isolated => conf.no_isolation
         /\ conf.cgroup => alive \cap {Program, "child"} \subseteq inleaf
         /\ \A call \in prog.granted : Isolated =>
              call.name \in DEFAULT_ALLOW \cup conf.extra /\ call.arg \notin DENIED_PRCTL \cup DENIED_IOCTL
         /\ Isolated => /\ prog.root[conf.workdir] = "tmpfs"
                        /\ \A set \in DOMAIN prog.caps : prog.caps[set] \subseteq conf.retained
         /\ conf.policy.strip_path =>
              \A i \in DOMAIN prog.env : prog.env[i][1] = "PATH" => prog.env[i][2] = "default"
         /\ conf.policy.strip_ld => ~Has(prog.env, "LD_PRELOAD")
         /\ conf.policy.utc => prog.env[FirstOf(prog.env, "TZ")][2] = "UTC0"
    /\ side.at = "returned" =>
         \A p \in alive \ doomed : IF Isolated THEN "init" \in doomed ELSE p \in escaped
    /\ side.result.kind = "outcome" =>
         /\ Isolated => /\ alive = {} /\ leaf # "left"
                        /\ oomed => side.result.status.kind \in {"oom", "timeout"}
         /\ side.result.status = Exited(0) => exits[Program] = Exited(0)
         /\ side.result.status.kind = "timeout" => conf.wall
    /\ conf.mishap = "none" /\ conf.wellformed /\ IsFunctional(conf.on) =>
         /\ side.result.kind = "error" => side.result.why = "stuck"
         /\ \A p \in DOMAIN exits : exits[p] # Exited(127)

\* An isolated run with a deadline returns, whatever its program does: it may
\* never exit and may leave behind children that leave the process group, and the
\* host still does not wait for ever for the runner or for the end of its output
\* (run_action: the deadline, killpg and the namespace's end).
RunReturns == (conf.wall /\ Isolated /\ side.at # "called") ~> side.at = "returned"

\* A run is contained at every moment, and ends (run_action).
RunEndsContained == []RunIsContained /\ RunReturns
=============================================================================
