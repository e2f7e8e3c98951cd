---------------------------- MODULE SandboxPolicy ----------------------------
(***************************************************************************)
(* What a sandbox decides without running anything: which system calls the *)
(* two stacked seccomp filters let through, which capabilities are left,   *)
(* what is found where in the new root, what becomes of the environment,   *)
(* and which hosts the probes call functional.                             *)
(*                                                                         *)
(* src/crates/brokkr-sandbox/src: runner/seccomp.rs, runner/mount.rs,      *)
(* runner/determinism.rs, config.rs, checks/; default_rootfs of            *)
(* src/crates/brokkr-worker/src/runner.rs.                                 *)
(***************************************************************************)
EXTENDS Integers, FiniteSets, SequencesExt

-----------------------------------------------------------------------------
(* System calls: [name, arg].  A few names stand for each kind: those on   *)
(* the default list, those that only extra_allow can bring in, and those   *)
(* this architecture does not have.                                        *)

DEFAULT_ALLOW == {"read", "chdir", "execve", "prctl", "ioctl", "open_old"}
Syscalls == (DEFAULT_ALLOW \ {"open_old"}) \cup {"seccomp", "mount"}

Call(name, arg) == [name |-> name, arg |-> arg]

DENIED_PRCTL == {"PR_SET_KEEPCAPS", "PR_CAPBSET_DROP", "PR_SET_TSC", "PR_GET_TSC"}
DENIED_IOCTL == {"TIOCSTI", "TIOCSWINSZ"}

\* build_filter: a name of the default list that does not resolve is dropped,
\* one of extra_allow is an error, an empty one is skipped.
ExtraResolves(extra) == extra \ {""} \subseteq Syscalls
BaseFilter(extra) == (DEFAULT_ALLOW \cup extra) \cap Syscalls

\* build_deny_filter: EPERM for these arguments, whatever the list says.
DenyFilter(call) ==
    \/ call.name = "prctl" /\ call.arg \in DENIED_PRCTL
    \/ call.name = "ioctl" /\ call.arg \in DENIED_IOCTL

\* The kernel asks every installed filter and takes the strictest answer.
Allows(filters, extra, call) ==
    /\ "base" \in filters => call.name \in BaseFilter(extra)
    /\ "deny" \in filters => ~DenyFilter(call)

\* install applies the filters in this order; each needs the seccomp call.
InstallOrder == <<"deny", "base">>

InstallFails(extra) ==
    \/ ~ExtraResolves(extra)
    \/ \E i \in 1 .. 2 : ~Allows({InstallOrder[j] : j \in 1 .. i - 1}, extra, Call("seccomp", "-"))

-----------------------------------------------------------------------------
(* Capabilities: a set of names for each of the five sets of a process.    *)

Capabilities == {"SETPCAP", "SYS_ADMIN", "NET_ADMIN"}
FullCaps == [s \in {"bounding", "effective", "permitted", "inheritable", "ambient"} |->
               IF s \in {"bounding", "effective", "permitted"} THEN Capabilities ELSE {}]

\* parse_retained: every name must be one of the kernel's.
ParseRetained(names) == names \subseteq Capabilities

\* capset, for one set: the kernel refuses an effective set that is not within
\* the permitted one.  A refusal leaves the empty function behind.
Capset(caps, set, keep) ==
    LET new == [caps EXCEPT ![set] = @ \cap keep]
    IN  IF new.effective \subseteq new.permitted THEN new ELSE <<>>

\* The order in which drop_all_except narrows them, after the bounding set.
CapOrder == <<"effective", "permitted", "inheritable", "ambient">>

CapsAfter(keep) ==
    FoldLeft(LAMBDA caps, set : IF caps = <<>> THEN caps ELSE Capset(caps, set, keep),
             [FullCaps EXCEPT !.bounding = @ \cap keep], CapOrder)

-----------------------------------------------------------------------------
(* The root file system: what the program finds at each top-level path: a  *)
(* read-only bind, a tmpfs, a directory or a link into another one.        *)

EmptyRootfs == [ro_binds |-> <<>>, tmpfs |-> <<>>, symlinks |-> <<>>]

\* default_rootfs: a path of the host that is a link is not bound.
DefaultRootfs(h) ==
    [ro_binds |-> <<"usr">> \o SelectSeq(<<"lib64", "lib">>, LAMBDA p : p \in h.dirs),
     tmpfs |-> <<"etc", "tmp", "work">>, symlinks |-> <<"bin", "sbin", "lib", "lib64">>]

\* A mount covers what was there.
MountOver(root, path, what) == [p \in DOMAIN root \cup {path} |-> IF p = path THEN what ELSE root[p]]

\* Binds of what the host has, then the tmpfs mounts, /proc, and links where
\* nothing is yet.
SetupRootfs(spec, h) ==
    LET Bind(root, p) == IF p \in h.dirs \cup h.links THEN MountOver(root, p, "ro") ELSE root
        Tmpfs(root, p) == MountOver(root, p, "tmpfs")
        Unless(root, p, what) == IF p \in DOMAIN root THEN root ELSE MountOver(root, p, what)
        mounted == FoldLeft(Tmpfs, FoldLeft(Bind, <<>>, spec.ro_binds), spec.tmpfs)
    IN  FoldLeft(LAMBDA root, p : Unless(root, p, "link"), Unless(mounted, "proc", "dir"), spec.symlinks)

\* What a dynamically linked program needs; the links all lead into /usr.
Resolves(root, path) == path \in DOMAIN root /\ (root[path] = "link" => "usr" \in DOMAIN root)

-----------------------------------------------------------------------------
(* The environment: a sequence of pairs of a name and a value.             *)

FirstOf(env, key) == CHOOSE i \in DOMAIN env : /\ env[i][1] = key
                                               /\ \A j \in 1 .. i - 1 : env[j][1] # key
Has(env, key) == \E i \in DOMAIN env : env[i][1] = key

Upsert(env, key, val) ==
    IF Has(env, key) THEN [env EXCEPT ![FirstOf(env, key)] = <<key, val>>]
    ELSE Append(env, <<key, val>>)

ScrubEnv(env, policy) ==
    LET Keep(e) == /\ ~(policy.strip_ld /\ e[1] \in {"LD_PRELOAD", "LD_LIBRARY_PATH"})
                   /\ ~(policy.strip_path /\ e[1] = "PATH")
        kept == SelectSeq(env, Keep)
        path == IF policy.strip_path THEN Append(kept, <<"PATH", "default">>) ELSE kept
        tz == IF policy.utc THEN Upsert(path, "TZ", "UTC0") ELSE path
    IN  IF policy.epoch = {} THEN tz
        ELSE Upsert(tz, "SOURCE_DATE_EPOCH", CHOOSE e \in policy.epoch : TRUE)

\* build_env: '=' or NUL in a name, NUL in a value.
BadEnv(env) == \E i \in DOMAIN env : env[i][1] = "bad" \/ env[i][2] = "bad"

\* DeterminismPolicy::brokkr_defaults, and the one that changes nothing.
BrokkrDefaults == [hostname |-> TRUE, strip_ld |-> TRUE, strip_path |-> TRUE, utc |-> TRUE, epoch |-> {}]
NoDeterminism == [hostname |-> FALSE, strip_ld |-> FALSE, strip_path |-> FALSE, utc |-> FALSE, epoch |-> {}]

-----------------------------------------------------------------------------
(* The probes of a host: a record of what they read there.                 *)

CheckKernelVersion(h) ==
    IF h.kernel # <<>> /\ (h.kernel[1] > 5 \/ (h.kernel[1] = 5 /\ h.kernel[2] >= 10)) THEN "pass" ELSE "fail"
CheckUserNamespaces(h) == IF h.userns > 0 /\ h.gate \in {"1", "absent"} THEN "pass" ELSE "fail"
CheckCgroupV2(h) == IF h.cgroup2 THEN "pass" ELSE "fail"
CheckBrokkrSlice(h) == IF h.slice = "writable" THEN "pass" ELSE "fail"
CheckSubtreeControllers(h) == IF {"cpu", "memory", "pids", "io"} \subseteq h.controllers THEN "pass" ELSE "fail"
CheckSeccomp(h) == IF h.seccomp THEN "pass" ELSE "fail"
CheckMemoryPeak(h) == IF h.peak THEN "pass" ELSE "warn"
CheckSetgroups(h) == IF h.setgroups THEN "pass" ELSE "fail"
CheckFuseDevice(h) == CASE h.fuse = "absent" -> "fail" [] h.fuse = "denied" -> "warn" [] h.fuse = "rw" -> "pass"

RunChecks(h) ==
    << CheckKernelVersion(h), CheckUserNamespaces(h), CheckCgroupV2(h), CheckBrokkrSlice(h),
       CheckSubtreeControllers(h), CheckSeccomp(h), CheckMemoryPeak(h),
       CheckSetgroups(h), CheckFuseDevice(h) >>

IsFunctional(h) == "fail" \notin ToSet(RunChecks(h))
=============================================================================
