----------------------------- MODULE PolicyHost ------------------------------
(***************************************************************************)
(* Loading, running, quarantining and hot-reloading a scheduling policy.   *)
(*                                                                         *)
(* src/crates/brokkr-policy/src: engine.rs, error.rs; wasm_strategy.rs,    *)
(* policy_reload.rs, views/policy.rs and the load at start of main.rs in   *)
(* src/crates/brokkr-control/src.                                          *)
(*                                                                         *)
(* A decision holds the engine's read lock and a load its write lock, so   *)
(* each is one step.  What a guest computes is left open: a call of it has *)
(* one of the outcomes that Endings gives its file.                        *)
(***************************************************************************)
EXTENDS Integers

CONSTANTS Files,
          Unreadable,    \* the file cannot be read
          Defect,        \* what keeps a file from being a policy, or "none"
          Endings,       \* how a call of the guest may end
          Threshold,     \* quarantine_threshold
          MaxEdits, MaxDecisions

Answers == {"chose", "declined"}
GuestFailures == {"trap", "fuel_exhausted", "deadline", "bad_index", "instantiate", "memory"}
REASONS == GuestFailures \cup {"not_loaded", "quarantined"}
Defects == {"none", "compile", "imports", "exports", "abi"}

ASSUME PolicyAssumption ==
    /\ Unreadable \notin Files
    /\ Defect \in [Files -> Defects]
    /\ Endings \in [Files -> SUBSET (Answers \cup GuestFailures) \ {{}}]
    /\ Threshold \in Nat /\ MaxEdits \in Nat /\ MaxDecisions \in Nat

VARIABLES file,        \* the policy file
          module,      \* PolicyEngine.module, a set of at most one
          failures,    \* PolicyEngine.consecutive_failures
          seen,        \* the digest the reloader compares with, likewise
          phase,       \* "starting", "loaded", "running", "exited"
          counts,      \* PolicyFailureCounts, and the answers of the guest
          edits, decisions,
          raced,       \* the file was edited between the load and the seed
          streak       \* calls that failed since the last load or answer

povars == <<file, module, failures, seen, phase, counts, edits, decisions, raced, streak>>

HostInit ==
    /\ file \in Files
    /\ module = {} /\ failures = 0 /\ seen = {} /\ phase = "starting"
    /\ counts = [r \in REASONS \cup Answers |-> 0]
    /\ edits = 0 /\ decisions = 0 /\ raced = FALSE /\ streak = 0

Edit(f) ==
    /\ edits < MaxEdits /\ f # file
    /\ file' = f
    /\ edits' = edits + 1
    /\ raced' = (raced \/ phase = "loaded")
    /\ UNCHANGED <<module, failures, seen, phase, counts, decisions, streak>>

\* load compiles the bytes, checks what the module imports and exports and the
\* version of its ABI, and calls it once on a made-up snapshot.
Compiles(f) == Defect[f] # "compile"
CheckExportsAndAbi(f) == Defect[f] \notin {"imports", "exports", "abi"}
SmokeTest(smoke) == smoke \in Answers
Validates(f, smoke) == Compiles(f) /\ CheckExportsAndAbi(f) /\ SmokeTest(smoke)

\* Mutant: the failures of the last module are held against the next one.
LoadKeepingFailures(f, smoke) ==
    IF Validates(f, smoke) THEN module' = {f} /\ streak' = 0 /\ UNCHANGED failures
    ELSE UNCHANGED <<module, failures, streak>>

\* load: the module is swapped once it has passed every check.
Load(f, smoke) ==
    IF Validates(f, smoke) THEN module' = {f} /\ streak' = 0 /\ failures' = 0
    ELSE UNCHANGED <<module, failures, streak>>

\* build_policy_strategy: a policy that does not load ends the start.
LoadAtStart(smoke) ==
    /\ phase = "starting"
    /\ IF file = Unreadable
       THEN phase' = "exited" /\ UNCHANGED <<module, failures, streak>>
       ELSE /\ smoke \in Endings[file]
            /\ Load(file, smoke)
            /\ phase' = IF Validates(file, smoke) THEN "loaded" ELSE "exited"
    /\ UNCHANGED <<file, seen, counts, edits, decisions, raced>>

\* spawn_policy_reloader reads the file again for its seed.
SeedReloader ==
    /\ phase = "loaded"
    /\ seen' = {file} \ {Unreadable}
    /\ phase' = "running"
    /\ UNCHANGED <<file, module, failures, counts, edits, decisions, raced, streak>>

ShouldReload == file # Unreadable /\ seen # {file}

\* The digest that a tick records, before it tries the load.
DigestOf == {file}

\* One tick of the reloader: a file that does not validate is not tried again.
ReloadTick(smoke) ==
    /\ phase = "running" /\ ShouldReload
    /\ smoke \in Endings[file]
    /\ seen' = DigestOf
    /\ Load(file, smoke)
    /\ UNCHANGED <<file, phase, counts, edits, decisions, raced>>

\* Mutant: the call after the last one that may fail is still made.
IsQuarantinedLate == failures > Threshold

IsQuarantined == failures >= Threshold

\* What decide answers: a guest is called only if it is loaded and trusted.
Decision(outcome) ==
    CASE module = {} -> "not_loaded"
      [] module # {} /\ IsQuarantined -> "quarantined"
      [] OTHER -> outcome

CountsTowardQuarantine(reason) == reason \in GuestFailures

\* The counter of consecutive failures after a decision.
Settle(n, reason) ==
    IF reason \in Answers THEN 0 ELSE IF CountsTowardQuarantine(reason) THEN n + 1 ELSE n

\* PolicyFailureCounts::record, and the counters of the answers beside it.
RecordReason(by, reason) == [by EXCEPT ![reason] = @ + 1]

\* choose_with: a failure falls back to the built-in choice, and every
\* placement ends under one of the counters.
Decide(outcome) ==
    LET reason == Decision(outcome)
    IN  /\ phase = "running" /\ decisions < MaxDecisions
        /\ \A f \in module : outcome \in Endings[f]
        /\ decisions' = decisions + 1
        /\ counts' = RecordReason(counts, reason)
        /\ failures' = Settle(failures, reason)
        /\ streak' = IF reason \in Answers THEN 0
                     ELSE IF reason \in GuestFailures THEN streak + 1 ELSE streak
        /\ UNCHANGED <<file, module, seen, phase, edits, raced>>

HostNext ==
    \/ \E f \in Files \cup {Unreadable} : Edit(f)
    \/ SeedReloader
    \/ \E o \in Answers \cup GuestFailures : LoadAtStart(o) \/ ReloadTick(o) \/ Decide(o)

HostSpec == HostInit /\ [][HostNext]_povars

\* The policy as an operator sees it.
PolicyView ==
    [loaded |-> TRUE, quarantined |-> counts["quarantined"] > 0,
     decided |-> counts["chose"], declined |-> counts["declined"],
     failures_by_reason |-> [r \in REASONS |-> counts[r]]]

\* PolicyFailureCounts::total.
Total(by) ==
    by["trap"] + by["fuel_exhausted"] + by["deadline"] + by["bad_index"]
      + by["instantiate"] + by["memory"] + by["not_loaded"] + by["quarantined"]

-----------------------------------------------------------------------------
\* A guest that keeps failing is called at most threshold times until it is
\* replaced, and one that has been quarantined stays so until then; the module
\* that serves always is one that has passed every check; and each placement
\* is reported once, as an answer or under its reason (decide, load,
\* policy_view).
QuarantineHolds ==
    /\ streak <= Threshold
    /\ phase = "running" => \E f \in module : Defect[f] = "none" /\ Endings[f] \cap Answers # {}
    /\ PolicyView.decided + PolicyView.declined + Total(PolicyView.failures_by_reason) = decisions

\* An edit that is sure to validate is in force in the end, with a clean
\* record, whatever unreadable or broken versions came before it; unless it
\* fell between the load at start and the seed (spawn_policy_reloader).
EditsTakeEffect ==
    (/\ phase = "running" /\ ~raced /\ edits = MaxEdits /\ file # Unreadable
     /\ Defect[file] = "none" /\ Endings[file] \subseteq Answers)
        ~> (module = {file} /\ failures = 0)
=============================================================================
