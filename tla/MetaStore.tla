------------------------------ MODULE MetaStore ------------------------------
(***************************************************************************)
(* RedbMetaKv, the ordered store of the control plane's metadata, and the  *)
(* action cache over it (src/crates/brokkr-control/src/metakv.rs).         *)
(*                                                                         *)
(* Keys are sequences of small numbers: the namespace of action results is *)
(* the prefix AcPrefix, and a key of that namespace is well-formed when    *)
(* one more symbol, not BadSymbol, follows.                                *)
(***************************************************************************)
EXTENDS Integers, FiniteSets, SequencesExt

CONSTANTS Keys, AcPrefix, BadSymbol,
          MaxConcurrent,    \* permits
          MaxTasks          \* operations of a behaviour

ASSUME MetaAssumption == MaxConcurrent \in Nat /\ MaxTasks \in Nat

VARIABLES table,      \* META_KV: pairs of key and value
          tasks,      \* blocking tasks that run
          waiting,    \* callers that still wait for a task
          started

mvars == <<table, tasks, waiting, started>>

Values == {"result", "garbled"}
PutTask(k, v) == [do |-> "put", key |-> k, value |-> v]
DeleteTask(k) == [do |-> "delete", key |-> k, value |-> "none"]
TaskKinds == {PutTask(k, v) : k \in Keys, v \in Values} \cup {DeleteTask(k) : k \in Keys}

MetaInit == table = {} /\ tasks = {} /\ waiting = {} /\ started = 0

\* Mutant: the permit belongs to the caller and goes with it.
PermitOfCaller(t) == t.id \in waiting

\* run_blocking moves the permit into the task.
KeepsPermit(t) == t \in tasks

RunBlocking(o) ==
    /\ started < MaxTasks
    /\ Cardinality({t \in tasks : KeepsPermit(t)}) < MaxConcurrent
    /\ started' = started + 1
    /\ tasks' = tasks \cup {[id |-> started, op |-> o]}
    /\ waiting' = waiting \cup {started}
    /\ UNCHANGED table

\* The calling future is dropped.
CallerGone(i) ==
    /\ i \in waiting
    /\ waiting' = waiting \ {i}
    /\ UNCHANGED <<table, tasks, started>>

Commit(t) ==
    /\ table' = {e \in table : e[1] # t.op.key}
                  \cup (IF t.op.do = "put" THEN {<<t.op.key, t.op.value>>} ELSE {})
    /\ tasks' = tasks \ {t}
    /\ waiting' = waiting \ {t.id}
    /\ UNCHANGED started

MetaNext ==
    \/ \E o \in TaskKinds : RunBlocking(o)
    \/ \E i \in waiting : CallerGone(i)
    \/ \E t \in tasks : Commit(t)

MetaSpec == MetaInit /\ [][MetaNext]_mvars

-----------------------------------------------------------------------------
\* The order of redb keys, bytewise.
Before(a, b) ==
    \E i \in 1 .. Len(b) :
        /\ \A j \in 1 .. (i - 1) : j <= Len(a) /\ a[j] = b[j]
        /\ i > Len(a) \/ a[i] < b[i]

Ordered(t) == SetToSortSeq({e[1] : e \in t}, Before)

\* Mutant: the walk starts at the first key of the table.
ScanFromStart(prefix) ==
    FoldLeft(LAMBDA r, k : IF r.past \/ ~IsPrefix(prefix, k)
                           THEN [r EXCEPT !.past = TRUE] ELSE [r EXCEPT !.out = Append(@, k)],
             [past |-> FALSE, out |-> <<>>], Ordered(table)).out

\* scan_prefix: from the prefix on, until a key does not start with it.
ScanPrefix(prefix) ==
    FoldLeft(LAMBDA r, k : IF r.past \/ ~IsPrefix(prefix, k)
                           THEN [r EXCEPT !.past = TRUE] ELSE [r EXCEPT !.out = Append(@, k)],
             [past |-> FALSE, out |-> <<>>],
             SelectSeq(Ordered(table), LAMBDA k : ~Before(k, prefix))).out

\* get_action_result.
ValueOf(k) == (CHOOSE e \in table : e[1] = k)[2]

Parses(k) == Len(k) = Len(AcPrefix) + 1 /\ Last(k) # BadSymbol /\ ValueOf(k) = "result"

\* MetaKvActionCache::list_entries: entries that do not parse are skipped.
ListAcEntries == SelectSeq(ScanPrefix(AcPrefix), Parses)

\* A burst of calls, cancelled or not, never has more blocking tasks at work
\* than there are permits (run_blocking).
TasksAreBounded == Cardinality(tasks) <= MaxConcurrent

\* A scan returns every key of its namespace and no other, in order, whatever
\* sorts before and after it; and an entry that fails to parse hides none of
\* its neighbours from the collector (scan_prefix, list_entries).
ScansAreComplete ==
    /\ \A p \in Keys :
         LET s == ScanPrefix(p)
         IN  /\ ToSet(s) = {e[1] : e \in {x \in table : IsPrefix(p, x[1])}}
             /\ \A i, j \in DOMAIN s : i < j => Before(s[i], s[j])
    /\ \A e \in table :
         (IsPrefix(AcPrefix, e[1]) /\ Parses(e[1])) => e[1] \in ToSet(ListAcEntries)
=============================================================================
