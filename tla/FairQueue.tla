------------------------------ MODULE FairQueue ------------------------------
(***************************************************************************)
(* The start-time fair queue of src/crates/brokkr-control/src/fairqueue.rs *)
(* as operators on a record.  Scheduler and FairShare use them.            *)
(*                                                                         *)
(* Virtual time is an unbounded integer here: the u64 of the code          *)
(* saturates after about 10^13 jobs of one tenant.                         *)
(***************************************************************************)
EXTENDS Integers, Sequences

CONSTANTS Tenant,
          Cost,     \* virtual cost of a job of a tenant of weight one
          Weight    \* the weight of each tenant

ASSUME WeightAssumption ==
    /\ Cost \in Nat
    /\ Weight \in [Tenant -> Nat \ {0}]

EmptyQueue == [entries |-> <<>>,
               virtual_time |-> 0,
               tenant_finish |-> [t \in Tenant |-> 0]]

\* Mutant: the tenant's own backlog alone decides, so an idle tenant saves up
\* credit while the others are served.
StartTagOfBacklog(q, t) == q.tenant_finish[t]

StartTag(q, t) == IF q.virtual_time > q.tenant_finish[t]
                  THEN q.virtual_time ELSE q.tenant_finish[t]

Push(q, t, job) ==
    LET start == StartTag(q, t)
    IN  [q EXCEPT !.entries = Append(@, [start |-> start, job |-> job]),
                  !.tenant_finish[t] = start + (Cost \div Weight[t])]

SwapRemove(s, k) == SubSeq([s EXCEPT ![k] = s[Len(s)]], 1, Len(s) - 1)

Take(q, k) ==
    LET start == q.entries[k].start
    IN  [q EXCEPT !.entries = SwapRemove(@, k),
                  !.virtual_time = IF start > @ THEN start ELSE @]

\* The slot a scan with `slot.start >= incumbent` settles on, among the slots
\* ks: the first of those with the lowest start tag.
LowestStart(q, ks) ==
    CHOOSE k \in ks : \A i \in ks : \/ q.entries[k].start < q.entries[i].start
                                    \/ /\ q.entries[k].start = q.entries[i].start
                                       /\ k <= i

Retain(q, Keep(_)) ==
    [q EXCEPT !.entries = SelectSeq(@, LAMBDA e : Keep(e.job))]
=============================================================================
