------------------------------ MODULE FairShare ------------------------------
(***************************************************************************)
(* The fair queue as a state machine of its own: jobs of several tenants   *)
(* are pushed and popped in any order (a job is its tenant here).          *)
(* served[a][b] counts the jobs of a dispatched since a and b last became  *)
(* backlogged together.                                                    *)
(***************************************************************************)
EXTENDS FairQueue

CONSTANTS MaxQueued,   \* jobs waiting at a time
          MaxFinish    \* bound on the virtual clock of a tenant

VARIABLES queue, served

fvars == <<queue, served>>

Backlogged(q, t) == \E k \in DOMAIN q.entries : q.entries[k].job = t

FairInit ==
    /\ queue = EmptyQueue
    /\ served = [a \in Tenant |-> [b \in Tenant |-> 0]]

Count(q, by) ==
    [a \in Tenant |-> [b \in Tenant |->
        IF Backlogged(q, a) /\ Backlogged(q, b)
        THEN served[a][b] + (IF by = a THEN 1 ELSE 0) ELSE 0]]

Submit(t) ==
    /\ Len(queue.entries) < MaxQueued
    /\ queue.tenant_finish[t] < MaxFinish
    /\ queue' = Push(queue, t, t)
    /\ UNCHANGED served

Pop ==
    /\ queue.entries # <<>>
    /\ LET k == LowestStart(queue, DOMAIN queue.entries)
           t == queue.entries[k].job
       IN  /\ queue' = Take(queue, k)
           /\ served' = Count(Take(queue, k), t)

FairNext == \/ \E t \in Tenant : Submit(t)
            \/ Pop

FairSpec == FairInit /\ [][FairNext]_fvars

\* Two tenants that both have work queued share the workers in proportion to
\* their weights: as long as neither runs dry, the service each has had,
\* divided by its weight, differs by at most one job of each.  (fairqueue.rs:
\* the start tags of push, the virtual time of take.)
FairShare ==
    \A a, b \in Tenant :
        served[a][b] * Weight[b] - served[b][a] * Weight[a]
            <= Weight[a] + Weight[b]
=============================================================================
