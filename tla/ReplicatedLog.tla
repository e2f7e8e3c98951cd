---------------------------- MODULE ReplicatedLog ----------------------------
(***************************************************************************)
(* What a cluster of Raft nodes promises to the state machines above it:   *)
(* one log that only grows, and on every server a window onto it.  The     *)
(* window of a server starts after its snapshot and ends at its commit     *)
(* index; it moves forward, except that a restarted server opens it again  *)
(* at its snapshot.                                                        *)
(***************************************************************************)
EXTENDS Integers

CONSTANT Server

VARIABLES
  log,      \* the entries committed so far, by index from 1
  floor,    \* floor[i]: the last index server i's snapshot covers
  upTo,     \* upTo[i]: the last index server i knows committed
  window    \* window[i]: the entries server i would apply, by index

vars == <<log, floor, upTo, window>>

EmptyLog == [k \in {} |-> 0]

Init ==
  /\ log = EmptyLog
  /\ floor = [i \in Server |-> 0]
  /\ upTo = [i \in Server |-> 0]
  /\ window = [i \in Server |-> EmptyLog]

\* The log is extended at its end, if at all.
Grows ==
  /\ DOMAIN log \subseteq DOMAIN log'
  /\ \A k \in DOMAIN log : log'[k] = log[k]
  /\ \A k \in DOMAIN log' : \A j \in 1..k : j \in DOMAIN log'

\* Server i alone moves, and sees exactly the log between its two bounds.
Moves(i) ==
  /\ \A j \in Server \ {i} : /\ floor'[j] = floor[j]
                             /\ upTo'[j] = upTo[j]
                             /\ window'[j] = window[j]
  /\ \A k \in (floor'[i] + 1)..upTo'[i] : k \in DOMAIN log'
  /\ window'[i] = [k \in (floor'[i] + 1)..upTo'[i] |-> log'[k]]

\* Server i learns of more committed entries, or folds some into a snapshot.
Advance(i) ==
  /\ floor[i] <= floor'[i] /\ floor'[i] <= upTo'[i] /\ upTo[i] <= upTo'[i]
  /\ Grows
  /\ Moves(i)

\* Server i restarts: of what it knew committed only the snapshot is durable.
Reopen(i) ==
  /\ floor'[i] = floor[i] /\ upTo'[i] = floor[i]
  /\ UNCHANGED log
  /\ Moves(i)

Next == \E i \in Server : Advance(i) \/ Reopen(i)

Spec == Init /\ [][Next]_vars
=============================================================================
