------------------------------ MODULE LruCache -------------------------------
(***************************************************************************)
(* What the hot tier of src/crates/brokkr-cas/src/tiered.rs promises: the  *)
(* most recently used blobs, as many as fit, newest first.                 *)
(***************************************************************************)
EXTENDS Integers, SequencesExt

CONSTANTS Blob, SizeOf, Capacity

VARIABLES order, recent    \* the blobs held, and the one asked for or stored last

Weigh(s) == FoldLeft(LAMBDA n, d : n + SizeOf[d], 0, s)

\* The longest prefix that fits.
Fitting(s) ==
    LET n == CHOOSE n \in 0 .. Len(s) :
               /\ Weigh(SubSeq(s, 1, n)) <= Capacity
               /\ \A m \in (n + 1) .. Len(s) : Weigh(SubSeq(s, 1, m)) > Capacity
    IN  SubSeq(s, 1, n)

LruInit == order = <<>> /\ recent = <<>>

Touch(d) ==
    /\ \E i \in DOMAIN order : order[i] = d
    /\ order' = <<d>> \o Remove(order, d)
    /\ recent' = <<d>>

Admit(d) ==
    /\ \A i \in DOMAIN order : order[i] # d
    /\ SizeOf[d] <= Capacity
    /\ order' = Fitting(<<d>> \o order)
    /\ recent' = <<d>>

LruSpec == LruInit /\ [][\E d \in Blob : Touch(d) \/ Admit(d)]_<<order, recent>>
=============================================================================
