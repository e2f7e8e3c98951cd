------------------------------- MODULE HotTier -------------------------------
(***************************************************************************)
(* TieredCas: the byte-bounded hot tier in front of the warm store, with   *)
(* its linked list in a pool of slots (src/crates/brokkr-cas/src/tiered.rs)*)
(*                                                                         *)
(* A call asks the warm store between two visits to the hot tier; blobs on *)
(* their way back from it are in `arriving`.  Bytes follow from the digest *)
(* of a verified blob, so a slot holds the digest alone.                   *)
(***************************************************************************)
EXTENDS Blobs, SequencesExt

CONSTANTS Capacity,
          MaxArriving      \* calls that wait for the warm store at a time

ASSUME HotAssumption ==
    /\ Capacity \in Nat /\ MaxArriving \in Nat

VARIABLES hot,         \* HotTier
          warm,        \* digests the warm store holds
          arriving,
          recent       \* the blob that was read or kept last (history)

hvars == <<hot, warm, arriving, recent>>

NONE == 0
Slot(d, p, n) == [digest |-> d, prev |-> p, next |-> n]

\* HotTier::new; map is the set of pairs of digest and index.
EmptyTier == [bytes |-> 0, map |-> {}, nodes |-> <<>>, free |-> <<>>,
              head |-> NONE, tail |-> NONE]

Holds(h, d) == \E e \in h.map : e[1] = d
IndexOf(h, d) == (CHOOSE e \in h.map : e[1] = d)[2]

Unlink(h, i) ==
    LET p == h.nodes[i].prev
        n == h.nodes[i].next
        onward == IF p # NONE THEN [h.nodes EXCEPT ![p].next = n] ELSE h.nodes
        both == IF n # NONE THEN [onward EXCEPT ![n].prev = p] ELSE onward
    IN  [h EXCEPT !.nodes = both,
                  !.head = IF p # NONE THEN @ ELSE n,
                  !.tail = IF n # NONE THEN @ ELSE p]

PushToHead(h, i) ==
    LET own == [h.nodes EXCEPT ![i].prev = NONE, ![i].next = h.head]
    IN  [h EXCEPT !.nodes = IF h.head # NONE THEN [own EXCEPT ![h.head].prev = i] ELSE own,
                  !.head = i,
                  !.tail = IF @ = NONE THEN i ELSE @]

\* Mutant: a hit does not count as a use.
LeaveInPlace(h, i) == h

MoveToHead(h, i) == IF i = h.head THEN h ELSE PushToHead(Unlink(h, i), i)

Recycle(h, i) ==
    [h EXCEPT !.nodes[i].prev = NONE, !.nodes[i].next = NONE, !.free = Append(@, i)]

EvictTail(h) ==
    LET v == h.tail
        u == Unlink(h, v)
    IN  Recycle([u EXCEPT !.map = @ \ {<<h.nodes[v].digest, v>>},
                          !.bytes = @ - SizeOf[h.nodes[v].digest]], v)

EvictUntilUnderCapacity(h) ==
    FoldLeft(LAMBDA x, i : IF x.bytes > Capacity /\ x.tail # NONE THEN EvictTail(x) ELSE x,
             h, h.nodes)

\* alloc: a recycled slot, the last one freed first, or a new one.
Alloc(h, d) ==
    IF h.free # <<>>
    THEN [index |-> Last(h.free),
          tier |-> [h EXCEPT !.nodes[Last(h.free)] = Slot(d, NONE, NONE), !.free = Front(@)]]
    ELSE [index |-> Len(h.nodes) + 1,
          tier |-> [h EXCEPT !.nodes = Append(@, Slot(d, NONE, NONE))]]

GetHot(h, d) == MoveToHead(h, IndexOf(h, d))

PutHot(h, d) ==
    CASE Capacity = 0 -> h
      [] Capacity # 0 /\ Holds(h, d) -> EvictUntilUnderCapacity(MoveToHead(h, IndexOf(h, d)))
      [] Capacity # 0 /\ ~Holds(h, d) /\ SizeOf[d] > Capacity -> h
      [] OTHER ->
           LET new == Alloc(h, d)
           IN  EvictUntilUnderCapacity(
                 PushToHead([new.tier EXCEPT !.map = @ \cup {<<d, new.index>>},
                                             !.bytes = @ + SizeOf[d]], new.index))

HotInit == hot = EmptyTier /\ warm = {} /\ arriving = {} /\ recent = <<>>

\* batch_update_blobs: the warm store has accepted the blob.
UpdateBlob(d) ==
    /\ Cardinality(arriving) < MaxArriving
    /\ warm' = warm \cup {d}
    /\ arriving' = arriving \cup {d}
    /\ UNCHANGED <<hot, recent>>

\* batch_read_blobs: a hit, or a miss that the warm store can answer.
ReadHot(d) ==
    /\ Holds(hot, d)
    /\ hot' = GetHot(hot, d)
    /\ recent' = <<d>>
    /\ UNCHANGED <<warm, arriving>>

ReadWarm(d) ==
    /\ ~Holds(hot, d) /\ d \in warm
    /\ Cardinality(arriving) < MaxArriving
    /\ arriving' = arriving \cup {d}
    /\ UNCHANGED <<hot, warm, recent>>

Promote(d) ==
    /\ d \in arriving
    /\ hot' = PutHot(hot, d)
    /\ recent' = IF Holds(hot', d) THEN <<d>> ELSE recent
    /\ arriving' = arriving \ {d}
    /\ UNCHANGED warm

HotNext == \E d \in Blob : UpdateBlob(d) \/ ReadHot(d) \/ ReadWarm(d) \/ Promote(d)

HotSpec == HotInit /\ [][HotNext]_hvars

-----------------------------------------------------------------------------
\* The slots in the order of the list, from its head.
Walk(h) ==
    LET from[n \in 0 .. Len(h.nodes)] ==
          IF n = 0 THEN <<h.head>> ELSE Append(from[n - 1],
              IF Last(from[n - 1]) = NONE THEN NONE ELSE h.nodes[Last(from[n - 1])].next)
    IN  SelectSeq(from[Len(h.nodes)], LAMBDA i : i # NONE)

\* Books that balance: every slot is either on the list, once, or free;
\* the links of neighbours agree; the map knows exactly the listed blobs; the
\* byte count is theirs and within the budget (HotTier put, get, evict).
BooksBalance ==
    LET w == Walk(hot)
        listed == {w[k] : k \in DOMAIN w}
        freed == {hot.free[k] : k \in DOMAIN hot.free}
    IN  /\ Len(w) = Cardinality(listed)
        /\ Len(hot.free) = Cardinality(freed)
        /\ listed \cap freed = {} /\ listed \cup freed = DOMAIN hot.nodes
        /\ \A k \in DOMAIN w : hot.nodes[w[k]].prev = IF k = 1 THEN NONE ELSE w[k - 1]
        /\ hot.tail = IF w = <<>> THEN NONE ELSE Last(w)
        /\ hot.map = {<<hot.nodes[i].digest, i>> : i \in listed}
        /\ hot.bytes = FoldLeft(LAMBDA n, i : n + SizeOf[hot.nodes[i].digest], 0, w)
        /\ hot.bytes <= Capacity

Lru == INSTANCE LruCache WITH
         order <- [k \in 1 .. Len(Walk(hot)) |-> hot.nodes[Walk(hot)[k]].digest]

\* The list is the recency order: a hit moves its blob to the front, a new
\* blob pushes out the least recently used ones and nothing else, and the
\* books balance throughout.
ImplementsLru == Lru!LruSpec /\ []BooksBalance
=============================================================================
