----------------------------- MODULE FilteredCas -----------------------------
(***************************************************************************)
(* BloomCas: a bloom filter that answers for the blobs it rules out.       *)
(* src/crates/brokkr-cas/src: bloom.rs, bloom_cas.rs.                      *)
(*                                                                         *)
(* The filter lives in memory: after a restart it is rebuilt from the      *)
(* digests of the inner store before traffic is served.                    *)
(***************************************************************************)
EXTENDS Blobs

CONSTANTS H1, H2,        \* derive_pair: two halves of each digest's hash
          HashWidth,     \* bits of a half, 64 in the code
          BitLen,        \* bits of the filter
          K,             \* derived hash functions
          MaxCrashes

ASSUME FilterAssumption ==
    /\ H1 \in [Blob -> Nat] /\ H2 \in [Blob -> Nat]
    /\ HashWidth \in Nat /\ BitLen \in Nat \ {0} /\ K \in Nat \ {0}
    /\ MaxCrashes \in Nat

VARIABLES inner,       \* blobs of the inner store
          bits,        \* the bits of the filter that are set
          storing,     \* blobs the inner store has and whose insert is to come
          confirmed,       \* blobs uploaded with success and not deleted since
          serving, crashes

bvars == <<inner, bits, storing, confirmed, serving, crashes>>

\* Bloom::bit_index, with the wrapping arithmetic of a machine word.
BitIndex(d, i) == ((H1[d] + i * H2[d]) % (2 ^ HashWidth)) % BitLen

BitsOf(d) == {BitIndex(d, i) : i \in 0 .. (K - 1)}

InsertBits(bs, d) == bs \cup BitsOf(d)

MayContain(bs, d) == BitsOf(d) \subseteq bs

\* Mutant: the filter starts empty and is not seeded.
RebuildNothing(ds) == {}

\* rebuild_from: clear, then insert every digest of the list.
RebuildFrom(ds) == UNION {BitsOf(d) : d \in ds}

FilterInit ==
    /\ inner = {} /\ bits = {} /\ storing = {} /\ confirmed = {}
    /\ serving = TRUE /\ crashes = 0

UpdateInner(d) ==
    /\ serving
    /\ inner' = inner \cup {d}
    /\ storing' = storing \cup {d}
    /\ UNCHANGED <<bits, confirmed, serving, crashes>>

InsertFilter(d) ==
    /\ d \in storing
    /\ bits' = InsertBits(bits, d)
    /\ storing' = storing \ {d}
    /\ confirmed' = confirmed \cup ({d} \cap inner)
    /\ UNCHANGED <<inner, serving, crashes>>

\* The collector works on the inner store; the filter keeps the bits.
DeleteInner(d) ==
    /\ d \in inner
    /\ inner' = inner \ {d}
    /\ confirmed' = confirmed \ {d}
    /\ UNCHANGED <<bits, storing, serving, crashes>>

CrashFilter ==
    /\ crashes < MaxCrashes
    /\ crashes' = crashes + 1
    /\ bits' = {} /\ storing' = {} /\ serving' = FALSE
    /\ UNCHANGED <<inner, confirmed>>

Rebuild ==
    /\ ~serving
    /\ bits' = RebuildFrom(inner)
    /\ serving' = TRUE
    /\ UNCHANGED <<inner, storing, confirmed, crashes>>

FilterNext ==
    \/ \E d \in Blob : UpdateInner(d) \/ InsertFilter(d) \/ DeleteInner(d)
    \/ CrashFilter
    \/ Rebuild

FilterSpec == FilterInit /\ [][FilterNext]_bvars

\* find_missing_blobs: what the filter rules out, and what the inner store
\* lacks of the rest.
FindMissing(ds) ==
    {d \in ds : ~MayContain(bits, d)} \cup {d \in ds : MayContain(bits, d) /\ d \notin inner}

-----------------------------------------------------------------------------
\* A blob whose upload was acknowledged and that nobody deleted is never
\* reported missing, although the filter answers without asking the store and
\* is lost in every crash (BloomCas insert, rebuild_from, find_missing_blobs).
NoFalseNegative ==
    serving => FindMissing(confirmed) = {}
=============================================================================
