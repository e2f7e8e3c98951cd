----------------------------- MODULE CasService ------------------------------
(***************************************************************************)
(* The ContentAddressableStorage service over a redb store: batches are    *)
(* checked, written in one transaction and answered entry by entry.        *)
(* src/crates/brokkr-control/src/services/cas.rs, services/mod.rs;         *)
(* src/crates/brokkr-cas/src/redb_backend.rs.                              *)
(***************************************************************************)
EXTENDS Blobs, SequencesExt

CONSTANTS Items,        \* entries of a batch: a digest and bytes
          MaxBlobs,     \* max_blobs_per_request
          MaxBytes      \* max_request_bytes

VARIABLES shelf,        \* the BLOBS table: bytes under the hash they verified for
          exchange      \* the last request and its reply

svcvars == <<shelf, exchange>>

NoExchange == [call |-> "none", asked |-> <<>>, reply |-> <<>>, ok |-> TRUE]

\* Digest::new; the hash of a request is well-formed, its size may not be.
WellFormed(d) == d.size >= 0

PayloadBytes(batch) == FoldLeft(LAMBDA n, r : n + SizeOf[r.data], 0, batch)

\* The checks of batch_update_blobs that refuse the whole batch.
Acceptable(batch) ==
    /\ Len(batch) <= MaxBlobs
    /\ PayloadBytes(batch) <= MaxBytes
    /\ \A i \in DOMAIN batch : WellFormed(batch[i].digest)

\* Mutant: results are handed out from the front of the batch.
FirstIndices(batch) ==
    LET n == Cardinality({i \in DOMAIN batch : Verifies(batch[i].digest, batch[i].data)})
    IN  [k \in 1 .. n |-> k]

AcceptedIndices(batch) ==
    SelectSeq([i \in DOMAIN batch |-> i], LAMBDA i : Verifies(batch[i].digest, batch[i].data))

\* RedbCas::batch_update_blobs: each verified blob replaces what is there.
InsertAll(table, batch) ==
    FoldLeft(LAMBDA t, r : {e \in t : e[1] # r.digest.hash} \cup {<<r.digest.hash, r.data>>},
             table, SelectSeq(batch, LAMBDA r : Verifies(r.digest, r.data)))

\* The replies: an entry that did not verify keeps its refusal, the results of
\* the backend go to the entries that were handed to it.
Replies(batch) ==
    LET accepted == ToSet(AcceptedIndices(batch))
    IN  [i \in DOMAIN batch |-> [digest |-> batch[i].digest, code |-> IF i \in accepted THEN 0 ELSE 3]]

Hashes == {e[1] : e \in shelf}

BatchUpdateBlobs(batch) ==
    \/ /\ Acceptable(batch)
       /\ shelf' = InsertAll(shelf, batch)
       /\ exchange' = [call |-> "update", asked |-> batch, reply |-> Replies(batch), ok |-> TRUE]
    \/ \* refused, or the store is at its limit
       /\ exchange' = [call |-> "update", asked |-> batch, reply |-> <<>>, ok |-> FALSE]
       /\ UNCHANGED shelf

BatchReadBlobs(ds) ==
    /\ Len(ds) <= MaxBlobs /\ \A i \in DOMAIN ds : WellFormed(ds[i])
    /\ exchange' = [call |-> "read", asked |-> ds, ok |-> TRUE,
                    reply |-> [i \in DOMAIN ds |->
                                 [digest |-> ds[i], data |-> {e[2] : e \in {x \in shelf : x[1] = ds[i].hash}}]]]
    /\ UNCHANGED shelf

FindMissingBlobs(ds) ==
    /\ Len(ds) <= MaxBlobs /\ \A i \in DOMAIN ds : WellFormed(ds[i])
    /\ exchange' = [call |-> "find", asked |-> ds, ok |-> TRUE,
                    reply |-> SelectSeq(ds, LAMBDA d : d.hash \notin Hashes)]
    /\ UNCHANGED shelf

Batches == UNION {[1 .. n -> Items] : n \in 0 .. MaxBlobs + 1}
DigestLists == {[i \in DOMAIN b |-> b[i].digest] : b \in Batches}

ServiceInit == shelf = {} /\ exchange = NoExchange

ServiceNext ==
    \/ \E b \in Batches : BatchUpdateBlobs(b)
    \/ \E ds \in DigestLists : BatchReadBlobs(ds) \/ FindMissingBlobs(ds)

ServiceSpec == ServiceInit /\ [][ServiceNext]_svcvars

-----------------------------------------------------------------------------
\* A client that reads the replies in the order of its requests is told the
\* truth.  Reply i of an upload is about request i, says OK exactly if the
\* bytes verified, and then the blob is stored; what is read under a digest
\* are the bytes that hash to it, whatever was uploaded under it before
\* (batch_update_blobs with its accepted_indices, batch_read_blobs).
RepliesAreTrue ==
    CASE exchange.call = "update" /\ exchange.ok ->
           /\ Len(exchange.reply) = Len(exchange.asked)
           /\ \A i \in DOMAIN exchange.asked :
                LET r == exchange.asked[i]
                IN  /\ exchange.reply[i].digest = r.digest
                    /\ (exchange.reply[i].code = 0) <=> Verifies(r.digest, r.data)
                    /\ exchange.reply[i].code = 0 => r.digest.hash \in Hashes
      [] exchange.call = "read" ->
           \A i \in DOMAIN exchange.reply :
               exchange.reply[i].data \subseteq {exchange.asked[i].hash}
      [] OTHER -> TRUE
=============================================================================
