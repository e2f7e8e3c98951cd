-------------------------------- MODULE Blobs --------------------------------
(***************************************************************************)
(* Content addresses, which every store works with.  A digest stands for   *)
(* the bytes it is the hash of (src/crates/brokkr-common/src/digest.rs).   *)
(***************************************************************************)
EXTENDS Integers, FiniteSets

CONSTANTS Blob, SizeOf

ASSUME BlobAssumption == SizeOf \in [Blob -> Nat \ {0}]

\* Digest::verify: the bytes have the declared size, and hash to the digest.
Verifies(d, bytes) == d.size = SizeOf[bytes] /\ d.hash = bytes
=============================================================================
