------------------------- MODULE MCBlobstoreManifest -------------------------
EXTENDS BlobstoreManifest

CONSTANTS w1, w2, l0, l1, l2, l3, zero

\* Two writers race on one manifest; four lock hashes allow three writes.
MCWriters     == {w1, w2}
MCLocks       == {l0, l1, l2, l3}
MCInitialLock == l0
MCEmptyLock   == zero

=============================================================================
