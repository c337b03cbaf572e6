------------------------- MODULE MCSnapshotRegistry -------------------------
(* SnapshotRegistry for TLC: interchangeable clients.                       *)
EXTENDS SnapshotRegistry, TLC

Interchangeable == Permutations(Clients)
=============================================================================
