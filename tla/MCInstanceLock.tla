--------------------------- MODULE MCInstanceLock ---------------------------
(* Three processes and, so that a fresh file can always be created, four    *)
(* inodes, for InstanceLock.                                                *)
EXTENDS InstanceLock, TLC

CONSTANTS p1, p2, p3, i1, i2, i3, i4

MCProcs == {p1, p2, p3}
MCInodes == {i1, i2, i3, i4}

Interchangeable == Permutations(MCProcs) \cup Permutations(MCInodes)
=============================================================================
