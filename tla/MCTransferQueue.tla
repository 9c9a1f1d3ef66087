--------------------------- MODULE MCTransferQueue ---------------------------
(* Small instances of TransferQueue for TLC.                                 *)
EXTENDS TransferQueue, TLC

\* An empty array, and a transfer that outgrows the staging of the other.
MCSizes == {0, 1, 2}

Arrays == Permutations(Cells)
=============================================================================
