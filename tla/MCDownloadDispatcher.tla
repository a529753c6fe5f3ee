------------------------ MODULE MCDownloadDispatcher ------------------------
(* Instances of DownloadDispatcher for TLC. *)
EXTENDS DownloadDispatcher

CONSTANTS r1, r2, r3, c1, c2, w1, w2
Symmetry == Permutations({c1, c2}) \cup Permutations({w1, w2})
=============================================================================
