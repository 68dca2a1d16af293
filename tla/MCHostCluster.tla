--------------------------- MODULE MCHostCluster ---------------------------
(* Small instances of HostCluster for TLC.  The liveness run permutes      *)
(* nothing; the others may permute the addresses.                          *)
EXTENDS HostCluster, TLC

Symmetry == Permutations(Addrs)
=============================================================================
