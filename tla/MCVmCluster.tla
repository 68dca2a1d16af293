---------------------------- MODULE MCVmCluster ----------------------------
(* Small instances of VmCluster for TLC.  Addresses are only compared and  *)
(* stored, so the runs that check no liveness may permute them.            *)
EXTENDS VmCluster, TLC

Symmetry == Permutations(Addrs)
=============================================================================
