---------------------------- MODULE MCKubeconfig ----------------------------
(* Small instances of Kubeconfig for TLC.  Names and credentials are only  *)
(* compared and stored.                                                    *)
EXTENDS Kubeconfig, TLC

Symmetry == Permutations(Targets) \cup Permutations(Creds)
=============================================================================
