----------------------------- MODULE MCInventory -----------------------------
(* Small instances of Inventory for TLC.  Terminals and names are only     *)
(* compared and stored.                                                    *)
EXTENDS Inventory, TLC

Symmetry == Permutations(Clis) \cup Permutations(Names)
=============================================================================
