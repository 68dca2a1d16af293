----------------------------- MODULE MCHostModes -----------------------------
(* Small instances of HostModes for TLC: hosts with one problem each, and  *)
(* capable ones with the memory at the edges of what doctor accepts and of *)
(* what one and two VMs take.  The runs are alike for every terminal.      *)
EXTENDS HostModes, TLC

Good == [container |-> FALSE, cpu |-> TRUE, kvm |-> TRUE, memory |-> 6000,
         disk |-> 20, family |-> "Debian"]
SomeHosts ==
  {[Good EXCEPT !.memory = 5596],
   [Good EXCEPT !.memory = 3547, !.family = "RedHat"]}
    \cup {[Good EXCEPT !.container = TRUE], [Good EXCEPT !.cpu = FALSE],
          [Good EXCEPT !.kvm = FALSE], [Good EXCEPT !.memory = 3499],
          [Good EXCEPT !.disk = 14], [Good EXCEPT !.family = "other"]}
OneHost == {Good}
Symmetry == Permutations(Clis)
=============================================================================
