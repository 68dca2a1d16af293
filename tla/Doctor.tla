------------------------------- MODULE Doctor -------------------------------
(***************************************************************************)
(* doctor.diagnose and the arithmetic of memory that doctor shows and `up  *)
(* --vm' goes by.  Pure: what one probe of the host said, and the verdict. *)
(***************************************************************************)
EXTENDS Integers

CONSTANT None  \* what the probe could not read; no distribution
ASSUME NoNumberAssumption == None \notin Nat \cup {"k3s", "rke2"}

Opt(S) == S \cup {None}
Distros == {"k3s", "rke2"}

\* container: it is one; cpu: vmx or svm; kvm: /dev/kvm; memory in MB, disk in
\* GB; family: what os-release says.
HostFacts == [container : BOOLEAN, cpu : BOOLEAN, kvm : BOOLEAN,
              memory : Opt(Nat), disk : Opt(Nat),
              family : {"Debian", "RedHat", "other"}]

MinMemory == 3500
HostReserve == 1500
MinDisk == 15

\* The memory a distribution gives its VMs, and the least it runs in.
VmMemory == [k3s |-> 2048, rke2 |-> 4096]
DistroMinMemory == [k3s |-> 900, rke2 |-> 3500]

\* Every check has to pass; one whose number could not be read does.
Capable(f) ==
  /\ ~f.container
  /\ f.cpu
  /\ f.kvm
  /\ f.memory # None => f.memory >= MinMemory
  /\ f.disk # None => f.disk >= MinDisk

UsableMemory(memory) ==
  CASE memory = None -> None
    [] memory # None /\ memory >= HostReserve -> memory - HostReserve
    [] OTHER -> 0

\* How many VMs of this size doctor promises, and check_fit counts.
VmCapacity(memory, size) ==
  IF memory = None THEN None ELSE UsableMemory(memory) \div size
=============================================================================
