------------------------------- MODULE VmHost -------------------------------
(***************************************************************************)
(* The two machines a VM-mode cluster lives on, as vm.py sees them: the    *)
(* target host (libvirt, its VMs, the address reservations of its default  *)
(* network, the port-forwarding script, unit and rule) and the             *)
(* workstation (the VM access key, SSHerpa's known_hosts, the kubeconfig   *)
(* of the cluster).  Also what happens to them without SSHerpa: leases,    *)
(* cloud-init, power, hand-made changes.  Nothing here is stored by        *)
(* SSHerpa: every command asks the host again.                             *)
(*                                                                         *)
(* A VM build draws one identity from Ids.  It stands for the MAC of the   *)
(* domain and for what only that disk holds: the SSH host key and, on      *)
(* node-1, the cluster's own certificates and join token.  A distribution  *)
(* in a VM is installed once its marker file is there, and belongs to a    *)
(* cluster once its service has been started.                              *)
(***************************************************************************)
EXTENDS Integers, FiniteSets

CONSTANTS MaxNodes,  \* the highest node number
          Addrs,     \* addresses of the default network's DHCP range
          Ids,       \* identities a VM build can draw
          Keys,      \* key pairs ssh-keygen can make
          None       \* no address, no identity, no key

ASSUME MaxNodesAssumption == MaxNodes \in Nat \ {0}
ASSUME NumbersAssumption == Ids \subseteq Int /\ Keys \subseteq Int
ASSUME NoneAssumption == None \notin Addrs \cup Ids \cup Keys

VARIABLES
  libvirt,        \* "absent": no virsh; "down": virsh does not answer; "up"
  hostInstalled,  \* a distribution is installed directly on the host
  vm,             \* the domain and the disk of every node name
  resv,           \* ip-dhcp-host entries of the default network
  fwd,            \* script and unit files, unit enabled, rule in the kernel
  priv, pub,      \* ~/.ssherpa/vm_ed25519 and vm_ed25519.pub
  known,          \* ~/.ssherpa/known_hosts: the host key kept per address
  kubefile,       \* ~/.ssherpa/kubeconfig/<target>-node-1.yaml
  context         \* the <target>-node-1 entry of ~/.kube/config

hostVars == <<libvirt, hostInstalled, vm, resv, fwd>>
localVars == <<priv, pub, known, kubefile, context>>

-----------------------------------------------------------------------------
Nodes == 1..MaxNodes
Opt(S) == S \cup {None}

VM == [mac : Opt(Ids), disk : Opt(Ids), on : BOOLEAN, addr : Opt(Addrs),
       account : BOOLEAN, key : Opt(Keys), installed : BOOLEAN,
       cluster : Opt(Ids)]
NoVm == [mac |-> None, disk |-> None, on |-> FALSE, addr |-> None,
         account |-> FALSE, key |-> None, installed |-> FALSE,
         cluster |-> None]
Reservation == [name : Nodes, mac : Ids, ip : Addrs]
NoForwarding == [script |-> None, enabled |-> FALSE, rule |-> None]

Defined(n) == vm[n].mac # None
DefinedNodes == {n \in Nodes : Defined(n)}

\* virsh domstate: the empty string for a VM that is not there, and also for
\* a virsh that fails.
VmState(n) ==
  IF libvirt = "up" /\ Defined(n)
  THEN IF vm[n].on THEN "running" ELSE "shut off"
  ELSE ""

\* virsh domiflist, whose return code nobody looks at.
MacOf(n) == IF libvirt = "up" THEN vm[n].mac ELSE None

\* reserve_ip_step clears the way by MAC, by address and by name ...
WithoutReservation(mac, ip, name) ==
  {r \in resv : r.mac # mac /\ r.ip # ip /\ r.name # name}
\* ... release_ip_step by MAC and by name only.  Both swallow every failure.
AfterRelease(mac, name) ==
  IF libvirt = "up" THEN {r \in resv : r.mac # mac /\ r.name # name} ELSE resv
\* libvirt refuses an entry that shares a MAC, an address or a name.
CanReserve(mac, ip, name) ==
  libvirt = "up" /\ resv = WithoutReservation(mac, ip, name)

\* list_reservations answers the empty list when virsh fails.
StaleReservations(live) ==
  IF libvirt = "up" THEN {r \in resv : r.name \notin live} ELSE {}

ForwardingInstalled == fwd.script # None

\* The running VMs that answer at an address, and those ssh gets into: the
\* account exists, the key opens it, and the host key is new or the one kept.
AtAddress(ip) == {m \in Nodes : vm[m].on /\ vm[m].addr = ip}
Enterable(ip) ==
  {m \in AtAddress(ip) : /\ vm[m].account
                         /\ priv # None /\ vm[m].key = priv
                         /\ known[ip] \in {None, vm[m].disk}}

\* Identities no record anywhere mentions.
UsedIds ==
  UNION {{vm[n].mac, vm[n].disk, vm[n].cluster} : n \in Nodes}
    \cup {r.mac : r \in resv} \cup {known[a] : a \in Addrs}
    \cup {kubefile, context}
FreshIds == Ids \ UsedIds
\* ssh-keygen never makes a key twice.
FreshKeys == Keys \ ({vm[n].key : n \in Nodes} \cup {priv, pub})
\* Identities and keys are only ever compared for equality, so which unused
\* one is drawn makes no difference: it is the least.
Least(S) == {i \in S : \A j \in S : i <= j}

-----------------------------------------------------------------------------
HostInit ==
  /\ libvirt \in {"absent", "up"}
  /\ hostInstalled = FALSE
  /\ vm = [n \in Nodes |-> NoVm]
  /\ resv = {}
  /\ fwd = NoForwarding
  /\ priv = None /\ pub = None
  /\ known = [a \in Addrs |-> None]
  /\ kubefile = None /\ context = None

\* dnsmasq leases the reserved address of a MAC, or one that nobody uses and
\* nobody has reserved.
Leasable(n) ==
  LET own == {r.ip : r \in {s \in resv : s.mac = vm[n].mac}}
      inUse == {vm[m].addr : m \in Nodes}
  IN IF own # {} THEN own \ inUse
     ELSE Addrs \ (inUse \cup {r.ip : r \in resv})

DhcpLease(n) ==
  /\ vm[n].on /\ vm[n].addr = None
  /\ \E a \in Leasable(n) : vm' = [vm EXCEPT ![n].addr = a]
  /\ UNCHANGED <<libvirt, hostInstalled, resv, fwd, localVars>>

\* cloud-init creates the ssherpa account after the network stage.
CloudInit(n) ==
  /\ vm[n].on /\ vm[n].addr # None /\ ~vm[n].account
  /\ vm' = [vm EXCEPT ![n].account = TRUE]
  /\ UNCHANGED <<libvirt, hostInstalled, resv, fwd, localVars>>

\* Somebody removes a VM with virsh: its reservation and the forwarding stay.
HandUndefine(n) ==
  /\ libvirt = "up" /\ Defined(n)
  /\ vm' = [vm EXCEPT ![n] = NoVm]
  /\ UNCHANGED <<libvirt, hostInstalled, resv, fwd, localVars>>

PowerOff(n) ==
  /\ vm[n].on
  /\ vm' = [vm EXCEPT ![n].on = FALSE, ![n].addr = None]
  /\ UNCHANGED <<libvirt, hostInstalled, resv, fwd, localVars>>

\* A restart of the host: libvirtd is enabled and the VMs autostart, leases
\* are asked for again, and only the enabled unit puts the rule back.
Reboot ==
  /\ libvirt' = IF libvirt = "absent" THEN "absent" ELSE "up"
  /\ vm' = [n \in Nodes |-> [vm[n] EXCEPT !.on = Defined(n), !.addr = None]]
  /\ fwd' = [fwd EXCEPT !.rule = IF fwd.enabled THEN fwd.script ELSE None]
  /\ UNCHANGED <<hostInstalled, resv, localVars>>

LibvirtFails ==
  /\ libvirt = "up" /\ libvirt' = "down"
  /\ UNCHANGED <<hostInstalled, vm, resv, fwd, localVars>>

LibvirtRestarts ==
  /\ libvirt = "down" /\ libvirt' = "up"
  /\ UNCHANGED <<hostInstalled, vm, resv, fwd, localVars>>

\* Somebody runs a distribution's installer on the host itself.
HandInstall ==
  /\ ~hostInstalled /\ hostInstalled' = TRUE
  /\ UNCHANGED <<libvirt, vm, resv, fwd, localVars>>

\* A file of the key pair is deleted or not restored from a backup.
LoseKey ==
  /\ \/ priv # None /\ priv' = None /\ pub' \in {pub, None}
     \/ pub # None /\ pub' = None /\ UNCHANGED priv
  /\ UNCHANGED <<hostVars, known, kubefile, context>>
=============================================================================
