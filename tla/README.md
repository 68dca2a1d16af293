# SSHerpa in TLA+

SSHerpa is a command-line program that sets up a small k3s or RKE2 cluster on
a machine it reaches over ssh: directly on that machine (host mode, `ssherpa
up`) or in libvirt VMs on it (VM mode, `ssherpa up --vm [--nodes n]`), and
takes it away again (`ssherpa down`). It keeps no record of what it did. Every
command asks the host again what is there and works out what is missing. So
what has to be right is not one command but the *sequence*: any command may
end between any two of its remote steps, the host may change in between, and
the next command has to recognise whatever the last one left.

This directory models that, checks it with TLC on small instances and proves
with TLAPS, for all instances, every safety property that holds there and
every refinement.

## 1. The parts of the system

| part | source | state it keeps or changes | operations | modelled in |
|---|---|---|---|---|
| VM lifecycle | `vm.py` | domains and disks, DHCP reservations, forwarding script, unit and kernel rule (host); access key and `known_hosts` (workstation) | `create`, `ensure_local_key`, `wait_for_ip`, `wait_for_ssh`, `reserve_ip_step`, `expose_api`, `unexpose_api`, `destroy`, `list_vms`, `list_reservations` | `VmHost`, `VmCluster` |
| Cluster set-up and removal | `cluster.py`, `distro.py` | distribution on the machine, `config.yaml`, its service and serving certificate; fetched kubeconfig | `up`, `down`, `wait_for_ready`, `certificate_covers`, `join_agents`, the install, uninstall and refresh steps | `HostCluster` in full, `VmCluster` in outline |
| `up` and `down` | `cli.py` | nothing but local variables; drives all of the above | `up`, `_up_vm`, `_distro_to_install`, `down` | `VmCluster`, `HostCluster`; what both promise: `Lifecycle`; against each other: `HostModes`, `Tenancy` |
| Kubeconfig of the user | `kubeconfig.py` | `~/.kube/config` and its backup | `merge`, `remove` | `Kubeconfig` |
| Libvirt set-up | `virt.py` | packages, libvirtd, default network | `setup` and its steps | `Foundation`; one step of `VmCluster` |
| Target inventory, target commands | `inventory.py`, `cli.py` | the YAML file of targets | `add_target`, `update_target`, `remove_target` | `Inventory`, `AddressBook` |
| SSH execution | `ssh.py` | none | one ssh call with timeout, error classes | one atomic step; `Lost` and `Land` in `Foundation`, `HostModes` |
| Host diagnosis | `doctor.py`, `facts.py`, `probe.py`, `support.py` | none | verdicts from the text of a probe | `Doctor` (verdict and capacity) |
| Looking commands | `cli.py` | none | `status`, `check`, `ssh`, `doctor`, `target list` | no |

How they interact. `cli` calls the others one after the other in one thread;
each call runs a few ssh commands one at a time. There is no shared memory and
no callback. What is shared is the *world*: the host with its own actors
(dnsmasq, cloud-init, systemd, an operator with `virsh` and an editor), and on
the workstation two files other programs write (`~/.kube/config`) or a second
SSHerpa may write (the inventory).

What makes it hard:

- **Ends between steps.** `^C`, a lost connection, a timeout, one step of
  several failing. What a half-done step leaves has to be told from a done
  one: a domain that exists, a marker file, a forwarding script.
- **Reused names.** DHCP addresses are given to new VMs while old host keys
  and reservations still name them. Node names repeat.
- **Answers that mean two things.** The empty string is both "no such VM" and
  "virsh does not answer".
- **Stale answers.** What was listed before the prompt is acted on after it.
- **Shared files.** `config.yaml`, `~/.kube/config` and the inventory have two
  writers, are read and written back whole, and a write truncates first.
- **Two terminals.** Nothing is locked. Each mode looks for the other before
  it begins and acts minutes later; a command given up by its ssh goes on.
- **Reboots and moves.** The kernel rule and the lease are gone after a
  reboot; after a move neither certificate nor kubeconfig names the right
  address.

What makes each part correct:

- VM lifecycle: a fresh VM is never met with an old host key; reservations
  never clash with left-overs; the forwarding leads to the server and survives
  a reboot; an existing node is never rebuilt.
- Set-up and removal: ready means reachable by the kubeconfig fetched; removed
  means that nothing is left or comes back; the user's `config.yaml` is kept;
  repeating a command finishes what an interrupted one began.
- The command line: nothing is removed that was not listed and agreed to; a
  plan stays within memory and does not mix two clusters.
- Libvirt set-up: an incapable host is left as it was; what an interrupted
  set-up left is no obstacle to the next one, and a foundation once verified
  outlives a reboot.
- The two modes: never both on one host, where they would share port 6443.
- Inventory: a command changes one target in what was asked for and no check
  is got around; a file that cannot be read is never written over.
- Kubeconfig: other entries and a working current-context are left alone; the
  backup is the user's original.

`PROJECT.json` lists the hazards line by line with the properties for each.

## 2. The modules

| module | lines of code it stands for | what it is |
|---|---|---|
| `VmHost` | `vm.py` (state, queries), external: libvirt, dnsmasq, cloud-init, operator | the two machines, and what happens to them without SSHerpa |
| `VmCluster` | `cli._up_vm`, `cli.down`, `vm.py`, outline of `cluster.up` and `join_agents` | EXTENDS `VmHost`; one action per command the CLI issues, faults, properties, fairness |
| `HostCluster` | `cli.up`, host half of `cli.down`, `cluster.py`, `distro.py` | the single-machine cluster step by step, config ownership, certificate, address changes |
| `Foundation` | `virt.py`, `ssh.run` | EXTENDS `Doctor`; `virt.setup`, one action per remote command, issued from several terminals |
| `HostModes` | `cli.py`, outlines of `vm.create`, `vm.destroy`, `cluster.up`, `cluster.down` | EXTENDS `Foundation`; `up`, `up --vm` and `down` against each other on one host |
| `Doctor` | `doctor.py`, sizes of `distro.py` | operators: the verdict on a host, the memory VMs may take |
| `Lifecycle` | | abstract: `up` adds and `down` takes away; when Ready and Removed may be said |
| `Tenancy` | | abstract: at most one mode holds a host |
| `Kubeconfig` | `kubeconfig.py` | merge and remove on a file the user edits |
| `Inventory` | `inventory.py`, the target commands of `cli.py` | add, update and remove on a file others write too |
| `AddressBook` | | abstract: a command changes one target, at once |
| `MCVmCluster`, `MCHostCluster`, `MCHostModes`, `MCKubeconfig`, `MCInventory` | | symmetry and hosts for TLC |
| `VmClusterProofs` | | types of `VmCluster`, consent, reservations; what steps leave of a VM |
| `VmSafetyProofs` | | EXTENDS `VmClusterProofs`: what up and down promise, and that `VmCluster` implements `Lifecycle` |
| `HostSafetyProofs` | | theorems about `HostCluster`, and that it implements `Lifecycle` |
| `HostModesProofs` | | types of `HostModes`, and that it implements `Tenancy` |
| `FoundationProofs` | | EXTENDS `HostModesProofs`: what set-up does under the VMs |
| `TenancyProofs`, `InventoryProofs`, `KubeconfigProofs` | | theorems about the module in the name; that `Inventory` implements `AddressBook` |

Definitions whose comment begins with "Broken:" are variants of the definition
below or beside them, each with one plausible bug. No specification uses them;
`PROJECT.json` pairs each with the property that it would break.

### VmHost and VmCluster

A *build* of a VM draws one identity from `Ids`. It stands for the MAC of the
domain, for the SSH host key on its disk and, on node-1, for the cluster's
certificates: that is all the code tells VMs apart by. Identities and keys are
only compared for equality, so a build draws the least unused one.

`vm[n]` keeps MAC and disk apart, because the code creates the disk before the
domain (`create.disk`, `create.boot`) and a run can end in between. `pc` is
the remote or local step the command is at, or how the last one ended (`idle`
for a failure); `cli` holds the Python local variables that outlive a step:
the plan, the listing, the address noted for each node, what was found for
`down`, the answer of the operator. Three history variables are no code:
`calm` (nobody meddled since the command began), `steady` (libvirtd answered
since then), `faults` (trouble left).

Every step that can change either machine is an action; a step that only looks
is one too if what it saw is used later. Polling loops (`wait_for_ip`,
`wait_for_ssh`, `wait_for_ready`) are one step that succeeds if the awaited
thing is there and otherwise either goes on waiting or, at its deadline,
fails. A refused command (wrong flags, an answer of no) is no action or ends
in `idle`.

Of the cluster there are the steps at which it can go wrong: a server draws
its cluster from its own disk, an agent takes the one of the server it joins,
and only a server (`Servers`) has a state to wait for, a kubeconfig to fetch
and a token to give.

Trouble comes in kinds that a run switches on: `abort` (the command ends here,
or the step fails half-way: `RestartFails`, `UndefineFails`), `halfinstall`
(the same between the marker file of a distribution and the start of its
service), `undefine` (somebody removes a VM with virsh), `poweroff`, `reboot`,
`libvirtd` (stops answering at any moment), `losekey`, `handinstall`.

Simplifications: a remote command that was started has its effect before the
next one begins; a lease lapses when its VM is switched off; one operator at
one terminal; the image download and package installs are part of the step
they belong to.

### HostCluster

One action per remote command of `cluster.up` and `cluster.down` on the host
itself. `config.yaml` is a record of what its readers tell apart: SSHerpa's
first line (`mark`), settings besides `tls-san` (`other`), the names listed
(`san`). The certificate of a service covers what its file named when the
service last *started* and came up: that is why writing the file is not the
cure and the second look (`VerifyRefresh`) is needed. `host` is the address
the machine has, `target` the one in the inventory; while they differ, every
remote step fails (`Unreachable`). `fits` says which distributions the memory
takes.

Kinds of trouble: `abort` (between steps, and between writing the file and
restarting in the one refresh command), `halfinstall`, `noop` (the installer
is `curl | sh`, and a failed download leaves `sh` with nothing to do and exit
code 0), `stubborn` (an uninstall script that removes nothing), `norenew` (a
restart that brings no certificate), `unreadable` (no openssl: not knowing is
no error), `reboot`, `move` (a reboot with a new address), `edit` (the user
writes the file, takes the first line out, adds settings or names),
`handinstall`, and `rebootdown`, a reboot between `rke2-killall.sh` and
`rke2-uninstall.sh`. No run switches the last one on: RKE2 would come back,
the uninstall script leave it running and down still say Removed, as nothing
looks at services afterwards.

`ForeignConfigKept`, `OneDistribution` and `StepsForward` speak of every step
of a command (`CommandSteps`: the step it is at or its locals change), also of
one that leaves the command where it is, as the first of the steps of an
installation does.

VMs on the same host and the refusal to mix the modes are the business of
`HostModes`.

### Lifecycle

What `up` and `down` promise, whichever mode they work in. A host has `parts`,
some of which have `joined` the cluster. `up` only adds, `down` only takes
away, and either may end at any step without a word. Cluster ready is *said*
of a host that has parts, all of them joined; Removed of a host without any.
Somebody else's work on the host, or a host that stops answering, makes the
running command unsure (`Disturb`), and nothing is promised until the next one
begins; what was said before may be overtaken in the same way.

Two detailed modules keep it (`LifecycleKept` in each):

| `Lifecycle` | `VmCluster` | `HostCluster` |
|---|---|---|
| `parts` | the VMs that are defined | the distributions installed |
| `joined` | those in the cluster of the server that is there (`Members`) | those that come back with a reboot |
| `phase`, `said` | the step the command is at | the step the command is at |
| `sure` | `calm` and `steady` | `calm` |

The mapping hides what the two have least in common: keys, leases,
reservations and forwarding there, certificates and configuration here.

### Foundation, HostModes, Doctor and Tenancy

`HostModes` puts what the detailed modules leave out around an outline of what
they detail. A VM is built in one step and known by the distribution it was
sized for (`vms`); a distribution is on the host (`installed`) or in the
server's VM (`inside`). In exchange there are several terminals, and between
the first look at the host and the first VM there are the steps of
`virt.setup`: one probe, the packages (`tools`), libvirtd and its default
network, each with what runs now and what comes back with a boot, and the
verification that trusts no exit code.

The package manager is an actor of its own. An installation takes its lock
(`locked`) and begins; packages come one by one (`Arrives`) until all are
there or it is cut off (`InstallDone`, `InstallTorn`), whether anybody waits
for it or not: the ssh may give up before it began (`Lost`) or while it is at
work (`LeaveInstall`). Beside it, apt-get refuses and dnf waits; a command
that looks finds virsh there and libvirtd not yet. A reboot ends it in the
middle. That a Debian package starts its daemon by itself is left to the step
that enables it.

`Doctor` holds `diagnose` as one predicate on what the probe said (a check
whose number could not be read passes) and the two formulas for memory, the
one `doctor` prints and the one `check_fit` goes by. `MCHostModes` gives TLC
hosts with one problem each and hosts with the memory at the edges: 3547 MB,
which `doctor` accepts and no k3s VM fits, and 5596 MB, where two just fit.

Trouble: `abort`; `torn` (a package manager cut off with any part of the
packages there); `lost` (ssh gives up on its command: it has not had its
effect and may still have it, `Land`, at any later time until the next boot);
`netbusy` (the network's addresses are taken); `reboot`; `stop` (somebody
stops or disables a part of the foundation); `handtools` (the packages are
installed by hand, as the refusal advises).

Five history variables are no code. `blurred`: two commands overlapped, or the
answer of one was lost; from then on no look at the host is worth anything.
`torn`, `meddled`: a package installation was cut off, somebody changed the
foundation. `sound`: whether the foundation has been verified since it was
enabled. `faults`: trouble left.

`TenancyKept` is a refinement: with `holders` mapped to the modes that have
something on the host, every behaviour of `HostModes` is one of `Tenancy`, in
which a mode comes only where the other is not, as long as nothing is blurred.

### Kubeconfig

The file is absent, not UTF-8, no mapping, or a mapping of three sections,
each a list of named entries or something else (`bad`), with a
current-context. Names are either SSHerpa's (`Targets`) or the user's
(`Foreign`). `merge` and `remove` are split where a run can end: after
reading, after the backup, at the write. The user edits, spoils or deletes the
file at any time, also between SSHerpa's read and its write: what was edited
there is lost, as nothing is locked or compared, and the properties say what
holds all the same. `write_private` truncates the file before it fills it, so
a write may be cut off, at any character (`Cut`). The keys stand in the order
the user's file had them in, so what is left is no YAML any more, or any of
the keys, or one more of them in part: a pointer with a shorter name, a
section with some of its entries and one with a part of its name, a scrap of
`null`. Of a backup that is cut off (`CutBackup`) the model keeps no more than
that it is there: no code reads it. Names are taken as unique within a
section.

Two history variables are no code. `damaged`: entries of SSHerpa's were
changed by hand, or a write of the file was cut off, since a merge last came
to its end. `tattered`: the write of the backup was cut off.

### Inventory and AddressBook

A file is absent, no YAML mapping, a mapping with something else where the
targets should be, or a book of targets. A command reads and works in one step
(`Prepare`) and writes the whole file in another (`Save`); between the two
there may be another terminal, an editor, or the end. A refused command has
written nothing and takes no step. A field holds a value the checks let pass,
`Bad` (an empty text, a port out of range), or nothing. A write may be cut
off: what is left is no YAML, or a book with some of the targets, perhaps an
empty one.

`BookKept` is a refinement: the targets in the file are the `book` of
`AddressBook`, in which a command changes one target, at once, and in what was
given or unset only. Whatever else changes the file, an editor, a cut write,
or a command whose file was written since it read it, turns over `outside`,
and with it the abstract book may become anything. So the refinement says what
is promised: a command that is alone does what it says and nothing else,
wherever earlier ones were cut off and whatever was written by hand before.
`byhand` remembers which fields were ever written by hand or cut off: only
there may an invalid value be found (`CheckedOrByHand`), also when several
terminals overwrite each other.

## 3. The runs

All `pass` runs finish without error; the table says what is asked and why the
bounds let it happen.

| run | asks | instance |
|---|---|---|
| `VmMeddled` | Do up and down keep their word (`ReadyMeansEnterable`, `ForwardingFollowsServer`, `RemovedMeansGone`, `FreshVmTrusted`, `AddressesLeadHome`, `UpLeavesNodesAlone`) when commands end anywhere, VMs are removed by hand or switched off and the host reboots? | 2 nodes, 3 addresses, 2 faults |
| `VmAccidents` | Can libvirtd's silence, lost key files, VMs removed by hand or left-overs of interrupted runs make a reservation clash, a plan outgrow memory or mix two clusters, or a `down` take what nobody agreed to? Do the commands do what `Lifecycle` promises all the same? | 3 names, memory for 2, 2 addresses, 2 faults |
| `VmDownConverges` | Does every step bring its command forward, does every command end, and does repeating `down` get the host clean? | 1 node, 2 faults |
| `VmUpHeals` | Does repeating `up` get to ready after interruptions, power-offs and reboots? | 1 node, 2 addresses, 2 faults |
| `HostHeals` | Is the user's `config.yaml` kept, is ready covered by the certificate, is removed gone, does an address change heal? Do the commands do what `Lifecycle` promises, and go forward at every step? | 2 addresses, 3 faults |
| `ModesKept` | Do the two modes ever share a host (`TenancyKept`), two distributions a place, is an incapable host left alone, does a repeated set-up fail for nothing but packages being at work on or torn, or somebody's hand, and does what was verified stand a reboot, do VMs of one size leave the host its share? | 2 terminals, 2 nodes, 8 hosts, 1 fault |
| `KubeEdits` | Does the kubeconfig survive any order of merges, removals and edits, and a write cut at any character, and does a removal undo a merge? | 2 targets, 1 foreign name, 1 credential, 2 edits, 1 cut |
| `InventoryEdits` | Does each target command do one thing (`BookKept`), does nothing get past the checks, is a broken file left alone? | 2 terminals, 2 names, 1 optional field, 1 edit and its repair, 1 cut |
| `VmRerun`, `VmSilentVirsh`, `KubeTornBackup`, `MixedSizes` | four promises of the documentation the code does not keep, see section 5 | the smallest that shows it |

Bounds. Two nodes are a server and an agent; all the code does with a third it
does with the second, but for the names with gaps, and for those `VmAccidents`
has three names. One address more than nodes lets a lease move to an address
another VM had; with as many addresses as nodes every address is reused at
once. Identities are reused when no record mentions them; `AskUp` asks for as
many unused ones as there are node names (the bound of the model), and there
are enough for a build, its predecessor's traces and an agent. Two faults are
an interruption and something that happens to what it left, or two
interruptions in a row; `HostHeals` takes three, so that an edit, a move and
an interruption of the cure fall together. `ModesKept` gets its variety from
the second terminal, which is no fault: it may begin anything at any moment;
one fault is a lost answer, a torn install or a reboot in the midst of two
commands. One capable host is a Debian and one of the RedHat family, as their
package managers do not treat a lock alike. Two edits are enough to put an
entry in or take one away and point the current-context elsewhere, or spoil
the file, between two merges; one cut write may hit the backup, the config or
a removal, and a second would meet a file the first one, or an edit, could
have left. In `InventoryEdits` an edit writes any entry, valid or
not, and a spoilt file may be mended without another edit. The number of
commands is not bounded anywhere: state spaces are finite because counters of
commands do not exist. Liveness runs have one node and no symmetry: with two,
the moment in which `reserve_ip_step` has deleted an old entry and not yet
added the new one lets dnsmasq give the address to the other node.

Deadlock is checked in every run: the operator can always type a command.

### Fairness

- `WF_vars(Up \/ Down)`: a running command goes on. Each remote step has a
  timeout (`ssh.py`), each polling loop a deadline.
- `WF` of leases, cloud-init and the return of libvirtd, per VM: services of
  the host that systemd runs and restarts. It is not assumed that they are in
  time for a waiting command: the wait may give up first.
- `SF_vars(AskUp(0))`, `SF_vars(Inspect /\ pc' # "idle")` (`UpSpec`),
  `WF_vars(AskDown)`, `SF_vars(Confirm /\ pc' # "idle")` (`DownSpec`): the
  operator repeats the command and in the end gives the answer it needs. This
  is an assumption on the operator and it is what "re-running is safe" speaks
  of. Strong fairness, because a prompt is there only in passing.
- `HostCluster!FairSpec`: the same, and that the operator updates the target
  while it does not lead to the host, and chooses a distribution that fits.

Faults get no fairness and there are finitely many: "heals" means that after
the last one the system recovers.

### What the exceptions in the properties stand for

- `calm`: what a command promises at its end cannot hold against somebody who
  removes VMs or edits files *during* the command. Power cuts and reboots
  after the end do not touch `calm`, the promise has to outlive them.
- `steady` in `RemovedMeansGone`, `UpLeavesNodesAlone`, `BuildsInPlan` and
  `ReserveNeverClashes`: with a virsh that fails in the middle of the command,
  down does *not* keep the first of these; `VmSilentVirsh` shows it. In the
  same way `create` takes the silence for a missing VM.
- `AddressHeals` takes as given that no removal has begun (an interrupted
  `down` leaves RKE2 stopped, and `up` starts no stopped service), that in the
  long run `config.yaml` is SSHerpa's (else `up` stops and says so, which is
  right), and that at most one distribution is there whose installation got to
  its service: an installation cut off between its marker file and the start
  of its service is taken for complete by every later `up`.
- `blurred` in `TenancyKept` and `OneDistroPerPlace`: with two commands at
  once, or one that is still at work on the host, both modes *can* come to be
  there; nothing in the code could notice.
- `locked`, `torn` and `meddled` in `SetupSucceeds`: beside an installation
  that its ssh gave up, a repeat meets the lock, or virsh without libvirtd,
  and fails; it may be repeated when that one is done. virsh stands for all
  six packages, so a half-done installation that got as far as virsh is never
  finished. `meddled` also stands for a network whose addresses are taken.
- `damaged` in `OurPointerResolves`: a write cut off inside the pointer, or
  after it and before the contexts, leaves a current-context of SSHerpa's
  without an entry. Nothing notices until the next merge, which mends it.
- `tattered` in `BackupKeepsOriginal`: `KubeTornBackup` shows the case.
- `config = call.data` in `OthersUntouched`, `outside` in `BookKept`: nobody
  wrote the file since it was read.
- `ReadyMeansCovered` leaves out a certificate that could not be read: the
  code decides that not knowing is no reason to stop.

## 4. What is proved

Every safety property and action property of a `pass` run is a theorem, and so
are the four refinements (`Lifecycle` twice, `Tenancy`, `AddressBook`). They
hold for every number of nodes, terminals, targets and addresses, every
capacity, every set of identities, keys, values and hosts, any number of
faults, edits and cut writes, and any choice of troubles (with three
exceptions, named below). The assumptions are those the modules name; none
says more than what kind of thing a constant is:

- `VmHost`, `VmCluster`: there is a node number (`MaxNodesAssumption`),
  identities and keys are integers (`NumbersAssumption`), `None` is none of
  them (`NoneAssumption`), `CapacityAssumption`, and as everywhere
  `HazardsAssumption`, `MaxFaultsAssumption`.
- `HostCluster`: there is an address (`AddrsAssumption`).
- `Doctor`, `Foundation`: `None` is no number (`NoNumberAssumption`), hosts
  are what the probe can say (`HostsAssumption`).
- `Inventory`: the optional fields are the code's (`OptionalAssumption`), a
  value is valid or not (`ValuesAssumption`).
- `Kubeconfig`: SSHerpa's entries do not have the user's names
  (`EntryNamesAssumption`); `None` is no name and no file
  (`NothingAssumption`, `NoContentAssumption`).

Each proof has the same shape: an invariant that is inductive together with
the types, shown for the initial states and for one group of steps after the
other, and from which the property follows. The properties themselves are
hardly ever inductive. They speak of the end of a command, or of a step, and
what makes them true was seen or decided many steps before; the invariants
carry it along.

### VmCluster

| theorem | property | carried by |
|---|---|---|
| `TypeCorrect` | `TypeOK` | itself: `CommandOK` ties the locals to the step |
| `NothingIsLostUnasked` | `NothingLostUnasked` | `ConsentOK`: past the prompt there is consent if there is anything to destroy, and the VM in hand is a listed one |
| `ReservationsNeverClash` | `ReserveNeverClashes` | `ReserveReady`: libvirtd is up since set-up, and at the addition nothing is in its way |
| `UpNeverRebuilds` | `UpLeavesNodesAlone` | `NewNode`: what is being built does not exist |
| `OldHostKeyIsForgotten` | `FreshVmTrusted` | `Forgotten`: no host key is kept for the address of a VM just built |
| `AddressesAreNotSwapped` | `AddressesLeadHome` | `VmsApart`, `Homes` |
| `VmsAreBuiltInOrder` | `BuildsInPlan` | `Planned`, `Gapless`: the nodes that exist are the first of the plan, and it fits |
| `TheWayInLasts` | `ForwardingFollowsServer` | `UpInv`, `EntriesApart`, `ServerNoted`, `Forwarding` |
| `ReadyVmsAreEnterable` | `ReadyMeansEnterable` | `UpInv`, `EntriesApart` |
| `ReadyIsOneCluster` | `ReadyMeansOneCluster` | `UpInv`, `Joined` |
| `DownLeavesNothing` | `RemovedMeansGone` | `Removing` |
| `VmKeepsLifecycle` | `LifecycleKept` | `NewNode`, `UpInv`, `Joined`, `EntriesApart`, `Forwarding`, `Removing` |
| `CommandsGoForward` | `StepsForward` | the types |
| `OnlySilenceHidesVms` | `RemovedMeansNoVm` | `DownLeavesNothing`, and that `steady` stays |

`Homes` is the heart of it. It says how far the walk over the nodes has come:
the nodes before the current one run at the address noted for them, the
address is reserved for them, and SSHerpa has been inside, so that its key and
the host key it keeps fit (`Entered`); the current one has the part of this
that its step has made. That it stays true while dnsmasq gives leases needs
`VmsApart`: no two VMs share a MAC or an address. And that a *later* node
does not take the entry of an earlier one away, when `reserve_ip_step` deletes
whatever is in its way, needs that the addresses noted for two nodes differ,
which `Homes` says as both are those of running VMs. `UpInv` is the
conjunction of `VmsApart`, `Homes`, `Planned` and `Gapless`; `Planned` is what
tells that the walk ends at the last node there is, so that "every node of the
plan" is "every VM" when the command is ready.

After the command has ended the promises go on: a power cut or a reboot takes
the leases, and a VM that boots asks for one. That it gets the reserved one is
`EntriesApart`: an entry is the only one with its name, MAC or address.
`Forwarding` follows script, unit and kernel rule from the step that writes
the first to the boot that restores the last.

`Joined` needs to know who answers at the address of the server.
`ServerIsFirst` says that it is node-1: by `Homes` the address is node-1's, by
`VmsApart` nobody else's; then whatever is joined, counted and fetched is
node-1's cluster.

`Removing` says of each step of `down` what is still on the host: VMs among
the listed, of which the loop has removed the first; entries of the listed, or
stale ones; a forwarding only before `down.close`. It holds for a `down` that
meets any state earlier commands may have left, and needs none of the
invariants of `up`.

`VmKeepsLifecycle` is the refinement: each step of `VmCluster` is the
beginning of a command, a step of its work, one of its last words, a
disturbance, or a stutter of `Lifecycle`. It brings the other theorems
together and says more than they do, as it speaks of every step. That `up`
only adds is `NewNode` (what exists is not built again) and that a VM in a
cluster stays in it; that the last word is true is `Homes` with `Joined`, and
`Removing`. The member a step could silently lose is an agent whose *server*
is rebuilt: that is why `Members` asks for the disk of node-1.

`CommandsGoForward` is the safety half of termination. A command's steps are
put in stages, a stage in nodes, a node in lines, and every step goes up in
that order, or sweeps an entry away. Stages, nodes, lines and entries are
finitely many, so that a command has only so many steps to take whatever the
host does in between; that it takes them is `CommandsEnd`, which TLC checks.

`OnlySilenceHidesVms` has a hypothesis, `"libvirtd" \notin Hazards`. Without
it the property is false, which is the finding of `VmSilentVirsh`; the theorem
says that a virsh that fails in the middle is all there is to it.

The types are proved for the machines, the command and the history apart
(`MachinesTyped`, `CommandTyped`, `HistoryTyped`). What all the other proofs
keep using are the lemmas on what a step leaves of a VM, on what can happen
beside a command (`Beside`, `BesideCalm`) and on how a command goes on.

### HostCluster

- `HostClusterTyped`: `TypeOK`, with what the step needs: the address worked
  with is the target's, what is left to do belongs to the distribution in
  hand.
- `UserFilesAreKept`: `ForeignConfigKept`. The steps that write `config.yaml`,
  to install and to heal, do not look at it; `OwnershipStillHolds` carries the
  answer of `Preflight` and `CheckOwnership` to them.
- `OneDistributionOnTheHost`: `OneDistribution`, from `Alone`: an installer
  runs only where nothing but its own distribution was seen.
- `ReadyIsCovered`: `ReadyMeansCovered`, from `ReadyStepByStep`: what has been
  seen of the service, its certificate and the file by each step.
- `HostKeepsLifecycle`: `LifecycleKept`, the refinement, from `StaysAlone`
  (past its first look, `up` finds nothing installed but its own distribution)
  and `ComesBack` (what has been seen running is enabled), with
  `RemovalGoesOn` for Removed.
- `CommandsGoForward`: `StepsForward`, from the types: an installation crosses
  its steps off, the cure of the certificate runs once, and `down` takes the
  distribution in hand off its list. Steps that fail silently count as well.
- `RemovedIsGone`: `RemovedMeansGone`, from `RemovalGoesOn` (what is still
  installed is on the list) and `RunsWhatIsInstalled` (nothing runs or comes
  back with a boot that is not installed, and RKE2 is uninstalled stopped).
  This theorem has a hypothesis: `"rebootdown" \notin Hazards`. Without it the
  property is false (see `HostCluster` above), and no run switches that
  accident on. Every other trouble is allowed.

### HostModes and Foundation

- `HostModesTyped`: `TypeOK`.
- `ModesKeepTenancy`: `TenancyKept`, the refinement, and from the same
  invariant `OneDistroEverywhere`: `OneDistroPerPlace`. Each step of
  `HostModes` is mapped to the arrival or the leaving of a mode, to an
  accident, or to a stutter. That an arrival finds the host empty is `Alone`
  with `Sight`: as long as nothing is blurred only one command runs, nothing
  is still to land, and what the command saw at its look is still so. `Places`
  adds why looking suffices: VMs are visible to whoever has virsh, and where
  there are VMs there is virsh.
- `ModesNeverMeet`: what the refinement comes to for the host. VMs and a host
  install are never there at once while nothing is blurred. It rests on
  `TenancyProofs!ModesExclude`, a fact about `Tenancy` alone.
- `RefusedMeansUntouched`: `IncapableLeftAlone`. `NothingBegun` says that no
  command on such a host is past the first probe and no installation of
  packages is at work, also none whose ssh gave up on it.
- `SetupGoesThrough`: `SetupSucceeds`. `StepsHold`: packages are there all or
  none where nobody is at work on them, and each step finds done what those
  before it did: virsh is there past the install, the daemon is up past the
  step that enables it, the network past the one that starts it.
- `VerifiedStands`: `FoundationStands`. `BootsBack`: what runs is also marked
  to be started with the host.
- `EvenClustersFit`: `EvenClusterFits`. `check_fit` counts once and VMs are
  built much later, also by commands that were given up. `Sized` follows the
  count: wherever a VM is or is still to be built, as many of its size as its
  number says fit. The case to argue about is a server that was listed, so
  that nothing was counted, and is gone when it is its turn: it is rebuilt in
  the size for k3s, and one of those fits, since a VM was there before.

### Inventory and Kubeconfig

- `InventoryTyped`, `BrokenFileIsLeft`: `TypeOK`, `UnreadableUntouched`.
- `InventoryIsAnAddressBook`: `BookKept`, the refinement. The abstract change
  happens at the write, but what is written was worked out at the read;
  `WorkedOut` remembers that it is one change of what was read. Where the file
  is still the one that was read this is one change of the book; anywhere else
  the step turns `outside` over.
- `NothingSlipsIn`: `CheckedOrByHand`. `AllUnspoilt` says it of the file *and*
  of what every terminal still has to write: a terminal may put back a wrong
  value that was corrected meanwhile, but none that was never there.
- `KubeconfigTyped`: `TypeOK`, with what a removal relies on when it writes.
- `PointerResolves`: `OurPointerResolves`. `AllResolve` says it of the file
  and of the copy a removal has read. That a whole merge ends any damage needs
  nothing of what was cut.
- `BackupIsTheOriginal`: `BackupKeepsOriginal`. `FirstWrite`: until SSHerpa's
  first write there is no backup and nothing of SSHerpa's in the file.
- `OnlyCutsLoseTheOriginal`: `MergedMeansBackedUp`, under the hypothesis
  `MaxCuts = 0`, from `Whole`. With cut writes it is false, which is the
  finding of `KubeTornBackup`; edits, interruptions and the order of the
  commands do not bring it about.
- `OthersAreUntouched`: `OthersUntouched`, an action property, from the types
  and what the lemmas say of merging one section.
- `DownRestoresTheFile`: `DownUndoesUp`, by `RemoveUndoesMerge`, a lemma on
  the two operators for any content: what `merge` puts in, `remove` takes out,
  and the file is as it was. Up to empty sections and the order of keys, which
  the model does not tell apart.

### What is only model-checked

- All liveness: `CommandsEnd`, `DownConverges`, `FirstUpConverges`,
  `AddressHeals`. They rest on fairness, and so on ENABLED, which the prover
  does not treat.
- That the code does not keep the four sentences of section 5: these are
  counterexamples, found by TLC.

## 5. Where code and documentation part

Four runs find a behaviour of the code that a sentence of the documentation
excludes; `PROJECT.json` quotes the sentences.

- `VmRerun`: the host key kept for an address is forgotten only by the `up`
  that builds the VM. If that run ends too early, the key of an older VM at
  the same address locks every later `up` out: "Re-running is safe" does not
  hold where a cluster has come and gone.
- `VmSilentVirsh`: libvirtd failing after the listing makes `destroy` skip the
  VM, and `down` say Removed with the VM running. Nothing else leads there
  (`OnlySilenceHidesVms`).
- `KubeTornBackup`: the backup is made if there is no file of that name. One
  whose write was cut off is there, so it is never made again, and the next
  merge changes a config of which no copy exists. Nothing else leads there
  (`OnlyCutsLoseTheOriginal`).
- `MixedSizes`: the memory check takes all nodes to have the size of the
  distribution chosen now. A server built for RKE2 by an `up` that ended
  before the cluster was installed is twice that, and a second node is built
  into memory the host was to keep. Where all VMs are of one size the check is
  enough (`EvenClustersFit`).

Met while modelling; the models do the same, and no run is kept for them:

- `cluster.py:406`: an installation interrupted after its marker file and
  before its service starts is taken for complete by every later `up`
  (`FirstUpConverges` fails with the hazard `halfinstall`).
- `cli.py:1487`: a `down` interrupted once the VMs are gone, and repeated,
  says Removed and leaves the local kubeconfig of the dead cluster: the names
  come from the VMs that are listed.
- `distro.py:124`: the first line of `config.yaml` says to remove it to take
  ownership; a file without it that holds nothing but `tls-san` is taken for
  one of SSHerpa up to 0.5.0 and written over.
- `virt.py:182`: a package installation that is cut off once virsh is there is
  never finished by a later `up`; `setup` calls itself safe to repeat.
- `virt.py:88` and `ssh.py:377`: an installation that outlives its timeout
  holds the lock of apt, or has brought virsh and not yet libvirtd; a repeat
  beside it fails.
- `kubeconfig.py:36`: a write cut off in the middle can leave SSHerpa's
  current-context cut short, or without its entry, until the next merge.
- `vm.py:833`: where libvirtd is installed and stopped, `list_vms` refuses
  before `setup` could start it again.
- `doctor.py:20`: from 3500 to 3547 MB a host is called capable of VMs and has
  room for none.
- `cli.py:1305`: "SSHerpa does not make this state" (both modes on one host);
  two terminals do, and an install that outlives its timeout.
- `inventory.py:124`: `all:` without a value, and a file that is not UTF-8,
  end in a traceback.
- `inventory.py:349`: `update` writes the file and then ends in an error if a
  port that was broken by hand is kept.
- `inventory.py:117`: an inventory that a cut write left empty reads as one
  without targets.
- `kubeconfig.py:66`: a `~/.kube/config` that is not UTF-8 raises an error no
  caller catches; `up` ends with a traceback after the cluster is ready.
- `kubeconfig.py:113`: if there was no file at the first merge, the second
  merge keeps SSHerpa's own file as the "backup" (`BackupKeepsOriginal` asks
  only for the case with a file).
- `vm.py:157`: a lost private key with its public half left passes for a key
  pair, and the VM that is built with it opens to nobody.
- `vm.py:295` and `:432`: a silent virsh during `create` passes for a missing
  VM, and its disk is made anew.
- `distro.py:213`: a download that fails is a step that succeeds.

## 6. Plan

Done: `VmHost`, `VmCluster`, `Kubeconfig`, `HostCluster`, then `Doctor`,
`Foundation` and `HostModes` with `Tenancy`, the cut writes of `Kubeconfig`,
`Inventory` with `AddressBook`, and `Lifecycle` for both kinds of cluster;
theorems for all of them. The questions
are kept to a dozen runs, so a new module's runs replaced or extended older
ones where an instance answers both.

Left:

1. Several targets with their kubeconfig entries: the labels of targets and of
   nodes of other targets can coincide (`vm.py:83`).
2. The delay with which a server notices a lost node (`cluster.py:208`).

## 7. Not modelled

- Wording, layout, logging, exit codes and the prompts' texts.
- `status`, `check`, `ssh`, `doctor`, `target list`: they look and print.
- The ssh command line, its quoting and the classification of its errors: a
  remote command succeeds, fails, or is given up and goes on.
- The text of the doctor's probe, its labels and hints; the operating systems
  and their versions (`facts.py`, `probe.py`, `support.py`).
- The contents of what is downloaded, and Kubernetes itself: a service that
  runs is ready when the wait says so; the delay with which a server notices a
  lost node is left out.
- `~/.kube/config` and the fetched file are one variable each in the cluster
  modules; what merging does is the business of `Kubeconfig`.

## 8. Running it

    tlc -workers 2 -config VmMeddled.cfg MCVmCluster.tla
    tlapm VmSafetyProofs.tla

`PROJECT.json` names the module and the configuration of each run. The longest
takes two to three minutes, the proofs together about ten.
