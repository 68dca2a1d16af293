----------------------------- MODULE Foundation -----------------------------
(***************************************************************************)
(* virt.setup: what `up --vm' puts under its VMs.  One action is one       *)
(* remote command of the set-up, issued from a terminal of Clis.  The      *)
(* package manager takes its time and a lock, may be cut off in the        *)
(* middle, and goes on if its ssh is given up (ssh.run), like any command. *)
(*                                                                         *)
(* HostModes puts these steps between the others of `up --vm'.             *)
(***************************************************************************)
EXTENDS Doctor, FiniteSets

CONSTANTS Clis,       \* terminals from which commands are given
          Hosts,      \* what the hosts of the run are like
          MaxNodes,   \* the highest node number
          Hazards,    \* which kinds of trouble the run contains
          MaxFaults   \* bound: how often trouble strikes

ASSUME HostsAssumption == Hosts \subseteq HostFacts
ASSUME MaxNodesAssumption == MaxNodes \in Nat \ {0}
ASSUME HazardsAssumption ==
  Hazards \subseteq {"abort", "torn", "lost", "netbusy", "reboot", "stop",
                     "handtools"}
ASSUME MaxFaultsAssumption == MaxFaults \in Nat

VARIABLES
  facts,    \* the machine and its system
  tools,    \* what is installed of the packages
  locked,   \* a package manager is at work
  daemon,   \* libvirtd
  net,      \* its default network
  late,     \* commands that go on without the ssh that started them
  pc, cli,  \* of every terminal: its step, its local variables
  blurred,  \* two commands overlapped, or the answer of one was lost
  torn,     \* a package installation was cut off
  meddled,  \* somebody changed the foundation by hand
  sound,    \* "building" since it was enabled, "yes" since it was verified;
            \* "no" again once somebody stopped a part of it
  faults    \* trouble left

hostVars == <<tools, locked, daemon, net>>
ghostVars == <<blurred, torn, meddled, sound, faults>>

-----------------------------------------------------------------------------
Nodes == 1..MaxNodes
\* libvirt-clients; libvirt-daemon-system; virtinst with the image tools.
Packages == {"virsh", "libvirtd", "virt-install"}
CanInstall == facts.family # "other"

Command == [nodes : 0..MaxNodes,     \* --nodes; 0: not said
            distro : Opt(Distros),   \* --distro, then the one chosen
            listed : SUBSET Nodes,   \* VMs that were there at the start
            host : SUBSET Distros,   \* down: what was found installed
            cur : 0..MaxNodes]       \* the node being built
NoCommand == [nodes |-> 0, distro |-> None, listed |-> {}, host |-> {},
              cur |-> 0]

AtRest == {"idle", "unfounded"}
SetupSteps == {"setup.preflight", "setup.install", "setup.unpack",
               "setup.enable", "setup.network", "setup.verify"}

Go(c, s, k) ==
  pc' = [pc EXCEPT ![c] = s] /\ cli' = [cli EXCEPT ![c] = k]
End(c, outcome) == Go(c, outcome, NoCommand)
Done(c) == End(c, "idle")
Fail(c) == End(c, "idle")
Strikes(kind) == kind \in Hazards /\ faults > 0 /\ faults' = faults - 1

\* subprocess.run gives up on its ssh, or the operator does: the remote
\* command has not had its effect and may still have it.
Lost(c, effect) ==
  /\ Strikes("lost")
  /\ late' = late \cup {effect} /\ blurred' = TRUE
  /\ Fail(c)
  /\ UNCHANGED <<torn, meddled, sound>>
\* Effects are records of one shape.
Effect(kind, distro, node) == [kind |-> kind, distro |-> distro, node |-> node]
Effects == [kind : {"packages", "build", "destroy", "install", "uninstall"},
            distro : Opt(Distros), node : 0..MaxNodes]

-----------------------------------------------------------------------------
FoundationInit ==
  /\ facts \in Hosts
  /\ tools = {} /\ locked = FALSE /\ late = {}
  /\ daemon = [on |-> FALSE, enabled |-> FALSE]
  /\ net = [on |-> FALSE, auto |-> FALSE]
  /\ pc = [c \in Clis |-> "idle"] /\ cli = [c \in Clis |-> NoCommand]
  /\ blurred = FALSE /\ torn = FALSE /\ meddled = FALSE /\ sound = "no"
  /\ faults = MaxFaults

\* Broken: the verdict is left to the verification at the end.
PreflightLater(c) ==
  /\ pc[c] = "setup.preflight"
  /\ IF "virsh" \in tools THEN Go(c, "setup.enable", cli[c])
     ELSE IF CanInstall THEN Go(c, "setup.install", cli[c]) ELSE Fail(c)
  /\ UNCHANGED <<facts, hostVars, late, ghostVars>>

\* One probe.  An incapable host is refused before anything is installed; a
\* virsh that answers stands for all the packages.
Preflight(c) ==
  /\ pc[c] = "setup.preflight"
  /\ IF ~Capable(facts) THEN Fail(c)
     ELSE IF "virsh" \in tools THEN Go(c, "setup.enable", cli[c])
     ELSE IF CanInstall THEN Go(c, "setup.install", cli[c]) ELSE Fail(c)
  /\ UNCHANGED <<facts, hostVars, late, ghostVars>>

\* The package manager takes its lock and begins.  While another one holds it
\* apt-get refuses and dnf waits; what was cut off apt-get may refuse to touch.
InstallPackages(c) ==
  /\ pc[c] = "setup.install"
  /\ \/ /\ ~locked /\ locked' = TRUE
        /\ Go(c, "setup.unpack", cli[c])
        /\ UNCHANGED <<late, ghostVars>>
     \/ /\ facts.family = "Debian" /\ (locked \/ torn)
        /\ End(c, "unfounded")
        /\ UNCHANGED <<locked, late, ghostVars>>
     \/ Lost(c, Effect("packages", None, 0)) /\ UNCHANGED locked
  /\ UNCHANGED <<facts, tools, daemon, net>>

\* ssh gives up, the package manager does not.
LeaveInstall(c) ==
  /\ pc[c] = "setup.unpack"
  /\ Strikes("lost") /\ blurred' = TRUE
  /\ Fail(c)
  /\ UNCHANGED <<facts, hostVars, late, torn, meddled, sound>>

\* Broken: systemctl start, which the next boot does not know of.
StartDaemon(c) ==
  /\ pc[c] = "setup.enable"
  /\ IF "libvirtd" \in tools
     THEN /\ daemon' = [daemon EXCEPT !.on = TRUE]
          /\ net' = [net EXCEPT !.on = @ \/ (net.auto /\ ~daemon.on)]
          /\ sound' = IF sound = "no" THEN "building" ELSE sound
          /\ Go(c, "setup.network", cli[c])
     ELSE End(c, "unfounded") /\ UNCHANGED <<daemon, net, sound>>
  /\ UNCHANGED <<facts, tools, locked, late, blurred, torn, meddled, faults>>

\* systemctl enable --now; libvirtd, if it was not up yet, starts the networks
\* marked for it.
EnableDaemon(c) ==
  /\ pc[c] = "setup.enable"
  /\ IF "libvirtd" \in tools
     THEN /\ daemon' = [on |-> TRUE, enabled |-> TRUE]
          /\ net' = [net EXCEPT !.on = @ \/ (net.auto /\ ~daemon.on)]
          /\ sound' = IF sound = "no" THEN "building" ELSE sound
          /\ Go(c, "setup.network", cli[c])
     ELSE End(c, "unfounded") /\ UNCHANGED <<daemon, net, sound>>
  /\ UNCHANGED <<facts, tools, locked, late, blurred, torn, meddled, faults>>

VirshAnswers == "virsh" \in tools /\ daemon.on

\* Broken: net-start without a look whether the network is up.
StartNetworkBlindly(c) ==
  /\ pc[c] = "setup.network"
  /\ IF VirshAnswers /\ ~net.on
     THEN net' = [on |-> TRUE, auto |-> TRUE] /\ Go(c, "setup.verify", cli[c])
     ELSE net' = [net EXCEPT !.auto = TRUE] /\ End(c, "unfounded")
  /\ UNCHANGED <<facts, tools, locked, daemon, late, ghostVars>>

\* net-autostart, and net-start unless it is up already: the network may be
\* marked and then fail to start, its addresses being taken.
StartNetwork(c) ==
  /\ pc[c] = "setup.network"
  /\ \/ /\ VirshAnswers
        /\ net' = [on |-> TRUE, auto |-> TRUE]
        /\ Go(c, "setup.verify", cli[c]) /\ UNCHANGED ghostVars
     \/ /\ VirshAnswers /\ ~net.on /\ Strikes("netbusy")
        /\ net' = [net EXCEPT !.auto = TRUE]
        /\ End(c, "unfounded")
        /\ meddled' = TRUE /\ UNCHANGED <<blurred, torn, sound>>
     \/ ~VirshAnswers /\ End(c, "unfounded") /\ UNCHANGED <<net, ghostVars>>
  /\ UNCHANGED <<facts, tools, locked, daemon, late>>

\* No exit code is trusted: virsh, the daemon and the network are asked.
Verify(c) ==
  /\ pc[c] = "setup.verify"
  /\ IF VirshAnswers /\ net.on
     THEN /\ Go(c, "vm.fit", cli[c])
          /\ sound' = IF sound = "building" THEN "yes" ELSE sound
     ELSE End(c, "unfounded") /\ UNCHANGED sound
  /\ UNCHANGED <<facts, hostVars, late, blurred, torn, meddled, faults>>

Setup(c) ==
  \/ Preflight(c) \/ InstallPackages(c) \/ LeaveInstall(c)
  \/ EnableDaemon(c) \/ StartNetwork(c) \/ Verify(c)

-----------------------------------------------------------------------------
(* The package manager at work, whether anybody waits for it or not        *)

\* Packages come one by one; a command looks at the host in between.
Arrives(p) ==
  /\ locked /\ p \notin tools
  /\ tools' = tools \cup {p}
  /\ UNCHANGED <<facts, locked, daemon, net, late, pc, cli, ghostVars>>

InstallDone ==
  /\ locked /\ tools = Packages /\ locked' = FALSE
  /\ pc' = [c \in Clis |-> IF pc[c] = "setup.unpack" THEN "setup.enable"
                          ELSE pc[c]]
  /\ UNCHANGED <<facts, tools, daemon, net, late, cli, ghostVars>>

\* Killed, or the disk is full: what is there is there.
InstallTorn ==
  /\ locked /\ locked' = FALSE
  /\ Strikes("torn") /\ torn' = TRUE
  /\ pc' = [c \in Clis |-> IF pc[c] = "setup.unpack" THEN "unfounded"
                          ELSE pc[c]]
  /\ cli' = [c \in Clis |-> IF pc[c] = "setup.unpack" THEN NoCommand
                           ELSE cli[c]]
  /\ UNCHANGED <<facts, tools, daemon, net, late, blurred, meddled, sound>>

PackageManager ==
  (\E p \in Packages : Arrives(p)) \/ InstallDone \/ InstallTorn

-----------------------------------------------------------------------------
(* The host without SSHerpa                                                *)

\* Every session ends, every lost command too; a package manager is cut off.
Reboot ==
  /\ Strikes("reboot")
  /\ locked' = FALSE /\ torn' = (torn \/ locked)
  /\ daemon' = [daemon EXCEPT !.on = daemon.enabled]
  /\ net' = [net EXCEPT !.on = daemon.enabled /\ net.auto]
  /\ late' = {}
  /\ pc' = [c \in Clis |-> IF pc[c] \in AtRest THEN pc[c] ELSE "idle"]
  /\ cli' = [c \in Clis |-> NoCommand]
  /\ UNCHANGED <<facts, tools, blurred, meddled, sound>>

\* systemctl stop or disable, net-destroy.
HandStop ==
  /\ Strikes("stop")
  /\ \/ daemon.on /\ daemon' = [daemon EXCEPT !.on = FALSE] /\ UNCHANGED net
     \/ daemon.enabled /\ daemon' = [daemon EXCEPT !.enabled = FALSE]
        /\ UNCHANGED net
     \/ net.on /\ net' = [on |-> FALSE, auto |-> FALSE] /\ UNCHANGED daemon
  /\ meddled' = TRUE /\ sound' = "no"
  /\ UNCHANGED <<facts, tools, locked, late, pc, cli, blurred, torn>>

\* The way the refusal names: install QEMU and libvirt yourself.
HandTools ==
  /\ Strikes("handtools") /\ ~locked
  /\ tools' = Packages
  /\ meddled' = TRUE
  /\ UNCHANGED <<facts, locked, daemon, net, late, pc, cli, blurred, torn, sound>>
=============================================================================
