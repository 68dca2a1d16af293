----------------------------- MODULE VmCluster -----------------------------
(***************************************************************************)
(* `ssherpa up --vm [--nodes n]' and `ssherpa down' from the listing of    *)
(* the VMs to the last local file: cli._up_vm, cli.down, vm.create,        *)
(* vm.expose_api, vm.destroy and, in outline, cluster.up.  One action is   *)
(* one remote or local command the CLI issues; between two of them the     *)
(* host may change under it, and any of them may be the last one.          *)
(*                                                                         *)
(* One operator types commands into one terminal.                          *)
(***************************************************************************)
EXTENDS VmHost

CONSTANTS Capacity,   \* how many VMs the host's memory takes (check_fit)
          Hazards,    \* which kinds of trouble the run contains
          MaxFaults   \* bound: how often trouble strikes

ASSUME CapacityAssumption == Capacity \in Nat
ASSUME HazardsAssumption ==
  Hazards \subseteq {"abort", "halfinstall", "undefine", "poweroff", "reboot",
                     "losekey", "libvirtd", "handinstall"}
ASSUME MaxFaultsAssumption == MaxFaults \in Nat

VARIABLES
  pc,      \* the step the running command is at, or how the last one ended
  cli,     \* the local variables of the running command
  calm,    \* nobody meddled since the last command started
  steady,  \* libvirtd has answered since the last command started
  faults   \* trouble left

ghostVars == <<calm, steady, faults>>
vars == <<libvirt, hostInstalled, vm, resv, fwd, priv, pub, known, kubefile,
          context, pc, cli, calm, steady, faults>>

-----------------------------------------------------------------------------
AtRest == {"idle", "ready", "removed", "nothing"}
CreateSteps == {"create.preflight", "create.key", "create.disk", "create.boot",
                "create.start", "create.ip", "create.forget",
                "create.unreserve", "create.reserve", "create.ssh"}
UpSteps == CreateSteps \cup
  {"up.list", "up.setup", "up.inspect", "expose.write", "expose.enable",
   "expose.restart", "cluster.server", "cluster.start", "cluster.wait",
   "cluster.join", "cluster.enter", "cluster.ready", "cluster.fetch",
   "cluster.merge"}
\* The distribution's marker is there and its service is not yet started.
Installing == {"cluster.start", "cluster.enter"}
DownSteps ==
  {"down.list", "down.forwarding", "down.stale", "down.confirm",
   "destroy.preflight", "destroy.mac", "destroy.undefine", "destroy.release",
   "destroy.verify", "down.close", "down.local", "down.sweep",
   "down.uninstall"}

Command == [want : 0..MaxNodes,     \* nodes of the plan; 0: not said
            listed : SUBSET Nodes,  \* what list_vms answered
            cur : 0..MaxNodes,      \* the node being worked on
            fresh : BOOLEAN,        \* create: it did not exist
            key : Opt(Keys),        \* create: the public key to seed
            ips : [Nodes -> Opt(Addrs)],  \* up: VmInfo.ip of every node
            host : BOOLEAN,         \* down: a host-mode install was found
            fwd : BOOLEAN,          \* down: forwarding was found
            stale : SUBSET Reservation,
            mac : Opt(Ids),         \* destroy: MAC read before undefine
            consent : BOOLEAN]      \* down: the operator said yes
NoCommand == [want |-> 0, listed |-> {}, cur |-> 0, fresh |-> FALSE,
              key |-> None, ips |-> [n \in Nodes |-> None], host |-> FALSE,
              fwd |-> FALSE, stale |-> {}, mac |-> None, consent |-> FALSE]

Init ==
  /\ HostInit
  /\ pc = "idle" /\ cli = NoCommand
  /\ calm = TRUE /\ steady = TRUE /\ faults = MaxFaults

\* The command goes on to step s with locals c, or ends.
Go(s, c) == pc' = s /\ cli' = c /\ UNCHANGED ghostVars
End(outcome) == Go(outcome, NoCommand)
Fail == End("idle")
\* A step that only looks: neither machine changes.
Looks == UNCHANGED <<hostVars, localVars>>
OnlyVm == UNCHANGED <<libvirt, hostInstalled, resv, fwd, localVars>>
OnlyResv == UNCHANGED <<libvirt, hostInstalled, vm, fwd, localVars>>
OnlyFwd == UNCHANGED <<libvirt, hostInstalled, vm, resv, localVars>>

Begin(s, c) ==
  /\ pc \in AtRest
  /\ pc' = s /\ cli' = c
  /\ calm' = TRUE /\ steady' = TRUE /\ UNCHANGED faults
  /\ Looks

-----------------------------------------------------------------------------
(* ssherpa up --vm                                                         *)

\* A host-mode install is refused.  The bound of the model: identities are
\* left for a whole plan.
AskUp(nodes) ==
  /\ ~hostInstalled
  /\ Cardinality(FreshIds) >= MaxNodes
  /\ Begin("up.list", [NoCommand EXCEPT !.want = nodes])

\* The size of the plan: what was asked for, or what is there, at least one.
Plan == IF cli.want = 0
        THEN IF DefinedNodes = {} THEN 1 ELSE Cardinality(DefinedNodes)
        ELSE cli.want
\* Broken: names that are not 1..k are counted and planned with.
PlanIgnoresGaps == libvirt # "down" /\ Cardinality(DefinedNodes) <= Plan

\* list_vms fails when virsh does not answer; a plan never shrinks a cluster
\* and never starts from names that are not 1..k.
PlanStands ==
  /\ libvirt # "down"
  /\ Cardinality(DefinedNodes) <= Plan
  /\ DefinedNodes = 1..Cardinality(DefinedNodes)

ListForUp ==
  /\ pc = "up.list"
  /\ IF PlanStands
     THEN Go("up.setup", [cli EXCEPT !.want = Plan, !.listed = DefinedNodes])
     ELSE Fail
  /\ Looks

\* virt.setup, and check_fit when there is nothing on the host yet.
Setup ==
  /\ pc = "up.setup"
  /\ libvirt' = "up"
  /\ IF cli.listed = {} /\ cli.want > Capacity
     THEN Fail
     ELSE Go("create.preflight", [cli EXCEPT !.cur = 1])
  /\ UNCHANGED <<hostInstalled, vm, resv, fwd, localVars>>

\* Broken: only a running VM counts as existing.
CreateUnlessRunning ==
  /\ pc = "create.preflight"
  /\ IF VmState(cli.cur) = "running"
     THEN Go("create.ip", cli)
     ELSE Go("create.key", [cli EXCEPT !.fresh = TRUE])
  /\ Looks

\* An existing VM is reused, but only with the key it was built with.
CreatePreflight ==
  /\ pc = "create.preflight"
  /\ LET state == VmState(cli.cur) IN
     CASE state # "" /\ priv = None -> Fail
       [] state = "running" /\ priv # None -> Go("create.ip", cli)
       [] state = "shut off" /\ priv # None -> Go("create.start", cli)
       [] OTHER -> Go("create.key", [cli EXCEPT !.fresh = TRUE])
  /\ Looks

\* The public key decides: it is read if it is there, derived from the
\* private key if only that is left, and made new otherwise.
EnsureLocalKey ==
  /\ pc = "create.key"
  /\ \/ pub # None /\ UNCHANGED <<priv, pub>>
     \/ pub = None /\ priv # None /\ pub' = priv /\ UNCHANGED priv
     \/ pub = None /\ priv = None
        /\ \E k \in Least(FreshKeys) : priv' = k /\ pub' = k
  /\ Go("create.disk", [cli EXCEPT !.key = pub'])
  /\ UNCHANGED <<hostVars, known, kubefile, context>>

\* Image, disk and seed.  A VM that exists after all keeps its disk only
\* while qemu holds the lock on it.
CreateDisk ==
  /\ pc = "create.disk"
  /\ IF vm[cli.cur].on
     THEN Fail /\ UNCHANGED vm
     ELSE /\ Go("create.boot", cli)
          /\ IF Defined(cli.cur)
             THEN \E i \in Least(FreshIds) :
                    vm' = [vm EXCEPT ![cli.cur] =
                             [NoVm EXCEPT !.mac = vm[cli.cur].mac,
                                          !.disk = i, !.key = cli.key]]
             ELSE UNCHANGED vm
  /\ OnlyVm

\* virt-install --autostart; it refuses a name that is defined.
Boot ==
  /\ pc = "create.boot"
  /\ IF libvirt = "up" /\ ~Defined(cli.cur)
     THEN /\ Go("create.ip", cli)
          /\ \E i \in Least(FreshIds) :
               vm' = [vm EXCEPT ![cli.cur] =
                        [NoVm EXCEPT !.mac = i, !.disk = i, !.on = TRUE,
                                     !.key = cli.key]]
     ELSE Fail /\ UNCHANGED vm
  /\ OnlyVm

\* Broken: a VM that is switched off is left off.
StartNothing ==
  /\ pc = "create.start" /\ Go("create.ip", cli) /\ Looks

Start ==
  /\ pc = "create.start"
  /\ IF VmState(cli.cur) = "shut off"
     THEN Go("create.ip", cli) /\ vm' = [vm EXCEPT ![cli.cur].on = TRUE]
     ELSE Fail /\ UNCHANGED vm
  /\ OnlyVm

\* Broken: any line of the lease book will do.
WaitForAnyIp ==
  /\ pc = "create.ip"
  /\ \E m \in Nodes :
       IF MacOf(cli.cur) # None /\ vm[m].addr # None
       THEN Go(IF cli.fresh THEN "create.forget" ELSE "create.unreserve",
               [cli EXCEPT !.mac = MacOf(cli.cur),
                           !.ips[cli.cur] = vm[m].addr])
       ELSE Fail
  /\ Looks

\* Broken: only a VM just built gets a reservation.
WaitForIpFreshOnly ==
  /\ pc = "create.ip"
  /\ IF MacOf(cli.cur) # None /\ vm[cli.cur].addr # None
     THEN Go(IF cli.fresh THEN "create.forget" ELSE "create.ssh",
             [cli EXCEPT !.mac = MacOf(cli.cur),
                         !.ips[cli.cur] = vm[cli.cur].addr])
     ELSE Fail
  /\ Looks

\* wait_for_ip: the lease of the VM's own MAC, or an error at the deadline.
WaitForIp ==
  /\ pc = "create.ip"
  /\ IF MacOf(cli.cur) # None /\ vm[cli.cur].addr # None
     THEN Go(IF cli.fresh THEN "create.forget" ELSE "create.unreserve",
             [cli EXCEPT !.mac = MacOf(cli.cur),
                         !.ips[cli.cur] = vm[cli.cur].addr])
     ELSE Fail
  /\ Looks

\* Broken: the host key of the VM that had the address before is kept.
ForgetNoHostKey ==
  /\ pc = "create.forget" /\ Go("create.unreserve", cli) /\ Looks

ForgetHostKey ==
  /\ pc = "create.forget"
  /\ known' = [known EXCEPT ![cli.ips[cli.cur]] = None]
  /\ Go("create.unreserve", cli)
  /\ UNCHANGED <<hostVars, priv, pub, kubefile, context>>

\* Broken: an old entry is looked for by MAC and address only.
UnreserveKeepsName ==
  /\ pc = "create.unreserve"
  /\ resv' = IF libvirt = "up"
             THEN {r \in resv : r.mac # cli.mac /\ r.ip # cli.ips[cli.cur]}
             ELSE resv
  /\ Go("create.reserve", cli)
  /\ OnlyResv

\* reserve_ip_step: three deletions whose failures are swallowed ...
Unreserve ==
  /\ pc = "create.unreserve"
  /\ resv' = IF libvirt = "up"
             THEN WithoutReservation(cli.mac, cli.ips[cli.cur], cli.cur)
             ELSE resv
  /\ Go("create.reserve", cli)
  /\ OnlyResv

\* ... and one addition whose failure ends the command.
Reserve ==
  /\ pc = "create.reserve"
  /\ IF CanReserve(cli.mac, cli.ips[cli.cur], cli.cur)
     THEN /\ resv' = resv \cup {[name |-> cli.cur, mac |-> cli.mac,
                                 ip |-> cli.ips[cli.cur]]}
          /\ Go("create.ssh", cli)
     ELSE Fail /\ UNCHANGED resv
  /\ OnlyResv

\* Broken: the plan has one node too many.
NextNodeOffByOne ==
  IF cli.cur <= cli.want
  THEN Go("create.preflight",
          [cli EXCEPT !.cur = @ + 1, !.fresh = FALSE, !.key = None,
                      !.mac = None])
  ELSE Go("expose.write",
          [cli EXCEPT !.fresh = FALSE, !.key = None, !.mac = None])

\* The next node of the plan; an existing server is looked into first.
NextNode ==
  IF cli.cur < cli.want
  THEN Go("create.preflight",
          [cli EXCEPT !.cur = @ + 1, !.fresh = FALSE, !.key = None,
                      !.mac = None])
  ELSE Go("expose.write",
          [cli EXCEPT !.fresh = FALSE, !.key = None, !.mac = None])

\* wait_for_ssh: accept-new keeps the host key of an address it did not know.
WaitForSsh ==
  /\ pc = "create.ssh"
  /\ LET ip == cli.ips[cli.cur] IN
     IF Enterable(ip) # {}
     THEN /\ \E m \in Enterable(ip) : known' = [known EXCEPT ![ip] = vm[m].disk]
          /\ IF cli.cur = 1 /\ cli.listed # {}
             THEN Go("up.inspect", cli)
             ELSE NextNode
     ELSE Fail /\ UNCHANGED known
  /\ UNCHANGED <<hostVars, priv, pub, kubefile, context>>

\* Broken: growing a cluster is not checked against the host's memory.
InspectWithoutFit ==
  /\ pc = "up.inspect"
  /\ IF Enterable(cli.ips[1]) # {} THEN NextNode ELSE Fail
  /\ Looks

\* The distribution inside the server decides the size of new VMs.  Asking
\* for another one, or for more than fits, is refused.
Inspect ==
  /\ pc = "up.inspect"
  /\ \/ Enterable(cli.ips[1]) # {} /\ cli.want <= Capacity /\ NextNode
     \/ Enterable(cli.ips[1]) = {} /\ Fail
     \/ cli.want > Capacity /\ Fail
     \/ (\E m \in Enterable(cli.ips[1]) : vm[m].installed) /\ Fail
  /\ Looks

\* expose_api_step runs under set -e: files, then enable, then restart ...
ExposeWrite ==
  /\ pc = "expose.write"
  /\ fwd' = [fwd EXCEPT !.script = cli.ips[1]]
  /\ Go("expose.enable", cli)
  /\ OnlyFwd

ExposeEnable ==
  /\ pc = "expose.enable"
  /\ fwd' = [fwd EXCEPT !.enabled = TRUE]
  /\ Go("expose.restart", cli)
  /\ OnlyFwd

\* Broken: systemctl start does nothing to a unit that has run.
ExposeStart ==
  /\ pc = "expose.restart"
  /\ fwd' = [fwd EXCEPT !.rule = IF @ = None THEN fwd.script ELSE @]
  /\ IF fwd.enabled THEN Go("cluster.server", cli) ELSE Fail
  /\ OnlyFwd

\* ... and expose_api asks whether the unit would survive a reboot.
ExposeRestart ==
  /\ pc = "expose.restart"
  /\ fwd' = [fwd EXCEPT !.rule = fwd.script]
  /\ IF fwd.enabled THEN Go("cluster.server", cli) ELSE Fail
  /\ OnlyFwd

\* A distribution whose marker is there is not installed again ...
ClusterServer ==
  /\ pc = "cluster.server"
  /\ \/ \E s \in Enterable(cli.ips[1]) :
          /\ vm' = [vm EXCEPT ![s].installed = TRUE]
          /\ Go(IF vm[s].installed THEN "cluster.wait" ELSE "cluster.start", cli)
     \/ Enterable(cli.ips[1]) = {} /\ Fail /\ UNCHANGED vm
  /\ OnlyVm

ClusterStart ==
  /\ pc = "cluster.start"
  /\ \/ \E s \in Enterable(cli.ips[1]) :
          /\ vm' = [vm EXCEPT ![s].cluster = IF @ = None THEN vm[s].disk ELSE @]
          /\ Go("cluster.wait", cli)
     \/ Enterable(cli.ips[1]) = {} /\ Fail /\ UNCHANGED vm
  /\ OnlyVm

\* The state of a cluster, its credentials and its token are a server's: an
\* agent has neither kubeconfig nor token.
Servers(ip) ==
  {s \in Enterable(ip) : vm[s].cluster # None /\ vm[s].cluster = vm[s].disk}

\* ... but waited for until a deadline.
ClusterWait ==
  /\ pc = "cluster.wait"
  /\ IF Servers(cli.ips[1]) # {}
     THEN Go(IF cli.want > 1 THEN "cluster.join" ELSE "cluster.ready",
             [cli EXCEPT !.cur = IF cli.want > 1 THEN 2 ELSE @])
     ELSE Fail
  /\ Looks

NextAgent ==
  IF cli.cur < cli.want THEN Go("cluster.join", [cli EXCEPT !.cur = @ + 1])
                        ELSE Go("cluster.ready", cli)

\* Agents without a distribution get one and the address and the token of
\* the server.
ClusterJoin ==
  /\ pc = "cluster.join"
  /\ \/ \E a \in Enterable(cli.ips[cli.cur]) :
          /\ vm' = [vm EXCEPT ![a].installed = TRUE]
          /\ IF vm[a].installed THEN NextAgent ELSE Go("cluster.enter", cli)
     \/ Enterable(cli.ips[cli.cur]) = {} /\ Fail /\ UNCHANGED vm
  /\ OnlyVm

ClusterEnter ==
  /\ pc = "cluster.enter"
  /\ LET server == Servers(cli.ips[1])
         agent == Enterable(cli.ips[cli.cur])
     IN IF server # {} /\ agent # {}
        THEN /\ \E s \in server, a \in agent :
                  vm' = [vm EXCEPT ![a].cluster = IF @ = None
                                                  THEN vm[s].cluster ELSE @]
             /\ NextAgent
        ELSE Fail /\ UNCHANGED vm
  /\ OnlyVm

\* wait_for_ready counts the Ready nodes the server knows.
ReadyNodes(s) == {n \in Nodes : vm[n].on /\ vm[n].cluster = vm[s].cluster}
ClusterReady ==
  /\ pc = "cluster.ready"
  /\ IF \E s \in Servers(cli.ips[1]) : Cardinality(ReadyNodes(s)) >= cli.want
     THEN Go("cluster.fetch", cli)
     ELSE Fail
  /\ Looks

FetchKubeconfig ==
  /\ pc = "cluster.fetch"
  /\ IF Servers(cli.ips[1]) # {}
     THEN /\ \E s \in Servers(cli.ips[1]) : kubefile' = vm[s].cluster
          /\ Go("cluster.merge", cli)
     ELSE Fail /\ UNCHANGED kubefile
  /\ UNCHANGED <<hostVars, priv, pub, known, context>>

\* A ~/.kube/config that cannot be merged into does not fail the command.
MergeKubeconfig ==
  /\ pc = "cluster.merge"
  /\ context' \in {kubefile, context}
  /\ End("ready")
  /\ UNCHANGED <<hostVars, priv, pub, known, kubefile>>

-----------------------------------------------------------------------------
(* ssherpa down                                                            *)

AskDown == Begin("down.list", [NoCommand EXCEPT !.host = hostInstalled])

ListForDown ==
  /\ pc = "down.list"
  /\ IF libvirt = "down"
     THEN Fail
     ELSE Go("down.forwarding", [cli EXCEPT !.listed = DefinedNodes])
  /\ Looks

LookForForwarding ==
  /\ pc = "down.forwarding"
  /\ Go("down.stale", [cli EXCEPT !.fwd = ForwardingInstalled])
  /\ Looks

\* Broken: leftover reservations alone are not worth a down.
LookForNoStale ==
  /\ pc = "down.stale"
  /\ IF ~cli.host /\ cli.listed = {} /\ ~cli.fwd
     THEN End("nothing")
     ELSE Go("down.confirm",
             [cli EXCEPT !.stale = StaleReservations(cli.listed)])
  /\ Looks

LookForStale ==
  /\ pc = "down.stale"
  /\ LET stale == StaleReservations(cli.listed) IN
     IF ~cli.host /\ cli.listed = {} /\ ~cli.fwd /\ stale = {}
     THEN End("nothing")
     ELSE Go("down.confirm", [cli EXCEPT !.stale = stale])
  /\ Looks

\* _confirm: with --yes or without a terminal nobody is asked; a prompt that
\* cannot be shown answers the fallback.
Confirmed(yes, tty, answer, fallback) ==
  yes \/ ~tty \/ answer = "yes" \/ (answer = "broken" /\ fallback)
\* Without a terminal a cluster is destroyed only on --yes.
DestroysCluster == cli.host \/ cli.listed # {}
\* Broken: a prompt that cannot be shown counts as agreement, as it does in up.
GrantedByDefault(yes, tty, answer) ==
  /\ ~(DestroysCluster /\ ~yes /\ ~tty)
  /\ Confirmed(yes, tty, answer, TRUE)
Granted(yes, tty, answer) ==
  /\ ~(DestroysCluster /\ ~yes /\ ~tty)
  /\ Confirmed(yes, tty, answer, FALSE)

Confirm ==
  /\ pc = "down.confirm"
  /\ \E yes, tty \in BOOLEAN, answer \in {"yes", "no", "broken"} :
       IF Granted(yes, tty, answer)
       THEN Go(IF cli.listed # {} \/ cli.fwd THEN "destroy.preflight"
                                             ELSE "down.sweep",
               [cli EXCEPT !.consent = yes \/ (tty /\ answer = "yes")])
       ELSE Fail
  /\ Looks

\* The loop over the VMs found, in node order.  A VM whose state reads empty
\* is skipped; after the last one the port is closed.
DestroyPreflight ==
  /\ pc = "destroy.preflight"
  /\ \/ /\ \A n \in cli.listed : n <= cli.cur
        /\ Go("down.close", [cli EXCEPT !.cur = 0])
     \/ \E n \in cli.listed :
          /\ n > cli.cur
          /\ \A m \in cli.listed : m > cli.cur => n <= m
          /\ Go(IF VmState(n) = "" THEN "destroy.preflight" ELSE "destroy.mac",
                [cli EXCEPT !.cur = n])
  /\ Looks

ReadMac ==
  /\ pc = "destroy.mac"
  /\ Go("destroy.undefine", [cli EXCEPT !.mac = MacOf(cli.cur)])
  /\ Looks

\* virsh destroy; virsh undefine && rm -rf
Undefine ==
  /\ pc = "destroy.undefine"
  /\ IF VmState(cli.cur) # ""
     THEN Go("destroy.release", cli) /\ vm' = [vm EXCEPT ![cli.cur] = NoVm]
     ELSE Fail /\ UNCHANGED vm
  /\ OnlyVm

ReleaseAddress ==
  /\ pc = "destroy.release"
  /\ resv' = AfterRelease(cli.mac, cli.cur)
  /\ Go("destroy.verify", [cli EXCEPT !.mac = None])
  /\ OnlyResv

VerifyRemoval ==
  /\ pc = "destroy.verify"
  /\ IF VmState(cli.cur) # "" THEN Fail ELSE Go("destroy.preflight", cli)
  /\ Looks

\* unexpose_api_step: disable, remove the files, clean the tagged rules.
CloseApi ==
  /\ pc = "down.close"
  /\ fwd' = NoForwarding
  /\ Go("down.local", cli)
  /\ OnlyFwd

\* The entries of the VMs that were listed; only the server has any.  A
\* kubeconfig that cannot be edited is passed over.
ForgetLocal ==
  /\ pc = "down.local"
  /\ IF 1 \in cli.listed
     THEN kubefile' = None /\ context' \in {None, context}
     ELSE UNCHANGED <<kubefile, context>>
  /\ Go("down.sweep", cli)
  /\ UNCHANGED <<hostVars, priv, pub, known>>

\* Broken: the sweep does not count down.
SweepForever ==
  /\ pc = "down.sweep"
  /\ \/ \E r \in cli.stale : resv' = AfterRelease(r.mac, r.name)
                            /\ Go("down.sweep", cli)
     \/ cli.stale = {} /\ Go("down.uninstall", cli) /\ UNCHANGED resv
  /\ OnlyResv

Sweep ==
  /\ pc = "down.sweep"
  /\ \/ \E r \in cli.stale :
          /\ resv' = AfterRelease(r.mac, r.name)
          /\ Go("down.sweep", [cli EXCEPT !.stale = @ \ {r}])
     \/ cli.stale = {} /\ Go("down.uninstall", cli) /\ UNCHANGED resv
  /\ OnlyResv

Uninstall ==
  /\ pc = "down.uninstall"
  /\ hostInstalled' = (hostInstalled /\ ~cli.host)
  /\ End("removed")
  /\ UNCHANGED <<libvirt, vm, resv, fwd, localVars>>

-----------------------------------------------------------------------------
(* What happens besides                                                    *)

Strikes(kind) == kind \in Hazards /\ faults > 0 /\ faults' = faults - 1
\* What interrupts the installation of a distribution is a kind of its own.
Interrupts(kind) == Strikes(IF pc \in Installing THEN "halfinstall" ELSE kind)
Runs == UNCHANGED <<pc, cli>>

\* ^C, a lost connection, a timeout, a remote command that fails.
Abort ==
  /\ Interrupts("abort")
  /\ pc \notin AtRest /\ pc' = "idle" /\ cli' = NoCommand
  /\ UNCHANGED <<calm, steady>> /\ Looks

\* iptables refuses the new rule after the script has removed the old one.
RestartFails ==
  /\ Strikes("abort")
  /\ pc = "expose.restart" /\ pc' = "idle" /\ cli' = NoCommand
  /\ fwd' = [fwd EXCEPT !.rule = None]
  /\ UNCHANGED <<calm, steady>> /\ OnlyFwd

\* The VM is switched off but stays defined.
UndefineFails ==
  /\ Strikes("abort")
  /\ pc = "destroy.undefine" /\ pc' = "idle" /\ cli' = NoCommand
  /\ PowerOff(cli.cur)
  /\ UNCHANGED <<calm, steady>>

Meddle ==
  /\ \/ Strikes("undefine") /\ \E n \in Nodes : HandUndefine(n)
     \/ Strikes("losekey") /\ LoseKey
     \/ Strikes("handinstall") /\ HandInstall
  /\ calm' = FALSE /\ UNCHANGED steady /\ Runs

\* What a finished command promised has to outlive these.
Shake ==
  /\ \/ Interrupts("poweroff") /\ \E n \in Nodes : PowerOff(n)
     \/ Interrupts("reboot") /\ Reboot
  /\ calm' = (calm /\ pc \in AtRest) /\ UNCHANGED steady /\ Runs

LoseLibvirt ==
  /\ Strikes("libvirtd") /\ LibvirtFails
  /\ steady' = FALSE /\ UNCHANGED calm /\ Runs
RegainLibvirt == LibvirtRestarts /\ Runs /\ UNCHANGED ghostVars

Lease == (\E n \in Nodes : DhcpLease(n)) /\ Runs /\ UNCHANGED ghostVars
FinishBoot == (\E n \in Nodes : CloudInit(n)) /\ Runs /\ UNCHANGED ghostVars

-----------------------------------------------------------------------------
Create == \/ CreatePreflight \/ EnsureLocalKey \/ CreateDisk \/ Boot \/ Start
          \/ WaitForIp \/ ForgetHostKey \/ Unreserve \/ Reserve \/ WaitForSsh
Expose == ExposeWrite \/ ExposeEnable \/ ExposeRestart
ClusterUp == \/ ClusterServer \/ ClusterStart \/ ClusterWait
             \/ ClusterJoin \/ ClusterEnter \/ ClusterReady
             \/ FetchKubeconfig \/ MergeKubeconfig
Destroy == \/ DestroyPreflight \/ ReadMac \/ Undefine \/ ReleaseAddress
           \/ VerifyRemoval
Up == ListForUp \/ Setup \/ Create \/ Inspect \/ Expose \/ ClusterUp
Down == \/ ListForDown \/ LookForForwarding \/ LookForStale \/ Confirm
        \/ Destroy \/ CloseApi \/ ForgetLocal \/ Sweep \/ Uninstall
Ask == (\E nodes \in 0..MaxNodes : AskUp(nodes)) \/ AskDown
Machine == Lease \/ FinishBoot \/ RegainLibvirt
Trouble == \/ Abort \/ RestartFails \/ UndefineFails
           \/ Meddle \/ Shake \/ LoseLibvirt

Next == Ask \/ Up \/ Down \/ Machine \/ Trouble
Spec == Init /\ [][Next]_vars

-----------------------------------------------------------------------------
(* Properties                                                              *)

\* A running command has what its step needs: the node it works on, an
\* address and a MAC once wait_for_ip has answered, a plan of some size.
CommandOK ==
  /\ pc \in CreateSteps \cup {"up.inspect"} =>
       cli.cur \in Nodes /\ cli.want \in Nodes /\ cli.cur <= cli.want
  /\ pc \in {"create.forget", "create.unreserve", "create.reserve",
             "create.ssh"} =>
       cli.ips[cli.cur] \in Addrs /\ cli.mac \in Ids
  /\ pc = "up.setup" => cli.want \in Nodes
  /\ pc \in {"cluster.join", "cluster.enter"} => cli.cur \in Nodes
  /\ pc \in {"destroy.mac", "destroy.undefine", "destroy.release",
             "destroy.verify"} => cli.cur \in Nodes

\* Every variable has its type, and the locals fit the step.
TypeOK ==
  /\ libvirt \in {"absent", "down", "up"} /\ hostInstalled \in BOOLEAN
  /\ vm \in [Nodes -> VM]
  /\ resv \subseteq Reservation
  /\ fwd \in [script : Opt(Addrs), enabled : BOOLEAN, rule : Opt(Addrs)]
  /\ priv \in Opt(Keys) /\ pub \in Opt(Keys)
  /\ known \in [Addrs -> Opt(Ids)]
  /\ kubefile \in Opt(Ids) /\ context \in Opt(Ids)
  /\ pc \in AtRest \cup UpSteps \cup DownSteps
  /\ cli \in Command
  /\ calm \in BOOLEAN /\ steady \in BOOLEAN /\ faults \in 0..MaxFaults
  /\ CommandOK

\* down removes only VMs it listed and only a host install it found, and
\* only once the operator has agreed; up removes nothing.
NothingLostUnasked ==
  [][pc' # pc =>
       /\ \A n \in Nodes : Defined(n) /\ vm'[n].mac = None
                             => cli.consent /\ n \in cli.listed
       /\ hostInstalled /\ ~hostInstalled' => cli.consent]_vars

\* After a successful up the way in leads to the server and goes on leading
\* there, whatever is switched off or rebooted: the rule in the kernel is the
\* one the enabled unit sets up, and its address is pinned to node-1's MAC.
ForwardingFollowsServer ==
  pc = "ready" /\ calm =>
    /\ fwd.script # None /\ fwd.enabled /\ fwd.rule = fwd.script
    /\ vm[1].addr \in {None, fwd.script}
    /\ [name |-> 1, mac |-> vm[1].mac, ip |-> fwd.script] \in resv

\* After a successful up every VM on the host belongs to the cluster whose
\* credentials the workstation has just fetched.
ReadyMeansOneCluster ==
  pc = "ready" /\ calm =>
    /\ DefinedNodes # {}
    /\ \A n \in DefinedNodes : vm[n].cluster = vm[1].disk
    /\ kubefile = vm[1].disk

\* After a successful up SSHerpa can get into every VM at the address that
\* is reserved for it: the key fits and the host key kept there is the VM's.
ReadyMeansEnterable ==
  pc = "ready" /\ calm =>
    \A n \in DefinedNodes :
      /\ vm[n].key = priv
      /\ \E r \in resv : /\ r.name = n /\ r.mac = vm[n].mac
                         /\ known[r.ip] = vm[n].disk

\* When down says Removed or Nothing is installed, nothing of SSHerpa is on
\* the host: no VM, no reservation, no script, unit or rule, no distribution.
HostClean == /\ DefinedNodes = {} /\ resv = {} /\ fwd = NoForwarding
             /\ ~hostInstalled
RemovedMeansGone ==
  pc \in {"removed", "nothing"} /\ calm /\ steady => HostClean

\* up builds node names in order, after the ones that exist, and never more
\* than the plan or the host's memory takes.
BuildsInPlan ==
  pc = "create.boot" /\ calm /\ steady =>
    /\ DefinedNodes = 1..(cli.cur - 1)
    /\ cli.cur <= cli.want /\ cli.want <= Capacity

\* The reservation of an address is never refused for an old entry: whatever
\* earlier commands, crashes and hand-made removals left is out of the way.
ReserveNeverClashes ==
  pc = "create.reserve" /\ steady
    => CanReserve(cli.mac, cli.ips[cli.cur], cli.cur)

\* up never rebuilds, rekeys or moves to another cluster a node that exists.
UpLeavesNodesAlone ==
  [][pc' # pc /\ pc \in UpSteps /\ steady =>
       \A n \in DefinedNodes :
         /\ vm'[n].mac = vm[n].mac /\ vm'[n].disk = vm[n].disk
         /\ vm'[n].key = vm[n].key
         /\ vm[n].cluster # None => vm'[n].cluster = vm[n].cluster]_vars

\* The host key kept for the address of a VM just built never belongs to an
\* older VM that had this address.
FreshVmTrusted ==
  pc = "create.ssh" /\ cli.fresh /\ calm => known[cli.ips[cli.cur]] = None

\* While the cluster is set up, the address noted for a node leads into that
\* node or nowhere.
AddressesLeadHome ==
  calm /\ pc \in {"cluster.server", "cluster.start", "cluster.wait",
                  "cluster.join", "cluster.enter", "cluster.ready",
                  "cluster.fetch"} =>
    \A n \in 1..cli.want : AtAddress(cli.ips[n]) \subseteq {n}

\* `up --vm' and down keep the promise of Lifecycle: its parts are the VMs, a
\* VM has joined once it belongs to the cluster of the server that is there.
Members == {n \in DefinedNodes : /\ Defined(1) /\ vm[n].cluster # None
                                 /\ vm[n].cluster = vm[1].disk}
Phase == CASE pc \in UpSteps -> "up"
           [] pc \in DownSteps -> "down"
           [] OTHER -> "rest"
Said == CASE pc = "ready" -> "ready"
          [] pc \in {"removed", "nothing"} -> "removed"
          [] OTHER -> ""
Life == INSTANCE Lifecycle WITH parts <- DefinedNodes, joined <- Members,
          phase <- Phase, said <- Said, sure <- calm /\ steady
LifecycleKept == Life!Spec

\* The order a command goes through its steps in.  A stage is one step or a
\* loop over nodes; a line is a step within the loop, for one node.
Stage(s) ==
  CASE s \in {"up.list", "down.list"} -> 1
    [] s \in {"up.setup", "down.forwarding"} -> 2
    [] s \in CreateSteps \cup {"up.inspect", "down.stale"} -> 3
    [] s \in {"expose.write", "down.confirm"} -> 4
    [] s \in {"expose.enable", "destroy.preflight", "destroy.mac",
              "destroy.undefine", "destroy.release", "destroy.verify"} -> 5
    [] s \in {"expose.restart", "down.close"} -> 6
    [] s \in {"cluster.server", "down.local"} -> 7
    [] s \in {"cluster.start", "down.sweep"} -> 8
    [] s \in {"cluster.wait", "down.uninstall"} -> 9
    [] s \in {"cluster.join", "cluster.enter"} -> 10
    [] s = "cluster.ready" -> 11
    [] s = "cluster.fetch" -> 12
    [] OTHER -> 13
Line(s) ==
  CASE s \in {"create.preflight", "cluster.join", "destroy.mac"} -> 1
    [] s \in {"create.key", "cluster.enter", "destroy.undefine"} -> 2
    [] s \in {"create.disk", "destroy.release"} -> 3
    [] s \in {"create.boot", "create.start", "destroy.verify"} -> 4
    [] s \in {"create.ip", "destroy.preflight"} -> 5
    [] s = "create.forget" -> 6
    [] s = "create.unreserve" -> 7
    [] s = "create.reserve" -> 8
    [] s = "create.ssh" -> 9
    [] OTHER -> 10
Forward ==
  \/ pc' \in AtRest
  \/ /\ Phase' = Phase
     /\ \/ Stage(pc') > Stage(pc)
        \/ Stage(pc') = Stage(pc) /\ cli'.cur > cli.cur
        \/ Stage(pc') = Stage(pc) /\ cli'.cur = cli.cur /\ Line(pc') > Line(pc)
        \/ /\ pc = "down.sweep" /\ pc' = "down.sweep" /\ cli'.cur = cli.cur
           /\ cli'.stale \subseteq cli.stale /\ cli'.stale # cli.stale

\* Every step of a command is its last or brings it forward: no loop over the
\* nodes or the entries ever goes round without getting shorter, whatever the
\* host does in between.
StepsForward == [][Up \/ Down => Forward]_vars

-----------------------------------------------------------------------------
(* What the documentation says and the code does not keep                  *)

\* README.md:286-287: "`down` removes the whole cluster -- every VM, the
\* forwarding rule, and your local kubeconfig entries"; and vm.destroy, which
\* trusts no exit code and looks whether the VM is gone: after Removed there is
\* no VM.
RemovedMeansNoVm == pc = "removed" /\ calm => DefinedNodes = {}

-----------------------------------------------------------------------------
(* Liveness.  Every wait of the code has a deadline, so a running command  *)
(* goes on; dnsmasq, cloud-init and systemd do their part in the end.      *)

CommandFairness == WF_vars(Up \/ Down)
MachineFairness ==
  /\ \A n \in Nodes :
       /\ WF_vars(DhcpLease(n) /\ Runs /\ UNCHANGED ghostVars)
       /\ WF_vars(CloudInit(n) /\ Runs /\ UNCHANGED ghostVars)
  /\ WF_vars(RegainLibvirt)
FairSpec == Spec /\ CommandFairness /\ MachineFairness

\* A command always comes to an end, whatever the host does to it.
CommandsEnd == pc \notin AtRest ~> pc \in AtRest

\* The operator runs down again and again and, asked, agrees in the end ...
InsistentDown == /\ WF_vars(AskDown)
                 /\ SF_vars(Confirm /\ pc' # "idle")
DownSpec == FairSpec /\ InsistentDown
\* ... then, once nobody runs up any more, the host gets clean and stays so,
\* whatever was interrupted, removed by hand or failing before.
DownConverges == <>[](pc \notin UpSteps) => <>[]HostClean

\* The operator repeats the plain up and does not ask for another
\* distribution than the one that runs ...
InsistentUp == /\ SF_vars(AskUp(0))
               /\ SF_vars(Inspect /\ pc' # "idle")
UpSpec == FairSpec /\ InsistentUp
\* ... then up succeeds again and again, whatever interrupted it before, on
\* a host and a workstation where no cluster has been taken down.  (Not if
\* it was the installation of a distribution, "halfinstall": its marker file
\* passes for the whole of it in every later up.)
FirstUpConverges == [](pc \notin DownSteps) => []<>(pc = "ready")
\* ... and, as the README has it (re-running is safe), also where clusters
\* have come and gone.
UpConverges == <>[](pc \notin DownSteps) => []<>(pc = "ready")
=============================================================================
