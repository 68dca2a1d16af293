------------------------------ MODULE HostModes ------------------------------
(***************************************************************************)
(* `up', `up --vm' and `down' against each other on one host, given from   *)
(* several terminals, with the set-up of Foundation between the first look *)
(* and the first VM.  Each mode looks for the other before it begins, and  *)
(* what it saw is minutes old when it acts.  What VmCluster and            *)
(* HostCluster do step by step is one step here: a VM is built, a          *)
(* distribution is installed.                                              *)
(***************************************************************************)
EXTENDS Foundation

VARIABLES
  installed,  \* distributions installed on the host itself
  vms,        \* the distribution a VM was sized for, None where there is none
  inside      \* distributions installed in node-1

modeVars == <<installed, vms, inside>>
vars == <<facts, hostVars, late, pc, cli, ghostVars, modeVars>>

-----------------------------------------------------------------------------
Steps == AtRest \cup SetupSteps \cup
  {"vm.look", "vm.list", "vm.fit", "vm.build", "vm.inspect", "vm.cluster",
   "host.list", "host.look", "host.install",
   "down.look", "down.list", "down.destroy", "down.uninstall"}

Init ==
  /\ FoundationInit
  /\ installed = {} /\ inside = {}
  /\ vms = [n \in Nodes |-> None]

There == {n \in Nodes : vms[n] # None}
\* list_vms: no virsh, no VMs; a virsh that does not answer is an error.
Silent == "virsh" \in tools /\ ~daemon.on
Listed == IF "virsh" \in tools THEN There ELSE {}
NoGap(S) == S = 1..Cardinality(S)

Looks == UNCHANGED <<facts, hostVars, late, ghostVars, modeVars>>
OnlyVms == UNCHANGED <<facts, hostVars, installed>>
OnlyHost == UNCHANGED <<facts, hostVars, vms, inside>>

\* A command that begins beside another blurs the sight of both.
Begin(c, s, k) ==
  /\ pc[c] \in AtRest
  /\ Go(c, s, k)
  /\ blurred' = (blurred \/ \E b \in Clis \ {c} : pc[b] \notin AtRest)
  /\ UNCHANGED <<facts, hostVars, late, torn, meddled, sound, faults, modeVars>>

\* Broken: --distro overrules what is there.
SelectableAsAsked(there, asked) ==
  CASE asked # None -> {asked}
    [] asked = None /\ there # {} -> there
    [] OTHER -> Distros

\* _distro_to_install: what is there, what was asked for, or what the prompt
\* (k3s without a terminal) says.
Selectable(there, asked) ==
  CASE there # {} -> {d \in there : asked \in {None, d} /\ there = {d}}
    [] there = {} /\ asked # None -> {asked}
    [] OTHER -> Distros

\* check_fit
Fits(d, nodes) ==
  facts.memory # None => nodes <= VmCapacity(facts.memory, VmMemory[d])
\* cluster.check_memory
Runs(d, memory) == memory # None => memory >= DistroMinMemory[d]

-----------------------------------------------------------------------------
(* ssherpa up --vm                                                         *)

AskVm(c, n, d) ==
  Begin(c, "vm.look", [NoCommand EXCEPT !.nodes = n, !.distro = d])

\* Broken: only host mode looks for the other one.
LookNowhere(c) ==
  /\ pc[c] = "vm.look" /\ Go(c, "vm.list", cli[c]) /\ Looks

LookForVm(c) ==
  /\ pc[c] = "vm.look"
  /\ IF installed = {} THEN Go(c, "vm.list", cli[c]) ELSE Fail(c)
  /\ Looks

\* As many as said, or as are there, or one; never fewer, never past a gap.
\* On an empty host the distribution is chosen now.
ListForVm(c) ==
  /\ pc[c] = "vm.list"
  /\ LET k == cli[c]
         n == IF k.nodes > 0 THEN k.nodes
              ELSE IF Listed = {} THEN 1 ELSE Cardinality(Listed)
     IN IF Silent \/ Cardinality(Listed) > n \/ ~NoGap(Listed)
        THEN Fail(c)
        ELSE \E d \in IF Listed = {} THEN Selectable({}, k.distro)
                      ELSE {k.distro} :
               Go(c, "setup.preflight",
                  [k EXCEPT !.nodes = n, !.listed = Listed, !.distro = d])
  /\ Looks

CheckFit(c) ==
  /\ pc[c] = "vm.fit"
  /\ IF cli[c].listed # {} \/ Fits(cli[c].distro, cli[c].nodes)
     THEN Go(c, "vm.build", [cli[c] EXCEPT !.cur = 1])
     ELSE Fail(c)
  /\ Looks

\* Broken: one node too many.
AfterBuildOffByOne(c) ==
  LET k == cli[c] IN
  IF k.cur = 1 /\ k.listed # {} THEN Go(c, "vm.inspect", k)
  ELSE IF k.cur <= k.nodes THEN Go(c, "vm.build", [k EXCEPT !.cur = @ + 1])
  ELSE Go(c, "vm.cluster", k)

AfterBuild(c) ==
  LET k == cli[c] IN
  IF k.cur = 1 /\ k.listed # {} THEN Go(c, "vm.inspect", k)
  ELSE IF k.cur < k.nodes THEN Go(c, "vm.build", [k EXCEPT !.cur = @ + 1])
  ELSE Go(c, "vm.cluster", k)

\* A server that was listed and is gone is built anew in the default size.
SizeFor(c) ==
  IF cli[c].cur = 1 /\ cli[c].listed # {} THEN "k3s" ELSE cli[c].distro

\* vm.create: a VM that is there is used as it is.
Build(c) ==
  /\ pc[c] = "vm.build"
  /\ LET n == cli[c].cur IN
     \/ n \in There /\ AfterBuild(c) /\ UNCHANGED <<vms, late, ghostVars>>
     \/ /\ n \notin There
        /\ IF VirshAnswers /\ net.on /\ "virt-install" \in tools
           THEN vms' = [vms EXCEPT ![n] = SizeFor(c)] /\ AfterBuild(c)
           ELSE Fail(c) /\ UNCHANGED vms
        /\ UNCHANGED <<late, ghostVars>>
     \/ /\ n \notin There
        /\ Lost(c, Effect("build", SizeFor(c), n)) /\ UNCHANGED vms
  /\ UNCHANGED inside /\ OnlyVms

\* Broken: the size of a cluster that grows is not looked at again.
InspectWithoutFit(c) ==
  /\ pc[c] = "vm.inspect"
  /\ LET ds == Selectable(inside, cli[c].distro)
     IN \/ \E d \in ds :
             IF cli[c].nodes > 1
             THEN Go(c, "vm.build", [cli[c] EXCEPT !.distro = d, !.cur = 2])
             ELSE Go(c, "vm.cluster", [cli[c] EXCEPT !.distro = d])
        \/ ds = {} /\ Fail(c)
  /\ Looks

\* The server is there: what runs inside decides, then the rest has to fit.
Inspect(c) ==
  /\ pc[c] = "vm.inspect"
  /\ LET ds == Selectable(inside, cli[c].distro)
     IN \/ \E d \in ds :
             IF ~Fits(d, cli[c].nodes) THEN Fail(c)
             ELSE IF cli[c].nodes > 1
             THEN Go(c, "vm.build", [cli[c] EXCEPT !.distro = d, !.cur = 2])
             ELSE Go(c, "vm.cluster", [cli[c] EXCEPT !.distro = d])
        \/ ds = {} /\ Fail(c)
  /\ Looks

\* cluster.up in the server, the agents and the way in.
Cluster(c) ==
  /\ pc[c] = "vm.cluster"
  /\ LET d == cli[c].distro IN
     IF 1 \in There /\ (d \in inside \/ Runs(d, VmMemory[vms[1]]))
     THEN inside' = inside \cup {d} /\ Done(c)
     ELSE Fail(c) /\ UNCHANGED inside
  /\ UNCHANGED <<vms, late, ghostVars>> /\ OnlyVms

UpVm(c) ==
  \/ LookForVm(c) \/ ListForVm(c) \/ CheckFit(c) \/ Build(c)
  \/ Inspect(c) \/ Cluster(c)

-----------------------------------------------------------------------------
(* ssherpa up                                                              *)

AskHost(c, d) == Begin(c, "host.list", [NoCommand EXCEPT !.distro = d])

ListForHost(c) ==
  /\ pc[c] = "host.list"
  /\ IF Silent \/ Listed # {} THEN Fail(c) ELSE Go(c, "host.look", cli[c])
  /\ Looks

\* The choice, and the question whether to go on with what is there.
LookForHost(c) ==
  /\ pc[c] = "host.look"
  /\ LET ds == Selectable(installed, cli[c].distro)
     IN \/ \E d \in ds : Go(c, "host.install", [cli[c] EXCEPT !.distro = d])
        \/ (ds = {} \/ installed # {}) /\ Fail(c)
  /\ Looks

InstallHost(c) ==
  /\ pc[c] = "host.install"
  /\ LET d == cli[c].distro IN
     \/ /\ d \in installed \/ Runs(d, facts.memory)
        /\ installed' = installed \cup {d} /\ Done(c)
        /\ UNCHANGED <<late, ghostVars>>
     \/ /\ d \notin installed /\ Runs(d, facts.memory)
        /\ Lost(c, Effect("install", d, 0)) /\ UNCHANGED installed
     \/ /\ d \notin installed /\ ~Runs(d, facts.memory)
        /\ Fail(c) /\ UNCHANGED <<installed, late, ghostVars>>
  /\ OnlyHost

UpHost(c) == ListForHost(c) \/ LookForHost(c) \/ InstallHost(c)

-----------------------------------------------------------------------------
(* ssherpa down                                                            *)

AskDown(c) == Begin(c, "down.look", NoCommand)

LookForDown(c) ==
  /\ pc[c] = "down.look"
  /\ Go(c, "down.list", [cli[c] EXCEPT !.host = installed])
  /\ Looks

\* Nothing there to remove, an answer of no, or a yes.
ListForDown(c) ==
  /\ pc[c] = "down.list"
  /\ \/ Fail(c)
     \/ /\ ~Silent /\ <<Listed, cli[c].host>> # <<{}, {}>>
        /\ Go(c, "down.destroy", [cli[c] EXCEPT !.listed = Listed])
  /\ Looks

\* vm.destroy for one listed VM after the other.  A virsh that does not
\* answer passes for a VM that is gone.
WithoutVm(n) ==
  /\ vms' = [vms EXCEPT ![n] = None]
  /\ inside' = IF n = 1 THEN {} ELSE inside
Destroy(c) ==
  /\ pc[c] = "down.destroy"
  /\ \/ \E n \in cli[c].listed :
          /\ \A m \in cli[c].listed : n <= m
          /\ \/ /\ Go(c, "down.destroy", [cli[c] EXCEPT !.listed = @ \ {n}])
                /\ IF VirshAnswers THEN WithoutVm(n)
                   ELSE UNCHANGED <<vms, inside>>
                /\ UNCHANGED <<late, ghostVars>>
             \/ /\ Lost(c, Effect("destroy", None, n))
                /\ UNCHANGED <<vms, inside>>
     \/ /\ cli[c].listed = {} /\ Go(c, "down.uninstall", cli[c])
        /\ UNCHANGED <<vms, inside, late, ghostVars>>
  /\ OnlyVms

Uninstall(c) ==
  /\ pc[c] = "down.uninstall"
  /\ \/ \E d \in cli[c].host :
          \/ /\ installed' = installed \ {d}
             /\ Go(c, "down.uninstall", [cli[c] EXCEPT !.host = @ \ {d}])
             /\ UNCHANGED <<late, ghostVars>>
          \/ Lost(c, Effect("uninstall", d, 0)) /\ UNCHANGED installed
     \/ /\ cli[c].host = {} /\ Done(c)
        /\ UNCHANGED <<installed, late, ghostVars>>
  /\ OnlyHost

Down(c) == LookForDown(c) \/ ListForDown(c) \/ Destroy(c) \/ Uninstall(c)

-----------------------------------------------------------------------------
(* Trouble                                                                 *)

\* ^C, a lost connection, a terminal that is closed: between two steps.
Interrupt(c) ==
  /\ pc[c] \notin AtRest \cup {"setup.unpack"}
  /\ Strikes("abort") /\ Fail(c)
  /\ UNCHANGED <<facts, hostVars, late, blurred, torn, meddled, sound,
                 modeVars>>

\* A command nobody waits for any more has its effect after all.  A package
\* manager begins, or finds another one at work: apt-get ends there, dnf waits.
Land(e) ==
  /\ late' = late \ {e}
  /\ CASE e.kind = "packages" ->
            /\ ~locked \/ facts.family = "Debian"
            /\ locked' = TRUE /\ UNCHANGED modeVars
       [] e.kind = "build" ->
            /\ IF e.node \notin There /\ VirshAnswers /\ net.on
                    /\ "virt-install" \in tools
               THEN vms' = [vms EXCEPT ![e.node] = e.distro]
               ELSE UNCHANGED vms
            /\ UNCHANGED <<locked, installed, inside>>
       [] e.kind = "destroy" ->
            (IF VirshAnswers THEN WithoutVm(e.node)
             ELSE UNCHANGED <<vms, inside>>)
            /\ UNCHANGED <<locked, installed>>
       [] e.kind = "install" ->
            installed' = installed \cup {e.distro}
            /\ UNCHANGED <<locked, vms, inside>>
       [] e.kind = "uninstall" ->
            installed' = installed \ {e.distro}
            /\ UNCHANGED <<locked, vms, inside>>
  /\ UNCHANGED <<facts, tools, daemon, net, pc, cli, ghostVars>>

-----------------------------------------------------------------------------
Ask(c) ==
  \/ \E n \in 0..MaxNodes : \E d \in Opt(Distros) : AskVm(c, n, d)
  \/ \E d \in Opt(Distros) : AskHost(c, d)
  \/ AskDown(c)
Run(c) == UpVm(c) \/ UpHost(c) \/ Down(c) \/ (Setup(c) /\ UNCHANGED modeVars)
World == /\ PackageManager \/ Reboot \/ HandStop \/ HandTools
         /\ UNCHANGED modeVars
Next ==
  \/ \E c \in Clis : Ask(c) \/ Run(c) \/ Interrupt(c)
  \/ \E e \in late : Land(e)
  \/ World
Spec == Init /\ [][Next]_vars

-----------------------------------------------------------------------------
(* Properties                                                              *)

\* Every variable has its type; a node that is built is one of the plan.
TypeOK ==
  /\ facts \in Hosts
  /\ tools \subseteq Packages /\ locked \in BOOLEAN
  /\ daemon \in [on : BOOLEAN, enabled : BOOLEAN]
  /\ net \in [on : BOOLEAN, auto : BOOLEAN]
  /\ late \subseteq Effects
  /\ pc \in [Clis -> Steps] /\ cli \in [Clis -> Command]
  /\ installed \subseteq Distros /\ inside \subseteq Distros
  /\ vms \in [Nodes -> Opt(Distros)]
  /\ blurred \in BOOLEAN /\ torn \in BOOLEAN /\ meddled \in BOOLEAN
  /\ sound \in {"no", "building", "yes"} /\ faults \in 0..MaxFaults
  /\ \A c \in Clis :
       pc[c] \in {"vm.build", "vm.inspect"} => cli[c].cur \in 1..cli[c].nodes

\* The promise of Tenancy is kept by the looks each command takes at the
\* other mode before it begins, through every interruption, reboot and
\* repetition, and until two commands overlap or an answer is lost.
Holders == {m \in {"host", "vm"} : IF m = "host" THEN installed # {}
                                   ELSE There # {}}
Tenant == INSTANCE Tenancy WITH Modes <- {"host", "vm"}, holders <- Holders
TenancyKept == Tenant!Spec

\* Two distributions never share a place, the host itself or the server's
\* VM, where both would want port 6443: what is found there decides, also
\* after an attempt that was cut off; until commands overlap.
OneDistroPerPlace ==
  blurred \/ (Cardinality(installed) <= 1 /\ Cardinality(inside) <= 1)

\* A host that cannot run VMs is left as it was: no package, no daemon, no
\* VM (virt.setup: no half-installed host is left behind).
IncapableLeftAlone ==
  ~Capable(facts) \/ ~CanInstall =>
    meddled \/ (tools = {} /\ ~daemon.enabled /\ ~net.auto /\ There = {})

\* Set-up, repeated over whatever earlier ones were cut off after which step,
\* finds no obstacle in what they did: it fails only while a package manager
\* is at work, its own or one that was given up, and where packages were left
\* half installed, a part was stopped or put there by hand, or the addresses
\* of the network were taken.
SetupSucceeds ==
  [][\A c \in Clis : pc[c] # "unfounded" /\ pc'[c] = "unfounded" =>
       locked \/ torn' \/ meddled']_vars

\* A foundation that was verified works at any later time, also after a
\* reboot, until somebody stops a part of it.
FoundationStands ==
  sound = "yes" => VirshAnswers /\ net.on

\* VMs never take more memory than the host can spare: never more than
\* doctor promises.
Count(d) == Cardinality({n \in Nodes : vms[n] = d})
Taken == Count("k3s") * VmMemory["k3s"] + Count("rke2") * VmMemory["rke2"]
HostKeepsShare ==
  facts.memory # None => Taken <= UsableMemory(facts.memory)

\* The same for a cluster of VMs of one size.
EvenClusterFits ==
  (\E d \in Distros : \A n \in There : vms[n] = d) => HostKeepsShare
=============================================================================
