--------------------------- MODULE HostModesProofs ---------------------------
(***************************************************************************)
(* HostModes for any hosts, terminals, node numbers and any trouble: types *)
(* and the two modes of one host, which come to Tenancy.                   *)
(***************************************************************************)
EXTENDS HostModes, FiniteSetTheorems, TLAPS

\* The host, and what is still to happen to it.
HostTyped ==
  /\ facts \in Hosts
  /\ tools \subseteq Packages /\ locked \in BOOLEAN
  /\ daemon \in [on : BOOLEAN, enabled : BOOLEAN]
  /\ net \in [on : BOOLEAN, auto : BOOLEAN]
  /\ late \subseteq Effects
  /\ \A e \in late : e.kind \in {"build", "install"} => e.distro \in Distros
  /\ installed \subseteq Distros /\ inside \subseteq Distros
  /\ vms \in [Nodes -> Opt(Distros)]
  /\ blurred \in BOOLEAN /\ torn \in BOOLEAN /\ meddled \in BOOLEAN
  /\ sound \in {"no", "building", "yes"} /\ faults \in 0..MaxFaults

\* A command at step s knows what it needs there: how many nodes, which one is
\* built, and the distribution, once nothing can be learnt from the VMs.
Knows(s, k) ==
  /\ s \in {"vm.build", "vm.inspect"} => k.cur \in 1..k.nodes
  /\ s \in SetupSteps \cup {"vm.fit"} => k.nodes >= 1
  /\ s \in {"vm.cluster", "host.install"} => k.distro \in Distros
  /\ s \in SetupSteps \cup {"vm.fit", "vm.build"} =>
       \/ k.distro \in Distros
       \/ k.listed # {} /\ (s = "vm.build" => k.cur = 1)
CommandsTyped ==
  /\ pc \in [Clis -> Steps] /\ cli \in [Clis -> Command]
  /\ \A c \in Clis : Knows(pc[c], cli[c])
\* Inductive.
Typed == HostTyped /\ CommandsTyped

\* The steps of `up --vm' that rely on a look at the host.
VmSteps == SetupSteps \cup
  {"vm.list", "vm.fit", "vm.build", "vm.inspect", "vm.cluster"}
\* What a command that is alone has seen is still so: the other mode is not
\* there, and where it goes on, nothing but the distribution it has chosen.
Sight(s, k) ==
  /\ s \in VmSteps => installed = {}
  /\ s \in {"host.look", "host.install"} => There = {}
  /\ s = "host.install" => installed \subseteq {k.distro}
  /\ s \in SetupSteps \cup {"vm.fit"} /\ k.listed = {} => inside = {}
  /\ s = "vm.build" /\ (k.listed = {} \/ k.cur # 1) =>
       inside \subseteq {k.distro}
  /\ s = "vm.cluster" => inside \subseteq {k.distro}
\* Inductive with Typed and Places: until the sight is blurred only one
\* command runs, nothing is still to land, and what was seen is so.
Alone ==
  blurred \/
    /\ late = {}
    /\ \A b, c \in Clis : b = c \/ pc[b] \in AtRest \/ pc[c] \in AtRest
    /\ \A c \in Clis : Sight(pc[c], cli[c])

OnlyOne(S) == \E d \in Distros : S \subseteq {d}
\* Inductive with Typed and Alone: VMs are seen by whoever has virsh, a
\* distribution inside needs the server's VM, and is the only one there.
Places ==
  /\ There # {} => "virsh" \in tools
  /\ inside # {} => 1 \in There
  /\ blurred \/ (OnlyOne(installed) /\ OnlyOne(inside))

-----------------------------------------------------------------------------
(* Types                                                                   *)

LEMMA NodeNumbers ==
  ASSUME NEW S \in SUBSET Nodes
  PROVE  /\ IsFiniteSet(S) /\ Cardinality(S) \in 0..MaxNodes
         /\ Cardinality(S) = 0 <=> S = {}
<1>1. IsFiniteSet(Nodes) /\ Cardinality(Nodes) = MaxNodes
  BY FS_Interval, MaxNodesAssumption DEF Nodes
<1>2. IsFiniteSet(S) /\ Cardinality(S) <= Cardinality(Nodes)
  BY <1>1, FS_Subset
<1>3. Cardinality(S) \in Nat
  BY <1>2, FS_CardinalityType
<1>4. Cardinality(S) = 0 <=> S = {}
  BY <1>2, FS_EmptySet
<1> QED BY <1>1, <1>2, <1>3, <1>4, MaxNodesAssumption

\* What is chosen is a distribution, the only one that is there if one is.
LEMMA SelectableFits ==
  ASSUME NEW there \in SUBSET Distros, NEW asked \in Opt(Distros),
         NEW d \in Selectable(there, asked)
  PROVE  d \in Distros /\ there \subseteq {d}
<1>1. CASE there # {}
  BY <1>1 DEF Selectable
<1>2. CASE there = {} /\ asked # None
  BY <1>2 DEF Selectable, Opt
<1>3. CASE there = {} /\ asked = None
  BY <1>3 DEF Selectable
<1> QED BY <1>1, <1>2, <1>3

\* Only the terminal that goes on is at another step.
LEMMA GoTyped ==
  ASSUME CommandsTyped, NEW c \in Clis, NEW s \in Steps, NEW k \in Command,
         Go(c, s, k), Knows(s, k)
  PROVE  CommandsTyped'
<1>1. pc' \in [Clis -> Steps] /\ cli' \in [Clis -> Command]
  BY DEF Go, CommandsTyped
<1>2. /\ pc'[c] = s /\ cli'[c] = k
      /\ \A b \in Clis \ {c} : pc'[b] = pc[b] /\ cli'[b] = cli[b]
  BY DEF Go, CommandsTyped
<1>3. ASSUME NEW b \in Clis
      PROVE  Knows(pc'[b], cli'[b])
  <2>1. CASE b = c
    BY <1>2, <2>1
  <2>2. CASE b # c
    BY <1>2, <2>2 DEF CommandsTyped
  <2> QED BY <2>1, <2>2
<1> QED BY <1>1, <1>3 DEF CommandsTyped

\* A command that is over, or only begins, needs to know nothing.
LEMMA FreeTyped ==
  ASSUME CommandsTyped, NEW c \in Clis, NEW k \in Command,
         NEW s \in AtRest \cup {"vm.look", "vm.list", "host.list",
                                "host.look", "down.look", "down.list",
                                "down.destroy", "down.uninstall"},
         Go(c, s, k)
  PROVE  CommandsTyped'
<1>1. s \in Steps /\ Knows(s, k)
  BY DEF Steps, AtRest, Knows, SetupSteps
<1> QED BY <1>1, GoTyped

LEMMA NoCommandTyped == NoCommand \in Command
  BY MaxNodesAssumption DEF NoCommand, Command, Opt

LEMMA EndTyped ==
  ASSUME CommandsTyped, NEW c \in Clis, End(c, "idle") \/ End(c, "unfounded")
  PROVE  CommandsTyped'
  BY NoCommandTyped, FreeTyped DEF End, AtRest

LEMMA StrikesTyped ==
  ASSUME HostTyped, NEW kind, Strikes(kind)
  PROVE  faults' \in 0..MaxFaults
  BY MaxFaultsAssumption DEF Strikes, HostTyped

LEMMA LostTyped ==
  ASSUME Typed, NEW c \in Clis, NEW e \in Effects, Lost(c, e),
         e.kind \in {"build", "install"} => e.distro \in Distros,
         UNCHANGED <<facts, hostVars, modeVars>>
  PROVE  Typed'
<1>1. faults' \in 0..MaxFaults
  BY StrikesTyped DEF Lost, Typed
<1>2. HostTyped'
  BY <1>1 DEF Lost, Typed, HostTyped, hostVars, modeVars
<1>3. CommandsTyped'
  BY EndTyped DEF Lost, Fail, Typed
<1> QED BY <1>2, <1>3 DEF Typed

LEMMA LooksTyped ==
  ASSUME HostTyped, Looks
  PROVE  HostTyped'
  BY DEF HostTyped, Looks, hostVars, ghostVars, modeVars

-----------------------------------------------------------------------------
(* virt.setup keeps types                                                  *)

LEMMA SetupTyped ==
  ASSUME Typed, NEW c \in Clis, Setup(c), UNCHANGED modeVars
  PROVE  Typed'
<1> USE DEF Typed
<1> DEFINE k == cli[c]
<1>1. ASSUME NEW s \in {"setup.install", "setup.unpack", "setup.enable",
                        "setup.network", "setup.verify", "vm.fit"},
             pc[c] \in SetupSteps, Go(c, s, k)
      PROVE  CommandsTyped'
  <2>1. s \in Steps /\ k \in Command
    BY DEF Steps, SetupSteps, CommandsTyped
  <2>2. Knows(s, k)
    BY <1>1 DEF CommandsTyped, Knows, SetupSteps
  <2> QED BY <1>1, <2>1, <2>2, GoTyped
<1>2. CASE Preflight(c)
  <2>1. HostTyped'
    BY <1>2 DEF Preflight, HostTyped, hostVars, ghostVars, modeVars
  <2>2. CommandsTyped'
    BY <1>1, <1>2, EndTyped DEF Preflight, Fail, SetupSteps
  <2> QED BY <2>1, <2>2
<1>3. CASE InstallPackages(c)
  <2>1. CASE /\ locked' = TRUE /\ Go(c, "setup.unpack", k)
             /\ UNCHANGED <<late, ghostVars>>
    <3>1. HostTyped'
      BY <1>3, <2>1 DEF InstallPackages, HostTyped, ghostVars, modeVars
    <3> QED BY <1>1, <1>3, <2>1, <3>1 DEF InstallPackages, SetupSteps
  <2>2. CASE End(c, "unfounded") /\ UNCHANGED <<locked, late, ghostVars>>
    <3>1. HostTyped'
      BY <1>3, <2>2 DEF InstallPackages, HostTyped, ghostVars, modeVars
    <3> QED BY <2>2, <3>1, EndTyped
  <2>3. CASE Lost(c, Effect("packages", None, 0)) /\ UNCHANGED locked
    <3> DEFINE e == Effect("packages", None, 0)
    <3>1. e \in Effects /\ e.kind = "packages"
      BY MaxNodesAssumption DEF Effect, Effects, Opt
    <3>2. UNCHANGED <<facts, hostVars, modeVars>>
      BY <1>3, <2>3 DEF InstallPackages, hostVars
    <3> HIDE DEF e
    <3> QED BY <2>3, <3>1, <3>2, LostTyped DEF e
  <2> QED BY <1>3, <2>1, <2>2, <2>3 DEF InstallPackages
<1>7. CASE LeaveInstall(c)
  <2>1. faults' \in 0..MaxFaults
    BY <1>7, StrikesTyped DEF LeaveInstall
  <2>2. HostTyped'
    BY <1>7, <2>1 DEF LeaveInstall, HostTyped, hostVars, modeVars
  <2> QED BY <1>7, <2>2, EndTyped DEF LeaveInstall, Fail
<1>4. CASE EnableDaemon(c)
  <2>1. /\ daemon' \in [on : BOOLEAN, enabled : BOOLEAN]
        /\ net' \in [on : BOOLEAN, auto : BOOLEAN]
    <3>1. [net EXCEPT !.on = @ \/ (net.auto /\ ~daemon.on)]
            \in [on : BOOLEAN, auto : BOOLEAN]
      BY DEF HostTyped
    <3>2. [on |-> TRUE, enabled |-> TRUE] \in [on : BOOLEAN, enabled : BOOLEAN]
      OBVIOUS
    <3>3. CASE "libvirtd" \in tools
      BY <1>4, <3>1, <3>2, <3>3 DEF EnableDaemon
    <3>4. CASE "libvirtd" \notin tools
      BY <1>4, <3>4 DEF EnableDaemon, HostTyped
    <3> QED BY <3>3, <3>4
  <2>2. sound' \in {"no", "building", "yes"}
    BY <1>4 DEF EnableDaemon, HostTyped
  <2>3. HostTyped'
    BY <1>4, <2>1, <2>2 DEF EnableDaemon, HostTyped, modeVars
  <2>4. CommandsTyped'
    BY <1>1, <1>4, EndTyped DEF EnableDaemon, SetupSteps
  <2> QED BY <2>3, <2>4
<1>5. CASE StartNetwork(c)
  <2>1. faults' \in 0..MaxFaults
    BY <1>5, StrikesTyped DEF StartNetwork, HostTyped, ghostVars
  <2>2. net' \in [on : BOOLEAN, auto : BOOLEAN]
    <3>1. /\ [on |-> TRUE, auto |-> TRUE] \in [on : BOOLEAN, auto : BOOLEAN]
          /\ [net EXCEPT !.auto = TRUE] \in [on : BOOLEAN, auto : BOOLEAN]
          /\ net \in [on : BOOLEAN, auto : BOOLEAN]
      BY DEF HostTyped
    <3>2. \/ net' = [on |-> TRUE, auto |-> TRUE]
          \/ net' = [net EXCEPT !.auto = TRUE]
          \/ net' = net
      BY <1>5 DEF StartNetwork
    <3> QED BY <3>1, <3>2
  <2>3. /\ blurred' \in BOOLEAN /\ torn' \in BOOLEAN /\ meddled' \in BOOLEAN
        /\ sound' \in {"no", "building", "yes"}
    BY <1>5 DEF StartNetwork, HostTyped, ghostVars
  <2>4. HostTyped'
    BY <1>5, <2>1, <2>2, <2>3 DEF StartNetwork, HostTyped, modeVars
  <2>5. CommandsTyped'
    BY <1>1, <1>5, EndTyped DEF StartNetwork, SetupSteps
  <2> QED BY <2>4, <2>5
<1>6. CASE Verify(c)
  <2>1. HostTyped'
    BY <1>6 DEF Verify, HostTyped, hostVars, modeVars
  <2>2. CommandsTyped'
    BY <1>1, <1>6, EndTyped DEF Verify, SetupSteps
  <2> QED BY <2>1, <2>2
<1> QED BY <1>2, <1>3, <1>4, <1>5, <1>6, <1>7 DEF Setup

-----------------------------------------------------------------------------
(* The three commands keep types                                           *)

LEMMA AskTyped ==
  ASSUME Typed, NEW c \in Clis, Ask(c)
  PROVE  Typed'
<1>1. ASSUME NEW s \in {"vm.look", "host.list", "down.look"},
             NEW k \in Command, Begin(c, s, k)
      PROVE  Typed'
  <2>1. HostTyped'
    BY <1>1 DEF Begin, Typed, HostTyped, hostVars, modeVars
  <2>2. CommandsTyped'
    BY <1>1, FreeTyped DEF Begin, Typed
  <2> QED BY <2>1, <2>2 DEF Typed
<1>2. ASSUME NEW n \in 0..MaxNodes, NEW d \in Opt(Distros)
      PROVE  [NoCommand EXCEPT !.nodes = n, !.distro = d] \in Command
  BY NoCommandTyped DEF Command
<1>3. ASSUME NEW n \in 0..MaxNodes, NEW d \in Opt(Distros), AskVm(c, n, d)
      PROVE  Typed'
  BY <1>1, <1>2, <1>3 DEF AskVm
<1>4. ASSUME NEW d \in Opt(Distros), AskHost(c, d)
      PROVE  Typed'
  <2>1. [NoCommand EXCEPT !.distro = d] \in Command
    BY NoCommandTyped DEF Command
  <2> QED BY <1>1, <1>4, <2>1 DEF AskHost
<1>5. CASE AskDown(c)
  BY <1>1, <1>5, NoCommandTyped DEF AskDown
<1> QED BY <1>3, <1>4, <1>5 DEF Ask

\* Where nothing changes but the command.
LEMMA LooksFree ==
  ASSUME Typed, NEW c \in Clis, Looks, NEW k \in Command,
         NEW s \in AtRest \cup {"vm.look", "vm.list", "host.list",
                                "host.look", "down.look", "down.list",
                                "down.destroy", "down.uninstall"},
         Go(c, s, k)
  PROVE  Typed'
  BY LooksTyped, FreeTyped DEF Typed

LEMMA LooksGo ==
  ASSUME Typed, NEW c \in Clis, Looks, NEW s \in Steps, NEW k \in Command,
         Go(c, s, k), Knows(s, k)
  PROVE  Typed'
  BY LooksTyped, GoTyped DEF Typed

LEMMA LooksFail ==
  ASSUME Typed, NEW c \in Clis, Looks, Fail(c)
  PROVE  Typed'
  BY LooksFree, NoCommandTyped DEF Fail, End, AtRest

LEMMA ListedTyped ==
  ASSUME HostTyped
  PROVE  Listed \in SUBSET Nodes /\ There \in SUBSET Nodes
  BY DEF Listed, There

LEMMA ListForVmTyped ==
  ASSUME Typed, NEW c \in Clis, ListForVm(c)
  PROVE  Typed'
<1> DEFINE k == cli[c]
           n == IF k.nodes > 0 THEN k.nodes
                ELSE IF Listed = {} THEN 1 ELSE Cardinality(Listed)
<1>1. k \in Command /\ k.nodes \in 0..MaxNodes /\ k.distro \in Opt(Distros)
  BY DEF Typed, CommandsTyped, Command
<1>2. Listed \in SUBSET Nodes
  BY ListedTyped DEF Typed
<1>3. n \in 1..MaxNodes
  BY <1>1, <1>2, NodeNumbers, MaxNodesAssumption
<1>4. Looks
  BY DEF ListForVm
<1>5. CASE Fail(c)
  BY <1>4, <1>5, LooksFail
<1>6. ASSUME NEW d \in IF Listed = {} THEN Selectable({}, k.distro)
                       ELSE {k.distro},
             Go(c, "setup.preflight",
                [k EXCEPT !.nodes = n, !.listed = Listed, !.distro = d])
      PROVE  Typed'
  <2> HIDE DEF n
  <2> DEFINE j == [k EXCEPT !.nodes = n, !.listed = Listed, !.distro = d]
  <2>1. d \in Opt(Distros) /\ (Listed = {} => d \in Distros)
    BY <1>1, <1>6, SelectableFits DEF Opt
  <2>2. j \in Command /\ j.nodes = n /\ j.listed = Listed /\ j.distro = d
    <3>1. n \in 0..MaxNodes
      BY <1>3, MaxNodesAssumption
    <3> QED BY <1>1, <1>2, <2>1, <3>1 DEF Command
  <2> HIDE DEF j
  <2>3. "setup.preflight" \in Steps /\ Knows("setup.preflight", j)
    BY <1>3, <2>1, <2>2 DEF Knows, Steps, SetupSteps
  <2>4. Go(c, "setup.preflight", j)
    BY <1>6 DEF j
  <2> QED BY <1>4, <2>2, <2>3, <2>4, LooksGo
<1> QED BY <1>5, <1>6 DEF ListForVm

LEMMA CheckFitTyped ==
  ASSUME Typed, NEW c \in Clis, CheckFit(c)
  PROVE  Typed'
<1> DEFINE k == [cli[c] EXCEPT !.cur = 1]
<1>1. cli[c] \in Command /\ Knows("vm.fit", cli[c]) /\ Looks
  BY DEF Typed, CommandsTyped, CheckFit
<1>2. /\ k \in Command /\ k.cur = 1 /\ k.nodes = cli[c].nodes
      /\ k.listed = cli[c].listed /\ k.distro = cli[c].distro
  BY <1>1, MaxNodesAssumption DEF Command
<1>3. k.nodes \in 0..MaxNodes
  BY <1>2 DEF Command
<1>4. "vm.build" \in Steps /\ Knows("vm.build", k)
  BY <1>1, <1>2, <1>3 DEF Knows, Steps, SetupSteps
<1>5. Fail(c) \/ Go(c, "vm.build", k)
  BY DEF CheckFit
<1> HIDE DEF k
<1> QED BY <1>1, <1>2, <1>4, <1>5, LooksFail, LooksGo

\* From one node to the next, to the look inside, or to the cluster.
LEMMA AfterBuildTyped ==
  ASSUME CommandsTyped, NEW c \in Clis, pc[c] = "vm.build", AfterBuild(c)
  PROVE  CommandsTyped'
<1> DEFINE k == cli[c]
           j == [k EXCEPT !.cur = @ + 1]
<1>1. k \in Command /\ Knows("vm.build", k) /\ k.nodes \in 0..MaxNodes
  BY DEF CommandsTyped, Command
<1>2. k.cur \in 1..k.nodes
  BY <1>1 DEF Knows
<1>3. {"vm.build", "vm.inspect", "vm.cluster"} \subseteq Steps
  BY DEF Steps
<1>4. CASE k.cur = 1 /\ k.listed # {} /\ Go(c, "vm.inspect", k)
  <2>1. Knows("vm.inspect", k)
    BY <1>2 DEF Knows, SetupSteps
  <2> QED BY <1>1, <1>3, <1>4, <2>1, GoTyped
<1>5. CASE /\ ~(k.cur = 1 /\ k.listed # {})
           /\ k.cur < k.nodes /\ Go(c, "vm.build", j)
  <2>1. /\ j \in Command /\ j.cur = k.cur + 1 /\ j.nodes = k.nodes
        /\ j.listed = k.listed /\ j.distro = k.distro
    BY <1>1, <1>2, <1>5, MaxNodesAssumption DEF Command
  <2> HIDE DEF j
  <2>2. Knows("vm.build", j)
    BY <1>1, <1>2, <1>5, <2>1 DEF Knows, SetupSteps
  <2> QED BY <1>3, <1>5, <2>1, <2>2, GoTyped
<1>6. CASE ~(k.cur = 1 /\ k.listed # {}) /\ Go(c, "vm.cluster", k)
  <2>1. Knows("vm.cluster", k)
    BY <1>1, <1>6 DEF Knows, SetupSteps
  <2> QED BY <1>1, <1>3, <1>6, <2>1, GoTyped
<1> QED BY <1>4, <1>5, <1>6 DEF AfterBuild

LEMMA SizeForTyped ==
  ASSUME CommandsTyped, NEW c \in Clis, pc[c] = "vm.build"
  PROVE  SizeFor(c) \in Distros
  BY DEF CommandsTyped, Knows, SizeFor, Distros

LEMMA BuildTyped ==
  ASSUME Typed, NEW c \in Clis, Build(c)
  PROVE  Typed'
<1> USE DEF Typed
<1> DEFINE n == cli[c].cur
<1>1. pc[c] = "vm.build" /\ SizeFor(c) \in Distros /\ n \in Nodes
  BY SizeForTyped, MaxNodesAssumption
     DEF Build, CommandsTyped, Knows, Command, Nodes
<1>2. UNCHANGED <<facts, hostVars, installed, inside>>
  BY DEF Build, OnlyVms
<1>3. ASSUME vms' \in [Nodes -> Opt(Distros)], UNCHANGED <<late, ghostVars>>
      PROVE  HostTyped'
  BY <1>2, <1>3 DEF HostTyped, hostVars, ghostVars
<1>4. CASE AfterBuild(c) /\ UNCHANGED <<vms, late, ghostVars>>
  BY <1>1, <1>3, <1>4, AfterBuildTyped DEF HostTyped
<1>5. CASE /\ IF VirshAnswers /\ net.on /\ "virt-install" \in tools
              THEN vms' = [vms EXCEPT ![n] = SizeFor(c)] /\ AfterBuild(c)
              ELSE Fail(c) /\ UNCHANGED vms
           /\ UNCHANGED <<late, ghostVars>>
  <2>1. vms' \in [Nodes -> Opt(Distros)]
    BY <1>1, <1>5 DEF HostTyped, Opt
  <2>2. CommandsTyped'
    BY <1>1, <1>5, AfterBuildTyped, EndTyped DEF Fail
  <2> QED BY <1>3, <1>5, <2>1, <2>2
<1>6. CASE Lost(c, Effect("build", SizeFor(c), n)) /\ UNCHANGED vms
  <2> DEFINE e == Effect("build", SizeFor(c), n)
  <2>1. e \in Effects /\ e.kind = "build" /\ e.distro \in Distros
    BY <1>1, MaxNodesAssumption DEF Effect, Effects, Opt, Nodes
  <2> HIDE DEF e
  <2> QED BY <1>2, <1>6, <2>1, LostTyped DEF modeVars, e
<1> QED BY <1>4, <1>5, <1>6 DEF Build

LEMMA InspectTyped ==
  ASSUME Typed, NEW c \in Clis, Inspect(c)
  PROVE  Typed'
<1> DEFINE k == cli[c]
<1>1. /\ k \in Command /\ k.cur \in 1..k.nodes /\ k.nodes \in 0..MaxNodes
      /\ k.distro \in Opt(Distros) /\ Looks
  BY DEF Typed, CommandsTyped, Command, Inspect, Knows
<1>2. inside \in SUBSET Distros
  BY DEF Typed, HostTyped
<1>3. CASE Fail(c)
  BY <1>1, <1>3, LooksFail
<1>4. ASSUME NEW d \in Selectable(inside, k.distro), k.nodes > 1,
             Go(c, "vm.build", [k EXCEPT !.distro = d, !.cur = 2])
      PROVE  Typed'
  <2> DEFINE j == [k EXCEPT !.distro = d, !.cur = 2]
  <2>1. d \in Distros
    BY <1>1, <1>2, SelectableFits
  <2>2. j \in Command /\ j.cur = 2 /\ j.nodes = k.nodes /\ j.distro = d
    <3>1. 2 \in 0..MaxNodes /\ d \in Opt(Distros)
      BY <1>1, <1>4, <2>1, MaxNodesAssumption DEF Opt
    <3> QED BY <1>1, <3>1 DEF Command
  <2> HIDE DEF j
  <2>3. "vm.build" \in Steps /\ Knows("vm.build", j)
    BY <1>1, <1>4, <2>1, <2>2 DEF Knows, Steps, SetupSteps
  <2> QED BY <1>1, <1>4, <2>2, <2>3, LooksGo DEF j
<1>5. ASSUME NEW d \in Selectable(inside, k.distro),
             Go(c, "vm.cluster", [k EXCEPT !.distro = d])
      PROVE  Typed'
  <2> DEFINE j == [k EXCEPT !.distro = d]
  <2>1. d \in Distros
    BY <1>1, <1>2, SelectableFits
  <2>2. j \in Command /\ j.distro = d
    BY <1>1, <2>1 DEF Command, Opt
  <2> HIDE DEF j
  <2>3. "vm.cluster" \in Steps /\ Knows("vm.cluster", j)
    BY <2>1, <2>2 DEF Knows, Steps, SetupSteps
  <2> QED BY <1>1, <1>5, <2>2, <2>3, LooksGo DEF j
<1> QED BY <1>3, <1>4, <1>5 DEF Inspect

LEMMA ClusterTyped ==
  ASSUME Typed, NEW c \in Clis, Cluster(c)
  PROVE  Typed'
<1>1. cli[c].distro \in Distros
  BY DEF Typed, CommandsTyped, Knows, Cluster
<1>2. HostTyped'
  BY <1>1 DEF Cluster, Typed, HostTyped, OnlyVms, hostVars, ghostVars
<1>3. CommandsTyped'
  BY EndTyped DEF Cluster, Done, Fail, Typed
<1> QED BY <1>2, <1>3 DEF Typed

LEMMA UpVmTyped ==
  ASSUME Typed, NEW c \in Clis, UpVm(c)
  PROVE  Typed'
<1>1. CASE LookForVm(c)
  <2>1. cli[c] \in Command
    BY DEF Typed, CommandsTyped
  <2> QED BY <1>1, <2>1, LooksFail, LooksFree DEF LookForVm
<1> QED BY <1>1, ListForVmTyped, CheckFitTyped, BuildTyped, InspectTyped,
           ClusterTyped DEF UpVm

LEMMA UpHostTyped ==
  ASSUME Typed, NEW c \in Clis, UpHost(c)
  PROVE  Typed'
<1> DEFINE k == cli[c]
<1>1. k \in Command /\ k.distro \in Opt(Distros)
  BY DEF Typed, CommandsTyped, Command
<1>2. CASE ListForHost(c)
  BY <1>1, <1>2, LooksFail, LooksFree DEF ListForHost
<1>3. CASE LookForHost(c)
  <2>1. ASSUME NEW d \in Selectable(installed, k.distro),
               Go(c, "host.install", [k EXCEPT !.distro = d])
        PROVE  Typed'
    <3> DEFINE j == [k EXCEPT !.distro = d]
    <3>1. d \in Distros
      BY <1>1, SelectableFits DEF Typed, HostTyped
    <3>2. j \in Command /\ j.distro = d
      BY <1>1, <3>1 DEF Command, Opt
    <3> HIDE DEF j
    <3>3. "host.install" \in Steps /\ Knows("host.install", j)
      BY <3>1, <3>2 DEF Knows, Steps, SetupSteps
    <3> QED BY <1>3, <2>1, <3>2, <3>3, LooksGo DEF j, LookForHost
  <2> QED BY <1>3, <2>1, LooksFail DEF LookForHost
<1>4. CASE InstallHost(c)
  <2>1. k.distro \in Distros /\ UNCHANGED <<facts, hostVars, vms, inside>>
    BY <1>4 DEF Typed, CommandsTyped, Knows, InstallHost, OnlyHost
  <2>2. CASE /\ installed' \in {installed, installed \cup {k.distro}}
             /\ Done(c) \/ Fail(c)
             /\ UNCHANGED <<late, ghostVars>>
    <3>1. HostTyped'
      BY <2>1, <2>2 DEF Typed, HostTyped, hostVars, ghostVars
    <3>2. CommandsTyped'
      BY <2>2, EndTyped DEF Done, Fail, Typed
    <3> QED BY <3>1, <3>2 DEF Typed
  <2>3. CASE Lost(c, Effect("install", k.distro, 0)) /\ UNCHANGED installed
    <3> DEFINE e == Effect("install", k.distro, 0)
    <3>1. e \in Effects /\ e.distro \in Distros
      BY <2>1, MaxNodesAssumption DEF Effect, Effects, Opt
    <3> HIDE DEF e
    <3> QED BY <2>1, <2>3, <3>1, LostTyped DEF modeVars, e
  <2> QED BY <1>4, <2>2, <2>3 DEF InstallHost
<1> QED BY <1>2, <1>3, <1>4 DEF UpHost

LEMMA WithoutVmTyped ==
  ASSUME HostTyped, NEW n, WithoutVm(n)
  PROVE  vms' \in [Nodes -> Opt(Distros)] /\ inside' \subseteq Distros
  BY DEF WithoutVm, HostTyped, Opt

LEMMA DownTyped ==
  ASSUME Typed, NEW c \in Clis, Down(c)
  PROVE  Typed'
<1> DEFINE k == cli[c]
<1>1. k \in Command
  BY DEF Typed, CommandsTyped
<1>2. CASE LookForDown(c)
  <2>1. [k EXCEPT !.host = installed] \in Command
    BY <1>1 DEF Command, Typed, HostTyped
  <2> QED BY <1>2, <2>1, LooksFree DEF LookForDown
<1>3. CASE ListForDown(c)
  <2>1. [k EXCEPT !.listed = Listed] \in Command
    BY <1>1, ListedTyped DEF Command, Typed
  <2> QED BY <1>3, <2>1, LooksFree, LooksFail DEF ListForDown
<1>4. CASE Destroy(c)
  <2>1. UNCHANGED <<facts, hostVars, installed>>
    BY <1>4 DEF Destroy, OnlyVms
  <2>2. ASSUME NEW n \in k.listed,
               Go(c, "down.destroy", [k EXCEPT !.listed = @ \ {n}]),
               IF VirshAnswers THEN WithoutVm(n)
               ELSE UNCHANGED <<vms, inside>>,
               UNCHANGED <<late, ghostVars>>
        PROVE  Typed'
    <3>1. [k EXCEPT !.listed = @ \ {n}] \in Command
      BY <1>1 DEF Command
    <3>2. HostTyped'
      BY <2>1, <2>2, WithoutVmTyped DEF Typed, HostTyped, hostVars, ghostVars
    <3> QED BY <2>2, <3>1, <3>2, FreeTyped DEF Typed
  <2>3. ASSUME NEW n \in k.listed, Lost(c, Effect("destroy", None, n)),
               UNCHANGED <<vms, inside>>
        PROVE  Typed'
    <3> DEFINE e == Effect("destroy", None, n)
    <3>1. e \in Effects /\ e.kind = "destroy"
      BY <1>1 DEF Effect, Effects, Opt, Command, Nodes
    <3> HIDE DEF e
    <3> QED BY <2>1, <2>3, <3>1, LostTyped DEF modeVars, e
  <2>4. CASE /\ Go(c, "down.uninstall", k)
             /\ UNCHANGED <<vms, inside, late, ghostVars>>
    <3>1. HostTyped'
      BY <2>1, <2>4 DEF Typed, HostTyped, hostVars, ghostVars
    <3> QED BY <1>1, <2>4, <3>1, FreeTyped DEF Typed
  <2> QED BY <1>4, <2>2, <2>3, <2>4 DEF Destroy
<1>5. CASE Uninstall(c)
  <2>1. UNCHANGED <<facts, hostVars, vms, inside>>
    BY <1>5 DEF Uninstall, OnlyHost
  <2>2. ASSUME NEW d \in k.host, installed' = installed \ {d},
               Go(c, "down.uninstall", [k EXCEPT !.host = @ \ {d}]),
               UNCHANGED <<late, ghostVars>>
        PROVE  Typed'
    <3>1. [k EXCEPT !.host = @ \ {d}] \in Command
      BY <1>1 DEF Command
    <3>2. HostTyped'
      BY <2>1, <2>2 DEF Typed, HostTyped, hostVars, ghostVars
    <3> QED BY <2>2, <3>1, <3>2, FreeTyped DEF Typed
  <2>3. ASSUME NEW d \in k.host, Lost(c, Effect("uninstall", d, 0)),
               UNCHANGED installed
        PROVE  Typed'
    <3> DEFINE e == Effect("uninstall", d, 0)
    <3>1. e \in Effects /\ e.kind = "uninstall"
      BY <1>1, MaxNodesAssumption DEF Effect, Effects, Opt, Command
    <3> HIDE DEF e
    <3> QED BY <2>1, <2>3, <3>1, LostTyped DEF modeVars, e
  <2>4. CASE Done(c) /\ UNCHANGED <<installed, late, ghostVars>>
    <3>1. HostTyped'
      BY <2>1, <2>4 DEF Typed, HostTyped, hostVars, ghostVars
    <3> QED BY <2>4, <3>1, EndTyped DEF Done, Typed
  <2> QED BY <1>5, <2>2, <2>3, <2>4 DEF Uninstall
<1> QED BY <1>2, <1>3, <1>4, <1>5 DEF Down

-----------------------------------------------------------------------------
(* Trouble keeps types                                                     *)

LEMMA InterruptTyped ==
  ASSUME Typed, NEW c \in Clis, Interrupt(c)
  PROVE  Typed'
<1>1. faults' \in 0..MaxFaults
  BY StrikesTyped DEF Interrupt, Typed
<1>2. HostTyped'
  BY <1>1 DEF Interrupt, Typed, HostTyped, hostVars, modeVars
<1>3. CommandsTyped'
  BY EndTyped DEF Interrupt, Fail, Typed
<1> QED BY <1>2, <1>3 DEF Typed

LEMMA LandTyped ==
  ASSUME Typed, NEW e \in late, Land(e)
  PROVE  Typed'
<1> USE DEF Typed
<1>1. CommandsTyped'
  BY DEF Land, CommandsTyped
<1>2. /\ UNCHANGED <<facts, tools, daemon, net, ghostVars>>
      /\ late' \subseteq late
      /\ e \in Effects
  BY DEF Land, HostTyped
<1>3. ASSUME locked' \in BOOLEAN, installed' \subseteq Distros,
             inside' \subseteq Distros, vms' \in [Nodes -> Opt(Distros)]
      PROVE  HostTyped'
  BY <1>2, <1>3 DEF HostTyped, ghostVars
<1>4. CASE e.kind = "packages"
  BY <1>1, <1>3, <1>4 DEF Land, modeVars, HostTyped
<1>5. CASE e.kind = "build"
  <2>1. e.distro \in Distros
    BY <1>5 DEF HostTyped
  <2>2. vms' = [vms EXCEPT ![e.node] = e.distro] \/ UNCHANGED vms
    BY <1>5 DEF Land
  <2>3. vms' \in [Nodes -> Opt(Distros)]
    BY <2>1, <2>2 DEF HostTyped, Opt
  <2> QED BY <1>1, <1>3, <1>5, <2>3 DEF Land, HostTyped
<1>6. CASE e.kind = "destroy"
  <2>1. /\ WithoutVm(e.node) \/ UNCHANGED <<vms, inside>>
        /\ UNCHANGED <<locked, installed>>
    BY <1>6 DEF Land
  <2>2. vms' \in [Nodes -> Opt(Distros)] /\ inside' \subseteq Distros
    BY <2>1, WithoutVmTyped DEF HostTyped
  <2> QED BY <1>1, <1>3, <2>1, <2>2 DEF HostTyped
<1>7. CASE e.kind = "install"
  <2>1. e.distro \in Distros
    BY <1>7 DEF HostTyped
  <2> QED BY <1>1, <1>3, <1>7, <2>1 DEF Land, HostTyped
<1>8. CASE e.kind = "uninstall"
  BY <1>1, <1>3, <1>8 DEF Land, HostTyped
<1> QED BY <1>2, <1>4, <1>5, <1>6, <1>7, <1>8 DEF Effects

\* Whoever waits for the package manager goes on with what it knew, or ends.
LEMMA PackageManagerTyped ==
  ASSUME Typed, PackageManager, UNCHANGED modeVars
  PROVE  Typed'
<1> USE DEF Typed
<1>1. CASE \E p \in Packages : Arrives(p)
  <2>1. HostTyped'
    BY <1>1 DEF Arrives, HostTyped, ghostVars, modeVars
  <2>2. CommandsTyped'
    BY <1>1 DEF Arrives, CommandsTyped
  <2> QED BY <2>1, <2>2
<1>2. CASE InstallDone
  <2>1. HostTyped'
    BY <1>2 DEF InstallDone, HostTyped, ghostVars, modeVars
  <2>2. "setup.enable" \in Steps
    BY DEF Steps, SetupSteps
  <2>3. \A k : Knows("setup.unpack", k) => Knows("setup.enable", k)
    BY DEF Knows, SetupSteps
  <2>4. CommandsTyped'
    BY <1>2, <2>2, <2>3 DEF InstallDone, CommandsTyped
  <2> QED BY <2>1, <2>4
<1>3. CASE InstallTorn
  <2>1. faults' \in 0..MaxFaults
    BY <1>3, StrikesTyped DEF InstallTorn
  <2>2. HostTyped'
    BY <1>3, <2>1 DEF InstallTorn, HostTyped, modeVars
  <2>3. "unfounded" \in Steps /\ \A k : Knows("unfounded", k)
    BY DEF Steps, AtRest, Knows, SetupSteps
  <2>4. CommandsTyped'
    BY <1>3, <2>3, NoCommandTyped DEF InstallTorn, CommandsTyped
  <2> QED BY <2>2, <2>4
<1> QED BY <1>1, <1>2, <1>3 DEF PackageManager

LEMMA WorldTyped ==
  ASSUME Typed, World
  PROVE  Typed'
<1> USE DEF Typed
<1>1. ASSUME Reboot \/ HandStop \/ HandTools
      PROVE  faults' \in 0..MaxFaults
  BY <1>1, StrikesTyped DEF Reboot, HandStop, HandTools
<1>2. CASE Reboot
  <2>1. /\ daemon' \in [on : BOOLEAN, enabled : BOOLEAN]
        /\ net' \in [on : BOOLEAN, auto : BOOLEAN]
    <3>1. daemon.enabled \in BOOLEAN /\ net.auto \in BOOLEAN
      BY DEF HostTyped
    <3>2. [daemon EXCEPT !.on = daemon.enabled]
            \in [on : BOOLEAN, enabled : BOOLEAN]
      BY <3>1 DEF HostTyped
    <3>3. [net EXCEPT !.on = daemon.enabled /\ net.auto]
            \in [on : BOOLEAN, auto : BOOLEAN]
      BY <3>1 DEF HostTyped
    <3> QED BY <1>2, <3>2, <3>3 DEF Reboot
  <2>2. HostTyped'
    BY <1>1, <1>2, <2>1 DEF World, Reboot, HostTyped, modeVars
  <2>3. \A s \in AtRest : s \in Steps /\ Knows(s, NoCommand)
    BY DEF AtRest, Steps, Knows, SetupSteps
  <2>4. \A c \in Clis : pc'[c] \in AtRest /\ cli'[c] = NoCommand
    BY <1>2 DEF Reboot, AtRest
  <2>5. pc' \in [Clis -> Steps] /\ cli' \in [Clis -> Command]
    BY <1>2, <2>3, NoCommandTyped DEF Reboot, AtRest
  <2>6. CommandsTyped'
    BY <2>3, <2>4, <2>5 DEF CommandsTyped
  <2> QED BY <2>2, <2>6
<1>3. CASE HandStop
  <2>1. daemon' \in [on : BOOLEAN, enabled : BOOLEAN]
    <3>1. /\ [daemon EXCEPT !.on = FALSE] \in [on : BOOLEAN, enabled : BOOLEAN]
          /\ [daemon EXCEPT !.enabled = FALSE]
               \in [on : BOOLEAN, enabled : BOOLEAN]
      BY DEF HostTyped
    <3> QED BY <1>3, <3>1 DEF HandStop, HostTyped
  <2>2. net' \in [on : BOOLEAN, auto : BOOLEAN]
    <3>1. [on |-> FALSE, auto |-> FALSE] \in [on : BOOLEAN, auto : BOOLEAN]
      OBVIOUS
    <3> QED BY <1>3, <3>1 DEF HandStop, HostTyped
  <2>3. HostTyped'
    BY <1>1, <1>3, <2>1, <2>2 DEF World, HandStop, HostTyped, modeVars
  <2>4. CommandsTyped'
    BY <1>3 DEF HandStop, CommandsTyped
  <2> QED BY <2>3, <2>4
<1>4. CASE HandTools
  <2>1. HostTyped'
    BY <1>1, <1>4 DEF World, HandTools, HostTyped, modeVars
  <2>2. CommandsTyped'
    BY <1>4 DEF HandTools, CommandsTyped
  <2> QED BY <2>1, <2>2
<1>5. CASE PackageManager
  BY <1>5, PackageManagerTyped DEF World
<1> QED BY <1>2, <1>3, <1>4, <1>5 DEF World

LEMMA StepTyped ==
  ASSUME Typed, [Next]_vars
  PROVE  Typed'
<1>1. CASE UNCHANGED vars
  BY <1>1 DEF vars, hostVars, ghostVars, modeVars, Typed, HostTyped,
              CommandsTyped
<1>2. ASSUME NEW c \in Clis, Ask(c) \/ Run(c) \/ Interrupt(c)
      PROVE  Typed'
  BY <1>2, AskTyped, UpVmTyped, UpHostTyped, DownTyped, SetupTyped,
     InterruptTyped DEF Run
<1> QED BY <1>1, <1>2, LandTyped, WorldTyped DEF Next

LEMMA AlwaysTyped == Spec => []Typed
<1>1. Init => Typed
  <2> SUFFICES ASSUME Init PROVE Typed
    OBVIOUS
  <2>1. facts \in Hosts /\ faults \in 0..MaxFaults
    BY MaxFaultsAssumption DEF Init, FoundationInit
  <2>2. HostTyped
    BY <2>1 DEF Init, FoundationInit, HostTyped, Opt
  <2>3. CommandsTyped
    BY NoCommandTyped
       DEF Init, FoundationInit, CommandsTyped, Knows, Steps, AtRest,
           SetupSteps
  <2> QED BY <2>2, <2>3 DEF Typed
<1>2. Typed /\ [Next]_vars => Typed'
  BY StepTyped
<1> QED BY <1>1, <1>2, PTL DEF Spec

\* Every reachable state of host, terminals and lost commands is well-formed,
\* and no VM is built beyond the number of nodes a command is to build.
THEOREM HostModesTyped == Spec => []TypeOK
<1>1. Typed => TypeOK
  BY DEF Typed, HostTyped, CommandsTyped, Knows, TypeOK
<1> QED BY <1>1, AlwaysTyped, PTL

-----------------------------------------------------------------------------
(* One command at a time sees what is so                                   *)

LEMMA GoesThere ==
  ASSUME CommandsTyped, NEW c \in Clis, NEW s, NEW k, Go(c, s, k)
  PROVE  /\ pc'[c] = s /\ cli'[c] = k
         /\ \A b \in Clis \ {c} : pc'[b] = pc[b] /\ cli'[b] = cli[b]
  BY DEF Go, CommandsTyped

LEMMA RestSeesNothing ==
  ASSUME NEW s \in AtRest \cup {"vm.look", "host.list", "down.look",
                                "down.list", "down.destroy",
                                "down.uninstall"},
         NEW k
  PROVE  Sight(s, k)'
  BY DEF Sight, AtRest, VmSteps, SetupSteps

\* While one command runs and the others rest, only its own sight counts.
LEMMA ActsAlone ==
  ASSUME CommandsTyped, Alone, NEW c \in Clis, pc[c] \notin AtRest,
         NEW s, NEW k, Go(c, s, k), UNCHANGED <<late, blurred>>,
         blurred \/ Sight(s, k)'
  PROVE  Alone'
<1> SUFFICES ASSUME ~blurred PROVE Alone'
  BY DEF Alone
<1>1. /\ pc'[c] = s /\ cli'[c] = k
      /\ \A b \in Clis \ {c} : pc'[b] = pc[b] /\ cli'[b] = cli[b]
  BY GoesThere
<1>2. \A b \in Clis \ {c} : pc[b] \in AtRest
  BY DEF Alone
<1>3. ASSUME NEW b \in Clis
      PROVE  Sight(pc[b], cli[b])'
  <2>1. CASE b = c
    BY <1>1, <2>1 DEF Sight
  <2>2. CASE b # c
    BY <1>1, <1>2, <2>2, RestSeesNothing DEF Sight
  <2> QED BY <2>1, <2>2
<1> QED BY <1>1, <1>2, <1>3 DEF Alone

LEMMA EndsAlone ==
  ASSUME CommandsTyped, Alone, NEW c \in Clis, pc[c] \notin AtRest,
         End(c, "idle") \/ End(c, "unfounded"), UNCHANGED <<late, blurred>>
  PROVE  Alone'
  BY ActsAlone, RestSeesNothing DEF End, AtRest

LEMMA SightHere ==
  ASSUME Alone, ~blurred, NEW c \in Clis
  PROVE  Sight(pc[c], cli[c]) /\ late = {}
  BY DEF Alone

\* Where the VMs and the distributions stay what they are.
LEMMA PlacesStay ==
  ASSUME Places, UNCHANGED modeVars, tools \subseteq tools',
         blurred' = blurred \/ blurred' = TRUE
  PROVE  Places'
  BY DEF Places, There, modeVars, OnlyOne

LEMMA LostSight ==
  ASSUME Places, NEW c, NEW e, Lost(c, e), UNCHANGED <<hostVars, modeVars>>
  PROVE  Alone' /\ Places'
  BY PlacesStay DEF Lost, Alone, hostVars

\* A look changes neither places nor sight but that of the one who looks.
LEMMA LooksAlone ==
  ASSUME CommandsTyped, Alone, Places, NEW c \in Clis, pc[c] \notin AtRest,
         Looks, NEW s, NEW k, Go(c, s, k), blurred \/ Sight(s, k)
  PROVE  Alone' /\ Places'
<1>1. UNCHANGED <<late, blurred, installed, inside, vms, tools>>
  BY DEF Looks, ghostVars, modeVars, hostVars
<1>2. blurred \/ Sight(s, k)'
  BY <1>1 DEF Sight, There
<1>3. Places'
  BY <1>1, PlacesStay DEF modeVars
<1> QED BY <1>1, <1>2, <1>3, ActsAlone

LEMMA LooksEnd ==
  ASSUME CommandsTyped, Alone, Places, NEW c \in Clis, pc[c] \notin AtRest,
         Looks, Fail(c)
  PROVE  Alone' /\ Places'
<1>1. UNCHANGED <<late, blurred, modeVars, tools>>
  BY DEF Looks, ghostVars, hostVars
<1> QED BY <1>1, EndsAlone, PlacesStay DEF Fail

LEMMA AskSees ==
  ASSUME Typed, Alone, Places, NEW c \in Clis, Ask(c)
  PROVE  Alone' /\ Places'
<1>0. PICK s \in {"vm.look", "host.list", "down.look"} : \E k : Begin(c, s, k)
  BY DEF Ask, AskVm, AskHost, AskDown
<1>1. PICK k : Begin(c, s, k)
  BY <1>0
<1>2. /\ pc'[c] = s /\ cli'[c] = k
      /\ \A b \in Clis \ {c} : pc'[b] = pc[b] /\ cli'[b] = cli[b]
  BY <1>1, GoesThere DEF Begin, Typed
<1>3. Places'
  <2>1. blurred \in BOOLEAN
    BY DEF Typed, HostTyped
  <2> QED BY <1>1, <2>1, PlacesStay DEF Begin, hostVars
<1>4. Alone'
  <2> SUFFICES ASSUME ~blurred' PROVE Alone'
    BY DEF Alone
  <2>1. ~blurred /\ UNCHANGED late /\ \A b \in Clis \ {c} : pc[b] \in AtRest
    BY <1>1 DEF Begin
  <2>2. ASSUME NEW b \in Clis
        PROVE  Sight(pc[b], cli[b])'
    <3>1. pc'[b] \in AtRest \cup {"vm.look", "host.list", "down.look"}
      BY <1>2, <2>1
    <3> QED BY <3>1, RestSeesNothing DEF Sight
  <2>3. late' = {}
    BY <2>1 DEF Alone
  <2> QED BY <1>2, <2>1, <2>2, <2>3 DEF Alone
<1> QED BY <1>3, <1>4

LEMMA SetupSees ==
  ASSUME Typed, Alone, Places, NEW c \in Clis, Setup(c), UNCHANGED modeVars
  PROVE  Alone' /\ Places'
<1>1. pc[c] \in SetupSteps /\ pc[c] \notin AtRest
  BY DEF Setup, Preflight, InstallPackages, LeaveInstall, EnableDaemon,
         StartNetwork, Verify, SetupSteps, AtRest
<1>2. tools \subseteq tools'
  BY DEF Setup, Preflight, InstallPackages, LeaveInstall, EnableDaemon,
         StartNetwork, Verify, hostVars, Typed, HostTyped
<1>3. \/ /\ UNCHANGED <<late, blurred>>
         /\ \/ Fail(c) \/ End(c, "unfounded")
            \/ \E s \in SetupSteps \cup {"vm.fit"} : Go(c, s, cli[c])
      \/ blurred' = TRUE
  BY DEF Setup, Preflight, InstallPackages, LeaveInstall, EnableDaemon,
         StartNetwork, Verify, ghostVars, Lost, SetupSteps
<1>4. Places'
  <2>1. blurred' = blurred \/ blurred' = TRUE
    BY <1>3
  <2> QED BY <1>2, <2>1, PlacesStay
<1>5. ASSUME NEW s \in SetupSteps \cup {"vm.fit"}, Go(c, s, cli[c]),
             UNCHANGED <<late, blurred>>
      PROVE  Alone'
  <2>1. PICK k : k = cli[c]
    OBVIOUS
  <2>2. blurred \/ Sight(pc[c], k)
    BY <2>1, SightHere
  <2>3. blurred \/ Sight(s, k)'
    BY <1>1, <1>5, <2>2 DEF Sight, VmSteps, SetupSteps, There, modeVars
  <2> QED BY <1>1, <1>5, <2>1, <2>3, ActsAlone DEF Typed
<1>6. Alone'
  BY <1>1, <1>3, <1>5, EndsAlone DEF Fail, Typed, Alone
<1> QED BY <1>4, <1>6

-----------------------------------------------------------------------------
(* ... through every step of the three commands                            *)

LEMMA LookForVmSees ==
  ASSUME Typed, Alone, Places, NEW c \in Clis, LookForVm(c)
  PROVE  Alone' /\ Places'
<1>1. pc[c] \notin AtRest /\ Looks /\ CommandsTyped
  BY DEF LookForVm, AtRest, Typed
<1>2. CASE Fail(c)
  BY <1>1, <1>2, LooksEnd
<1>3. CASE installed = {} /\ Go(c, "vm.list", cli[c])
  <2>1. Sight("vm.list", cli[c])
    BY <1>3 DEF Sight, SetupSteps
  <2> QED BY <1>1, <1>3, <2>1, LooksAlone
<1> QED BY <1>2, <1>3 DEF LookForVm

LEMMA ListForVmSees ==
  ASSUME Typed, Alone, Places, NEW c \in Clis, ListForVm(c)
  PROVE  Alone' /\ Places'
<1>1. pc[c] = "vm.list" /\ pc[c] \notin AtRest /\ Looks /\ CommandsTyped
  BY DEF ListForVm, AtRest, Typed
<1>2. CASE Fail(c)
  BY <1>1, <1>2, LooksEnd
<1>3. ASSUME NEW n, NEW d,
             Go(c, "setup.preflight",
                [cli[c] EXCEPT !.nodes = n, !.listed = Listed, !.distro = d])
      PROVE  Alone' /\ Places'
  <2> DEFINE j == [cli[c] EXCEPT !.nodes = n, !.listed = Listed, !.distro = d]
  <2>1. j.listed = Listed
    BY <1>1 DEF CommandsTyped, Command
  <2> HIDE DEF j
  <2>2. Listed = {} => inside = {}
    BY DEF Listed, Places
  <2>3. blurred \/ installed = {}
    BY <1>1, SightHere DEF Sight, VmSteps
  <2>4. blurred \/ Sight("setup.preflight", j)
    BY <2>1, <2>2, <2>3 DEF Sight, SetupSteps
  <2> QED BY <1>1, <1>3, <2>4, LooksAlone DEF j
<1> QED BY <1>2, <1>3 DEF ListForVm

LEMMA CheckFitSees ==
  ASSUME Typed, Alone, Places, NEW c \in Clis, CheckFit(c)
  PROVE  Alone' /\ Places'
<1> DEFINE j == [cli[c] EXCEPT !.cur = 1]
<1>1. pc[c] = "vm.fit" /\ pc[c] \notin AtRest /\ Looks /\ CommandsTyped
  BY DEF CheckFit, AtRest, Typed
<1>2. CASE Fail(c)
  BY <1>1, <1>2, LooksEnd
<1>3. CASE Go(c, "vm.build", j)
  <2>1. j.cur = 1 /\ j.listed = cli[c].listed
    BY <1>1 DEF CommandsTyped, Command
  <2> HIDE DEF j
  <2>2. /\ blurred \/ installed = {}
        /\ blurred \/ cli[c].listed # {} \/ inside = {}
    BY <1>1, SightHere DEF Sight, VmSteps
  <2>3. blurred \/ Sight("vm.build", j)
    BY <2>1, <2>2 DEF Sight, SetupSteps
  <2> QED BY <1>1, <1>3, <2>3, LooksAlone
<1> QED BY <1>2, <1>3 DEF CheckFit

\* To build a VM changes nothing of what the builder saw.
LEMMA AfterBuildSees ==
  ASSUME Typed, Alone, NEW c \in Clis, pc[c] = "vm.build", AfterBuild(c),
         UNCHANGED <<late, blurred, installed, inside>>
  PROVE  Alone'
<1> PICK k : k = cli[c]
  OBVIOUS
<1> DEFINE j == [k EXCEPT !.cur = @ + 1]
<1>1. pc[c] \notin AtRest /\ CommandsTyped
  BY DEF AtRest, Typed
<1>2. k \in Command /\ k.cur \in 1..k.nodes /\ k.nodes \in Nat
  BY MaxNodesAssumption DEF Typed, CommandsTyped, Knows, Command
<1>3. /\ blurred \/ installed = {}
      /\ \/ blurred \/ inside \subseteq {k.distro}
         \/ k.listed # {} /\ k.cur = 1
  BY SightHere DEF Sight, VmSteps
<1>4. CASE k.cur = 1 /\ k.listed # {} /\ Go(c, "vm.inspect", k)
  <2>1. blurred \/ Sight("vm.inspect", k)'
    BY <1>3 DEF Sight, SetupSteps
  <2> QED BY <1>1, <1>4, <2>1, ActsAlone
<1>5. CASE ~(k.cur = 1 /\ k.listed # {}) /\ Go(c, "vm.build", j)
  <2>1. j.distro = k.distro
    BY <1>2 DEF Command
  <2> HIDE DEF j
  <2>2. blurred \/ Sight("vm.build", j)'
    BY <1>3, <1>5, <2>1 DEF Sight, SetupSteps
  <2> QED BY <1>1, <1>5, <2>2, ActsAlone
<1>6. CASE ~(k.cur = 1 /\ k.listed # {}) /\ Go(c, "vm.cluster", k)
  <2>1. blurred \/ Sight("vm.cluster", k)'
    BY <1>3, <1>6 DEF Sight, SetupSteps
  <2> QED BY <1>1, <1>6, <2>1, ActsAlone
<1> QED BY <1>4, <1>5, <1>6 DEF AfterBuild

LEMMA BuildSees ==
  ASSUME Typed, Alone, Places, NEW c \in Clis, Build(c)
  PROVE  Alone' /\ Places'
<1> DEFINE n == cli[c].cur
<1>1. /\ pc[c] = "vm.build" /\ pc[c] \notin AtRest
      /\ UNCHANGED <<hostVars, tools, installed, inside>>
  BY DEF Build, OnlyVms, hostVars, AtRest
<1>2. SizeFor(c) # None
  BY <1>1, SizeForTyped, NoNumberAssumption DEF Typed, Distros
<1>3. CASE AfterBuild(c) /\ UNCHANGED <<vms, late, ghostVars>>
  <2>1. Alone'
    BY <1>1, <1>3, AfterBuildSees DEF ghostVars
  <2>2. Places'
    BY <1>1, <1>3, PlacesStay DEF ghostVars, modeVars
  <2> QED BY <2>1, <2>2
<1>4. CASE /\ VirshAnswers /\ vms' = [vms EXCEPT ![n] = SizeFor(c)]
           /\ AfterBuild(c) /\ UNCHANGED <<late, ghostVars>>
  <2>1. Alone'
    BY <1>1, <1>4, AfterBuildSees DEF ghostVars
  <2>2. There \subseteq There'
    BY <1>2, <1>4 DEF There, Typed, HostTyped
  <2>3. Places'
    BY <1>1, <1>4, <2>2 DEF Places, VirshAnswers, ghostVars, OnlyOne
  <2> QED BY <2>1, <2>3
<1>5. CASE Fail(c) /\ UNCHANGED <<vms, late, ghostVars>>
  <2>1. Alone'
    BY <1>1, <1>5, EndsAlone DEF Fail, ghostVars, Typed
  <2>2. Places'
    BY <1>1, <1>5, PlacesStay DEF ghostVars, modeVars
  <2> QED BY <2>1, <2>2
<1>6. CASE Lost(c, Effect("build", SizeFor(c), n)) /\ UNCHANGED vms
  BY <1>1, <1>6, LostSight DEF modeVars
<1> QED BY <1>3, <1>4, <1>5, <1>6 DEF Build

LEMMA InspectSees ==
  ASSUME Typed, Alone, Places, NEW c \in Clis, Inspect(c)
  PROVE  Alone' /\ Places'
<1> DEFINE k == cli[c]
<1>1. /\ pc[c] = "vm.inspect" /\ pc[c] \notin AtRest /\ Looks
      /\ CommandsTyped /\ k \in Command /\ k.distro \in Opt(Distros)
  BY DEF Inspect, AtRest, Typed, CommandsTyped, Command
<1>2. blurred \/ installed = {}
  BY <1>1, SightHere DEF Sight, VmSteps
<1>3. \A d \in Selectable(inside, k.distro) : inside \subseteq {d}
  BY <1>1, SelectableFits DEF Typed, HostTyped
<1>4. CASE Fail(c)
  BY <1>1, <1>4, LooksEnd
<1>5. ASSUME NEW d \in Selectable(inside, k.distro),
             Go(c, "vm.build", [k EXCEPT !.distro = d, !.cur = 2])
      PROVE  Alone' /\ Places'
  <2> DEFINE j == [k EXCEPT !.distro = d, !.cur = 2]
  <2>1. j.distro = d
    BY <1>1 DEF Command
  <2> HIDE DEF j
  <2>2. blurred \/ Sight("vm.build", j)
    BY <1>2, <1>3, <2>1 DEF Sight, SetupSteps
  <2> QED BY <1>1, <1>5, <2>2, LooksAlone DEF j
<1>6. ASSUME NEW d \in Selectable(inside, k.distro),
             Go(c, "vm.cluster", [k EXCEPT !.distro = d])
      PROVE  Alone' /\ Places'
  <2> DEFINE j == [k EXCEPT !.distro = d]
  <2>1. j.distro = d
    BY <1>1 DEF Command
  <2> HIDE DEF j
  <2>2. blurred \/ Sight("vm.cluster", j)
    BY <1>2, <1>3, <2>1 DEF Sight, SetupSteps
  <2> QED BY <1>1, <1>6, <2>2, LooksAlone DEF j
<1> QED BY <1>4, <1>5, <1>6 DEF Inspect

\* A distribution put where nothing but itself may be is the only one there.
LEMMA OneMore ==
  ASSUME NEW S, NEW d \in Distros, S \subseteq {d}
  PROVE  OnlyOne(S) /\ OnlyOne(S \cup {d})
  BY DEF OnlyOne

LEMMA ClusterSees ==
  ASSUME Typed, Alone, Places, NEW c \in Clis, Cluster(c)
  PROVE  Alone' /\ Places'
<1>1. /\ pc[c] = "vm.cluster" /\ pc[c] \notin AtRest
      /\ cli[c].distro \in Distros
      /\ UNCHANGED <<tools, installed, vms, late, blurred>>
  BY DEF Cluster, AtRest, Typed, CommandsTyped, Knows, OnlyVms, hostVars,
         ghostVars
<1>2. Alone'
  BY <1>1, EndsAlone DEF Cluster, Done, Fail, Typed
<1>3. blurred \/ inside \subseteq {cli[c].distro}
  BY <1>1, SightHere DEF Sight
<1> SUFFICES Places'
  BY <1>2
<1>4. CASE 1 \in There /\ inside' = inside \cup {cli[c].distro}
  <2>1. blurred \/ OnlyOne(inside')
    BY <1>1, <1>3, <1>4, OneMore
  <2>2. UNCHANGED <<There, tools, installed, blurred>>
    BY <1>1 DEF There
  <2> QED BY <1>4, <2>1, <2>2 DEF Places, OnlyOne
<1>5. CASE UNCHANGED inside
  BY <1>1, <1>5, PlacesStay DEF modeVars
<1> QED BY <1>4, <1>5 DEF Cluster

LEMMA UpHostSees ==
  ASSUME Typed, Alone, Places, NEW c \in Clis, UpHost(c)
  PROVE  Alone' /\ Places'
<1> DEFINE k == cli[c]
<1>1. pc[c] \notin AtRest /\ CommandsTyped
  BY DEF UpHost, ListForHost, LookForHost, InstallHost, AtRest, Typed
<1>2. k \in Command /\ k.distro \in Opt(Distros)
  BY DEF Typed, CommandsTyped, Command
<1>3. CASE ListForHost(c)
  <2>1. Looks
    BY <1>3 DEF ListForHost
  <2>2. CASE Listed = {} /\ Go(c, "host.look", k)
    <3>1. Sight("host.look", k)
      BY <2>2 DEF Sight, Listed, Places, VmSteps, SetupSteps
    <3> QED BY <1>1, <2>1, <2>2, <3>1, LooksAlone
  <2> QED BY <1>1, <1>3, <2>1, <2>2, LooksEnd DEF ListForHost
<1>4. CASE LookForHost(c)
  <2>1. Looks /\ (blurred \/ There = {})
    BY <1>4, SightHere DEF LookForHost, Sight
  <2>2. ASSUME NEW d \in Selectable(installed, k.distro),
               Go(c, "host.install", [k EXCEPT !.distro = d])
        PROVE  Alone' /\ Places'
    <3> DEFINE j == [k EXCEPT !.distro = d]
    <3>1. j.distro = d
      BY <1>2 DEF Command
    <3>2. installed \subseteq {d}
      BY <1>2, SelectableFits DEF Typed, HostTyped
    <3> HIDE DEF j
    <3>3. blurred \/ Sight("host.install", j)
      BY <2>1, <3>1, <3>2 DEF Sight, VmSteps, SetupSteps
    <3> QED BY <1>1, <2>1, <2>2, <3>3, LooksAlone DEF j
  <2> QED BY <1>1, <1>4, <2>1, <2>2, LooksEnd DEF LookForHost
<1>5. CASE InstallHost(c)
  <2>1. /\ UNCHANGED <<hostVars, tools, vms, inside>>
        /\ k.distro \in Distros
        /\ blurred \/ installed \subseteq {k.distro}
    BY <1>5, SightHere DEF InstallHost, OnlyHost, hostVars, Typed,
                           CommandsTyped, Knows, Sight
  <2>2. CASE Lost(c, Effect("install", k.distro, 0)) /\ UNCHANGED installed
    BY <2>1, <2>2, LostSight DEF modeVars
  <2>3. CASE /\ Done(c) \/ Fail(c)
             /\ installed' \in {installed, installed \cup {k.distro}}
             /\ UNCHANGED <<late, ghostVars>>
    <3>1. Alone'
      BY <1>1, <2>3, EndsAlone DEF Done, Fail, ghostVars
    <3>2. Places'
      BY <2>1, <2>3, OneMore DEF Places, There, ghostVars, OnlyOne
    <3> QED BY <3>1, <3>2
  <2> QED BY <1>5, <2>2, <2>3 DEF InstallHost
<1> QED BY <1>3, <1>4, <1>5 DEF UpHost

\* What is removed leaves at most what was there.
LEMMA PlacesShrink ==
  ASSUME Places, UNCHANGED <<tools, blurred>>, There' \subseteq There,
         installed' \subseteq installed, inside' \subseteq inside,
         inside' # {} /\ 1 \in There => 1 \in There'
  PROVE  Places'
  BY DEF Places, OnlyOne

LEMMA WithoutVmShrinks ==
  ASSUME Typed, Places, NEW n, WithoutVm(n), UNCHANGED <<tools, blurred>>,
         installed' \subseteq installed
  PROVE  Places' /\ There' = There \ {n}
<1>1. There' = There \ {n}
  BY DEF WithoutVm, There, Typed, HostTyped
<1>2. inside' \subseteq inside /\ (n = 1 => inside' = {})
  BY DEF WithoutVm
<1> QED BY <1>1, <1>2, PlacesShrink

LEMMA DownSees ==
  ASSUME Typed, Alone, Places, NEW c \in Clis, Down(c)
  PROVE  Alone' /\ Places'
<1> DEFINE Steps1 == {"down.list", "down.destroy", "down.uninstall"}
<1>1. pc[c] \notin AtRest /\ CommandsTyped
  BY DEF Down, LookForDown, ListForDown, Destroy, Uninstall, AtRest, Typed
<1>2. ASSUME NEW s \in Steps1, NEW k, Go(c, s, k), UNCHANGED <<late, blurred>>
      PROVE  Alone'
  <2>1. Sight(s, k)'
    BY RestSeesNothing
  <2> QED BY <1>1, <1>2, <2>1, ActsAlone
<1>3. CASE LookForDown(c) \/ ListForDown(c)
  <2>1. UNCHANGED <<modeVars, tools, late, blurred>>
    BY <1>3 DEF LookForDown, ListForDown, Looks, hostVars, ghostVars
  <2>2. Fail(c) \/ \E s \in Steps1 : \E k : Go(c, s, k)
    BY <1>3 DEF LookForDown, ListForDown
  <2>3. Alone'
    BY <1>1, <1>2, <2>1, <2>2, EndsAlone DEF Fail
  <2> QED BY <2>1, <2>3, PlacesStay
<1>4. CASE Destroy(c)
  <2>1. UNCHANGED <<hostVars, tools, installed>>
    BY <1>4 DEF Destroy, OnlyVms, hostVars
  <2>2. ASSUME NEW e, Lost(c, e), UNCHANGED <<vms, inside>>
        PROVE  Alone' /\ Places'
    BY <2>1, <2>2, LostSight DEF modeVars
  <2>3. CASE /\ \/ \E n : WithoutVm(n)
                \/ UNCHANGED <<vms, inside>>
             /\ \E s \in Steps1 : \E k : Go(c, s, k)
             /\ UNCHANGED <<late, ghostVars>>
    <3>1. UNCHANGED blurred /\ Alone'
      BY <1>2, <2>3 DEF ghostVars
    <3>2. Places'
      BY <2>1, <2>3, <3>1, WithoutVmShrinks, PlacesStay DEF modeVars
    <3> QED BY <3>1, <3>2
  <2> QED BY <1>4, <2>2, <2>3 DEF Destroy
<1>5. CASE Uninstall(c)
  <2>1. UNCHANGED <<hostVars, tools, vms, inside>>
    BY <1>5 DEF Uninstall, OnlyHost, hostVars
  <2>2. ASSUME NEW e, Lost(c, e), UNCHANGED installed
        PROVE  Alone' /\ Places'
    BY <2>1, <2>2, LostSight DEF modeVars
  <2>3. CASE /\ installed' \subseteq installed
             /\ Done(c) \/ \E s \in Steps1 : \E k : Go(c, s, k)
             /\ UNCHANGED <<late, ghostVars>>
    <3>1. UNCHANGED blurred /\ Alone'
      BY <1>1, <1>2, <2>3, EndsAlone DEF ghostVars, Done
    <3>2. Places'
      BY <2>1, <2>3, <3>1, PlacesShrink DEF There
    <3> QED BY <3>1, <3>2
  <2> QED BY <1>5, <2>2, <2>3 DEF Uninstall
<1> QED BY <1>3, <1>4, <1>5 DEF Down

LEMMA RunSees ==
  ASSUME Typed, Alone, Places, NEW c \in Clis, Run(c)
  PROVE  Alone' /\ Places'
  BY LookForVmSees, ListForVmSees, CheckFitSees, BuildSees, InspectSees,
     ClusterSees, UpHostSees, DownSees, SetupSees DEF Run, UpVm

LEMMA InterruptSees ==
  ASSUME Typed, Alone, Places, NEW c \in Clis, Interrupt(c)
  PROVE  Alone' /\ Places'
<1>1. UNCHANGED <<late, blurred, modeVars, tools>>
  BY DEF Interrupt, hostVars
<1> QED BY <1>1, EndsAlone, PlacesStay DEF Interrupt, Fail, Typed

LEMMA LandSees ==
  ASSUME Typed, Alone, Places, NEW e \in late, Land(e)
  PROVE  Alone' /\ Places'
<1>1. blurred /\ UNCHANGED blurred
  BY DEF Alone, Land, ghostVars
<1> SUFFICES Places'
  BY <1>1 DEF Alone
<1>2. ASSUME There' # {} => "virsh" \in tools', inside' # {} => 1 \in There'
      PROVE  Places'
  BY <1>1, <1>2 DEF Places
<1>3. CASE e.kind = "packages"
  BY <1>2, <1>3 DEF Land, modeVars, Places, There
<1>4. CASE e.kind = "build"
  <2>1. /\ UNCHANGED <<tools, inside>>
        /\ \/ "virsh" \in tools /\ vms' = [vms EXCEPT ![e.node] = e.distro]
           \/ UNCHANGED vms
    BY <1>4 DEF Land, VirshAnswers
  <2>2. e.distro # None
    BY <1>4, NoNumberAssumption DEF Typed, HostTyped, Distros
  <2>3. There \subseteq There'
    BY <2>1, <2>2 DEF There, Typed, HostTyped
  <2>4. UNCHANGED There \/ "virsh" \in tools
    BY <2>1 DEF There
  <2> QED BY <1>2, <2>1, <2>3, <2>4 DEF Places
<1>5. CASE e.kind = "destroy"
  <2>1. /\ WithoutVm(e.node) \/ UNCHANGED <<vms, inside>>
        /\ UNCHANGED <<tools, installed>>
    BY <1>5 DEF Land
  <2> QED BY <1>1, <2>1, WithoutVmShrinks, PlacesStay DEF modeVars
<1>6. CASE e.kind \in {"install", "uninstall"}
  BY <1>2, <1>6 DEF Land, Places, There
<1>7. e.kind \in {"packages", "build", "destroy", "install", "uninstall"}
  BY DEF Typed, HostTyped, Effects
<1> QED BY <1>3, <1>4, <1>5, <1>6, <1>7

LEMMA WorldSees ==
  ASSUME Typed, Alone, Places, World
  PROVE  Alone' /\ Places'
<1>1. UNCHANGED <<modeVars, blurred>> /\ tools \subseteq tools'
  <2>1. CASE PackageManager
    BY <2>1 DEF World, PackageManager, Arrives, InstallDone, InstallTorn,
                ghostVars
  <2> QED BY <2>1 DEF World, Reboot, HandStop, HandTools, Typed, HostTyped
<1>2. Places'
  BY <1>1, PlacesStay
<1>3. CASE Reboot
  <2>1. late' = {} /\ \A c \in Clis : pc'[c] \in AtRest
    BY <1>3 DEF Reboot, AtRest
  <2>2. \A c \in Clis : Sight(pc[c], cli[c])'
    BY <2>1, RestSeesNothing DEF Sight
  <2> QED BY <1>2, <2>1, <2>2 DEF Alone
<1>4. CASE HandStop \/ HandTools
  <2>1. UNCHANGED <<pc, cli, late>>
    BY <1>4 DEF HandStop, HandTools
  <2> QED BY <1>1, <1>2, <2>1 DEF Alone, Sight, There, modeVars
<1>5. CASE PackageManager
  <2>1. UNCHANGED late
    BY <1>5 DEF PackageManager, Arrives, InstallDone, InstallTorn
  <2>2. \A c \in Clis :
          \/ pc'[c] = pc[c] /\ cli'[c] = cli[c]
          \/ pc[c] = "setup.unpack" /\ pc'[c] = "setup.enable"
             /\ cli'[c] = cli[c]
          \/ pc[c] = "setup.unpack" /\ pc'[c] = "unfounded"
    BY <1>5 DEF PackageManager, Arrives, InstallDone, InstallTorn, Typed,
                CommandsTyped
  <2>3. ASSUME NEW y, NEW j, Sight(y, j), NEW x, NEW k,
               \/ x = y /\ k = j
               \/ y = "setup.unpack" /\ x = "setup.enable" /\ k = j
               \/ x = "unfounded"
        PROVE  Sight(x, k)'
    BY <1>1, <2>3 DEF Sight, VmSteps, SetupSteps, There, modeVars
  <2>4. ASSUME NEW c \in Clis, Sight(pc[c], cli[c])
        PROVE  Sight(pc[c], cli[c])'
    <3>1. PICK x, k : x = pc'[c] /\ k = cli'[c]
      OBVIOUS
    <3>2. PICK y, j : y = pc[c] /\ j = cli[c]
      OBVIOUS
    <3>3. Sight(y, j)
      BY <2>4, <3>2
    <3>4. \/ x = y /\ k = j
          \/ y = "setup.unpack" /\ x = "setup.enable" /\ k = j
          \/ x = "unfounded"
      BY <2>2, <3>1, <3>2
    <3>5. Sight(x, k)'
      BY <2>3, <3>3, <3>4
    <3> QED BY <3>1, <3>5 DEF Sight
  <2>5. \A c \in Clis : pc[c] \in AtRest => pc'[c] \in AtRest
    BY <2>2 DEF AtRest
  <2> QED BY <1>1, <1>2, <2>1, <2>4, <2>5 DEF Alone, Sight
<1> QED BY <1>3, <1>4, <1>5 DEF World

LEMMA StepSees ==
  ASSUME Typed, Alone, Places, [Next]_vars
  PROVE  Alone' /\ Places'
<1>1. CASE UNCHANGED vars
  BY <1>1 DEF vars, hostVars, ghostVars, modeVars, Alone, Sight, Places,
              There, OnlyOne
<1> QED BY <1>1, AskSees, RunSees, InterruptSees, LandSees, WorldSees DEF Next

LEMMA AlwaysSees == Spec => [](Typed /\ Alone /\ Places)
<1>1. Init => Alone /\ Places
  <2> SUFFICES ASSUME Init PROVE Alone /\ Places
    OBVIOUS
  <2>1. There = {} /\ installed = {} /\ inside = {} /\ late = {}
    BY DEF Init, FoundationInit, There
  <2>2. \A c \in Clis : pc[c] = "idle"
    BY DEF Init, FoundationInit
  <2> QED BY <2>1, <2>2 DEF Alone, Sight, Places, OnlyOne, AtRest, VmSteps,
                            SetupSteps, Distros
<1>2. Typed /\ Alone /\ Places /\ [Next]_vars => (Alone /\ Places)'
  BY StepSees
<1> QED BY <1>1, <1>2, AlwaysTyped, PTL DEF Spec

\* Neither the host nor the server's VM ever holds two distributions while
\* every command is alone, whatever is asked for, cut off and asked again.
THEOREM OneDistroEverywhere == Spec => []OneDistroPerPlace
<1>1. ASSUME NEW S, OnlyOne(S) PROVE Cardinality(S) <= 1
  <2>1. PICK d \in Distros : S \subseteq {d}
    BY <1>1 DEF OnlyOne
  <2>2. S = {} \/ S = {d}
    BY <2>1
  <2> QED BY <2>2, FS_EmptySet, FS_Singleton
<1>2. Places => OneDistroPerPlace
  BY <1>1 DEF Places, OneDistroPerPlace
<1> QED BY <1>2, AlwaysSees, PTL

-----------------------------------------------------------------------------
(* The modes keep Tenancy's promise                                        *)

LEMMA HoldersAre ==
  /\ Holders = (IF installed # {} THEN {"host"} ELSE {})
                 \cup (IF There # {} THEN {"vm"} ELSE {})
  BY DEF Holders

\* Nobody comes or goes, or it only shows that the sight is blurred.
LEMMA TenantsStay ==
  ASSUME Holders' = Holders, blurred' = blurred \/ blurred' = TRUE
  PROVE  [Tenant!Next]_<<Holders, blurred>>
  BY DEF Tenant!Next, Tenant!Blur

LEMMA SameTenants ==
  ASSUME UNCHANGED <<installed, vms>>,
         blurred' = blurred \/ blurred' = TRUE
  PROVE  [Tenant!Next]_<<Holders, blurred>>
<1>1. Holders' = Holders
  BY DEF Holders, There
<1> QED BY <1>1, TenantsStay

LEMMA HostComes ==
  ASSUME UNCHANGED <<vms, blurred>>, NEW d, installed' = installed \cup {d},
         There = {} \/ blurred
  PROVE  [Tenant!Next]_<<Holders, blurred>>
<1>1. UNCHANGED There
  BY DEF There
<1>2. Holders' = Holders \cup {"host"} /\ (Holders \subseteq {"host"} \/ blurred)
  BY <1>1, HoldersAre DEF Holders
<1> QED BY <1>2 DEF Tenant!Next, Tenant!Come

LEMMA VmComes ==
  ASSUME UNCHANGED <<installed, blurred>>, NEW n \in Nodes,
         NEW d \in Distros, Typed, vms' = [vms EXCEPT ![n] = d],
         installed = {} \/ blurred
  PROVE  [Tenant!Next]_<<Holders, blurred>>
<1>1. n \in There'
  BY NoNumberAssumption DEF There, Typed, HostTyped, Distros
<1>2. Holders' = Holders \cup {"vm"} /\ (Holders \subseteq {"vm"} \/ blurred)
  BY <1>1 DEF Holders
<1> QED BY <1>2 DEF Tenant!Next, Tenant!Come

LEMMA SomeLeave ==
  ASSUME UNCHANGED blurred,
         \/ UNCHANGED vms /\ installed' \subseteq installed
         \/ UNCHANGED installed /\ There' \subseteq There
  PROVE  [Tenant!Next]_<<Holders, blurred>>
<1>1. CASE UNCHANGED vms /\ installed' \subseteq installed
  <2>1. Holders' = Holders \/ Holders' = Holders \ {"host"}
    BY <1>1 DEF Holders, There
  <2> QED BY <2>1 DEF Tenant!Next, Tenant!Leave
<1>2. CASE UNCHANGED installed /\ There' \subseteq There
  <2>1. Holders' = Holders \/ Holders' = Holders \ {"vm"}
    BY <1>2 DEF Holders
  <2> QED BY <2>1 DEF Tenant!Next, Tenant!Leave
<1> QED BY <1>1, <1>2

LEMMA BuildTenants ==
  ASSUME Typed, Alone, Places, NEW c \in Clis, Build(c)
  PROVE  [Tenant!Next]_<<Holders, blurred>>
<1> DEFINE n == cli[c].cur
<1>1. /\ pc[c] = "vm.build" /\ SizeFor(c) \in Distros /\ n \in Nodes
      /\ UNCHANGED installed
  BY SizeForTyped, MaxNodesAssumption
     DEF Build, OnlyVms, Typed, CommandsTyped, Knows, Command, Nodes
<1>2. installed = {} \/ blurred
  BY <1>1, SightHere DEF Sight, VmSteps
<1>3. CASE UNCHANGED vms
  BY <1>1, <1>3, SameTenants DEF Build, ghostVars, Lost
<1>4. CASE vms' = [vms EXCEPT ![n] = SizeFor(c)] /\ UNCHANGED ghostVars
  BY <1>1, <1>2, <1>4, VmComes DEF ghostVars
<1> QED BY <1>3, <1>4 DEF Build

LEMMA InstallTenants ==
  ASSUME Typed, Alone, Places, NEW c \in Clis, InstallHost(c)
  PROVE  [Tenant!Next]_<<Holders, blurred>>
<1>1. UNCHANGED vms /\ (There = {} \/ blurred)
  BY SightHere DEF InstallHost, OnlyHost, Sight
<1>2. CASE UNCHANGED installed
  BY <1>1, <1>2, SameTenants DEF InstallHost, ghostVars, Lost
<1>3. CASE /\ installed' = installed \cup {cli[c].distro}
           /\ UNCHANGED ghostVars
  BY <1>1, <1>3, HostComes DEF ghostVars
<1> QED BY <1>2, <1>3 DEF InstallHost

LEMMA DownTenants ==
  ASSUME Typed, Alone, Places, NEW c \in Clis, Down(c)
  PROVE  [Tenant!Next]_<<Holders, blurred>>
<1>1. CASE LookForDown(c) \/ ListForDown(c)
  BY <1>1, SameTenants DEF LookForDown, ListForDown, Looks, ghostVars, modeVars
<1>2. CASE Destroy(c)
  <2>1. UNCHANGED installed
    BY <1>2 DEF Destroy, OnlyVms
  <2>2. CASE UNCHANGED vms
    BY <1>2, <2>1, <2>2, SameTenants DEF Destroy, ghostVars, Lost
  <2>3. ASSUME NEW n, WithoutVm(n), UNCHANGED ghostVars
        PROVE  [Tenant!Next]_<<Holders, blurred>>
    <3>1. There' \subseteq There
      BY <2>3 DEF WithoutVm, There, Typed, HostTyped
    <3> QED BY <2>1, <2>3, <3>1, SomeLeave DEF ghostVars
  <2> QED BY <1>2, <2>2, <2>3 DEF Destroy
<1>3. CASE Uninstall(c)
  <2>1. UNCHANGED vms
    BY <1>3 DEF Uninstall, OnlyHost
  <2>2. CASE UNCHANGED installed
    BY <1>3, <2>1, <2>2, SameTenants DEF Uninstall, ghostVars, Lost
  <2>3. CASE installed' \subseteq installed /\ UNCHANGED ghostVars
    BY <2>1, <2>3, SomeLeave DEF ghostVars
  <2> QED BY <1>3, <2>2, <2>3 DEF Uninstall
<1> QED BY <1>1, <1>2, <1>3 DEF Down

LEMMA LandTenants ==
  ASSUME Typed, Alone, Places, NEW e \in late, Land(e)
  PROVE  [Tenant!Next]_<<Holders, blurred>>
<1>1. blurred /\ UNCHANGED blurred /\ e \in Effects
  BY DEF Alone, Land, ghostVars, Typed, HostTyped
<1>2. CASE UNCHANGED <<installed, vms>>
  BY <1>1, <1>2, SameTenants
<1>3. CASE e.kind = "build" /\ ~UNCHANGED vms
  <2>1. vms' = [vms EXCEPT ![e.node] = e.distro] /\ UNCHANGED installed
    BY <1>3 DEF Land
  <2>2. e.distro \in Distros
    BY <1>3 DEF Typed, HostTyped
  <2>3. e.node \in Nodes
    BY <1>3, <2>1 DEF Typed, HostTyped
  <2> QED BY <1>1, <2>1, <2>2, <2>3, VmComes
<1>4. CASE e.kind = "destroy"
  <2>1. UNCHANGED installed /\ (WithoutVm(e.node) \/ UNCHANGED vms)
    BY <1>4 DEF Land
  <2>2. There' \subseteq There
    BY <2>1 DEF WithoutVm, There, Typed, HostTyped
  <2> QED BY <1>1, <2>1, <2>2, SomeLeave
<1>5. CASE e.kind = "install"
  <2>1. installed' = installed \cup {e.distro} /\ UNCHANGED vms
    BY <1>5 DEF Land
  <2> QED BY <1>1, <2>1, HostComes
<1>6. CASE e.kind = "uninstall"
  <2>1. installed' \subseteq installed /\ UNCHANGED vms
    BY <1>6 DEF Land
  <2> QED BY <1>1, <2>1, SomeLeave
<1> QED BY <1>1, <1>2, <1>3, <1>4, <1>5, <1>6 DEF Land, modeVars, Effects

LEMMA StepTenants ==
  ASSUME Typed, Alone, Places, [Next]_vars
  PROVE  [Tenant!Next]_<<Holders, blurred>>
<1>1. blurred \in BOOLEAN
  BY DEF Typed, HostTyped
<1>2. CASE UNCHANGED vars
  BY <1>2, SameTenants DEF vars, ghostVars, modeVars
<1>3. ASSUME NEW c \in Clis, Ask(c) \/ Interrupt(c)
      PROVE  [Tenant!Next]_<<Holders, blurred>>
  BY <1>1, <1>3, SameTenants
     DEF Ask, AskVm, AskHost, AskDown, Begin, Interrupt, modeVars
<1>4. ASSUME NEW c \in Clis, Setup(c), UNCHANGED modeVars
      PROVE  [Tenant!Next]_<<Holders, blurred>>
  BY <1>4, SameTenants
     DEF Setup, Preflight, InstallPackages, LeaveInstall, EnableDaemon,
         StartNetwork, Verify, Lost, ghostVars, modeVars
<1>5. ASSUME NEW c \in Clis, LookForVm(c) \/ ListForVm(c) \/ CheckFit(c)
                             \/ Inspect(c) \/ ListForHost(c) \/ LookForHost(c)
      PROVE  [Tenant!Next]_<<Holders, blurred>>
  <2>1. Looks
    BY <1>5 DEF LookForVm, ListForVm, CheckFit, Inspect, ListForHost,
                LookForHost
  <2> QED BY <2>1, SameTenants DEF Looks, ghostVars, modeVars
<1>6. ASSUME NEW c \in Clis, Cluster(c)
      PROVE  [Tenant!Next]_<<Holders, blurred>>
  BY <1>6, SameTenants DEF Cluster, OnlyVms, ghostVars
<1>7. CASE World
  BY <1>7, SameTenants
     DEF World, PackageManager, Arrives, InstallDone, InstallTorn, Reboot,
         HandStop, HandTools, modeVars, ghostVars
<1>8. ASSUME NEW c \in Clis, Run(c)
      PROVE  [Tenant!Next]_<<Holders, blurred>>
  BY <1>4, <1>5, <1>6, <1>8, BuildTenants, InstallTenants, DownTenants
     DEF Run, UpVm, UpHost
<1> QED BY <1>2, <1>3, <1>7, <1>8, LandTenants DEF Next

\* The looks of `up', `up --vm' and `down' at the other mode, minutes old when
\* they act, come to Tenancy's promise: a mode comes only where the other is
\* not, until commands overlap or an answer is lost.
THEOREM ModesKeepTenancy == Spec => TenancyKept
<1>1. Init => Tenant!Init
  BY DEF Init, FoundationInit, Holders, There, Tenant!Init
<1>2. Typed /\ Alone /\ Places /\ [Next]_vars
        => [Tenant!Next]_<<Holders, blurred>>
  BY StepTenants
<1> QED BY <1>1, <1>2, AlwaysSees, PTL DEF Spec, TenancyKept, Tenant!Spec

Promise == INSTANCE TenancyProofs
             WITH Modes <- {"host", "vm"}, holders <- Holders

\* What the promise comes to on the modelled host: a host-mode cluster and a
\* VM cluster are on it together only where the sight was blurred.
THEOREM ModesNeverMeet == Spec => []Tenant!AtMostOne
<1>1. Tenant!Spec => []Tenant!AtMostOne
  BY Promise!ModesExclude
     DEF Promise!Spec, Tenant!Spec, Promise!Init, Tenant!Init,
         Promise!Next, Tenant!Next, Promise!AtMostOne, Tenant!AtMostOne,
         Promise!Come, Promise!Leave, Promise!Blur,
         Tenant!Come, Tenant!Leave, Tenant!Blur
<1> QED BY <1>1, ModesKeepTenancy, PTL DEF TenancyKept
=============================================================================
