--------------------------- MODULE VmSafetyProofs ---------------------------
(***************************************************************************)
(* VmCluster for any number of nodes, addresses, capacities and faults:    *)
(* what up builds and leaves alone, what it promises when it says Ready,   *)
(* and what down leaves when it says Removed.                              *)
(*                                                                         *)
(* The promises of up rest on UpInv: VmsApart (no two VMs share a MAC or   *)
(* an address), Homes (SSHerpa has been inside the nodes the walk has      *)
(* done), Planned and Gapless (the nodes are the first ones of the plan);  *)
(* those of down on Removing (what is left is what down knows of).  They   *)
(* come together in the refinement of Lifecycle; that commands do not go   *)
(* round in circles closes the module.                                     *)
(***************************************************************************)
EXTENDS VmClusterProofs

-----------------------------------------------------------------------------
(* Nodes that exist, and nodes that are built                              *)

\* Inductive: once virt.setup is done and as long as libvirtd answers, the
\* node whose key, disk or domain is being made does not exist.
NewNode == steady /\ pc \in BuildSteps => ~Defined(cli.cur)

LEMMA UpBuilds ==
  ASSUME Up, pc' \in BuildSteps
  PROVE  CreatePreflight \/ EnsureLocalKey \/ CreateDisk
<1>. USE DEF Go, Fail, End, BuildSteps
<1>1. ~ListForUp /\ ~Setup /\ ~Inspect /\ ~Expose
  BY DEF ListForUp, Setup, Inspect, NextNode, Expose, ExposeWrite,
         ExposeEnable, ExposeRestart
<1>2. ~ClusterUp
  BY DEF ClusterUp, ClusterServer, ClusterStart, ClusterWait, ClusterJoin,
         ClusterEnter, NextAgent, ClusterReady, FetchKubeconfig,
         MergeKubeconfig
<1>3. /\ ~Boot /\ ~Start /\ ~WaitForIp /\ ~ForgetHostKey
      /\ ~Unreserve /\ ~Reserve /\ ~WaitForSsh
  BY DEF Boot, Start, WaitForIp, ForgetHostKey, Unreserve, Reserve,
         WaitForSsh, NextNode
<1>. QED BY <1>1, <1>2, <1>3 DEF Up, Create

LEMMA UpNewNode ==
  ASSUME MachinesTyped, CommandTyped, ReserveReady, NewNode, Up,
         pc' \in BuildSteps
  PROVE  NewNode'
<1>1. CreatePreflight \/ EnsureLocalKey \/ CreateDisk
  BY UpBuilds
<1>2. cli'.cur = cli.cur /\ pc \in HostReadySteps
  <2>1. pc' \notin AtRest
    BY DEF BuildSteps, AtRest
  <2>2. cli'.cur = cli.cur
    BY <1>1, <2>1, CreateFlow DEF Create, BuildSteps, CreateSteps
  <2>3. ~ListForUp /\ ~Setup
    BY DEF ListForUp, Setup, Fail, End, Go, BuildSteps
  <2>. QED BY <2>2, <2>3, UpFollows
<1>3. CASE CreatePreflight
  <2>1. vm' = vm /\ steady' = steady
    BY <1>3 DEF CreatePreflight, Go, Fail, End, Looks, hostVars, ghostVars
  <2>2. VmState(cli.cur) = ""
    BY <1>3 DEF CreatePreflight, Go, Fail, End, BuildSteps, VmState
  <2>3. steady => ~Defined(cli.cur)
    BY <1>2, <2>2 DEF ReserveReady, VmState
  <2>. QED BY <1>2, <2>1, <2>3 DEF NewNode, Defined
<1>4. CASE EnsureLocalKey \/ CreateDisk
  <2>1. pc \in BuildSteps /\ steady' = steady
    BY <1>4 DEF EnsureLocalKey, CreateDisk, Go, Fail, End, BuildSteps,
                ghostVars
  <2>2. CASE vm' = vm
    BY <1>2, <2>1, <2>2 DEF NewNode, Defined
  <2>3. CASE vm' # vm
    <3>1. CreateDisk
      BY <1>4, <2>3 DEF EnsureLocalKey, hostVars
    <3>2. ~steady
      BY <2>1, <2>3, <3>1, CreateDiskChange DEF NewNode
    <3>. QED BY <2>1, <3>2 DEF NewNode
  <2>. QED BY <2>2, <2>3
<1>. QED BY <1>1, <1>3, <1>4

LEMMA NewNodeKept ==
  ASSUME TypeOK, ReserveReady, NewNode, [Next]_vars
  PROVE  NewNode'
<1>. MachinesTyped /\ CommandTyped
  BY TypeParts
<1>1. CASE pc' \notin BuildSteps
  BY <1>1 DEF NewNode
<1>2. CASE pc' \in BuildSteps /\ Up
  BY <1>2, UpNewNode
<1>3. CASE pc' \in BuildSteps /\ Beside
  <2>1. UNCHANGED <<pc, cli>>
    BY <1>3, BesideRuns
  <2>2. cli.cur \in Nodes
    BY <1>3, <2>1, AtCreate DEF BuildSteps, CreateSteps
  <2>3. ~Boot \/ vm' = vm
    BY <2>1, <1>3 DEF Boot, Go, Fail, End, BuildSteps
  <2>4. vm'[cli.cur].mac # None => Defined(cli.cur)
    BY <2>2, <2>3, OnlyBootDefines DEF Defined
  <2>5. steady' => steady
    BY <1>3 DEF Beside, Machine, Lease, FinishBoot, RegainLibvirt, Meddle,
                Shake, LoseLibvirt, vars, ghostVars
  <2>. QED BY <2>1, <2>4, <2>5 DEF NewNode, Defined
<1>. QED BY <1>1, <1>2, <1>3, UpGoesOn DEF BuildSteps, UpSteps, CreateSteps

\* Every other step of up leaves every VM its build and its cluster.
LEMMA UpLeavesBuilds ==
  ASSUME MachinesTyped, CommandTyped, NewNode, steady, Up,
         NEW n \in DefinedNodes
  PROVE  /\ SameBuild(n)
         /\ vm[n].cluster # None => vm'[n].cluster = vm[n].cluster
<1>. n \in Nodes /\ Defined(n)
  BY DEF DefinedNodes
<1>1. CASE Stays(n)
  BY <1>1 DEF Stays
<1>2. CASE n = cli.cur /\ (CreateDisk \/ Boot) /\ vm' # vm
  <2>1. ~Boot
    BY <1>2, BootChange
  <2>2. pc \in BuildSteps
    BY <1>2, <2>1 DEF CreateDisk, BuildSteps
  <2>. QED BY <1>2, <2>2 DEF NewNode
<1>3. CASE n = cli.cur /\ Start
  <2>1. vm \in [Nodes -> VM]
    BY DEF MachinesTyped
  <2>2. vm' = vm \/ vm' = [vm EXCEPT ![n].on = TRUE]
    BY <1>3 DEF Start
  <2>3. CASE vm' = [vm EXCEPT ![n].on = TRUE]
    BY <2>1, <2>3 DEF SameBuild, VM
  <2>. QED BY <2>2, <2>3 DEF SameBuild
<1>4. CASE vm' = vm
  BY <1>4, SameVmsStay DEF Stays
<1>. QED BY <1>1, <1>2, <1>3, <1>4, UpStays

\* An up, whatever it is interrupted by and whatever another command or the
\* operator left behind, never rebuilds a VM that exists, never gives it
\* another key and never moves it to another cluster, as long as virsh
\* answers: vm.create looks at the VM before it makes a disk or a domain.
THEOREM UpNeverRebuilds == Spec => UpLeavesNodesAlone
<1>1. Init => ReserveReady /\ NewNode
  BY DEF Init, ReserveReady, NewNode, BuildSteps, HostReadySteps, UpSteps,
         CreateSteps
<1>2. TypeOK /\ ReserveReady /\ NewNode /\ [Next]_vars =>
        ReserveReady' /\ NewNode'
  BY ReserveReadyKept, NewNodeKept
<1>3. TypeOK /\ NewNode /\ [Next]_vars =>
        [pc' # pc /\ pc \in UpSteps /\ steady =>
           \A n \in DefinedNodes :
             /\ vm'[n].mac = vm[n].mac /\ vm'[n].disk = vm[n].disk
             /\ vm'[n].key = vm[n].key
             /\ vm[n].cluster # None => vm'[n].cluster = vm[n].cluster]_vars
  <2>. SUFFICES ASSUME MachinesTyped, CommandTyped, NewNode, [Next]_vars,
                       pc' # pc, pc \in UpSteps, steady, NEW n \in DefinedNodes
                PROVE  /\ vm'[n].mac = vm[n].mac /\ vm'[n].disk = vm[n].disk
                       /\ vm'[n].key = vm[n].key
                       /\ vm[n].cluster # None =>
                            vm'[n].cluster = vm[n].cluster
    BY TypeParts
  <2>1. CASE Up
    BY <2>1, UpLeavesBuilds DEF SameBuild
  <2>2. CASE Abort \/ RestartFails
    BY <2>2 DEF Abort, RestartFails, OnlyFwd, Looks, hostVars
  <2>3. ~Beside
    BY BesideRuns
  <2>4. ~Ask /\ ~Down /\ ~UndefineFails
    <3>1. pc \notin AtRest \cup DownSteps
      BY DEF AtRest, DownSteps, UpSteps, CreateSteps
    <3>2. Down => pc \in DownSteps
      BY DEF Down, ListForDown, LookForForwarding, LookForStale, Confirm,
             Destroy, DestroyPreflight, ReadMac, Undefine, ReleaseAddress,
             VerifyRemoval, CloseApi, ForgetLocal, Sweep, Uninstall, DownSteps
    <3>. QED BY <3>1, <3>2 DEF Ask, AskUp, AskDown, Begin, UndefineFails,
                               DownSteps
  <2>. QED BY <2>1, <2>2, <2>3, <2>4 DEF Next, Trouble, Beside
<1>. QED BY <1>1, <1>2, <1>3, TypeCorrect, PTL DEF Spec, UpLeavesNodesAlone

-----------------------------------------------------------------------------
(* The host key of a VM just built                                         *)

\* Inductive: from the deletion of the host key on, none is kept for the
\* address of a VM that was just built.
Forgotten ==
  pc \in LateSteps \ {"create.forget"} /\ cli.fresh =>
    known[cli.ips[cli.cur]] = None

LEMMA UpForgotten ==
  ASSUME MachinesTyped, CommandTyped, Forgotten, Up,
         pc' \in LateSteps \ {"create.forget"}
  PROVE  Forgotten'
<1>. USE DEF Go, Fail, End, LateSteps
<1>1. ~ListForUp /\ ~Setup /\ ~Inspect /\ ~Expose /\ ~ClusterUp
  BY DEF ListForUp, Setup, Inspect, NextNode, Expose, ExposeWrite,
         ExposeEnable, ExposeRestart, ClusterUp, ClusterServer, ClusterStart,
         ClusterWait, ClusterJoin, ClusterEnter, NextAgent, ClusterReady,
         FetchKubeconfig, MergeKubeconfig
<1>2. /\ ~CreatePreflight /\ ~EnsureLocalKey /\ ~CreateDisk /\ ~Boot /\ ~Start
      /\ ~WaitForSsh
  BY DEF CreatePreflight, EnsureLocalKey, CreateDisk, Boot, Start, WaitForSsh,
         NextNode
<1>3. CASE WaitForIp
  BY <1>3 DEF WaitForIp, Forgotten, CommandTyped, Command
<1>4. CASE ForgetHostKey
  <2>1. cli.ips[cli.cur] \in Addrs
    BY <1>4, AtLate DEF ForgetHostKey
  <2>. QED BY <1>4, <2>1 DEF ForgetHostKey, Forgotten, MachinesTyped
<1>5. CASE Unreserve \/ Reserve
  BY <1>5 DEF Unreserve, Reserve, OnlyResv, localVars, Forgotten
<1>. QED BY <1>1, <1>2, <1>3, <1>4, <1>5 DEF Up, Create

LEMMA ForgottenKept ==
  ASSUME TypeOK, Forgotten, [Next]_vars
  PROVE  Forgotten'
<1>. MachinesTyped /\ CommandTyped
  BY TypeParts
<1>1. CASE pc' \notin LateSteps \ {"create.forget"}
  BY <1>1 DEF Forgotten
<1>2. CASE pc' \in LateSteps \ {"create.forget"} /\ Up
  BY <1>2, UpForgotten
<1>3. CASE Beside
  <2>1. known' = known
    BY <1>3 DEF Beside, Machine, Lease, DhcpLease, FinishBoot, CloudInit,
                RegainLibvirt, LibvirtRestarts, Meddle, HandUndefine, LoseKey,
                HandInstall, Shake, PowerOff, Reboot, LoseLibvirt,
                LibvirtFails, localVars, vars
  <2>. QED BY <1>3, <2>1, BesideRuns DEF Forgotten
<1>. QED BY <1>1, <1>2, <1>3, UpGoesOn DEF LateSteps, UpSteps, CreateSteps

\* The first connection to a VM just built never meets the host key of an
\* older VM that had this address: create deletes it before it waits for ssh,
\* and nothing puts it back.
THEOREM OldHostKeyIsForgotten == Spec => []FreshVmTrusted
<1>1. Init => Forgotten
  BY DEF Init, Forgotten, LateSteps
<1>2. Forgotten => FreshVmTrusted
  BY DEF Forgotten, FreshVmTrusted, LateSteps
<1>. QED BY <1>1, <1>2, ForgottenKept, TypeCorrect, PTL DEF Spec

-----------------------------------------------------------------------------
(* The way into the nodes of the plan                                      *)

\* Node n runs at the address the command has noted for it; the address is
\* reserved for it; and SSHerpa has been inside, so its key and its host key
\* are known to fit.
Noted(n) ==
  vm[n].on /\ vm[n].addr = cli.ips[n] /\ cli.ips[n] # None
Settled(n) ==
  /\ Noted(n)
  /\ [name |-> n, mac |-> vm[n].mac, ip |-> cli.ips[n]] \in resv
Entered(n) ==
  /\ Settled(n)
  /\ priv # None /\ vm[n].key = priv /\ known[cli.ips[n]] = vm[n].disk

\* Inductive: unless somebody meddles, the nodes the walk has done stay
\* entered, and the one it is at gets there step by step.
Homes ==
  calm =>
    /\ pc \in CreateSteps \cup {"up.inspect"} =>
         \A n \in Nodes : n < cli.cur => Entered(n)
    /\ pc \in LateSteps => Noted(cli.cur) /\ cli.mac = vm[cli.cur].mac
    /\ pc = "create.ssh" => Settled(cli.cur)
    /\ pc = "up.inspect" => Entered(cli.cur)
    /\ pc \in ExposeSteps \cup ClusterSteps =>
         \A n \in Nodes : n <= cli.want => Entered(n)

\* What happens beside a running command without anybody meddling: leases,
\* cloud-init, libvirtd.
LEMMA BesideCalm ==
  ASSUME MachinesTyped, Beside, calm', pc \notin AtRest
  PROVE  /\ calm
         /\ UNCHANGED <<pc, cli, hostInstalled, resv, fwd, localVars>>
         /\ \A n \in Nodes : Stays(n) /\ vm'[n].cluster = vm[n].cluster
<1>1. CASE Meddle \/ Shake
  BY <1>1 DEF Meddle, Shake
<1>2. CASE Lease
  <2>1. PICK n \in Nodes : DhcpLease(n)
    BY <1>2 DEF Lease
  <2>2. PICK a : vm[n].addr = None /\ vm' = [vm EXCEPT ![n].addr = a]
    BY <2>1 DEF DhcpLease
  <2>3. \A m \in Nodes : Stays(m) /\ vm'[m].cluster = vm[m].cluster
    BY <2>2 DEF Stays, SameBuild, MachinesTyped, VM
  <2>. QED BY <1>2, <2>1, <2>3 DEF Lease, DhcpLease, Runs, ghostVars
<1>3. CASE FinishBoot
  <2>1. PICK n \in Nodes : CloudInit(n)
    BY <1>3 DEF FinishBoot
  <2>2. \A m \in Nodes : Stays(m) /\ vm'[m].cluster = vm[m].cluster
    BY <2>1 DEF CloudInit, Stays, SameBuild, MachinesTyped, VM
  <2>. QED BY <1>3, <2>1, <2>2 DEF FinishBoot, CloudInit, Runs, ghostVars
<1>4. CASE RegainLibvirt \/ LoseLibvirt \/ UNCHANGED vars
  BY <1>4, SameVmsStay
  DEF RegainLibvirt, LibvirtRestarts, LoseLibvirt, LibvirtFails, Runs,
      ghostVars, vars, localVars
<1>. QED BY <1>1, <1>2, <1>3, <1>4 DEF Beside, Machine

\* A node that is left alone stays noted, settled and entered.
LEMMA NotedStays ==
  ASSUME NEW n \in Nodes, Noted(n), Stays(n), cli'.ips[n] = cli.ips[n]
  PROVE  Noted(n)'
  BY DEF Noted, Stays

LEMMA SettledStays ==
  ASSUME NEW n \in Nodes, Settled(n), Stays(n), cli'.ips[n] = cli.ips[n],
         [name |-> n, mac |-> vm[n].mac, ip |-> cli.ips[n]] \in resv'
  PROVE  Settled(n)'
  BY NotedStays DEF Settled, Stays, SameBuild

LEMMA EnteredStays ==
  ASSUME NEW n \in Nodes, Entered(n), Stays(n), cli'.ips[n] = cli.ips[n],
         [name |-> n, mac |-> vm[n].mac, ip |-> cli.ips[n]] \in resv',
         priv' = priv, known'[cli.ips[n]] = known[cli.ips[n]]
  PROVE  Entered(n)'
  BY SettledStays DEF Entered, Stays, SameBuild

LEMMA BesideHomes ==
  ASSUME MachinesTyped, CommandTyped, Homes, Beside
  PROVE  Homes'
<1>1. CASE ~calm'
  BY <1>1 DEF Homes
<1>2. CASE pc \in AtRest
  BY <1>2, BesideRuns
  DEF Homes, AtRest, CreateSteps, LateSteps, ExposeSteps, ClusterSteps
<1>3. CASE calm' /\ pc \notin AtRest
  <2>1. /\ calm /\ UNCHANGED <<pc, cli, resv, priv, known>>
        /\ \A n \in Nodes : Stays(n)
    BY <1>3, BesideCalm DEF localVars
  <2>2. \A n \in Nodes : Entered(n) => Entered(n)'
    BY <2>1, EnteredStays DEF Entered, Settled
  <2>3. \A n \in Nodes : Settled(n) => Settled(n)'
    BY <2>1, SettledStays DEF Settled
  <2>4. \A n \in Nodes : Noted(n) => Noted(n)' /\ vm'[n].mac = vm[n].mac
    BY <2>1, NotedStays DEF Stays, SameBuild
  <2>5. pc \in LateSteps \cup {"up.inspect"} => cli.cur \in Nodes
    BY AtCreate DEF LateSteps, CreateSteps
  <2>. QED BY <2>1, <2>2, <2>3, <2>4, <2>5 DEF Homes, LateSteps
<1>. QED BY <1>1, <1>2, <1>3

\* The steps of create for another node touch neither the entry of a node
\* that is settled nor the host key that is kept for it.
LEMMA CreateKeepsEntered ==
  ASSUME MachinesTyped, CommandTyped, VmsApart, Homes, calm,
         Create \/ Inspect, pc' \notin AtRest,
         NEW n \in Nodes, n < cli.cur, Entered(n)
  PROVE  Entered(n)'
<1>. cli.cur \in Nodes /\ n # cli.cur /\ cli.ips[n] \in Addrs
  <2>1. pc \in CreateSteps \cup {"up.inspect"}
    BY DEF Create, CreatePreflight, EnsureLocalKey, CreateDisk, Boot, Start,
           WaitForIp, ForgetHostKey, Unreserve, Reserve, WaitForSsh, Inspect,
           CreateSteps
  <2>2. cli.cur \in Nodes /\ cli.ips \in [Nodes -> Opt(Addrs)]
    BY <2>1, AtCreate
  <2>3. n # cli.cur
    BY DEF Nodes
  <2>. QED BY <2>2, <2>3 DEF Entered, Settled, Noted, Opt
<1>1. Stays(n) /\ cli'.ips[n] = cli.ips[n]
  BY UpStays, CreateFlow DEF Up
<1>2. pc \in LateSteps => /\ Defined(cli.cur) /\ cli.mac = vm[cli.cur].mac
                          /\ cli.mac # vm[n].mac
                          /\ cli.ips[cli.cur] # cli.ips[n]
  BY DEF Homes, Noted, Entered, Settled, VmsApart
<1>3. [name |-> n, mac |-> vm[n].mac, ip |-> cli.ips[n]] \in resv'
  <2>1. CASE Unreserve
    <3>1. WithoutReservation(cli.mac, cli.ips[cli.cur], cli.cur) \subseteq resv'
      BY <2>1 DEF Unreserve, WithoutReservation
    <3>2. pc \in LateSteps
      BY <2>1 DEF Unreserve, LateSteps
    <3>. QED BY <1>2, <3>1, <3>2 DEF Entered, Settled, WithoutReservation
  <2>2. CASE ~Unreserve
    <3>1. resv \subseteq resv'
      BY <2>2
      DEF Create, CreatePreflight, EnsureLocalKey, CreateDisk, Boot, Start,
          WaitForIp, ForgetHostKey, Reserve, WaitForSsh, Inspect, OnlyVm,
          OnlyResv, Looks, hostVars
    <3>. QED BY <3>1 DEF Entered, Settled
  <2>. QED BY <2>1, <2>2
<1>4. priv' = priv
  BY DEF Entered, Create, CreatePreflight, EnsureLocalKey, CreateDisk, Boot,
         Start, WaitForIp, ForgetHostKey, Unreserve, Reserve, WaitForSsh,
         Inspect, OnlyVm, OnlyResv, Looks, localVars
<1>5. known'[cli.ips[n]] = known[cli.ips[n]]
  <2>1. CASE ForgetHostKey \/ WaitForSsh
    <3>1. pc \in LateSteps
      BY <2>1 DEF ForgetHostKey, WaitForSsh, LateSteps
    <3>2. \/ known' = known
          \/ \E k : known' = [known EXCEPT ![cli.ips[cli.cur]] = k]
      BY <2>1 DEF ForgetHostKey, WaitForSsh
    <3>. QED BY <1>2, <3>1, <3>2 DEF MachinesTyped
  <2>2. CASE ~ForgetHostKey /\ ~WaitForSsh
    BY <2>2 DEF Create, CreatePreflight, EnsureLocalKey, CreateDisk, Boot,
                Start, WaitForIp, Unreserve, Reserve, Inspect, OnlyVm,
                OnlyResv, Looks, localVars
  <2>. QED BY <2>1, <2>2
<1>. QED BY <1>1, <1>3, <1>4, <1>5, EnteredStays

\* The node the walk is at: wait_for_ip, the reservation, wait_for_ssh.
LEMMA WaitForIpNotes ==
  ASSUME MachinesTyped, CommandTyped, VmsApart, WaitForIp, pc' \notin AtRest
  PROVE  Noted(cli.cur)' /\ cli'.mac = vm'[cli.cur].mac
<1>. cli \in Command /\ cli.cur \in Nodes
  BY AtCreate DEF WaitForIp, CreateSteps
<1>1. /\ MacOf(cli.cur) # None /\ vm[cli.cur].addr # None /\ vm' = vm
      /\ cli' = [cli EXCEPT !.mac = MacOf(cli.cur),
                            !.ips[cli.cur] = vm[cli.cur].addr]
  BY DEF WaitForIp, Go, Fail, End, AtRest, Looks, hostVars
<1>2. cli'.mac = vm[cli.cur].mac /\ cli'.ips[cli.cur] = vm[cli.cur].addr
  BY <1>1 DEF MacOf, Command
<1>3. vm[cli.cur].on
  BY <1>1 DEF VmsApart
<1>4. cli'.cur = cli.cur
  BY <1>1 DEF Command
<1>. QED BY <1>1, <1>2, <1>3, <1>4 DEF Noted

LEMMA ReserveSettles ==
  ASSUME MachinesTyped, CommandTyped, Homes, calm, Reserve, pc' \notin AtRest
  PROVE  Settled(cli.cur)'
<1>1. /\ resv' = resv \cup {[name |-> cli.cur, mac |-> cli.mac,
                             ip |-> cli.ips[cli.cur]]}
      /\ vm' = vm /\ cli' = cli
  BY DEF Reserve, Fail, End, Go, AtRest, OnlyResv
<1>2. Noted(cli.cur) /\ cli.mac = vm[cli.cur].mac
  BY DEF Reserve, Homes, LateSteps
<1>. QED BY <1>1, <1>2 DEF Settled, Noted

LEMMA WaitForSshEnters ==
  ASSUME MachinesTyped, CommandTyped, VmsApart, Homes, calm, WaitForSsh,
         pc' \notin AtRest, NEW n, n = cli.cur, cli'.ips[n] = cli.ips[n]
  PROVE  Entered(n)'
<1>. DEFINE ip == cli.ips[cli.cur]
<1>. cli.cur \in Nodes /\ ip \in Addrs
  BY AtLate DEF WaitForSsh, LateSteps
<1>1. PICK m \in Enterable(ip) : known' = [known EXCEPT ![ip] = vm[m].disk]
  BY DEF WaitForSsh, Fail, End, Go, AtRest
<1>2. Settled(cli.cur)
  BY DEF WaitForSsh, Homes
<1>3. m = cli.cur
  BY <1>1, <1>2 DEF Enterable, AtAddress, Settled, Noted, VmsApart
<1>4. priv # None /\ vm[cli.cur].key = priv
  BY <1>1, <1>3 DEF Enterable
<1>5. UNCHANGED <<vm, resv, priv>>
  BY DEF WaitForSsh, hostVars
<1>6. known'[ip] = vm[cli.cur].disk
  BY <1>1, <1>3 DEF MachinesTyped
<1>. QED BY <1>2, <1>4, <1>5, <1>6 DEF Entered, Settled, Noted

\* The walk leaves a node for the next step only once it is entered.
LEMMA WalkEnters ==
  ASSUME MachinesTyped, CommandTyped, VmsApart, Homes, calm,
         WaitForSsh \/ Inspect, pc' \notin AtRest, NEW n, n = cli.cur
  PROVE  Entered(n)'
<1>1. pc \in {"create.ssh", "up.inspect"} /\ n \in Nodes
  BY AtCreate DEF WaitForSsh, Inspect, CreateSteps
<1>2. cli'.ips[n] = cli.ips[n]
  BY <1>1, CreateFlow DEF Create
<1>3. CASE WaitForSsh
  BY <1>2, <1>3, WaitForSshEnters
<1>4. CASE Inspect
  <2>1. Entered(n) /\ UNCHANGED <<vm, resv, priv, known>>
    BY <1>4 DEF Inspect, Homes, Looks, hostVars, localVars
  <2>. QED BY <1>1, <1>2, <2>1, EnteredStays, SameVmsStay
           DEF Entered, Settled
<1>. QED BY <1>3, <1>4

LEMMA CreateHomes ==
  ASSUME MachinesTyped, CommandTyped, VmsApart, Homes, calm,
         Create \/ Inspect, pc' \notin AtRest
  PROVE  Homes'
<1>1. pc \in CreateSteps \cup {"up.inspect"}
  BY DEF Create, CreatePreflight, EnsureLocalKey, CreateDisk, Boot, Start,
         WaitForIp, ForgetHostKey, Unreserve, Reserve, WaitForSsh, Inspect,
         CreateSteps
<1>2. /\ cli.cur \in Nodes /\ cli.want \in Nodes /\ cli.cur <= cli.want
  BY <1>1, AtCreate
<1>3. \A n \in Nodes : n < cli.cur => Entered(n) /\ Entered(n)'
  BY <1>1, CreateKeepsEntered DEF Homes
<1>4. pc \in {"create.ssh", "up.inspect"} =>
        \A n \in Nodes : n <= cli.cur => Entered(n)'
  <2>1. pc \in {"create.ssh", "up.inspect"} => WaitForSsh \/ Inspect
    BY DEF Create, CreatePreflight, EnsureLocalKey, CreateDisk, Boot, Start,
           WaitForIp, ForgetHostKey, Unreserve, Reserve
  <2>2. \A n \in Nodes : n <= cli.cur => n < cli.cur \/ n = cli.cur
    BY <1>2 DEF Nodes
  <2>. QED BY <1>3, <2>1, <2>2, WalkEnters
<1>5. CASE /\ pc \in CreateSteps \ {"create.ssh"}
           /\ pc' \in CreateSteps \ {"create.preflight"} /\ cli'.cur = cli.cur
  <2>1. pc' \in LateSteps => Noted(cli.cur)' /\ cli'.mac = vm'[cli'.cur].mac
    <3>1. CASE WaitForIp
      BY <1>5, <3>1, WaitForIpNotes DEF AtRest, CreateSteps
    <3>2. CASE ForgetHostKey \/ Unreserve \/ Reserve
      <4>1. vm' = vm /\ pc \in LateSteps
        BY <3>2 DEF ForgetHostKey, Unreserve, Reserve, OnlyResv, hostVars,
                    LateSteps
      <4>2. cli' = cli
        BY <3>2 DEF ForgetHostKey, Unreserve, Reserve, Fail, End, Go, AtRest
      <4>. QED BY <4>1, <4>2 DEF Homes, Noted
    <3>3. CASE ~(WaitForIp \/ ForgetHostKey \/ Unreserve \/ Reserve)
      <4>1. pc' \notin LateSteps
        BY <1>5, <3>3
        DEF Create, CreatePreflight, EnsureLocalKey, CreateDisk, Boot, Start,
            WaitForSsh, Inspect, Fail, End, Go, LateSteps, CreateSteps
      <4>. QED BY <4>1
    <3>. QED BY <3>1, <3>2, <3>3
  <2>2. pc' = "create.ssh" => Settled(cli.cur)'
    <3>1. pc' = "create.ssh" => Reserve
      BY <1>5
      DEF Create, CreatePreflight, EnsureLocalKey, CreateDisk, Boot, Start,
          WaitForIp, ForgetHostKey, Unreserve, WaitForSsh, Inspect, Fail, End,
          Go, CreateSteps
    <3>. QED BY <3>1, ReserveSettles
  <2>3. pc' \notin ExposeSteps \cup ClusterSteps \cup {"up.inspect"}
    BY <1>5 DEF ExposeSteps, ClusterSteps, CreateSteps
  <2>. QED BY <1>3, <1>5, <2>1, <2>2, <2>3 DEF Homes
<1>6. CASE /\ pc = "create.ssh" /\ pc' = "up.inspect" /\ cli' = cli
  <2>1. Entered(cli.cur)'
    <3>1. \A n \in Nodes : n = cli.cur => n <= cli.cur
      BY DEF Nodes
    <3>2. \A n \in Nodes : n = cli.cur => Entered(n)'
      BY <1>4, <1>6, <3>1
    <3>3. cli'.cur = cli.cur
      BY <1>6
    <3>. QED BY <1>2, <3>2, <3>3 DEF Entered, Settled, Noted
  <2>2. cli'.cur = cli.cur
    BY <1>6
  <2>3. \A n \in Nodes : n < cli'.cur => Entered(n)'
    BY <1>3, <2>2
  <2>. QED BY <1>6, <2>1, <2>3
           DEF Homes, LateSteps, ExposeSteps, ClusterSteps, CreateSteps
<1>7. CASE /\ pc \in {"create.ssh", "up.inspect"} /\ pc' = "create.preflight"
           /\ cli'.cur = cli.cur + 1
  <2>1. \A n \in Nodes : n < cli'.cur => n <= cli.cur
    BY <1>2, <1>7 DEF Nodes
  <2>. QED BY <1>4, <1>7, <2>1 DEF Homes, LateSteps, ExposeSteps, ClusterSteps
<1>8. CASE /\ pc \in {"create.ssh", "up.inspect"} /\ pc' = "expose.write"
           /\ cli.cur = cli.want /\ cli'.want = cli.want
  BY <1>4, <1>8 DEF Homes, LateSteps, CreateSteps
<1>. QED BY <1>5, <1>6, <1>7, <1>8, CreateFlow

LEMMA LaterHomes ==
  ASSUME MachinesTyped, CommandTyped, Homes, calm, Expose \/ ClusterUp,
         pc' \notin AtRest
  PROVE  Homes'
<1>1. /\ cli'.want = cli.want /\ cli'.ips = cli.ips
      /\ pc \in ExposeSteps \cup ClusterSteps
      /\ pc' \in ExposeSteps \cup ClusterSteps
  BY LaterFlow DEF ExposeSteps, ClusterSteps
<1>2. UNCHANGED <<resv, priv, known>> /\ \A n \in Nodes : Stays(n)
  <2>1. CASE Expose
    BY <2>1, SameVmsStay
    DEF Expose, ExposeWrite, ExposeEnable, ExposeRestart, OnlyFwd, localVars
  <2>2. CASE ClusterUp
    BY <2>2, ClusterChange, ClusterStays
  <2>. QED BY <2>1, <2>2
<1>3. \A n \in Nodes : n <= cli.want => Entered(n)'
  BY <1>1, <1>2, EnteredStays DEF Homes, Entered, Settled
<1>. QED BY <1>1, <1>3
         DEF Homes, LateSteps, CreateSteps, ExposeSteps, ClusterSteps

LEMMA UpHomes ==
  ASSUME MachinesTyped, CommandTyped, VmsApart, Homes, Up, pc' \notin AtRest
  PROVE  Homes'
<1>1. calm' = calm
  BY DEF Up, ListForUp, Setup, Create, CreatePreflight, EnsureLocalKey,
         CreateDisk, Boot, Start, WaitForIp, ForgetHostKey, Unreserve, Reserve,
         WaitForSsh, Inspect, NextNode, Expose, ExposeWrite, ExposeEnable,
         ExposeRestart, ClusterUp, ClusterServer, ClusterStart, ClusterWait,
         ClusterJoin, ClusterEnter, NextAgent, ClusterReady, FetchKubeconfig,
         MergeKubeconfig, Fail, End, Go, ghostVars
<1>2. CASE ListForUp
  BY <1>2 DEF ListForUp, Go, Fail, End, Homes, LateSteps, CreateSteps,
              ExposeSteps, ClusterSteps
<1>3. CASE Setup
  <2>1. /\ pc' = "create.preflight" \/ pc' = "idle"
        /\ pc' = "create.preflight" => cli'.cur = 1
    BY <1>3 DEF Setup, Go, Fail, End, CommandTyped, Command
  <2>2. \A n \in Nodes : ~(n < 1)
    BY DEF Nodes
  <2>. QED BY <2>1, <2>2 DEF Homes, LateSteps, CreateSteps, ExposeSteps,
                             ClusterSteps
<1>4. CASE ~calm
  BY <1>1, <1>4 DEF Homes
<1>. QED BY <1>2, <1>3, <1>4, CreateHomes, LaterHomes DEF Up

LEMMA HomesKept ==
  ASSUME TypeOK, VmsApart, Homes, [Next]_vars
  PROVE  Homes'
<1>. MachinesTyped /\ CommandTyped
  BY TypeParts
<1>1. CASE pc' \notin UpSteps \ {"up.list"}
  BY <1>1 DEF Homes, UpSteps, CreateSteps, LateSteps, ExposeSteps, ClusterSteps
<1>2. CASE pc' \in UpSteps \ {"up.list"}
  <2>1. pc' \notin AtRest
    BY <1>2 DEF AtRest, UpSteps, CreateSteps
  <2>. QED BY <1>2, <2>1, UpGoesOn, UpHomes, BesideHomes
<1>. QED BY <1>1, <1>2

LEMMA HomesAlways == Spec => [](TypeOK /\ VmsApart /\ Homes)
<1>1. Init => Homes
  BY DEF Init, Homes, CreateSteps, LateSteps, ExposeSteps, ClusterSteps
<1>. QED BY <1>1, HomesKept, TypeCorrect, VmsStayApart, PTL DEF Spec

\* Unless somebody meddles, the address an up noted for a node leads into
\* that node and into no other from the first step on that installs anything:
\* leases, the walk over the other nodes and failures of libvirtd do not
\* redirect it.
THEOREM AddressesAreNotSwapped == Spec => []AddressesLeadHome
<1>1. TypeOK /\ VmsApart /\ Homes => AddressesLeadHome
  <2>. SUFFICES ASSUME TypeOK, VmsApart, Homes, calm, pc \in ClusterSteps,
                       NEW n \in 1..cli.want
                PROVE  AtAddress(cli.ips[n]) \subseteq {n}
    BY DEF AddressesLeadHome, ClusterSteps
  <2>1. n \in Nodes /\ n <= cli.want
    BY TypeParts, MaxNodesAssumption DEF CommandTyped, Command, Nodes
  <2>2. Noted(n)
    BY <2>1 DEF Homes, Entered, Settled
  <2>. QED BY <2>1, <2>2 DEF Noted, VmsApart, AtAddress
<1>. QED BY <1>1, HomesAlways, PTL

-----------------------------------------------------------------------------
(* The plan                                                                *)

\* Inductive: the plan takes in every VM there is, and once the first node
\* that exists has been looked into, or there was none, it fits the host.
Planned ==
  /\ pc \in UpSteps \ {"up.list"} =>
       cli.want \in Nodes /\ \A n \in DefinedNodes : n <= cli.want
  /\ pc \in CreateSteps \cup {"up.inspect"} =>
       cli.want <= Capacity \/ (cli.cur = 1 /\ cli.listed # {})
\* Inductive: unless somebody meddles, the nodes that exist are the first
\* ones, and those that were listed still exist.
Gapless ==
  calm /\ pc \in {"up.setup", "up.inspect"} \cup CreateSteps =>
    /\ \A n \in DefinedNodes, m \in Nodes : m <= n => m \in DefinedNodes
    /\ cli.listed \subseteq DefinedNodes

LEMMA BesideDefines ==
  ASSUME MachinesTyped, CommandTyped, Beside
  PROVE  DefinedNodes' \subseteq DefinedNodes
<1>1. ~Boot
  BY BesideRuns DEF Boot, Fail, End, Go
<1>2. [Next]_vars
  BY DEF Beside, Next, Trouble
<1>. QED BY <1>1, <1>2, OnlyBootDefines DEF DefinedNodes, Defined

LEMMA UpDefines ==
  ASSUME MachinesTyped, CommandTyped, Up
  PROVE  DefinedNodes' \subseteq
           DefinedNodes \cup (IF Boot THEN {cli.cur} ELSE {})
  BY OnlyBootDefines DEF DefinedNodes, Defined, Next

LEMMA ListForUpPlans ==
  ASSUME MachinesTyped, CommandTyped, ListForUp, pc' \notin AtRest
  PROVE  Planned' /\ Gapless'
<1>. cli \in Command
  BY DEF CommandTyped
<1>1. /\ PlanStands /\ pc' = "up.setup" /\ vm' = vm
      /\ cli' = [cli EXCEPT !.want = Plan, !.listed = DefinedNodes]
  BY DEF ListForUp, Go, Fail, End, AtRest, Looks, hostVars
<1>2. cli'.want = Plan /\ cli'.listed = DefinedNodes /\ Plan \in Nodes
  BY <1>1, PlanIsANode DEF Command
<1>3. DefinedNodes' = DefinedNodes
  BY <1>1 DEF DefinedNodes, Defined
<1>. DEFINE k == Cardinality(DefinedNodes)
<1>4. k \in 0..MaxNodes /\ DefinedNodes = 1..k /\ k <= Plan
  BY <1>1, DefinedNodesFinite DEF PlanStands
<1>. HIDE DEF k
<1>5. \A n \in DefinedNodes : n <= Plan
  BY <1>2, <1>4, MaxNodesAssumption DEF Nodes
<1>6. \A n \in DefinedNodes, m \in Nodes : m <= n => m \in DefinedNodes
  BY <1>4, MaxNodesAssumption DEF Nodes
<1>. QED BY <1>1, <1>2, <1>3, <1>5, <1>6
         DEF Planned, Gapless, CreateSteps

LEMMA SetupPlans ==
  ASSUME MachinesTyped, CommandTyped, Planned, Gapless, Setup, pc' \notin AtRest
  PROVE  Planned' /\ Gapless'
<1>. cli \in Command
  BY DEF CommandTyped
<1>1. /\ pc = "up.setup" /\ pc' = "create.preflight" /\ vm' = vm
      /\ cli' = [cli EXCEPT !.cur = 1] /\ calm' = calm
      /\ ~(cli.listed = {} /\ cli.want > Capacity)
  BY DEF Setup, Go, Fail, End, AtRest, ghostVars
<1>2. /\ cli'.cur = 1 /\ cli'.want = cli.want /\ cli'.listed = cli.listed
      /\ DefinedNodes' = DefinedNodes
  BY <1>1 DEF Command, DefinedNodes, Defined
<1>3. cli.want \in Int /\ Capacity \in Int
  BY CapacityAssumption DEF Command
<1>4. Planned'
  BY <1>1, <1>2, <1>3 DEF Planned, UpSteps, CreateSteps
<1>. QED BY <1>1, <1>2, <1>4 DEF Gapless, CreateSteps

LEMMA CreatePlans ==
  ASSUME MachinesTyped, CommandTyped, Planned, Create \/ Inspect,
         pc' \notin AtRest
  PROVE  Planned'
<1>1. pc \in CreateSteps \cup {"up.inspect"}
  BY DEF Create, CreatePreflight, EnsureLocalKey, CreateDisk, Boot, Start,
         WaitForIp, ForgetHostKey, Unreserve, Reserve, WaitForSsh, Inspect,
         CreateSteps
<1>2. /\ cli.cur \in Nodes /\ cli.want \in Nodes /\ cli.cur <= cli.want
  BY <1>1, AtCreate
<1>3. cli'.want = cli.want /\ cli'.listed = cli.listed
  BY CreateFlow
<1>4. \A n \in DefinedNodes' : n <= cli.want
  <2>1. DefinedNodes' \subseteq DefinedNodes \cup {cli.cur}
    BY UpDefines DEF Up
  <2>. QED BY <1>1, <1>2, <2>1 DEF Planned, UpSteps, CreateSteps
<1>5. pc' = "create.preflight" => cli.want <= Capacity
  <2>1. CASE WaitForSsh /\ pc' = "create.preflight"
    BY <1>1, <2>1 DEF WaitForSsh, Planned, Fail, End, Go
  <2>2. CASE Inspect /\ pc' = "create.preflight"
    BY <2>2 DEF Inspect, Fail, End, Go
  <2>3. pc' = "create.preflight" => WaitForSsh \/ Inspect
    BY DEF Create, CreatePreflight, EnsureLocalKey, CreateDisk, Boot, Start,
           WaitForIp, ForgetHostKey, Unreserve, Reserve, Fail, End, Go
  <2>. QED BY <2>1, <2>2, <2>3
<1>6. pc' \in CreateSteps \cup {"up.inspect"} =>
        cli.want <= Capacity \/ (cli'.cur = 1 /\ cli.listed # {})
  <2>1. CASE pc' = "create.preflight"
    BY <1>5, <2>1
  <2>2. CASE pc' \in (CreateSteps \cup {"up.inspect"}) \ {"create.preflight"}
    <3>1. cli'.cur = cli.cur
      BY <2>2, CreateFlow DEF CreateSteps
    <3>. QED BY <1>1, <3>1 DEF Planned
  <2>. QED BY <2>1, <2>2
<1>. QED BY <1>2, <1>3, <1>4, <1>6 DEF Planned

LEMMA LaterPlans ==
  ASSUME MachinesTyped, CommandTyped, Planned, Expose \/ ClusterUp,
         pc' \notin AtRest
  PROVE  Planned'
<1>1. /\ cli'.want = cli.want
      /\ pc \in ExposeSteps \cup ClusterSteps
      /\ pc' \in ExposeSteps \cup ClusterSteps
  BY LaterFlow DEF ExposeSteps, ClusterSteps
<1>2. DefinedNodes' \subseteq DefinedNodes
  <2>1. ~Boot
    BY <1>1 DEF Boot, ExposeSteps, ClusterSteps
  <2>. QED BY <2>1, UpDefines DEF Up
<1>. QED BY <1>1, <1>2
         DEF Planned, ExposeSteps, ClusterSteps, UpSteps, CreateSteps

LEMMA PlannedKept ==
  ASSUME TypeOK, Planned, Gapless, [Next]_vars
  PROVE  Planned'
<1>. MachinesTyped /\ CommandTyped
  BY TypeParts
<1>1. CASE pc' \notin UpSteps \ {"up.list"}
  BY <1>1 DEF Planned, UpSteps, CreateSteps
<1>2. CASE Up /\ pc' \in UpSteps \ {"up.list"}
  <2>1. pc' \notin AtRest
    BY <1>2 DEF AtRest, UpSteps, CreateSteps
  <2>. QED BY <1>2, <2>1, ListForUpPlans, SetupPlans, CreatePlans, LaterPlans
           DEF Up
<1>3. CASE Beside
  BY <1>3, BesideRuns, BesideDefines DEF Planned
<1>. QED BY <1>1, <1>2, <1>3, UpGoesOn

\* A node that is built follows those that exist, so no gap arises.
LEMMA CreateGapless ==
  ASSUME MachinesTyped, CommandTyped, VmsApart, Homes, Gapless, calm,
         Create \/ Inspect,
         pc' \notin AtRest
  PROVE  Gapless'
<1>1. pc \in CreateSteps \cup {"up.inspect"}
  BY DEF Create, CreatePreflight, EnsureLocalKey, CreateDisk, Boot, Start,
         WaitForIp, ForgetHostKey, Unreserve, Reserve, WaitForSsh, Inspect,
         CreateSteps
<1>2. cli.cur \in Nodes /\ cli'.listed = cli.listed
  BY <1>1, AtCreate, CreateFlow
<1>3. DefinedNodes \subseteq DefinedNodes'
  <2>1. \A n \in Nodes : Defined(n) => vm'[n].mac # None
    BY UpKeepsVms DEF Kept, Up
  <2>. QED BY <2>1 DEF DefinedNodes, Defined
<1>4. CASE ~Boot
  <2>1. DefinedNodes' = DefinedNodes
    BY <1>3, <1>4, UpDefines DEF Up
  <2>. QED BY <1>1, <1>2, <2>1 DEF Gapless
<1>5. CASE Boot
  <2>1. DefinedNodes' \subseteq DefinedNodes \cup {cli.cur}
    BY <1>5, UpDefines DEF Up
  <2>2. \A m \in Nodes : m < cli.cur => m \in DefinedNodes
    <3>1. \A m \in Nodes : m < cli.cur => vm[m].mac # None
      BY <1>1 DEF Homes, Entered, Settled, Noted, VmsApart, Defined
    <3>. QED BY <3>1 DEF DefinedNodes, Defined
  <2>3. pc = "create.boot"
    BY <1>5 DEF Boot
  <2>4. ASSUME NEW n \in DefinedNodes', NEW m \in Nodes, m <= n
        PROVE  m \in DefinedNodes'
    <3>1. CASE n \in DefinedNodes
      BY <1>3, <2>3, <2>4, <3>1 DEF Gapless, CreateSteps
    <3>2. CASE n = cli.cur
      <4>1. m < cli.cur \/ m = n
        BY <2>4, <3>2, <1>2 DEF Nodes
      <4>. QED BY <1>3, <2>2, <2>4, <4>1
    <3>. QED BY <2>1, <2>4, <3>1, <3>2
  <2>5. cli'.listed \subseteq DefinedNodes'
    BY <1>2, <1>3, <2>3 DEF Gapless, CreateSteps
  <2>. QED BY <2>4, <2>5 DEF Gapless
<1>. QED BY <1>4, <1>5

LEMMA GaplessKept ==
  ASSUME TypeOK, VmsApart, Homes, Gapless, Planned, [Next]_vars
  PROVE  Gapless'
<1>. MachinesTyped /\ CommandTyped
  BY TypeParts
<1>1. CASE pc' \notin {"up.setup", "up.inspect"} \cup CreateSteps
  BY <1>1 DEF Gapless
<1>2. CASE Up /\ pc' \in {"up.setup", "up.inspect"} \cup CreateSteps
  <2>1. pc' \notin AtRest
    BY <1>2 DEF AtRest, CreateSteps
  <2>2. CASE Expose \/ ClusterUp
    <3>1. pc' \in ExposeSteps \cup ClusterSteps
      BY <2>1, <2>2, LaterFlow DEF ExposeSteps, ClusterSteps
    <3>. QED BY <1>2, <3>1 DEF ExposeSteps, ClusterSteps, CreateSteps
  <2>3. CASE Create \/ Inspect
    <3>1. calm' = calm
      BY <2>3
      DEF Create, CreatePreflight, EnsureLocalKey, CreateDisk, Boot, Start,
          WaitForIp, ForgetHostKey, Unreserve, Reserve, WaitForSsh, Inspect,
          NextNode, Fail, End, Go, ghostVars
    <3>2. CASE ~calm
      BY <3>1, <3>2 DEF Gapless
    <3>. QED BY <2>1, <2>3, <3>2, CreateGapless
  <2>. QED BY <1>2, <2>1, <2>2, <2>3, ListForUpPlans, SetupPlans DEF Up
<1>3. CASE Beside
  <2>1. UNCHANGED <<pc, cli>>
    BY <1>3, BesideRuns
  <2>2. CASE ~calm' \/ pc \in AtRest
    BY <2>1, <2>2 DEF Gapless, AtRest, CreateSteps
  <2>3. CASE calm' /\ pc \notin AtRest
    <3>1. calm /\ \A n \in Nodes : vm'[n].mac = vm[n].mac
      BY <1>3, <2>3, BesideCalm DEF Stays, SameBuild
    <3>2. DefinedNodes' = DefinedNodes
      BY <3>1 DEF DefinedNodes, Defined
    <3>. QED BY <2>1, <3>1, <3>2 DEF Gapless
  <2>. QED BY <2>2, <2>3
<1>. QED BY <1>1, <1>2, <1>3, UpGoesOn DEF UpSteps, CreateSteps

\* What an up that runs knows of the VMs, taken together.
UpInv == VmsApart /\ Homes /\ Planned /\ Gapless

LEMMA UpInvAlways == Spec => [](TypeOK /\ UpInv)
<1>1. Init => UpInv
  <2>1. Init => Homes /\ Planned /\ Gapless
    BY DEF Init, Homes, Planned, Gapless, CreateSteps, LateSteps, UpSteps,
           ExposeSteps, ClusterSteps
  <2>. QED BY <2>1, ApartAtFirst DEF UpInv
<1>2. TypeOK /\ UpInv /\ [Next]_vars => UpInv'
  BY ApartKept, HomesKept, PlannedKept, GaplessKept DEF UpInv
<1>. QED BY <1>1, <1>2, TypeCorrect, PTL DEF Spec

\* Unless somebody meddles or virsh stops answering, up makes only VMs of the
\* plan, one after the other and no more than the host's memory takes: also
\* on a host where an earlier up was cut off, and where a larger plan was
\* asked for than the first one.
THEOREM VmsAreBuiltInOrder == Spec => []BuildsInPlan
<1>1. TypeOK /\ UpInv /\ NewNode => BuildsInPlan
  <2>. SUFFICES ASSUME MachinesTyped, CommandTyped, UpInv, NewNode,
                       pc = "create.boot", calm, steady
                PROVE  /\ DefinedNodes = 1..(cli.cur - 1)
                       /\ cli.cur <= cli.want /\ cli.want <= Capacity
    BY TypeParts DEF BuildsInPlan
  <2>1. cli.cur \in Nodes /\ cli.cur <= cli.want
    BY AtCreate DEF CreateSteps
  <2>2. cli.cur \notin DefinedNodes
    BY DEF NewNode, BuildSteps, DefinedNodes
  <2>3. /\ \A n \in DefinedNodes, m \in Nodes : m <= n => m \in DefinedNodes
        /\ cli.listed \subseteq DefinedNodes
    BY DEF UpInv, Gapless, CreateSteps
  <2>4. \A n \in DefinedNodes : n < cli.cur
    <3>1. \A n \in DefinedNodes : n \in Nodes /\ ~(cli.cur <= n)
      BY <2>1, <2>2, <2>3 DEF DefinedNodes
    <3>. QED BY <2>1, <3>1 DEF Nodes
  <2>5. \A n \in Nodes : n < cli.cur => n \in DefinedNodes
    BY DEF UpInv, Homes, CreateSteps, Entered, Settled, Noted, VmsApart,
           DefinedNodes
  <2>6. DefinedNodes = 1..(cli.cur - 1)
    BY <2>1, <2>4, <2>5, MaxNodesAssumption DEF DefinedNodes, Nodes
  <2>7. cli.cur = 1 => cli.listed = {}
    <3>1. cli.cur = 1 => DefinedNodes = {}
      BY <2>4 DEF DefinedNodes, Nodes
    <3>. QED BY <2>3, <3>1
  <2>8. cli.want <= Capacity
    BY <2>7 DEF UpInv, Planned, CreateSteps
  <2>. QED BY <2>1, <2>6, <2>8
<1>2. Init => ReserveReady /\ NewNode
  BY DEF Init, ReserveReady, NewNode, BuildSteps, HostReadySteps, UpSteps,
         CreateSteps
<1>3. TypeOK /\ ReserveReady /\ NewNode /\ [Next]_vars =>
        ReserveReady' /\ NewNode'
  BY ReserveReadyKept, NewNodeKept
<1>. QED BY <1>1, <1>2, <1>3, UpInvAlways, PTL DEF Spec

-----------------------------------------------------------------------------
(* Reservations and the forwarding                                         *)

\* Inductive: no two entries share a name, a MAC or an address, and where
\* there is no libvirt there is nothing of libvirt's.
EntriesApart ==
  /\ \A r, s \in resv :
       r.mac = s.mac \/ r.ip = s.ip \/ r.name = s.name => r = s
  /\ libvirt = "absent" => DefinedNodes = {} /\ resv = {}

\* One addition adds an entry, and only one that clashes with none.
LEMMA OnlyReserveAdds ==
  ASSUME [Next]_vars
  PROVE  \/ resv' \subseteq resv
         \/ /\ CanReserve(cli.mac, cli.ips[cli.cur], cli.cur)
            /\ resv' = resv \cup {[name |-> cli.cur, mac |-> cli.mac,
                                   ip |-> cli.ips[cli.cur]]}
<1>1. CASE Up
  <2>1. CASE Reserve
    BY <2>1 DEF Reserve
  <2>2. CASE Unreserve
    BY <2>2 DEF Unreserve, WithoutReservation
  <2>3. CASE ClusterUp
    BY <2>3
    DEF ClusterUp, ClusterServer, ClusterStart, ClusterWait, ClusterJoin,
        ClusterEnter, ClusterReady, FetchKubeconfig, MergeKubeconfig, OnlyVm,
        Looks, hostVars
  <2>4. CASE Up /\ ~Reserve /\ ~Unreserve /\ ~ClusterUp
    BY <2>4
    DEF Up, ListForUp, Setup, Create, CreatePreflight, EnsureLocalKey,
        CreateDisk, Boot, Start, WaitForIp, ForgetHostKey, WaitForSsh, Inspect,
        Expose, ExposeWrite, ExposeEnable, ExposeRestart, OnlyVm, OnlyFwd,
        Looks, hostVars
  <2>. QED BY <1>1, <2>1, <2>2, <2>3, <2>4
<1>2. CASE Down
  BY <1>2
  DEF Down, ListForDown, LookForForwarding, LookForStale, Confirm, Destroy,
      DestroyPreflight, ReadMac, Undefine, ReleaseAddress, VerifyRemoval,
      CloseApi, ForgetLocal, Sweep, Uninstall, AfterRelease, OnlyVm, OnlyFwd,
      Looks, hostVars
<1>3. CASE Ask \/ Abort \/ RestartFails \/ UndefineFails
  BY <1>3 DEF Ask, AskUp, AskDown, Begin, Abort, RestartFails, UndefineFails,
              PowerOff, OnlyFwd, Looks, hostVars
<1>4. CASE Beside
  BY <1>4, BesideRuns
<1>. QED BY <1>1, <1>2, <1>3, <1>4 DEF Next, Trouble, Beside

LEMMA LibvirtStaysInstalled ==
  ASSUME [Next]_vars, libvirt' = "absent"
  PROVE  libvirt = "absent"
<1>1. ~Setup
  BY DEF Setup
<1>2. CASE Up
  BY <1>1, <1>2, UpKeepsLibvirt
<1>3. CASE Down
  BY <1>3
  DEF Down, ListForDown, LookForForwarding, LookForStale, Confirm, Destroy,
      DestroyPreflight, ReadMac, Undefine, ReleaseAddress, VerifyRemoval,
      CloseApi, ForgetLocal, Sweep, Uninstall, OnlyVm, OnlyResv, OnlyFwd,
      Looks, hostVars
<1>4. CASE Ask \/ Trouble \/ Machine \/ UNCHANGED vars
  BY <1>4
  DEF Ask, AskUp, AskDown, Begin, Trouble, Abort, RestartFails, UndefineFails,
      PowerOff, Meddle, HandUndefine, LoseKey, HandInstall, Shake, Reboot,
      LoseLibvirt, LibvirtFails, Machine, Lease, DhcpLease, FinishBoot,
      CloudInit, RegainLibvirt, LibvirtRestarts, OnlyFwd, Looks, hostVars, vars
<1>. QED BY <1>2, <1>3, <1>4 DEF Next

LEMMA EntriesKept ==
  ASSUME TypeOK, EntriesApart, [Next]_vars
  PROVE  EntriesApart'
<1>. MachinesTyped /\ CommandTyped
  BY TypeParts
<1>1. CASE resv' \subseteq resv
  <2>1. libvirt' = "absent" => libvirt = "absent"
    BY LibvirtStaysInstalled
  <2>2. libvirt = "absent" => DefinedNodes' = {}
    BY OnlyBootDefines DEF EntriesApart, DefinedNodes, Defined
  <2>. QED BY <1>1, <2>1, <2>2 DEF EntriesApart
<1>2. CASE /\ CanReserve(cli.mac, cli.ips[cli.cur], cli.cur)
           /\ resv' = resv \cup {[name |-> cli.cur, mac |-> cli.mac,
                                  ip |-> cli.ips[cli.cur]]}
  <2>1. libvirt' # "absent"
    BY <1>2, LibvirtStaysInstalled DEF CanReserve
  <2>2. \A r \in resv : /\ r.mac # cli.mac /\ r.ip # cli.ips[cli.cur]
                        /\ r.name # cli.cur
    BY <1>2 DEF CanReserve, WithoutReservation
  <2>. QED BY <1>2, <2>1, <2>2 DEF EntriesApart
<1>. QED BY <1>1, <1>2, OnlyReserveAdds

LEMMA EntriesAtFirst == Init => EntriesApart
  BY DEF Init, HostInit, EntriesApart, DefinedNodes, Defined, NoVm

\* Inductive: past the first node, an address is noted for the server.
ServerNoted ==
  /\ pc \in ExposeSteps \cup ClusterSteps \cup {"up.inspect"} =>
       cli.ips[1] # None
  /\ pc \in CreateSteps /\ cli.cur # 1 => cli.ips[1] # None
\* Inductive: there is no unit without a script, and while up goes through
\* its steps the script, the unit and the rule follow one another.
Forwarding ==
  /\ fwd.script = None => ~fwd.enabled /\ fwd.rule = None
  /\ pc \in (ExposeSteps \cup ClusterSteps) \ {"expose.write"} =>
       fwd.script = cli.ips[1]
  /\ pc \in {"expose.restart"} \cup ClusterSteps => fwd.enabled
  /\ pc \in ClusterSteps => fwd.rule = fwd.script

LEMMA ServerNotedKept ==
  ASSUME TypeOK, ServerNoted, [Next]_vars
  PROVE  ServerNoted'
<1>. MachinesTyped /\ CommandTyped
  BY TypeParts
<1>1. CASE pc' \notin UpSteps \ {"up.list", "up.setup"}
  BY <1>1 DEF ServerNoted, UpSteps, CreateSteps, ExposeSteps, ClusterSteps
<1>2. CASE Up /\ pc' \in UpSteps \ {"up.list", "up.setup"}
  <2>1. pc' \notin AtRest
    BY <1>2 DEF AtRest, UpSteps, CreateSteps
  <2>2. CASE ListForUp \/ Setup
    BY <2>1, <2>2 DEF ListForUp, Setup, Fail, End, Go, AtRest, ServerNoted,
                      CreateSteps, ExposeSteps, ClusterSteps, CommandTyped,
                      Command
  <2>3. CASE Create \/ Inspect
    <3>. 1 \in Nodes
      BY MaxNodesAssumption DEF Nodes
    <3>1. /\ pc \in CreateSteps \cup {"up.inspect"}
          /\ cli.cur # 1 => cli'.ips[1] = cli.ips[1]
      BY <2>1, <2>3, CreateFlow DEF CreateSteps
    <3>2. cli.cur # 1 => cli'.ips[1] # None
      BY <3>1 DEF ServerNoted, CommandTyped, CommandOK
    <3>3. pc \in {"create.ssh", "up.inspect"} => cli'.ips[1] # None
      <4>1. pc = "create.ssh" => cli.ips[cli.cur] # None
        BY AtLate, NoneAssumption DEF LateSteps
      <4>2. pc \in {"create.ssh", "up.inspect"} => cli'.ips = cli.ips
        BY <2>1, <2>3, CreateFlow
      <4>. QED BY <3>2, <4>1, <4>2 DEF ServerNoted
    <3>. QED BY <2>1, <2>3, <3>1, <3>2, <3>3, CreateFlow
             DEF ServerNoted, CreateSteps, ExposeSteps, ClusterSteps
  <2>4. CASE Expose \/ ClusterUp
    BY <2>1, <2>4, LaterFlow
    DEF ServerNoted, ExposeSteps, ClusterSteps, CreateSteps
  <2>. QED BY <1>2, <2>2, <2>3, <2>4 DEF Up
<1>3. CASE Beside
  BY <1>3, BesideRuns DEF ServerNoted
<1>. QED BY <1>1, <1>2, <1>3, UpGoesOn

\* Nothing but expose, its failure, a reboot and down changes the forwarding.
LEMMA ForwardingKept ==
  ASSUME TypeOK, ServerNoted, Forwarding, [Next]_vars
  PROVE  Forwarding'
<1>. MachinesTyped /\ CommandTyped
  BY TypeParts
<1>. fwd \in [script : Opt(Addrs), enabled : BOOLEAN, rule : Opt(Addrs)]
  BY DEF MachinesTyped
<1>1. CASE Beside
  <2>1. UNCHANGED <<pc, cli>>
    BY <1>1, BesideRuns
  <2>2. CASE Reboot
    <3>1. /\ fwd'.script = fwd.script /\ fwd'.enabled = fwd.enabled
          /\ fwd'.rule = IF fwd.enabled THEN fwd.script ELSE None
      BY <2>2 DEF Reboot
    <3>. QED BY <2>1, <3>1 DEF Forwarding
  <2>3. CASE ~Reboot
    <3>1. fwd' = fwd
      BY <1>1, <2>3
      DEF Beside, Machine, Lease, DhcpLease, FinishBoot, CloudInit,
          RegainLibvirt, LibvirtRestarts, Meddle, HandUndefine, LoseKey,
          HandInstall, Shake, PowerOff, LoseLibvirt, LibvirtFails, hostVars,
          vars
    <3>. QED BY <2>1, <3>1 DEF Forwarding
  <2>. QED BY <2>2, <2>3
<1>2. CASE Expose
  <2>1. CASE ExposeWrite
    <3>1. /\ pc = "expose.write" /\ pc' = "expose.enable" /\ cli' = cli
          /\ fwd'.script = cli.ips[1]
      BY <2>1 DEF ExposeWrite, Go
    <3>2. cli.ips[1] # None
      BY <3>1 DEF ServerNoted, ExposeSteps
    <3>. QED BY <3>1, <3>2 DEF Forwarding, ClusterSteps
  <2>2. CASE ExposeEnable
    <3>1. /\ pc = "expose.enable" /\ pc' = "expose.restart" /\ cli' = cli
          /\ fwd'.script = fwd.script /\ fwd'.enabled = TRUE
      BY <2>2 DEF ExposeEnable, Go
    <3>2. fwd.script = cli.ips[1] /\ cli.ips[1] # None
      BY <3>1 DEF ServerNoted, Forwarding, ExposeSteps
    <3>. QED BY <3>1, <3>2 DEF Forwarding, ClusterSteps
  <2>3. CASE ExposeRestart
    <3>1. /\ pc = "expose.restart" /\ pc' \in {"idle", "cluster.server"}
          /\ pc' = "cluster.server" => cli' = cli
          /\ fwd'.script = fwd.script /\ fwd'.enabled = fwd.enabled
          /\ fwd'.rule = fwd.script
      BY <2>3 DEF ExposeRestart, Fail, End, Go
    <3>2. fwd.script = cli.ips[1] /\ cli.ips[1] # None /\ fwd.enabled
      BY <3>1 DEF ServerNoted, Forwarding, ExposeSteps
    <3>. QED BY <3>1, <3>2 DEF Forwarding, ClusterSteps, ExposeSteps
  <2>. QED BY <1>2, <2>1, <2>2, <2>3 DEF Expose
<1>3. CASE ClusterUp
  <2>1. fwd' = fwd
    BY <1>3, ClusterChange
  <2>2. CASE pc' \in AtRest
    BY <2>1, <2>2 DEF Forwarding, AtRest, ExposeSteps, ClusterSteps
  <2>3. CASE pc' \notin AtRest
    <3>1. pc \in ClusterSteps
      BY <1>3 DEF ClusterUp, ClusterServer, ClusterStart, ClusterWait,
                  ClusterJoin, ClusterEnter, ClusterReady, FetchKubeconfig,
                  MergeKubeconfig, ClusterSteps
    <3>2. cli'.ips = cli.ips
      BY <1>3, <2>3, LaterFlow
    <3>. QED BY <2>1, <3>1, <3>2 DEF Forwarding, ExposeSteps, ClusterSteps
  <2>. QED BY <2>2, <2>3
<1>4. CASE ListForUp \/ Setup \/ Create \/ Inspect
  <2>1. fwd' = fwd
    BY <1>4
    DEF ListForUp, Setup, Create, CreatePreflight, EnsureLocalKey, CreateDisk,
        Boot, Start, WaitForIp, ForgetHostKey, Unreserve, Reserve, WaitForSsh,
        Inspect, OnlyVm, OnlyResv, Looks, hostVars
  <2>2. pc' \notin (ExposeSteps \cup ClusterSteps) \ {"expose.write"}
    <3>1. CASE ListForUp \/ Setup
      BY <3>1 DEF ListForUp, Setup, Fail, End, Go, ExposeSteps, ClusterSteps
    <3>2. CASE (Create \/ Inspect) /\ pc' \notin AtRest
      BY <3>2, CreateFlow DEF CreateSteps, ExposeSteps, ClusterSteps
    <3>3. CASE pc' \in AtRest
      BY <3>3 DEF AtRest, ExposeSteps, ClusterSteps
    <3>. QED BY <1>4, <3>1, <3>2, <3>3
  <2>. QED BY <2>1, <2>2 DEF Forwarding, ExposeSteps, ClusterSteps
<1>5. CASE Ask \/ Down \/ Abort \/ RestartFails \/ UndefineFails
  <2>1. pc' \notin ExposeSteps \cup ClusterSteps
    BY <1>5, NotUp DEF UpSteps, ExposeSteps, ClusterSteps
  <2>2. CASE CloseApi
    BY <2>1, <2>2 DEF CloseApi, NoForwarding, Forwarding, ExposeSteps
  <2>3. CASE RestartFails
    <3>1. /\ fwd'.script = fwd.script /\ fwd'.enabled = fwd.enabled
          /\ fwd'.rule = None
      BY <2>3 DEF RestartFails
    <3>. QED BY <2>1, <3>1 DEF Forwarding, ExposeSteps
  <2>4. CASE ~CloseApi /\ ~RestartFails
    <3>1. fwd' = fwd
      BY <1>5, <2>4
      DEF Ask, AskUp, AskDown, Begin, Down, ListForDown, LookForForwarding,
          LookForStale, Confirm, Destroy, DestroyPreflight, ReadMac, Undefine,
          ReleaseAddress, VerifyRemoval, ForgetLocal, Sweep, Uninstall, Abort,
          UndefineFails, PowerOff, OnlyVm, OnlyResv, Looks, hostVars
    <3>. QED BY <2>1, <3>1 DEF Forwarding, ExposeSteps
  <2>. QED BY <2>2, <2>3, <2>4
<1>. QED BY <1>1, <1>2, <1>3, <1>4, <1>5 DEF Next, Trouble, Beside, Up

-----------------------------------------------------------------------------
(* What a finished up promises                                             *)

LEMMA ReadyComesFromMerge ==
  ASSUME [Next]_vars, pc' = "ready"
  PROVE  MergeKubeconfig \/ (Beside /\ pc = "ready")
<1>. USE DEF Go, Fail, End
<1>1. ~Ask /\ ~Abort /\ ~RestartFails /\ ~UndefineFails
  BY DEF Ask, AskUp, AskDown, Begin, Abort, RestartFails, UndefineFails
<1>2. ~Down
  BY DEF Down, ListForDown, LookForForwarding, LookForStale, Confirm, Destroy,
         DestroyPreflight, ReadMac, Undefine, ReleaseAddress, VerifyRemoval,
         CloseApi, ForgetLocal, Sweep, Uninstall
<1>3. CASE Up
  <2>1. ~ListForUp /\ ~Setup /\ ~Inspect /\ ~Expose
    BY DEF ListForUp, Setup, Inspect, NextNode, Expose, ExposeWrite,
           ExposeEnable, ExposeRestart
  <2>2. ~Create
    BY DEF Create, CreatePreflight, EnsureLocalKey, CreateDisk, Boot, Start,
           WaitForIp, ForgetHostKey, Unreserve, Reserve, WaitForSsh, NextNode
  <2>3. ClusterUp => MergeKubeconfig
    BY DEF ClusterUp, ClusterServer, ClusterStart, ClusterWait, ClusterJoin,
           ClusterEnter, NextAgent, ClusterReady, FetchKubeconfig
  <2>. QED BY <1>3, <2>1, <2>2, <2>3 DEF Up
<1>4. CASE Beside
  BY <1>4, BesideRuns
<1>. QED BY <1>1, <1>2, <1>3, <1>4 DEF Next, Trouble, Beside

\* What happens to a finished cluster without anybody meddling: it is switched
\* off, started and leased addresses again, but no VM, entry or file is
\* another one.
LEMMA RestCalm ==
  ASSUME MachinesTyped, Beside, calm', pc \in AtRest
  PROVE  /\ calm /\ UNCHANGED <<resv, localVars, hostInstalled>>
         /\ \A n \in Nodes : SameBuild(n) /\ vm'[n].cluster = vm[n].cluster
         /\ \A n \in Nodes :
              vm'[n].addr \in {None, vm[n].addr} \/ vm'[n].addr \in Leasable(n)
         /\ fwd'.script = fwd.script /\ fwd'.enabled = fwd.enabled
         /\ \/ fwd'.rule = fwd.rule
            \/ fwd'.rule = IF fwd.enabled THEN fwd.script ELSE None
<1>. fwd \in [script : Opt(Addrs), enabled : BOOLEAN, rule : Opt(Addrs)]
  BY DEF MachinesTyped
<1>1. ~Meddle
  BY DEF Meddle
<1>2. calm
  BY DEF Beside, Machine, Lease, FinishBoot, RegainLibvirt, Meddle, Shake,
         LoseLibvirt, ghostVars, vars
<1>3. CASE \E n \in Nodes : DhcpLease(n)
  <2>1. PICK n \in Nodes : DhcpLease(n)
    BY <1>3
  <2>2. PICK a \in Leasable(n) : vm' = [vm EXCEPT ![n].addr = a]
    BY <2>1 DEF DhcpLease
  <2>3. UNCHANGED <<hostInstalled, resv, fwd, localVars>>
    BY <2>1 DEF DhcpLease
  <2>. QED BY <1>2, <2>2, <2>3 DEF SameBuild, MachinesTyped, VM
<1>4. CASE \E n \in Nodes : CloudInit(n) \/ PowerOff(n)
  <2>1. \A n \in Nodes : /\ SameBuild(n) /\ vm'[n].cluster = vm[n].cluster
                         /\ vm'[n].addr \in {None, vm[n].addr}
    BY <1>4 DEF CloudInit, PowerOff, SameBuild, MachinesTyped, VM
  <2>2. UNCHANGED <<hostInstalled, resv, fwd, localVars>>
    BY <1>4 DEF CloudInit, PowerOff
  <2>. QED BY <1>2, <2>1, <2>2
<1>5. CASE Reboot
  <2>1. \A n \in Nodes : /\ SameBuild(n) /\ vm'[n].cluster = vm[n].cluster
                         /\ vm'[n].addr = None
    BY <1>5 DEF Reboot, SameBuild, MachinesTyped, VM
  <2>2. /\ fwd'.script = fwd.script /\ fwd'.enabled = fwd.enabled
        /\ fwd'.rule = IF fwd.enabled THEN fwd.script ELSE None
    BY <1>5 DEF Reboot
  <2>. QED BY <1>2, <1>5, <2>1, <2>2 DEF Reboot
<1>6. CASE RegainLibvirt \/ LoseLibvirt \/ UNCHANGED vars
  BY <1>2, <1>6
  DEF RegainLibvirt, LibvirtRestarts, LoseLibvirt, LibvirtFails, SameBuild,
      localVars, vars
<1>. QED BY <1>1, <1>3, <1>4, <1>5, <1>6
         DEF Beside, Machine, Lease, FinishBoot, Shake

LEMMA RestKeepsNodes ==
  ASSUME \A n \in Nodes : SameBuild(n)
  PROVE  DefinedNodes' = DefinedNodes
  BY DEF SameBuild, DefinedNodes, Defined

\* At the end of up the server and every VM there is are entered.
LEMMA MergeFindsHomes ==
  ASSUME MachinesTyped, CommandTyped, UpInv, calm, MergeKubeconfig
  PROVE  /\ 1 \in Nodes /\ Entered(1)
         /\ \A n \in DefinedNodes : n \in Nodes /\ n <= cli.want /\ Entered(n)
         /\ UNCHANGED <<vm, resv, fwd, priv, known, kubefile, calm>>
<1>1. pc = "cluster.merge"
  BY DEF MergeKubeconfig
<1>2. cli.want \in Nodes /\ \A n \in DefinedNodes : n <= cli.want
  BY <1>1 DEF UpInv, Planned, UpSteps, CreateSteps
<1>3. 1 \in Nodes /\ 1 <= cli.want
  BY <1>2, MaxNodesAssumption DEF Nodes
<1>4. \A n \in Nodes : n <= cli.want => Entered(n)
  BY <1>1 DEF UpInv, Homes, ClusterSteps
<1>. QED BY <1>2, <1>3, <1>4
         DEF DefinedNodes, MergeKubeconfig, End, Go, hostVars, ghostVars

LEMMA MergeMeansForwarding ==
  ASSUME MachinesTyped, CommandTyped, UpInv, Forwarding, calm, MergeKubeconfig
  PROVE  ForwardingFollowsServer'
<1>1. /\ Entered(1) /\ UNCHANGED <<vm, resv, fwd>>
  BY MergeFindsHomes
<1>2. fwd.script = cli.ips[1] /\ fwd.enabled /\ fwd.rule = fwd.script
  BY DEF MergeKubeconfig, Forwarding, ExposeSteps, ClusterSteps
<1>. QED BY <1>1, <1>2 DEF ForwardingFollowsServer, Entered, Settled, Noted

\* The server is leased the address that is reserved for it, so the rule goes
\* on leading to it.
LEMMA ForwardingOutlives ==
  ASSUME MachinesTyped, EntriesApart, ForwardingFollowsServer, Beside,
         pc = "ready"
  PROVE  ForwardingFollowsServer'
<1>1. CASE ~calm'
  BY <1>1 DEF ForwardingFollowsServer
<1>2. CASE calm'
  <2>. 1 \in Nodes
    BY MaxNodesAssumption DEF Nodes
  <2>. DEFINE entry == [name |-> 1, mac |-> vm[1].mac, ip |-> fwd.script]
  <2>1. pc \in AtRest /\ UNCHANGED pc
    BY BesideRuns DEF AtRest
  <2>2. /\ fwd.script # None /\ fwd.enabled /\ fwd.rule = fwd.script
        /\ vm[1].addr \in {None, fwd.script} /\ entry \in resv
    BY <1>2, <2>1, RestCalm DEF ForwardingFollowsServer
  <2>3. Leasable(1) \subseteq {fwd.script}
    <3>1. {r.ip : r \in {s \in resv : s.mac = vm[1].mac}} = {fwd.script}
      <4>1. entry.mac = vm[1].mac /\ entry.ip = fwd.script
        OBVIOUS
      <4>2. \A s \in resv : s.mac = vm[1].mac => s = entry
        BY <2>2, <4>1 DEF EntriesApart
      <4>. HIDE DEF entry
      <4>. QED BY <2>2, <4>1, <4>2
    <3>. QED BY <3>1 DEF Leasable
  <2>4. /\ fwd'.script = fwd.script /\ fwd'.enabled /\ fwd'.rule = fwd.script
        /\ vm'[1].mac = vm[1].mac /\ resv' = resv
        /\ vm'[1].addr \in {None, fwd.script}
    BY <1>2, <2>1, <2>2, <2>3, RestCalm DEF SameBuild
  <2>. QED BY <2>2, <2>4 DEF ForwardingFollowsServer
<1>. QED BY <1>1, <1>2

LEMMA MergeMeansEnterable ==
  ASSUME MachinesTyped, CommandTyped, UpInv, calm, MergeKubeconfig
  PROVE  ReadyMeansEnterable'
<1>1. /\ \A n \in DefinedNodes : n \in Nodes /\ Entered(n)
      /\ UNCHANGED <<vm, resv, priv, known>>
  BY MergeFindsHomes
<1>2. ASSUME NEW n \in DefinedNodes
      PROVE  /\ vm[n].key = priv
             /\ \E r \in resv : /\ r.name = n /\ r.mac = vm[n].mac
                                /\ known[r.ip] = vm[n].disk
  <2>1. /\ [name |-> n, mac |-> vm[n].mac, ip |-> cli.ips[n]] \in resv
        /\ vm[n].key = priv /\ known[cli.ips[n]] = vm[n].disk
    BY <1>1 DEF Entered, Settled
  <2>. QED BY <2>1
<1>3. DefinedNodes' = DefinedNodes
  BY <1>1 DEF DefinedNodes, Defined
<1>. QED BY <1>1, <1>2, <1>3 DEF ReadyMeansEnterable

LEMMA EnterableOutlives ==
  ASSUME MachinesTyped, ReadyMeansEnterable, Beside, pc = "ready"
  PROVE  ReadyMeansEnterable'
<1>1. CASE ~calm'
  BY <1>1 DEF ReadyMeansEnterable
<1>2. CASE calm'
  <2>1. /\ calm /\ UNCHANGED <<resv, priv, known>>
        /\ \A n \in Nodes : SameBuild(n)
    BY <1>2, RestCalm DEF AtRest, localVars
  <2>2. DefinedNodes' = DefinedNodes
    BY <2>1, RestKeepsNodes
  <2>3. \A n \in DefinedNodes : vm'[n].mac = vm[n].mac
                                /\ vm'[n].disk = vm[n].disk
                                /\ vm'[n].key = vm[n].key
    BY <2>1 DEF SameBuild, DefinedNodes
  <2>. QED BY <2>1, <2>2, <2>3 DEF ReadyMeansEnterable
<1>. QED BY <1>1, <1>2

\* When up has said Ready, the rule on the host leads to the server and goes
\* on leading there: whatever is switched off, rebooted or leased again, and
\* even while libvirtd fails, as long as nobody meddles.
THEOREM TheWayInLasts == Spec => []ForwardingFollowsServer
<1>. DEFINE Inv == /\ EntriesApart /\ ServerNoted /\ Forwarding
                   /\ ForwardingFollowsServer
<1>1. Init => Inv
  <2>1. Init => ServerNoted /\ Forwarding /\ ForwardingFollowsServer
    BY DEF Init, HostInit, NoForwarding, ServerNoted, Forwarding,
           ForwardingFollowsServer, ExposeSteps, ClusterSteps, CreateSteps
  <2>. QED BY <2>1, EntriesAtFirst
<1>2. TypeOK /\ UpInv /\ Inv /\ [Next]_vars => Inv'
  <2>. SUFFICES ASSUME TypeOK, UpInv, Inv, [Next]_vars
                PROVE  ForwardingFollowsServer'
    BY EntriesKept, ServerNotedKept, ForwardingKept
  <2>. MachinesTyped /\ CommandTyped /\ HistoryTyped
    BY TypeParts
  <2>1. CASE pc' # "ready"
    BY <2>1 DEF ForwardingFollowsServer
  <2>2. CASE MergeKubeconfig
    <3>1. calm' = calm
      BY <2>2 DEF MergeKubeconfig, End, Go, ghostVars
    <3>2. CASE ~calm
      BY <3>1, <3>2 DEF ForwardingFollowsServer
    <3>. QED BY <2>2, <3>2, MergeMeansForwarding
  <2>3. CASE Beside /\ pc = "ready"
    BY <2>3, ForwardingOutlives
  <2>. QED BY <2>1, <2>2, <2>3, ReadyComesFromMerge
<1>. QED BY <1>1, <1>2, UpInvAlways, PTL DEF Spec

\* When up has said Ready, the key, the host key and the reservation SSHerpa
\* keeps for every VM on the host are that VM's, which is what a later command
\* gets in by; and they stay so over power cuts and reboots, as long as nobody
\* meddles.
THEOREM ReadyVmsAreEnterable == Spec => []ReadyMeansEnterable
<1>1. Init => ReadyMeansEnterable
  BY DEF Init, ReadyMeansEnterable
<1>2. TypeOK /\ UpInv /\ ReadyMeansEnterable /\ [Next]_vars =>
        ReadyMeansEnterable'
  <2>. SUFFICES ASSUME TypeOK, UpInv, ReadyMeansEnterable, [Next]_vars
                PROVE  ReadyMeansEnterable'
    OBVIOUS
  <2>. MachinesTyped /\ CommandTyped
    BY TypeParts
  <2>1. CASE pc' # "ready"
    BY <2>1 DEF ReadyMeansEnterable
  <2>2. CASE MergeKubeconfig
    <3>1. calm' = calm
      BY <2>2 DEF MergeKubeconfig, End, Go, ghostVars
    <3>2. CASE ~calm
      BY <3>1, <3>2 DEF ReadyMeansEnterable
    <3>. QED BY <2>2, <3>2, MergeMeansEnterable
  <2>3. CASE Beside /\ pc = "ready"
    BY <2>3, EnterableOutlives
  <2>. QED BY <2>1, <2>2, <2>3, ReadyComesFromMerge
<1>. QED BY <1>1, <1>2, UpInvAlways, PTL DEF Spec

-----------------------------------------------------------------------------
(* One cluster                                                             *)

\* Inductive: from wait_for_ready on the server has the state of its own
\* cluster; once enough nodes are ready, every node of the plan is in it; and
\* the credentials fetched are that cluster's.
Joined ==
  calm =>
    /\ pc \in {"cluster.join", "cluster.enter", "cluster.ready",
               "cluster.fetch", "cluster.merge"} =>
         vm[1].cluster # None /\ vm[1].cluster = vm[1].disk
    /\ pc \in {"cluster.fetch", "cluster.merge"} =>
         \A n \in Nodes : n <= cli.want => vm[n].cluster = vm[1].disk
    /\ pc = "cluster.merge" => kubefile = vm[1].disk

\* Who answers at the address of the server is the server.
LEMMA ServerIsFirst ==
  ASSUME MachinesTyped, UpInv, calm, pc \in ClusterSteps,
         NEW s \in Servers(cli.ips[1])
  PROVE  /\ 1 \in Nodes /\ s = 1 /\ cli.want \in Nodes
         /\ vm[1].cluster # None /\ vm[1].cluster = vm[1].disk
<1>1. cli.want \in Nodes
  BY DEF UpInv, Planned, ClusterSteps, UpSteps, CreateSteps
<1>2. 1 \in Nodes /\ 1 <= cli.want
  BY <1>1, MaxNodesAssumption DEF Nodes
<1>3. Entered(1)
  BY <1>2 DEF UpInv, Homes
<1>4. s = 1
  BY <1>2, <1>3 DEF Servers, Enterable, AtAddress, Entered, Settled, Noted,
                    UpInv, VmsApart
<1>. QED BY <1>1, <1>2, <1>4 DEF Servers

\* As many nodes as the plan has are ready in the cluster of the server: these
\* are the nodes of the plan, since there are no others.
LEMMA ReadyIsThePlan ==
  ASSUME MachinesTyped, UpInv, calm, pc \in ClusterSteps,
         NEW s \in Servers(cli.ips[1]),
         Cardinality(ReadyNodes(s)) >= cli.want
  PROVE  \A n \in Nodes : n <= cli.want => vm[n].cluster = vm[1].disk
<1>1. /\ s = 1 /\ cli.want \in Nodes
      /\ vm[1].cluster = vm[1].disk
  BY ServerIsFirst
<1>2. cli.want \in Nat /\ cli.want > 0
  BY <1>1 DEF Nodes
<1>3. ReadyNodes(s) \subseteq 1..cli.want
  <2>1. \A n \in ReadyNodes(s) : n \in DefinedNodes
    BY DEF ReadyNodes, DefinedNodes, UpInv, VmsApart
  <2>2. \A n \in DefinedNodes : n \in Nodes /\ n <= cli.want
    BY DEF UpInv, Planned, ClusterSteps, UpSteps, CreateSteps, DefinedNodes
  <2>. QED BY <1>2, <2>1, <2>2 DEF Nodes
<1>4. IsFiniteSet(1..cli.want) /\ Cardinality(1..cli.want) = cli.want
  <2>1. 1 \in Int /\ cli.want \in Int /\ ~(1 > cli.want)
    BY <1>2
  <2>2. /\ IsFiniteSet(1..cli.want)
        /\ Cardinality(1..cli.want) = cli.want - 1 + 1
    BY <2>1, FS_Interval, Zenon
  <2>3. cli.want - 1 + 1 = cli.want
    BY <1>2
  <2>. QED BY <2>2, <2>3
<1>5. /\ IsFiniteSet(ReadyNodes(s))
      /\ Cardinality(ReadyNodes(s)) <= Cardinality(1..cli.want)
      /\ Cardinality(1..cli.want) = Cardinality(ReadyNodes(s)) =>
           1..cli.want = ReadyNodes(s)
  BY <1>3, <1>4, FS_Subset
<1>6. Cardinality(ReadyNodes(s)) \in Nat
  BY <1>5, FS_CardinalityType
<1>7. ReadyNodes(s) = 1..cli.want
  BY <1>2, <1>4, <1>5, <1>6
<1>8. \A n \in Nodes : n <= cli.want => n \in ReadyNodes(s)
  BY <1>2, <1>7 DEF Nodes
<1>. QED BY <1>1, <1>8 DEF ReadyNodes

\* Nothing but the installation of a distribution changes the cluster of a
\* VM, and only of one that is in none.
LEMMA JoinedGoesOn ==
  ASSUME MachinesTyped, CommandTyped, UpInv, Joined, calm, ClusterUp,
         pc' \notin AtRest
  PROVE  Joined'
<1>. 1 \in Nodes
  BY MaxNodesAssumption DEF Nodes
<1>1. /\ pc \in ClusterSteps /\ pc' \in ClusterSteps
      /\ cli'.want = cli.want
  <2>1. ~(pc \in ExposeSteps)
    BY DEF ClusterUp, ClusterServer, ClusterStart, ClusterWait, ClusterJoin,
           ClusterEnter, ClusterReady, FetchKubeconfig, MergeKubeconfig,
           ExposeSteps
  <2>. QED BY <2>1, LaterFlow DEF ExposeSteps
<1>2. \A n \in Nodes : /\ vm'[n].disk = vm[n].disk
                       /\ vm[n].cluster # None => vm'[n].cluster = vm[n].cluster
  BY ClusterStays DEF Stays, SameBuild
<1>3. CASE ClusterServer \/ ClusterStart
  <2>1. pc' \in {"cluster.start", "cluster.wait"}
    BY <1>1, <1>3 DEF ClusterServer, ClusterStart, Fail, End, Go, ClusterSteps
  <2>. QED BY <2>1 DEF Joined
<1>4. CASE ClusterWait
  <2>1. /\ Servers(cli.ips[1]) # {} /\ vm' = vm
        /\ pc' \in {"cluster.join", "cluster.ready"}
    BY <1>1, <1>4 DEF ClusterWait, Fail, End, Go, ClusterSteps, Looks,
                      hostVars
  <2>2. vm[1].cluster # None /\ vm[1].cluster = vm[1].disk
    BY <1>1, <2>1, ServerIsFirst
  <2>. QED BY <2>1, <2>2 DEF Joined
<1>5. CASE ClusterJoin \/ ClusterEnter
  <2>1. /\ pc \in {"cluster.join", "cluster.enter"}
        /\ pc' \in {"cluster.join", "cluster.enter", "cluster.ready"}
    BY <1>1, <1>5 DEF ClusterJoin, ClusterEnter, NextAgent, Fail, End, Go,
                      ClusterSteps
  <2>. QED BY <1>2, <2>1 DEF Joined
<1>6. CASE ClusterReady
  <2>1. /\ pc = "cluster.ready" /\ pc' = "cluster.fetch" /\ vm' = vm
        /\ \E s \in Servers(cli.ips[1]) :
             Cardinality(ReadyNodes(s)) >= cli.want
    BY <1>1, <1>6 DEF ClusterReady, Fail, End, Go, ClusterSteps, Looks,
                      hostVars
  <2>2. \A n \in Nodes : n <= cli.want => vm[n].cluster = vm[1].disk
    BY <1>1, <2>1, ReadyIsThePlan
  <2>. QED BY <1>1, <2>1, <2>2 DEF Joined
<1>7. CASE FetchKubeconfig
  <2>1. /\ pc = "cluster.fetch" /\ pc' = "cluster.merge" /\ vm' = vm
        /\ \E s \in Servers(cli.ips[1]) : kubefile' = vm[s].cluster
    BY <1>1, <1>7 DEF FetchKubeconfig, Fail, End, Go, ClusterSteps, hostVars
  <2>2. kubefile' = vm[1].disk
    BY <1>1, <2>1, ServerIsFirst
  <2>. QED BY <1>1, <2>1, <2>2 DEF Joined
<1>8. ~MergeKubeconfig
  BY DEF MergeKubeconfig, End, Go, AtRest
<1>. QED BY <1>3, <1>4, <1>5, <1>6, <1>7, <1>8 DEF ClusterUp

LEMMA JoinedKept ==
  ASSUME TypeOK, UpInv, Joined, [Next]_vars
  PROVE  Joined'
<1>. MachinesTyped /\ CommandTyped /\ 1 \in Nodes
  BY TypeParts, MaxNodesAssumption DEF Nodes
<1>. DEFINE Last == {"cluster.join", "cluster.enter", "cluster.ready",
                     "cluster.fetch", "cluster.merge"}
<1>1. CASE pc' \notin Last
  BY <1>1 DEF Joined
<1>2. CASE Up /\ pc' \in Last
  <2>1. pc' \notin AtRest
    BY <1>2 DEF AtRest
  <2>2. ~ListForUp /\ ~Setup
    BY <1>2 DEF ListForUp, Setup, Fail, End, Go
  <2>3. ~Create /\ ~Inspect
    BY <1>2, <2>1, CreateFlow DEF CreateSteps
  <2>4. ~Expose
    BY <1>2 DEF Expose, ExposeWrite, ExposeEnable, ExposeRestart, Fail, End, Go
  <2>5. ClusterUp
    BY <1>2, <2>2, <2>3, <2>4 DEF Up
  <2>6. calm' = calm
    BY <2>5
    DEF ClusterUp, ClusterServer, ClusterStart, ClusterWait, ClusterJoin,
        ClusterEnter, NextAgent, ClusterReady, FetchKubeconfig,
        MergeKubeconfig, Fail, End, Go, ghostVars
  <2>7. CASE ~calm
    BY <2>6, <2>7 DEF Joined
  <2>. QED BY <2>1, <2>5, <2>7, JoinedGoesOn
<1>3. CASE Beside /\ pc' \in Last
  <2>1. CASE ~calm'
    BY <2>1 DEF Joined
  <2>2. CASE calm'
    <3>1. pc \notin AtRest
      BY <1>3, BesideRuns DEF AtRest
    <3>2. /\ calm /\ UNCHANGED <<pc, cli, kubefile>>
          /\ \A n \in Nodes : /\ vm'[n].disk = vm[n].disk
                              /\ vm'[n].cluster = vm[n].cluster
      BY <1>3, <2>2, <3>1, BesideCalm DEF localVars, Stays, SameBuild
    <3>. QED BY <3>2 DEF Joined
  <2>. QED BY <2>1, <2>2
<1>. QED BY <1>1, <1>2, <1>3, UpGoesOn DEF UpSteps

LEMMA MergeMeansOneCluster ==
  ASSUME MachinesTyped, CommandTyped, UpInv, Joined, calm, MergeKubeconfig
  PROVE  ReadyMeansOneCluster'
<1>1. /\ 1 \in Nodes /\ Entered(1)
      /\ \A n \in DefinedNodes : n \in Nodes /\ n <= cli.want
      /\ UNCHANGED <<vm, kubefile>>
  BY MergeFindsHomes
<1>2. 1 \in DefinedNodes
  BY <1>1 DEF Entered, Settled, Noted, UpInv, VmsApart, DefinedNodes
<1>3. /\ \A n \in Nodes : n <= cli.want => vm[n].cluster = vm[1].disk
      /\ kubefile = vm[1].disk
  BY DEF MergeKubeconfig, Joined
<1>4. DefinedNodes' = DefinedNodes
  BY <1>1 DEF DefinedNodes, Defined
<1>. QED BY <1>1, <1>2, <1>3, <1>4 DEF ReadyMeansOneCluster

LEMMA OneClusterOutlives ==
  ASSUME MachinesTyped, ReadyMeansOneCluster, Beside, pc = "ready"
  PROVE  ReadyMeansOneCluster'
<1>1. CASE ~calm'
  BY <1>1 DEF ReadyMeansOneCluster
<1>2. CASE calm'
  <2>1. /\ calm /\ kubefile' = kubefile
        /\ \A n \in Nodes : SameBuild(n) /\ vm'[n].cluster = vm[n].cluster
    BY <1>2, RestCalm DEF AtRest, localVars
  <2>2. DefinedNodes' = DefinedNodes
    BY <2>1, RestKeepsNodes
  <2>3. /\ vm'[1].disk = vm[1].disk
        /\ \A n \in DefinedNodes : vm'[n].cluster = vm[n].cluster
    BY <2>1, MaxNodesAssumption DEF SameBuild, DefinedNodes, Nodes
  <2>. QED BY <2>1, <2>2, <2>3 DEF ReadyMeansOneCluster
<1>. QED BY <1>1, <1>2

\* When up has said Ready, every VM on the host is in one cluster, that of the
\* server's own certificates, and the credentials the workstation holds are
\* that cluster's: no VM of an earlier build, of another cluster or without a
\* distribution is among them.
THEOREM ReadyIsOneCluster == Spec => []ReadyMeansOneCluster
<1>1. Init => Joined /\ ReadyMeansOneCluster
  BY DEF Init, Joined, ReadyMeansOneCluster
<1>2. TypeOK /\ UpInv /\ Joined /\ ReadyMeansOneCluster /\ [Next]_vars =>
        Joined' /\ ReadyMeansOneCluster'
  <2>. SUFFICES ASSUME TypeOK, UpInv, Joined, ReadyMeansOneCluster, [Next]_vars
                PROVE  ReadyMeansOneCluster'
    BY JoinedKept
  <2>. MachinesTyped /\ CommandTyped
    BY TypeParts
  <2>1. CASE pc' # "ready"
    BY <2>1 DEF ReadyMeansOneCluster
  <2>2. CASE MergeKubeconfig
    <3>1. calm' = calm
      BY <2>2 DEF MergeKubeconfig, End, Go, ghostVars
    <3>2. CASE ~calm
      BY <3>1, <3>2 DEF ReadyMeansOneCluster
    <3>. QED BY <2>2, <3>2, MergeMeansOneCluster
  <2>3. CASE Beside /\ pc = "ready"
    BY <2>3, OneClusterOutlives
  <2>. QED BY <2>1, <2>2, <2>3, ReadyComesFromMerge
<1>. QED BY <1>1, <1>2, UpInvAlways, PTL DEF Spec

-----------------------------------------------------------------------------
(* What down takes away                                                    *)

\* Neither a VM nor an entry has the name of node n.
Gone(n) == ~Defined(n) /\ \A r \in resv : r.name # n

\* Inductive: unless somebody meddles or virsh stops answering, what is still
\* on the host is what the running down knows of.  The VMs are among the ones
\* listed, of which the loop has removed the first; the entries are the
\* listed VMs' or among the stale ones.
Removing ==
  calm /\ steady /\ pc \in DownSteps =>
    /\ hostInstalled => cli.host
    /\ pc # "down.list" => libvirt # "down" /\ DefinedNodes \subseteq cli.listed
    /\ pc \in {"down.list", "down.forwarding", "down.stale", "down.confirm"} =>
         cli.cur = 0 /\ cli.listed \subseteq DefinedNodes
    /\ pc \in {"down.stale", "down.confirm"} => fwd.script = None \/ cli.fwd
    /\ pc \in {"down.confirm", "destroy.preflight"} \cup DestroySteps =>
         \A r \in resv : r \in cli.stale \/ r.name \in cli.listed
    /\ pc \in {"destroy.preflight"} \cup DestroySteps =>
         \A n \in cli.listed : /\ n > cli.cur => Defined(n)
                               /\ n < cli.cur => Gone(n)
    /\ pc = "destroy.preflight" /\ cli.cur \in cli.listed => Gone(cli.cur)
    /\ pc \in {"destroy.release", "destroy.verify"} => ~Defined(cli.cur)
    /\ pc = "destroy.verify" => Gone(cli.cur)
    /\ pc \in {"down.close", "down.local", "down.sweep"} =>
         DefinedNodes = {} /\ resv \subseteq cli.stale
    /\ pc = "down.uninstall" => DefinedNodes = {} /\ resv = {}
    /\ pc \in {"down.local", "down.sweep", "down.uninstall"} =>
         fwd.script = None

LEMMA DownComes ==
  ASSUME [Next]_vars, pc' \in DownSteps \cup {"removed", "nothing"}
  PROVE  AskDown \/ Down \/ Beside
<1>. USE DEF DownSteps
<1>1. ~(\E nodes \in 0..MaxNodes : AskUp(nodes))
  BY DEF AskUp, Begin
<1>2. ~Abort /\ ~RestartFails /\ ~UndefineFails
  BY DEF Abort, RestartFails, UndefineFails
<1>3. ~Up
  <2>. USE DEF Go, Fail, End
  <2>1. ~ListForUp /\ ~Setup /\ ~Inspect /\ ~Expose
    BY DEF ListForUp, Setup, Inspect, NextNode, Expose, ExposeWrite,
           ExposeEnable, ExposeRestart
  <2>2. ~Create
    BY DEF Create, CreatePreflight, EnsureLocalKey, CreateDisk, Boot, Start,
           WaitForIp, ForgetHostKey, Unreserve, Reserve, WaitForSsh, NextNode
  <2>3. ~ClusterUp
    BY DEF ClusterUp, ClusterServer, ClusterStart, ClusterWait, ClusterJoin,
           ClusterEnter, NextAgent, ClusterReady, FetchKubeconfig,
           MergeKubeconfig
  <2>. QED BY <2>1, <2>2, <2>3 DEF Up
<1>. QED BY <1>1, <1>2, <1>3 DEF Next, Ask, Trouble, Beside

LEMMA DownHistory ==
  ASSUME Down
  PROVE  UNCHANGED <<calm, steady, libvirt>> /\ pc \in DownSteps
  BY DEF Down, ListForDown, LookForForwarding, LookForStale, Confirm, Destroy,
         DestroyPreflight, ReadMac, Undefine, ReleaseAddress, VerifyRemoval,
         CloseApi, ForgetLocal, Sweep, Uninstall, OnlyVm, OnlyResv, OnlyFwd,
         Looks, hostVars, Fail, End, Go, ghostVars, DownSteps

\* Once virsh has answered, the list of the VMs and of the entries is right
\* for the rest of the command: libvirt is up, or there is nothing of it.
LEMMA AnswersOrNothing ==
  ASSUME TypeOK, EntriesApart, libvirt # "down"
  PROVE  libvirt = "up" \/ (DefinedNodes = {} /\ resv = {})
  BY DEF TypeOK, EntriesApart

LEMMA LookRemoves ==
  ASSUME TypeOK, EntriesApart, Removing, calm, steady, pc' \in DownSteps,
         ListForDown \/ LookForForwarding \/ LookForStale \/ Confirm
  PROVE  Removing'
<1>. cli \in Command /\ UNCHANGED <<libvirt, hostInstalled, vm, resv, fwd>>
  BY DEF TypeOK, ListForDown, LookForForwarding, LookForStale, Confirm, Looks,
         hostVars
<1>. DefinedNodes' = DefinedNodes
  BY DEF DefinedNodes, Defined
<1>. USE DEF Go, Fail, End, DownSteps, DestroySteps
<1>1. CASE ListForDown
  <2>1. pc = "down.list" /\ pc' = "down.forwarding" /\ libvirt # "down"
    BY <1>1 DEF ListForDown
  <2>2. cli'.listed = DefinedNodes /\ cli'.host = cli.host /\ cli'.cur = cli.cur
    BY <1>1, <2>1 DEF ListForDown, Command
  <2>3. cli.cur = 0
    BY <2>1 DEF Removing
  <2>. QED BY <2>1, <2>2, <2>3 DEF Removing
<1>2. CASE LookForForwarding
  <2>1. pc = "down.forwarding" /\ pc' = "down.stale"
    BY <1>2 DEF LookForForwarding
  <2>2. /\ cli'.fwd = (fwd.script # None) /\ cli'.host = cli.host
        /\ cli'.cur = cli.cur /\ cli'.listed = cli.listed
    BY <1>2 DEF LookForForwarding, ForwardingInstalled, Command
  <2>. QED BY <2>1, <2>2 DEF Removing
<1>3. CASE LookForStale
  <2>1. /\ pc = "down.stale" /\ pc' = "down.confirm"
        /\ cli' = [cli EXCEPT !.stale = StaleReservations(cli.listed)]
    BY <1>3 DEF LookForStale
  <2>2. /\ cli'.fwd = cli.fwd /\ cli'.host = cli.host
        /\ cli'.cur = cli.cur /\ cli'.listed = cli.listed
        /\ cli'.stale = StaleReservations(cli.listed)
    BY <2>1 DEF Command
  <2>3. \A r \in resv : r \in cli'.stale \/ r.name \in cli.listed
    <3>1. libvirt = "up" \/ resv = {}
      BY <2>1, AnswersOrNothing DEF Removing
    <3>. QED BY <2>2, <3>1 DEF StaleReservations
  <2>. QED BY <2>1, <2>2, <2>3 DEF Removing
<1>4. CASE Confirm
  <2>1. /\ pc = "down.confirm"
        /\ \E c \in BOOLEAN : cli' = [cli EXCEPT !.consent = c]
        /\ pc' = IF cli.listed # {} \/ cli.fwd THEN "destroy.preflight"
                                               ELSE "down.sweep"
    BY <1>4 DEF Confirm
  <2>2. /\ cli'.fwd = cli.fwd /\ cli'.host = cli.host /\ cli'.stale = cli.stale
        /\ cli'.cur = cli.cur /\ cli'.listed = cli.listed
    BY <2>1 DEF Command
  <2>3. CASE pc' = "destroy.preflight"
    <3>1. cli.cur = 0 /\ \A n \in cli.listed : n > 0 /\ ~(n < 0) /\ n # 0
                                              /\ Defined(n)
      BY <2>1 DEF Removing, DefinedNodes, Nodes
    <3>2. \A n \in cli.listed : /\ n > cli'.cur => vm'[n].mac # None
                                /\ ~(n < cli'.cur) /\ cli'.cur # n
      BY <2>2, <3>1 DEF Defined
    <3>. QED BY <2>1, <2>2, <2>3, <3>2 DEF Removing, Defined
  <2>4. CASE pc' = "down.sweep"
    BY <2>1, <2>2, <2>4 DEF Removing
  <2>. QED BY <2>1, <2>3, <2>4
<1>. QED BY <1>1, <1>2, <1>3, <1>4

\* The loop: a listed VM is there until it is removed, and then its entry goes
\* too.
LEMMA PreflightRemoves ==
  ASSUME TypeOK, EntriesApart, Removing, calm, steady, DestroyPreflight
  PROVE  Removing'
<1>. /\ cli \in Command /\ UNCHANGED <<libvirt, hostInstalled, vm, resv, fwd>>
     /\ pc = "destroy.preflight"
  BY DEF TypeOK, DestroyPreflight, Looks, hostVars
<1>. DefinedNodes' = DefinedNodes /\ \A n : Gone(n)' <=> Gone(n)
  BY DEF DefinedNodes, Gone, Defined
<1>0. cli.cur \in Int /\ \A n \in cli.listed : n \in Int /\ n \in Nodes
  BY DEF Command, Nodes
<1>. USE DEF Go, DownSteps, DestroySteps
<1>1. CASE /\ \A n \in cli.listed : n <= cli.cur
           /\ Go("down.close", [cli EXCEPT !.cur = 0])
  <2>1. /\ cli'.host = cli.host /\ cli'.listed = cli.listed
        /\ cli'.stale = cli.stale /\ pc' = "down.close"
    BY <1>1 DEF Command
  <2>2. \A n \in cli.listed : Gone(n)
    <3>1. \A n \in cli.listed : n < cli.cur \/ n = cli.cur
      BY <1>0, <1>1
    <3>. QED BY <3>1 DEF Removing
  <2>3. DefinedNodes = {}
    BY <2>2 DEF Removing, Gone, DefinedNodes
  <2>4. resv \subseteq cli.stale
    BY <2>2 DEF Removing, Gone
  <2>. QED BY <2>1, <2>3, <2>4 DEF Removing
<1>2. ASSUME NEW n \in cli.listed, n > cli.cur,
             \A m \in cli.listed : m > cli.cur => n <= m,
             Go(IF VmState(n) = "" THEN "destroy.preflight" ELSE "destroy.mac",
                [cli EXCEPT !.cur = n])
      PROVE  Removing'
  <2>1. /\ cli'.host = cli.host /\ cli'.listed = cli.listed
        /\ cli'.stale = cli.stale /\ cli'.cur = n
    BY <1>2 DEF Command
  <2>2. Defined(n)
    BY <1>2 DEF Removing
  <2>3. libvirt = "up"
    <3>1. n \in DefinedNodes
      BY <1>0, <2>2 DEF DefinedNodes
    <3>. QED BY <3>1, AnswersOrNothing DEF Removing
  <2>4. pc' = "destroy.mac"
    BY <1>2, <2>2, <2>3 DEF VmState
  <2>5. \A m \in cli.listed : /\ m > n => Defined(m)
                              /\ m < n => Gone(m)
    <3>1. ASSUME NEW m \in cli.listed, m > n
          PROVE  Defined(m)
      <4>1. m > cli.cur
        <5>1. m \in Int /\ n \in Int /\ cli.cur \in Int
          BY <1>0
        <5>2. n > cli.cur
          BY <1>2
        <5>. QED BY <3>1, <5>1, <5>2
      <4>. QED BY <4>1 DEF Removing
    <3>2. ASSUME NEW m \in cli.listed, m < n
          PROVE  Gone(m)
      <4>1. m < cli.cur \/ m = cli.cur
        <5>1. m \in Int /\ n \in Int /\ cli.cur \in Int
          BY <1>0
        <5>2. m > cli.cur => n <= m
          BY <1>2
        <5>. QED BY <3>2, <5>1, <5>2
      <4>. QED BY <4>1 DEF Removing
    <3>. QED BY <3>1, <3>2
  <2>6. \A m \in cli'.listed : /\ m > cli'.cur => Defined(m)'
                               /\ m < cli'.cur => Gone(m)'
    BY <2>1, <2>5 DEF Defined
  <2>. QED BY <2>1, <2>4, <2>6 DEF Removing
<1>. QED BY <1>1, <1>2 DEF DestroyPreflight

LEMMA WalkRemoves ==
  ASSUME TypeOK, EntriesApart, Removing, calm, steady, pc' \in DownSteps,
         ReadMac \/ Undefine \/ ReleaseAddress \/ VerifyRemoval
  PROVE  Removing'
<1>. /\ cli \in Command /\ cli.cur \in Nodes /\ vm \in [Nodes -> VM]
     /\ UNCHANGED <<libvirt, hostInstalled, fwd>>
  <2>1. pc \in DestroySteps /\ cli \in Command
    BY DEF TypeOK, ReadMac, Undefine, ReleaseAddress, VerifyRemoval,
           DestroySteps
  <2>2. cli.cur \in Nodes
    BY <2>1 DEF TypeOK, CommandOK, DestroySteps
  <2>. QED BY <2>1, <2>2
           DEF TypeOK, ReadMac, Undefine, ReleaseAddress, VerifyRemoval,
               OnlyVm, OnlyResv, Looks, hostVars
<1>. USE DEF Go, Fail, End, DownSteps, DestroySteps
<1>. DEFINE kept == /\ cli'.host = cli.host /\ cli'.listed = cli.listed
                    /\ cli'.stale = cli.stale /\ cli'.cur = cli.cur
<1>1. CASE ReadMac \/ VerifyRemoval
  <2>1. /\ kept /\ UNCHANGED <<vm, resv>>
        /\ \/ pc = "destroy.mac" /\ pc' = "destroy.undefine"
           \/ pc = "destroy.verify" /\ pc' = "destroy.preflight"
    BY <1>1 DEF ReadMac, VerifyRemoval, Looks, hostVars, Command
  <2>2. DefinedNodes' = DefinedNodes
    BY <2>1 DEF DefinedNodes, Defined
  <2>. QED BY <2>1, <2>2 DEF Removing, Gone, Defined
<1>2. CASE Undefine
  <2>1. /\ kept /\ UNCHANGED resv /\ vm' = [vm EXCEPT ![cli.cur] = NoVm]
        /\ pc = "destroy.undefine" /\ pc' = "destroy.release"
    BY <1>2 DEF Undefine, OnlyVm
  <2>2. vm'[cli.cur].mac = None
    BY <2>1 DEF NoVm
  <2>3. \A n \in Nodes : n # cli.cur => vm'[n] = vm[n]
    BY <2>1
  <2>4. DefinedNodes' \subseteq DefinedNodes
    BY <2>2, <2>3 DEF DefinedNodes, Defined
  <2>5. \A n \in cli.listed : n \in Nodes /\ (n > cli.cur => n # cli.cur)
    BY DEF Command, Nodes
  <2>6. \A n \in cli.listed : /\ n > cli.cur => vm'[n].mac # None
                              /\ n < cli.cur => vm'[n].mac = None
                                                /\ \A r \in resv' : r.name # n
    <3>1. \A n \in cli.listed : /\ n > cli.cur => Defined(n)
                                /\ n < cli.cur => Gone(n)
      BY <2>1 DEF Removing
    <3>. QED BY <2>1, <2>2, <2>3, <2>5, <3>1 DEF Gone, Defined
  <2>. QED BY <2>1, <2>2, <2>4, <2>6 DEF Removing, Gone, Defined
<1>3. CASE ReleaseAddress
  <2>1. /\ kept /\ vm' = vm /\ resv' = AfterRelease(cli.mac, cli.cur)
        /\ pc = "destroy.release" /\ pc' = "destroy.verify"
    BY <1>3 DEF ReleaseAddress, OnlyResv, Command
  <2>2. resv' \subseteq resv /\ \A r \in resv' : r.name # cli.cur
    <3>1. libvirt = "up" \/ resv = {}
      BY <2>1, AnswersOrNothing DEF Removing
    <3>. QED BY <2>1, <3>1 DEF AfterRelease
  <2>3. DefinedNodes' = DefinedNodes
    BY <2>1 DEF DefinedNodes, Defined
  <2>. QED BY <2>1, <2>2, <2>3 DEF Removing, Gone, Defined
<1>. QED BY <1>1, <1>2, <1>3

\* The port, the local files, the stale entries.
LEMMA LeaveRemoves ==
  ASSUME TypeOK, EntriesApart, Removing, calm, steady, pc' \in DownSteps,
         CloseApi \/ ForgetLocal \/ Sweep
  PROVE  Removing'
<1>. cli \in Command /\ UNCHANGED <<libvirt, hostInstalled, vm>>
  BY DEF TypeOK, CloseApi, ForgetLocal, Sweep, OnlyFwd, OnlyResv, hostVars
<1>. DefinedNodes' = DefinedNodes
  BY DEF DefinedNodes, Defined
<1>. USE DEF Go, DownSteps, DestroySteps
<1>1. CASE CloseApi
  <2>1. /\ pc = "down.close" /\ pc' = "down.local" /\ cli' = cli
        /\ resv' = resv /\ fwd'.script = None
    BY <1>1 DEF CloseApi, OnlyFwd, NoForwarding
  <2>. QED BY <2>1 DEF Removing
<1>2. CASE ForgetLocal
  <2>1. /\ pc = "down.local" /\ pc' = "down.sweep" /\ cli' = cli
        /\ resv' = resv /\ fwd' = fwd
    BY <1>2 DEF ForgetLocal, hostVars
  <2>. QED BY <2>1 DEF Removing
<1>3. CASE Sweep
  <2>1. pc = "down.sweep" /\ fwd' = fwd
    BY <1>3 DEF Sweep, OnlyResv
  <2>2. libvirt # "down" /\ DefinedNodes = {} /\ resv \subseteq cli.stale
        /\ fwd.script = None /\ (hostInstalled => cli.host)
    BY <2>1 DEF Removing
  <2>3. CASE /\ cli.stale = {} /\ Go("down.uninstall", cli) /\ UNCHANGED resv
    BY <2>1, <2>2, <2>3 DEF Removing
  <2>4. CASE \E r \in cli.stale :
               /\ resv' = AfterRelease(r.mac, r.name)
               /\ Go("down.sweep", [cli EXCEPT !.stale = @ \ {r}])
    <3>1. PICK r \in cli.stale :
                 /\ resv' = AfterRelease(r.mac, r.name)
                 /\ Go("down.sweep", [cli EXCEPT !.stale = @ \ {r}])
      BY <2>4
    <3>2. /\ cli'.stale = cli.stale \ {r} /\ cli'.host = cli.host
          /\ pc' = "down.sweep"
      BY <3>1 DEF Command
    <3>3. resv' \subseteq cli.stale \ {r}
      <4>1. libvirt = "up" \/ resv = {}
        BY <2>2, AnswersOrNothing
      <4>. QED BY <2>2, <3>1, <4>1 DEF AfterRelease
    <3>. QED BY <2>1, <2>2, <3>2, <3>3 DEF Removing
  <2>. QED BY <1>3, <2>3, <2>4 DEF Sweep
<1>. QED BY <1>1, <1>2, <1>3

LEMMA SteadyBesides ==
  ASSUME Beside, steady', libvirt # "down"
  PROVE  steady /\ libvirt' # "down"
  BY DEF Beside, Machine, Lease, DhcpLease, FinishBoot, CloudInit,
         RegainLibvirt, LibvirtRestarts, Meddle, HandUndefine, LoseKey,
         HandInstall, Shake, PowerOff, Reboot, LoseLibvirt, ghostVars,
         hostVars, vars

LEMMA BesideRemoves ==
  ASSUME TypeOK, Removing, Beside
  PROVE  Removing'
<1>. MachinesTyped /\ CommandTyped
  BY TypeParts
<1>1. CASE ~(calm' /\ steady' /\ pc' \in DownSteps)
  BY <1>1 DEF Removing
<1>2. CASE calm' /\ steady' /\ pc' \in DownSteps
  <2>1. pc' = pc /\ pc \notin AtRest
    BY <1>2, BesideRuns DEF AtRest, DownSteps
  <2>2. /\ calm /\ UNCHANGED <<cli, hostInstalled, resv, fwd>>
        /\ \A n \in Nodes : vm'[n].mac = vm[n].mac
    BY <1>2, <2>1, BesideCalm DEF Stays, SameBuild
  <2>3. steady
    BY <1>2 DEF Beside, Machine, Lease, FinishBoot, RegainLibvirt, Meddle,
                Shake, LoseLibvirt, ghostVars, vars
  <2>4. libvirt # "down" => libvirt' # "down"
    BY <1>2, SteadyBesides
  <2>5. cli.listed \subseteq Nodes
    BY DEF TypeOK, Command
  <2>6. DefinedNodes' = DefinedNodes
    BY <2>2 DEF DefinedNodes, Defined
  <2>7. pc \in DestroySteps => cli.cur \in Nodes
    BY AtDestroy
  <2>. QED BY <1>2, <2>1, <2>2, <2>3, <2>4, <2>5, <2>6, <2>7
           DEF Removing, Gone, Defined, DestroySteps
<1>. QED BY <1>1, <1>2

LEMMA DownRemoves ==
  ASSUME TypeOK, EntriesApart, Removing, Down
  PROVE  Removing'
<1>0. calm' = calm /\ steady' = steady
  BY DownHistory
<1>1. CASE ~(calm' /\ steady' /\ pc' \in DownSteps)
  BY <1>1 DEF Removing
<1>2. CASE calm' /\ steady' /\ pc' \in DownSteps
  <2>1. ~Uninstall
    BY <1>2 DEF Uninstall, End, Go, DownSteps
  <2>. QED BY <1>0, <1>2, <2>1, LookRemoves, PreflightRemoves, WalkRemoves,
              LeaveRemoves DEF Down, Destroy
<1>. QED BY <1>1, <1>2

LEMMA RemovingKept ==
  ASSUME TypeOK, EntriesApart, Removing, [Next]_vars
  PROVE  Removing'
<1>1. CASE pc' \notin DownSteps
  BY <1>1 DEF Removing
<1>2. CASE AskDown
  <2>1. /\ pc' = "down.list" /\ hostInstalled' = hostInstalled
        /\ cli' = [NoCommand EXCEPT !.host = hostInstalled]
    BY <1>2 DEF AskDown, Begin, Looks, hostVars
  <2>2. cli'.host = hostInstalled /\ cli'.cur = 0 /\ cli'.listed = {}
    BY <2>1 DEF NoCommand
  <2>. QED BY <2>1, <2>2 DEF Removing, DestroySteps
<1>. QED BY <1>1, <1>2, DownComes, DownRemoves, BesideRemoves

\* The two ways a down ends well.
LEMMA EndsClean ==
  ASSUME TypeOK, EntriesApart, Forwarding, Removing, calm, steady, Down,
         pc' \in {"removed", "nothing"}
  PROVE  /\ DefinedNodes' = {} /\ resv' = {} /\ ~hostInstalled'
         /\ fwd.script = None /\ fwd' = fwd
<1>1. LookForStale \/ Uninstall
  BY DEF Down, ListForDown, LookForForwarding, LookForStale, Confirm, Destroy,
         DestroyPreflight, ReadMac, Undefine, ReleaseAddress, VerifyRemoval,
         CloseApi, ForgetLocal, Sweep, Uninstall, Fail, End, Go
<1>. UNCHANGED <<vm, resv, fwd>>
  BY <1>1 DEF LookForStale, Uninstall, Looks, hostVars
<1>. DefinedNodes' = DefinedNodes
  BY DEF DefinedNodes, Defined
<1>2. CASE LookForStale
  <2>1. /\ pc = "down.stale" /\ hostInstalled' = hostInstalled
        /\ ~cli.host /\ cli.listed = {} /\ ~cli.fwd
        /\ StaleReservations(cli.listed) = {}
    BY <1>2 DEF LookForStale, Go, End, Looks, hostVars
  <2>2. /\ hostInstalled => cli.host /\ libvirt # "down"
        /\ DefinedNodes \subseteq cli.listed
        /\ fwd.script = None \/ cli.fwd
    BY <2>1 DEF Removing, DownSteps
  <2>3. resv = {}
    <3>1. libvirt # "down"
      BY <2>1 DEF Removing, DownSteps
    <3>2. libvirt = "up" \/ resv = {}
      BY <3>1, AnswersOrNothing
    <3>. QED BY <2>1, <3>2 DEF StaleReservations
  <2>. QED BY <2>1, <2>2, <2>3
<1>3. CASE Uninstall
  <2>1. /\ pc = "down.uninstall"
        /\ hostInstalled' = (hostInstalled /\ ~cli.host)
    BY <1>3 DEF Uninstall
  <2>. QED BY <2>1 DEF Removing, DownSteps
<1>. QED BY <1>1, <1>2, <1>3

\* When down has said Removed or Nothing is installed, nothing of SSHerpa is
\* left on the host, whatever was there: clusters an up had not finished,
\* entries and rules of VMs that were removed by hand, leftovers of a down
\* that was cut off.  (Unless somebody meddled meanwhile or virsh stopped
\* answering: then it is the finding of the run VmSilentVirsh.)
THEOREM DownLeavesNothing == Spec => []RemovedMeansGone
<1>. DEFINE Inv == /\ EntriesApart /\ ServerNoted /\ Forwarding /\ Removing
                   /\ RemovedMeansGone
<1>1. Init => Inv
  <2>1. Init => /\ ServerNoted /\ Forwarding
                /\ Removing /\ RemovedMeansGone
    BY DEF Init, HostInit, NoForwarding, ServerNoted, Forwarding, Removing,
           RemovedMeansGone, ExposeSteps, ClusterSteps, CreateSteps, DownSteps
  <2>. QED BY <2>1, EntriesAtFirst
<1>2. TypeOK /\ Inv /\ [Next]_vars => Inv'
  <2>. SUFFICES ASSUME TypeOK, Inv, [Next]_vars
                PROVE  RemovedMeansGone'
    BY EntriesKept, ServerNotedKept, ForwardingKept, RemovingKept
  <2>. MachinesTyped /\ CommandTyped
    BY TypeParts
  <2>. MachinesTyped' /\ Forwarding'
    BY NextTyped, ForwardingKept DEF TypeOK, MachinesTyped
  <2>1. CASE ~(pc' \in {"removed", "nothing"} /\ calm' /\ steady')
    BY <2>1 DEF RemovedMeansGone
  <2>2. CASE pc' \in {"removed", "nothing"} /\ calm' /\ steady'
    <3>1. ~AskDown
      BY <2>2 DEF AskDown, Begin
    <3>2. /\ DefinedNodes' = {} /\ resv' = {} /\ ~hostInstalled'
          /\ fwd'.script = None
      <4>1. CASE Down
        <5>1. calm /\ steady
          BY <2>2, <4>1, DownHistory
        <5>. QED BY <2>2, <4>1, <5>1, EndsClean
      <4>2. CASE Beside
        <5>1. pc' = pc /\ pc \in AtRest
          BY <2>2, <4>2, BesideRuns DEF AtRest
        <5>2. /\ calm /\ UNCHANGED <<resv, hostInstalled>>
              /\ fwd'.script = fwd.script /\ \A n \in Nodes : SameBuild(n)
          BY <2>2, <4>2, <5>1, RestCalm
        <5>3. DefinedNodes' = DefinedNodes
          BY <5>2, RestKeepsNodes
        <5>4. steady
          BY <2>2, <4>2
          DEF Beside, Machine, Lease, FinishBoot, RegainLibvirt, Meddle, Shake,
              LoseLibvirt, ghostVars, vars
        <5>5. HostClean
          BY <2>2, <5>1, <5>2, <5>4 DEF RemovedMeansGone
        <5>. QED BY <5>2, <5>3, <5>5 DEF HostClean, NoForwarding
      <4>. QED BY <2>2, <3>1, <4>1, <4>2, DownComes
    <3>3. fwd' = NoForwarding
      <4>1. /\ fwd' \in [script : Opt(Addrs), enabled : BOOLEAN,
                         rule : Opt(Addrs)]
            /\ fwd'.enabled = FALSE /\ fwd'.rule = None
        BY <3>2 DEF MachinesTyped, Forwarding
      <4>2. fwd' = [script |-> fwd'.script, enabled |-> fwd'.enabled,
                    rule |-> fwd'.rule]
        BY <4>1
      <4>. QED BY <3>2, <4>1, <4>2 DEF NoForwarding
    <3>. QED BY <3>2, <3>3 DEF RemovedMeansGone, HostClean
  <2>. QED BY <2>1, <2>2
<1>. QED BY <1>1, <1>2, TypeCorrect, PTL DEF Spec

-----------------------------------------------------------------------------
(* The promise of up and down                                              *)

\* The domain, the disk and the cluster of node n are the ones they were.
SameMember(n) ==
  /\ vm'[n].mac = vm[n].mac /\ vm'[n].disk = vm[n].disk
  /\ vm'[n].cluster = vm[n].cluster

LEMMA SameMembers ==
  ASSUME \A n \in Nodes : SameMember(n)
  PROVE  UNCHANGED <<DefinedNodes, Members>>
<1>1. DefinedNodes' = DefinedNodes
  BY DEF SameMember, DefinedNodes, Defined
<1>2. 1 \in Nodes
  BY MaxNodesAssumption DEF Nodes
<1>3. \A n \in Nodes : n \in Members' <=> n \in Members
  BY <1>1, <1>2 DEF SameMember, Members, Defined, DefinedNodes
<1>. QED BY <1>1, <1>3 DEF Members, DefinedNodes

LEMMA SameVmsSameMembers ==
  ASSUME vm' = vm
  PROVE  UNCHANGED <<DefinedNodes, Members>>
  BY SameMembers DEF SameMember

\* Who leaves every VM its build and its cluster only adds.
LEMMA BuildsLeftAdd ==
  ASSUME \A n \in DefinedNodes :
           /\ SameBuild(n)
           /\ vm[n].cluster # None => vm'[n].cluster = vm[n].cluster
  PROVE  Life!Adds
<1>1. DefinedNodes \subseteq DefinedNodes'
  BY DEF SameBuild, DefinedNodes, Defined
<1>2. ASSUME NEW n \in Members
      PROVE  n \in Members'
  <2>1. n \in DefinedNodes /\ 1 \in DefinedNodes
    BY <1>2, MaxNodesAssumption DEF Members, DefinedNodes, Nodes
  <2>2. n \in DefinedNodes' /\ 1 \in DefinedNodes'
    BY <1>1, <2>1
  <2>3. /\ vm'[1].disk = vm[1].disk /\ vm'[n].cluster = vm[n].cluster
        /\ vm[n].cluster # None /\ vm[n].cluster = vm[1].disk
    BY <1>2, <2>1 DEF Members, SameBuild
  <2>. QED BY <2>2, <2>3 DEF Members, DefinedNodes, Defined
<1>3. Members' \subseteq DefinedNodes'
  BY DEF Members
<1>. QED BY <1>1, <1>2, <1>3 DEF Life!Adds

\* Who leaves a VM as it is or removes it only takes away.
LEMMA RemovalTakesAway ==
  ASSUME \A n \in Nodes : vm'[n].mac # None => SameMember(n)
  PROVE  Life!TakesAway
<1>1. DefinedNodes' \subseteq DefinedNodes
  BY DEF SameMember, DefinedNodes, Defined
<1>2. ASSUME NEW n \in Members'
      PROVE  n \in Members
  <2>1. /\ n \in Nodes /\ vm'[n].mac # None
        /\ 1 \in Nodes /\ vm'[1].mac # None
        /\ vm'[n].cluster # None /\ vm'[n].cluster = vm'[1].disk
    BY <1>2, MaxNodesAssumption DEF Members, DefinedNodes, Defined, Nodes
  <2>2. SameMember(n) /\ SameMember(1)
    BY <2>1
  <2>. QED BY <2>1, <2>2 DEF SameMember, Members, DefinedNodes, Defined
<1>3. Members' \subseteq DefinedNodes'
  BY DEF Members
<1>. QED BY <1>1, <1>2, <1>3 DEF Life!TakesAway

\* Where a step of a command leads to.
LEMMA UpEnds ==
  ASSUME Up
  PROVE  /\ pc \in UpSteps /\ UNCHANGED <<calm, steady>>
         /\ pc' \in UpSteps \cup {"idle", "ready"}
         /\ pc' = "ready" => MergeKubeconfig
<1>. USE DEF Go, Fail, End, ghostVars, UpSteps, CreateSteps
<1>1. CASE ListForUp \/ Setup \/ Inspect
  BY <1>1 DEF ListForUp, Setup, Inspect, NextNode
<1>2. CASE CreatePreflight \/ EnsureLocalKey \/ CreateDisk \/ Boot \/ Start
  BY <1>2 DEF CreatePreflight, EnsureLocalKey, CreateDisk, Boot, Start
<1>3. CASE WaitForIp \/ ForgetHostKey \/ Unreserve \/ Reserve \/ WaitForSsh
  BY <1>3 DEF WaitForIp, ForgetHostKey, Unreserve, Reserve, WaitForSsh,
              NextNode
<1>4. CASE Expose
  BY <1>4 DEF Expose, ExposeWrite, ExposeEnable, ExposeRestart
<1>5. CASE ClusterServer \/ ClusterStart \/ ClusterWait
  BY <1>5 DEF ClusterServer, ClusterStart, ClusterWait
<1>6. CASE ClusterJoin \/ ClusterEnter
  BY <1>6 DEF ClusterJoin, ClusterEnter, NextAgent
<1>7. CASE ClusterReady \/ FetchKubeconfig \/ MergeKubeconfig
  BY <1>7 DEF ClusterReady, FetchKubeconfig, MergeKubeconfig
<1>. QED BY <1>1, <1>2, <1>3, <1>4, <1>5, <1>6, <1>7
         DEF Up, Create, ClusterUp

LEMMA DownEnds ==
  ASSUME Down
  PROVE  /\ pc' \in DownSteps \cup {"idle", "removed", "nothing"}
         /\ pc' \in {"removed", "nothing"} => vm' = vm
         /\ vm' = vm \/ vm' = [vm EXCEPT ![cli.cur] = NoVm]
<1>. USE DEF Go, Fail, End, DownSteps, OnlyVm, OnlyResv, OnlyFwd, Looks,
             hostVars
<1>1. CASE ListForDown \/ LookForForwarding \/ LookForStale \/ Confirm
  BY <1>1 DEF ListForDown, LookForForwarding, LookForStale, Confirm
<1>2. CASE Destroy
  BY <1>2 DEF Destroy, DestroyPreflight, ReadMac, Undefine, ReleaseAddress,
              VerifyRemoval
<1>3. CASE CloseApi \/ ForgetLocal \/ Sweep \/ Uninstall
  BY <1>3 DEF CloseApi, ForgetLocal, Sweep, Uninstall
<1>. QED BY <1>1, <1>2, <1>3 DEF Down

\* No step is in two phases, nor has a running command said anything yet.
LEMMA Phases ==
  /\ pc \in UpSteps => Phase = "up" /\ Said = ""
  /\ pc \in DownSteps => Phase = "down" /\ Said = ""
  /\ pc = "idle" => Phase = "rest" /\ Said = ""
  /\ pc = "ready" => Phase = "rest" /\ Said = "ready"
  /\ pc \in {"removed", "nothing"} => Phase = "rest" /\ Said = "removed"
  BY DEF Phase, Said, UpSteps, CreateSteps, DownSteps

LEMMA PhasesNext ==
  /\ pc' \in UpSteps => Phase' = "up" /\ Said' = ""
  /\ pc' \in DownSteps => Phase' = "down" /\ Said' = ""
  /\ pc' = "idle" => Phase' = "rest" /\ Said' = ""
  /\ pc' = "ready" => Phase' = "rest" /\ Said' = "ready"
  /\ pc' \in {"removed", "nothing"} => Phase' = "rest" /\ Said' = "removed"
  BY DEF Phase, Said, UpSteps, CreateSteps, DownSteps

\* A command that is typed in begins.
LEMMA AskBegins ==
  ASSUME Ask
  PROVE  Life!Begin
<1>1. /\ pc \in AtRest /\ pc' \in {"up.list", "down.list"}
      /\ calm' /\ steady' /\ vm' = vm
  BY DEF Ask, AskUp, AskDown, Begin, Looks, hostVars
<1>2. Phase = "rest"
  BY <1>1, Phases DEF AtRest
<1>3. Phase' \in {"up", "down"} /\ Said' = ""
  BY <1>1, PhasesNext DEF UpSteps, DownSteps
<1>4. UNCHANGED <<DefinedNodes, Members>>
  BY <1>1, SameVmsSameMembers
<1>. QED BY <1>1, <1>2, <1>3, <1>4 DEF Life!Begin

\* A step of up adds, and the last one finds every VM in one cluster.
LEMMA UpWorks ==
  ASSUME MachinesTyped, CommandTyped, HistoryTyped, NewNode, UpInv, Joined, Up
  PROVE  Life!Work \/ Life!SayReady
<1>1. /\ pc \in UpSteps /\ UNCHANGED <<calm, steady>>
      /\ pc' \in UpSteps \cup {"idle", "ready"}
      /\ pc' = "ready" => MergeKubeconfig
  BY UpEnds
<1>2. Phase = "up"
  BY <1>1, Phases
<1>3. CASE pc' # "ready"
  <2>1. Phase' \in {"up", "rest"} /\ Said' = ""
    BY <1>1, <1>3, PhasesNext
  <2>2. steady => Life!Adds
    BY UpLeavesBuilds, BuildsLeftAdd
  <2>. QED BY <1>1, <1>2, <2>1, <2>2 DEF Life!Work
<1>4. CASE pc' = "ready"
  <2>1. MergeKubeconfig /\ vm' = vm
    BY <1>1, <1>4 DEF MergeKubeconfig, hostVars
  <2>2. Phase' = "rest" /\ Said' = "ready"
    BY <1>4, PhasesNext
  <2>3. UNCHANGED <<DefinedNodes, Members>>
    BY <2>1, SameVmsSameMembers
  <2>4. calm => DefinedNodes # {} /\ Members = DefinedNodes
    <3>. SUFFICES ASSUME calm
                  PROVE  DefinedNodes # {} /\ Members = DefinedNodes
      OBVIOUS
    <3>1. /\ 1 \in Nodes /\ Entered(1)
          /\ \A n \in DefinedNodes : n \in Nodes /\ n <= cli.want
      BY <2>1, MergeFindsHomes
    <3>2. Defined(1) /\ 1 \in DefinedNodes
      BY <3>1 DEF Entered, Settled, Noted, UpInv, VmsApart, DefinedNodes
    <3>3. /\ vm[1].cluster # None /\ vm[1].cluster = vm[1].disk
          /\ \A n \in Nodes : n <= cli.want => vm[n].cluster = vm[1].disk
      BY <2>1 DEF MergeKubeconfig, Joined
    <3>. QED BY <3>1, <3>2, <3>3 DEF Members
  <2>. QED BY <1>1, <1>2, <2>2, <2>3, <2>4 DEF Life!SayReady
<1>. QED BY <1>3, <1>4

\* A step of down takes away, and the last one finds nothing left.
LEMMA DownWorks ==
  ASSUME TypeOK, EntriesApart, Forwarding, Removing, Down
  PROVE  Life!Work \/ Life!SayRemoved
<1>1. UNCHANGED <<calm, steady>> /\ pc \in DownSteps
  BY DownHistory
<1>2. /\ pc' \in DownSteps \cup {"idle", "removed", "nothing"}
      /\ pc' \in {"removed", "nothing"} => vm' = vm
      /\ vm' = vm \/ vm' = [vm EXCEPT ![cli.cur] = NoVm]
  BY DownEnds
<1>3. Phase = "down"
  BY <1>1, Phases
<1>4. CASE pc' \notin {"removed", "nothing"}
  <2>1. Phase' \in {"down", "rest"} /\ Said' = ""
    BY <1>2, <1>4, PhasesNext
  <2>2. \A n \in Nodes : vm'[n].mac # None => SameMember(n)
    BY <1>2 DEF SameMember, NoVm, TypeOK
  <2>3. Life!TakesAway
    BY <2>2, RemovalTakesAway
  <2>. QED BY <1>1, <1>3, <2>1, <2>3 DEF Life!Work
<1>5. CASE pc' \in {"removed", "nothing"}
  <2>1. Phase' = "rest" /\ Said' = "removed"
    BY <1>5, PhasesNext
  <2>2. UNCHANGED <<DefinedNodes, Members>>
    BY <1>2, <1>5, SameVmsSameMembers
  <2>3. calm /\ steady => DefinedNodes = {}
    BY <1>5, <2>2, EndsClean
  <2>. QED BY <1>1, <1>3, <2>1, <2>2, <2>3 DEF Life!SayRemoved
<1>. QED BY <1>4, <1>5

\* A command that is cut off has worked and says nothing.
LEMMA CutOffWorks ==
  ASSUME MachinesTyped, CommandTyped, Abort \/ RestartFails \/ UndefineFails
  PROVE  Life!Work
<1>1. pc \in UpSteps \cup DownSteps /\ pc' = "idle" /\ UNCHANGED <<calm, steady>>
  BY DEF Abort, RestartFails, UndefineFails, CommandTyped, UpSteps, DownSteps
<1>2. Phase' = "rest" /\ Said' = ""
  BY <1>1, PhasesNext
<1>3. CASE vm' = vm
  <2>1. Life!Adds /\ Life!TakesAway
    BY <1>3, SameVmsSameMembers
    DEF Life!Adds, Life!TakesAway, Members
  <2>2. Phase \in {"up", "down"}
    BY <1>1, Phases
  <2>. QED BY <1>1, <1>2, <2>1, <2>2 DEF Life!Work
<1>4. CASE UndefineFails
  <2>1. Phase = "down"
    BY <1>4, Phases DEF UndefineFails, DownSteps
  <2>2. \A n \in Nodes : SameMember(n)
    BY <1>4 DEF UndefineFails, PowerOff, SameMember, MachinesTyped, VM
  <2>3. Life!TakesAway
    BY <2>2, RemovalTakesAway
  <2>. QED BY <1>1, <1>2, <2>1, <2>3 DEF Life!Work
<1>. QED BY <1>3, <1>4 DEF Abort, RestartFails, OnlyFwd, Looks, hostVars

\* What happens besides leaves the promise alone or is a disturbance.
LEMMA BesideDisturbs ==
  ASSUME MachinesTyped, CommandTyped, HistoryTyped, Beside
  PROVE  Life!Disturb \/ UNCHANGED Life!vars
<1>1. pc' = pc
  BY BesideRuns
<1>2. UNCHANGED <<Phase, Said>>
  BY <1>1 DEF Phase, Said
<1>3. calm' \in BOOLEAN /\ steady' \in BOOLEAN
  BY DEF HistoryTyped, Beside, Machine, Lease, FinishBoot, RegainLibvirt,
         Meddle, Shake, LoseLibvirt, ghostVars, vars
<1>4. CASE ~(calm' /\ steady')
  BY <1>2, <1>3, <1>4 DEF Life!Disturb
<1>5. CASE calm' /\ steady'
  <2>1. steady
    BY <1>5 DEF Beside, Machine, Lease, FinishBoot, RegainLibvirt, Meddle,
                Shake, LoseLibvirt, ghostVars, vars
  <2>2. /\ calm
        /\ \A n \in Nodes : SameBuild(n) /\ vm'[n].cluster = vm[n].cluster
    BY <1>5, BesideCalm, RestCalm DEF Stays
  <2>3. UNCHANGED <<DefinedNodes, Members>>
    BY <2>2, SameMembers DEF SameBuild, SameMember
  <2>. QED BY <1>2, <1>5, <2>1, <2>2, <2>3 DEF Life!vars
<1>. QED BY <1>4, <1>5

\* `up --vm' and down, step by step and through every interruption, do what
\* Lifecycle promises: up only adds VMs and says Ready of a host on which
\* every VM is in the server's cluster; down only takes away and says Removed
\* of a host without VMs; and neither says anything unless it comes to its
\* end.  Whoever relies on SSHerpa needs to know no more of vm.create,
\* cluster.up and vm.destroy than that.
THEOREM VmKeepsLifecycle == Spec => LifecycleKept
<1>. DEFINE Inv == /\ ReserveReady /\ NewNode /\ Joined
                   /\ EntriesApart /\ ServerNoted /\ Forwarding /\ Removing
<1>1. Init => Inv /\ Life!Init
  <2>1. Init => /\ ReserveReady /\ NewNode /\ Joined
                /\ ServerNoted /\ Forwarding /\ Removing
    BY DEF Init, HostInit, NoForwarding, ReserveReady, NewNode, Joined,
           ServerNoted, Forwarding, Removing, BuildSteps, HostReadySteps,
           UpSteps, ExposeSteps, ClusterSteps, CreateSteps, DownSteps
  <2>2. Init => Life!Init
    <3>. SUFFICES ASSUME Init PROVE Life!Init
      OBVIOUS
    <3>1. DefinedNodes = {}
      BY DEF Init, HostInit, NoVm, DefinedNodes, Defined
    <3>2. Members = {}
      BY <3>1 DEF Members
    <3>3. Phase = "rest" /\ Said = ""
      BY Phases DEF Init
    <3>. QED BY <3>1, <3>2, <3>3 DEF Init, Life!Init
  <2>. QED BY <2>1, <2>2, EntriesAtFirst
<1>2. TypeOK /\ UpInv /\ Inv /\ [Next]_vars => Inv'
  BY ReserveReadyKept, NewNodeKept, JoinedKept, EntriesKept, ServerNotedKept,
     ForwardingKept, RemovingKept
<1>3. TypeOK /\ UpInv /\ Inv /\ [Next]_vars => [Life!Next]_(Life!vars)
  <2>. SUFFICES ASSUME TypeOK, UpInv, Inv, [Next]_vars
                PROVE  Life!Next \/ UNCHANGED Life!vars
    OBVIOUS
  <2>. MachinesTyped /\ CommandTyped /\ HistoryTyped
    BY TypeParts
  <2>1. CASE Ask
    BY <2>1, AskBegins DEF Life!Next
  <2>2. CASE Up
    BY <2>2, UpWorks DEF Life!Next
  <2>3. CASE Down
    BY <2>3, DownWorks DEF Life!Next
  <2>4. CASE Abort \/ RestartFails \/ UndefineFails
    BY <2>4, CutOffWorks DEF Life!Next
  <2>5. CASE Beside
    BY <2>5, BesideDisturbs DEF Life!Next
  <2>. QED BY <2>1, <2>2, <2>3, <2>4, <2>5 DEF Next, Trouble, Beside
<1>. QED BY <1>1, <1>2, <1>3, UpInvAlways, PTL
         DEF Spec, LifecycleKept, Life!Spec

\* That after Removed there is no VM is true of the code but for one thing:
\* where libvirtd does not fail in the middle of a command, it holds.  What
\* the run VmSilentVirsh shows has no other cause.
THEOREM OnlySilenceHidesVms ==
  ASSUME "libvirtd" \notin Hazards
  PROVE  Spec => []RemovedMeansNoVm
<1>1. Init => steady
  BY DEF Init
<1>2. steady /\ [Next]_vars => steady'
  <2>. SUFFICES ASSUME steady, [Next]_vars
                PROVE  steady'
    OBVIOUS
  <2>1. CASE Up \/ Down
    BY <2>1, UpEnds, DownHistory
  <2>2. CASE Ask
    BY <2>2 DEF Ask, AskUp, AskDown, Begin
  <2>3. ~LoseLibvirt
    BY DEF LoseLibvirt, Strikes
  <2>4. CASE \/ Machine \/ Abort \/ RestartFails \/ UndefineFails
             \/ Meddle \/ Shake \/ UNCHANGED vars
    BY <2>4 DEF Machine, Lease, FinishBoot, RegainLibvirt, Abort,
                RestartFails, UndefineFails, Meddle, Shake, ghostVars, vars
  <2>. QED BY <2>1, <2>2, <2>3, <2>4 DEF Next, Trouble
<1>3. RemovedMeansGone /\ steady => RemovedMeansNoVm
  BY DEF RemovedMeansGone, RemovedMeansNoVm, HostClean
<1>. QED BY <1>1, <1>2, <1>3, DownLeavesNothing, PTL DEF Spec

-----------------------------------------------------------------------------
(* The order of the steps                                                  *)

\* The steps of create come one after the other.
LEMMA CreateGoesForward ==
  ASSUME TypeOK, Create \/ Inspect, pc' \notin AtRest
  PROVE  Forward
<1>. MachinesTyped /\ CommandTyped /\ HistoryTyped
  BY TypeParts
<1>. USE DEF Go, Fail, End
<1>1. Phase' = Phase
  BY UpEnds, Phases, PhasesNext DEF Up, AtRest
<1>2. cli.cur \in Nat
  BY MaxNodesAssumption DEF TypeOK, Command
<1>3. CASE pc \in CreateSteps \ {"create.ssh"} /\ pc' \in CreateSteps
  <2>1. Stage(pc') = Stage(pc) /\ cli'.cur = cli.cur
    BY <1>3, CreateFlow DEF CreateSteps, Stage
  <2>2. Line(pc') > Line(pc)
    <3>1. \/ /\ pc = "create.preflight"
             /\ pc' \in {"create.key", "create.start", "create.ip"}
          \/ pc = "create.key" /\ pc' = "create.disk"
          \/ pc = "create.disk" /\ pc' = "create.boot"
          \/ pc \in {"create.boot", "create.start"} /\ pc' = "create.ip"
          \/ /\ pc = "create.ip"
             /\ pc' \in {"create.forget", "create.unreserve"}
          \/ pc = "create.forget" /\ pc' = "create.unreserve"
          \/ pc = "create.unreserve" /\ pc' = "create.reserve"
          \/ pc = "create.reserve" /\ pc' = "create.ssh"
      <4>1. CASE CreatePreflight \/ EnsureLocalKey \/ CreateDisk
        BY <4>1 DEF CreatePreflight, EnsureLocalKey, CreateDisk, AtRest
      <4>2. CASE Boot \/ Start \/ WaitForIp
        BY <4>2 DEF Boot, Start, WaitForIp, AtRest
      <4>3. CASE ForgetHostKey \/ Unreserve \/ Reserve
        BY <4>3 DEF ForgetHostKey, Unreserve, Reserve, AtRest
      <4>. QED BY <1>3, <4>1, <4>2, <4>3
               DEF Create, WaitForSsh, Inspect, CreateSteps
    <3>. QED BY <3>1 DEF Line
  <2>. QED BY <1>1, <2>1, <2>2 DEF Forward
<1>4. CASE pc \in {"create.ssh", "up.inspect"}
  <2>. \/ pc = "create.ssh" /\ pc' = "up.inspect" /\ cli' = cli
       \/ pc' = "create.preflight" /\ cli'.cur = cli.cur + 1
       \/ pc' = "expose.write"
    BY <1>4, CreateFlow DEF CreateSteps
  <2>1. CASE pc = "create.ssh" /\ pc' = "up.inspect" /\ cli' = cli
    BY <1>1, <2>1 DEF Forward, Stage, Line, CreateSteps
  <2>2. CASE pc' = "create.preflight" /\ cli'.cur = cli.cur + 1
    BY <1>1, <1>2, <1>4, <2>2 DEF Forward, Stage, CreateSteps
  <2>3. CASE pc' = "expose.write"
    BY <1>1, <1>4, <2>3 DEF Forward, Stage, CreateSteps
  <2>. QED BY <2>1, <2>2, <2>3
<1>. QED BY <1>3, <1>4, CreateFlow

\* So do those of expose_api and cluster.up, agent by agent.
LEMMA ClusterGoesForward ==
  ASSUME TypeOK, Expose \/ ClusterUp, pc' \notin AtRest
  PROVE  Forward
<1>. USE DEF Go, Fail, End
<1>. cli \in Command
  BY DEF TypeOK
<1>1. Phase' = Phase
  BY UpEnds, Phases, PhasesNext DEF Up, AtRest
<1>2. CASE Expose
  BY <1>1, <1>2 DEF Expose, ExposeWrite, ExposeEnable, ExposeRestart, Forward,
                    Stage, CreateSteps, AtRest
<1>3. CASE ClusterServer \/ ClusterStart \/ ClusterWait
  BY <1>1, <1>3 DEF ClusterServer, ClusterStart, ClusterWait, Forward, Stage,
                    CreateSteps, AtRest
<1>4. CASE ClusterJoin \/ ClusterEnter
  <2>1. /\ pc \in {"cluster.join", "cluster.enter"}
        /\ \/ NextAgent
           \/ pc = "cluster.join" /\ pc' = "cluster.enter" /\ cli' = cli
    BY <1>4 DEF ClusterJoin, ClusterEnter, AtRest
  <2>2. cli.cur \in Nat
    BY DEF Command
  <2>3. CASE pc' = "cluster.join" /\ cli'.cur = cli.cur + 1
    BY <1>1, <2>1, <2>2, <2>3 DEF Forward, Stage, CreateSteps
  <2>4. CASE pc' = "cluster.ready"
    BY <1>1, <2>1, <2>4 DEF Forward, Stage, CreateSteps
  <2>5. CASE pc = "cluster.join" /\ pc' = "cluster.enter" /\ cli' = cli
    BY <1>1, <2>5 DEF Forward, Stage, Line, CreateSteps
  <2>. QED BY <2>1, <2>3, <2>4, <2>5 DEF NextAgent, Command
<1>5. CASE ClusterReady \/ FetchKubeconfig \/ MergeKubeconfig
  BY <1>1, <1>5 DEF ClusterReady, FetchKubeconfig, MergeKubeconfig, Forward,
                    Stage, CreateSteps, AtRest
<1>. QED BY <1>2, <1>3, <1>4, <1>5 DEF ClusterUp

\* The walk of down over the VMs it listed, and its sweep over the entries
\* it found, get shorter.
LEMMA DownGoesForward ==
  ASSUME TypeOK, Down, pc' \notin AtRest
  PROVE  Forward
<1>. USE DEF Go, Fail, End
<1>. cli \in Command
  BY DEF TypeOK
<1>1. Phase' = Phase
  BY DownHistory, DownEnds, Phases, PhasesNext DEF AtRest
<1>2. CASE ListForDown \/ LookForForwarding \/ LookForStale \/ Confirm
  BY <1>1, <1>2 DEF ListForDown, LookForForwarding, LookForStale, Confirm,
                    Forward, Stage, CreateSteps, AtRest
<1>3. CASE DestroyPreflight
  <2>1. CASE pc' = "down.close"
    BY <1>1, <1>3, <2>1 DEF DestroyPreflight, Forward, Stage, CreateSteps
  <2>2. CASE pc' # "down.close"
    <3>1. PICK n \in cli.listed : n > cli.cur /\ cli' = [cli EXCEPT !.cur = n]
      BY <1>3, <2>2 DEF DestroyPreflight
    <3>2. cli'.cur > cli.cur
      BY <3>1 DEF Command
    <3>3. /\ pc = "destroy.preflight"
          /\ pc' \in {"destroy.preflight", "destroy.mac"}
      BY <1>3, <2>2 DEF DestroyPreflight
    <3>. QED BY <1>1, <3>2, <3>3 DEF Forward, Stage, CreateSteps
  <2>. QED BY <2>1, <2>2
<1>4. CASE ReadMac \/ Undefine \/ ReleaseAddress \/ VerifyRemoval
  <2>1. /\ pc' # pc /\ cli'.cur = cli.cur
        /\ \/ pc = "destroy.mac" /\ pc' = "destroy.undefine"
           \/ pc = "destroy.undefine" /\ pc' = "destroy.release"
           \/ pc = "destroy.release" /\ pc' = "destroy.verify"
           \/ pc = "destroy.verify" /\ pc' = "destroy.preflight"
    BY <1>4 DEF ReadMac, Undefine, ReleaseAddress, VerifyRemoval, AtRest,
                Command
  <2>. QED BY <1>1, <2>1 DEF Forward, Stage, Line, CreateSteps
<1>5. CASE CloseApi \/ ForgetLocal \/ Uninstall
  BY <1>1, <1>5 DEF CloseApi, ForgetLocal, Uninstall, Forward, Stage,
                    CreateSteps, AtRest
<1>6. CASE Sweep
  BY <1>1, <1>6 DEF Sweep, Forward, Stage, CreateSteps, Command
<1>. QED BY <1>2, <1>3, <1>4, <1>5, <1>6 DEF Down, Destroy

\* Every step of up and down ends the command or goes on to a later stage, a
\* later node, a later line for that node or, in the sweep, to fewer entries:
\* whatever happens on the host meanwhile, a command has only so many steps
\* to take.  What is left to liveness is that each of them is taken.
THEOREM CommandsGoForward == Spec => StepsForward
<1>1. TypeOK /\ [Next]_vars => [Up \/ Down => Forward]_vars
  <2>. SUFFICES ASSUME TypeOK, Up \/ Down, pc' \notin AtRest
                PROVE  Forward
    BY DEF Forward
  <2>1. CASE ListForUp \/ Setup
    <3>1. Phase' = Phase
      BY <2>1, UpEnds, Phases, PhasesNext DEF Up, AtRest
    <3>2. \/ pc = "up.list" /\ pc' = "up.setup"
          \/ pc = "up.setup" /\ pc' = "create.preflight"
      BY <2>1 DEF ListForUp, Setup, Go, Fail, End, AtRest
    <3>. QED BY <3>1, <3>2 DEF Forward, Stage, CreateSteps
  <2>. QED BY <2>1, CreateGoesForward, ClusterGoesForward, DownGoesForward
           DEF Up
<1>. QED BY <1>1, TypeCorrect, PTL DEF Spec, StepsForward
=============================================================================
