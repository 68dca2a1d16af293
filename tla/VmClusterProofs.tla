-------------------------- MODULE VmClusterProofs --------------------------
(***************************************************************************)
(* VmCluster for any number of nodes, addresses, capacities and faults:    *)
(* types, the operator's consent to what is removed, reservations that do  *)
(* not clash; and what a step may do to a VM, on which VmSafetyProofs      *)
(* rests.                                                                  *)
(***************************************************************************)
EXTENDS VmCluster, TLAPS, FiniteSetTheorems

-----------------------------------------------------------------------------
(* Facts about the operators                                               *)

\* list_vms answers a finite set of at most MaxNodes names.
LEMMA DefinedNodesFinite ==
  IsFiniteSet(DefinedNodes) /\ Cardinality(DefinedNodes) \in 0..MaxNodes
<1>1. IsFiniteSet(Nodes) /\ Cardinality(Nodes) = MaxNodes
  BY FS_Interval, MaxNodesAssumption DEF Nodes
<1>2. DefinedNodes \subseteq Nodes
  BY DEF DefinedNodes
<1>3. /\ IsFiniteSet(DefinedNodes)
      /\ Cardinality(DefinedNodes) <= Cardinality(Nodes)
  BY <1>1, <1>2, FS_Subset
<1>4. Cardinality(DefinedNodes) \in Nat
  BY <1>3, FS_CardinalityType
<1>. QED BY <1>1, <1>3, <1>4, MaxNodesAssumption

\* The size of a plan that stands is the number of a node: at least one,
\* at most MaxNodes.
LEMMA PlanIsANode ==
  ASSUME cli \in Command
  PROVE  Plan \in Nodes
<1>1. CASE cli.want = 0
  <2>1. Cardinality(DefinedNodes) \in 0..MaxNodes /\ IsFiniteSet(DefinedNodes)
    BY DefinedNodesFinite
  <2>2. DefinedNodes # {} => Cardinality(DefinedNodes) # 0
    BY <2>1, FS_EmptySet
  <2>. QED BY <1>1, <2>1, <2>2, MaxNodesAssumption DEF Plan, Nodes
<1>2. CASE cli.want # 0
  BY <1>2, MaxNodesAssumption DEF Plan, Nodes, Command
<1>. QED BY <1>1, <1>2

-----------------------------------------------------------------------------
(* Type correctness.  TypeOK falls into what the two machines hold, what   *)
(* the command knows, and the history variables.                           *)

MachinesTyped ==
  /\ libvirt \in {"absent", "down", "up"} /\ hostInstalled \in BOOLEAN
  /\ vm \in [Nodes -> VM]
  /\ resv \subseteq Reservation
  /\ fwd \in [script : Opt(Addrs), enabled : BOOLEAN, rule : Opt(Addrs)]
  /\ priv \in Opt(Keys) /\ pub \in Opt(Keys)
  /\ known \in [Addrs -> Opt(Ids)]
  /\ kubefile \in Opt(Ids) /\ context \in Opt(Ids)
CommandTyped ==
  pc \in AtRest \cup UpSteps \cup DownSteps /\ cli \in Command /\ CommandOK
HistoryTyped ==
  calm \in BOOLEAN /\ steady \in BOOLEAN /\ faults \in 0..MaxFaults

LEMMA TypeParts == TypeOK <=> MachinesTyped /\ CommandTyped /\ HistoryTyped
  BY DEF TypeOK, MachinesTyped, CommandTyped, HistoryTyped

LEMMA LooksKeepsTypes ==
  ASSUME MachinesTyped, Looks
  PROVE  MachinesTyped'
  BY DEF MachinesTyped, Looks, hostVars, localVars

LEMMA OnlyVmKeepsTypes ==
  ASSUME MachinesTyped, OnlyVm, vm' \in [Nodes -> VM]
  PROVE  MachinesTyped'
  BY DEF MachinesTyped, OnlyVm, localVars

LEMMA OnlyResvKeepsTypes ==
  ASSUME MachinesTyped, OnlyResv, resv' \subseteq Reservation
  PROVE  MachinesTyped'
  BY DEF MachinesTyped, OnlyResv, localVars

LEMMA OnlyFwdKeepsTypes ==
  ASSUME MachinesTyped, OnlyFwd,
         fwd' \in [script : Opt(Addrs), enabled : BOOLEAN, rule : Opt(Addrs)]
  PROVE  MachinesTyped'
  BY DEF MachinesTyped, OnlyFwd, localVars

\* One VM changes, into a VM.
LEMMA VmUpdate ==
  ASSUME vm \in [Nodes -> VM], NEW n \in Nodes, NEW v \in VM
  PROVE  [vm EXCEPT ![n] = v] \in [Nodes -> VM]
  OBVIOUS

LEMMA VmFields ==
  ASSUME NEW v \in VM
  PROVE  /\ \A b \in BOOLEAN : /\ [v EXCEPT !.on = b] \in VM
                               /\ [v EXCEPT !.account = b] \in VM
         /\ \A a \in Opt(Addrs) :
              /\ [v EXCEPT !.addr = a] \in VM
              /\ \A b \in BOOLEAN : [v EXCEPT !.on = b, !.addr = a] \in VM
         /\ \A b \in BOOLEAN : [v EXCEPT !.installed = b] \in VM
         /\ \A i \in Opt(Ids) : [v EXCEPT !.cluster = i] \in VM
  BY DEF VM

LEMMA VmTyped ==
  ASSUME MachinesTyped, NEW n \in Nodes
  PROVE  /\ vm[n] \in VM
         /\ vm[n].mac \in Opt(Ids) /\ vm[n].disk \in Opt(Ids)
         /\ vm[n].addr \in Opt(Addrs) /\ vm[n].key \in Opt(Keys)
         /\ vm[n].cluster \in Opt(Ids)
  BY DEF MachinesTyped, VM

LEMMA NoVmTyped == NoVm \in VM
  BY DEF NoVm, VM, Opt

LEMMA NoCommandTyped == NoCommand \in Command
  BY MaxNodesAssumption DEF NoCommand, Command, Opt, Nodes

\* A command that has ended knows nothing.
LEMMA EndKeepsTypes ==
  ASSUME pc' \in AtRest, cli' = NoCommand
  PROVE  CommandTyped'
<1>1. cli' \in Command
  BY NoCommandTyped
<1>2. CommandOK'
  BY DEF AtRest, CommandOK, CreateSteps
<1>. QED BY <1>1, <1>2 DEF CommandTyped

\* Steps that ask nothing of the locals but their types.
FreeSteps ==
  {"up.list", "expose.write", "expose.enable", "expose.restart",
   "cluster.server", "cluster.start", "cluster.wait", "cluster.ready",
   "cluster.fetch", "cluster.merge",
   "down.list", "down.forwarding", "down.stale", "down.confirm",
   "destroy.preflight", "down.close", "down.local", "down.sweep",
   "down.uninstall"}
LEMMA FreeStepKeepsTypes ==
  ASSUME pc' \in FreeSteps, cli' \in Command
  PROVE  CommandTyped'
<1>1. CommandOK'
  BY DEF FreeSteps, CommandOK, CreateSteps
<1>2. pc' \in UpSteps \cup DownSteps
  BY DEF FreeSteps, UpSteps, DownSteps
<1>. QED BY <1>1, <1>2 DEF CommandTyped

\* Steps of create before an address is known, and the look into the server.
EarlySteps == {"create.preflight", "create.key", "create.disk", "create.boot",
               "create.start", "create.ip", "up.inspect"}
LEMMA EarlyStepKeepsTypes ==
  ASSUME pc' \in EarlySteps, cli' \in Command,
         cli'.cur \in Nodes, cli'.want \in Nodes, cli'.cur <= cli'.want
  PROVE  CommandTyped'
<1>1. CommandOK'
  BY DEF EarlySteps, CommandOK, CreateSteps
<1>2. pc' \in UpSteps
  BY DEF EarlySteps, UpSteps, CreateSteps
<1>. QED BY <1>1, <1>2 DEF CommandTyped

\* ... and those after.
LateSteps == {"create.forget", "create.unreserve", "create.reserve",
              "create.ssh"}
LEMMA LateStepKeepsTypes ==
  ASSUME pc' \in LateSteps, cli' \in Command,
         cli'.cur \in Nodes, cli'.want \in Nodes, cli'.cur <= cli'.want,
         cli'.ips[cli'.cur] \in Addrs, cli'.mac \in Ids
  PROVE  CommandTyped'
<1>1. CommandOK'
  BY DEF LateSteps, CommandOK, CreateSteps
<1>2. pc' \in UpSteps
  BY DEF LateSteps, UpSteps, CreateSteps
<1>. QED BY <1>1, <1>2 DEF CommandTyped

DestroySteps == {"destroy.mac", "destroy.undefine", "destroy.release",
                 "destroy.verify"}
LEMMA DestroyStepKeepsTypes ==
  ASSUME pc' \in DestroySteps, cli' \in Command, cli'.cur \in Nodes
  PROVE  CommandTyped'
<1>1. CommandOK'
  BY DEF DestroySteps, CommandOK, CreateSteps
<1>2. pc' \in DownSteps
  BY DEF DestroySteps, DownSteps
<1>. QED BY <1>1, <1>2 DEF CommandTyped

\* What a command at one of these steps knows.
LEMMA AtCreate ==
  ASSUME CommandTyped, pc \in CreateSteps \cup {"up.inspect"}
  PROVE  /\ cli \in Command
         /\ cli.cur \in Nodes /\ cli.want \in Nodes /\ cli.cur <= cli.want
         /\ cli.key \in Opt(Keys) /\ cli.ips \in [Nodes -> Opt(Addrs)]
  BY DEF CommandTyped, CommandOK, Command

LEMMA AtLate ==
  ASSUME CommandTyped, pc \in LateSteps
  PROVE  /\ cli \in Command
         /\ cli.cur \in Nodes /\ cli.want \in Nodes /\ cli.cur <= cli.want
         /\ cli.ips[cli.cur] \in Addrs /\ cli.mac \in Ids
  BY DEF CommandTyped, CommandOK, Command, LateSteps, CreateSteps

LEMMA SameHistory ==
  ASSUME HistoryTyped, UNCHANGED ghostVars
  PROVE  HistoryTyped'
  BY DEF HistoryTyped, ghostVars

-----------------------------------------------------------------------------
(* The steps of vm.create                                                  *)

LEMMA CreatePreflightTyped ==
  ASSUME MachinesTyped, CommandTyped, CreatePreflight
  PROVE  MachinesTyped' /\ CommandTyped' /\ UNCHANGED ghostVars
<1>1. MachinesTyped'
  BY LooksKeepsTypes DEF CreatePreflight
<1>2. /\ cli \in Command /\ cli.cur \in Nodes
      /\ cli.want \in Nodes /\ cli.cur <= cli.want
  BY AtCreate DEF CreatePreflight, CreateSteps
<1>3. \/ Fail
      \/ Go("create.ip", cli)
      \/ Go("create.start", cli)
      \/ Go("create.key", [cli EXCEPT !.fresh = TRUE])
  BY DEF CreatePreflight
<1>4. CASE Fail
  BY <1>1, <1>4, EndKeepsTypes DEF Fail, End, Go, AtRest
<1>5. CASE Go("create.ip", cli) \/ Go("create.start", cli)
  BY <1>1, <1>2, <1>5, EarlyStepKeepsTypes DEF Go, EarlySteps
<1>6. CASE Go("create.key", [cli EXCEPT !.fresh = TRUE])
  <2>1. /\ cli' \in Command /\ cli'.cur = cli.cur /\ cli'.want = cli.want
        /\ pc' = "create.key" /\ UNCHANGED ghostVars
    BY <1>2, <1>6 DEF Go, Command
  <2>. QED BY <1>1, <1>2, <2>1, EarlyStepKeepsTypes DEF EarlySteps
<1>. QED BY <1>3, <1>4, <1>5, <1>6

LEMMA EnsureLocalKeyTyped ==
  ASSUME MachinesTyped, CommandTyped, EnsureLocalKey
  PROVE  MachinesTyped' /\ CommandTyped' /\ UNCHANGED ghostVars
<1>1. /\ cli \in Command /\ cli.cur \in Nodes
      /\ cli.want \in Nodes /\ cli.cur <= cli.want
  BY AtCreate DEF EnsureLocalKey, CreateSteps
<1>2. priv' \in Opt(Keys) /\ pub' \in Opt(Keys)
  BY DEF EnsureLocalKey, MachinesTyped, Least, FreshKeys, Opt
<1>3. MachinesTyped'
  BY <1>2 DEF EnsureLocalKey, MachinesTyped, hostVars
<1>4. /\ cli' \in Command /\ cli'.cur = cli.cur /\ cli'.want = cli.want
      /\ pc' = "create.disk" /\ UNCHANGED ghostVars
  BY <1>1, <1>2 DEF EnsureLocalKey, Go, Command
<1>. QED BY <1>1, <1>3, <1>4, EarlyStepKeepsTypes DEF EarlySteps

LEMMA CreateDiskTyped ==
  ASSUME MachinesTyped, CommandTyped, CreateDisk
  PROVE  MachinesTyped' /\ CommandTyped' /\ UNCHANGED ghostVars
<1>1. /\ cli \in Command /\ cli.cur \in Nodes /\ cli.key \in Opt(Keys)
      /\ cli.want \in Nodes /\ cli.cur <= cli.want
  BY AtCreate DEF CreateDisk, CreateSteps
<1>2. Fail \/ Go("create.boot", cli)
  BY DEF CreateDisk
<1>3. CommandTyped' /\ UNCHANGED ghostVars
  <2>1. CASE Fail
    BY <2>1, EndKeepsTypes DEF Fail, End, Go, AtRest
  <2>2. CASE Go("create.boot", cli)
    BY <1>1, <2>2, EarlyStepKeepsTypes DEF Go, EarlySteps
  <2>. QED BY <1>2, <2>1, <2>2
<1>4. vm' \in [Nodes -> VM]
  <2>1. CASE UNCHANGED vm
    BY <2>1 DEF MachinesTyped
  <2>2. CASE \E i \in Ids :
               vm' = [vm EXCEPT ![cli.cur] =
                        [NoVm EXCEPT !.mac = vm[cli.cur].mac,
                                     !.disk = i, !.key = cli.key]]
    <3>1. vm[cli.cur].mac \in Opt(Ids)
      BY <1>1, VmTyped
    <3>2. \A i \in Ids : [NoVm EXCEPT !.mac = vm[cli.cur].mac,
                                      !.disk = i, !.key = cli.key] \in VM
      BY <1>1, <3>1 DEF VM, NoVm, Opt
    <3>3. vm \in [Nodes -> VM]
      BY DEF MachinesTyped
    <3>4. PICK i \in Ids :
            vm' = [vm EXCEPT ![cli.cur] =
                     [NoVm EXCEPT !.mac = vm[cli.cur].mac,
                                  !.disk = i, !.key = cli.key]]
      BY <2>2
    <3>. QED BY <1>1, <3>2, <3>3, <3>4, VmUpdate
  <2>. QED BY <2>1, <2>2 DEF CreateDisk, Least, FreshIds
<1>. QED BY <1>3, <1>4, OnlyVmKeepsTypes DEF CreateDisk

LEMMA BootTyped ==
  ASSUME MachinesTyped, CommandTyped, Boot
  PROVE  MachinesTyped' /\ CommandTyped' /\ UNCHANGED ghostVars
<1>1. /\ cli \in Command /\ cli.cur \in Nodes /\ cli.key \in Opt(Keys)
      /\ cli.want \in Nodes /\ cli.cur <= cli.want
  BY AtCreate DEF Boot, CreateSteps
<1>2. CASE libvirt = "up" /\ ~Defined(cli.cur)
  <2>1. pc' = "create.ip" /\ cli' = cli /\ UNCHANGED ghostVars
    BY <1>2 DEF Boot, Go
  <2>2. PICK i \in Ids :
          vm' = [vm EXCEPT ![cli.cur] =
                   [NoVm EXCEPT !.mac = i, !.disk = i, !.on = TRUE,
                                !.key = cli.key]]
    BY <1>2 DEF Boot, Least, FreshIds
  <2>3. [NoVm EXCEPT !.mac = i, !.disk = i, !.on = TRUE, !.key = cli.key] \in VM
    BY <1>1 DEF VM, NoVm, Opt
  <2>4. vm' \in [Nodes -> VM]
    BY <1>1, <2>2, <2>3, VmUpdate DEF MachinesTyped
  <2>5. MachinesTyped'
    BY <2>4, OnlyVmKeepsTypes DEF Boot
  <2>. QED BY <1>1, <2>1, <2>5, EarlyStepKeepsTypes DEF EarlySteps
<1>3. CASE ~(libvirt = "up" /\ ~Defined(cli.cur))
  <2>1. Fail /\ UNCHANGED vm
    BY <1>3 DEF Boot
  <2>2. MachinesTyped'
    BY <2>1, OnlyVmKeepsTypes DEF Boot, MachinesTyped
  <2>. QED BY <2>1, <2>2, EndKeepsTypes DEF Fail, End, Go, AtRest
<1>. QED BY <1>2, <1>3

LEMMA StartTyped ==
  ASSUME MachinesTyped, CommandTyped, Start
  PROVE  MachinesTyped' /\ CommandTyped' /\ UNCHANGED ghostVars
<1>1. /\ cli \in Command /\ cli.cur \in Nodes
      /\ cli.want \in Nodes /\ cli.cur <= cli.want
  BY AtCreate DEF Start, CreateSteps
<1>2. CASE VmState(cli.cur) = "shut off"
  <2>1. pc' = "create.ip" /\ cli' = cli /\ UNCHANGED ghostVars
    BY <1>2 DEF Start, Go
  <2>2. vm' = [vm EXCEPT ![cli.cur] = [vm[cli.cur] EXCEPT !.on = TRUE]]
    BY <1>2 DEF Start
  <2>3. [vm[cli.cur] EXCEPT !.on = TRUE] \in VM
    BY <1>1, VmTyped, VmFields
  <2>4. vm' \in [Nodes -> VM]
    BY <1>1, <2>2, <2>3, VmUpdate DEF MachinesTyped
  <2>5. MachinesTyped'
    BY <2>4, OnlyVmKeepsTypes DEF Start
  <2>. QED BY <1>1, <2>1, <2>5, EarlyStepKeepsTypes DEF EarlySteps
<1>3. CASE VmState(cli.cur) # "shut off"
  <2>1. Fail /\ UNCHANGED vm
    BY <1>3 DEF Start
  <2>2. MachinesTyped'
    BY <2>1, OnlyVmKeepsTypes DEF Start, MachinesTyped
  <2>. QED BY <2>1, <2>2, EndKeepsTypes DEF Fail, End, Go, AtRest
<1>. QED BY <1>2, <1>3

LEMMA WaitForIpTyped ==
  ASSUME MachinesTyped, CommandTyped, WaitForIp
  PROVE  MachinesTyped' /\ CommandTyped' /\ UNCHANGED ghostVars
<1>1. /\ cli \in Command /\ cli.cur \in Nodes
      /\ cli.want \in Nodes /\ cli.cur <= cli.want
  BY AtCreate DEF WaitForIp, CreateSteps
<1>2. MachinesTyped'
  BY LooksKeepsTypes DEF WaitForIp
<1>3. CASE MacOf(cli.cur) # None /\ vm[cli.cur].addr # None
  <2>1. MacOf(cli.cur) \in Ids /\ vm[cli.cur].addr \in Addrs
    BY <1>1, <1>3, VmTyped DEF MacOf, Opt
  <2>2. /\ cli' = [cli EXCEPT !.mac = MacOf(cli.cur),
                              !.ips[cli.cur] = vm[cli.cur].addr]
        /\ pc' \in LateSteps /\ UNCHANGED ghostVars
    BY <1>3 DEF WaitForIp, Go, LateSteps
  <2>3. /\ cli' \in Command
        /\ cli'.ips[cli.cur] \in Addrs /\ cli'.mac \in Ids
        /\ cli'.cur = cli.cur /\ cli'.want = cli.want
    <3>1. MacOf(cli.cur) \in Opt(Ids) /\ vm[cli.cur].addr \in Opt(Addrs)
      BY <2>1 DEF Opt
    <3>. QED BY <1>1, <2>1, <2>2, <3>1 DEF Command
  <2>. QED BY <1>1, <1>2, <2>2, <2>3, LateStepKeepsTypes
<1>4. CASE ~(MacOf(cli.cur) # None /\ vm[cli.cur].addr # None)
  <2>1. Fail
    BY <1>4 DEF WaitForIp
  <2>. QED BY <1>2, <2>1, EndKeepsTypes DEF Fail, End, Go, AtRest
<1>. QED BY <1>3, <1>4

LEMMA ForgetHostKeyTyped ==
  ASSUME MachinesTyped, CommandTyped, ForgetHostKey
  PROVE  MachinesTyped' /\ CommandTyped' /\ UNCHANGED ghostVars
<1>1. known' \in [Addrs -> Opt(Ids)]
  BY DEF ForgetHostKey, MachinesTyped, Opt
<1>2. MachinesTyped'
  BY <1>1 DEF ForgetHostKey, MachinesTyped, hostVars
<1>3. pc \in LateSteps /\ pc' \in LateSteps /\ cli' = cli /\ UNCHANGED ghostVars
  BY DEF ForgetHostKey, Go, LateSteps
<1>. QED BY <1>2, <1>3, AtLate, LateStepKeepsTypes

LEMMA UnreserveTyped ==
  ASSUME MachinesTyped, CommandTyped, Unreserve
  PROVE  MachinesTyped' /\ CommandTyped' /\ UNCHANGED ghostVars
<1>1. resv' \subseteq Reservation
  BY DEF Unreserve, MachinesTyped, WithoutReservation
<1>2. MachinesTyped'
  BY <1>1, OnlyResvKeepsTypes DEF Unreserve
<1>3. pc \in LateSteps /\ pc' \in LateSteps /\ cli' = cli /\ UNCHANGED ghostVars
  BY DEF Unreserve, Go, LateSteps
<1>. QED BY <1>2, <1>3, AtLate, LateStepKeepsTypes

LEMMA ReserveTyped ==
  ASSUME MachinesTyped, CommandTyped, Reserve
  PROVE  MachinesTyped' /\ CommandTyped' /\ UNCHANGED ghostVars
<1>1. /\ cli \in Command
      /\ cli.cur \in Nodes /\ cli.want \in Nodes /\ cli.cur <= cli.want
      /\ cli.ips[cli.cur] \in Addrs /\ cli.mac \in Ids
  BY AtLate DEF Reserve, LateSteps
<1>2. resv' \subseteq Reservation
  BY <1>1 DEF Reserve, MachinesTyped, Reservation
<1>3. MachinesTyped'
  BY <1>2, OnlyResvKeepsTypes DEF Reserve
<1>4. \/ Fail
      \/ pc' \in LateSteps /\ cli' = cli /\ UNCHANGED ghostVars
  BY DEF Reserve, Go, LateSteps
<1>5. CASE Fail
  BY <1>3, <1>5, EndKeepsTypes DEF Fail, End, Go, AtRest
<1>6. CASE pc' \in LateSteps /\ cli' = cli /\ UNCHANGED ghostVars
  BY <1>1, <1>3, <1>6, LateStepKeepsTypes
<1>. QED BY <1>4, <1>5, <1>6

\* The walk over the plan stays within the plan.
LEMMA NextNodeTyped ==
  ASSUME CommandTyped, pc \in CreateSteps \cup {"up.inspect"}, NextNode
  PROVE  CommandTyped' /\ UNCHANGED ghostVars
<1>1. /\ cli \in Command /\ cli.cur \in Nodes
      /\ cli.want \in Nodes /\ cli.cur <= cli.want
  BY AtCreate
<1>2. CASE cli.cur < cli.want
  <2>1. /\ cli' \in Command
        /\ cli'.cur = cli.cur + 1 /\ cli'.want = cli.want
        /\ pc' = "create.preflight" /\ UNCHANGED ghostVars
    <3>1. cli.cur + 1 \in 0..MaxNodes
      BY <1>1, <1>2, MaxNodesAssumption DEF Nodes
    <3>2. /\ cli' = [cli EXCEPT !.cur = cli.cur + 1, !.fresh = FALSE,
                                !.key = None, !.mac = None]
          /\ pc' = "create.preflight" /\ UNCHANGED ghostVars
      BY <1>2 DEF NextNode, Go
    <3>. QED BY <1>1, <3>1, <3>2 DEF Command, Opt
  <2>2. cli'.cur \in Nodes /\ cli'.cur <= cli'.want
    BY <1>1, <1>2, <2>1, MaxNodesAssumption DEF Nodes
  <2>. QED BY <1>1, <2>1, <2>2, EarlyStepKeepsTypes DEF EarlySteps
<1>3. CASE ~(cli.cur < cli.want)
  <2>1. /\ cli' \in Command
        /\ pc' = "expose.write" /\ UNCHANGED ghostVars
    <3>1. /\ cli' = [cli EXCEPT !.fresh = FALSE, !.key = None, !.mac = None]
          /\ pc' = "expose.write" /\ UNCHANGED ghostVars
      BY <1>3 DEF NextNode, Go
    <3>. QED BY <1>1, <3>1 DEF Command, Opt
  <2>. QED BY <2>1, FreeStepKeepsTypes DEF FreeSteps
<1>. QED BY <1>2, <1>3

LEMMA WaitForSshTyped ==
  ASSUME MachinesTyped, CommandTyped, WaitForSsh
  PROVE  MachinesTyped' /\ CommandTyped' /\ UNCHANGED ghostVars
<1>1. /\ cli \in Command /\ cli.cur \in Nodes
      /\ cli.want \in Nodes /\ cli.cur <= cli.want
  BY AtCreate DEF WaitForSsh, CreateSteps
<1>2. known' \in [Addrs -> Opt(Ids)]
  <2>1. \A m \in Nodes : vm[m].disk \in Opt(Ids)
    BY VmTyped
  <2>. QED BY <2>1 DEF WaitForSsh, MachinesTyped, Enterable, AtAddress
<1>3. MachinesTyped'
  BY <1>2 DEF WaitForSsh, MachinesTyped, hostVars
<1>4. Fail \/ Go("up.inspect", cli) \/ NextNode
  BY DEF WaitForSsh
<1>5. CASE Fail
  BY <1>3, <1>5, EndKeepsTypes DEF Fail, End, Go, AtRest
<1>6. CASE Go("up.inspect", cli)
  BY <1>1, <1>3, <1>6, EarlyStepKeepsTypes DEF Go, EarlySteps
<1>7. CASE NextNode
  BY <1>3, <1>7, NextNodeTyped DEF WaitForSsh, CreateSteps
<1>. QED BY <1>4, <1>5, <1>6, <1>7

LEMMA CreateTyped ==
  ASSUME MachinesTyped, CommandTyped, Create
  PROVE  MachinesTyped' /\ CommandTyped' /\ UNCHANGED ghostVars
  BY CreatePreflightTyped, EnsureLocalKeyTyped, CreateDiskTyped, BootTyped,
     StartTyped, WaitForIpTyped, ForgetHostKeyTyped, UnreserveTyped,
     ReserveTyped, WaitForSshTyped
  DEF Create

-----------------------------------------------------------------------------
(* The other steps of up                                                   *)

LEMMA ListForUpTyped ==
  ASSUME MachinesTyped, CommandTyped, ListForUp
  PROVE  MachinesTyped' /\ CommandTyped' /\ UNCHANGED ghostVars
<1>1. MachinesTyped'
  BY LooksKeepsTypes DEF ListForUp
<1>2. cli \in Command
  BY DEF CommandTyped
<1>3. CASE PlanStands
  <2>1. Plan \in Nodes /\ DefinedNodes \in SUBSET Nodes
    BY <1>2, PlanIsANode DEF DefinedNodes
  <2>2. /\ cli' = [cli EXCEPT !.want = Plan, !.listed = DefinedNodes]
        /\ pc' = "up.setup" /\ UNCHANGED ghostVars
    BY <1>3 DEF ListForUp, Go
  <2>3. cli' \in Command /\ cli'.want \in Nodes
    <3>1. Plan \in 0..MaxNodes
      BY <2>1, MaxNodesAssumption DEF Nodes
    <3>. QED BY <1>2, <2>1, <2>2, <3>1 DEF Command
  <2>4. CommandOK'
    BY <2>2, <2>3 DEF CommandOK, CreateSteps
  <2>. QED BY <1>1, <2>2, <2>3, <2>4 DEF CommandTyped, UpSteps
<1>4. CASE ~PlanStands
  BY <1>1, <1>4, EndKeepsTypes DEF ListForUp, Fail, End, Go, AtRest
<1>. QED BY <1>3, <1>4

LEMMA SetupTyped ==
  ASSUME MachinesTyped, CommandTyped, Setup
  PROVE  MachinesTyped' /\ CommandTyped' /\ UNCHANGED ghostVars
<1>1. MachinesTyped'
  BY DEF MachinesTyped, Setup, localVars
<1>2. cli \in Command /\ cli.want \in Nodes
  BY DEF CommandTyped, CommandOK, Setup
<1>3. Fail \/ Go("create.preflight", [cli EXCEPT !.cur = 1])
  BY DEF Setup
<1>4. CASE Fail
  BY <1>1, <1>4, EndKeepsTypes DEF Fail, End, Go, AtRest
<1>5. CASE Go("create.preflight", [cli EXCEPT !.cur = 1])
  <2>1. /\ cli' \in Command /\ cli'.cur = 1 /\ cli'.want = cli.want
        /\ pc' = "create.preflight" /\ UNCHANGED ghostVars
    BY <1>2, <1>5, MaxNodesAssumption DEF Go, Command
  <2>2. cli'.cur \in Nodes /\ cli'.want \in Nodes /\ cli'.cur <= cli'.want
    BY <1>2, <2>1, MaxNodesAssumption DEF Nodes
  <2>. QED BY <1>1, <2>1, <2>2, EarlyStepKeepsTypes DEF EarlySteps
<1>. QED BY <1>3, <1>4, <1>5

LEMMA InspectTyped ==
  ASSUME MachinesTyped, CommandTyped, Inspect
  PROVE  MachinesTyped' /\ CommandTyped' /\ UNCHANGED ghostVars
<1>1. MachinesTyped'
  BY LooksKeepsTypes DEF Inspect
<1>2. CASE Fail
  BY <1>1, <1>2, EndKeepsTypes DEF Fail, End, Go, AtRest
<1>3. CASE NextNode
  BY <1>1, <1>3, NextNodeTyped DEF Inspect
<1>. QED BY <1>2, <1>3 DEF Inspect

LEMMA ExposeTyped ==
  ASSUME MachinesTyped, CommandTyped, Expose
  PROVE  MachinesTyped' /\ CommandTyped' /\ UNCHANGED ghostVars
<1>1. cli \in Command /\ cli.ips[1] \in Opt(Addrs)
  BY MaxNodesAssumption DEF CommandTyped, Command, Nodes
<1>2. MachinesTyped'
  <2>1. fwd' \in [script : Opt(Addrs), enabled : BOOLEAN, rule : Opt(Addrs)]
    BY <1>1 DEF Expose, ExposeWrite, ExposeEnable, ExposeRestart, MachinesTyped
  <2>. QED BY <2>1, OnlyFwdKeepsTypes
           DEF Expose, ExposeWrite, ExposeEnable, ExposeRestart
<1>3. \/ Fail
      \/ pc' \in FreeSteps /\ cli' = cli /\ UNCHANGED ghostVars
  BY DEF Expose, ExposeWrite, ExposeEnable, ExposeRestart, Go, FreeSteps
<1>4. CASE Fail
  BY <1>2, <1>4, EndKeepsTypes DEF Fail, End, Go, AtRest
<1>5. CASE pc' \in FreeSteps /\ cli' = cli /\ UNCHANGED ghostVars
  BY <1>1, <1>2, <1>5, FreeStepKeepsTypes
<1>. QED BY <1>3, <1>4, <1>5

\* A distribution belongs to the cluster of some disk.
LEMMA ClusterUpdateTyped ==
  ASSUME MachinesTyped, NEW n \in Nodes, NEW i \in Opt(Ids)
  PROVE  [vm EXCEPT ![n].cluster = IF @ = None THEN i ELSE @]
           \in [Nodes -> VM]
<1>1. vm[n] \in VM /\ vm[n].cluster \in Opt(Ids)
  BY VmTyped
<1>2. DEFINE c == IF vm[n].cluster = None THEN i ELSE vm[n].cluster
<1>3. [vm[n] EXCEPT !.cluster = c] \in VM
  BY <1>1, VmFields
<1>4. [vm EXCEPT ![n] = [vm[n] EXCEPT !.cluster = c]] \in [Nodes -> VM]
  BY <1>3, VmUpdate DEF MachinesTyped
<1>. QED BY <1>4 DEF MachinesTyped

\* The marker of a distribution appears in a VM.
LEMMA MarkerTyped ==
  ASSUME MachinesTyped, NEW n \in Nodes
  PROVE  [vm EXCEPT ![n].installed = TRUE] \in [Nodes -> VM]
<1>1. [vm[n] EXCEPT !.installed = TRUE] \in VM
  BY VmTyped, VmFields
<1>2. [vm EXCEPT ![n] = [vm[n] EXCEPT !.installed = TRUE]] \in [Nodes -> VM]
  BY <1>1, VmUpdate DEF MachinesTyped
<1>. QED BY <1>2 DEF MachinesTyped

\* Steps of a distribution's agents work on a node.
JoinSteps == {"cluster.join", "cluster.enter"}
LEMMA JoinStepKeepsTypes ==
  ASSUME pc' \in JoinSteps, cli' \in Command, cli'.cur \in Nodes
  PROVE  CommandTyped'
<1>1. CommandOK'
  BY DEF JoinSteps, CommandOK, CreateSteps
<1>2. pc' \in UpSteps
  BY DEF JoinSteps, UpSteps
<1>. QED BY <1>1, <1>2 DEF CommandTyped

\* Whatever VM a step of cluster.up works on, it changes to a VM.
LEMMA ClusterVmTyped ==
  ASSUME MachinesTyped,
         ClusterServer \/ ClusterStart \/ ClusterJoin \/ ClusterEnter
  PROVE  MachinesTyped'
<1>1. CASE UNCHANGED vm
  BY <1>1, OnlyVmKeepsTypes
  DEF ClusterServer, ClusterStart, ClusterJoin, ClusterEnter, MachinesTyped
<1>2. CASE \E n \in Nodes : vm' = [vm EXCEPT ![n].installed = TRUE]
  BY <1>2, MarkerTyped, OnlyVmKeepsTypes
  DEF ClusterServer, ClusterStart, ClusterJoin, ClusterEnter
<1>3. CASE \E n \in Nodes, i \in Opt(Ids) :
             vm' = [vm EXCEPT ![n].cluster = IF @ = None THEN i ELSE @]
  BY <1>3, ClusterUpdateTyped, OnlyVmKeepsTypes
  DEF ClusterServer, ClusterStart, ClusterJoin, ClusterEnter
<1>4. \A n \in Nodes : vm[n].disk \in Opt(Ids) /\ vm[n].cluster \in Opt(Ids)
  BY VmTyped
<1>5. CASE ClusterServer \/ ClusterJoin
  BY <1>1, <1>2, <1>5 DEF ClusterServer, ClusterJoin, Enterable, AtAddress
<1>6. CASE ClusterStart
  BY <1>1, <1>3, <1>4, <1>6 DEF ClusterStart, Enterable, AtAddress
<1>7. CASE ClusterEnter
  BY <1>1, <1>3, <1>4, <1>7
  DEF ClusterEnter, Servers, Enterable, AtAddress
<1>. QED BY <1>5, <1>6, <1>7

LEMMA ClusterInstallTyped ==
  ASSUME MachinesTyped, CommandTyped, ClusterServer \/ ClusterStart
  PROVE  MachinesTyped' /\ CommandTyped' /\ UNCHANGED ghostVars
<1>1. MachinesTyped' /\ cli \in Command
  BY ClusterVmTyped DEF CommandTyped
<1>2. Fail \/ Go("cluster.wait", cli) \/ Go("cluster.start", cli)
  BY DEF ClusterServer, ClusterStart
<1>3. CASE Fail
  BY <1>1, <1>3, EndKeepsTypes DEF Fail, End, Go, AtRest
<1>4. CASE Go("cluster.wait", cli) \/ Go("cluster.start", cli)
  BY <1>1, <1>4, FreeStepKeepsTypes DEF Go, FreeSteps
<1>. QED BY <1>2, <1>3, <1>4

LEMMA ClusterWaitTyped ==
  ASSUME MachinesTyped, CommandTyped, ClusterWait
  PROVE  MachinesTyped' /\ CommandTyped' /\ UNCHANGED ghostVars
<1>1. MachinesTyped'
  BY LooksKeepsTypes DEF ClusterWait
<1>2. cli \in Command
  BY DEF CommandTyped
<1>3. CASE Fail
  BY <1>1, <1>3, EndKeepsTypes DEF Fail, End, Go, AtRest
<1>4. CASE cli.want > 1 /\ Go("cluster.join", [cli EXCEPT !.cur = 2])
  <2>1. 2 \in Nodes /\ 2 \in 0..MaxNodes
    BY <1>2, <1>4, MaxNodesAssumption DEF Command, Nodes
  <2>2. /\ cli' \in Command /\ cli'.cur = 2
        /\ pc' = "cluster.join" /\ UNCHANGED ghostVars
    BY <1>2, <1>4, <2>1 DEF Go, Command
  <2>. QED BY <1>1, <2>1, <2>2, JoinStepKeepsTypes DEF JoinSteps
<1>5. CASE Go("cluster.ready", [cli EXCEPT !.cur = cli.cur])
  <2>1. [cli EXCEPT !.cur = cli.cur] \in Command
    BY <1>2 DEF Command
  <2>. QED BY <1>1, <1>5, <2>1, FreeStepKeepsTypes DEF Go, FreeSteps
<1>. QED BY <1>3, <1>4, <1>5 DEF ClusterWait, Go

\* The walk over the agents stays within the plan.
LEMMA NextAgentTyped ==
  ASSUME CommandTyped, pc \in JoinSteps, NextAgent
  PROVE  CommandTyped' /\ UNCHANGED ghostVars
<1>1. cli \in Command /\ cli.cur \in Nodes
  BY DEF CommandTyped, CommandOK, JoinSteps
<1>2. CASE cli.cur < cli.want
  <2>1. cli.cur + 1 \in Nodes /\ cli.cur + 1 \in 0..MaxNodes
    BY <1>1, <1>2, MaxNodesAssumption DEF Command, Nodes
  <2>2. /\ cli' = [cli EXCEPT !.cur = cli.cur + 1]
        /\ pc' = "cluster.join" /\ UNCHANGED ghostVars
    BY <1>2 DEF NextAgent, Go
  <2>3. cli' \in Command /\ cli'.cur = cli.cur + 1
    BY <1>1, <2>1, <2>2 DEF Command
  <2>. QED BY <2>1, <2>2, <2>3, JoinStepKeepsTypes DEF JoinSteps
<1>3. CASE ~(cli.cur < cli.want)
  BY <1>1, <1>3, FreeStepKeepsTypes DEF NextAgent, Go, FreeSteps
<1>. QED BY <1>2, <1>3

LEMMA ClusterAgentsTyped ==
  ASSUME MachinesTyped, CommandTyped, ClusterJoin \/ ClusterEnter
  PROVE  MachinesTyped' /\ CommandTyped' /\ UNCHANGED ghostVars
<1>1. MachinesTyped' /\ pc \in JoinSteps
  BY ClusterVmTyped DEF ClusterJoin, ClusterEnter, JoinSteps
<1>2. cli \in Command /\ cli.cur \in Nodes
  BY <1>1 DEF CommandTyped, CommandOK, JoinSteps
<1>3. Fail \/ Go("cluster.enter", cli) \/ NextAgent
  BY DEF ClusterJoin, ClusterEnter
<1>4. CASE Fail
  BY <1>1, <1>4, EndKeepsTypes DEF Fail, End, Go, AtRest
<1>5. CASE Go("cluster.enter", cli)
  BY <1>1, <1>2, <1>5, JoinStepKeepsTypes DEF Go, JoinSteps
<1>6. CASE NextAgent
  BY <1>1, <1>6, NextAgentTyped
<1>. QED BY <1>3, <1>4, <1>5, <1>6

LEMMA LastStepsTyped ==
  ASSUME MachinesTyped, CommandTyped,
         ClusterReady \/ FetchKubeconfig \/ MergeKubeconfig
  PROVE  MachinesTyped' /\ CommandTyped' /\ UNCHANGED ghostVars
<1>1. cli \in Command
  BY DEF CommandTyped
<1>2. CASE ClusterReady
  <2>1. MachinesTyped'
    BY <1>2, LooksKeepsTypes DEF ClusterReady
  <2>2. Fail \/ Go("cluster.fetch", cli)
    BY <1>2 DEF ClusterReady
  <2>. QED BY <1>1, <2>1, <2>2, EndKeepsTypes, FreeStepKeepsTypes
           DEF Fail, End, Go, AtRest, FreeSteps
<1>3. CASE FetchKubeconfig
  <2>1. kubefile' \in Opt(Ids)
    <3>1. \A s \in Nodes : vm[s].cluster \in Opt(Ids)
      BY VmTyped
    <3>. QED BY <1>3, <3>1
             DEF FetchKubeconfig, Servers, Enterable, AtAddress, MachinesTyped
  <2>2. MachinesTyped'
    BY <1>3, <2>1 DEF FetchKubeconfig, MachinesTyped, hostVars
  <2>3. Fail \/ Go("cluster.merge", cli)
    BY <1>3 DEF FetchKubeconfig
  <2>. QED BY <1>1, <2>2, <2>3, EndKeepsTypes, FreeStepKeepsTypes
           DEF Fail, End, Go, AtRest, FreeSteps
<1>4. CASE MergeKubeconfig
  <2>1. MachinesTyped'
    BY <1>4 DEF MergeKubeconfig, MachinesTyped, hostVars
  <2>. QED BY <1>4, <2>1, EndKeepsTypes DEF MergeKubeconfig, End, Go, AtRest
<1>. QED BY <1>2, <1>3, <1>4

LEMMA UpTyped ==
  ASSUME MachinesTyped, CommandTyped, Up
  PROVE  MachinesTyped' /\ CommandTyped' /\ UNCHANGED ghostVars
  BY ListForUpTyped, SetupTyped, CreateTyped, InspectTyped, ExposeTyped,
     ClusterInstallTyped, ClusterWaitTyped, ClusterAgentsTyped, LastStepsTyped
  DEF Up, ClusterUp

-----------------------------------------------------------------------------
(* The steps of down                                                       *)

\* The steps that look before anything is destroyed.
LEMMA LookBeforeTyped ==
  ASSUME MachinesTyped, CommandTyped,
         ListForDown \/ LookForForwarding \/ LookForStale \/ Confirm
  PROVE  MachinesTyped' /\ CommandTyped' /\ UNCHANGED ghostVars
<1>1. MachinesTyped'
  BY LooksKeepsTypes
  DEF ListForDown, LookForForwarding, LookForStale, Confirm
<1>2. cli \in Command
  BY DEF CommandTyped
<1>3. CASE ListForDown
  <2>1. DefinedNodes \in SUBSET Nodes
    BY DEF DefinedNodes
  <2>2. [cli EXCEPT !.listed = DefinedNodes] \in Command
    BY <1>2, <2>1 DEF Command
  <2>. QED BY <1>1, <1>3, <2>2, EndKeepsTypes, FreeStepKeepsTypes
           DEF ListForDown, Fail, End, Go, AtRest, FreeSteps
<1>4. CASE LookForForwarding
  <2>1. [cli EXCEPT !.fwd = ForwardingInstalled] \in Command
    BY <1>2 DEF Command, ForwardingInstalled
  <2>. QED BY <1>1, <1>4, <2>1, FreeStepKeepsTypes
           DEF LookForForwarding, Go, FreeSteps
<1>5. CASE LookForStale
  <2>1. StaleReservations(cli.listed) \in SUBSET Reservation
    BY DEF StaleReservations, MachinesTyped
  <2>2. [cli EXCEPT !.stale = StaleReservations(cli.listed)] \in Command
    BY <1>2, <2>1 DEF Command
  <2>. QED BY <1>1, <1>5, <2>2, EndKeepsTypes, FreeStepKeepsTypes
           DEF LookForStale, End, Go, AtRest, FreeSteps
<1>6. CASE Confirm
  <2>1. \A b \in BOOLEAN : [cli EXCEPT !.consent = b] \in Command
    BY <1>2 DEF Command
  <2>2. \/ Fail
        \/ /\ \E b \in BOOLEAN : cli' = [cli EXCEPT !.consent = b]
           /\ pc' \in {"destroy.preflight", "down.sweep"}
           /\ UNCHANGED ghostVars
    BY <1>6 DEF Confirm, Go
  <2>. QED BY <1>1, <2>1, <2>2, EndKeepsTypes, FreeStepKeepsTypes
           DEF Fail, End, Go, AtRest, FreeSteps
<1>. QED BY <1>3, <1>4, <1>5, <1>6

LEMMA AtDestroy ==
  ASSUME CommandTyped, pc \in DestroySteps
  PROVE  cli \in Command /\ cli.cur \in Nodes
  BY DEF CommandTyped, CommandOK, DestroySteps

LEMMA DestroyTyped ==
  ASSUME MachinesTyped, CommandTyped, Destroy
  PROVE  MachinesTyped' /\ CommandTyped' /\ UNCHANGED ghostVars
<1>1. cli \in Command
  BY DEF CommandTyped
<1>2. CASE DestroyPreflight
  <2>1. MachinesTyped'
    BY <1>2, LooksKeepsTypes DEF DestroyPreflight
  <2>2. CASE Go("down.close", [cli EXCEPT !.cur = 0])
    <3>1. [cli EXCEPT !.cur = 0] \in Command
      BY <1>1, MaxNodesAssumption DEF Command
    <3>. QED BY <2>1, <2>2, <3>1, FreeStepKeepsTypes DEF Go, FreeSteps
  <2>3. CASE \E n \in cli.listed :
               Go(IF VmState(n) = "" THEN "destroy.preflight"
                                     ELSE "destroy.mac",
                  [cli EXCEPT !.cur = n])
    <3>1. PICK n \in Nodes :
            /\ cli' = [cli EXCEPT !.cur = n]
            /\ pc' \in {"destroy.preflight", "destroy.mac"}
            /\ UNCHANGED ghostVars
      BY <1>1, <2>3 DEF Go, Command
    <3>2. n \in 0..MaxNodes
      BY MaxNodesAssumption DEF Nodes
    <3>3. cli' \in Command /\ cli'.cur = n
      BY <1>1, <3>1, <3>2 DEF Command
    <3>. QED BY <2>1, <3>1, <3>3, FreeStepKeepsTypes, DestroyStepKeepsTypes
             DEF FreeSteps, DestroySteps
  <2>. QED BY <1>2, <2>2, <2>3 DEF DestroyPreflight
<1>3. CASE ReadMac
  <2>1. MachinesTyped'
    BY <1>3, LooksKeepsTypes DEF ReadMac
  <2>2. cli.cur \in Nodes
    BY <1>3, AtDestroy DEF ReadMac, DestroySteps
  <2>3. MacOf(cli.cur) \in Opt(Ids)
    BY <2>2, VmTyped DEF MacOf, Opt
  <2>4. /\ cli' \in Command /\ cli'.cur = cli.cur
        /\ pc' \in DestroySteps /\ UNCHANGED ghostVars
    BY <1>1, <1>3, <2>3 DEF ReadMac, Go, Command, DestroySteps
  <2>. QED BY <2>1, <2>2, <2>4, DestroyStepKeepsTypes
<1>4. CASE Undefine
  <2>1. cli.cur \in Nodes
    BY <1>4, AtDestroy DEF Undefine, DestroySteps
  <2>2. vm' \in [Nodes -> VM]
    <3>1. vm' = vm \/ vm' = [vm EXCEPT ![cli.cur] = NoVm]
      BY <1>4 DEF Undefine
    <3>. QED BY <2>1, <3>1, VmUpdate, NoVmTyped DEF MachinesTyped
  <2>3. MachinesTyped'
    BY <1>4, <2>2, OnlyVmKeepsTypes DEF Undefine
  <2>4. Fail \/ Go("destroy.release", cli)
    BY <1>4 DEF Undefine
  <2>. QED BY <1>1, <2>1, <2>3, <2>4, EndKeepsTypes, DestroyStepKeepsTypes
           DEF Fail, End, Go, AtRest, DestroySteps
<1>5. CASE ReleaseAddress
  <2>1. cli.cur \in Nodes
    BY <1>5, AtDestroy DEF ReleaseAddress, DestroySteps
  <2>2. MachinesTyped'
    BY <1>5, OnlyResvKeepsTypes
    DEF ReleaseAddress, AfterRelease, MachinesTyped
  <2>3. /\ cli' \in Command /\ cli'.cur = cli.cur
        /\ pc' \in DestroySteps /\ UNCHANGED ghostVars
    BY <1>1, <1>5 DEF ReleaseAddress, Go, Command, DestroySteps, Opt
  <2>. QED BY <2>1, <2>2, <2>3, DestroyStepKeepsTypes
<1>6. CASE VerifyRemoval
  <2>1. MachinesTyped'
    BY <1>6, LooksKeepsTypes DEF VerifyRemoval
  <2>. QED BY <1>1, <1>6, <2>1, EndKeepsTypes, FreeStepKeepsTypes
           DEF VerifyRemoval, Fail, End, Go, AtRest, FreeSteps
<1>. QED BY <1>2, <1>3, <1>4, <1>5, <1>6 DEF Destroy

\* The steps after the last VM.
LEMMA LeaveNothingTyped ==
  ASSUME MachinesTyped, CommandTyped,
         CloseApi \/ ForgetLocal \/ Sweep \/ Uninstall
  PROVE  MachinesTyped' /\ CommandTyped' /\ UNCHANGED ghostVars
<1>1. cli \in Command
  BY DEF CommandTyped
<1>2. CASE CloseApi
  <2>1. MachinesTyped'
    BY <1>2, OnlyFwdKeepsTypes DEF CloseApi, NoForwarding, Opt
  <2>. QED BY <1>1, <1>2, <2>1, FreeStepKeepsTypes DEF CloseApi, Go, FreeSteps
<1>3. CASE ForgetLocal
  <2>1. MachinesTyped'
    BY <1>3 DEF ForgetLocal, MachinesTyped, hostVars, Opt
  <2>. QED BY <1>1, <1>3, <2>1, FreeStepKeepsTypes
           DEF ForgetLocal, Go, FreeSteps
<1>4. CASE Sweep
  <2>1. MachinesTyped'
    BY <1>4, OnlyResvKeepsTypes DEF Sweep, AfterRelease, MachinesTyped
  <2>2. /\ cli' \in Command /\ pc' \in FreeSteps /\ UNCHANGED ghostVars
    <3>1. \A r : [cli EXCEPT !.stale = cli.stale \ {r}] \in Command
      BY <1>1 DEF Command
    <3>. QED BY <1>1, <1>4, <3>1 DEF Sweep, Go, FreeSteps
  <2>. QED BY <2>1, <2>2, FreeStepKeepsTypes
<1>5. CASE Uninstall
  <2>1. MachinesTyped'
    BY <1>1, <1>5 DEF Uninstall, MachinesTyped, Command, localVars
  <2>. QED BY <1>5, <2>1, EndKeepsTypes DEF Uninstall, End, Go, AtRest
<1>. QED BY <1>2, <1>3, <1>4, <1>5

LEMMA DownTyped ==
  ASSUME MachinesTyped, CommandTyped, Down
  PROVE  MachinesTyped' /\ CommandTyped' /\ UNCHANGED ghostVars
  BY LookBeforeTyped, DestroyTyped, LeaveNothingTyped DEF Down

-----------------------------------------------------------------------------
(* Commands typed, and what happens besides                                *)

LEMMA AskTyped ==
  ASSUME MachinesTyped, HistoryTyped, Ask
  PROVE  MachinesTyped' /\ CommandTyped' /\ HistoryTyped'
<1>1. PICK s \in {"up.list", "down.list"}, c \in Command : Begin(s, c)
  <2>1. CASE \E nodes \in 0..MaxNodes : AskUp(nodes)
    <3>1. PICK nodes \in 0..MaxNodes :
            Begin("up.list", [NoCommand EXCEPT !.want = nodes])
      BY <2>1 DEF AskUp
    <3>2. [NoCommand EXCEPT !.want = nodes] \in Command
      BY NoCommandTyped DEF Command
    <3>. QED BY <3>1, <3>2
  <2>2. CASE AskDown
    <3>1. [NoCommand EXCEPT !.host = hostInstalled] \in Command
      BY NoCommandTyped DEF Command, MachinesTyped
    <3>. QED BY <2>2, <3>1 DEF AskDown
  <2>. QED BY <2>1, <2>2 DEF Ask
<1>2. MachinesTyped'
  BY <1>1, LooksKeepsTypes DEF Begin
<1>3. CommandTyped'
  BY <1>1, FreeStepKeepsTypes DEF Begin, FreeSteps
<1>4. HistoryTyped'
  BY <1>1 DEF Begin, HistoryTyped
<1>. QED BY <1>2, <1>3, <1>4

LEMMA RunsKeepsTypes ==
  ASSUME CommandTyped, Runs
  PROVE  CommandTyped'
  BY DEF CommandTyped, CommandOK, Runs

LEMMA MachineTyped ==
  ASSUME MachinesTyped, CommandTyped, HistoryTyped, Machine
  PROVE  MachinesTyped' /\ CommandTyped' /\ HistoryTyped'
<1>1. CommandTyped' /\ HistoryTyped'
  BY RunsKeepsTypes, SameHistory DEF Machine, Lease, FinishBoot, RegainLibvirt
<1>2. CASE Lease
  <2>1. PICK n \in Nodes, a \in Addrs : /\ vm' = [vm EXCEPT ![n].addr = a]
                                        /\ OnlyVm
    <3>1. \A n \in Nodes : MachinesTyped => Leasable(n) \subseteq Addrs
      BY DEF Leasable, MachinesTyped, Reservation
    <3>. QED BY <1>2, <3>1 DEF Lease, DhcpLease, OnlyVm
  <2>2. [vm[n] EXCEPT !.addr = a] \in VM
    BY VmTyped, VmFields DEF Opt
  <2>3. vm' = [vm EXCEPT ![n] = [vm[n] EXCEPT !.addr = a]]
    BY <2>1
  <2>4. vm' \in [Nodes -> VM]
    BY <2>2, <2>3, VmUpdate DEF MachinesTyped
  <2>. QED BY <1>1, <2>1, <2>4, OnlyVmKeepsTypes
<1>3. CASE FinishBoot
  <2>1. PICK n \in Nodes : /\ vm' = [vm EXCEPT ![n].account = TRUE]
                           /\ OnlyVm
    BY <1>3 DEF FinishBoot, CloudInit, OnlyVm
  <2>2. [vm[n] EXCEPT !.account = TRUE] \in VM
    BY VmTyped, VmFields
  <2>3. vm' = [vm EXCEPT ![n] = [vm[n] EXCEPT !.account = TRUE]]
    BY <2>1
  <2>4. vm' \in [Nodes -> VM]
    BY <2>2, <2>3, VmUpdate DEF MachinesTyped
  <2>. QED BY <1>1, <2>1, <2>4, OnlyVmKeepsTypes
<1>4. CASE RegainLibvirt
  BY <1>1, <1>4 DEF RegainLibvirt, LibvirtRestarts, MachinesTyped, localVars
<1>. QED BY <1>2, <1>3, <1>4 DEF Machine

LEMMA PowerOffTyped ==
  ASSUME MachinesTyped, NEW n \in Nodes, PowerOff(n)
  PROVE  MachinesTyped'
<1>1. vm' = [vm EXCEPT ![n] = [vm[n] EXCEPT !.on = FALSE, !.addr = None]]
  BY DEF PowerOff
<1>2. [vm[n] EXCEPT !.on = FALSE, !.addr = None] \in VM
  BY VmTyped, VmFields DEF Opt
<1>3. vm' \in [Nodes -> VM]
  BY <1>1, <1>2, VmUpdate DEF MachinesTyped
<1>. QED BY <1>3, OnlyVmKeepsTypes DEF PowerOff, OnlyVm

LEMMA RebootTyped ==
  ASSUME MachinesTyped, Reboot
  PROVE  MachinesTyped'
<1>1. \A n \in Nodes : [vm[n] EXCEPT !.on = Defined(n), !.addr = None] \in VM
  BY VmTyped, VmFields DEF Opt, Defined
<1>2. vm' \in [Nodes -> VM]
  BY <1>1 DEF Reboot
<1>3. fwd' \in [script : Opt(Addrs), enabled : BOOLEAN, rule : Opt(Addrs)]
  BY DEF Reboot, MachinesTyped, Opt
<1>4. libvirt' \in {"absent", "up"}
  BY DEF Reboot
<1>. QED BY <1>2, <1>3, <1>4 DEF Reboot, MachinesTyped, localVars

LEMMA StrikesCounts ==
  ASSUME HistoryTyped, NEW kind, Strikes(kind)
  PROVE  faults' \in 0..MaxFaults
  BY MaxFaultsAssumption DEF HistoryTyped, Strikes

LEMMA InterruptsStrikes ==
  ASSUME NEW kind, Interrupts(kind)
  PROVE  \E k : Strikes(k)
  BY DEF Interrupts

LEMMA TroubleTyped ==
  ASSUME MachinesTyped, CommandTyped, HistoryTyped, Trouble
  PROVE  MachinesTyped' /\ CommandTyped' /\ HistoryTyped'
<1>1. faults' \in 0..MaxFaults
  BY StrikesCounts, InterruptsStrikes
  DEF Trouble, Abort, RestartFails, UndefineFails, Meddle, Shake, LoseLibvirt
<1>2. HistoryTyped'
  BY <1>1 DEF HistoryTyped, Trouble, Abort, RestartFails, UndefineFails,
              Meddle, Shake, LoseLibvirt
<1>3. CASE Abort \/ RestartFails \/ UndefineFails
  <2>1. CommandTyped'
    BY <1>3, EndKeepsTypes DEF Abort, RestartFails, UndefineFails, AtRest
  <2>2. CASE Abort
    BY <1>2, <2>1, <2>2, LooksKeepsTypes DEF Abort
  <2>3. CASE RestartFails
    <3>1. fwd' \in [script : Opt(Addrs), enabled : BOOLEAN, rule : Opt(Addrs)]
      BY <2>3 DEF RestartFails, MachinesTyped, Opt
    <3>. QED BY <1>2, <2>1, <2>3, <3>1, OnlyFwdKeepsTypes DEF RestartFails
  <2>4. CASE UndefineFails
    <3>1. cli.cur \in Nodes
      BY <2>4, AtDestroy DEF UndefineFails, DestroySteps
    <3>. QED BY <1>2, <2>1, <2>4, <3>1, PowerOffTyped DEF UndefineFails
  <2>. QED BY <1>3, <2>2, <2>3, <2>4
<1>4. CASE Meddle \/ Shake \/ LoseLibvirt
  <2>1. CommandTyped'
    BY <1>4, RunsKeepsTypes DEF Meddle, Shake, LoseLibvirt
  <2>2. CASE \E n \in Nodes : HandUndefine(n)
    <3>1. vm' \in [Nodes -> VM]
      BY <2>2, VmUpdate, NoVmTyped DEF HandUndefine, MachinesTyped
    <3>. QED BY <1>2, <2>1, <2>2, <3>1, OnlyVmKeepsTypes
             DEF HandUndefine, OnlyVm
  <2>3. CASE LoseKey
    BY <1>2, <2>1, <2>3 DEF LoseKey, MachinesTyped, hostVars, Opt
  <2>4. CASE HandInstall
    BY <1>2, <2>1, <2>4 DEF HandInstall, MachinesTyped, localVars
  <2>5. CASE \E n \in Nodes : PowerOff(n)
    BY <1>2, <2>1, <2>5, PowerOffTyped
  <2>6. CASE Reboot
    BY <1>2, <2>1, <2>6, RebootTyped
  <2>7. CASE LibvirtFails
    BY <1>2, <2>1, <2>7 DEF LibvirtFails, MachinesTyped, localVars
  <2>. QED BY <1>4, <2>2, <2>3, <2>4, <2>5, <2>6, <2>7
           DEF Meddle, Shake, LoseLibvirt
<1>. QED BY <1>3, <1>4 DEF Trouble

LEMMA InitTyped ==
  ASSUME Init
  PROVE  MachinesTyped /\ CommandTyped /\ HistoryTyped
<1>1. vm \in [Nodes -> VM]
  BY NoVmTyped DEF Init, HostInit
<1>2. MachinesTyped
  BY <1>1 DEF Init, HostInit, MachinesTyped, NoForwarding, Opt
<1>3. cli \in Command
  BY NoCommandTyped DEF Init
<1>4. CommandTyped
  BY <1>3 DEF Init, CommandTyped, CommandOK, AtRest, CreateSteps
<1>5. HistoryTyped
  BY MaxFaultsAssumption DEF Init, HistoryTyped
<1>. QED BY <1>2, <1>4, <1>5

LEMMA StutterTyped ==
  ASSUME MachinesTyped, CommandTyped, HistoryTyped, UNCHANGED vars
  PROVE  MachinesTyped' /\ CommandTyped' /\ HistoryTyped'
<1>1. MachinesTyped'
  BY DEF vars, MachinesTyped
<1>2. CommandTyped'
  BY RunsKeepsTypes DEF vars, Runs
<1>3. HistoryTyped'
  BY DEF vars, HistoryTyped
<1>. QED BY <1>1, <1>2, <1>3

LEMMA NextTyped ==
  ASSUME TypeOK, [Next]_vars
  PROVE  TypeOK'
<1>. SUFFICES MachinesTyped' /\ CommandTyped' /\ HistoryTyped'
  BY DEF TypeOK, MachinesTyped, CommandTyped, HistoryTyped
<1>. MachinesTyped /\ CommandTyped /\ HistoryTyped
  BY TypeParts
<1>1. CASE Ask
  BY <1>1, AskTyped
<1>2. CASE Up
  BY <1>2, UpTyped, SameHistory
<1>3. CASE Down
  BY <1>3, DownTyped, SameHistory
<1>4. CASE Machine
  BY <1>4, MachineTyped
<1>5. CASE Trouble
  BY <1>5, TroubleTyped
<1>6. CASE UNCHANGED vars
  BY <1>6, StutterTyped
<1>. QED BY <1>1, <1>2, <1>3, <1>4, <1>5, <1>6 DEF Next

\* Whatever is typed, interrupted, switched off or done by hand, the records
\* about the host and the workstation keep their shape, and a command never
\* reaches a step without what the step works on: the node, its MAC and the
\* address wait_for_ip answered.
THEOREM TypeCorrect == Spec => []TypeOK
<1>1. Init => TypeOK
  BY InitTyped, TypeParts
<1>. QED BY <1>1, NextTyped, PTL DEF Spec

-----------------------------------------------------------------------------
(* Consent                                                                 *)

\* The steps of down that follow the confirmation.
AgreedSteps ==
  DestroySteps \cup {"destroy.preflight", "down.close", "down.local",
                     "down.sweep", "down.uninstall"}
\* Inductive: past the confirmation there is consent if there is something to
\* destroy, and the VM being destroyed is one of those that were listed.
ConsentOK ==
  /\ pc \in AgreedSteps /\ DestroysCluster => cli.consent
  /\ pc \in DestroySteps => cli.cur \in cli.listed

LEMMA ConsentElsewhere ==
  ASSUME pc' \notin AgreedSteps
  PROVE  ConsentOK'
  BY DEF ConsentOK, AgreedSteps

\* A step among the destroying ones that leaves the lists and the answer.
LEMMA ConsentStays ==
  ASSUME ConsentOK, pc \in AgreedSteps,
         cli'.listed = cli.listed, cli'.host = cli.host,
         cli'.consent = cli.consent,
         pc' \in DestroySteps => cli'.cur \in cli.listed
  PROVE  ConsentOK'
  BY DEF ConsentOK, DestroysCluster

LEMMA UpConsent ==
  ASSUME CommandTyped, Up
  PROVE  ConsentOK'
<1>1. pc' \in AtRest \cup UpSteps
  <2>1. CASE ListForUp \/ Setup \/ Inspect
    BY <2>1 DEF ListForUp, Setup, Inspect, NextNode, Fail, End, Go, AtRest,
                UpSteps, CreateSteps
  <2>2. CASE Create
    BY <2>2 DEF Create, CreatePreflight, EnsureLocalKey, CreateDisk, Boot,
                Start, WaitForIp, ForgetHostKey, Unreserve, Reserve,
                WaitForSsh, NextNode, Fail, End, Go, AtRest, UpSteps,
                CreateSteps
  <2>3. CASE Expose \/ ClusterUp
    BY <2>3 DEF Expose, ExposeWrite, ExposeEnable, ExposeRestart, ClusterUp,
                ClusterServer, ClusterStart, ClusterWait, ClusterJoin,
                ClusterEnter, NextAgent, ClusterReady, FetchKubeconfig,
                MergeKubeconfig, Fail, End, Go, AtRest, UpSteps, CreateSteps
  <2>. QED BY <2>1, <2>2, <2>3 DEF Up
<1>2. pc' \notin AgreedSteps
  BY <1>1 DEF AgreedSteps, DestroySteps, AtRest, UpSteps, CreateSteps
<1>. QED BY <1>2, ConsentElsewhere

\* The prompt: a cluster is destroyed on --yes or on the answer yes only.
LEMMA ConfirmConsent ==
  ASSUME CommandTyped, Confirm
  PROVE  ConsentOK'
<1>1. PICK yes \in BOOLEAN, tty \in BOOLEAN,
           answer \in {"yes", "no", "broken"} :
        IF Granted(yes, tty, answer)
        THEN Go(IF cli.listed # {} \/ cli.fwd THEN "destroy.preflight"
                                              ELSE "down.sweep",
                [cli EXCEPT !.consent = yes \/ (tty /\ answer = "yes")])
        ELSE Fail
  BY DEF Confirm
<1>2. CASE Granted(yes, tty, answer)
  <2>1. DestroysCluster => yes \/ (tty /\ answer = "yes")
    BY <1>2 DEF Granted, Confirmed
  <2>2. /\ cli'.listed = cli.listed /\ cli'.host = cli.host
        /\ cli'.consent = (yes \/ (tty /\ answer = "yes"))
        /\ pc' \in {"destroy.preflight", "down.sweep"}
    BY <1>1, <1>2 DEF Go, CommandTyped, Command
  <2>3. pc' \notin DestroySteps
    BY <2>2 DEF DestroySteps
  <2>. QED BY <2>1, <2>2, <2>3 DEF ConsentOK, DestroysCluster
<1>3. CASE ~Granted(yes, tty, answer)
  <2>1. pc' = "idle"
    BY <1>1, <1>3 DEF Fail, End, Go
  <2>. QED BY <2>1, ConsentElsewhere DEF AgreedSteps, DestroySteps
<1>. QED BY <1>2, <1>3

LEMMA DestroyConsent ==
  ASSUME CommandTyped, ConsentOK, Destroy
  PROVE  ConsentOK'
<1>1. cli \in Command /\ pc \in AgreedSteps
  BY DEF CommandTyped, Destroy, DestroyPreflight, ReadMac, Undefine,
         ReleaseAddress, VerifyRemoval, AgreedSteps, DestroySteps
<1>2. CASE Fail
  BY <1>2, ConsentElsewhere DEF Fail, End, Go, AgreedSteps, DestroySteps
<1>3. CASE DestroyPreflight
  <2>1. CASE Go("down.close", [cli EXCEPT !.cur = 0])
    <3>1. pc' \notin DestroySteps
      BY <2>1 DEF Go, DestroySteps
    <3>. QED BY <1>1, <2>1, <3>1, ConsentStays DEF Go, Command
  <2>2. CASE \E n \in cli.listed :
               Go(IF VmState(n) = "" THEN "destroy.preflight"
                                     ELSE "destroy.mac",
                  [cli EXCEPT !.cur = n])
    <3>1. PICK n \in cli.listed : cli' = [cli EXCEPT !.cur = n]
      BY <2>2 DEF Go
    <3>. QED BY <1>1, <3>1, ConsentStays DEF Command
  <2>. QED BY <1>3, <2>1, <2>2 DEF DestroyPreflight
<1>4. CASE (ReadMac \/ Undefine \/ ReleaseAddress \/ VerifyRemoval) /\ ~Fail
  <2>1. pc \in DestroySteps
    BY <1>4 DEF ReadMac, Undefine, ReleaseAddress, VerifyRemoval, DestroySteps
  <2>2. /\ cli'.listed = cli.listed /\ cli'.host = cli.host
        /\ cli'.consent = cli.consent /\ cli'.cur = cli.cur
    BY <1>1, <1>4 DEF ReadMac, Undefine, ReleaseAddress, VerifyRemoval, Go,
                      Command
  <2>. QED BY <1>1, <2>1, <2>2, ConsentStays DEF ConsentOK
<1>. QED BY <1>2, <1>3, <1>4 DEF Destroy

LEMMA LastConsent ==
  ASSUME CommandTyped, ConsentOK, CloseApi \/ ForgetLocal \/ Sweep \/ Uninstall
  PROVE  ConsentOK'
<1>1. cli \in Command /\ pc \in AgreedSteps
  BY DEF CommandTyped, CloseApi, ForgetLocal, Sweep, Uninstall, AgreedSteps
<1>2. CASE Uninstall
  BY <1>2, ConsentElsewhere DEF Uninstall, End, Go, AgreedSteps, DestroySteps
<1>3. CASE CloseApi \/ ForgetLocal \/ Sweep
  <2>1. pc' \notin DestroySteps
    BY <1>3 DEF CloseApi, ForgetLocal, Sweep, Go, DestroySteps
  <2>2. /\ cli'.listed = cli.listed /\ cli'.host = cli.host
        /\ cli'.consent = cli.consent
    BY <1>1, <1>3 DEF CloseApi, ForgetLocal, Sweep, Go, Command
  <2>. QED BY <1>1, <2>1, <2>2, ConsentStays
<1>. QED BY <1>2, <1>3

LEMMA LookConsent ==
  ASSUME ListForDown \/ LookForForwarding \/ LookForStale
  PROVE  ConsentOK'
<1>1. pc' \notin AgreedSteps
  BY DEF ListForDown, LookForForwarding, LookForStale, Fail, End, Go,
         AgreedSteps, DestroySteps
<1>. QED BY <1>1, ConsentElsewhere

LEMMA ConsentRuns ==
  ASSUME ConsentOK, Runs
  PROVE  ConsentOK'
  BY DEF ConsentOK, DestroysCluster, Runs

LEMMA ConsentKept ==
  ASSUME CommandTyped, ConsentOK, [Next]_vars
  PROVE  ConsentOK'
<1>1. CASE Ask
  <2>1. pc' \in {"up.list", "down.list"}
    BY <1>1 DEF Ask, AskUp, AskDown, Begin
  <2>. QED BY <2>1, ConsentElsewhere DEF AgreedSteps, DestroySteps
<1>2. CASE Down
  BY <1>2, LookConsent, ConfirmConsent, DestroyConsent, LastConsent DEF Down
<1>3. CASE Abort \/ RestartFails \/ UndefineFails
  BY <1>3, ConsentElsewhere
  DEF Abort, RestartFails, UndefineFails, AgreedSteps, DestroySteps
<1>4. CASE Machine \/ Meddle \/ Shake \/ LoseLibvirt \/ UNCHANGED vars
  <2>1. Runs
    BY <1>4 DEF Machine, Lease, FinishBoot, RegainLibvirt, Meddle, Shake,
                LoseLibvirt, vars, Runs
  <2>. QED BY <2>1, ConsentRuns
<1>. QED BY <1>1, <1>2, <1>3, <1>4, UpConsent DEF Next, Trouble

\* A VM that is there stays there, and so does a distribution on the host.
Kept ==
  /\ \A n \in Nodes : Defined(n) => vm'[n].mac # None
  /\ hostInstalled' = hostInstalled

LEMMA SameVmsKept ==
  ASSUME UNCHANGED <<vm, hostInstalled>>
  PROVE  Kept
  BY DEF Kept, Defined

LEMMA UpKeepsVms ==
  ASSUME MachinesTyped, CommandTyped, Up
  PROVE  Kept
<1>. USE DEF localVars
<1>1. CASE ListForUp \/ Setup \/ Inspect \/ Expose
  BY <1>1, SameVmsKept
  DEF ListForUp, Setup, Inspect, Expose, ExposeWrite, ExposeEnable,
      ExposeRestart, OnlyFwd, Looks, hostVars
<1>2. CASE \/ CreatePreflight \/ EnsureLocalKey \/ WaitForIp \/ ForgetHostKey
           \/ Unreserve \/ Reserve \/ WaitForSsh
  BY <1>2, SameVmsKept
  DEF CreatePreflight, EnsureLocalKey, WaitForIp, ForgetHostKey, Unreserve,
      Reserve, WaitForSsh, OnlyResv, Looks, hostVars
<1>3. CASE CreateDisk
  <2>1. hostInstalled' = hostInstalled
    BY <1>3 DEF CreateDisk, OnlyVm
  <2>2. CASE \E i \in Ids :
               vm' = [vm EXCEPT ![cli.cur] =
                        [NoVm EXCEPT !.mac = vm[cli.cur].mac,
                                     !.disk = i, !.key = cli.key]]
    <3>1. \A m, i : [NoVm EXCEPT !.mac = m, !.disk = i,
                                !.key = cli.key].mac = m
      BY DEF NoVm
    <3>2. \A n \in Nodes : vm'[n].mac = vm[n].mac
      BY <2>2, <3>1 DEF MachinesTyped
    <3>. QED BY <2>1, <3>2 DEF Kept, Defined
  <2>3. CASE vm' = vm
    BY <2>1, <2>3, SameVmsKept
  <2>. QED BY <1>3, <2>2, <2>3 DEF CreateDisk, Least, FreshIds
<1>4. CASE Boot
  <2>1. hostInstalled' = hostInstalled
    BY <1>4 DEF Boot, OnlyVm
  <2>2. \A n \in Nodes : Defined(n) => vm'[n] = vm[n]
    BY <1>4 DEF Boot, MachinesTyped
  <2>. QED BY <2>1, <2>2 DEF Kept, Defined
<1>5. CASE Start
  <2>1. hostInstalled' = hostInstalled
    BY <1>5 DEF Start, OnlyVm
  <2>2. \/ vm' = vm
        \/ vm' = [vm EXCEPT ![cli.cur] = [vm[cli.cur] EXCEPT !.on = TRUE]]
    BY <1>5 DEF Start
  <2>3. \A v \in VM : [v EXCEPT !.on = TRUE].mac = v.mac
    BY DEF VM
  <2>4. \A n \in Nodes : vm'[n].mac = vm[n].mac
    BY <2>2, <2>3, VmTyped DEF MachinesTyped
  <2>. QED BY <2>1, <2>4 DEF Kept, Defined
<1>6. CASE ClusterServer \/ ClusterStart \/ ClusterJoin \/ ClusterEnter
  <2>1. hostInstalled' = hostInstalled
    BY <1>6 DEF ClusterServer, ClusterStart, ClusterJoin, ClusterEnter, OnlyVm
  <2>2. \/ vm' = vm
        \/ \E s \in Nodes : vm' = [vm EXCEPT ![s].installed = TRUE]
        \/ \E s \in Nodes : \E c : vm' = [vm EXCEPT ![s].cluster = c]
    <3>1. CASE ClusterServer
      BY <3>1 DEF ClusterServer, Enterable, AtAddress
    <3>2. CASE ClusterStart
      BY <3>2 DEF ClusterStart, Enterable, AtAddress
    <3>3. CASE ClusterJoin
      BY <3>3 DEF ClusterJoin, Enterable, AtAddress
    <3>4. CASE ClusterEnter
      BY <3>4 DEF ClusterEnter, Enterable, AtAddress
    <3>. QED BY <1>6, <3>1, <3>2, <3>3, <3>4
  <2>3. \A n \in Nodes : vm'[n].mac = vm[n].mac
    BY <2>2 DEF MachinesTyped, VM
  <2>. QED BY <2>1, <2>3 DEF Kept, Defined
<1>7. CASE ClusterWait \/ ClusterReady \/ FetchKubeconfig \/ MergeKubeconfig
  BY <1>7, SameVmsKept
  DEF ClusterWait, ClusterReady, FetchKubeconfig, MergeKubeconfig, Looks, hostVars
<1>. QED BY <1>1, <1>2, <1>3, <1>4, <1>5, <1>6, <1>7 DEF Up, Create, ClusterUp

\* down removes VMs in one step and the host's distribution in another.
LEMMA DownKeepsVms ==
  ASSUME MachinesTyped, CommandTyped, Down, ~Undefine, ~Uninstall
  PROVE  Kept
<1>1. UNCHANGED <<vm, hostInstalled>>
  BY DEF Down, ListForDown, LookForForwarding, LookForStale, Confirm, Destroy,
         DestroyPreflight, ReadMac, ReleaseAddress, VerifyRemoval, CloseApi,
         ForgetLocal, Sweep, OnlyResv, OnlyFwd, Looks, hostVars
<1>. QED BY <1>1, SameVmsKept

\* Trouble that ends the command switches VMs off at most.
LEMMA TroubleKeepsVms ==
  ASSUME MachinesTyped, CommandTyped, Abort \/ RestartFails \/ UndefineFails
  PROVE  Kept
<1>1. CASE Abort \/ RestartFails
  BY <1>1, SameVmsKept DEF Abort, RestartFails, OnlyFwd, Looks, hostVars
<1>2. CASE UndefineFails
  <2>1. hostInstalled' = hostInstalled
    BY <1>2 DEF UndefineFails, PowerOff
  <2>2. \A n \in Nodes : vm'[n].mac = vm[n].mac
    BY <1>2 DEF UndefineFails, PowerOff, MachinesTyped, VM
  <2>. QED BY <2>1, <2>2 DEF Kept, Defined
<1>. QED BY <1>1, <1>2

\* A step of a command either keeps everything or is agreed to.
LEMMA StepAgreed ==
  ASSUME MachinesTyped, CommandTyped, ConsentOK, [Next]_vars, pc' # pc
  PROVE  /\ \A n \in Nodes : Defined(n) /\ vm'[n].mac = None
                               => cli.consent /\ n \in cli.listed
         /\ hostInstalled /\ ~hostInstalled' => cli.consent
<1>1. CASE Ask
  <2>1. Kept
    BY <1>1, SameVmsKept DEF Ask, AskUp, AskDown, Begin, Looks, hostVars
  <2>. QED BY <2>1 DEF Kept
<1>2. CASE Up
  BY <1>2, UpKeepsVms DEF Kept
<1>3. CASE Down /\ ~Undefine /\ ~Uninstall
  BY <1>3, DownKeepsVms DEF Kept
<1>4. CASE Undefine
  <2>1. hostInstalled' = hostInstalled
    BY <1>4 DEF Undefine, OnlyVm
  <2>2. cli.cur \in cli.listed
    BY <1>4 DEF Undefine, ConsentOK, DestroySteps
  <2>3. cli.consent
    BY <1>4, <2>2
    DEF Undefine, ConsentOK, DestroysCluster, AgreedSteps, DestroySteps
  <2>4. \A n \in Nodes : n # cli.cur => vm'[n] = vm[n]
    BY <1>4 DEF Undefine, MachinesTyped
  <2>. QED BY <2>1, <2>2, <2>3, <2>4 DEF Defined
<1>5. CASE Uninstall
  <2>1. vm' = vm
    BY <1>5 DEF Uninstall
  <2>2. hostInstalled /\ ~hostInstalled' => cli.host
    BY <1>5 DEF Uninstall, CommandTyped, Command
  <2>3. cli.host => cli.consent
    BY <1>5 DEF Uninstall, ConsentOK, DestroysCluster, AgreedSteps
  <2>. QED BY <2>1, <2>2, <2>3 DEF Defined
<1>6. CASE Abort \/ RestartFails \/ UndefineFails
  BY <1>6, TroubleKeepsVms DEF Kept
<1>7. CASE Machine \/ Meddle \/ Shake \/ LoseLibvirt \/ UNCHANGED vars
  BY <1>7 DEF Machine, Lease, FinishBoot, RegainLibvirt, Meddle, Shake,
              LoseLibvirt, vars, Runs
<1>. QED BY <1>1, <1>2, <1>3, <1>4, <1>5, <1>6, <1>7 DEF Next, Trouble

\* SSHerpa never takes away a VM that it has not listed to the operator, nor
\* a VM or a host-mode distribution that the operator has not agreed to lose:
\* not at a prompt that breaks, not without a terminal, and not when the host
\* changes between the listing and the removal.
THEOREM NothingIsLostUnasked == Spec => NothingLostUnasked
<1>1. Init => ConsentOK
  BY DEF Init, ConsentOK, AgreedSteps, DestroySteps
<1>2. ConsentOK /\ TypeOK /\ [Next]_vars => ConsentOK'
  BY ConsentKept, TypeParts
<1>3. ConsentOK /\ TypeOK /\ [Next]_vars =>
        [pc' # pc =>
           /\ \A n \in Nodes : Defined(n) /\ vm'[n].mac = None
                                 => cli.consent /\ n \in cli.listed
           /\ hostInstalled /\ ~hostInstalled' => cli.consent]_vars
  BY StepAgreed, TypeParts
<1>. QED BY <1>1, <1>2, <1>3, TypeCorrect, PTL DEF Spec, NothingLostUnasked

-----------------------------------------------------------------------------
(* Reservations                                                            *)

\* The steps of up that follow virt.setup.
HostReadySteps == UpSteps \ {"up.list", "up.setup"}
\* Inductive: virt.setup has left libvirtd running, only a failure of it that
\* history has noted takes it away; and once the old entries are deleted
\* nothing but the command itself adds entries.
ReserveReady ==
  steady => /\ pc \in HostReadySteps => libvirt = "up"
            /\ pc = "create.reserve" =>
                 resv = WithoutReservation(cli.mac, cli.ips[cli.cur], cli.cur)

\* No step of up touches libvirtd once virt.setup is done, nor any history.
LEMMA UpKeepsLibvirt ==
  ASSUME Up, ~Setup
  PROVE  UNCHANGED <<libvirt, steady>>
<1>. USE DEF localVars, hostVars, ghostVars, Go, Fail, End
<1>1. CASE ListForUp \/ Inspect \/ Expose
  BY <1>1
  DEF ListForUp, Inspect, NextNode, Expose, ExposeWrite, ExposeEnable,
      ExposeRestart, OnlyFwd, Looks
<1>2. CASE Create
  BY <1>2
  DEF Create, CreatePreflight, EnsureLocalKey, CreateDisk, Boot, Start,
      WaitForIp, ForgetHostKey, Unreserve, Reserve, WaitForSsh, NextNode,
      OnlyResv, OnlyVm, Looks
<1>3. CASE ClusterUp
  BY <1>3
  DEF ClusterUp, ClusterServer, ClusterStart, ClusterWait, ClusterJoin,
      ClusterEnter, NextAgent, ClusterReady, FetchKubeconfig, MergeKubeconfig,
      OnlyVm, Looks
<1>. QED BY <1>1, <1>2, <1>3 DEF Up

\* A step of up other than the first two starts where the host is ready, and
\* only the deletion leads to the addition.
LEMMA UpFollows ==
  ASSUME Up, ~ListForUp, ~Setup
  PROVE  /\ pc \in HostReadySteps
         /\ pc' = "create.reserve" => Unreserve
<1>. USE DEF Go, Fail, End
<1>1. CASE Inspect \/ Expose
  BY <1>1
  DEF Inspect, NextNode, Expose, ExposeWrite, ExposeEnable, ExposeRestart,
      HostReadySteps, UpSteps, CreateSteps
<1>2. CASE Create
  BY <1>2
  DEF Create, CreatePreflight, EnsureLocalKey, CreateDisk, Boot, Start,
      WaitForIp, ForgetHostKey, Unreserve, Reserve, WaitForSsh, NextNode,
      HostReadySteps, UpSteps, CreateSteps
<1>3. CASE ClusterUp
  BY <1>3
  DEF ClusterUp, ClusterServer, ClusterStart, ClusterWait, ClusterJoin,
      ClusterEnter, NextAgent, ClusterReady, FetchKubeconfig, MergeKubeconfig,
      HostReadySteps, UpSteps, CreateSteps
<1>. QED BY <1>1, <1>2, <1>3 DEF Up

LEMMA NotReserving ==
  ASSUME pc' \notin HostReadySteps
  PROVE  ReserveReady'
  BY DEF ReserveReady, HostReadySteps, UpSteps, CreateSteps

\* After the deletion no entry shares the MAC, the address or the name.
LEMMA UnreserveClears ==
  ASSUME Unreserve, libvirt = "up"
  PROVE  resv' = WithoutReservation(cli.mac, cli.ips[cli.cur], cli.cur)'
<1>1. cli' = cli
  BY DEF Unreserve, Go
<1>. QED BY <1>1 DEF Unreserve, WithoutReservation

LEMMA UpReserveReady ==
  ASSUME ReserveReady, Up
  PROVE  ReserveReady'
<1>1. CASE ListForUp
  <2>1. pc' \notin HostReadySteps
    BY <1>1 DEF ListForUp, Fail, End, Go, HostReadySteps, UpSteps, CreateSteps
  <2>. QED BY <2>1, NotReserving
<1>2. CASE Setup
  BY <1>2 DEF Setup, Fail, End, Go, ReserveReady
<1>3. CASE ~ListForUp /\ ~Setup
  <2>1. UNCHANGED <<libvirt, steady>> /\ pc \in HostReadySteps
    BY <1>3, UpKeepsLibvirt, UpFollows
  <2>2. steady => libvirt = "up"
    BY <2>1 DEF ReserveReady
  <2>3. CASE Unreserve
    BY <2>1, <2>2, <2>3, UnreserveClears DEF ReserveReady
  <2>4. CASE ~Unreserve
    <3>1. pc' # "create.reserve"
      BY <1>3, <2>4, UpFollows
    <3>. QED BY <2>1, <2>2, <3>1 DEF ReserveReady
  <2>. QED BY <2>3, <2>4
<1>. QED BY <1>1, <1>2, <1>3

\* Whatever happens beside a command leaves the entries alone.
LEMMA BesideReserveReady ==
  ASSUME ReserveReady, Machine \/ Meddle \/ Shake \/ LoseLibvirt
  PROVE  ReserveReady'
<1>1. CASE LoseLibvirt
  BY <1>1 DEF LoseLibvirt, ReserveReady
<1>2. CASE Machine \/ Meddle \/ Shake
  <2>1. UNCHANGED <<pc, cli, resv, steady>>
    BY <1>2 DEF Machine, Lease, DhcpLease, FinishBoot, CloudInit,
                RegainLibvirt, LibvirtRestarts, Meddle, HandUndefine, LoseKey,
                HandInstall, Shake, PowerOff, Reboot, Runs, hostVars, ghostVars
  <2>2. libvirt = "up" => libvirt' = "up"
    BY <1>2 DEF Machine, Lease, DhcpLease, FinishBoot, CloudInit,
                RegainLibvirt, LibvirtRestarts, Meddle, HandUndefine, LoseKey,
                HandInstall, Shake, PowerOff, Reboot, hostVars
  <2>. QED BY <2>1, <2>2 DEF ReserveReady, WithoutReservation
<1>. QED BY <1>1, <1>2

LEMMA ReserveReadyKept ==
  ASSUME ReserveReady, [Next]_vars
  PROVE  ReserveReady'
<1>1. CASE Ask
  <2>1. pc' \in {"up.list", "down.list"}
    BY <1>1 DEF Ask, AskUp, AskDown, Begin
  <2>. QED BY <2>1, NotReserving DEF HostReadySteps, UpSteps, CreateSteps
<1>2. CASE Down
  <2>1. pc' \in AtRest \cup DownSteps
    BY <1>2 DEF Down, ListForDown, LookForForwarding, LookForStale, Confirm,
                Destroy, DestroyPreflight, ReadMac, Undefine, ReleaseAddress,
                VerifyRemoval, CloseApi, ForgetLocal, Sweep, Uninstall, Fail,
                End, Go, AtRest, DownSteps
  <2>2. pc' \notin HostReadySteps
    BY <2>1 DEF AtRest, DownSteps, HostReadySteps, UpSteps, CreateSteps
  <2>. QED BY <2>2, NotReserving
<1>3. CASE Abort \/ RestartFails \/ UndefineFails
  BY <1>3, NotReserving DEF Abort, RestartFails, UndefineFails, HostReadySteps,
                            UpSteps, CreateSteps
<1>4. CASE UNCHANGED vars
  BY <1>4 DEF vars, ReserveReady, WithoutReservation
<1>. QED BY <1>1, <1>2, <1>3, <1>4, UpReserveReady, BesideReserveReady
         DEF Next, Trouble

\* The addition of an address reservation is never refused for an entry that
\* an earlier command, a crash or a hand-made removal left behind, as long as
\* libvirtd answers.
THEOREM ReservationsNeverClash == Spec => []ReserveNeverClashes
<1>1. Init => ReserveReady
  BY DEF Init, ReserveReady, HostReadySteps, UpSteps, CreateSteps
<1>2. ReserveReady /\ [Next]_vars => ReserveReady'
  BY ReserveReadyKept
<1>3. ReserveReady => ReserveNeverClashes
  BY DEF ReserveReady, ReserveNeverClashes, CanReserve, HostReadySteps,
         UpSteps, CreateSteps
<1>. QED BY <1>1, <1>2, <1>3, PTL DEF Spec

-----------------------------------------------------------------------------
(* What a step leaves of a VM                                              *)

\* The domain and the disk of node n are the ones they were.
SameBuild(n) ==
  vm'[n].mac = vm[n].mac /\ vm'[n].disk = vm[n].disk /\ vm'[n].key = vm[n].key
\* Node n is left alone: its power, the address it has, the cluster it is in.
Stays(n) ==
  /\ SameBuild(n)
  /\ vm'[n].on = vm[n].on
  /\ vm[n].addr # None => vm'[n].addr = vm[n].addr
  /\ vm[n].cluster # None => vm'[n].cluster = vm[n].cluster

BuildSteps == {"create.key", "create.disk", "create.boot"}
ExposeSteps == {"expose.write", "expose.enable", "expose.restart"}
ClusterSteps == {"cluster.server", "cluster.start", "cluster.wait",
                 "cluster.join", "cluster.enter", "cluster.ready",
                 "cluster.fetch", "cluster.merge"}

LEMMA SameVmsStay ==
  ASSUME vm' = vm
  PROVE  \A n \in Nodes : Stays(n)
  BY DEF Stays, SameBuild

\* The steps of cluster.up change the marker of a VM, or give it the cluster
\* it does not have yet.
LEMMA ClusterChange ==
  ASSUME MachinesTyped, ClusterUp
  PROVE  /\ UNCHANGED <<libvirt, hostInstalled, resv, fwd, priv, pub, known>>
         /\ \/ vm' = vm
            \/ \E s \in Nodes : vm' = [vm EXCEPT ![s].installed = TRUE]
            \/ \E s \in Nodes : \E c :
                 vm' = [vm EXCEPT ![s].cluster = IF @ = None THEN c ELSE @]
<1>1. CASE ClusterServer \/ ClusterJoin
  BY <1>1 DEF ClusterServer, ClusterJoin, Enterable, AtAddress, OnlyVm,
              localVars
<1>3. CASE ClusterStart
  BY <1>3 DEF ClusterStart, Enterable, AtAddress, OnlyVm, localVars
<1>4. CASE ClusterEnter
  BY <1>4 DEF ClusterEnter, Servers, Enterable, AtAddress, OnlyVm, localVars
<1>2. CASE ClusterWait \/ ClusterReady \/ FetchKubeconfig \/ MergeKubeconfig
  BY <1>2 DEF ClusterWait, ClusterReady, FetchKubeconfig, MergeKubeconfig,
              Looks, hostVars, localVars
<1>. QED BY <1>1, <1>2, <1>3, <1>4 DEF ClusterUp

LEMMA ClusterStays ==
  ASSUME MachinesTyped, ClusterUp
  PROVE  \A n \in Nodes : Stays(n) /\ vm'[n].addr = vm[n].addr
<1>1. CASE vm' = vm
  BY <1>1, SameVmsStay
<1>2. CASE \E s \in Nodes : vm' = [vm EXCEPT ![s].installed = TRUE]
  BY <1>2 DEF Stays, SameBuild, MachinesTyped, VM
<1>3. CASE \E s \in Nodes : \E c :
             vm' = [vm EXCEPT ![s].cluster = IF @ = None THEN c ELSE @]
  <2>1. PICK s \in Nodes : \E c :
               vm' = [vm EXCEPT ![s].cluster = IF @ = None THEN c ELSE @]
    BY <1>3
  <2>2. PICK c : vm' = [vm EXCEPT ![s].cluster =
                          IF vm[s].cluster = None THEN c ELSE vm[s].cluster]
    BY <2>1
  <2>. QED BY <2>2 DEF Stays, SameBuild, MachinesTyped, VM
<1>. QED BY <1>1, <1>2, <1>3, ClusterChange

\* The steps of up that build or start a VM do it to the node of the plan
\* they are at; all others leave every VM alone.
LEMMA UpStays ==
  ASSUME MachinesTyped, CommandTyped, Up
  PROVE  \A n \in Nodes :
           Stays(n) \/ (n = cli.cur /\ (CreateDisk \/ Boot \/ Start))
<1>1. CASE ListForUp \/ Setup \/ Inspect \/ Expose
  BY <1>1, SameVmsStay
  DEF ListForUp, Setup, Inspect, Expose, ExposeWrite, ExposeEnable,
      ExposeRestart, OnlyFwd, Looks, hostVars
<1>2. CASE \/ CreatePreflight \/ EnsureLocalKey \/ WaitForIp \/ ForgetHostKey
           \/ Unreserve \/ Reserve \/ WaitForSsh
  BY <1>2, SameVmsStay
  DEF CreatePreflight, EnsureLocalKey, WaitForIp, ForgetHostKey, Unreserve,
      Reserve, WaitForSsh, OnlyResv, Looks, hostVars
<1>3. CASE CreateDisk \/ Boot \/ Start
  <2>1. \A n \in Nodes : n # cli.cur => vm'[n] = vm[n]
    BY <1>3 DEF CreateDisk, Boot, Start, MachinesTyped
  <2>. QED BY <1>3, <2>1 DEF Stays, SameBuild
<1>4. CASE ClusterUp
  BY <1>4, ClusterStays
<1>. QED BY <1>1, <1>2, <1>3, <1>4 DEF Up, Create

-----------------------------------------------------------------------------
(* VMs and addresses                                                       *)

\* Inductive: a VM that runs is defined, one with a lease runs, and neither a
\* MAC nor an address is that of two VMs.
VmsApart ==
  \A n \in Nodes :
    /\ vm[n].on => Defined(n)
    /\ vm[n].addr # None => vm[n].on
    /\ \A m \in Nodes \ {n} :
         /\ Defined(n) => vm[m].mac # vm[n].mac
         /\ vm[n].addr # None => vm[m].addr # vm[n].addr

LEMMA SameVmsApart ==
  ASSUME VmsApart, \A n \in Nodes : /\ vm'[n].mac = vm[n].mac
                                    /\ vm'[n].on = vm[n].on
                                    /\ vm'[n].addr = vm[n].addr
  PROVE  VmsApart'
  BY DEF VmsApart, Defined

\* A change of one VM: its MAC and its address are its own or new.
LEMMA OneVmApart ==
  ASSUME VmsApart, NEW n \in Nodes,
         \A m \in Nodes \ {n} : vm'[m] = vm[m],
         vm'[n].on => vm'[n].mac # None,
         vm'[n].addr # None => vm'[n].on,
         \/ vm'[n].mac \in {vm[n].mac, None}
         \/ \A m \in Nodes : vm[m].mac # vm'[n].mac,
         \/ vm'[n].addr \in {vm[n].addr, None}
         \/ \A m \in Nodes : vm[m].addr # vm'[n].addr
  PROVE  VmsApart'
  BY DEF VmsApart, Defined

\* The new identity of a VM is none that any VM has.
LEMMA FreshIsNew ==
  ASSUME NEW i \in Least(FreshIds), NEW m \in Nodes
  PROVE  i \in Ids /\ i # None /\ vm[m].mac # i
<1>1. i \in Ids /\ i \notin UsedIds
  BY DEF Least, FreshIds
<1>2. {vm[m].mac, vm[m].disk, vm[m].cluster} \subseteq UsedIds
  BY DEF UsedIds
<1>. QED BY <1>1, <1>2, NoneAssumption

\* What the three steps do that build or start the VM of a node.
LEMMA CreateDiskChange ==
  ASSUME MachinesTyped, CommandTyped, CreateDisk, vm' # vm
  PROVE  /\ cli.cur \in Nodes /\ Defined(cli.cur) /\ ~vm[cli.cur].on
         /\ vm'[cli.cur].mac = vm[cli.cur].mac
         /\ vm'[cli.cur].on = FALSE /\ vm'[cli.cur].addr = None
         /\ \A m \in Nodes \ {cli.cur} : vm'[m] = vm[m]
<1>1. cli.cur \in Nodes
  BY AtCreate DEF CreateDisk, CreateSteps
<1>2. PICK i \in Least(FreshIds) :
        vm' = [vm EXCEPT ![cli.cur] = [NoVm EXCEPT !.mac = vm[cli.cur].mac,
                                                   !.disk = i,
                                                   !.key = cli.key]]
  BY DEF CreateDisk
<1>. DEFINE v == [NoVm EXCEPT !.mac = vm[cli.cur].mac, !.disk = i,
                              !.key = cli.key]
<1>3. v.mac = vm[cli.cur].mac /\ v.on = FALSE /\ v.addr = None
  BY DEF NoVm
<1>4. vm' = [vm EXCEPT ![cli.cur] = v]
  BY <1>2
<1>5. Defined(cli.cur) /\ ~vm[cli.cur].on
  BY DEF CreateDisk
<1>. HIDE DEF v
<1>. QED BY <1>1, <1>3, <1>4, <1>5 DEF MachinesTyped

LEMMA BootChange ==
  ASSUME MachinesTyped, CommandTyped, Boot, vm' # vm
  PROVE  /\ cli.cur \in Nodes /\ libvirt = "up" /\ ~Defined(cli.cur)
         /\ \E i \in Least(FreshIds) : vm'[cli.cur].mac = i
         /\ vm'[cli.cur].on = TRUE /\ vm'[cli.cur].addr = None
         /\ \A m \in Nodes \ {cli.cur} : vm'[m] = vm[m]
<1>1. cli.cur \in Nodes
  BY AtCreate DEF Boot, CreateSteps
<1>2. PICK i \in Least(FreshIds) :
        vm' = [vm EXCEPT ![cli.cur] = [NoVm EXCEPT !.mac = i, !.disk = i,
                                                   !.on = TRUE,
                                                   !.key = cli.key]]
  BY DEF Boot
<1>. DEFINE v == [NoVm EXCEPT !.mac = i, !.disk = i, !.on = TRUE,
                              !.key = cli.key]
<1>3. v.mac = i /\ v.on = TRUE /\ v.addr = None
  BY DEF NoVm
<1>4. vm' = [vm EXCEPT ![cli.cur] = v]
  BY <1>2
<1>5. libvirt = "up" /\ ~Defined(cli.cur)
  BY DEF Boot
<1>. HIDE DEF v
<1>. QED BY <1>1, <1>2, <1>3, <1>4, <1>5 DEF MachinesTyped

LEMMA StartChange ==
  ASSUME MachinesTyped, CommandTyped, Start, vm' # vm
  PROVE  /\ cli.cur \in Nodes /\ Defined(cli.cur)
         /\ vm'[cli.cur].mac = vm[cli.cur].mac
         /\ vm'[cli.cur].on = TRUE /\ vm'[cli.cur].addr = vm[cli.cur].addr
         /\ \A m \in Nodes \ {cli.cur} : vm'[m] = vm[m]
<1>1. cli.cur \in Nodes
  BY AtCreate DEF Start, CreateSteps
<1>2. vm' = [vm EXCEPT ![cli.cur].on = TRUE] /\ Defined(cli.cur)
  BY DEF Start, VmState
<1>. QED BY <1>1, <1>2 DEF MachinesTyped, VM

LEMMA BuildApart ==
  ASSUME MachinesTyped, CommandTyped, VmsApart, CreateDisk \/ Boot \/ Start
  PROVE  VmsApart'
<1>1. CASE vm' = vm
  BY <1>1, SameVmsApart
<1>2. CASE CreateDisk /\ vm' # vm
  BY <1>2, CreateDiskChange, OneVmApart
<1>3. CASE Boot /\ vm' # vm
  <2>1. PICK i \in Least(FreshIds) : vm'[cli.cur].mac = i
    BY <1>3, BootChange
  <2>2. i # None /\ \A m \in Nodes : vm[m].mac # i
    BY <1>3, BootChange, FreshIsNew
  <2>. QED BY <1>3, <2>1, <2>2, BootChange, OneVmApart
<1>4. CASE Start /\ vm' # vm
  BY <1>4, StartChange, OneVmApart DEF Defined
<1>. QED BY <1>1, <1>2, <1>3, <1>4

LEMMA UpApart ==
  ASSUME MachinesTyped, CommandTyped, VmsApart, Up
  PROVE  VmsApart'
<1>1. CASE ClusterUp
  <2>1. \A n \in Nodes : /\ vm'[n].mac = vm[n].mac
                         /\ vm'[n].on = vm[n].on
                         /\ vm'[n].addr = vm[n].addr
    BY <1>1, ClusterStays DEF Stays, SameBuild
  <2>. QED BY <2>1, SameVmsApart
<1>2. CASE Create \/ ListForUp \/ Setup \/ Inspect \/ Expose
  <2>1. CASE CreateDisk \/ Boot \/ Start
    BY <2>1, BuildApart
  <2>2. CASE ~(CreateDisk \/ Boot \/ Start)
    <3>1. vm' = vm
      BY <1>2, <2>2
      DEF Create, CreatePreflight, EnsureLocalKey, WaitForIp, ForgetHostKey,
          Unreserve, Reserve, WaitForSsh, OnlyResv, Looks, hostVars,
          ListForUp, Setup, Inspect, Expose, ExposeWrite, ExposeEnable,
          ExposeRestart, OnlyFwd
    <3>. QED BY <3>1, SameVmsApart
  <2>. QED BY <2>1, <2>2
<1>. QED BY <1>1, <1>2 DEF Up

LEMMA RemovalApart ==
  ASSUME MachinesTyped, VmsApart, NEW n \in Nodes, vm' = [vm EXCEPT ![n] = NoVm]
  PROVE  VmsApart'
<1>1. /\ vm'[n].mac = None /\ vm'[n].on = FALSE /\ vm'[n].addr = None
      /\ \A m \in Nodes \ {n} : vm'[m] = vm[m]
  BY DEF MachinesTyped, NoVm
<1>. QED BY <1>1, OneVmApart

LEMMA DownApart ==
  ASSUME MachinesTyped, CommandTyped, VmsApart, Down
  PROVE  VmsApart'
<1>1. CASE Undefine
  <2>1. cli.cur \in Nodes
    BY <1>1, AtDestroy DEF Undefine, DestroySteps
  <2>. QED BY <1>1, <2>1, RemovalApart, SameVmsApart DEF Undefine
<1>2. CASE ~Undefine
  <2>1. vm' = vm
    BY <1>2
    DEF Down, ListForDown, LookForForwarding, LookForStale, Confirm, Destroy,
        DestroyPreflight, ReadMac, ReleaseAddress, VerifyRemoval, CloseApi,
        ForgetLocal, Sweep, Uninstall, OnlyResv, OnlyFwd, Looks, hostVars
  <2>. QED BY <2>1, SameVmsApart
<1>. QED BY <1>1, <1>2

LEMMA PowerOffApart ==
  ASSUME MachinesTyped, VmsApart, NEW n \in Nodes, PowerOff(n)
  PROVE  VmsApart'
<1>1. /\ vm'[n].mac = vm[n].mac /\ vm'[n].on = FALSE /\ vm'[n].addr = None
      /\ \A m \in Nodes \ {n} : vm'[m] = vm[m]
  BY DEF PowerOff, MachinesTyped, VM
<1>. QED BY <1>1, OneVmApart

LEMMA LeaseApart ==
  ASSUME MachinesTyped, VmsApart, NEW n \in Nodes, DhcpLease(n)
  PROVE  VmsApart'
<1>1. PICK a \in Leasable(n) : vm' = [vm EXCEPT ![n].addr = a]
  BY DEF DhcpLease
<1>2. \A m \in Nodes : vm[m].addr # a
  BY <1>1 DEF Leasable
<1>3. /\ vm'[n].mac = vm[n].mac /\ vm'[n].on = vm[n].on /\ vm'[n].addr = a
      /\ \A m \in Nodes \ {n} : vm'[m] = vm[m]
  BY <1>1 DEF MachinesTyped, VM
<1>4. vm[n].on /\ (vm[n].on => vm[n].mac # None)
  BY DEF DhcpLease, VmsApart, Defined
<1>. QED BY <1>2, <1>3, <1>4, OneVmApart

LEMMA BesideApart ==
  ASSUME MachinesTyped, CommandTyped, VmsApart, Machine \/ Trouble
  PROVE  VmsApart'
<1>1. CASE \E n \in Nodes : DhcpLease(n)
  BY <1>1, LeaseApart
<1>2. CASE \E n \in Nodes : CloudInit(n)
  <2>1. \A m \in Nodes : /\ vm'[m].mac = vm[m].mac /\ vm'[m].on = vm[m].on
                         /\ vm'[m].addr = vm[m].addr
    BY <1>2 DEF CloudInit, MachinesTyped, VM
  <2>. QED BY <2>1, SameVmsApart
<1>3. CASE \E n \in Nodes : HandUndefine(n)
  BY <1>3, RemovalApart DEF HandUndefine
<1>4. CASE \E n \in Nodes : PowerOff(n)
  BY <1>4, PowerOffApart
<1>5. CASE Reboot
  <2>1. \A n \in Nodes : /\ vm'[n].mac = vm[n].mac /\ vm'[n].addr = None
                         /\ vm'[n].on => Defined(n)
    BY <1>5 DEF Reboot, MachinesTyped, VM
  <2>. QED BY <2>1 DEF VmsApart, Defined
<1>6. CASE vm' = vm
  BY <1>6, SameVmsApart
<1>7. CASE UndefineFails
  <2>1. cli.cur \in Nodes
    BY <1>7, AtDestroy DEF UndefineFails, DestroySteps
  <2>. QED BY <1>7, <2>1, PowerOffApart DEF UndefineFails
<1>. QED BY <1>1, <1>2, <1>3, <1>4, <1>5, <1>6, <1>7
         DEF Machine, Lease, FinishBoot, RegainLibvirt, LibvirtRestarts,
             Trouble, Abort, RestartFails, Meddle, LoseKey, HandInstall,
             Shake, LoseLibvirt, LibvirtFails, OnlyFwd, Looks, hostVars

LEMMA ApartKept ==
  ASSUME TypeOK, VmsApart, [Next]_vars
  PROVE  VmsApart'
<1>. MachinesTyped /\ CommandTyped
  BY TypeParts
<1>1. CASE Ask \/ UNCHANGED vars
  BY <1>1, SameVmsApart DEF Ask, AskUp, AskDown, Begin, Looks, hostVars, vars
<1>. QED BY <1>1, UpApart, DownApart, BesideApart DEF Next

LEMMA ApartAtFirst == Init => VmsApart
  BY DEF Init, HostInit, NoVm, VmsApart, Defined

LEMMA VmsStayApart == Spec => []VmsApart
  BY ApartAtFirst, ApartKept, TypeCorrect, PTL DEF Spec

-----------------------------------------------------------------------------
(* How a command goes on                                                   *)

\* Whatever happens while the command that runs stands still.
Beside == Machine \/ Meddle \/ Shake \/ LoseLibvirt \/ UNCHANGED vars

LEMMA BesideRuns ==
  ASSUME Beside
  PROVE  UNCHANGED <<pc, cli, resv>>
  BY DEF Beside, Machine, Lease, DhcpLease, FinishBoot, CloudInit,
         RegainLibvirt, LibvirtRestarts, Meddle, HandUndefine, LoseKey,
         HandInstall, Shake, PowerOff, Reboot, LoseLibvirt, LibvirtFails,
         Runs, hostVars, vars

LEMMA NotUp ==
  ASSUME Ask \/ Down \/ Abort \/ RestartFails \/ UndefineFails
  PROVE  pc' \notin UpSteps \ {"up.list"}
<1>1. CASE Ask
  BY <1>1 DEF Ask, AskUp, AskDown, Begin, UpSteps, CreateSteps
<1>2. CASE Down
  <2>1. pc' \in AtRest \cup DownSteps
    BY <1>2
    DEF Down, ListForDown, LookForForwarding, LookForStale, Confirm, Destroy,
        DestroyPreflight, ReadMac, Undefine, ReleaseAddress, VerifyRemoval,
        CloseApi, ForgetLocal, Sweep, Uninstall, Fail, End, Go, AtRest,
        DownSteps
  <2>. QED BY <2>1 DEF AtRest, DownSteps, UpSteps, CreateSteps
<1>3. CASE Abort \/ RestartFails \/ UndefineFails
  BY <1>3 DEF Abort, RestartFails, UndefineFails, UpSteps, CreateSteps
<1>. QED BY <1>1, <1>2, <1>3

LEMMA UpGoesOn ==
  ASSUME [Next]_vars, pc' \in UpSteps \ {"up.list"}
  PROVE  Up \/ Beside
  BY NotUp DEF Next, Trouble, Beside

\* From node to node: the plan stays, and so do the addresses of the others.
LEMMA CreateFlow ==
  ASSUME CommandTyped, Create \/ Inspect, pc' \notin AtRest
  PROVE  /\ cli'.want = cli.want /\ cli'.listed = cli.listed
         /\ \A n \in Nodes : n # cli.cur => cli'.ips[n] = cli.ips[n]
         /\ pc # "create.ip" => cli'.ips = cli.ips
         /\ \/ /\ pc \in CreateSteps \ {"create.ssh"}
               /\ pc' \in CreateSteps \ {"create.preflight"}
               /\ cli'.cur = cli.cur
            \/ /\ pc = "create.ssh" /\ pc' = "up.inspect" /\ cli' = cli
               /\ cli.cur = 1 /\ cli.listed # {}
            \/ /\ pc \in {"create.ssh", "up.inspect"}
               /\ pc' = "create.preflight"
               /\ cli'.cur = cli.cur + 1 /\ cli.cur < cli.want
               /\ cli'.fresh = FALSE
            \/ /\ pc \in {"create.ssh", "up.inspect"} /\ pc' = "expose.write"
               /\ cli.cur = cli.want
<1>. /\ cli \in Command /\ cli.cur \in Nodes /\ cli.want \in Nodes
     /\ cli.cur <= cli.want
  BY AtCreate DEF Create, CreatePreflight, EnsureLocalKey, CreateDisk, Boot,
                  Start, WaitForIp, ForgetHostKey, Unreserve, Reserve,
                  WaitForSsh, Inspect, CreateSteps, CommandTyped, CommandOK
<1>. USE DEF Go, Fail, End, AtRest, CreateSteps
<1>1. CASE CreatePreflight
  BY <1>1 DEF CreatePreflight, Command
<1>2. CASE EnsureLocalKey
  BY <1>2 DEF EnsureLocalKey, Command
<1>3. CASE CreateDisk \/ Boot \/ Start
  <2>1. /\ pc \in {"create.disk", "create.boot", "create.start"}
        /\ pc' \in {"create.boot", "create.ip"} /\ cli' = cli
    <3>1. CASE CreateDisk
      BY <3>1 DEF CreateDisk
    <3>2. CASE Boot
      BY <3>2 DEF Boot
    <3>3. CASE Start
      BY <3>3 DEF Start
    <3>. QED BY <1>3, <3>1, <3>2, <3>3
  <2>. QED BY <2>1
<1>4. CASE WaitForIp
  BY <1>4 DEF WaitForIp, Command
<1>5. CASE ForgetHostKey \/ Unreserve \/ Reserve
  BY <1>5 DEF ForgetHostKey, Unreserve, Reserve
<1>6. CASE NextNode /\ pc \in {"create.ssh", "up.inspect"}
  <2>1. CASE cli.cur < cli.want
    BY <1>6, <2>1 DEF NextNode, Command
  <2>2. CASE ~(cli.cur < cli.want)
    <3>1. cli.cur = cli.want
      BY <2>2 DEF Nodes
    <3>. QED BY <1>6, <2>2, <3>1 DEF NextNode, Command
  <2>. QED BY <2>1, <2>2
<1>7. CASE WaitForSsh \/ Inspect
  BY <1>6, <1>7 DEF WaitForSsh, Inspect
<1>. QED BY <1>1, <1>2, <1>3, <1>4, <1>5, <1>7 DEF Create

\* The rest of up goes through its steps with the plan and the addresses.
LEMMA LaterFlow ==
  ASSUME CommandTyped, Expose \/ ClusterUp, pc' \notin AtRest
  PROVE  /\ cli'.want = cli.want /\ cli'.ips = cli.ips
         /\ \/ pc = "expose.write" /\ pc' = "expose.enable" /\ ExposeWrite
            \/ pc = "expose.enable" /\ pc' = "expose.restart" /\ ExposeEnable
            \/ pc = "expose.restart" /\ pc' = "cluster.server" /\ ExposeRestart
            \/ /\ pc \in ClusterSteps /\ ClusterUp
               /\ pc' \in ClusterSteps \ {"cluster.server"}
<1>. cli \in Command
  BY DEF CommandTyped
<1>. USE DEF Go, Fail, End, AtRest, ClusterSteps
<1>1. CASE Expose
  BY <1>1 DEF Expose, ExposeWrite, ExposeEnable, ExposeRestart
<1>2. CASE ClusterUp
  <2>1. CASE ClusterServer \/ ClusterStart
    BY <1>2, <2>1 DEF ClusterServer, ClusterStart
  <2>2. CASE ClusterWait
    BY <1>2, <2>2 DEF ClusterWait, Command
  <2>3. CASE ClusterJoin \/ ClusterEnter
    <3>1. /\ pc \in {"cluster.join", "cluster.enter"}
          /\ NextAgent \/ Go("cluster.enter", cli)
      BY <2>3 DEF ClusterJoin, ClusterEnter
    <3>2. CASE NextAgent
      BY <1>2, <3>1, <3>2 DEF NextAgent, Command
    <3>. QED BY <1>2, <3>1, <3>2
  <2>4. CASE ClusterReady \/ FetchKubeconfig \/ MergeKubeconfig
    BY <1>2, <2>4 DEF ClusterReady, FetchKubeconfig, MergeKubeconfig
  <2>. QED BY <1>2, <2>1, <2>2, <2>3, <2>4 DEF ClusterUp
<1>. QED BY <1>1, <1>2

\* Nobody but virt-install defines a VM.
LEMMA OnlyBootDefines ==
  ASSUME MachinesTyped, CommandTyped, [Next]_vars
  PROVE  \A n \in Nodes :
           vm'[n].mac # None =>
             Defined(n) \/ (Boot /\ libvirt = "up" /\ n = cli.cur)
<1>1. CASE Up
  <2>1. CASE CreateDisk \/ Boot \/ Start
    <3>1. CASE vm' = vm
      BY <3>1 DEF Defined
    <3>2. CASE vm' # vm
      BY <2>1, <3>2, CreateDiskChange, BootChange, StartChange DEF Defined
    <3>. QED BY <3>1, <3>2
  <2>3. CASE ~(CreateDisk \/ Boot \/ Start)
    <3>1. \A n \in Nodes : Stays(n)
      BY <1>1, <2>3, UpStays
    <3>. QED BY <3>1 DEF Stays, SameBuild, Defined
  <2>. QED BY <2>1, <2>3
<1>2. CASE Down
  <2>1. vm' = vm \/ vm' = [vm EXCEPT ![cli.cur] = NoVm]
    BY <1>2
    DEF Down, ListForDown, LookForForwarding, LookForStale, Confirm, Destroy,
        DestroyPreflight, ReadMac, Undefine, ReleaseAddress, VerifyRemoval,
        CloseApi, ForgetLocal, Sweep, Uninstall, OnlyResv, OnlyFwd, Looks,
        hostVars
  <2>. QED BY <2>1 DEF MachinesTyped, NoVm, Defined
<1>3. CASE Ask \/ Abort \/ RestartFails \/ UNCHANGED vars
  BY <1>3 DEF Ask, AskUp, AskDown, Begin, Abort, RestartFails, OnlyFwd, Looks,
              hostVars, vars, Defined
<1>4. CASE Machine \/ UndefineFails \/ Meddle \/ Shake \/ LoseLibvirt
  <2>1. CASE \E n \in Nodes : DhcpLease(n) \/ CloudInit(n) \/ PowerOff(n)
    BY <2>1 DEF DhcpLease, CloudInit, PowerOff, MachinesTyped, VM, Defined
  <2>2. CASE \E n \in Nodes : HandUndefine(n)
    BY <2>2 DEF HandUndefine, MachinesTyped, NoVm, Defined
  <2>3. CASE Reboot
    BY <2>3 DEF Reboot, MachinesTyped, VM, Defined
  <2>4. CASE UndefineFails
    <3>1. cli.cur \in Nodes
      BY <2>4, AtDestroy DEF UndefineFails, DestroySteps
    <3>. QED BY <2>1, <2>4, <3>1 DEF UndefineFails
  <2>5. CASE vm' = vm
    BY <2>5 DEF Defined
  <2>. QED BY <1>4, <2>1, <2>2, <2>3, <2>4, <2>5
           DEF Machine, Lease, FinishBoot, RegainLibvirt, LibvirtRestarts,
               Meddle, LoseKey, HandInstall, Shake, LoseLibvirt, LibvirtFails,
               hostVars
<1>. QED BY <1>1, <1>2, <1>3, <1>4 DEF Next, Trouble
=============================================================================
