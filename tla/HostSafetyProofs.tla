-------------------------- MODULE HostSafetyProofs --------------------------
(***************************************************************************)
(* Host-mode up and down, proved for any addresses and any amount of       *)
(* trouble.                                                                *)
(*                                                                         *)
(* ForeignConfigKept speaks of one step; what makes it true was decided    *)
(* some steps before, when the file was looked at.  OwnershipStillHolds    *)
(* carries that answer to the steps that write.  In the same way Alone     *)
(* carries the look at what is installed to the installer, ReadyStepByStep *)
(* what was seen of the service and its certificate to Cluster ready, and  *)
(* RemovalGoesOn with RunsWhatIsInstalled what was found to Removed.  With *)
(* StaysAlone and ComesBack they make it an implementation of Lifecycle.   *)
(***************************************************************************)
EXTENDS HostCluster, TLAPS

ConfigTyped == config \in [Distros -> Opt(Config)]
MachineTyped ==
  /\ host \in Addrs /\ target \in Addrs
  /\ installed \subseteq Distros
Local(c) ==
  /\ DOMAIN c = {"asked", "distro", "addr", "todo", "listed"}
  /\ c.asked \in Opt(Distros)
CommandTyped ==
  /\ Local(cli)
  /\ pc \in UpSteps \ {"up.look"} => cli.distro \in Distros /\ cli.addr \in Addrs
\* The steps that write config.yaml are only reached after the answer that
\* the file is SSHerpa's, and as long as nobody touches the host it is true.
OwnershipStillHolds ==
  calm /\ pc \in {"up.install", "up.refresh"} => ConfigIsOurs(cli.distro)
OwnerInv ==
  ConfigTyped /\ MachineTyped /\ CommandTyped /\ OwnershipStillHolds

-----------------------------------------------------------------------------
(* The step writes no file of the user's.                                  *)
ForeignKept ==
  pc \in UpSteps /\ calm =>
    \A d \in Distros :
      config[d] # None /\ ~config[d].mark /\ config[d].other
        => config'[d] = config[d]

\* What the steps do to the variables of the command: it ends, it goes on to
\* its next step, it crosses a step off, or it has to do with down.
LEMMA EndedTyped ==
  ASSUME cli' = NoCommand, pc' \notin UpSteps
  PROVE  CommandTyped'
BY DEF CommandTyped, Local, NoCommand, Opt

LEMMA GoneOnTyped ==
  ASSUME CommandTyped, pc \in UpSteps \ {"up.look"}, cli' = cli
  PROVE  CommandTyped'
BY DEF CommandTyped, Local

LEMMA CrossedOffTyped ==
  ASSUME CommandTyped, pc \in UpSteps \ {"up.look"},
         NEW t, cli' = [cli EXCEPT !.todo = t]
  PROVE  CommandTyped' /\ cli'.distro = cli.distro
BY DEF CommandTyped, Local

LEMMA ChosenTyped ==
  ASSUME CommandTyped, NEW d \in Distros, NEW a \in Addrs,
         cli' = [cli EXCEPT !.distro = d, !.addr = a]
  PROVE  CommandTyped'
BY DEF CommandTyped, Local

LEMMA DownTyped ==
  ASSUME CommandTyped, pc' \notin UpSteps,
         NEW l, NEW d, NEW t,
         \/ cli' = cli
         \/ cli' = [cli EXCEPT !.listed = l]
         \/ cli' = [cli EXCEPT !.listed = l, !.distro = d]
         \/ cli' = [cli EXCEPT !.distro = d, !.todo = t]
         \/ cli' = [cli EXCEPT !.todo = t]
  PROVE  CommandTyped'
BY DEF CommandTyped, Local

\* The file that SSHerpa writes is its own, and nothing else is written.
LEMMA WritingOwn ==
  ASSUME ConfigTyped, NEW d \in Distros, NEW a \in Addrs,
         config' = [config EXCEPT ![d] = TlsConfig(a)]
  PROVE  /\ ConfigTyped'
         /\ config'[d] = TlsConfig(a) /\ config'[d].mark
         /\ \A e \in Distros \ {d} : config'[e] = config[e]
<1>1. TlsConfig(a) \in Config /\ TlsConfig(a).mark
  BY DEF TlsConfig, Config
<1>. QED BY <1>1 DEF ConfigTyped, Opt

\* A step that SSHerpa takes on a file it looked at keeps the user's files.
LEMMA WritingKeeps ==
  ASSUME ConfigTyped, CommandTyped, OwnershipStillHolds,
         pc \in {"up.install", "up.refresh"},
         config' = [config EXCEPT ![cli.distro] = TlsConfig(cli.addr)]
  PROVE  ConfigTyped' /\ ForeignKept /\ config'[cli.distro].mark
<1>1. cli.distro \in Distros /\ cli.addr \in Addrs
  BY DEF CommandTyped, UpSteps
<1>2. /\ ConfigTyped' /\ config'[cli.distro].mark
      /\ \A e \in Distros \ {cli.distro} : config'[e] = config[e]
  BY <1>1, WritingOwn
<1>3. calm => ConfigIsOurs(cli.distro)
  BY DEF OwnershipStillHolds
<1>. QED BY <1>2, <1>3 DEF ForeignKept, ConfigIsOurs

-----------------------------------------------------------------------------
LEMMA AskKeeps ==
  ASSUME OwnerInv, Ask
  PROVE  OwnerInv' /\ ForeignKept
<1>. USE DEF OwnerInv, ConfigTyped, MachineTyped, OwnershipStillHolds,
             ForeignKept
<1>1. /\ UNCHANGED <<config, host, target, installed>>
      /\ pc \notin UpSteps /\ pc' \in {"up.look", "down.look"}
  BY DEF Ask, AskUp, AskDown, Begin, Looks, hostVars, localVars, AtRest, UpSteps
<1>2. CommandTyped'
  <2>1. CASE AskDown
    BY <2>1, EndedTyped DEF AskDown, Begin, UpSteps
  <2>2. ASSUME NEW d \in Opt(Distros), AskUp(d)
        PROVE  CommandTyped'
    BY <2>2 DEF AskUp, Begin, CommandTyped, Local, NoCommand, UpSteps
  <2>. QED BY <2>1, <2>2 DEF Ask
<1>. QED BY <1>1, <1>2

\* The steps of up that only look, and the answer they pass on.
LEMMA LookingKeeps ==
  ASSUME OwnerInv,
         \/ LookForUp \/ Preflight \/ WaitForReady \/ VerifyCertificate
         \/ CheckOwnership \/ VerifyRefresh
  PROVE  OwnerInv' /\ ForeignKept
<1>1. UNCHANGED <<config, host, target, installed, calm>>
  BY DEF LookForUp, Preflight, WaitForReady, VerifyCertificate,
         CheckOwnership, VerifyRefresh, Looks, hostVars, localVars, Go, Fail,
         End, ghostVars
<1>2. CommandTyped'
  <2>1. CASE LookForUp
    <3>1. CASE Fail
      BY <3>1, EndedTyped DEF Fail, End, Go, UpSteps
    <3>2. CASE \E d \in Distros :
                 Go("up.preflight", [cli EXCEPT !.distro = d, !.addr = target])
      BY <3>2, ChosenTyped DEF OwnerInv, MachineTyped, Go
    <3>3. cli.asked \in Distros \cup {None} /\ installed \subseteq Distros
      BY DEF OwnerInv, CommandTyped, MachineTyped, Local, Opt
    <3>. QED BY <2>1, <3>1, <3>2, <3>3 DEF LookForUp
  <2>2. CASE ~LookForUp
    <3>1. pc \in UpSteps \ {"up.look"}
      BY <2>2 DEF Preflight, WaitForReady, VerifyCertificate, CheckOwnership,
                  VerifyRefresh, At, UpSteps
    <3>2. \/ Fail \/ cli' = cli
          \/ cli' = [cli EXCEPT !.todo = InstallSteps[cli.distro]]
      BY <2>2 DEF Preflight, WaitForReady, VerifyCertificate, CheckOwnership,
                  VerifyRefresh, Go
    <3>. QED BY <3>1, <3>2, EndedTyped, GoneOnTyped, CrossedOffTyped
             DEF OwnerInv, Fail, End, Go, UpSteps
  <2>. QED BY <2>1, <2>2
<1>3. OwnershipStillHolds'
  <2>1. pc' \in {"up.install", "up.refresh"} => Preflight \/ CheckOwnership
    BY DEF LookForUp, WaitForReady, VerifyCertificate, VerifyRefresh, Go, Fail,
           End
  <2>2. CASE Preflight /\ pc' = "up.install"
    <3>1. cli' = [cli EXCEPT !.todo = InstallSteps[cli.distro]]
          /\ ConfigIsOurs(cli.distro)
      BY <2>2 DEF Preflight, Go, Fail, End
    <3>2. cli'.distro = cli.distro
      BY <3>1, <2>2, CrossedOffTyped DEF OwnerInv, Preflight, At, UpSteps
    <3>. QED BY <1>1, <3>1, <3>2 DEF OwnershipStillHolds, ConfigIsOurs
  <2>3. CASE CheckOwnership /\ pc' = "up.refresh"
    <3>1. cli' = cli /\ ConfigIsOurs(cli.distro)
      BY <2>3 DEF CheckOwnership, Go, Fail, End
    <3>. QED BY <1>1, <3>1 DEF OwnershipStillHolds, ConfigIsOurs
  <2>4. Preflight => pc' # "up.refresh"
    BY DEF Preflight, Go, Fail, End
  <2>5. CheckOwnership => pc' # "up.install"
    BY DEF CheckOwnership, Go, Fail, End
  <2>. QED BY <2>1, <2>2, <2>3, <2>4, <2>5 DEF OwnershipStillHolds
<1>. QED BY <1>1, <1>2, <1>3
         DEF OwnerInv, ConfigTyped, MachineTyped, ForeignKept

LEMMA ConfigureKeeps ==
  ASSUME OwnerInv, ConfigureTlsSan
  PROVE  OwnerInv' /\ ForeignKept
<1>1. ConfigTyped' /\ ForeignKept /\ config'[cli.distro].mark
  BY WritingKeeps DEF OwnerInv, ConfigureTlsSan, Doing, At
<1>2. MachineTyped'
  BY DEF OwnerInv, MachineTyped, ConfigureTlsSan, OnlyConfig, localVars
<1>3. CommandTyped' /\ cli'.distro = cli.distro
  BY CrossedOffTyped DEF OwnerInv, ConfigureTlsSan, Doing, At, Done, Go, UpSteps
<1>. QED BY <1>1, <1>2, <1>3 DEF OwnerInv, OwnershipStillHolds, ConfigIsOurs

LEMMA InstallingKeeps ==
  ASSUME OwnerInv, InstallK3s \/ InstallRke2 \/ StartRke2
  PROVE  OwnerInv' /\ ForeignKept
<1>1. UNCHANGED <<config, host, target, calm>>
  BY DEF InstallK3s, InstallRke2, StartRke2, OnlyServices, localVars, Done,
         Go, Fail, End, ghostVars
<1>2. installed' \subseteq Distros
  BY DEF OwnerInv, MachineTyped, InstallK3s, InstallRke2, StartRke2, Distros
<1>3. CommandTyped' /\ (pc' \in UpSteps => cli'.distro = cli.distro)
  <2>1. pc \in UpSteps \ {"up.look"} /\ (Done \/ Fail)
    BY DEF InstallK3s, InstallRke2, StartRke2, Doing, At, UpSteps
  <2>2. CASE Done
    BY <2>1, <2>2, CrossedOffTyped DEF OwnerInv, Done, Go
  <2>3. CASE Fail
    BY <2>3, EndedTyped DEF Fail, End, Go, UpSteps
  <2>. QED BY <2>1, <2>2, <2>3
<1>4. pc = "up.install"
  BY DEF InstallK3s, InstallRke2, StartRke2, Doing, At
<1>. QED BY <1>1, <1>2, <1>3, <1>4
         DEF OwnerInv, ConfigTyped, MachineTyped, OwnershipStillHolds,
             ConfigIsOurs, ForeignKept, UpSteps

LEMMA RefreshKeeps ==
  ASSUME OwnerInv, RefreshCertificate
  PROVE  OwnerInv' /\ ForeignKept
<1>1. ConfigTyped' /\ ForeignKept
  BY WritingKeeps DEF OwnerInv, RefreshCertificate, At
<1>2. MachineTyped'
  BY DEF OwnerInv, MachineTyped, RefreshCertificate, OnlyServices, localVars
<1>3. CommandTyped' /\ pc' \in {"idle", "up.rewait"}
  BY EndedTyped, GoneOnTyped
     DEF OwnerInv, RefreshCertificate, At, Go, Fail, End, UpSteps
<1>. QED BY <1>1, <1>2, <1>3 DEF OwnerInv, OwnershipStillHolds

LEMMA FetchingKeeps ==
  ASSUME OwnerInv, FetchKubeconfig \/ MergeKubeconfig
  PROVE  OwnerInv' /\ ForeignKept
<1>1. UNCHANGED <<config, host, target, installed>>
  BY DEF FetchKubeconfig, MergeKubeconfig, hostVars
<1>2. CommandTyped' /\ pc' \notin {"up.install", "up.refresh"}
  BY EndedTyped, GoneOnTyped
     DEF OwnerInv, FetchKubeconfig, MergeKubeconfig, At, Go, Fail, End, UpSteps
<1>. QED BY <1>1, <1>2
         DEF OwnerInv, ConfigTyped, MachineTyped, OwnershipStillHolds,
             ForeignKept

\* What down does is not up's business; it leaves typed files behind.
LEMMA DownKeeps ==
  ASSUME OwnerInv, Down
  PROVE  OwnerInv' /\ ForeignKept
<1>. USE DEF Down, LookForDown, DownPreflight, StopRke2, Uninstall,
             VerifyRemoval, ForgetLocal
<1>1. ConfigTyped'
  BY DEF OwnerInv, ConfigTyped, Opt, Looks, hostVars
<1>2. MachineTyped'
  BY DEF OwnerInv, MachineTyped, Looks, hostVars, localVars, OnlyServices
<1>3. /\ pc \notin UpSteps /\ pc' \notin UpSteps
  BY DEF At, Go, Fail, End, UpSteps
<1>4. CommandTyped'
  BY <1>3, EndedTyped, DownTyped DEF OwnerInv, Go, Fail, End
<1>5. OwnershipStillHolds' /\ ForeignKept
  BY <1>3 DEF OwnershipStillHolds, ForeignKept, UpSteps
<1>. QED BY <1>1, <1>2, <1>4, <1>5 DEF OwnerInv

LEMMA UnreachableKeeps ==
  ASSUME OwnerInv, Unreachable \/ UpdateTarget \/ Abort
  PROVE  OwnerInv' /\ ForeignKept
<1>1. UNCHANGED <<config, host, installed>> /\ target' \in Addrs
  BY DEF OwnerInv, MachineTyped, Unreachable, UpdateTarget, Abort, Looks,
         hostVars, localVars
<1>2. CommandTyped' /\ pc' \notin {"up.install", "up.refresh"}
  BY EndedTyped, DownTyped
     DEF OwnerInv, Unreachable, UpdateTarget, Abort, Ends, Fail, End, Go,
         UpSteps, AtRest
<1>. QED BY <1>1, <1>2
         DEF OwnerInv, ConfigTyped, MachineTyped, OwnershipStillHolds,
             ForeignKept

LEMMA CutWritesKeep ==
  ASSUME OwnerInv, RefreshCut \/ NotRenewed
  PROVE  OwnerInv' /\ ForeignKept
<1>1. ConfigTyped' /\ ForeignKept
  BY WritingKeeps DEF OwnerInv, RefreshCut, NotRenewed, At
<1>2. MachineTyped'
  BY DEF OwnerInv, MachineTyped, RefreshCut, NotRenewed, OnlyServices,
         OnlyConfig, localVars
<1>3. CommandTyped' /\ pc' \in {"idle", "up.rewait"}
  BY EndedTyped, GoneOnTyped
     DEF OwnerInv, RefreshCut, NotRenewed, At, Ends, Passes, UpSteps
<1>. QED BY <1>1, <1>2, <1>3 DEF OwnerInv, OwnershipStillHolds

LEMMA FailingStepsKeep ==
  ASSUME OwnerInv, \/ HalfInstall \/ DownloadFails \/ UninstallFails
                   \/ CertificateUnreadable
  PROVE  OwnerInv' /\ ForeignKept
<1>. USE DEF HalfInstall, DownloadFails, UninstallFails,
             CertificateUnreadable
<1>1. UNCHANGED <<config, host, target>>
  BY DEF Looks, hostVars, localVars, OnlyServices
<1>2. installed' \subseteq Distros
  BY DEF OwnerInv, MachineTyped, Distros, Looks, hostVars
<1>3. /\ CommandTyped' /\ pc' # "up.refresh"
      /\ pc' = "up.install" => /\ pc = "up.install" /\ calm' = calm
                               /\ cli'.distro = cli.distro
  <2>1. CASE HalfInstall
    BY <2>1, EndedTyped DEF Ends, UpSteps
  <2>2. CASE DownloadFails
    BY <2>2, CrossedOffTyped DEF OwnerInv, Passes, Doing, At, UpSteps
  <2>3. CASE UninstallFails
    BY <2>3, DownTyped DEF OwnerInv, Passes, UpSteps
  <2>4. CASE CertificateUnreadable
    BY <2>4, GoneOnTyped DEF OwnerInv, Passes, At, UpSteps
  <2>. QED BY <2>1, <2>2, <2>3, <2>4
<1>4. OwnershipStillHolds'
  BY <1>1, <1>3 DEF OwnerInv, OwnershipStillHolds, ConfigIsOurs
<1>. QED BY <1>1, <1>2, <1>3, <1>4
         DEF OwnerInv, ConfigTyped, MachineTyped, ForeignKept

\* Whoever else touches the host takes the calm away.
LEMMA OthersKeep ==
  ASSUME OwnerInv, Shake \/ \E d \in Distros : EditConfig(d) \/ HandInstall(d)
  PROVE  OwnerInv'
<1>1. UNCHANGED <<pc, cli, target>> /\ ~calm'
  BY DEF Shake, EditConfig, HandInstall, OnlyConfig, OnlyServices, localVars
<1>2. host' \in Addrs /\ installed' \subseteq Distros
  BY DEF OwnerInv, MachineTyped, Shake, EditConfig, HandInstall, OnlyConfig,
         OnlyServices
<1>3. ConfigTyped'
  <2>1. CASE Shake \/ \E d \in Distros : HandInstall(d)
    BY <2>1 DEF OwnerInv, ConfigTyped, Shake, HandInstall
  <2>2. ASSUME NEW d \in Distros, EditConfig(d)
        PROVE  ConfigTyped'
    <3>1. PICK f \in Config : config' = [config EXCEPT ![d] = f]
      <4>1. CASE /\ config[d] = None
                 /\ \E a \in Addrs :
                      config' = [config EXCEPT ![d] =
                        [mark |-> FALSE, other |-> TRUE, san |-> {a}]]
        BY <4>1 DEF Config
      <4>2. CASE /\ config[d] # None
                 /\ config' = [config EXCEPT ![d].mark = FALSE]
        <5>1. config[d] \in Config
          BY <4>2 DEF OwnerInv, ConfigTyped, Opt
        <5>2. [config[d] EXCEPT !.mark = FALSE] \in Config
          BY <5>1 DEF Config
        <5>. QED BY <4>2, <5>2
      <4>3. CASE /\ config[d] # None
                 /\ config' = [config EXCEPT ![d].other = TRUE]
        <5>1. config[d] \in Config
          BY <4>3 DEF OwnerInv, ConfigTyped, Opt
        <5>2. [config[d] EXCEPT !.other = TRUE] \in Config
          BY <5>1 DEF Config
        <5>. QED BY <4>3, <5>2
      <4>4. CASE /\ config[d] # None
                 /\ \E a \in Addrs \ config[d].san :
                      config' = [config EXCEPT ![d].san = @ \cup {a}]
        <5>1. config[d] \in Config
          BY <4>4 DEF OwnerInv, ConfigTyped, Opt
        <5>2. PICK a \in Addrs :
                config' = [config EXCEPT ![d].san = @ \cup {a}]
          BY <4>4
        <5>3. [config[d] EXCEPT !.san = @ \cup {a}] \in Config
          BY <5>1 DEF Config
        <5>. QED BY <5>2, <5>3
      <4>. QED BY <2>2, <4>1, <4>2, <4>3, <4>4 DEF EditConfig
    <3>. QED BY <3>1 DEF OwnerInv, ConfigTyped, Opt
  <2>. QED BY <2>1, <2>2
<1>. QED BY <1>1, <1>2, <1>3
         DEF OwnerInv, MachineTyped, CommandTyped, Local, OwnershipStillHolds

-----------------------------------------------------------------------------
\* Every step keeps the invariant, and a step of a command the user's files.
LEMMA StepKeeps ==
  ASSUME OwnerInv, Next
  PROVE  OwnerInv' /\ (CommandSteps => ForeignKept)
<1>1. CASE Ask BY <1>1, AskKeeps
<1>2. CASE Up
  BY <1>2, LookingKeeps, ConfigureKeeps, InstallingKeeps, RefreshKeeps,
     FetchingKeeps DEF Up
<1>3. CASE Down BY <1>3, DownKeeps
<1>4. CASE Unreachable \/ UpdateTarget \/ Abort BY <1>4, UnreachableKeeps
<1>5. CASE RefreshCut \/ NotRenewed BY <1>5, CutWritesKeep
<1>6. CASE HalfInstall \/ DownloadFails \/ UninstallFails
           \/ CertificateUnreadable
  BY <1>6, FailingStepsKeep
<1>7. CASE Shake \/ \E d \in Distros : EditConfig(d) \/ HandInstall(d)
  <2>1. ~CommandSteps
    BY <1>7 DEF Shake, EditConfig, HandInstall, CommandSteps
  <2>. QED BY <1>7, <2>1, OthersKeep
<1>. QED BY <1>1, <1>2, <1>3, <1>4, <1>5, <1>6, <1>7 DEF Next, Trouble

\* Host-mode up never writes over a config.yaml of the user's, neither to
\* install a distribution nor to heal its certificate, as long as nobody
\* touches the host while the command runs.
THEOREM UserFilesAreKept == Spec => ForeignConfigKept
<1>1. Init => OwnerInv
  BY DEF Init, OwnerInv, ConfigTyped, MachineTyped, CommandTyped, Local,
         OwnershipStillHolds, NoCommand, Opt, UpSteps
<1>2. OwnerInv /\ [Next]_vars => OwnerInv'
  <2>1. OwnerInv /\ UNCHANGED vars => OwnerInv'
    BY DEF vars, OwnerInv, ConfigTyped, MachineTyped, CommandTyped, Local,
           OwnershipStillHolds, ConfigIsOurs
  <2>. QED BY <2>1, StepKeeps
<1>3. OwnerInv /\ [Next]_vars =>
        [CommandSteps /\ pc \in UpSteps /\ calm =>
           \A d \in Distros :
             config[d] # None /\ ~config[d].mark /\ config[d].other
               => config'[d] = config[d]]_vars
  BY StepKeeps DEF ForeignKept
<1>. QED BY <1>1, <1>2, <1>3, PTL DEF Spec, ForeignConfigKept

-----------------------------------------------------------------------------
(* Every variable has its type, and a command has what its step needs.     *)

ServicesTyped ==
  /\ fits \subseteq Distros /\ running \subseteq Distros
  /\ enabled \subseteq Distros
  /\ cert \in [Distros -> SUBSET Addrs]
  /\ kubefile \in Opt(Addrs) /\ context \in Opt(Addrs)
\* More than the type: the address worked with is the target's, and what is
\* left to do belongs to the distribution worked on.
StepHasWhatItNeeds ==
  /\ pc \in UpSteps \ {"up.look"} =>
       cli.distro \in Distros /\ cli.addr = target
  /\ pc = "up.install" => cli.todo \in InstallLeft[cli.distro]
  /\ pc \in {"down.uninstall", "down.verify", "down.local"} =>
       cli.distro \in cli.listed
  /\ pc = "down.uninstall" => cli.todo \in UninstallLeft[cli.distro]
StepTyped ==
  /\ pc \in AtRest \cup UpSteps \cup DownSteps
  /\ cli \in Command
  /\ calm \in BOOLEAN /\ unsure \in BOOLEAN /\ faults \in 0..MaxFaults
HostTyped == OwnerInv /\ ServicesTyped /\ StepTyped /\ StepHasWhatItNeeds

\* Crossing a step off leaves the rest of the same list.
LEMMA TailOfPair ==
  ASSUME NEW a, NEW b
  PROVE  /\ Tail(<<a, b>>) = <<b>> /\ Len(<<a, b>>) = 2
         /\ Head(<<a, b>>) = a /\ <<a, b>> # <<>>
OBVIOUS

LEMMA TailOfTriple ==
  ASSUME NEW a, NEW b, NEW c
  PROVE  /\ Tail(<<a, b, c>>) = <<b, c>> /\ Len(<<a, b, c>>) = 3
         /\ Head(<<a, b, c>>) = a /\ <<a, b, c>> # <<>>
OBVIOUS

LEMMA LastStep ==
  ASSUME NEW a
  PROVE  /\ Len(<<a>>) = 1 /\ Head(<<a>>) = a /\ <<a>> # <<>>
OBVIOUS

LEMMA InstallingGoesOn ==
  ASSUME NEW d \in Distros, NEW t \in InstallLeft[d]
  PROVE  /\ t \in StepsLeft /\ t # <<>>
         /\ Len(t) # 1 => Tail(t) \in InstallLeft[d]
         /\ Head(t) = "install k3s" => d = "k3s"
         /\ Head(t) \in {"install rke2", "start rke2"} => d = "rke2"
<1>1. t \in StepsLeft
  BY DEF StepsLeft
<1>2. CASE d = "k3s"
  <2>1. t \in {<<"configure", "install k3s">>, <<"install k3s">>}
    BY <1>2 DEF InstallLeft
  <2>2. CASE t = <<"configure", "install k3s">>
    <3>1. Tail(t) = <<"install k3s">> /\ t # <<>> /\ Head(t) = "configure"
      BY <2>2, TailOfPair
    <3>. QED BY <1>1, <1>2, <3>1 DEF InstallLeft
  <2>3. CASE t = <<"install k3s">>
    <3>1. Len(t) = 1 /\ t # <<>> /\ Head(t) = "install k3s"
      BY <2>3, LastStep
    <3>. QED BY <1>1, <1>2, <3>1
  <2>. QED BY <2>1, <2>2, <2>3
<1>3. CASE d = "rke2"
  <2>1. t \in {<<"install rke2", "configure", "start rke2">>,
               <<"configure", "start rke2">>, <<"start rke2">>}
    BY <1>3 DEF InstallLeft
  <2>2. CASE t = <<"install rke2", "configure", "start rke2">>
    <3>1. /\ Tail(t) = <<"configure", "start rke2">> /\ t # <<>>
          /\ Head(t) = "install rke2"
      BY <2>2, TailOfTriple
    <3>. QED BY <1>1, <1>3, <3>1 DEF InstallLeft
  <2>3. CASE t = <<"configure", "start rke2">>
    <3>1. Tail(t) = <<"start rke2">> /\ t # <<>> /\ Head(t) = "configure"
      BY <2>3, TailOfPair
    <3>. QED BY <1>1, <1>3, <3>1 DEF InstallLeft
  <2>4. CASE t = <<"start rke2">>
    <3>1. Len(t) = 1 /\ t # <<>> /\ Head(t) = "start rke2"
      BY <2>4, LastStep
    <3>. QED BY <1>1, <1>3, <3>1
  <2>. QED BY <2>1, <2>2, <2>3, <2>4
<1>. QED BY <1>2, <1>3 DEF Distros

LEMMA UninstallingGoesOn ==
  ASSUME NEW d \in Distros, NEW t \in UninstallLeft[d]
  PROVE  /\ t \in StepsLeft /\ t # <<>>
         /\ Head(t) = "stop" => Tail(t) \in UninstallLeft[d]
<1>1. t \in StepsLeft
  BY DEF StepsLeft
<1>2. CASE d = "k3s"
  <2>1. t = <<"uninstall">>
    BY <1>2 DEF UninstallLeft
  <2>. QED BY <1>1, <2>1, LastStep
<1>3. CASE d = "rke2"
  <2>1. t \in {<<"stop", "uninstall">>, <<"uninstall">>}
    BY <1>3 DEF UninstallLeft
  <2>2. CASE t = <<"stop", "uninstall">>
    <3>1. Tail(t) = <<"uninstall">> /\ t # <<>>
      BY <2>2, TailOfPair
    <3>. QED BY <1>1, <1>3, <3>1 DEF UninstallLeft
  <2>3. CASE t = <<"uninstall">>
    BY <1>1, <2>3, LastStep
  <2>. QED BY <2>1, <2>2, <2>3
<1>. QED BY <1>2, <1>3 DEF Distros

LEMMA ListsAreLists ==
  ASSUME NEW d \in Distros
  PROVE  /\ InstallSteps[d] \in InstallLeft[d]
         /\ UninstallSteps[d] \in UninstallLeft[d]
         /\ <<>> \in StepsLeft
<1>1. CASE d = "k3s"
  <2>1. /\ InstallSteps[d] = <<"configure", "install k3s">>
        /\ UninstallSteps[d] = <<"uninstall">>
    BY <1>1 DEF InstallSteps, UninstallSteps
  <2>. QED BY <1>1, <2>1 DEF InstallLeft, UninstallLeft, StepsLeft
<1>2. CASE d = "rke2"
  <2>1. /\ InstallSteps[d] = <<"install rke2", "configure", "start rke2">>
        /\ UninstallSteps[d] = <<"stop", "uninstall">>
    BY <1>2 DEF InstallSteps, UninstallSteps
  <2>. QED BY <1>2, <2>1 DEF InstallLeft, UninstallLeft, StepsLeft
<1>. QED BY <1>1, <1>2 DEF Distros

\* The ways in which the steps change the variables of the command.
LEMMA CommandChanges ==
  ASSUME cli \in Command, NEW d \in Distros, NEW a \in Addrs,
         NEW t \in StepsLeft, NEW l \in SUBSET Distros
  PROVE  /\ [cli EXCEPT !.distro = d, !.addr = a] \in Command
         /\ [cli EXCEPT !.todo = t] \in Command
         /\ [cli EXCEPT !.distro = d, !.todo = t] \in Command
         /\ [cli EXCEPT !.listed = l] \in Command
         /\ [cli EXCEPT !.listed = l, !.distro = None] \in Command
BY DEF Command, Opt

LEMMA NewCommands ==
  /\ NoCommand \in Command
  /\ \A d \in Opt(Distros) : [NoCommand EXCEPT !.asked = d] \in Command
<1>1. <<>> \in StepsLeft
  BY DEF StepsLeft
<1>. QED BY <1>1 DEF NoCommand, Command, Opt

LEMMA CommandFields ==
  ASSUME cli \in Command
  PROVE  /\ cli.asked \in Opt(Distros) /\ cli.distro \in Opt(Distros)
         /\ cli.addr \in Opt(Addrs) /\ cli.todo \in StepsLeft
         /\ cli.listed \subseteq Distros
BY DEF Command

\* A command that has ended needs nothing any more.
LEMMA EndedNeedsNothing ==
  ASSUME cli' = NoCommand, pc' \in AtRest
  PROVE  cli' \in Command /\ StepHasWhatItNeeds'
BY NewCommands DEF StepHasWhatItNeeds, AtRest, UpSteps

\* A service that starts presents addresses, whatever its file names.
LEMMA StartTyped ==
  ASSUME ConfigTyped, ServicesTyped, NEW d \in Distros,
         \/ StartService(d)
         \/ running' = {d} /\ cert' = [cert EXCEPT ![d] = Sans(d)]
  PROVE  running' \subseteq Distros /\ cert' \in [Distros -> SUBSET Addrs]
<1>1. Sans(d) \subseteq Addrs
  BY DEF ConfigTyped, Sans, Opt, Config
<1>. QED BY <1>1 DEF ServicesTyped, StartService

\* Nothing but starting, stopping and removing changes what runs.
LEMMA ServicesStayTyped ==
  ASSUME HostTyped, Next
  PROVE  ServicesTyped'
<1>. USE DEF HostTyped, OwnerInv
<1>1. CASE UNCHANGED <<fits, running, enabled, cert, kubefile, context>>
  BY <1>1 DEF ServicesTyped
<1>2. CASE InstallK3s \/ StartRke2 \/ \E d \in Distros : HandInstall(d)
  <2>1. UNCHANGED <<fits, kubefile, context>>
    BY <1>2 DEF InstallK3s, StartRke2, HandInstall, OnlyServices, localVars
  <2>2. \/ UNCHANGED <<running, enabled, cert>>
        \/ \E d \in Distros : StartService(d)
    BY <1>2 DEF InstallK3s, StartRke2, HandInstall, Distros
  <2>3. enabled' \subseteq Distros
    BY <2>2 DEF ServicesTyped, StartService
  <2>. QED BY <2>1, <2>2, <2>3, StartTyped DEF ServicesTyped
<1>3. CASE RefreshCertificate \/ NotRenewed
  <2>1. UNCHANGED <<fits, enabled, kubefile, context>>
    BY <1>3 DEF RefreshCertificate, NotRenewed, OnlyServices, localVars
  <2>2. cli.distro \in Distros /\ cli.addr \in Addrs
    BY <1>3 DEF RefreshCertificate, NotRenewed, At, CommandTyped, UpSteps
  <2>. QED BY <1>3, <2>1, <2>2
           DEF ServicesTyped, RefreshCertificate, NotRenewed
<1>4. CASE StopRke2 \/ Uninstall
  <2>1. UNCHANGED <<fits, kubefile, context>>
    BY <1>4 DEF StopRke2, Uninstall, OnlyServices, localVars
  <2>. QED BY <1>4, <2>1 DEF ServicesTyped, StopRke2, Uninstall
<1>5. CASE Shake
  <2>1. UNCHANGED <<fits, enabled, kubefile, context>>
    BY <1>5 DEF Shake, localVars
  <2>2. \/ running' = {} /\ UNCHANGED cert
        \/ \E d \in enabled : /\ running' = {d}
                              /\ cert' = [cert EXCEPT ![d] = Sans(d)]
    BY <1>5 DEF Shake, Boot
  <2>. QED BY <2>1, <2>2, StartTyped DEF ServicesTyped
<1>6. CASE FetchKubeconfig \/ MergeKubeconfig \/ ForgetLocal
  <2>1. UNCHANGED <<fits, running, enabled, cert>>
    BY <1>6 DEF FetchKubeconfig, MergeKubeconfig, ForgetLocal, hostVars
  <2>2. FetchKubeconfig => cli.addr \in Addrs
    BY DEF FetchKubeconfig, At, CommandTyped, UpSteps
  <2>. QED BY <1>6, <2>1, <2>2
           DEF ServicesTyped, FetchKubeconfig, MergeKubeconfig, ForgetLocal, Opt
<1>7. \/ UNCHANGED <<fits, running, enabled, cert, kubefile, context>>
      \/ InstallK3s \/ StartRke2 \/ \E d \in Distros : HandInstall(d)
      \/ RefreshCertificate \/ NotRenewed \/ StopRke2 \/ Uninstall \/ Shake
      \/ FetchKubeconfig \/ MergeKubeconfig \/ ForgetLocal
  <2>. USE DEF Looks, OnlyServices, OnlyConfig, hostVars, localVars
  <2>1. CASE Ask \/ Unreachable \/ UpdateTarget
    BY <2>1 DEF Ask, AskUp, AskDown, Begin, Unreachable, UpdateTarget
  <2>2. CASE Up
    BY <2>2 DEF Up, LookForUp, Preflight, ConfigureTlsSan, InstallRke2,
                WaitForReady, VerifyCertificate, CheckOwnership, VerifyRefresh
  <2>3. CASE Down
    BY <2>3 DEF Down, LookForDown, DownPreflight, VerifyRemoval
  <2>4. CASE Trouble
    BY <2>4 DEF Trouble, Abort, RefreshCut, HalfInstall, DownloadFails,
                UninstallFails, CertificateUnreadable, EditConfig
  <2>. QED BY <2>1, <2>2, <2>3, <2>4 DEF Next
<1>. QED BY <1>1, <1>2, <1>3, <1>4, <1>5, <1>6, <1>7

\* Trouble is counted, and calm and certainty are yes or no.
LEMMA GhostsStayTyped ==
  ASSUME StepTyped, Next
  PROVE  calm' \in BOOLEAN /\ unsure' \in BOOLEAN /\ faults' \in 0..MaxFaults
<1>. USE DEF StepTyped
<1>1. CASE UNCHANGED ghostVars
  BY <1>1 DEF ghostVars
<1>2. CASE Ask
  BY <1>2 DEF Ask, AskUp, AskDown, Begin
<1>3. CASE UpdateTarget
  BY <1>3 DEF UpdateTarget
<1>4. CASE Trouble
  <2>1. faults' = faults - 1 /\ faults > 0
    BY <1>4 DEF Trouble, Abort, RefreshCut, HalfInstall, DownloadFails,
                UninstallFails, NotRenewed, CertificateUnreadable, Shake,
                Restarts, EditConfig, HandInstall, Strikes
  <2>2. faults' \in 0..MaxFaults
    BY <2>1, MaxFaultsAssumption
  <2>3. calm' \in BOOLEAN /\ unsure' \in BOOLEAN
    BY <1>4 DEF Trouble, Abort, RefreshCut, HalfInstall, DownloadFails,
                UninstallFails, NotRenewed, CertificateUnreadable, Shake,
                EditConfig, HandInstall, Ends, Passes
  <2>. QED BY <2>2, <2>3
<1>5. CASE Up
  <2>1. UNCHANGED ghostVars
    BY <1>5 DEF Up, LookForUp, Preflight, ConfigureTlsSan, InstallK3s,
                InstallRke2, StartRke2, WaitForReady, VerifyCertificate,
                CheckOwnership, RefreshCertificate, VerifyRefresh,
                FetchKubeconfig, MergeKubeconfig, Go, End, Fail, Done
  <2>. QED BY <1>1, <2>1
<1>6. CASE Down \/ Unreachable
  <2>1. UNCHANGED ghostVars
    BY <1>6 DEF Down, LookForDown, DownPreflight, StopRke2, Uninstall,
                VerifyRemoval, ForgetLocal, Unreachable, Go, End, Fail
  <2>. QED BY <1>1, <2>1
<1>. QED BY <1>2, <1>3, <1>4, <1>5, <1>6 DEF Next

\* The command variables after a step: of a known step, with what it needs.
StepFits == pc \in AtRest \cup UpSteps \cup DownSteps /\ cli \in Command
            /\ StepHasWhatItNeeds

LEMMA EndedFits ==
  ASSUME cli' = NoCommand, pc' \in AtRest
  PROVE  StepFits'
BY EndedNeedsNothing DEF StepFits

LEMMA FailedFits ==
  ASSUME Fail
  PROVE  StepFits'
BY EndedFits DEF Fail, End, Go, AtRest

\* The command goes on with its variables to a step that finds no list.
LEMMA SameCommandFits ==
  ASSUME StepFits, UNCHANGED target, cli' = cli,
         pc \in UpSteps \ {"up.look"}, pc' \in UpSteps, pc' # "up.install"
  PROVE  StepFits'
BY DEF StepFits, StepHasWhatItNeeds, AtRest, UpSteps

LEMMA DoneFits ==
  ASSUME StepFits, UNCHANGED target, pc = "up.install", NEW t,
         cli' = [cli EXCEPT !.todo = t],
         \/ pc' = "up.wait" /\ t = <<>>
         \/ pc' = "up.install" /\ Len(cli.todo) # 1 /\ t = Tail(cli.todo)
  PROVE  StepFits'
<1>1. cli \in Command /\ cli.distro \in Distros /\ cli.addr = target
      /\ cli.todo \in InstallLeft[cli.distro]
  BY DEF StepFits, StepHasWhatItNeeds, UpSteps
<1>2. t \in StepsLeft /\ (pc' = "up.install" => t \in InstallLeft[cli.distro])
  <2>1. <<>> \in StepsLeft
    BY DEF StepsLeft
  <2>. QED BY <1>1, <2>1, InstallingGoesOn
<1>3. /\ cli' \in Command /\ cli'.todo = t
      /\ cli'.distro = cli.distro /\ cli'.addr = cli.addr
  BY <1>1, <1>2 DEF Command
<1>. QED BY <1>1, <1>2, <1>3 DEF StepFits, StepHasWhatItNeeds, UpSteps

LEMMA UpFits ==
  ASSUME HostTyped, Up
  PROVE  StepFits'
<1>1. StepFits /\ target \in Addrs /\ installed \subseteq Distros
  BY DEF HostTyped, StepTyped, StepFits, OwnerInv, MachineTyped
<1>2. UNCHANGED target
  BY DEF Up, LookForUp, Preflight, ConfigureTlsSan, InstallK3s,
         InstallRke2, StartRke2, WaitForReady, VerifyCertificate,
         CheckOwnership, RefreshCertificate, VerifyRefresh, FetchKubeconfig,
         MergeKubeconfig, Looks, OnlyConfig, OnlyServices, localVars
<1>3. CASE LookForUp
  <2>1. ASSUME NEW d \in Distros,
               Go("up.preflight", [cli EXCEPT !.distro = d, !.addr = target])
        PROVE  StepFits'
    <3>1. /\ cli' \in Command /\ cli'.distro = d /\ cli'.addr = target
          /\ pc' = "up.preflight"
      BY <1>1, <2>1 DEF StepFits, Go, Command, Opt
    <3>. QED BY <1>2, <3>1 DEF StepFits, StepHasWhatItNeeds, UpSteps
  <2>2. cli.asked \in Distros \cup {None}
    BY <1>1, CommandFields DEF StepFits, Opt
  <2>. QED BY <1>1, <1>3, <2>1, <2>2, FailedFits DEF LookForUp
<1>4. CASE Preflight
  <2>1. pc = "up.preflight" /\ cli.distro \in Distros /\ cli \in Command
        /\ cli.addr = target
    BY <1>1, <1>4 DEF Preflight, At, StepFits, StepHasWhatItNeeds, UpSteps
  <2>2. CASE Go("up.wait", cli)
    BY <1>1, <1>2, <2>1, <2>2, SameCommandFits DEF Go, UpSteps
  <2>3. CASE Go("up.install", [cli EXCEPT !.todo = InstallSteps[cli.distro]])
    <3>1. InstallSteps[cli.distro] \in InstallLeft[cli.distro] \cap StepsLeft
      BY <2>1, ListsAreLists, InstallingGoesOn
    <3>2. /\ cli' \in Command /\ cli'.distro = cli.distro
          /\ cli'.addr = cli.addr /\ cli'.todo = InstallSteps[cli.distro]
          /\ pc' = "up.install"
      BY <2>1, <2>3, <3>1 DEF Go, Command
    <3>. QED BY <1>2, <2>1, <3>1, <3>2
             DEF StepFits, StepHasWhatItNeeds, UpSteps
  <2>. QED BY <1>4, <2>2, <2>3, FailedFits DEF Preflight
<1>5. CASE ConfigureTlsSan \/ InstallK3s \/ InstallRke2 \/ StartRke2
  <2>1. pc = "up.install" /\ (Done \/ Fail)
    BY <1>5 DEF ConfigureTlsSan, InstallK3s, InstallRke2, StartRke2, Doing, At
  <2>2. CASE Done
    BY <1>1, <1>2, <2>1, <2>2, DoneFits DEF Done, Go
  <2>. QED BY <2>1, <2>2, FailedFits
<1>6. CASE \/ WaitForReady \/ VerifyCertificate \/ CheckOwnership
           \/ RefreshCertificate \/ VerifyRefresh \/ FetchKubeconfig
  <2>1. /\ pc \in UpSteps \ {"up.look"}
        /\ \/ Fail
           \/ cli' = cli /\ pc' \in UpSteps /\ pc' # "up.install"
    BY <1>6 DEF WaitForReady, VerifyCertificate, CheckOwnership,
                RefreshCertificate, VerifyRefresh, FetchKubeconfig, At, Go,
                UpSteps
  <2>. QED BY <1>1, <1>2, <2>1, FailedFits, SameCommandFits
<1>7. CASE MergeKubeconfig
  BY <1>7, EndedFits DEF MergeKubeconfig, End, Go, AtRest
<1>. QED BY <1>3, <1>4, <1>5, <1>6, <1>7 DEF Up

LEMMA DownFits ==
  ASSUME HostTyped, Down
  PROVE  StepFits'
<1>1. StepFits /\ installed \subseteq Distros
  BY DEF HostTyped, StepTyped, StepFits, OwnerInv, MachineTyped
<1>2. cli \in Command /\ cli.listed \subseteq Distros
  BY <1>1, CommandFields DEF StepFits
<1>. USE DEF StepFits, StepHasWhatItNeeds, UpSteps, DownSteps, AtRest
<1>3. CASE LookForDown
  <2>1. CASE Go("down.preflight", [cli EXCEPT !.listed = installed])
    <3>1. cli' \in Command /\ pc' = "down.preflight"
      BY <1>1, <1>2, <2>1 DEF Go, Command
    <3>. QED BY <3>1
  <2>2. CASE End("nothing")
    BY <2>2, EndedFits DEF End, Go
  <2>. QED BY <1>3, <2>1, <2>2, FailedFits DEF LookForDown
<1>4. CASE DownPreflight
  <2>1. CASE End("removed")
    BY <2>1, EndedFits DEF End, Go
  <2>2. ASSUME NEW d \in cli.listed,
               Go("down.uninstall", [cli EXCEPT !.distro = d,
                                                !.todo = UninstallSteps[d]])
        PROVE  StepFits'
    <3>1. d \in Distros /\ UninstallSteps[d] \in UninstallLeft[d] \cap StepsLeft
      BY <1>2, ListsAreLists, UninstallingGoesOn
    <3>2. /\ cli' \in Command /\ cli'.distro = d
          /\ cli'.todo = UninstallSteps[d] /\ cli'.listed = cli.listed
          /\ pc' = "down.uninstall"
      BY <1>2, <2>2, <3>1 DEF Go, Command, Opt
    <3>. QED BY <3>1, <3>2
  <2>3. ASSUME NEW d,
               Go("down.preflight", [cli EXCEPT !.listed = @ \ {d}])
        PROVE  StepFits'
    <3>1. cli' \in Command /\ pc' = "down.preflight"
      BY <1>2, <2>3 DEF Go, Command
    <3>. QED BY <3>1
  <2>4. cli.listed # {} =>
          (IF "k3s" \in cli.listed THEN "k3s" ELSE "rke2") \in cli.listed
    BY <1>2 DEF Distros
  <2>. QED BY <1>4, <2>1, <2>2, <2>3, <2>4 DEF DownPreflight
<1>5. CASE StopRke2
  <2>1. /\ cli.distro \in Distros
        /\ Tail(cli.todo) \in UninstallLeft[cli.distro] \cap StepsLeft
    BY <1>1, <1>2, <1>5, UninstallingGoesOn DEF StopRke2, At
  <2>2. /\ cli' \in Command /\ cli'.distro = cli.distro
        /\ cli'.todo = Tail(cli.todo) /\ cli'.listed = cli.listed
        /\ pc' = "down.uninstall"
    BY <1>2, <1>5, <2>1 DEF StopRke2, Go, Command
  <2>. QED BY <1>1, <1>5, <2>1, <2>2 DEF StopRke2, At
<1>6. CASE Uninstall
  <2>1. <<>> \in StepsLeft /\ cli.distro \in cli.listed
    BY <1>1, <1>6 DEF Uninstall, At, StepsLeft
  <2>2. /\ cli' \in Command /\ cli'.distro = cli.distro
        /\ cli'.listed = cli.listed /\ pc' = "down.verify"
    BY <1>2, <1>6, <2>1 DEF Uninstall, Go, Command
  <2>. QED BY <2>1, <2>2
<1>7. CASE VerifyRemoval
  <2>1. CASE Go("down.local", cli)
    BY <1>1, <1>7, <2>1 DEF VerifyRemoval, At, Go
  <2>. QED BY <1>7, <2>1, FailedFits DEF VerifyRemoval
<1>8. CASE ForgetLocal
  <2>1. cli' \in Command /\ pc' = "down.preflight"
    BY <1>2, <1>8 DEF ForgetLocal, Go, Command, Opt
  <2>. QED BY <2>1
<1>. QED BY <1>3, <1>4, <1>5, <1>6, <1>7, <1>8 DEF Down

LEMMA TroubleFits ==
  ASSUME HostTyped, Trouble
  PROVE  StepFits'
<1>1. StepFits
  BY DEF HostTyped, StepTyped, StepFits
<1>2. UNCHANGED target
  BY DEF Trouble, Abort, RefreshCut, HalfInstall, DownloadFails,
         UninstallFails, NotRenewed, CertificateUnreadable, Shake, EditConfig,
         HandInstall, Looks, OnlyConfig, OnlyServices, localVars
<1>3. CASE Abort \/ RefreshCut \/ HalfInstall
  BY <1>3, EndedFits DEF Abort, RefreshCut, HalfInstall, Ends, AtRest
<1>4. CASE DownloadFails
  BY <1>1, <1>2, <1>4, DoneFits DEF DownloadFails, Doing, At, Passes
<1>5. CASE UninstallFails
  <2>1. <<>> \in StepsLeft /\ cli \in Command /\ cli.distro \in cli.listed
    BY <1>1, <1>5
       DEF UninstallFails, At, StepsLeft, StepFits, StepHasWhatItNeeds
  <2>2. /\ cli' \in Command /\ cli'.distro = cli.distro
        /\ cli'.listed = cli.listed /\ pc' = "down.verify"
    BY <1>5, <2>1 DEF UninstallFails, Passes, Command
  <2>. QED BY <2>1, <2>2
           DEF StepFits, StepHasWhatItNeeds, UpSteps, DownSteps
<1>6. CASE NotRenewed \/ CertificateUnreadable
  BY <1>1, <1>2, <1>6, SameCommandFits
     DEF NotRenewed, CertificateUnreadable, At, Passes, UpSteps
<1>7. CASE Shake \/ \E d \in Distros : EditConfig(d) \/ HandInstall(d)
  <2>1. UNCHANGED <<pc, cli>>
    BY <1>7 DEF Shake, EditConfig, HandInstall
  <2>. QED BY <1>1, <1>2, <2>1 DEF StepFits, StepHasWhatItNeeds
<1>. QED BY <1>3, <1>4, <1>5, <1>6, <1>7 DEF Trouble

\* Every step keeps the types and what the command needs.
LEMMA HostStaysTyped ==
  ASSUME HostTyped, Next
  PROVE  HostTyped'
<1>1. OwnerInv' /\ ServicesTyped'
  BY StepKeeps, ServicesStayTyped DEF HostTyped
<1>2. calm' \in BOOLEAN /\ unsure' \in BOOLEAN /\ faults' \in 0..MaxFaults
  BY GhostsStayTyped DEF HostTyped
<1>3. StepFits
  BY DEF HostTyped, StepTyped, StepFits
<1>4. StepFits'
  <2>1. CASE AskDown
    BY <2>1, NewCommands
       DEF AskDown, Begin, StepFits, StepHasWhatItNeeds, UpSteps, DownSteps
  <2>2. ASSUME NEW d \in Opt(Distros), AskUp(d)
        PROVE  StepFits'
    BY <2>2, NewCommands
       DEF AskUp, Begin, StepFits, StepHasWhatItNeeds, UpSteps
  <2>3. CASE Unreachable
    BY <2>3, FailedFits DEF Unreachable
  <2>4. CASE UpdateTarget
    BY <1>3, <2>4
       DEF UpdateTarget, StepFits, StepHasWhatItNeeds, AtRest, UpSteps
  <2>. QED BY <2>1, <2>2, <2>3, <2>4, UpFits, DownFits, TroubleFits
           DEF Next, Ask
<1>. QED BY <1>1, <1>2, <1>4 DEF HostTyped, StepTyped, StepFits

LEMMA HostStartsTyped == Init => HostTyped
<1>1. Init => OwnerInv
  BY DEF Init, OwnerInv, ConfigTyped, MachineTyped, CommandTyped, Local,
         OwnershipStillHolds, NoCommand, Opt, UpSteps
<1>2. Init => ServicesTyped
  BY DEF Init, ServicesTyped, Distros, Opt
<1>3. Init => StepTyped /\ StepHasWhatItNeeds
  <2>1. MaxFaults \in 0..MaxFaults
    BY MaxFaultsAssumption
  <2>. QED BY <2>1, NewCommands
           DEF Init, StepTyped, StepHasWhatItNeeds, AtRest, UpSteps
<1>. QED BY <1>1, <1>2, <1>3 DEF HostTyped

LEMMA StutterTyped == HostTyped /\ UNCHANGED vars => HostTyped'
BY DEF vars, HostTyped, OwnerInv, ConfigTyped, MachineTyped, CommandTyped,
       Local, OwnershipStillHolds, ConfigIsOurs, ServicesTyped, StepTyped,
       StepHasWhatItNeeds

\* Every variable keeps its type, and a command has what its step needs:
\* there is always a next step in a list that is worked off, and down removes
\* only what it has found.
THEOREM HostClusterTyped == Spec => []TypeOK
<1>1. HostTyped => TypeOK
  <2>. SUFFICES ASSUME HostTyped PROVE TypeOK
    OBVIOUS
  <2>. USE DEF HostTyped
  <2>1. /\ fits \subseteq Distros /\ running \subseteq Distros
        /\ enabled \subseteq Distros /\ cert \in [Distros -> SUBSET Addrs]
        /\ kubefile \in Opt(Addrs) /\ context \in Opt(Addrs)
    BY DEF ServicesTyped
  <2>2. /\ host \in Addrs /\ target \in Addrs /\ installed \subseteq Distros
        /\ config \in [Distros -> Opt(Config)]
    BY DEF OwnerInv, MachineTyped, ConfigTyped
  <2>3. /\ pc \in AtRest \cup UpSteps \cup DownSteps /\ cli \in Command
        /\ calm \in BOOLEAN /\ unsure \in BOOLEAN /\ faults \in 0..MaxFaults
    BY DEF StepTyped
  <2>4. pc \in UpSteps \ {"up.look"} => cli.distro \in Distros /\ cli.addr \in Addrs
    BY <2>2 DEF StepHasWhatItNeeds
  <2>5. pc = "up.install" => cli.todo # <<>>
    BY InstallingGoesOn DEF StepHasWhatItNeeds, UpSteps
  <2>6. pc = "down.uninstall" => cli.todo # <<>>
    BY <2>3, CommandFields, UninstallingGoesOn DEF StepHasWhatItNeeds
  <2>7. pc \in {"down.uninstall", "down.verify", "down.local"} =>
          cli.distro \in cli.listed
    BY DEF StepHasWhatItNeeds
  <2>. QED BY <2>1, <2>2, <2>3, <2>4, <2>5, <2>6, <2>7 DEF TypeOK
<1>2. HostTyped /\ [Next]_vars => HostTyped'
  BY HostStaysTyped, StutterTyped
<1>. QED BY <1>1, <1>2, HostStartsTyped, PTL DEF Spec

-----------------------------------------------------------------------------
(* One distribution on a host.                                             *)

\* Up installs on an empty host, or goes on with what it has installed.
Alone ==
  calm /\ pc \in {"up.preflight", "up.install"} =>
    installed \subseteq {cli.distro}
NothingBeside == calm /\ installed # {} => installed' \subseteq installed

LEMMA InstallingAlone ==
  ASSUME HostTyped, Alone, InstallK3s \/ InstallRke2 \/ HalfInstall
  PROVE  Alone' /\ NothingBeside
<1>1. /\ pc = "up.install" /\ cli.distro \in Distros
      /\ cli.todo \in InstallLeft[cli.distro]
  BY DEF HostTyped, StepHasWhatItNeeds, UpSteps, InstallK3s, InstallRke2,
         HalfInstall, Doing, At
<1>2. installed' = installed \cup {cli.distro}
  BY <1>1, InstallingGoesOn DEF InstallK3s, InstallRke2, HalfInstall, Doing
<1>3. calm' = calm /\ (pc' = "up.install" => cli'.distro = cli.distro)
  <2>1. Done \/ Fail \/ Ends
    BY DEF InstallK3s, InstallRke2, HalfInstall
  <2>2. Done => cli'.distro = cli.distro
    BY DEF Done, Go, HostTyped, StepTyped, Command
  <2>. QED BY <2>1, <2>2 DEF Done, Fail, End, Ends, Go, ghostVars
<1>4. pc' # "up.preflight"
  BY DEF InstallK3s, InstallRke2, HalfInstall, Done, Fail, End, Ends, Go
<1>. QED BY <1>1, <1>2, <1>3, <1>4 DEF Alone, NothingBeside

LEMMA LookingAlone ==
  ASSUME HostTyped, LookForUp
  PROVE  Alone' /\ NothingBeside
<1>1. UNCHANGED installed
  BY DEF LookForUp, Looks, hostVars
<1>2. pc' # "up.install" /\
      (pc' = "up.preflight" => installed \subseteq {cli'.distro})
  <2>1. ASSUME NEW d,
               Go("up.preflight", [cli EXCEPT !.distro = d, !.addr = target])
        PROVE  cli'.distro = d /\ pc' = "up.preflight"
    BY <2>1 DEF Go, HostTyped, StepTyped, Command
  <2>2. Fail => pc' = "idle"
    BY DEF Fail, End, Go
  <2>. QED BY <2>1, <2>2 DEF LookForUp
<1>. QED BY <1>1, <1>2 DEF Alone, NothingBeside

LEMMA NothingElseInstalls ==
  ASSUME HostTyped, Alone, Next,
         ~(InstallK3s \/ InstallRke2 \/ HalfInstall \/ LookForUp)
  PROVE  Alone' /\ (CommandSteps => NothingBeside)
<1>. USE DEF Alone, NothingBeside
<1>1. CASE Shake \/ \E d \in Distros : EditConfig(d) \/ HandInstall(d)
  BY <1>1 DEF Shake, EditConfig, HandInstall, CommandSteps
<1>2. CASE Ask \/ Unreachable \/ UpdateTarget
  <2>1. UNCHANGED installed /\ pc' \notin {"up.preflight", "up.install"}
    BY <1>2 DEF Ask, AskUp, AskDown, Begin, Unreachable, UpdateTarget, Looks,
                hostVars, Fail, End, Go, AtRest
  <2>. QED BY <2>1
<1>3. CASE Down \/ UninstallFails
  <2>1. installed' \subseteq installed /\ pc' \notin {"up.preflight", "up.install"}
    BY <1>3 DEF Down, LookForDown, DownPreflight, StopRke2, Uninstall,
                VerifyRemoval, ForgetLocal, UninstallFails, Passes, Looks,
                hostVars, Fail, End, Go
  <2>. QED BY <2>1
<1>4. CASE Preflight \/ ConfigureTlsSan \/ StartRke2 \/ DownloadFails
  <2>1. UNCHANGED <<installed, calm>> /\ pc \in {"up.preflight", "up.install"}
    BY <1>4 DEF Preflight, ConfigureTlsSan, StartRke2, DownloadFails, Doing,
                At, Looks, OnlyConfig, hostVars, Done, Fail, End, Go, Passes,
                ghostVars
  <2>2. pc' \in {"up.preflight", "up.install"} => cli'.distro = cli.distro
    <3>1. \/ Fail \/ cli' = cli \/ \E t : cli' = [cli EXCEPT !.todo = t]
      BY <1>4 DEF Preflight, ConfigureTlsSan, StartRke2, DownloadFails, Done,
                  Go, Passes
    <3>2. ASSUME NEW t, cli' = [cli EXCEPT !.todo = t]
          PROVE  cli'.distro = cli.distro
      BY <3>2 DEF HostTyped, StepTyped, Command
    <3>. QED BY <3>1, <3>2 DEF Fail, End, Go
  <2>. QED BY <2>1, <2>2
<1>5. CASE \/ WaitForReady \/ VerifyCertificate \/ CheckOwnership
           \/ RefreshCertificate \/ VerifyRefresh \/ FetchKubeconfig
           \/ MergeKubeconfig \/ Abort \/ RefreshCut \/ NotRenewed
           \/ CertificateUnreadable
  <2>1. UNCHANGED installed /\ pc' \notin {"up.preflight", "up.install"}
    BY <1>5 DEF WaitForReady, VerifyCertificate, CheckOwnership,
                RefreshCertificate, VerifyRefresh, FetchKubeconfig,
                MergeKubeconfig, Abort, RefreshCut, NotRenewed,
                CertificateUnreadable, Looks, OnlyConfig, hostVars, Fail, End,
                Go, Ends, Passes
  <2>. QED BY <2>1
<1>. QED BY <1>1, <1>2, <1>3, <1>4, <1>5 DEF Next, Up, Trouble

\* SSHerpa does not put a second distribution beside one that is there, as
\* long as nobody else touches the host between its look and its installer.
THEOREM OneDistributionOnTheHost == Spec => OneDistribution
<1>1. Init => HostTyped /\ Alone
  BY HostStartsTyped DEF Init, Alone
<1>2. HostTyped /\ Alone /\ [Next]_vars => (HostTyped /\ Alone)'
  <2>1. HostTyped /\ Alone /\ Next => Alone'
    BY InstallingAlone, LookingAlone, NothingElseInstalls
  <2>2. Alone /\ UNCHANGED vars => Alone'
    BY DEF Alone, vars
  <2>. QED BY <2>1, <2>2, HostStaysTyped, StutterTyped
<1>3. HostTyped /\ Alone /\ [Next]_vars =>
        [CommandSteps /\ calm /\ installed # {}
           => installed' \subseteq installed]_vars
  BY InstallingAlone, LookingAlone, NothingElseInstalls DEF NothingBeside
<1>. QED BY <1>1, <1>2, <1>3, PTL DEF Spec, OneDistribution

-----------------------------------------------------------------------------
(* What Cluster ready stands for.                                          *)

\* What has been seen by the time the command comes to a step: the service
\* runs, its certificate covers the address, the file names the address.
ReadyStepByStep ==
  /\ calm /\ pc \in {"up.verify", "up.reverify"} => cli.distro \in running
  /\ calm /\ ~unsure /\ pc \in {"up.fetch", "up.merge"} =>
       cli.distro \in running /\ cli.addr \in cert[cli.distro]
  /\ pc = "up.merge" => kubefile = cli.addr

LEMMA ComingToReady ==
  ASSUME HostTyped, ReadyStepByStep,
         \/ WaitForReady \/ VerifyCertificate \/ VerifyRefresh
         \/ FetchKubeconfig \/ MergeKubeconfig
  PROVE  ReadyStepByStep' /\ ReadyMeansCovered'
<1>1. /\ UNCHANGED <<running, cert, target, calm, unsure>>
      /\ pc \in UpSteps \ {"up.look"} /\ cli.distro \in Distros
      /\ cli.addr = target
  BY DEF WaitForReady, VerifyCertificate, VerifyRefresh, FetchKubeconfig,
         MergeKubeconfig, At, Looks, hostVars, localVars, Go, Fail, End,
         ghostVars, HostTyped, StepHasWhatItNeeds, UpSteps
<1>. USE DEF ReadyStepByStep, ReadyMeansCovered, Fail, End, Go
<1>2. CASE WaitForReady
  BY <1>1, <1>2 DEF WaitForReady
<1>3. CASE VerifyCertificate \/ VerifyRefresh
  BY <1>1, <1>3 DEF VerifyCertificate, VerifyRefresh, Covers, At
<1>4. CASE FetchKubeconfig
  BY <1>1, <1>4 DEF FetchKubeconfig, At
<1>5. CASE MergeKubeconfig
  BY <1>1, <1>5 DEF MergeKubeconfig
<1>. QED BY <1>2, <1>3, <1>4, <1>5

LEMMA ElsewhereInUp ==
  ASSUME HostTyped, ReadyStepByStep, ReadyMeansCovered, Next,
         ~(\/ WaitForReady \/ VerifyCertificate \/ VerifyRefresh
           \/ FetchKubeconfig \/ MergeKubeconfig)
  PROVE  ReadyStepByStep' /\ ReadyMeansCovered'
<1>. USE DEF ReadyStepByStep, ReadyMeansCovered
<1>1. CASE pc' \notin {"up.verify", "up.reverify", "up.fetch", "up.merge", "ready"}
  BY <1>1
<1>2. CASE Shake \/ UpdateTarget
           \/ \E d \in Distros : EditConfig(d) \/ HandInstall(d)
  <2>1. UNCHANGED <<pc, cli, kubefile>> /\ ~calm'
    BY <1>2 DEF Shake, UpdateTarget, EditConfig, HandInstall, OnlyConfig,
                OnlyServices, localVars
  <2>. QED BY <2>1
<1>3. CASE CertificateUnreadable
  BY <1>3 DEF CertificateUnreadable, Passes
<1>4. \/ pc' \notin {"up.verify", "up.reverify", "up.fetch", "up.merge", "ready"}
      \/ Shake \/ UpdateTarget \/ CertificateUnreadable
      \/ \E d \in Distros : EditConfig(d) \/ HandInstall(d)
  <2>. USE DEF Go, End, Fail, Done, Ends, Passes
  <2>1. CASE Ask \/ Unreachable
    BY <2>1 DEF Ask, AskUp, AskDown, Begin, Unreachable
  <2>2. CASE Up
    BY <2>2 DEF Up, LookForUp, Preflight, ConfigureTlsSan, InstallK3s,
                InstallRke2, StartRke2, CheckOwnership, RefreshCertificate
  <2>3. CASE Down
    BY <2>3 DEF Down, LookForDown, DownPreflight, StopRke2, Uninstall,
                VerifyRemoval, ForgetLocal
  <2>4. CASE Abort \/ RefreshCut \/ HalfInstall \/ DownloadFails
             \/ UninstallFails \/ NotRenewed
    BY <2>4 DEF Abort, RefreshCut, HalfInstall, DownloadFails, UninstallFails,
                NotRenewed
  <2>. QED BY <2>1, <2>2, <2>3, <2>4 DEF Next, Trouble
<1>. QED BY <1>1, <1>2, <1>3, <1>4

\* Cluster ready is true: the fetched kubeconfig has the address of the
\* target, and the service that runs presents a certificate for it, whatever
\* installations, refreshes and interruptions came before.
THEOREM ReadyIsCovered == Spec => []ReadyMeansCovered
<1>1. Init => HostTyped /\ ReadyStepByStep /\ ReadyMeansCovered
  BY HostStartsTyped DEF Init, ReadyStepByStep, ReadyMeansCovered
<1>2. HostTyped /\ ReadyStepByStep /\ ReadyMeansCovered /\ [Next]_vars =>
        (HostTyped /\ ReadyStepByStep /\ ReadyMeansCovered)'
  <2>1. HostTyped /\ ReadyStepByStep /\ ReadyMeansCovered /\ Next =>
          (ReadyStepByStep /\ ReadyMeansCovered)'
    BY ComingToReady, ElsewhereInUp
  <2>2. ReadyStepByStep /\ ReadyMeansCovered /\ UNCHANGED vars =>
          (ReadyStepByStep /\ ReadyMeansCovered)'
    BY DEF ReadyStepByStep, ReadyMeansCovered, vars
  <2>. QED BY <2>1, <2>2, HostStaysTyped, StutterTyped
<1>. QED BY <1>1, <1>2, PTL DEF Spec

-----------------------------------------------------------------------------
(* What Removed stands for.                                                *)

Looked == {"down.preflight", "down.uninstall", "down.verify", "down.local"}
\* What is still to be removed is on the list, as long as nobody installs.
RemovalGoesOn ==
  /\ calm /\ pc \in Looked => installed \subseteq cli.listed
  /\ calm /\ pc = "down.local" => cli.distro \notin installed
  /\ calm /\ pc = "removed" => installed = {}

LEMMA DownRemoves ==
  ASSUME HostTyped, RemovalGoesOn, Down \/ UninstallFails
  PROVE  RemovalGoesOn'
<1>1. cli \in Command /\ cli.listed \subseteq Distros /\ calm' = calm
  <2>1. cli \in Command
    BY DEF HostTyped, StepTyped
  <2>2. calm' = calm
    BY DEF Down, LookForDown, DownPreflight, StopRke2, Uninstall,
           VerifyRemoval, ForgetLocal, UninstallFails, Passes, Fail, End, Go,
           ghostVars
  <2>. QED BY <2>1, <2>2, CommandFields
<1>. USE DEF RemovalGoesOn, Looked, Fail, End, Go, Passes, Looks, hostVars, At
<1>2. CASE LookForDown
  <2>1. CASE Go("down.preflight", [cli EXCEPT !.listed = installed])
    <3>1. cli'.listed = installed
      BY <1>1, <2>1 DEF Command
    <3>. QED BY <1>2, <2>1, <3>1 DEF LookForDown
  <2>. QED BY <1>2, <2>1 DEF LookForDown
<1>3. CASE DownPreflight
  <2>1. UNCHANGED installed /\ (calm => installed \subseteq cli.listed)
    BY <1>3 DEF DownPreflight
  <2>2. CASE End("removed")
    BY <1>3, <1>1, <2>1, <2>2 DEF DownPreflight
  <2>3. ASSUME NEW d,
               Go("down.uninstall", [cli EXCEPT !.distro = d,
                                                !.todo = UninstallSteps[d]])
        PROVE  RemovalGoesOn'
    <3>1. cli'.listed = cli.listed
      BY <1>1, <2>3 DEF Command
    <3>. QED BY <1>1, <2>1, <2>3, <3>1
  <2>4. ASSUME NEW d, d \notin installed,
               Go("down.preflight", [cli EXCEPT !.listed = @ \ {d}])
        PROVE  RemovalGoesOn'
    <3>1. cli'.listed = cli.listed \ {d}
      BY <1>1, <2>4 DEF Command
    <3>. QED BY <1>1, <2>1, <2>4, <3>1
  <2>5. \/ cli.listed = {} /\ End("removed")
        \/ \E d : Go("down.uninstall", [cli EXCEPT !.distro = d,
                                                !.todo = UninstallSteps[d]])
        \/ \E d : /\ d \notin installed
                  /\ Go("down.preflight", [cli EXCEPT !.listed = @ \ {d}])
    BY <1>3 DEF DownPreflight
  <2>. QED BY <2>2, <2>3, <2>4, <2>5
<1>4. CASE StopRke2 \/ Uninstall \/ UninstallFails
  <2>1. /\ pc \in Looked /\ installed' \subseteq installed
        /\ pc' \in {"down.uninstall", "down.verify"}
    BY <1>4 DEF StopRke2, Uninstall, UninstallFails
  <2>2. cli'.listed = cli.listed
    BY <1>1, <1>4 DEF StopRke2, Uninstall, UninstallFails, Command
  <2>. QED BY <1>1, <2>1, <2>2
<1>5. CASE VerifyRemoval
  BY <1>1, <1>5 DEF VerifyRemoval
<1>6. CASE ForgetLocal
  <2>1. cli'.listed = cli.listed \ {cli.distro} /\ pc' = "down.preflight"
    BY <1>1, <1>6 DEF ForgetLocal, Command
  <2>. QED BY <1>1, <1>6, <2>1 DEF ForgetLocal
<1>. QED BY <1>2, <1>3, <1>4, <1>5, <1>6 DEF Down

LEMMA ElsewhereInDown ==
  ASSUME HostTyped, RemovalGoesOn, Next, ~(Down \/ UninstallFails)
  PROVE  RemovalGoesOn'
<1>. USE DEF RemovalGoesOn, Looked
<1>1. CASE pc' \notin Looked \cup {"removed"}
  BY <1>1
<1>2. CASE Shake \/ UpdateTarget
           \/ \E d \in Distros : EditConfig(d) \/ HandInstall(d)
  BY <1>2 DEF Shake, UpdateTarget, EditConfig, HandInstall
<1>3. \/ pc' \notin Looked \cup {"removed"}
      \/ Shake \/ UpdateTarget
      \/ \E d \in Distros : EditConfig(d) \/ HandInstall(d)
  <2>. USE DEF Go, End, Fail, Done, Ends, Passes
  <2>1. CASE Ask \/ Unreachable
    BY <2>1 DEF Ask, AskUp, AskDown, Begin, Unreachable
  <2>2. CASE Up
    BY <2>2 DEF Up, LookForUp, Preflight, ConfigureTlsSan, InstallK3s,
                InstallRke2, StartRke2, WaitForReady, VerifyCertificate,
                CheckOwnership, RefreshCertificate, VerifyRefresh,
                FetchKubeconfig, MergeKubeconfig
  <2>3. CASE Abort \/ RefreshCut \/ HalfInstall \/ DownloadFails
             \/ NotRenewed \/ CertificateUnreadable
    BY <2>3 DEF Abort, RefreshCut, HalfInstall, DownloadFails, NotRenewed,
                CertificateUnreadable
  <2>. QED BY <2>1, <2>2, <2>3 DEF Next, Trouble
<1>. QED BY <1>1, <1>2, <1>3

\* What runs or comes back with a boot is installed, and is taken down in the
\* order that leaves nothing behind: RKE2 is stopped before it is uninstalled.
Started == {"up.verify", "up.ownership", "up.refresh", "up.rewait",
            "up.reverify"}
RunsWhatIsInstalled ==
  /\ running \subseteq installed /\ enabled \subseteq installed
  /\ pc \in Started \cup {"down.uninstall"} => cli.distro \in installed
  /\ pc = "down.uninstall" /\ cli.distro = "rke2"
       /\ Head(cli.todo) = "uninstall" => "rke2" \notin running

LEMMA InstallingRuns ==
  ASSUME HostTyped, RunsWhatIsInstalled,
         \/ InstallK3s \/ InstallRke2 \/ StartRke2 \/ HalfInstall
         \/ \E d \in Distros : HandInstall(d)
  PROVE  RunsWhatIsInstalled'
<1>. USE DEF RunsWhatIsInstalled
<1>1. CASE \E d \in Distros : HandInstall(d)
  <2>1. PICK d \in Distros : HandInstall(d)
    BY <1>1
  <2>2. /\ UNCHANGED <<pc, cli>> /\ d \notin installed
        /\ installed' = installed \cup {d}
        /\ enabled' = enabled \cup {d}
        /\ running' = {d} \/ running' = running
    BY <2>1 DEF HandInstall, StartService
  <2>. QED BY <2>2 DEF Started
<1>2. CASE InstallK3s \/ InstallRke2 \/ StartRke2 \/ HalfInstall
  <2>1. pc' \notin Started \cup {"down.uninstall"}
    BY <1>2 DEF InstallK3s, InstallRke2, StartRke2, HalfInstall, Done, Fail,
                End, Ends, Go, Started
  <2>2. /\ installed \subseteq installed'
        /\ running' \cup enabled' \subseteq running \cup enabled \cup installed'
    <3>1. CASE InstallK3s \/ HalfInstall
      BY <3>1 DEF InstallK3s, HalfInstall, StartService
    <3>2. CASE InstallRke2
      BY <3>2 DEF InstallRke2
    <3>3. CASE StartRke2
      BY <3>3 DEF StartRke2, StartService
    <3>. QED BY <1>2, <3>1, <3>2, <3>3
  <2>. QED BY <2>1, <2>2
<1>. QED BY <1>1, <1>2

LEMMA RestartingRuns ==
  ASSUME HostTyped, RunsWhatIsInstalled, "rebootdown" \notin Hazards,
         RefreshCertificate \/ NotRenewed \/ Shake
  PROVE  RunsWhatIsInstalled'
<1>. USE DEF RunsWhatIsInstalled
<1>1. CASE RefreshCertificate \/ NotRenewed
  <2>1. /\ UNCHANGED <<installed, enabled>> /\ cli.distro \in installed
        /\ running' = {cli.distro} \/ running' = running
    BY <1>1 DEF RefreshCertificate, NotRenewed, At, Started
  <2>2. pc' = "idle" \/ (pc' = "up.rewait" /\ cli' = cli)
    BY <1>1 DEF RefreshCertificate, NotRenewed, Passes, Fail, End, Go
  <2>. QED BY <2>1, <2>2 DEF Started
<1>2. CASE Shake
  <2>1. /\ UNCHANGED <<installed, enabled, pc, cli>> /\ running' \subseteq enabled
        /\ pc # "down.uninstall"
    BY <1>2 DEF Shake, Boot, Restarts, Strikes
  <2>. QED BY <2>1
<1>. QED BY <1>1, <1>2

LEMMA RemovingRuns ==
  ASSUME HostTyped, RunsWhatIsInstalled, Down \/ UninstallFails
  PROVE  RunsWhatIsInstalled'
<1>1. cli \in Command /\ cli.listed \subseteq Distros
  BY CommandFields DEF HostTyped, StepTyped
<1>. USE DEF RunsWhatIsInstalled, Started
<1>2. CASE LookForDown \/ VerifyRemoval \/ ForgetLocal \/ UninstallFails
  <2>1. /\ UNCHANGED <<installed, running, enabled>>
        /\ pc' \notin Started \cup {"down.uninstall"}
    BY <1>2 DEF LookForDown, VerifyRemoval, ForgetLocal, UninstallFails, Looks,
                hostVars, Passes, Fail, End, Go
  <2>. QED BY <2>1
<1>3. CASE DownPreflight
  <2>1. UNCHANGED <<installed, running, enabled>>
    BY <1>3 DEF DownPreflight, Looks, hostVars
  <2>2. pc' = "down.uninstall" =>
          \E d \in installed : cli' = [cli EXCEPT !.distro = d,
                                               !.todo = UninstallSteps[d]]
    BY <1>3 DEF DownPreflight, End, Go
  <2>3. pc' \notin Started
    BY <1>3 DEF DownPreflight, End, Go
  <2>4. ASSUME NEW d \in installed,
               cli' = [cli EXCEPT !.distro = d, !.todo = UninstallSteps[d]]
        PROVE  /\ cli'.distro \in installed
               /\ cli'.distro = "rke2" => Head(cli'.todo) = "stop"
    <3>1. cli'.distro = d /\ cli'.todo = UninstallSteps[d]
      BY <1>1, <2>4 DEF Command
    <3>2. d = "rke2" => UninstallSteps[d] = <<"stop", "uninstall">>
      BY DEF UninstallSteps
    <3>. QED BY <2>4, <3>1, <3>2, TailOfPair
  <2>. QED BY <2>1, <2>2, <2>3, <2>4
<1>4. CASE StopRke2
  <2>1. /\ UNCHANGED <<installed, enabled>> /\ running' = running \ {cli.distro}
        /\ cli.distro \in installed /\ pc' = "down.uninstall"
    BY <1>4 DEF StopRke2, At, Go
  <2>2. cli'.distro = cli.distro
    BY <1>1, <1>4 DEF StopRke2, Go, Command
  <2>. QED BY <2>1, <2>2
<1>5. CASE Uninstall
  <2>1. /\ installed' = installed \ {cli.distro} /\ pc' = "down.verify"
        /\ running' = running \ {cli.distro} /\ enabled' = enabled \ {cli.distro}
    BY <1>5 DEF Uninstall, At, Go
  <2>. QED BY <2>1
<1>. QED BY <1>2, <1>3, <1>4, <1>5 DEF Down

LEMMA LookingRuns ==
  ASSUME HostTyped, RunsWhatIsInstalled, Next,
         ~(\/ InstallK3s \/ InstallRke2 \/ StartRke2 \/ HalfInstall
           \/ \E d \in Distros : HandInstall(d)
           \/ RefreshCertificate \/ NotRenewed \/ Shake
           \/ Down \/ UninstallFails)
  PROVE  RunsWhatIsInstalled'
<1>1. UNCHANGED <<installed, running, enabled>>
  <2>. USE DEF Looks, OnlyConfig, hostVars
  <2>1. CASE Ask \/ Unreachable \/ UpdateTarget
    BY <2>1 DEF Ask, AskUp, AskDown, Begin, Unreachable, UpdateTarget
  <2>2. CASE Up
    BY <2>2 DEF Up, LookForUp, Preflight, ConfigureTlsSan, WaitForReady,
                VerifyCertificate, CheckOwnership, VerifyRefresh,
                FetchKubeconfig, MergeKubeconfig
  <2>3. CASE Trouble
    BY <2>3 DEF Trouble, Abort, RefreshCut, DownloadFails,
                CertificateUnreadable, EditConfig
  <2>. QED BY <2>1, <2>2, <2>3 DEF Next
<1>2. \/ pc' \notin Started \cup {"down.uninstall"}
      \/ UNCHANGED <<pc, cli>>
      \/ cli' = cli /\ pc \in Started
      \/ cli' = cli /\ pc' \in Started /\ cli.distro \in running
  <2>. USE DEF Go, End, Fail, Done, Ends, Passes, Started
  <2>1. CASE Ask \/ Unreachable \/ UpdateTarget
    BY <2>1 DEF Ask, AskUp, AskDown, Begin, Unreachable, UpdateTarget
  <2>2. CASE Up
    BY <2>2 DEF Up, LookForUp, Preflight, ConfigureTlsSan, WaitForReady,
                VerifyCertificate, CheckOwnership, VerifyRefresh,
                FetchKubeconfig, MergeKubeconfig, At
  <2>3. CASE Trouble
    BY <2>3 DEF Trouble, Abort, RefreshCut, DownloadFails,
                CertificateUnreadable, EditConfig
  <2>. QED BY <2>1, <2>2, <2>3 DEF Next
<1>3. pc' # "down.uninstall" \/ UNCHANGED <<pc, cli>>
  <2>. USE DEF Go, End, Fail, Done, Ends, Passes
  <2>1. CASE Ask \/ Unreachable \/ UpdateTarget
    BY <2>1 DEF Ask, AskUp, AskDown, Begin, Unreachable, UpdateTarget
  <2>2. CASE Up
    BY <2>2 DEF Up, LookForUp, Preflight, ConfigureTlsSan, WaitForReady,
                VerifyCertificate, CheckOwnership, VerifyRefresh,
                FetchKubeconfig, MergeKubeconfig
  <2>3. CASE Trouble
    BY <2>3 DEF Trouble, Abort, RefreshCut, DownloadFails,
                CertificateUnreadable, EditConfig
  <2>. QED BY <2>1, <2>2, <2>3 DEF Next
<1>. QED BY <1>1, <1>2, <1>3 DEF RunsWhatIsInstalled, Started

\* Removed is true: no distribution is left, nothing runs and nothing comes
\* back.  The hypothesis leaves one accident out: a reboot between the script
\* that stops RKE2 and the one that removes it, after which nobody looks.
THEOREM RemovedIsGone ==
  ASSUME "rebootdown" \notin Hazards
  PROVE  Spec => []RemovedMeansGone
<1>. DEFINE Inv == HostTyped /\ RemovalGoesOn /\ RunsWhatIsInstalled
<1>1. Init => Inv
  BY HostStartsTyped
     DEF Init, RemovalGoesOn, RunsWhatIsInstalled, Looked, Started
<1>2. Inv /\ [Next]_vars => Inv'
  <2>1. Inv /\ Next => RemovalGoesOn'
    BY DownRemoves, ElsewhereInDown
  <2>2. Inv /\ Next => RunsWhatIsInstalled'
    BY InstallingRuns, RestartingRuns, RemovingRuns, LookingRuns
  <2>3. Inv /\ UNCHANGED vars => (RemovalGoesOn /\ RunsWhatIsInstalled)'
    BY DEF RemovalGoesOn, RunsWhatIsInstalled, vars
  <2>. QED BY <2>1, <2>2, <2>3, HostStaysTyped, StutterTyped
<1>3. Inv => RemovedMeansGone
  BY DEF RemovalGoesOn, RunsWhatIsInstalled, RemovedMeansGone
<1>. QED BY <1>1, <1>2, <1>3, PTL DEF Spec

-----------------------------------------------------------------------------
(* The promise of up and down                                              *)

\* The steps of up after the service has been seen to run.
Seen == {"up.verify", "up.ownership", "up.refresh", "up.rewait",
         "up.reverify", "up.fetch", "up.merge"}
\* Inductive: up ends on the distribution it chose, alone on the host unless
\* somebody touches it; and what runs comes back with a reboot.
StaysAlone ==
  /\ calm /\ pc \in UpSteps \ {"up.look"} => installed \subseteq {cli.distro}
  /\ calm /\ pc = "up.merge" => cli.distro \in installed
ComesBack ==
  /\ running \subseteq enabled
  /\ pc \in Seen => cli.distro \in enabled

\* The steps of up go on with the distribution that was chosen.
LEMMA UpKeepsDistro ==
  ASSUME HostTyped, ~LookForUp,
         \/ Up \/ DownloadFails \/ NotRenewed \/ CertificateUnreadable,
         pc' \in UpSteps
  PROVE  /\ pc \in UpSteps \ {"up.look"} /\ cli'.distro = cli.distro
         /\ calm' = calm
<1>. USE DEF Go, Fail, End, Passes, ghostVars, UpSteps, At
<1>1. cli \in Command
  BY DEF HostTyped, StepTyped
<1>2. \A x : [cli EXCEPT !.todo = x].distro = cli.distro
  BY <1>1 DEF Command
<1>3. CASE Preflight \/ DownloadFails
  BY <1>2, <1>3 DEF Preflight, DownloadFails, Doing
<1>4. CASE ConfigureTlsSan \/ InstallK3s \/ InstallRke2 \/ StartRke2
  <2>1. pc = "up.install" /\ (Done \/ Fail)
    BY <1>4 DEF ConfigureTlsSan, InstallK3s, InstallRke2, StartRke2, Doing
  <2>. QED BY <1>2, <2>1 DEF Done
<1>5. CASE WaitForReady \/ VerifyCertificate \/ CheckOwnership
           \/ VerifyRefresh \/ CertificateUnreadable
  BY <1>5 DEF WaitForReady, VerifyCertificate, CheckOwnership, VerifyRefresh,
              CertificateUnreadable
<1>6. CASE RefreshCertificate \/ NotRenewed \/ FetchKubeconfig
  BY <1>6 DEF RefreshCertificate, NotRenewed, FetchKubeconfig
<1>7. ~MergeKubeconfig
  BY DEF MergeKubeconfig
<1>. QED BY <1>3, <1>4, <1>5, <1>6, <1>7 DEF Up

\* What up does to the markers and the services.
LEMMA UpAddsServices ==
  ASSUME HostTyped,
         \/ Up \/ RefreshCut \/ HalfInstall \/ DownloadFails \/ NotRenewed
         \/ CertificateUnreadable
  PROVE  /\ installed \subseteq installed' /\ enabled \subseteq enabled'
         /\ pc \in UpSteps \ {"up.look"} =>
              installed' \subseteq installed \cup {cli.distro}
<1>1. CASE \/ LookForUp \/ Preflight \/ ConfigureTlsSan \/ WaitForReady
           \/ VerifyCertificate \/ CheckOwnership \/ RefreshCertificate
           \/ VerifyRefresh \/ FetchKubeconfig \/ MergeKubeconfig
           \/ RefreshCut \/ DownloadFails \/ NotRenewed
           \/ CertificateUnreadable
  BY <1>1 DEF LookForUp, Preflight, ConfigureTlsSan, WaitForReady,
              VerifyCertificate, CheckOwnership, RefreshCertificate,
              VerifyRefresh, FetchKubeconfig, MergeKubeconfig, RefreshCut,
              DownloadFails, NotRenewed, CertificateUnreadable, Looks,
              OnlyConfig, hostVars
<1>2. CASE InstallK3s \/ InstallRke2 \/ StartRke2 \/ HalfInstall
  <2>1. /\ pc = "up.install" /\ cli.distro \in Distros
        /\ cli.todo \in InstallLeft[cli.distro]
    BY <1>2 DEF HostTyped, StepHasWhatItNeeds, UpSteps, InstallK3s,
                InstallRke2, StartRke2, HalfInstall, Doing, At
  <2>2. /\ installed \subseteq installed'
        /\ installed' \subseteq installed \cup {cli.distro}
    BY <1>2, <2>1, InstallingGoesOn
    DEF InstallK3s, InstallRke2, StartRke2, HalfInstall, Doing
  <2>3. enabled \subseteq enabled'
    BY <1>2 DEF InstallK3s, InstallRke2, StartRke2, HalfInstall, StartService
  <2>. QED BY <2>2, <2>3
<1>. QED BY <1>1, <1>2 DEF Up

\* Which steps lead on in up: the command was in up before, or others touch
\* the host while it stands still.
LEMMA UpComes ==
  ASSUME Next, pc' \in UpSteps \ {"up.look"}
  PROVE  \/ Up \/ DownloadFails \/ NotRenewed \/ CertificateUnreadable
         \/ ~calm' /\ UNCHANGED <<pc, cli>>
<1>. USE DEF Go, Fail, End, Ends, Passes, UpSteps, AtRest
<1>1. ~Ask /\ ~Unreachable
  BY DEF Ask, AskUp, AskDown, Begin, Unreachable
<1>2. ~Down
  BY DEF Down, LookForDown, DownPreflight, StopRke2, Uninstall, VerifyRemoval,
         ForgetLocal
<1>3. ~Abort /\ ~RefreshCut /\ ~HalfInstall /\ ~UninstallFails
  BY DEF Abort, RefreshCut, HalfInstall, UninstallFails
<1>. QED BY <1>1, <1>2, <1>3
         DEF Next, Trouble, UpdateTarget, Shake, EditConfig, HandInstall

LEMMA StaysAloneKept ==
  ASSUME HostTyped, Alone, StaysAlone, Next
  PROVE  StaysAlone'
<1>1. CASE ~calm' \/ pc' \notin UpSteps \ {"up.look"}
  BY <1>1 DEF StaysAlone, UpSteps
<1>2. CASE LookForUp /\ pc' \in UpSteps
  <2>1. Alone' /\ pc' = "up.preflight"
    BY <1>2, LookingAlone DEF LookForUp, Go, Fail, End, UpSteps
  <2>. QED BY <2>1 DEF Alone, StaysAlone
<1>3. CASE calm' /\ pc' \in UpSteps \ {"up.look"} /\ ~LookForUp
  <2>1. Up \/ DownloadFails \/ NotRenewed \/ CertificateUnreadable
    BY <1>3, UpComes
  <2>2. /\ pc \in UpSteps \ {"up.look"} /\ cli'.distro = cli.distro
        /\ calm
    BY <1>3, <2>1, UpKeepsDistro
  <2>3. installed' \subseteq {cli.distro}
    BY <2>1, <2>2, UpAddsServices DEF StaysAlone
  <2>4. pc' = "up.merge" => FetchKubeconfig
    BY <2>1 DEF Up, LookForUp, Preflight, ConfigureTlsSan, InstallK3s,
                InstallRke2, StartRke2, WaitForReady, VerifyCertificate,
                CheckOwnership, RefreshCertificate, VerifyRefresh,
                MergeKubeconfig, DownloadFails, NotRenewed,
                CertificateUnreadable, Go, Done, Fail, End, Passes
  <2>5. pc' = "up.merge" => cli.distro \in installed'
    BY <2>4 DEF FetchKubeconfig, Fail, End, Go, hostVars
  <2>. QED BY <2>2, <2>3, <2>5 DEF StaysAlone
<1>. QED BY <1>1, <1>2, <1>3

\* Nothing starts but what is enabled, and only down disables.
LEMMA RunningComesBack ==
  ASSUME HostTyped, ComesBack, Next
  PROVE  running' \subseteq enabled'
<1>. USE DEF ComesBack
<1>1. CASE InstallK3s \/ StartRke2 \/ \E d \in Distros : HandInstall(d)
  BY <1>1 DEF InstallK3s, StartRke2, HandInstall, StartService
<1>2. CASE RefreshCertificate \/ NotRenewed
  <2>1. cli.distro \in enabled /\ enabled' = enabled
    BY <1>2 DEF RefreshCertificate, NotRenewed, At, Seen
  <2>. QED BY <1>2, <2>1 DEF RefreshCertificate, NotRenewed
<1>3. CASE StopRke2 \/ Uninstall
  BY <1>3 DEF StopRke2, Uninstall
<1>4. CASE Shake
  BY <1>4 DEF Shake, Boot
<1>5. CASE UNCHANGED <<running, enabled>>
  BY <1>5
<1>6. \/ UNCHANGED <<running, enabled>>
      \/ InstallK3s \/ StartRke2 \/ \E d \in Distros : HandInstall(d)
      \/ RefreshCertificate \/ NotRenewed \/ StopRke2 \/ Uninstall \/ Shake
  <2>. USE DEF Looks, OnlyServices, OnlyConfig, hostVars
  <2>1. CASE Ask \/ Unreachable \/ UpdateTarget
    BY <2>1 DEF Ask, AskUp, AskDown, Begin, Unreachable, UpdateTarget
  <2>2. CASE Up
    BY <2>2 DEF Up, LookForUp, Preflight, ConfigureTlsSan, InstallRke2,
                WaitForReady, VerifyCertificate, CheckOwnership,
                VerifyRefresh, FetchKubeconfig, MergeKubeconfig
  <2>3. CASE Down
    BY <2>3 DEF Down, LookForDown, DownPreflight, VerifyRemoval, ForgetLocal
  <2>4. CASE Trouble
    BY <2>4 DEF Trouble, Abort, RefreshCut, HalfInstall, DownloadFails,
                UninstallFails, CertificateUnreadable, EditConfig
  <2>. QED BY <2>1, <2>2, <2>3, <2>4 DEF Next
<1>. QED BY <1>1, <1>2, <1>3, <1>4, <1>5, <1>6

LEMMA ComesBackKept ==
  ASSUME HostTyped, ComesBack, Next
  PROVE  ComesBack'
<1>1. running' \subseteq enabled'
  BY RunningComesBack
<1>2. CASE pc' \notin Seen
  BY <1>1, <1>2 DEF ComesBack
<1>3. CASE pc' \in Seen /\ UNCHANGED <<pc, cli>> /\ ~calm'
  <2>1. enabled \subseteq enabled'
    <3>1. pc \in UpSteps
      BY <1>3 DEF Seen, UpSteps
    <3>2. ~Down /\ ~Ask
      BY <3>1 DEF Down, LookForDown, DownPreflight, StopRke2, Uninstall,
                  VerifyRemoval, ForgetLocal, At, UpSteps, Ask, AskUp,
                  AskDown, Begin, AtRest
    <3>3. CASE Up \/ RefreshCut \/ HalfInstall \/ DownloadFails \/ NotRenewed
               \/ CertificateUnreadable
      BY <3>3, UpAddsServices
    <3>4. CASE \/ Unreachable \/ UpdateTarget \/ Abort \/ UninstallFails
               \/ Shake \/ \E d \in Distros : EditConfig(d) \/ HandInstall(d)
      BY <3>4 DEF Unreachable, UpdateTarget, Abort, UninstallFails, Shake,
                  EditConfig, HandInstall, StartService, Looks, OnlyConfig,
                  hostVars
    <3>. QED BY <3>2, <3>3, <3>4 DEF Next, Trouble
  <2>. QED BY <1>1, <1>3, <2>1 DEF ComesBack
<1>4. CASE /\ pc' \in Seen
           /\ Up \/ DownloadFails \/ NotRenewed \/ CertificateUnreadable
  <2>1. ~LookForUp
    BY <1>4 DEF LookForUp, Go, Fail, End, Seen
  <2>2. cli'.distro = cli.distro
    BY <1>4, <2>1, UpKeepsDistro DEF Seen, UpSteps
  <2>3. enabled \subseteq enabled'
    BY <1>4, UpAddsServices
  <2>4. pc \in Seen \/ cli.distro \in running
    BY <1>4, <2>1
    DEF Up, Preflight, ConfigureTlsSan, InstallK3s, InstallRke2, StartRke2,
        WaitForReady, VerifyCertificate, CheckOwnership, RefreshCertificate,
        VerifyRefresh, FetchKubeconfig, MergeKubeconfig, DownloadFails,
        NotRenewed, CertificateUnreadable, Go, Done, Fail, End, Passes, At,
        Seen
  <2>. QED BY <1>1, <2>2, <2>3, <2>4 DEF ComesBack
<1>. QED BY <1>2, <1>3, <1>4, UpComes DEF Seen, UpSteps

LEMMA Phases ==
  /\ pc \in UpSteps => Phase = "up" /\ Said = ""
  /\ pc \in DownSteps => Phase = "down" /\ Said = ""
  /\ pc = "idle" => Phase = "rest" /\ Said = ""
  /\ pc = "ready" => Phase = "rest" /\ Said = "ready"
  /\ pc \in {"removed", "nothing"} => Phase = "rest" /\ Said = "removed"
  BY DEF Phase, Said, UpSteps, DownSteps

LEMMA PhasesNext ==
  /\ pc' \in UpSteps => Phase' = "up" /\ Said' = ""
  /\ pc' \in DownSteps => Phase' = "down" /\ Said' = ""
  /\ pc' = "idle" => Phase' = "rest" /\ Said' = ""
  /\ pc' = "ready" => Phase' = "rest" /\ Said' = "ready"
  /\ pc' \in {"removed", "nothing"} => Phase' = "rest" /\ Said' = "removed"
  BY DEF Phase, Said, UpSteps, DownSteps

\* A command that is typed in begins.
LEMMA AskBegins ==
  ASSUME Ask
  PROVE  Life!Begin
<1>1. /\ pc \in AtRest /\ pc' \in {"up.look", "down.look"}
      /\ calm' /\ UNCHANGED <<installed, enabled>>
  BY DEF Ask, AskUp, AskDown, Begin, Looks, hostVars
<1>2. Phase = "rest"
  BY <1>1, Phases DEF AtRest
<1>3. Phase' \in {"up", "down"} /\ Said' = ""
  BY <1>1, PhasesNext DEF UpSteps, DownSteps
<1>. QED BY <1>1, <1>2, <1>3 DEF Life!Begin

\* Where a step of up leads to.
LEMMA UpEnds ==
  ASSUME \/ Up \/ RefreshCut \/ HalfInstall \/ DownloadFails \/ NotRenewed
         \/ CertificateUnreadable
  PROVE  /\ pc \in UpSteps /\ calm' = calm
         /\ pc' \in UpSteps \cup {"idle", "ready"}
         /\ pc' = "ready" => MergeKubeconfig
<1>. USE DEF Go, Fail, End, Ends, Passes, ghostVars, UpSteps, At
<1>1. CASE LookForUp \/ Preflight
  BY <1>1 DEF LookForUp, Preflight
<1>2. CASE ConfigureTlsSan \/ InstallK3s \/ InstallRke2 \/ StartRke2
  BY <1>2 DEF ConfigureTlsSan, InstallK3s, InstallRke2, StartRke2, Doing, Done
<1>3. CASE WaitForReady \/ VerifyCertificate \/ CheckOwnership
           \/ RefreshCertificate \/ VerifyRefresh
  BY <1>3 DEF WaitForReady, VerifyCertificate, CheckOwnership,
              RefreshCertificate, VerifyRefresh
<1>4. CASE FetchKubeconfig \/ MergeKubeconfig
  BY <1>4 DEF FetchKubeconfig, MergeKubeconfig
<1>5. CASE \/ RefreshCut \/ HalfInstall \/ DownloadFails \/ NotRenewed
           \/ CertificateUnreadable
  BY <1>5 DEF RefreshCut, HalfInstall, DownloadFails, NotRenewed,
              CertificateUnreadable, Doing
<1>. QED BY <1>1, <1>2, <1>3, <1>4, <1>5 DEF Up

\* A step of up adds, and the last one finds one distribution, enabled.
LEMMA UpWorks ==
  ASSUME HostTyped, StaysAlone, ComesBack,
         \/ Up \/ RefreshCut \/ HalfInstall \/ DownloadFails \/ NotRenewed
         \/ CertificateUnreadable
  PROVE  Life!Work \/ Life!SayReady
<1>1. /\ pc \in UpSteps /\ calm' = calm
      /\ pc' \in UpSteps \cup {"idle", "ready"}
      /\ pc' = "ready" => MergeKubeconfig
  BY UpEnds
<1>2. Phase = "up"
  BY <1>1, Phases
<1>3. CASE pc' # "ready"
  <2>1. Phase' \in {"up", "rest"} /\ Said' = ""
    BY <1>1, <1>3, PhasesNext
  <2>2. Life!Adds
    BY UpAddsServices DEF Life!Adds
  <2>. QED BY <1>1, <1>2, <2>1, <2>2 DEF Life!Work
<1>4. CASE pc' = "ready"
  <2>1. pc = "up.merge" /\ UNCHANGED <<installed, enabled>>
    BY <1>1, <1>4 DEF MergeKubeconfig, hostVars
  <2>2. Phase' = "rest" /\ Said' = "ready"
    BY <1>4, PhasesNext
  <2>3. calm => installed = {cli.distro}
    BY <2>1 DEF StaysAlone, UpSteps
  <2>4. cli.distro \in enabled
    BY <2>1 DEF ComesBack, Seen
  <2>. QED BY <1>1, <1>2, <2>1, <2>2, <2>3, <2>4 DEF Life!SayReady
<1>. QED BY <1>3, <1>4

\* A step of down takes away, and the last one finds nothing left.
LEMMA DownWorks ==
  ASSUME HostTyped, RemovalGoesOn, Down \/ UninstallFails
  PROVE  Life!Work \/ Life!SayRemoved
<1>. USE DEF Go, Fail, End, Passes, ghostVars, At, Looks, hostVars
<1>1. /\ pc \in DownSteps /\ calm' = calm
      /\ pc' \in DownSteps \cup {"idle", "removed", "nothing"}
      /\ installed' \subseteq installed
  BY DEF Down, LookForDown, DownPreflight, StopRke2, Uninstall, VerifyRemoval,
         ForgetLocal, UninstallFails, DownSteps
<1>2. Phase = "down"
  BY <1>1, Phases
<1>3. CASE pc' \notin {"removed", "nothing"}
  <2>1. Phase' \in {"down", "rest"} /\ Said' = ""
    BY <1>1, <1>3, PhasesNext
  <2>2. enabled' \subseteq enabled
    BY DEF Down, LookForDown, DownPreflight, StopRke2, Uninstall,
           VerifyRemoval, ForgetLocal, UninstallFails
  <2>3. Life!TakesAway
    BY <1>1, <2>2 DEF Life!TakesAway
  <2>. QED BY <1>1, <1>2, <2>1, <2>3 DEF Life!Work
<1>4. CASE pc' \in {"removed", "nothing"}
  <2>1. LookForDown \/ DownPreflight
    BY <1>4 DEF Down, StopRke2, Uninstall, VerifyRemoval, ForgetLocal,
                UninstallFails
  <2>2. Phase' = "rest" /\ Said' = "removed"
    BY <1>4, PhasesNext
  <2>3. UNCHANGED <<installed, enabled>>
    BY <2>1 DEF LookForDown, DownPreflight
  <2>4. calm => installed = {}
    BY <1>4, <2>1 DEF LookForDown, DownPreflight, RemovalGoesOn, Looked
  <2>. QED BY <1>1, <1>2, <2>2, <2>3, <2>4 DEF Life!SayRemoved
<1>. QED BY <1>3, <1>4

\* A command that is cut off, or does not find the host, says nothing.
LEMMA CutOffWorks ==
  ASSUME HostTyped, Abort \/ Unreachable
  PROVE  Life!Work
<1>1. /\ pc \in UpSteps \cup DownSteps /\ pc' = "idle"
      /\ UNCHANGED <<installed, enabled, calm>>
  BY DEF HostTyped, StepTyped, Abort, Unreachable, Ends, Fail, End, Go, Looks,
         hostVars, ghostVars
<1>2. Phase' = "rest" /\ Said' = ""
  BY <1>1, PhasesNext
<1>3. Phase \in {"up", "down"}
  BY <1>1, Phases
<1>. QED BY <1>1, <1>2, <1>3 DEF Life!Work, Life!Adds, Life!TakesAway

LEMMA OthersDisturb ==
  ASSUME Shake \/ UpdateTarget \/ \E d \in Distros : EditConfig(d) \/ HandInstall(d)
  PROVE  Life!Disturb
<1>1. pc' = pc /\ calm' = FALSE
  BY DEF Shake, UpdateTarget, EditConfig, HandInstall
<1>. QED BY <1>1 DEF Life!Disturb, Phase, Said

\* Host-mode up and down, step by step and through every interruption, do
\* what Lifecycle promises: up adds distributions and services only and says
\* Cluster ready of a host with one distribution that comes back with a
\* reboot; down only takes away and says Removed of a host without any.  It
\* is the promise that VmCluster keeps as well.
THEOREM HostKeepsLifecycle == Spec => LifecycleKept
<1>. DEFINE Inv == HostTyped /\ Alone /\ StaysAlone /\ ComesBack /\ RemovalGoesOn
<1>1. Init => Inv /\ Life!Init
  <2>1. Init => Alone /\ StaysAlone /\ ComesBack /\ RemovalGoesOn
    BY DEF Init, Alone, StaysAlone, ComesBack, RemovalGoesOn, UpSteps, Seen,
           Looked
  <2>2. Init => Life!Init
    BY Phases DEF Init, Life!Init
  <2>. QED BY <2>1, <2>2, HostStartsTyped
<1>2. Inv /\ [Next]_vars => Inv'
  <2>1. Inv /\ Next => Alone'
    BY InstallingAlone, LookingAlone, NothingElseInstalls
  <2>2. Inv /\ Next => (StaysAlone /\ ComesBack)'
    BY StaysAloneKept, ComesBackKept
  <2>3. Inv /\ Next => RemovalGoesOn'
    BY DownRemoves, ElsewhereInDown
  <2>4. Inv /\ UNCHANGED vars =>
          (Alone /\ StaysAlone /\ ComesBack /\ RemovalGoesOn)'
    BY DEF Alone, StaysAlone, ComesBack, RemovalGoesOn, vars
  <2>. QED BY <2>1, <2>2, <2>3, <2>4, HostStaysTyped, StutterTyped
<1>3. Inv /\ [Next]_vars => [Life!Next]_(Life!vars)
  <2>. SUFFICES ASSUME Inv, [Next]_vars
                PROVE  Life!Next \/ UNCHANGED Life!vars
    OBVIOUS
  <2>1. CASE Ask
    BY <2>1, AskBegins DEF Life!Next
  <2>2. CASE \/ Up \/ RefreshCut \/ HalfInstall \/ DownloadFails \/ NotRenewed
             \/ CertificateUnreadable
    BY <2>2, UpWorks DEF Life!Next
  <2>3. CASE Down \/ UninstallFails
    BY <2>3, DownWorks DEF Life!Next
  <2>4. CASE Abort \/ Unreachable
    BY <2>4, CutOffWorks DEF Life!Next
  <2>5. CASE \/ Shake \/ UpdateTarget
             \/ \E d \in Distros : EditConfig(d) \/ HandInstall(d)
    BY <2>5, OthersDisturb DEF Life!Next
  <2>6. CASE UNCHANGED vars
    BY <2>6 DEF Life!vars, Phase, Said, vars
  <2>. QED BY <2>1, <2>2, <2>3, <2>4, <2>5, <2>6 DEF Next, Trouble
<1>. QED BY <1>1, <1>2, <1>3, PTL DEF Spec, LifecycleKept, Life!Spec
-----------------------------------------------------------------------------
(* The order of the steps                                                  *)

LEMMA TailIsShorter ==
  ASSUME NEW d \in Distros, NEW t \in InstallLeft[d] \cup UninstallLeft[d]
  PROVE  Len(Tail(t)) < Len(t)
<1>1. \A a, b, c : /\ Len(Tail(<<a, b, c>>)) < Len(<<a, b, c>>)
                   /\ Len(Tail(<<a, b>>)) < Len(<<a, b>>)
                   /\ Len(Tail(<<a>>)) < Len(<<a>>)
  OBVIOUS
<1>2. CASE d = "k3s"
  <2>1. \/ t = <<"configure", "install k3s">> \/ t = <<"install k3s">>
        \/ t = <<"uninstall">>
    BY <1>2 DEF InstallLeft, UninstallLeft
  <2>. QED BY <1>1, <2>1
<1>3. CASE d = "rke2"
  <2>1. \/ t = <<"install rke2", "configure", "start rke2">>
        \/ t = <<"configure", "start rke2">> \/ t = <<"start rke2">>
        \/ t = <<"stop", "uninstall">> \/ t = <<"uninstall">>
    BY <1>3 DEF InstallLeft, UninstallLeft
  <2>. QED BY <1>1, <2>1
<1>. QED BY <1>2, <1>3 DEF Distros

\* The steps of an installation are crossed off one by one.
LEMMA InstallingGoesForward ==
  ASSUME HostTyped, pc = "up.install", pc' \in {"up.install", "up.wait"},
         pc' = "up.install" => cli' = [cli EXCEPT !.todo = Tail(@)]
  PROVE  Forward
<1>1. /\ cli.distro \in Distros /\ cli.todo \in InstallLeft[cli.distro]
      /\ cli \in Command
  BY DEF HostTyped, StepHasWhatItNeeds, StepTyped, UpSteps
<1>2. Phase' = Phase
  BY Phases, PhasesNext DEF UpSteps
<1>3. CASE pc' = "up.wait"
  BY <1>2, <1>3 DEF Forward, Stage
<1>4. CASE pc' = "up.install"
  <2>1. cli'.todo = Tail(cli.todo) /\ cli'.listed = cli.listed
    BY <1>1, <1>4 DEF Command
  <2>2. Len(cli'.todo) < Len(cli.todo)
    BY <1>1, <2>1, TailIsShorter
  <2>. QED BY <1>2, <1>4, <2>1, <2>2 DEF Forward
<1>. QED BY <1>3, <1>4

\* up goes from stage to stage and comes to none twice.
LEMMA UpGoesForward ==
  ASSUME HostTyped, pc' \notin AtRest,
         \/ Up \/ RefreshCut \/ HalfInstall \/ DownloadFails \/ NotRenewed
         \/ CertificateUnreadable
  PROVE  Forward
<1>. USE DEF Go, Fail, End, Ends, Passes, At
<1>1. Phase' = Phase
  BY UpEnds, Phases, PhasesNext DEF AtRest
<1>2. CASE LookForUp \/ Preflight
  <2>1. \/ pc = "up.look" /\ pc' = "up.preflight"
        \/ pc = "up.preflight" /\ pc' \in {"up.wait", "up.install"}
    BY <1>2 DEF LookForUp, Preflight, AtRest
  <2>. QED BY <1>1, <2>1 DEF Forward, Stage
<1>3. CASE \/ ConfigureTlsSan \/ InstallK3s \/ InstallRke2 \/ StartRke2
           \/ DownloadFails
  <2>1. /\ pc = "up.install" /\ pc' \in {"up.install", "up.wait"}
        /\ pc' = "up.install" => cli' = [cli EXCEPT !.todo = Tail(@)]
    BY <1>3 DEF ConfigureTlsSan, InstallK3s, InstallRke2, StartRke2,
                DownloadFails, Doing, Done, AtRest
  <2>. QED BY <2>1, InstallingGoesForward
<1>4. CASE WaitForReady
  <2>1. \/ pc = "up.wait" /\ pc' = "up.verify"
        \/ pc = "up.rewait" /\ pc' = "up.reverify"
    BY <1>4 DEF WaitForReady, AtRest
  <2>. QED BY <1>1, <2>1 DEF Forward, Stage
<1>5. CASE VerifyCertificate \/ CheckOwnership
  <2>1. \/ pc = "up.verify" /\ pc' \in {"up.fetch", "up.ownership"}
        \/ pc = "up.ownership" /\ pc' = "up.refresh"
    BY <1>5 DEF VerifyCertificate, CheckOwnership, AtRest
  <2>. QED BY <1>1, <2>1 DEF Forward, Stage
<1>6. CASE RefreshCertificate \/ NotRenewed
  <2>1. pc = "up.refresh" /\ pc' = "up.rewait"
    <3>1. CASE RefreshCertificate
      BY <3>1 DEF RefreshCertificate, AtRest
    <3>2. CASE NotRenewed
      BY <3>2 DEF NotRenewed
    <3>. QED BY <1>6, <3>1, <3>2
  <2>. QED BY <1>1, <2>1 DEF Forward, Stage
<1>7. CASE VerifyRefresh \/ CertificateUnreadable
  <2>1. pc \in {"up.verify", "up.reverify"} /\ pc' = "up.fetch"
    BY <1>7 DEF VerifyRefresh, CertificateUnreadable, AtRest
  <2>. QED BY <1>1, <2>1 DEF Forward, Stage
<1>8. CASE FetchKubeconfig \/ MergeKubeconfig \/ RefreshCut \/ HalfInstall
  <2>1. pc = "up.fetch" /\ pc' = "up.merge"
    BY <1>8 DEF FetchKubeconfig, MergeKubeconfig, RefreshCut, HalfInstall,
                AtRest
  <2>. QED BY <1>1, <2>1 DEF Forward, Stage
<1>. QED BY <1>2, <1>3, <1>4, <1>5, <1>6, <1>7, <1>8 DEF Up

\* down goes through its steps for one distribution after the other.
LEMMA DownGoesForward ==
  ASSUME HostTyped, pc' \notin AtRest, Down \/ UninstallFails
  PROVE  Forward
<1>. USE DEF Go, Fail, End, Passes, At
<1>. cli \in Command
  BY DEF HostTyped, StepTyped
<1>1. pc \in DownSteps /\ pc' \in DownSteps
  BY DEF Down, LookForDown, DownPreflight, StopRke2, Uninstall, VerifyRemoval,
         ForgetLocal, UninstallFails, DownSteps, AtRest
<1>2. Phase' = Phase
  BY <1>1, Phases, PhasesNext
<1>3. CASE LookForDown
  BY <1>2, <1>3 DEF LookForDown, Forward, Stage, AtRest
<1>4. CASE DownPreflight
  <2>1. CASE pc' = "down.uninstall"
    <3>1. pc = "down.preflight" /\ cli'.listed = cli.listed
      BY <1>4, <2>1 DEF DownPreflight, Command
    <3>. QED BY <1>2, <2>1, <3>1 DEF Forward, Stage, Line
  <2>2. CASE pc' = "down.preflight"
    <3>1. PICK d \in cli.listed : cli' = [cli EXCEPT !.listed = @ \ {d}]
      BY <1>4, <2>2 DEF DownPreflight, Command, Distros
    <3>2. /\ cli'.listed \subseteq cli.listed
          /\ cli'.listed # cli.listed /\ pc = pc'
      BY <1>4, <2>2, <3>1 DEF DownPreflight, Command
    <3>. QED BY <1>2, <3>2 DEF Forward
  <2>. QED BY <1>4, <2>1, <2>2 DEF DownPreflight, AtRest
<1>5. CASE StopRke2
  <2>1. /\ pc = "down.uninstall" /\ pc' = pc
        /\ cli'.listed = cli.listed /\ cli'.todo = Tail(cli.todo)
    BY <1>5 DEF StopRke2, Command
  <2>2. cli.distro \in Distros /\ cli.todo \in UninstallLeft[cli.distro]
    BY <2>1 DEF HostTyped, StepHasWhatItNeeds, Command
  <2>3. Len(cli'.todo) < Len(cli.todo)
    BY <2>1, <2>2, TailIsShorter
  <2>. QED BY <1>2, <2>1, <2>3 DEF Forward
<1>6. CASE Uninstall \/ UninstallFails \/ VerifyRemoval
  <2>1. /\ cli'.listed = cli.listed
        /\ \/ pc = "down.uninstall" /\ pc' = "down.verify"
           \/ pc = "down.verify" /\ pc' = "down.local"
    BY <1>6 DEF Uninstall, UninstallFails, VerifyRemoval, Command, AtRest
  <2>. QED BY <1>2, <2>1 DEF Forward, Stage, Line
<1>7. CASE ForgetLocal
  <2>1. /\ pc = "down.local" /\ pc' = "down.preflight"
        /\ cli'.listed = cli.listed \ {cli.distro}
    BY <1>7 DEF ForgetLocal, Command
  <2>2. cli.distro \in cli.listed
    BY <2>1 DEF HostTyped, StepHasWhatItNeeds
  <2>3. cli'.listed \subseteq cli.listed /\ cli'.listed # cli.listed
    BY <2>1, <2>2
  <2>. QED BY <1>2, <2>1, <2>3 DEF Forward, Stage
<1>. QED BY <1>3, <1>4, <1>5, <1>6, <1>7 DEF Down

\* Every step of up and down, also one that fails without saying so, ends the
\* command or brings it forward: the certificate is cured once, and down
\* comes to no distribution twice.  A command has only so many steps to
\* take, whatever happens on the host; liveness has to add that they are
\* taken.
THEOREM CommandsGoForward == Spec => StepsForward
<1>1. HostTyped /\ [Next]_vars => HostTyped'
  BY HostStaysTyped, StutterTyped
<1>2. ASSUME HostTyped,
             \/ Up \/ Down \/ Unreachable
             \/ Trouble /\ CommandSteps
      PROVE  Forward
  <2>1. CASE pc' \in AtRest
    BY <2>1 DEF Forward
  <2>2. CASE pc' \notin AtRest
    <3>1. ~Unreachable /\ ~Abort
      BY <2>2 DEF Unreachable, Abort, Fail, End, Go, Ends, AtRest
    <3>2. \/ Up \/ RefreshCut \/ HalfInstall \/ DownloadFails
          \/ NotRenewed \/ CertificateUnreadable \/ Down \/ UninstallFails
      BY <1>2, <3>1 DEF Trouble, Shake, EditConfig, HandInstall, CommandSteps
    <3>. QED BY <1>2, <2>2, <3>2, UpGoesForward, DownGoesForward
  <2>. QED BY <2>1, <2>2
<1>3. HostTyped =>
        [Up \/ Down \/ Unreachable \/ (Trouble /\ CommandSteps)
           => Forward]_vars
  BY <1>2
<1>. QED BY <1>1, <1>3, HostStartsTyped, PTL DEF Spec, StepsForward
=============================================================================
