-------------------------- MODULE FoundationProofs --------------------------
(***************************************************************************)
(* What `ssherpa up --vm' puts under its VMs, within HostModes and for any *)
(* hosts, terminals and trouble: an incapable host is left alone, what an  *)
(* earlier set-up left is no obstacle, what was verified stands, and VMs   *)
(* of one size fit into the memory that was counted.                       *)
(***************************************************************************)
EXTENDS HostModesProofs

\* Steps only a set-up that has accepted the host gets to.
Accepted == {"setup.install", "setup.unpack", "setup.enable",
             "setup.network", "setup.verify", "vm.fit", "vm.build",
             "vm.inspect", "vm.cluster"}

Barred == ~Capable(facts) \/ ~CanInstall
\* Inductive with Typed: nothing is on a host that is refused, no command is
\* past the first probe, and no installation is still at work.
NothingBegun ==
  Barred /\ ~meddled =>
    /\ tools = {} /\ ~locked
    /\ ~daemon.enabled /\ ~net.auto /\ There = {}
    /\ \A c \in Clis : pc[c] \notin Accepted
    /\ \A e \in late : e.kind # "packages"

\* Inductive with Typed: packages are there all or none unless somebody is at
\* work on them, and each step finds done what the steps before it did.
StepsHold ==
  ~torn /\ ~meddled =>
    /\ ~locked => tools \in {{}, Packages}
    /\ \A c \in Clis :
         /\ pc[c] \in {"setup.enable", "setup.network", "setup.verify"} =>
              "virsh" \in tools
         /\ pc[c] \in {"setup.network", "setup.verify"} => daemon.on
         /\ pc[c] = "setup.verify" => net.on

\* Inductive with Typed: what runs is also marked to be started with the
\* host, so that a boot brings back what it took.
BootsBack ==
  /\ net.on => net.auto
  /\ sound # "no" => daemon.on /\ daemon.enabled
  /\ sound = "yes" => "virsh" \in tools /\ net.on

-----------------------------------------------------------------------------
(* The rest of the commands                                                *)

\* Ask, the looks, the builds, installations and removals leave what set-up
\* has done as it is, and get past set-up only where they already are.
Beside(c) ==
  /\ UNCHANGED <<facts, hostVars, torn, meddled, sound>>
  /\ \E s, k : /\ Go(c, s, k)
               /\ s \notin {"setup.install", "setup.unpack", "setup.enable",
                            "setup.network", "setup.verify", "unfounded"}
               /\ s \in Accepted => pc[c] \in Accepted
  /\ \A e \in late' : e \in late \/ e.kind # "packages"
  /\ There' \subseteq There \/ "virsh" \in tools

LEMMA LooksBeside ==
  ASSUME NEW c, Looks, NEW s, NEW k, Go(c, s, k),
         s \notin {"setup.install", "setup.unpack", "setup.enable",
                   "setup.network", "setup.verify", "unfounded"},
         s \in Accepted => pc[c] \in Accepted
  PROVE  Beside(c)
  BY DEF Beside, Looks, hostVars, ghostVars, modeVars, There

LEMMA LooksFailBeside ==
  ASSUME NEW c, Looks, Fail(c)
  PROVE  Beside(c)
  BY LooksBeside DEF Fail, End, Accepted

LEMMA LostBeside ==
  ASSUME NEW c, NEW e, Lost(c, e), e.kind # "packages",
         UNCHANGED <<facts, hostVars, vms>>
  PROVE  Beside(c)
<1>1. Go(c, "idle", NoCommand)
  BY DEF Lost, Fail, End
<1>2. \A f \in late' : f \in late \/ f.kind # "packages"
  BY DEF Lost
<1> QED BY <1>1, <1>2 DEF Beside, Lost, hostVars, There, Accepted

LEMMA AskBeside ==
  ASSUME NEW c, Ask(c)
  PROVE  Beside(c)
<1>0. PICK s \in {"vm.look", "host.list", "down.look"} : \E k : Begin(c, s, k)
  BY DEF Ask, AskVm, AskHost, AskDown
<1>1. PICK k : Begin(c, s, k)
  BY <1>0
<1> QED BY <1>1 DEF Begin, Beside, hostVars, modeVars, There, Accepted

LEMMA UpVmBeside ==
  ASSUME Typed, NEW c \in Clis, UpVm(c)
  PROVE  Beside(c)
<1>1. CASE LookForVm(c)
  BY <1>1, LooksBeside, LooksFailBeside DEF LookForVm, Accepted
<1>2. CASE ListForVm(c)
  <2>1. Looks /\ (Fail(c) \/ \E k : Go(c, "setup.preflight", k))
    BY <1>2 DEF ListForVm
  <2> QED BY <2>1, LooksBeside, LooksFailBeside DEF Accepted
<1>3. CASE CheckFit(c)
  BY <1>3, LooksBeside, LooksFailBeside DEF CheckFit, Accepted
<1>4. CASE Inspect(c)
  <2>1. /\ Looks /\ pc[c] \in Accepted
        /\ Fail(c) \/ \E s \in {"vm.build", "vm.cluster"} : \E k : Go(c, s, k)
    BY <1>4 DEF Inspect, Accepted
  <2> QED BY <2>1, LooksBeside, LooksFailBeside
<1>5. ASSUME pc[c] \in Accepted, UNCHANGED <<facts, hostVars>>,
             AfterBuild(c) \/ Fail(c), UNCHANGED <<late, ghostVars>>,
             There' \subseteq There \/ "virsh" \in tools
      PROVE  Beside(c)
  <2>1. \E s \in {"vm.build", "vm.inspect", "vm.cluster", "idle"} : \E k :
          Go(c, s, k)
    BY <1>5 DEF AfterBuild, Fail, End
  <2> QED BY <1>5, <2>1 DEF Beside, hostVars, ghostVars
<1>6. CASE Build(c)
  <2>1. pc[c] \in Accepted /\ UNCHANGED <<facts, hostVars>>
    BY <1>6 DEF Build, Accepted, OnlyVms
  <2>2. CASE UNCHANGED <<vms, late, ghostVars>>
    <3>1. There' \subseteq There
      BY <2>2 DEF There
    <3> QED BY <1>5, <1>6, <2>1, <2>2, <3>1 DEF Build, Lost, ghostVars,
                                                Strikes, Typed, HostTyped
  <2>3. CASE VirshAnswers /\ AfterBuild(c) /\ UNCHANGED <<late, ghostVars>>
    BY <1>5, <2>1, <2>3 DEF VirshAnswers
  <2>4. CASE /\ Lost(c, Effect("build", SizeFor(c), cli[c].cur))
             /\ UNCHANGED vms
    <3>1. Effect("build", SizeFor(c), cli[c].cur).kind = "build"
      BY DEF Effect
    <3> QED BY <2>1, <2>4, <3>1, LostBeside
  <2> QED BY <1>6, <2>2, <2>3, <2>4 DEF Build
<1>7. CASE Cluster(c)
  BY <1>7 DEF Cluster, Done, Fail, End, OnlyVms, Beside, hostVars, ghostVars,
              There, Accepted
<1> QED BY <1>1, <1>2, <1>3, <1>4, <1>6, <1>7 DEF UpVm

LEMMA UpHostBeside ==
  ASSUME Typed, NEW c \in Clis, UpHost(c)
  PROVE  Beside(c)
<1>1. CASE ListForHost(c)
  BY <1>1, LooksBeside, LooksFailBeside DEF ListForHost, Accepted
<1>2. CASE LookForHost(c)
  BY <1>2, LooksBeside, LooksFailBeside DEF LookForHost, Accepted
<1>3. CASE InstallHost(c)
  <2>1. UNCHANGED <<facts, hostVars, vms>>
    BY <1>3 DEF InstallHost, OnlyHost
  <2>2. CASE (Done(c) \/ Fail(c)) /\ UNCHANGED <<late, ghostVars>>
    BY <2>1, <2>2, <1>3
       DEF InstallHost, Done, Fail, End, Beside, hostVars, ghostVars, There,
           Accepted
  <2>3. CASE Lost(c, Effect("install", cli[c].distro, 0))
    <3>1. Effect("install", cli[c].distro, 0).kind = "install"
      BY DEF Effect
    <3> QED BY <2>1, <2>3, <3>1, LostBeside
  <2> QED BY <1>3, <2>2, <2>3 DEF InstallHost
<1> QED BY <1>1, <1>2, <1>3 DEF UpHost

LEMMA DownBeside ==
  ASSUME Typed, NEW c \in Clis, Down(c)
  PROVE  Beside(c)
<1>1. CASE LookForDown(c)
  BY <1>1, LooksBeside DEF LookForDown, Accepted
<1>2. CASE ListForDown(c)
  BY <1>2, LooksBeside, LooksFailBeside DEF ListForDown, Accepted
<1>3. ASSUME UNCHANGED <<facts, hostVars>>, There' \subseteq There,
             UNCHANGED <<late, ghostVars>>,
             \E s \in {"down.destroy", "down.uninstall", "idle"} : \E k :
               Go(c, s, k)
      PROVE  Beside(c)
  BY <1>3 DEF Beside, hostVars, ghostVars, Accepted
<1>4. CASE Destroy(c)
  <2>1. UNCHANGED <<facts, hostVars>>
    BY <1>4 DEF Destroy, OnlyVms
  <2>2. ASSUME NEW n, Lost(c, Effect("destroy", None, n)), UNCHANGED vms
        PROVE  Beside(c)
    <3>1. Effect("destroy", None, n).kind = "destroy"
      BY DEF Effect
    <3> QED BY <2>1, <2>2, <3>1, LostBeside
  <2>3. CASE /\ UNCHANGED <<late, ghostVars>>
             /\ UNCHANGED vms \/ \E n : WithoutVm(n)
             /\ \E s \in {"down.destroy", "down.uninstall"} : \E k : Go(c, s, k)
    <3>1. There' \subseteq There
      BY <2>3 DEF WithoutVm, There, Typed, HostTyped
    <3> QED BY <1>3, <2>1, <2>3, <3>1
  <2> QED BY <1>4, <2>2, <2>3 DEF Destroy
<1>5. CASE Uninstall(c)
  <2>1. UNCHANGED <<facts, hostVars, vms>> /\ There' \subseteq There
    BY <1>5 DEF Uninstall, OnlyHost, There
  <2>2. ASSUME NEW d, Lost(c, Effect("uninstall", d, 0))
        PROVE  Beside(c)
    <3>1. Effect("uninstall", d, 0).kind = "uninstall"
      BY DEF Effect
    <3> QED BY <2>1, <2>2, <3>1, LostBeside
  <2> QED BY <1>3, <1>5, <2>1, <2>2 DEF Uninstall, Done, End
<1> QED BY <1>1, <1>2, <1>4, <1>5 DEF Down

LEMMA InterruptBeside ==
  ASSUME NEW c, Interrupt(c)
  PROVE  Beside(c)
  BY DEF Interrupt, Fail, End, Beside, hostVars, modeVars, There, Accepted

\* Every step of a terminal is one of set-up or one beside it.
LEMMA TerminalSteps ==
  ASSUME Typed, NEW c \in Clis, Ask(c) \/ Run(c) \/ Interrupt(c)
  PROVE  Beside(c) \/ (Setup(c) /\ UNCHANGED modeVars)
  BY AskBeside, UpVmBeside, UpHostBeside, DownBeside, InterruptBeside DEF Run

\* A host stays what it is, and what was torn, or touched by hand, counts as
\* such from then on.
LEMMA KindLasts ==
  ASSUME Typed, [Next]_vars
  PROVE  UNCHANGED facts /\ (torn => torn') /\ (meddled => meddled')
<1> DEFINE Goal == UNCHANGED facts /\ (torn => torn') /\ (meddled => meddled')
<1>1. CASE UNCHANGED vars
  BY <1>1 DEF vars, ghostVars
<1>2. ASSUME NEW c \in Clis, Setup(c)
      PROVE  Goal
  BY <1>2 DEF Setup, Preflight, InstallPackages, LeaveInstall, EnableDaemon,
              StartNetwork, Verify, Lost, ghostVars
<1>3. ASSUME NEW e \in late, Land(e)
      PROVE  Goal
  BY <1>3 DEF Land, ghostVars
<1>4. CASE World
  <2>1. CASE PackageManager
    BY <2>1 DEF PackageManager, Arrives, InstallDone, InstallTorn, ghostVars
  <2>2. CASE Reboot
    BY <2>2 DEF Reboot
  <2>3. CASE HandStop \/ HandTools
    BY <2>3 DEF HandStop, HandTools
  <2> QED BY <1>4, <2>1, <2>2, <2>3 DEF World
<1> QED BY <1>1, <1>2, <1>3, <1>4, TerminalSteps DEF Next, Beside

-----------------------------------------------------------------------------
(* An incapable host                                                       *)

LEMMA StepBeginsNothing ==
  ASSUME Typed, NothingBegun, [Next]_vars
  PROVE  NothingBegun'
<1> SUFFICES ASSUME Barred', ~meddled'
             PROVE  /\ tools' = {} /\ ~locked'
                    /\ ~daemon'.enabled /\ ~net'.auto
                    /\ There' = {}
                    /\ \A c \in Clis : pc'[c] \notin Accepted
                    /\ \A e \in late' : e.kind # "packages"
  BY DEF NothingBegun
<1> DEFINE Goal == /\ tools' = {} /\ ~locked'
                   /\ ~daemon'.enabled /\ ~net'.auto
                   /\ There' = {}
                   /\ \A c \in Clis : pc'[c] \notin Accepted
                   /\ \A e \in late' : e.kind # "packages"
<1>1. Barred /\ ~meddled
  BY KindLasts DEF Barred, CanInstall
<1>2. /\ tools = {} /\ ~locked
      /\ ~daemon.enabled /\ ~net.auto /\ There = {}
      /\ \A c \in Clis : pc[c] \notin Accepted
      /\ \A e \in late : e.kind # "packages"
  BY <1>1 DEF NothingBegun
<1>3. CASE UNCHANGED vars
  BY <1>2, <1>3 DEF vars, hostVars, modeVars, There
<1>4. ASSUME NEW c \in Clis, Beside(c)
      PROVE  Goal
  <2>1. PICK s, k : Go(c, s, k) /\ s \notin Accepted
    BY <1>2, <1>4 DEF Beside
  <2>2. \A b \in Clis : pc'[b] \notin Accepted
    BY <1>2, <2>1, GoesThere DEF Typed
  <2> QED BY <1>2, <1>4, <2>2 DEF Beside, hostVars
<1>5. ASSUME NEW c \in Clis, Setup(c), UNCHANGED modeVars
      PROVE  Goal
  <2>1. Preflight(c)
    BY <1>2, <1>5 DEF Setup, InstallPackages, LeaveInstall,
                      EnableDaemon, StartNetwork, Verify, Accepted
  <2>2. Go(c, "idle", NoCommand) /\ UNCHANGED <<hostVars, late>>
    BY <1>1, <1>2, <2>1 DEF Preflight, Fail, End, Barred
  <2>3. \A b \in Clis : pc'[b] \notin Accepted
    BY <1>2, <2>2, GoesThere DEF Typed, Accepted
  <2> QED BY <1>2, <1>5, <2>2, <2>3 DEF hostVars, modeVars, There
<1>6. ASSUME NEW e \in late, Land(e)
      PROVE  Goal
  <2>1. UNCHANGED <<daemon, net, pc>> /\ late' \subseteq late
    BY <1>6 DEF Land
  <2>2. e.kind \in {"build", "destroy", "install", "uninstall"}
    BY <1>2 DEF Typed, HostTyped, Effects
  <2>3. UNCHANGED <<tools, locked>>
    BY <1>6, <2>2 DEF Land
  <2>4. UNCHANGED vms \/ WithoutVm(e.node)
    BY <1>2, <1>6, <2>2 DEF Land, VirshAnswers
  <2>5. There' = {}
    BY <1>2, <2>4 DEF WithoutVm, There, Typed, HostTyped
  <2> QED BY <1>2, <2>1, <2>3, <2>5
<1>7. CASE World
  <2>1. Reboot /\ UNCHANGED modeVars
    <3>1. ~PackageManager
      BY <1>2 DEF PackageManager, Arrives, InstallDone, InstallTorn
    <3> QED BY <1>7, <3>1 DEF World, HandStop, HandTools
  <2>2. /\ UNCHANGED tools /\ ~locked' /\ daemon'.enabled = daemon.enabled
        /\ net'.auto = net.auto /\ late' = {}
        /\ \A c \in Clis : pc'[c] \in AtRest
    BY <2>1 DEF Reboot, Typed, HostTyped, AtRest
  <2> QED BY <1>2, <2>1, <2>2 DEF There, modeVars, AtRest, Accepted
<1> QED BY <1>3, <1>4, <1>5, <1>6, <1>7, TerminalSteps DEF Next

\* A host that cannot run VMs, or whose package manager is unknown, is left as
\* it was by any number of commands, lost answers and reboots.
THEOREM RefusedMeansUntouched == Spec => []IncapableLeftAlone
<1>1. Init => NothingBegun
  BY DEF Init, FoundationInit, NothingBegun, There, Accepted
<1>2. Typed /\ NothingBegun /\ [Next]_vars => NothingBegun'
  BY StepBeginsNothing
<1>3. NothingBegun => IncapableLeftAlone
  BY DEF NothingBegun, Barred, IncapableLeftAlone
<1> QED BY <1>1, <1>2, <1>3, AlwaysTyped, PTL DEF Spec

-----------------------------------------------------------------------------
(* Set-up after set-up                                                     *)

LEMMA SetupHolds ==
  ASSUME Typed, StepsHold, NEW c \in Clis, Setup(c)
  PROVE  StepsHold'
<1> DEFINE Found(s) ==
             /\ s \in {"setup.enable", "setup.network", "setup.verify"} =>
                  "virsh" \in tools
             /\ s \in {"setup.network", "setup.verify"} => daemon.on
             /\ s = "setup.verify" => net.on
           Finds(s) ==
             /\ s \in {"setup.enable", "setup.network", "setup.verify"} =>
                  "virsh" \in tools'
             /\ s \in {"setup.network", "setup.verify"} => daemon'.on
             /\ s = "setup.verify" => net'.on
<1> SUFFICES ASSUME ~torn', ~meddled'
             PROVE  /\ ~locked' => tools' \in {{}, Packages}
                    /\ \A b \in Clis : Finds(pc'[b])
  BY DEF StepsHold
<1>1. ~torn /\ ~meddled
  BY DEF Setup, Preflight, InstallPackages, LeaveInstall, EnableDaemon,
         StartNetwork, Verify, Lost, ghostVars
<1>2. /\ ~locked => tools \in {{}, Packages}
      /\ \A b \in Clis : Found(pc[b])
  BY <1>1 DEF StepsHold
<1>3. /\ UNCHANGED tools /\ (locked => locked')
      /\ daemon.on => daemon'.on
      /\ net.on => net'.on
  BY <1>1, <1>2
     DEF Setup, Preflight, InstallPackages, LeaveInstall, EnableDaemon,
         StartNetwork, Verify, hostVars, Typed, HostTyped
<1>4. \E s, k : Go(c, s, k) /\ Finds(s)
  <2>1. CASE Preflight(c)
    BY <2>1 DEF Preflight, Fail, End, hostVars
  <2>2. CASE InstallPackages(c)
    BY <2>2 DEF InstallPackages, Lost, Fail, End
  <2>3. CASE LeaveInstall(c)
    BY <2>3 DEF LeaveInstall, Fail, End
  <2>4. CASE EnableDaemon(c)
    BY <1>2, <2>4 DEF EnableDaemon, End
  <2>5. CASE StartNetwork(c)
    BY <1>2, <1>3, <2>5 DEF StartNetwork, VirshAnswers, End
  <2>6. CASE Verify(c)
    BY <2>6 DEF Verify, End
  <2> QED BY <2>1, <2>2, <2>3, <2>4, <2>5, <2>6 DEF Setup
<1>5. PICK s, k : Go(c, s, k) /\ Finds(s)
  BY <1>4
<1>6. /\ pc'[c] = s
      /\ \A b \in Clis \ {c} : pc'[b] = pc[b]
  BY <1>5, GoesThere DEF Typed
<1>7. ASSUME NEW b \in Clis
      PROVE  Finds(pc'[b])
  <2>1. CASE b = c
    BY <1>5, <1>6, <2>1
  <2>2. CASE b # c
    BY <1>2, <1>3, <1>6, <2>2
  <2> QED BY <2>1, <2>2
<1> QED BY <1>2, <1>3, <1>7

LEMMA PackagesHold ==
  ASSUME Typed, StepsHold, PackageManager
  PROVE  StepsHold'
<1>1. CASE \E p \in Packages : Arrives(p)
  BY <1>1 DEF Arrives, ghostVars, StepsHold
<1>2. CASE InstallDone
  <2>1. /\ tools' = Packages /\ UNCHANGED <<daemon, net, torn, meddled>>
        /\ \A c \in Clis : pc'[c] \in {pc[c], "setup.enable"}
    BY <1>2 DEF InstallDone, ghostVars
  <2> QED BY <2>1 DEF StepsHold, Packages
<1>3. CASE InstallTorn
  BY <1>3 DEF InstallTorn, StepsHold
<1> QED BY <1>1, <1>2, <1>3 DEF PackageManager

LEMMA StepHolds ==
  ASSUME Typed, StepsHold, [Next]_vars
  PROVE  StepsHold'
<1>1. CASE UNCHANGED vars
  BY <1>1 DEF vars, hostVars, ghostVars, StepsHold
<1>2. ASSUME NEW c \in Clis, Beside(c)
      PROVE  StepsHold'
  <2>1. PICK s, k :
          /\ Go(c, s, k)
          /\ s \notin {"setup.install", "setup.unpack", "setup.enable",
                       "setup.network", "setup.verify", "unfounded"}
    BY <1>2 DEF Beside
  <2>2. /\ pc'[c] = s
        /\ \A b \in Clis \ {c} : pc'[b] = pc[b]
    BY <2>1, GoesThere DEF Typed
  <2> QED BY <1>2, <2>1, <2>2 DEF Beside, hostVars, StepsHold
<1>3. ASSUME NEW e \in late, Land(e)
      PROVE  StepsHold'
  <2>1. UNCHANGED <<tools, daemon, net, pc, torn, meddled>>
    BY <1>3 DEF Land, ghostVars
  <2>2. locked => locked'
    BY <1>3 DEF Land, Typed, HostTyped, Effects
  <2> QED BY <2>1, <2>2 DEF StepsHold
<1>4. CASE World
  <2>1. CASE Reboot
    <3>1. /\ UNCHANGED <<tools, meddled>> /\ torn' = (torn \/ locked)
          /\ ~locked'
      BY <2>1 DEF Reboot
    <3>2. \A c \in Clis : \/ pc'[c] = pc[c] /\ pc[c] \in AtRest
                          \/ pc'[c] = "idle"
      BY <2>1 DEF Reboot
    <3> QED BY <3>1, <3>2 DEF StepsHold, AtRest
  <2>2. CASE HandStop \/ HandTools
    BY <2>2 DEF HandStop, HandTools, StepsHold
  <2> QED BY <1>4, <2>1, <2>2, PackagesHold DEF World
<1> QED BY <1>1, <1>2, <1>3, <1>4, TerminalSteps, SetupHolds DEF Next

\* Where a step of set-up gives up.
LEMMA SetupGivesUp ==
  ASSUME Typed, StepsHold, NEW c \in Clis, Setup(c), ~torn, ~meddled,
         pc[c] # "unfounded", pc'[c] = "unfounded"
  PROVE  locked \/ meddled'
<1>1. /\ ~locked => tools \in {{}, Packages}
      /\ pc[c] \in {"setup.enable", "setup.network", "setup.verify"} =>
           "virsh" \in tools
      /\ pc[c] \in {"setup.network", "setup.verify"} => daemon.on
      /\ pc[c] = "setup.verify" => net.on
  BY DEF StepsHold
<1>2. \A s, k : Go(c, s, k) => s = "unfounded"
  BY GoesThere DEF Typed
<1>3. CASE Preflight(c)
  BY <1>2, <1>3 DEF Preflight, Fail, End
<1>4. CASE InstallPackages(c)
  BY <1>2, <1>4 DEF InstallPackages, Lost, Fail, End
<1>5. CASE LeaveInstall(c)
  BY <1>2, <1>5 DEF LeaveInstall, Fail, End
<1>6. CASE EnableDaemon(c)
  <2>1. "libvirtd" \notin tools /\ "virsh" \in tools
    BY <1>1, <1>2, <1>6 DEF EnableDaemon
  <2> QED BY <1>1, <2>1 DEF Packages
<1>7. CASE StartNetwork(c)
  BY <1>1, <1>2, <1>7 DEF StartNetwork, VirshAnswers
<1>8. CASE Verify(c)
  BY <1>1, <1>2, <1>8 DEF Verify, VirshAnswers
<1> QED BY <1>3, <1>4, <1>5, <1>6, <1>7, <1>8 DEF Setup

LEMMA StepGivesUp ==
  ASSUME Typed, StepsHold, [Next]_vars, NEW c \in Clis,
         pc[c] # "unfounded", pc'[c] = "unfounded"
  PROVE  locked \/ torn' \/ meddled'
<1> SUFFICES ASSUME ~torn', ~meddled'
             PROVE  locked
  OBVIOUS
<1>1. ~torn /\ ~meddled
  BY KindLasts
<1>2. pc' # pc
  OBVIOUS
<1>3. ~UNCHANGED vars /\ \A e \in late : ~Land(e)
  BY <1>2 DEF vars, Land
<1>4. CASE World
  <2>1. CASE PackageManager
    BY <2>1, <1>2 DEF PackageManager, Arrives, InstallDone, InstallTorn
  <2>2. CASE Reboot
    BY <2>2 DEF Reboot
  <2> QED BY <1>2, <1>4, <2>1, <2>2 DEF World, HandStop, HandTools
<1>5. ASSUME NEW b \in Clis, Ask(b) \/ Run(b) \/ Interrupt(b)
      PROVE  locked
  <2>1. b = c
    <3>1. \E s, k : Go(b, s, k)
      BY <1>5, TerminalSteps
         DEF Beside, Setup, Preflight, InstallPackages, LeaveInstall,
             EnableDaemon, StartNetwork, Verify, Lost, Fail, End
    <3> QED BY <3>1, GoesThere DEF Typed
  <2>2. CASE Beside(c)
    <3>1. PICK s, k : Go(c, s, k) /\ s # "unfounded"
      BY <2>2 DEF Beside
    <3>2. pc'[c] = s
      BY <3>1, GoesThere DEF Typed
    <3> QED BY <3>1, <3>2
  <2>3. CASE Setup(c)
    BY <1>1, <2>3, SetupGivesUp
  <2> QED BY <1>5, <2>1, <2>2, <2>3, TerminalSteps
<1> QED BY <1>3, <1>4, <1>5 DEF Next

\* Whatever commands were cut off, repeated or given up before, set-up fails
\* only beside a package manager at work, or after packages were left half
\* installed, a part of the foundation was changed by hand, or the addresses
\* of its network were taken.
THEOREM SetupGoesThrough == Spec => SetupSucceeds
<1>1. Init => StepsHold
  BY DEF Init, FoundationInit, StepsHold
<1>2. Typed /\ StepsHold /\ [Next]_vars => StepsHold'
  BY StepHolds
<1>3. Typed /\ StepsHold /\ [Next]_vars =>
        [\A c \in Clis : pc[c] # "unfounded" /\ pc'[c] = "unfounded" =>
           locked \/ torn' \/ meddled']_vars
  BY StepGivesUp
<1> QED BY <1>1, <1>2, <1>3, AlwaysTyped, PTL DEF Spec, SetupSucceeds

-----------------------------------------------------------------------------
(* What was verified stands                                                *)

LEMMA StepBootsBack ==
  ASSUME Typed, BootsBack, [Next]_vars
  PROVE  BootsBack'
<1>1. CASE UNCHANGED vars
  BY <1>1 DEF vars, hostVars, ghostVars, BootsBack
<1>2. ASSUME NEW c \in Clis, Beside(c)
      PROVE  BootsBack'
  BY <1>2 DEF Beside, hostVars, BootsBack
<1>3. ASSUME NEW c \in Clis, Setup(c)
      PROVE  BootsBack'
  <2>1. CASE Preflight(c)
    BY <2>1 DEF Preflight, hostVars, ghostVars, BootsBack
  <2>2. CASE InstallPackages(c)
    <3>1. UNCHANGED <<tools, daemon, net, sound>>
      BY <2>2 DEF InstallPackages, Lost, ghostVars
    <3> QED BY <3>1 DEF BootsBack
  <2>3. CASE EnableDaemon(c)
    <3>1. CASE UNCHANGED <<daemon, net, sound>>
      BY <2>3, <3>1 DEF EnableDaemon, BootsBack
    <3>2. CASE /\ daemon' = [on |-> TRUE, enabled |-> TRUE]
               /\ net' = [net EXCEPT !.on = @ \/ (net.auto /\ ~daemon.on)]
               /\ sound' = IF sound = "no" THEN "building" ELSE sound
      <4>1. net'.auto = net.auto /\ (net'.on => net.on \/ net.auto)
            /\ (net.on => net'.on)
        BY <3>2 DEF Typed, HostTyped
      <4>2. UNCHANGED tools
        BY <2>3 DEF EnableDaemon
      <4> QED BY <3>2, <4>1, <4>2 DEF BootsBack
    <3> QED BY <2>3, <3>1, <3>2 DEF EnableDaemon
  <2>4. CASE StartNetwork(c)
    <3>1. UNCHANGED <<tools, daemon, sound>>
      BY <2>4 DEF StartNetwork, ghostVars
    <3>2. \/ UNCHANGED net
          \/ net'.on /\ net'.auto
          \/ ~net.on /\ net'.on = net.on
      BY <2>4 DEF StartNetwork, Typed, HostTyped
    <3> QED BY <3>1, <3>2 DEF BootsBack
  <2>5. CASE Verify(c)
    BY <2>5 DEF Verify, hostVars, VirshAnswers, BootsBack
  <2>6. CASE LeaveInstall(c)
    BY <2>6 DEF LeaveInstall, hostVars, BootsBack
  <2> QED BY <1>3, <2>1, <2>2, <2>3, <2>4, <2>5, <2>6 DEF Setup
<1>4. ASSUME NEW e \in late, Land(e)
      PROVE  BootsBack'
  <2>1. UNCHANGED <<tools, daemon, net, sound>>
    BY <1>4 DEF Land, ghostVars
  <2> QED BY <2>1 DEF BootsBack
<1>5. CASE World
  <2>1. CASE Reboot
    <3>1. /\ daemon'.on = daemon.enabled /\ daemon'.enabled = daemon.enabled
          /\ net'.on = (daemon.enabled /\ net.auto) /\ net'.auto = net.auto
          /\ UNCHANGED <<tools, sound>>
      BY <2>1 DEF Reboot, Typed, HostTyped
    <3> QED BY <3>1 DEF BootsBack
  <2>2. CASE HandStop
    <3>1. /\ sound' = "no"
          /\ UNCHANGED net \/ net' = [on |-> FALSE, auto |-> FALSE]
      BY <2>2 DEF HandStop
    <3> QED BY <3>1 DEF BootsBack
  <2>3. CASE HandTools
    BY <2>3 DEF HandTools, BootsBack, Packages
  <2>4. CASE PackageManager
    <3>1. tools \subseteq tools' /\ UNCHANGED <<daemon, net, sound>>
      BY <2>4 DEF PackageManager, Arrives, InstallDone, InstallTorn, ghostVars
    <3> QED BY <3>1 DEF BootsBack
  <2> QED BY <1>5, <2>1, <2>2, <2>3, <2>4 DEF World
<1> QED BY <1>1, <1>2, <1>3, <1>4, <1>5, TerminalSteps DEF Next

\* A foundation once verified works at any later time, also after a reboot,
\* until somebody stops a part of it.
THEOREM VerifiedStands == Spec => []FoundationStands
<1>1. Init => BootsBack
  BY DEF Init, FoundationInit, BootsBack
<1>2. Typed /\ BootsBack /\ [Next]_vars => BootsBack'
  BY StepBootsBack
<1>3. BootsBack => FoundationStands
  BY DEF BootsBack, FoundationStands, VirshAnswers
<1> QED BY <1>1, <1>2, <1>3, AlwaysTyped, PTL DEF Spec

-----------------------------------------------------------------------------
(* VMs of one size fit into the host's memory                              *)

\* What a command has counted before it builds: the plan in the size it has
\* chosen, or, where VMs were listed, one VM of the default size.
Counted(s, k) ==
  /\ s \in SetupSteps \cup {"vm.fit"} /\ k.listed # {} => Fits("k3s", 1)
  /\ s = "vm.build" => IF k.cur = 1 /\ k.listed # {}
                       THEN Fits("k3s", 1) ELSE Fits(k.distro, k.nodes)
AllCounted == \A c \in Clis : Counted(pc[c], cli[c])
\* Inductive with Typed: wherever a VM is or is still to be, as many of its
\* size as its number says fit into the host.
Sized ==
  /\ \A n \in There : Fits(vms[n], n)
  /\ \A e \in late : e.kind = "build" => Fits(e.distro, e.node)
  /\ AllCounted

\* check_fit, without the division.
LEMMA FitsIs ==
  ASSUME Typed, facts.memory # None, NEW d \in Distros, NEW n \in Nat
  PROVE  /\ UsableMemory(facts.memory) \in Nat
         /\ VmMemory[d] \in Nat /\ VmMemory[d] > 0
         /\ Fits(d, n) <=> n * VmMemory[d] <= UsableMemory(facts.memory)
<1>1. facts.memory \in Nat
  BY HostsAssumption DEF Typed, HostTyped, HostFacts, Opt
<1>2. UsableMemory(facts.memory) \in Nat
  BY <1>1 DEF UsableMemory, HostReserve
<1>3. Fits(d, n) <=> n <= UsableMemory(facts.memory) \div VmMemory[d]
  BY DEF Fits, VmCapacity
<1>4. ASSUME NEW u \in Nat
      PROVE  /\ n <= u \div 2048 <=> n * 2048 <= u
             /\ n <= u \div 4096 <=> n * 4096 <= u
  OBVIOUS
<1>5. CASE d = "k3s"
  BY <1>2, <1>3, <1>4, <1>5 DEF VmMemory
<1>6. CASE d = "rke2"
  BY <1>2, <1>3, <1>4, <1>6 DEF VmMemory
<1>. QED BY <1>5, <1>6 DEF Distros

\* Where many fit, so do fewer, and at least one of the smaller size.
LEMMA FewerFit ==
  ASSUME Typed, NEW d \in Distros, NEW n \in Nat, Fits(d, n), NEW m \in 0..n
  PROVE  Fits(d, m) /\ (n >= 1 => Fits("k3s", 1))
<1>1. CASE facts.memory = None
  BY <1>1 DEF Fits
<1>2. CASE facts.memory # None
  <2>1. PICK u \in Nat : u = UsableMemory(facts.memory)
    BY <1>2, FitsIs
  <2>2. VmMemory["k3s"] = 2048 /\ VmMemory[d] \in {2048, 4096}
    BY DEF VmMemory, Distros
  <2>3. n * VmMemory[d] <= u
    BY <1>2, <2>1, FitsIs
  <2>4. m * VmMemory[d] <= u /\ (n >= 1 => 1 * VmMemory["k3s"] <= u)
    BY <2>2, <2>3
  <2>5. "k3s" \in Distros /\ m \in Nat
    BY DEF Distros
  <2>. QED BY <1>2, <2>1, <2>4, <2>5, FitsIs
<1>. QED BY <1>1, <1>2

\* A VM that is there shows that one of the smaller size fits.
LEMMA OneFits ==
  ASSUME Typed, Sized, There # {}
  PROVE  Fits("k3s", 1)
<1>1. PICK n \in There : Fits(vms[n], n)
  BY DEF Sized
<1>2. n \in Nat /\ n >= 1 /\ vms[n] \in Distros
  BY <1>1 DEF There, Nodes, Typed, HostTyped, Opt
<1>3. n \in 0..n
  BY <1>2
<1>. QED BY <1>1, <1>2, <1>3, FewerFit

LEMMA GoCounted ==
  ASSUME Typed, AllCounted, NEW c \in Clis, NEW s, NEW k, Go(c, s, k),
         UNCHANGED facts, Counted(s, k)
  PROVE  AllCounted'
<1>1. /\ pc'[c] = s /\ cli'[c] = k
      /\ \A b \in Clis \ {c} : pc'[b] = pc[b] /\ cli'[b] = cli[b]
  BY GoesThere DEF Typed
<1>. QED BY <1>1 DEF AllCounted, Counted, Fits

\* Steps at which nothing needs to be counted.
LEMMA FreeCounted ==
  ASSUME Typed, AllCounted, NEW c \in Clis, NEW k, UNCHANGED facts,
         NEW s \in AtRest \cup {"vm.look", "vm.list", "vm.inspect",
                                "vm.cluster", "host.list", "host.look",
                                "host.install", "down.look", "down.list",
                                "down.destroy", "down.uninstall"},
         Go(c, s, k)
  PROVE  AllCounted'
<1>1. Counted(s, k)
  BY DEF Counted, AtRest, SetupSteps
<1>. QED BY <1>1, GoCounted

LEMMA EndCounted ==
  ASSUME Typed, AllCounted, NEW c \in Clis, UNCHANGED facts,
         End(c, "idle") \/ End(c, "unfounded")
  PROVE  AllCounted'
  BY FreeCounted DEF End, AtRest

\* Where no VM comes.
LEMMA NoneCome ==
  ASSUME Sized, AllCounted', UNCHANGED facts,
         \A n \in There' : n \in There /\ vms'[n] = vms[n],
         \A e \in late' : e \in late \/ e.kind # "build"
  PROVE  Sized'
  BY DEF Sized, Fits

LEMMA SetupSized ==
  ASSUME Typed, Sized, NEW c \in Clis, Setup(c), UNCHANGED modeVars
  PROVE  Sized'
<1>1. pc[c] \in SetupSteps /\ UNCHANGED facts
  BY DEF Setup, Preflight, InstallPackages, LeaveInstall, EnableDaemon,
         StartNetwork, Verify, SetupSteps
<1>2. \/ Fail(c) \/ End(c, "unfounded")
      \/ \E s \in SetupSteps \cup {"vm.fit"} : Go(c, s, cli[c])
  BY DEF Setup, Preflight, InstallPackages, LeaveInstall, EnableDaemon,
         StartNetwork, Verify, Lost, SetupSteps
<1>3. ASSUME NEW s \in SetupSteps \cup {"vm.fit"}, Go(c, s, cli[c])
      PROVE  AllCounted'
  <2>1. PICK k : k = cli[c]
    OBVIOUS
  <2>2. Counted(pc[c], k)
    BY <2>1 DEF Sized, AllCounted
  <2>3. Counted(s, k)
    BY <1>1, <2>2 DEF Counted, SetupSteps
  <2>. QED BY <1>1, <1>3, <2>1, <2>3, GoCounted DEF Sized
<1>4. AllCounted'
  BY <1>1, <1>2, <1>3, EndCounted DEF Fail, Sized
<1>5. \A e \in late' : e \in late \/ e.kind # "build"
  BY DEF Setup, Preflight, InstallPackages, LeaveInstall, EnableDaemon,
         StartNetwork, Verify, Lost, Effect
<1>. QED BY <1>1, <1>4, <1>5, NoneCome DEF There, modeVars

\* What a look at the listing and at the memory comes to.
LEMMA ListForVmSized ==
  ASSUME Typed, Sized, NEW c \in Clis, ListForVm(c)
  PROVE  AllCounted'
<1>1. UNCHANGED facts /\ AllCounted
  BY DEF ListForVm, Looks, Sized
<1>2. ASSUME NEW n, NEW d,
             Go(c, "setup.preflight",
                [cli[c] EXCEPT !.nodes = n, !.listed = Listed, !.distro = d])
      PROVE  AllCounted'
  <2> DEFINE j == [cli[c] EXCEPT !.nodes = n, !.listed = Listed, !.distro = d]
  <2>1. j.listed = Listed
    BY DEF Typed, CommandsTyped, Command
  <2> HIDE DEF j
  <2>2. j.listed # {} => Fits("k3s", 1)
    BY <2>1, OneFits DEF Listed
  <2>3. Counted("setup.preflight", j)
    BY <2>2 DEF Counted
  <2>. QED BY <1>1, <1>2, <2>3, GoCounted DEF j
<1>. QED BY <1>1, <1>2, EndCounted DEF ListForVm, Fail

LEMMA CheckFitSized ==
  ASSUME Typed, Sized, NEW c \in Clis, CheckFit(c)
  PROVE  AllCounted'
<1> DEFINE k == cli[c]
           j == [k EXCEPT !.cur = 1]
<1>1. UNCHANGED facts /\ AllCounted /\ Counted("vm.fit", k)
  BY DEF CheckFit, Looks, Sized, AllCounted
<1>2. /\ j.cur = 1 /\ j.listed = k.listed
      /\ j.distro = k.distro /\ j.nodes = k.nodes
  BY DEF Typed, CommandsTyped, Command
<1> HIDE DEF j
<1>3. k.listed # {} \/ Fits(k.distro, k.nodes) => Counted("vm.build", j)
  BY <1>1, <1>2 DEF Counted
<1>. QED BY <1>1, <1>3, GoCounted, EndCounted DEF CheckFit, Fail, j

LEMMA InspectSized ==
  ASSUME Typed, Sized, NEW c \in Clis, Inspect(c)
  PROVE  AllCounted'
<1> DEFINE k == cli[c]
<1>1. UNCHANGED facts /\ AllCounted /\ k \in Command
  BY DEF Inspect, Looks, Sized, Typed, CommandsTyped
<1>2. ASSUME NEW d, Fits(d, k.nodes),
             Go(c, "vm.build", [k EXCEPT !.distro = d, !.cur = 2])
      PROVE  AllCounted'
  <2> DEFINE j == [k EXCEPT !.distro = d, !.cur = 2]
  <2>1. j.distro = d /\ j.nodes = k.nodes /\ j.cur = 2
    BY <1>1 DEF Command
  <2> HIDE DEF j
  <2>2. Counted("vm.build", j)
    BY <1>2, <2>1 DEF Counted, SetupSteps
  <2>. QED BY <1>1, <1>2, <2>2, GoCounted DEF j
<1>3. ASSUME NEW d, Go(c, "vm.cluster", [k EXCEPT !.distro = d])
      PROVE  AllCounted'
  BY <1>1, <1>3, FreeCounted
<1>4. CASE Fail(c)
  BY <1>1, <1>4, EndCounted DEF Fail
<1>. QED BY <1>2, <1>3, <1>4 DEF Inspect

\* The VM a command builds was counted.
LEMMA BuiltFits ==
  ASSUME Typed, AllCounted, NEW c \in Clis, pc[c] = "vm.build"
  PROVE  SizeFor(c) \in Distros /\ Fits(SizeFor(c), cli[c].cur)
<1> PICK k : k = cli[c]
  OBVIOUS
<1>1. Counted("vm.build", k) /\ SizeFor(c) \in Distros
  BY SizeForTyped DEF AllCounted, Typed
<1>2. CASE k.cur = 1 /\ k.listed # {}
  BY <1>1, <1>2 DEF Counted, SizeFor
<1>3. CASE ~(k.cur = 1 /\ k.listed # {})
  <2>1. k.cur \in 1..k.nodes /\ k.nodes \in Nat
    BY DEF Typed, CommandsTyped, Knows, Command
  <2>2. k.nodes \in Nat /\ k.cur \in 0..k.nodes
    BY <2>1
  <2>3. SizeFor(c) = k.distro /\ Fits(k.distro, k.nodes)
    BY <1>1, <1>3 DEF Counted, SizeFor
  <2>. QED BY <1>1, <2>2, <2>3, FewerFit
<1>. QED BY <1>2, <1>3

LEMMA AfterBuildCounted ==
  ASSUME Typed, AllCounted, NEW c \in Clis, pc[c] = "vm.build",
         AfterBuild(c), UNCHANGED facts
  PROVE  AllCounted'
<1> PICK k : k = cli[c]
  OBVIOUS
<1> DEFINE j == [k EXCEPT !.cur = @ + 1]
<1>1. k \in Command /\ k.cur >= 1 /\ k.cur \in Nat /\ Counted("vm.build", k)
  BY DEF Typed, CommandsTyped, Knows, AllCounted, Command
<1>2. CASE Go(c, "vm.inspect", k) \/ Go(c, "vm.cluster", k)
  BY <1>2, FreeCounted
<1>3. CASE ~(k.cur = 1 /\ k.listed # {}) /\ Go(c, "vm.build", j)
  <2>1. j.distro = k.distro /\ j.nodes = k.nodes /\ j.cur # 1
    BY <1>1 DEF Command
  <2> HIDE DEF j
  <2>2. Counted("vm.build", j)
    BY <1>1, <1>3, <2>1 DEF Counted, SetupSteps
  <2>. QED BY <1>3, <2>2, GoCounted
<1>. QED BY <1>2, <1>3 DEF AfterBuild

LEMMA BuildSized ==
  ASSUME Typed, Sized, NEW c \in Clis, Build(c)
  PROVE  Sized'
<1> DEFINE n == cli[c].cur
<1>1. /\ pc[c] = "vm.build" /\ UNCHANGED facts /\ AllCounted
      /\ SizeFor(c) \in Distros /\ Fits(SizeFor(c), n)
  BY BuiltFits DEF Build, OnlyVms, Sized
<1>2. AllCounted'
  BY <1>1, AfterBuildCounted, EndCounted DEF Build, Lost, Fail
<1>3. CASE UNCHANGED <<vms, late>>
  BY <1>1, <1>2, <1>3, NoneCome DEF There
<1>4. CASE vms' = [vms EXCEPT ![n] = SizeFor(c)] /\ UNCHANGED late
  <2>1. \A m \in There' : \/ vms'[m] = SizeFor(c) /\ m = n
                          \/ m \in There /\ vms'[m] = vms[m]
    BY <1>4 DEF There, Typed, HostTyped
  <2>. QED BY <1>1, <1>2, <1>4, <2>1 DEF Sized, Fits
<1>5. CASE Lost(c, Effect("build", SizeFor(c), n)) /\ UNCHANGED vms
  <2>1. late' = late \cup {Effect("build", SizeFor(c), n)} /\ UNCHANGED There
    BY <1>5 DEF Lost, There
  <2>. QED BY <1>1, <1>2, <1>5, <2>1 DEF Sized, Fits, Effect
<1>. QED BY <1>3, <1>4, <1>5 DEF Build

LEMMA UpVmSized ==
  ASSUME Typed, Sized, NEW c \in Clis, UpVm(c)
  PROVE  Sized'
<1>1. CASE LookForVm(c) \/ ListForVm(c) \/ CheckFit(c) \/ Inspect(c)
  <2>1. Looks
    BY <1>1 DEF LookForVm, ListForVm, CheckFit, Inspect
  <2>2. LookForVm(c) => AllCounted'
    BY <2>1, FreeCounted, EndCounted DEF LookForVm, Looks, Fail, Sized
  <2>3. AllCounted'
    BY <1>1, <2>2, ListForVmSized, CheckFitSized, InspectSized
  <2>. QED BY <2>1, <2>3, NoneCome DEF Looks, There, modeVars
<1>2. CASE Cluster(c)
  <2>1. UNCHANGED <<facts, vms, late>> /\ AllCounted'
    BY <1>2, EndCounted DEF Cluster, OnlyVms, Done, Fail, Sized
  <2>. QED BY <2>1, NoneCome DEF There
<1>. QED BY <1>1, <1>2, BuildSized DEF UpVm

LEMMA UpHostSized ==
  ASSUME Typed, Sized, NEW c \in Clis, UpHost(c)
  PROVE  Sized'
<1>1. UNCHANGED <<facts, vms>>
  BY DEF UpHost, ListForHost, LookForHost, InstallHost, Looks, OnlyHost,
         modeVars
<1>2. \A e \in late' : e \in late \/ e.kind # "build"
  BY DEF UpHost, ListForHost, LookForHost, InstallHost, Looks, Lost, Effect
<1>3. \/ Fail(c) \/ Done(c)
      \/ \E s \in {"host.look", "host.install"} : \E k : Go(c, s, k)
  BY DEF UpHost, ListForHost, LookForHost, InstallHost, Lost
<1>4. AllCounted'
  BY <1>1, <1>3, FreeCounted, EndCounted DEF Fail, Done, Sized
<1>. QED BY <1>1, <1>2, <1>4, NoneCome DEF There

LEMMA WithoutVmNoneCome ==
  ASSUME Typed, NEW m, WithoutVm(m) \/ UNCHANGED vms
  PROVE  \A n \in There' : n \in There /\ vms'[n] = vms[n]
  BY DEF WithoutVm, There, Typed, HostTyped

LEMMA DownSized ==
  ASSUME Typed, Sized, NEW c \in Clis, Down(c)
  PROVE  Sized'
<1>1. UNCHANGED facts
  BY DEF Down, LookForDown, ListForDown, Destroy, Uninstall, Looks, OnlyVms,
         OnlyHost
<1>2. \E m : WithoutVm(m) \/ UNCHANGED vms
  BY DEF Down, LookForDown, ListForDown, Destroy, Uninstall, Looks, OnlyHost,
         modeVars
<1>3. \A e \in late' : e \in late \/ e.kind # "build"
  <2>1. \/ UNCHANGED late
        \/ \E m : Lost(c, Effect("destroy", None, m))
        \/ \E d : Lost(c, Effect("uninstall", d, 0))
    BY DEF Down, LookForDown, ListForDown, Destroy, Uninstall, Looks
  <2>. QED BY <2>1 DEF Lost, Effect
<1>4. \/ Fail(c) \/ Done(c)
      \/ \E s \in {"down.list", "down.destroy", "down.uninstall"} :
           \E k : Go(c, s, k)
  BY DEF Down, LookForDown, ListForDown, Destroy, Uninstall, Lost
<1>5. AllCounted'
  BY <1>1, <1>4, FreeCounted, EndCounted DEF Fail, Done, Sized
<1>. QED BY <1>1, <1>2, <1>3, <1>5, WithoutVmNoneCome, NoneCome

LEMMA LandSized ==
  ASSUME Typed, Sized, NEW e \in late, Land(e)
  PROVE  Sized'
<1>1. UNCHANGED <<facts, pc, cli>> /\ late' \subseteq late
  BY DEF Land
<1>2. AllCounted'
  BY <1>1 DEF Sized, AllCounted, Counted, Fits
<1>3. CASE /\ e.kind = "build" /\ e.node \notin There
           /\ vms' = [vms EXCEPT ![e.node] = e.distro]
  <2>1. \A m \in There' : \/ vms'[m] = e.distro /\ m = e.node
                          \/ m \in There /\ vms'[m] = vms[m]
    BY <1>3 DEF There, Typed, HostTyped
  <2>. QED BY <1>1, <1>2, <1>3, <2>1 DEF Sized, Fits
<1>4. CASE \E m : WithoutVm(m) \/ UNCHANGED vms
  BY <1>1, <1>2, <1>4, WithoutVmNoneCome, NoneCome
<1>5. e \in Effects
  BY DEF Typed, HostTyped
<1>. QED BY <1>3, <1>4, <1>5 DEF Land, modeVars, Effects

LEMMA StepSized ==
  ASSUME Typed, Sized, [Next]_vars
  PROVE  Sized'
<1>1. CASE UNCHANGED vars
  BY <1>1 DEF vars, modeVars, Sized, AllCounted, Counted, Fits, There
<1>2. ASSUME NEW c \in Clis, Ask(c) \/ Interrupt(c)
      PROVE  Sized'
  <2>1. UNCHANGED <<facts, vms, late>>
    BY <1>2 DEF Ask, AskVm, AskHost, AskDown, Begin, Interrupt, modeVars
  <2>2. \/ Fail(c)
        \/ \E s \in {"vm.look", "host.list", "down.look"} :
             \E k : Go(c, s, k)
    BY <1>2 DEF Ask, AskVm, AskHost, AskDown, Begin, Interrupt
  <2>3. AllCounted'
    BY <2>1, <2>2, FreeCounted, EndCounted DEF Fail, Sized
  <2>. QED BY <2>1, <2>3, NoneCome DEF There
<1>3. ASSUME NEW c \in Clis, Run(c)
      PROVE  Sized'
  BY <1>3, UpVmSized, UpHostSized, DownSized, SetupSized DEF Run
<1>4. CASE World
  <2>1. UNCHANGED <<facts, vms>> /\ late' \subseteq late
    BY <1>4 DEF World, PackageManager, Arrives, InstallDone, InstallTorn,
                Reboot, HandStop, HandTools, modeVars
  <2>2. CASE Reboot
    <3>1. \A c \in Clis : pc'[c] \in AtRest
      BY <2>2 DEF Reboot, AtRest
    <3>2. AllCounted'
      BY <3>1 DEF AllCounted, Counted, AtRest, SetupSteps
    <3>. QED BY <2>1, <3>2, NoneCome DEF There
  <2>3. CASE UNCHANGED <<pc, cli>>
    <3>1. AllCounted'
      BY <2>1, <2>3 DEF Sized, AllCounted, Counted, Fits
    <3>. QED BY <2>1, <3>1, NoneCome DEF There
  <2>4. CASE PackageManager
    <3>1. \A c \in Clis :
            \/ pc'[c] = pc[c] /\ cli'[c] = cli[c]
            \/ pc[c] = "setup.unpack" /\ pc'[c] = "setup.enable"
               /\ cli'[c] = cli[c]
            \/ pc'[c] = "unfounded"
      BY <2>4 DEF PackageManager, Arrives, InstallDone, InstallTorn, Typed,
                  CommandsTyped
    <3>2. AllCounted'
      <4>1. ASSUME NEW c \in Clis, NEW x, NEW y, NEW k, Counted(y, k),
                   y = x \/ (y = "setup.unpack" /\ x = "setup.enable")
                     \/ x = "unfounded"
            PROVE  Counted(x, k)'
        BY <2>1, <4>1 DEF Counted, SetupSteps, Fits
      <4>2. ASSUME NEW c \in Clis
            PROVE  Counted(pc[c], cli[c])'
        <5>1. PICK x, k : x = pc'[c] /\ k = cli'[c]
          OBVIOUS
        <5>2. PICK y, j : y = pc[c] /\ j = cli[c]
          OBVIOUS
        <5>3. Counted(y, j)
          BY <5>2 DEF Sized, AllCounted
        <5>4. CASE x = "unfounded"
          BY <5>1, <5>4 DEF Counted, SetupSteps
        <5>5. CASE k = j /\ (y = x \/ (y = "setup.unpack"
                                        /\ x = "setup.enable"))
          <6>1. Counted(x, k)'
            BY <4>1, <5>3, <5>5
          <6>. QED BY <5>1, <6>1 DEF Counted
        <5>. QED BY <3>1, <5>1, <5>2, <5>4, <5>5
      <4>. QED BY <4>2 DEF AllCounted
    <3>. QED BY <2>1, <3>2, NoneCome DEF There
  <2>. QED BY <1>4, <2>2, <2>3, <2>4 DEF World, HandStop, HandTools
<1>. QED BY <1>1, <1>2, <1>3, <1>4, LandSized DEF Next

\* VMs of one size carry numbers no greater than how many of them fit.
LEMMA EvenFits ==
  ASSUME Typed, Sized, facts.memory # None,
         NEW d \in Distros, \A n \in There : vms[n] = d
  PROVE  Taken <= UsableMemory(facts.memory)
<1>1. PICK u \in Nat : u = UsableMemory(facts.memory)
  BY FitsIs
<1>2. IsFiniteSet(There) /\ Cardinality(There) \in 0..MaxNodes
  BY NodeNumbers DEF There
<1>3. Cardinality(There) * VmMemory[d] <= u
  <2>1. Fits(d, Cardinality(There))
    <3>1. CASE There = {}
      <4>1. Cardinality(There) = 0
        BY <3>1, FS_EmptySet
      <4>2. 0 * VmMemory[d] <= u
        BY <1>1 DEF VmMemory, Distros
      <4>. QED BY <1>1, <4>1, <4>2, FitsIs
    <3>2. CASE There # {}
      <4>1. There \subseteq Nodes
        BY DEF There
      <4>2. \E m \in There : Cardinality(There) <= m
        <5>1. SUFFICES ASSUME \A m \in There : m < Cardinality(There)
                       PROVE  FALSE
          BY <1>2, <4>1 DEF Nodes
        <5>2. There \subseteq 1..(Cardinality(There) - 1)
          BY <1>2, <4>1, <5>1 DEF Nodes
        <5>3. /\ IsFiniteSet(1..(Cardinality(There) - 1))
              /\ Cardinality(1..(Cardinality(There) - 1))
                   = Cardinality(There) - 1
          <6>1. Cardinality(There) # 0
            BY <3>2, NodeNumbers, <4>1
          <6>2. Cardinality(There) - 1 \in Nat
            BY <1>2, <6>1
          <6>. QED BY <6>1, <6>2, <1>2, FS_Interval
        <5>. QED BY <5>2, <5>3, FS_Subset, <1>2
      <4>3. PICK m \in There : Cardinality(There) <= m
        BY <4>2
      <4>4. Fits(d, m) /\ m \in Nat
        BY <4>1 DEF Sized, Nodes
      <4>. QED BY <1>2, <4>3, <4>4, FewerFit
    <3>. QED BY <3>1, <3>2
  <2>. QED BY <1>1, <1>2, <2>1, FitsIs
<1>4. Count(d) = Cardinality(There)
  <2>1. {n \in Nodes : vms[n] = d} = There
    BY NoNumberAssumption DEF There, Distros
  <2>. QED BY <2>1 DEF Count
<1>5. \A e \in Distros \ {d} : Count(e) = 0
  <2>1. \A e \in Distros \ {d} : {n \in Nodes : vms[n] = e} = {}
    BY NoNumberAssumption DEF There, Distros
  <2>. QED BY <2>1, FS_EmptySet DEF Count
<1>6. CASE d = "k3s"
  <2>1. Count("k3s") = Cardinality(There) /\ Count("rke2") = 0
    BY <1>4, <1>5, <1>6 DEF Distros
  <2>. QED BY <1>1, <1>2, <1>3, <1>6, <2>1 DEF Taken, VmMemory
<1>7. CASE d = "rke2"
  <2>1. Count("rke2") = Cardinality(There) /\ Count("k3s") = 0
    BY <1>4, <1>5, <1>7 DEF Distros
  <2>. QED BY <1>1, <1>2, <1>3, <1>7, <2>1 DEF Taken, VmMemory
<1>. QED BY <1>6, <1>7 DEF Distros

\* VMs of one size never take more memory than the host can spare, whatever
\* commands overlap, are lost and land late: every VM was counted in by
\* check_fit, also one that was listed, went and was built anew.
THEOREM EvenClustersFit == Spec => []EvenClusterFits
<1>1. Init => Sized
  BY DEF Init, FoundationInit, Sized, AllCounted, Counted, There, SetupSteps
<1>2. Typed /\ Sized /\ [Next]_vars => Sized'
  BY StepSized
<1>3. Typed /\ Sized => EvenClusterFits
  BY EvenFits DEF EvenClusterFits, HostKeepsShare
<1>. QED BY <1>1, <1>2, <1>3, AlwaysTyped, PTL DEF Spec
=============================================================================
