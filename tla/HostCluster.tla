---------------------------- MODULE HostCluster ----------------------------
(***************************************************************************)
(* `ssherpa up' and `ssherpa down' in host mode: cli.up, cli.down,         *)
(* cluster.up and cluster.down with the steps distro.py gives k3s and      *)
(* RKE2.  One action is one remote or local command.  In between the host  *)
(* may get another address, be rebooted or be worked on by its user, who   *)
(* shares config.yaml with SSHerpa: the first line of the file says whose  *)
(* it is.                                                                  *)
(*                                                                         *)
(* The serving certificate covers what config.yaml named when the service  *)
(* last started.  VMs on the host are the business of VmCluster.           *)
(***************************************************************************)
EXTENDS Naturals, Sequences, FiniteSets

CONSTANTS Addrs,      \* addresses the host can have
          Hazards,    \* which kinds of trouble the run contains
          MaxFaults,  \* bound: how often trouble strikes
          None

ASSUME AddrsAssumption == Addrs # {} /\ None \notin Addrs
ASSUME HazardsAssumption ==
  Hazards \subseteq {"abort", "halfinstall", "noop", "stubborn", "norenew",
                     "unreadable", "reboot", "rebootdown", "move", "edit",
                     "handinstall"}
ASSUME MaxFaultsAssumption == MaxFaults \in Nat

VARIABLES
  fits,       \* distributions the host's memory takes
  host,       \* the address the host has
  target,     \* the address in the inventory, as ssh resolves it
  installed,  \* distributions whose marker file is there
  running, enabled,  \* their services
  config,     \* /etc/rancher/<distro>/config.yaml
  cert,       \* addresses the serving certificate covers
  kubefile,   \* server address in ~/.ssherpa/kubeconfig/<target>.yaml
  context,    \* server address in the entry of ~/.kube/config
  pc, cli,    \* the step of the running command and its local variables
  calm,       \* nobody touched the host since the command started
  unsure,     \* this command could not read the certificate
  faults      \* trouble left

hostVars == <<fits, host, installed, running, enabled, config, cert>>
localVars == <<target, kubefile, context>>
ghostVars == <<calm, unsure, faults>>
vars == <<fits, host, target, installed, running, enabled, config, cert,
          kubefile, context, pc, cli, calm, unsure, faults>>

-----------------------------------------------------------------------------
Distros == {"k3s", "rke2"}
Opt(S) == S \cup {None}

\* mark: SSHerpa's first line; other: settings besides tls-san.
Config == [mark : BOOLEAN, other : BOOLEAN, san : SUBSET Addrs]
TlsConfig(a) == [mark |-> TRUE, other |-> FALSE, san |-> {a}]

\* config_ownership_command: no file, the marker, or the shape that SSHerpa
\* up to 0.5.0 left, tls-san and nothing else.
ConfigIsOurs(d) == config[d] = None \/ config[d].mark \/ ~config[d].other

\* k3s starts when it is installed and reads its configuration then; RKE2 is
\* installed, configured and started.
InstallSteps == [k3s |-> <<"configure", "install k3s">>,
                 rke2 |-> <<"install rke2", "configure", "start rke2">>]
\* Broken: rke2-uninstall.sh is trusted to stop what runs.
UninstallOnly == [k3s |-> <<"uninstall">>, rke2 |-> <<"uninstall">>]
UninstallSteps == [k3s |-> <<"uninstall">>, rke2 |-> <<"stop", "uninstall">>]

AtRest == {"idle", "ready", "removed", "nothing"}
UpSteps == {"up.look", "up.preflight", "up.install", "up.wait", "up.verify",
            "up.ownership", "up.refresh", "up.rewait", "up.reverify",
            "up.fetch", "up.merge"}
DownSteps == {"down.look", "down.preflight", "down.uninstall", "down.verify",
              "down.local"}
LocalSteps == {"up.merge", "down.local"}

InstallLeft == [k3s |-> {<<"configure", "install k3s">>, <<"install k3s">>},
                rke2 |-> {<<"install rke2", "configure", "start rke2">>,
                          <<"configure", "start rke2">>, <<"start rke2">>}]
UninstallLeft == [k3s |-> {<<"uninstall">>},
                  rke2 |-> {<<"stop", "uninstall">>, <<"uninstall">>}]
StepsLeft ==
  {<<>>} \cup UNION {InstallLeft[d] \cup UninstallLeft[d] : d \in Distros}
Command == [asked : Opt(Distros),    \* --distro
            distro : Opt(Distros),   \* the one worked on
            addr : Opt(Addrs),       \* api_address
            todo : StepsLeft,        \* of an installation or a removal
            listed : SUBSET Distros] \* down: what was found installed
NoCommand == [asked |-> None, distro |-> None, addr |-> None, todo |-> <<>>,
              listed |-> {}]

Init ==
  /\ fits \in {{"k3s"}, Distros}
  /\ host \in Addrs /\ target = host
  /\ installed = {} /\ running = {} /\ enabled = {}
  /\ config = [d \in Distros |-> None] /\ cert = [d \in Distros |-> {}]
  /\ kubefile = None /\ context = None
  /\ pc = "idle" /\ cli = NoCommand
  /\ calm = TRUE /\ unsure = FALSE /\ faults = MaxFaults

Go(s, c) == pc' = s /\ cli' = c /\ UNCHANGED ghostVars
End(outcome) == Go(outcome, NoCommand)
Fail == End("idle")
Looks == UNCHANGED <<hostVars, localVars>>
OnlyServices ==  \* which a service start or an uninstall changes
  UNCHANGED <<fits, host, localVars>>
OnlyConfig == UNCHANGED <<fits, host, installed, running, enabled, cert,
                          localVars>>

Begin(s, c) ==
  /\ pc \in AtRest
  /\ pc' = s /\ cli' = c
  /\ calm' = TRUE /\ unsure' = FALSE /\ UNCHANGED faults
  /\ Looks

\* A remote step needs the host to be where the inventory says.
Reach == target = host
Unreachable ==
  /\ pc \notin AtRest \cup LocalSteps /\ ~Reach
  /\ Fail /\ Looks
At(step) == pc = step /\ Reach
Sans(d) == IF config[d] = None THEN {} ELSE config[d].san
\* All distributions bind port 6443.
PortFree(d) == running \subseteq {d}

-----------------------------------------------------------------------------
(* ssherpa up                                                              *)

AskUp(d) == Begin("up.look", [NoCommand EXCEPT !.asked = d])

\* Broken: only the distribution asked for is looked at.
LookForAsked ==
  /\ At("up.look")
  /\ \E d \in Distros :
       /\ cli.asked \in {None, d}
       /\ Go("up.preflight", [cli EXCEPT !.distro = d, !.addr = target])
  /\ Looks

\* _distro_to_install: what is installed is kept, and only after a yes; an
\* empty host gets what was asked for or what the prompt, or k3s as the
\* default of scripts, gives.
LookForUp ==
  /\ At("up.look")
  /\ LET take(d) == Go("up.preflight", [cli EXCEPT !.distro = d,
                                                   !.addr = target])
     IN \/ Cardinality(installed) > 1 /\ Fail
        \/ \E d \in installed :
             /\ installed = {d}
             /\ Fail \/ (cli.asked \in {None, d} /\ take(d))
        \/ /\ installed = {}
           /\ IF cli.asked # None THEN take(cli.asked)
                                  ELSE \E d \in Distros : take(d)
  /\ Looks

\* Broken: an installation that is there is taken for one that runs.
PreflightTrustsMarker ==
  /\ At("up.preflight")
  /\ LET d == cli.distro IN
     IF d \in installed THEN Go("up.verify", cli)
     ELSE IF d \in fits /\ ConfigIsOurs(d)
     THEN Go("up.install", [cli EXCEPT !.todo = InstallSteps[d]])
     ELSE Fail
  /\ Looks

\* Broken: the owner of config.yaml is asked for only when it is healed.
PreflightAsksNobody ==
  /\ At("up.preflight")
  /\ LET d == cli.distro IN
     IF d \in installed THEN Go("up.wait", cli)
     ELSE IF d \in fits
     THEN Go("up.install", [cli EXCEPT !.todo = InstallSteps[d]])
     ELSE Fail
  /\ Looks

\* Memory and the owner of config.yaml matter only to a new installation.
Preflight ==
  /\ At("up.preflight")
  /\ LET d == cli.distro IN
     IF d \in installed THEN Go("up.wait", cli)
     ELSE IF d \in fits /\ ConfigIsOurs(d)
     THEN Go("up.install", [cli EXCEPT !.todo = InstallSteps[d]])
     ELSE Fail
  /\ Looks

\* Broken: one step too many.
DoneOffByOne ==
  IF Len(cli.todo) = 0 THEN Go("up.wait", [cli EXCEPT !.todo = <<>>])
                       ELSE Go("up.install", [cli EXCEPT !.todo = Tail(@)])
Doing(step) == At("up.install") /\ Head(cli.todo) = step
Done ==
  IF Len(cli.todo) = 1 THEN Go("up.wait", [cli EXCEPT !.todo = <<>>])
                       ELSE Go("up.install", [cli EXCEPT !.todo = Tail(@)])

\* The service of d starts with the configuration it finds, unless something
\* else has the port; a service that runs is left alone.
StartService(d) ==
  /\ enabled' = enabled \cup {d}
  /\ IF d \notin running /\ PortFree(d)
     THEN running' = {d} /\ cert' = [cert EXCEPT ![d] = Sans(d)]
     ELSE UNCHANGED <<running, cert>>

ConfigureTlsSan ==
  /\ Doing("configure")
  /\ config' = [config EXCEPT ![cli.distro] = TlsConfig(cli.addr)]
  /\ Done /\ OnlyConfig

InstallK3s ==
  /\ Doing("install k3s")
  /\ installed' = installed \cup {"k3s"}
  /\ StartService("k3s")
  /\ IF PortFree("k3s") THEN Done ELSE Fail
  /\ UNCHANGED config /\ OnlyServices

InstallRke2 ==
  /\ Doing("install rke2")
  /\ installed' = installed \cup {"rke2"}
  /\ Done
  /\ UNCHANGED <<running, enabled, config, cert>> /\ OnlyServices

StartRke2 ==
  /\ Doing("start rke2")
  /\ IF "rke2" \in installed
     THEN StartService("rke2") /\ IF PortFree("rke2") THEN Done ELSE Fail
     ELSE Fail /\ UNCHANGED <<running, enabled, cert>>
  /\ UNCHANGED <<installed, config>> /\ OnlyServices

WaitForReady ==
  /\ At("up.wait") \/ At("up.rewait")
  /\ IF cli.distro \in running
     THEN Go(IF pc = "up.wait" THEN "up.verify" ELSE "up.reverify", cli)
     ELSE Fail
  /\ Looks

Covers == cli.addr \in cert[cli.distro]
VerifyCertificate ==
  /\ At("up.verify")
  /\ Go(IF Covers THEN "up.fetch" ELSE "up.ownership", cli)
  /\ Looks

\* Broken: the file is written over whoever wrote it.
CheckNothing == At("up.ownership") /\ Go("up.refresh", cli) /\ Looks

\* The cure writes the whole file, so a file of the user's ends it here.
CheckOwnership ==
  /\ At("up.ownership")
  /\ IF ConfigIsOurs(cli.distro) THEN Go("up.refresh", cli) ELSE Fail
  /\ Looks

\* Broken: the service is not restarted.
RefreshConfigOnly ==
  /\ At("up.refresh")
  /\ config' = [config EXCEPT ![cli.distro] = TlsConfig(cli.addr)]
  /\ Go("up.rewait", cli)
  /\ OnlyConfig

\* tls_config_step && systemctl restart
RefreshCertificate ==
  LET d == cli.distro IN
  /\ At("up.refresh")
  /\ config' = [config EXCEPT ![d] = TlsConfig(cli.addr)]
  /\ running' = IF PortFree(d) THEN {d} ELSE running
  /\ cert' = IF PortFree(d) THEN [cert EXCEPT ![d] = {cli.addr}] ELSE cert
  /\ IF PortFree(d) THEN Go("up.rewait", cli) ELSE Fail
  /\ UNCHANGED <<installed, enabled>> /\ OnlyServices

\* Broken: that the service was restarted is taken for the new certificate.
TrustRefresh == At("up.reverify") /\ Go("up.fetch", cli) /\ Looks
\* Broken: the certificate is refreshed until it fits.
VerifyUntilFits ==
  /\ At("up.reverify")
  /\ Go(IF cli.addr \in cert[cli.distro] THEN "up.fetch" ELSE "up.ownership",
        cli)
  /\ Looks
VerifyRefresh ==
  /\ At("up.reverify")
  /\ IF Covers THEN Go("up.fetch", cli) ELSE Fail
  /\ Looks

FetchKubeconfig ==
  /\ At("up.fetch")
  /\ IF cli.distro \in installed
     THEN kubefile' = cli.addr /\ Go("up.merge", cli)
     ELSE Fail /\ UNCHANGED kubefile
  /\ UNCHANGED <<hostVars, target, context>>

\* A ~/.kube/config that cannot be edited does not fail the command.
MergeKubeconfig ==
  /\ pc = "up.merge"
  /\ context' \in {kubefile, context}
  /\ End("ready")
  /\ UNCHANGED <<hostVars, target, kubefile>>

-----------------------------------------------------------------------------
(* ssherpa down                                                            *)

AskDown == Begin("down.look", NoCommand)

LookForDown ==
  /\ At("down.look")
  /\ IF installed = {} THEN End("nothing")
     ELSE Fail \/ Go("down.preflight", [cli EXCEPT !.listed = installed])
  /\ Looks

\* The distributions found, k3s first.  One that is gone by now is passed
\* over, its local files with it.
DownPreflight ==
  /\ At("down.preflight")
  /\ IF cli.listed = {} THEN End("removed")
     ELSE LET d == IF "k3s" \in cli.listed THEN "k3s" ELSE "rke2" IN
          IF d \in installed
          THEN Go("down.uninstall", [cli EXCEPT !.distro = d,
                                                !.todo = UninstallSteps[d]])
          ELSE Go("down.preflight", [cli EXCEPT !.listed = @ \ {d}])
  /\ Looks

\* rke2-killall.sh
StopRke2 ==
  /\ At("down.uninstall") /\ Head(cli.todo) = "stop"
  /\ running' = running \ {cli.distro}
  /\ Go("down.uninstall", [cli EXCEPT !.todo = Tail(@)])
  /\ UNCHANGED <<installed, enabled, config, cert>> /\ OnlyServices

\* k3s-uninstall.sh stops k3s.  rke2-uninstall.sh leaves what runs running
\* and coming back after a reboot, and exits 0.
Uninstall ==
  LET d == cli.distro
      leaves == IF d = "rke2" /\ d \in running THEN {d} ELSE {}
  IN
  /\ At("down.uninstall") /\ Head(cli.todo) = "uninstall"
  /\ installed' = installed \ {d}
  /\ running' = running \ ({d} \ leaves)
  /\ enabled' = enabled \ ({d} \ leaves)
  /\ config' = [config EXCEPT ![d] = None]
  /\ cert' = [cert EXCEPT ![d] = {}]
  /\ Go("down.verify", [cli EXCEPT !.todo = <<>>])
  /\ OnlyServices

VerifyRemoval ==
  /\ At("down.verify")
  /\ IF cli.distro \in installed THEN Fail ELSE Go("down.local", cli)
  /\ Looks

ForgetLocal ==
  /\ pc = "down.local"
  /\ kubefile' = None /\ context' \in {None, context}
  /\ Go("down.preflight", [cli EXCEPT !.listed = @ \ {cli.distro},
                                      !.distro = None])
  /\ UNCHANGED <<hostVars, target>>

-----------------------------------------------------------------------------
(* Trouble                                                                 *)

Strikes(kind) == kind \in Hazards /\ faults > 0 /\ faults' = faults - 1
Ends == pc' = "idle" /\ cli' = NoCommand /\ UNCHANGED <<calm, unsure>>
Passes(s, c) == pc' = s /\ cli' = c /\ UNCHANGED calm

Abort == Strikes("abort") /\ pc \notin AtRest /\ Ends /\ Looks

\* The connection is lost after the file was written, before the restart.
RefreshCut ==
  /\ Strikes("abort") /\ At("up.refresh") /\ Ends
  /\ config' = [config EXCEPT ![cli.distro] = TlsConfig(cli.addr)]
  /\ OnlyConfig

\* get.k3s.io puts the binary in place and does not get to the service.
HalfInstall ==
  /\ Strikes("halfinstall") /\ Doing("install k3s") /\ Ends
  /\ installed' = installed \cup {"k3s"}
  /\ UNCHANGED <<running, enabled, config, cert>> /\ OnlyServices

\* curl fails; sh reads an empty script and exits 0.
DownloadFails ==
  /\ Strikes("noop") /\ (Doing("install k3s") \/ Doing("install rke2"))
  /\ IF Len(cli.todo) = 1
     THEN Passes("up.wait", [cli EXCEPT !.todo = <<>>])
     ELSE Passes("up.install", [cli EXCEPT !.todo = Tail(@)])
  /\ UNCHANGED unsure /\ Looks

\* The uninstall script exits 0 and removes nothing.
UninstallFails ==
  /\ Strikes("stubborn")
  /\ At("down.uninstall") /\ Head(cli.todo) = "uninstall"
  /\ Passes("down.verify", [cli EXCEPT !.todo = <<>>])
  /\ UNCHANGED unsure /\ Looks

\* The restart does not bring a new certificate.
NotRenewed ==
  /\ Strikes("norenew") /\ At("up.refresh") /\ PortFree(cli.distro)
  /\ config' = [config EXCEPT ![cli.distro] = TlsConfig(cli.addr)]
  /\ running' = {cli.distro}
  /\ Passes("up.rewait", cli)
  /\ UNCHANGED <<unsure, installed, enabled, cert>> /\ OnlyServices

\* openssl is not there or cannot read the file: not knowing is no reason to
\* stop, the second time either.
CertificateUnreadable ==
  /\ Strikes("unreadable") /\ (At("up.verify") \/ At("up.reverify"))
  /\ Passes("up.fetch", cli) /\ unsure' = TRUE
  /\ Looks

\* One of the enabled services gets the port and reads its configuration.
Boot ==
  \/ enabled = {} /\ running' = {} /\ UNCHANGED cert
  \/ \E d \in enabled : /\ running' = {d}
                        /\ cert' = [cert EXCEPT ![d] = Sans(d)]
\* A reboot that brings RKE2 back between killall and uninstall is a kind of
\* its own.
Restarts(kind) == Strikes(IF pc = "down.uninstall" THEN "rebootdown" ELSE kind)
Shake ==
  /\ \/ Restarts("reboot") /\ UNCHANGED host
     \/ Restarts("move") /\ host' \in Addrs \ {host}
  /\ Boot
  /\ calm' = FALSE
  /\ UNCHANGED <<fits, installed, enabled, config, localVars, pc, cli, unsure>>

\* ssherpa target update; other terminals do not change the target of a
\* running command.
UpdateTarget ==
  /\ pc \in AtRest /\ ~Reach
  /\ target' = host /\ calm' = FALSE
  /\ UNCHANGED <<hostVars, kubefile, context, pc, cli, unsure, faults>>

\* The user writes a file, takes the marker line out, adds a setting.
EditConfig(d) ==
  /\ Strikes("edit")
  /\ \/ config[d] = None /\ \E a \in Addrs :
          config' = [config EXCEPT
                       ![d] = [mark |-> FALSE, other |-> TRUE, san |-> {a}]]
     \/ config[d] # None /\ config[d].mark
          /\ config' = [config EXCEPT ![d].mark = FALSE]
     \/ config[d] # None /\ ~config[d].other
          /\ config' = [config EXCEPT ![d].other = TRUE]
     \/ config[d] # None /\ \E a \in Addrs \ config[d].san :
          config' = [config EXCEPT ![d].san = @ \cup {a}]
  /\ calm' = FALSE
  /\ OnlyConfig /\ UNCHANGED <<pc, cli, unsure>>

HandInstall(d) ==
  /\ Strikes("handinstall") /\ d \notin installed
  /\ installed' = installed \cup {d}
  /\ StartService(d)
  /\ calm' = FALSE
  /\ UNCHANGED config /\ OnlyServices /\ UNCHANGED <<pc, cli, unsure>>

-----------------------------------------------------------------------------
Up == \/ LookForUp \/ Preflight
      \/ ConfigureTlsSan \/ InstallK3s \/ InstallRke2 \/ StartRke2
      \/ WaitForReady \/ VerifyCertificate \/ CheckOwnership
      \/ RefreshCertificate \/ VerifyRefresh
      \/ FetchKubeconfig \/ MergeKubeconfig
Down == \/ LookForDown \/ DownPreflight \/ StopRke2 \/ Uninstall
        \/ VerifyRemoval \/ ForgetLocal
Ask == (\E d \in Opt(Distros) : AskUp(d)) \/ AskDown
Trouble == \/ Abort \/ RefreshCut \/ HalfInstall \/ DownloadFails
           \/ UninstallFails \/ NotRenewed \/ CertificateUnreadable \/ Shake
           \/ \E d \in Distros : EditConfig(d) \/ HandInstall(d)

Next == Ask \/ Up \/ Down \/ Unreachable \/ UpdateTarget \/ Trouble
Spec == Init /\ [][Next]_vars

-----------------------------------------------------------------------------
(* Properties                                                              *)

\* Every variable has its type, and a command has what its step needs.
TypeOK ==
  /\ fits \subseteq Distros /\ host \in Addrs /\ target \in Addrs
  /\ installed \subseteq Distros /\ running \subseteq Distros
  /\ enabled \subseteq Distros
  /\ config \in [Distros -> Opt(Config)] /\ cert \in [Distros -> SUBSET Addrs]
  /\ kubefile \in Opt(Addrs) /\ context \in Opt(Addrs)
  /\ pc \in AtRest \cup UpSteps \cup DownSteps
  /\ cli \in Command
  /\ calm \in BOOLEAN /\ unsure \in BOOLEAN /\ faults \in 0..MaxFaults
  /\ pc \in UpSteps \ {"up.look"} => cli.distro \in Distros /\ cli.addr \in Addrs
  /\ pc \in {"up.install", "down.uninstall"} => cli.todo # <<>>
  /\ pc \in {"down.uninstall", "down.verify", "down.local"}
       => cli.distro \in cli.listed

\* A step of the command at work, one that leaves pc where it is as well: the
\* steps of an installation are crossed off cli.todo.
CommandSteps == <<pc, cli>>' # <<pc, cli>>

\* up never writes over a config.yaml that holds settings of the user's and
\* not SSHerpa's line, neither to install nor to heal the certificate.
ForeignConfigKept ==
  [][CommandSteps /\ pc \in UpSteps /\ calm =>
       \A d \in Distros :
         config[d] # None /\ ~config[d].mark /\ config[d].other
           => config'[d] = config[d]]_vars

\* When up says Cluster ready, the address in the kubeconfig is the one the
\* command was started with, and the API server that runs presents a
\* certificate that covers it, unless it could not be read.
ReadyMeansCovered ==
  pc = "ready" /\ calm /\ ~unsure =>
    /\ kubefile = target
    /\ \E d \in running : target \in cert[d]

\* When down says Removed, no distribution it could see is left, nothing
\* holds the API port and nothing comes back to it with the next reboot.
RemovedMeansGone ==
  pc = "removed" /\ calm => installed = {} /\ running = {} /\ enabled = {}

\* SSHerpa does not put a second distribution beside one that is there, with
\* none of the steps of an installation.
OneDistribution ==
  [][CommandSteps /\ calm /\ installed # {}
       => installed' \subseteq installed]_vars

\* up and down keep the promise of Lifecycle here as well: its parts are the
\* distributions installed, of which those have joined that come back with a
\* reboot.  Cluster ready is said only where something is installed and all
\* of it does.
Phase == CASE pc \in UpSteps -> "up"
           [] pc \in DownSteps -> "down"
           [] OTHER -> "rest"
Said == CASE pc = "ready" -> "ready"
          [] pc \in {"removed", "nothing"} -> "removed"
          [] OTHER -> ""
Life == INSTANCE Lifecycle WITH parts <- installed,
          joined <- installed \cap enabled,
          phase <- Phase, said <- Said, sure <- calm
LifecycleKept == Life!Spec

\* The order a command goes through its steps in; down goes through the last
\* three once for every distribution it found.
Stage(s) ==
  CASE s \in {"up.look", "down.look"} -> 1
    [] s \in {"up.preflight", "down.preflight", "down.uninstall",
              "down.verify", "down.local"} -> 2
    [] s = "up.install" -> 3
    [] s = "up.wait" -> 4
    [] s = "up.verify" -> 5
    [] s = "up.ownership" -> 6
    [] s = "up.refresh" -> 7
    [] s = "up.rewait" -> 8
    [] s = "up.reverify" -> 9
    [] s = "up.fetch" -> 10
    [] OTHER -> 11
Line(s) ==
  CASE s = "down.preflight" -> 1 [] s = "down.uninstall" -> 2
    [] s = "down.verify" -> 3 [] OTHER -> 4
Forward ==
  \/ pc' \in AtRest
  \/ /\ Phase' = Phase
     /\ \/ Stage(pc') > Stage(pc)
        \/ /\ Stage(pc') = Stage(pc) /\ cli'.listed \subseteq cli.listed
           /\ \/ cli'.listed # cli.listed
              \/ Line(pc') > Line(pc)
              \/ pc' = pc /\ Len(cli'.todo) < Len(cli.todo)

\* Every step of a command, one that fails silently too, is its last or
\* brings it forward: the certificate is cured once and not until it fits,
\* and down comes to no distribution twice, whatever the host does meanwhile.
StepsForward ==
  [][Up \/ Down \/ Unreachable \/ (Trouble /\ CommandSteps)
       => Forward]_vars

-----------------------------------------------------------------------------
(* Liveness                                                                *)

\* Every remote command ends or times out, and the operator updates the
\* target and repeats the plain up, agreeing, and choosing what fits, in the
\* end.
FairSpec ==
  /\ Spec
  /\ WF_vars(Up \/ Down \/ Unreachable)
  /\ SF_vars(UpdateTarget)
  /\ SF_vars(AskUp(None))
  /\ SF_vars(LookForUp /\ pc' # "idle" /\ cli'.distro \in fits \cup installed)

\* README.md:168-171, an address change heals itself: whatever address the
\* host got, up in the end succeeds with a certificate for the address the
\* host has, whatever interrupted the cure before.  Not if config.yaml is
\* the user's, if an installation ended before it came to its service, or if
\* a removal has begun.
AddressHeals ==
  (/\ [](pc # "down.uninstall")
   /\ <>[](\A d \in Distros : ConfigIsOurs(d))
   /\ <>[](Cardinality(installed) <= 1 /\ enabled = installed))
    => []<>(/\ pc = "ready" /\ kubefile = host
            /\ \E d \in running : host \in cert[d])
=============================================================================
