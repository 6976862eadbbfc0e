---------------------------- MODULE Setup ----------------------------
(***************************************************************************)
(* The setup wizard (VirtuaCamSetup.exe,                                   *)
(* wizard-project/src/VirtuaCamSetup.cpp): its operations run system tools *)
(* one after the other, on a worker of its window or headless, and the     *)
(* devices, the driver store and the service manager answer as the state   *)
(* of the machine makes them.                                              *)
(*                                                                         *)
(* An operation is a program, a sequence of steps; a step is one tool or   *)
(* one group of registry calls.  Every tool may fail, the wizard may be    *)
(* closed between any two steps, and the service stops, is restarted by    *)
(* the failure actions or is started by a boot at its own pace.  What a    *)
(* tool finds is what earlier, possibly unfinished, operations left.       *)
(* hurt remembers whether a tool or a query of this operation has failed.  *)
(*                                                                         *)
(* Certificates, the DLL's options, texts and the preview are left out,    *)
(* and so are two wizards that work at once, a C++ exception and a report  *)
(* that cannot be written.                                                 *)
(***************************************************************************)
EXTENDS Naturals, Sequences

CONSTANTS
  ReadAttempts,  \* kReadAttempts
  MaxExtra,  \* bound on the device nodes beside instance 0000
  MaxOps,    \* bound on the operations begun
  MaxBoots   \* bound on what the service manager does unasked

ASSUME SetupConstants ==
  /\ ReadAttempts \in Nat \ {0}
  /\ MaxExtra \in Nat /\ MaxOps \in Nat /\ MaxBoots \in Nat

Kind == {"camera", "mic"}
Op == {"install", "uninstall", "addService", "removeService", "launch"}

VARIABLES
  \* wizard
  ui,       \* the window: "none", "idle", "busy" or "ok" (waits for OK)
  owner,    \* who runs the operation: "nobody", "worker", "headless"
  op, nextStep,   \* the operation and the number of its next step
  failed,   \* its result is a failure
  hurt,     \* history: one of its tools or queries has failed
  unseen,   \* history: what the last check of an uninstallation could not
            \* look at
  unposted, \* the message that the window waits for will not come
  clean,    \* all first-run checks it has made have passed
  reads,    \* reads the last of them has started; 0: no camera is open
  last,     \* outcome of the last operation: "none", "ok", "failed", "cut"
  log, json,  \* driver-install.log and the report are there
  \* machine
  dev,      \* instance 0000 of each device: "absent", "bare" (no driver),
            \* "stopped" (bound, not started) or "started"
  extra,    \* further instances of each device
  pkg,      \* its driver package is in the store
  config,   \* SOFTWARE\VirtuaCam is written
  settings, \* the user's settings are there
  svc,      \* the watcher service: its state, deletion pending
  actions,  \* its failure actions are set
  restart,  \* the service manager is about to restart it
  app,      \* VirtuaCam.exe runs
  ops, boots

checkVars == <<clean, reads>>
historyVars == <<hurt, unseen>>
wizardVars == <<ui, owner, op, nextStep, failed, historyVars, unposted,
                checkVars, last, log, json>>
registryVars == <<config, settings>>
deviceVars == <<dev, extra, pkg>>
svcVars == <<svc, actions, restart>>
machineVars == <<deviceVars, registryVars, svcVars, app>>
setupVars == <<wizardVars, machineVars, ops, boots>>

Bound == {"stopped", "started"}
Svc == [state : {"absent", "stopped", "running", "stopping"},
        marked : BOOLEAN]
Absent == [state |-> "absent", marked |-> FALSE]

ConfigureWatcherService ==
  << <<"scStop", "none">>, <<"scCreate", "none">>, <<"scConfig", "none">>,
     <<"scFailure", "none">>, <<"scStart", "none">> >>

InstallDriver(k) ==
  << <<"add", k>>, <<"node", k>>, <<"bind", k>>, <<"restart", k>>,
     <<"verify", k>> >>

(* RunFirstRunChecks.                                                      *)
FirstRunChecks ==
  << <<"ensure", "settings">>, <<"look", "device">>, <<"look", "service">>,
     <<"look", "camera">>, <<"look", "mic">>, <<"open", "camera">>,
     <<"open", "mic">>, <<"open", "frame">> >>

(* A step is a tool and what it is about, "none" for the machine.          *)
(* RunNativeInstall and the checks after it, RunNativeUninstall,           *)
(* RunWatcherServiceInstall, RunWatcherServiceUninstall,                   *)
(* LaunchVirtuaCamInteractive.                                             *)
Program ==
  [install |->
     << <<"artifacts", "none">>, <<"scStop", "none">>, <<"kill", "none">>,
        <<"signing", "none">>, <<"removePackage", "camera">>,
        <<"removePackage", "mic">> >>
       \o InstallDriver("camera") \o InstallDriver("mic")
       \o << <<"dll", "none">>, <<"config", "none">> >>
       \o ConfigureWatcherService \o FirstRunChecks,
   uninstall |->
     << <<"scStop", "none">>, <<"scDelete", "none">>,
        <<"removePackage", "mic">>, <<"removePackage", "camera">>,
        <<"removeNode", "mic">>, <<"removeNode", "camera">>,
        <<"forget", "none">>, <<"check", "none">> >>,
   addService |-> << <<"processExe", "none">> >> \o ConfigureWatcherService,
   removeService |-> << <<"scStop", "none">>, <<"scDelete", "none">> >>,
   launch |-> << <<"exe", "none">>, <<"appKill", "none">>,
                 <<"appStart", "none">>, <<"appSeen", "none">> >>]

SetupInit ==
  /\ ui \in {"none", "idle"} /\ owner = "nobody"
  /\ op = "launch" /\ nextStep = 1 /\ failed = FALSE /\ hurt = FALSE
  /\ unseen = {} /\ unposted = FALSE
  /\ clean = TRUE /\ reads = 0
  /\ last = "none" /\ log = FALSE /\ json = FALSE
  /\ dev = [k \in Kind |-> "absent"]
  /\ extra = [k \in Kind |-> 0]
  /\ pkg = [k \in Kind |-> FALSE]
  /\ config = FALSE /\ settings = FALSE /\ svc = Absent
  /\ actions = FALSE /\ restart = FALSE /\ app = FALSE
  /\ ops = 0 /\ boots = 0

Working == owner # "nobody"
Over == failed \/ nextStep > Len(Program[op])
At(step, k) == Working /\ ~Over /\ Program[op][nextStep] = <<step, k>>

-----------------------------------------------------------------------------
(* How a step ends.  RunLoggedCommand: a tool ends with an exit code that  *)
(* the step allows or not; one that is still running after its time is     *)
(* killed and has failed.                                                  *)

onlyOp == <<ui, owner, op, unseen, unposted, checkVars, last, log, json, ops,
            boots>>

(* The tool has done its work.                                             *)
Done == nextStep' = nextStep + 1 /\ UNCHANGED <<onlyOp, failed, hurt>>

(* It has refused: with the step's result the operation fails.             *)
Refused ==
  /\ failed' = TRUE
  /\ UNCHANGED <<onlyOp, nextStep, hurt, machineVars>>

(* It has failed for a reason of its own; a step whose result nobody looks *)
(* at goes on.                                                             *)
Ignored ==
  /\ nextStep' = nextStep + 1 /\ hurt' = TRUE
  /\ UNCHANGED <<onlyOp, failed, machineVars>>
Fails ==
  /\ failed' = TRUE /\ hurt' = TRUE
  /\ UNCHANGED <<onlyOp, nextStep, machineVars>>

(* The staged files, test signing, the registration of the DLL.            *)
Prerequisite ==
  \E s \in {"artifacts", "signing", "dll", "exe"} :
    /\ At(s, "none")
    /\ \/ Done /\ UNCHANGED machineVars
       \/ Fails

-----------------------------------------------------------------------------
(* Devices.                                                                *)

devicesOnly == <<registryVars, svcVars, app>>

(* RemoveDriverPackagesForInstance: only the packages of instance 0000 are *)
(* found; without a bound driver there is nothing to delete.               *)
RemovePackage(k) ==
  /\ At("removePackage", k)
  /\ \/ /\ Done
        /\ dev' = [dev EXCEPT ![k] = IF @ \in Bound THEN "bare" ELSE @]
        /\ pkg' = [pkg EXCEPT ![k] = @ /\ dev[k] \notin Bound]
        /\ UNCHANGED <<devicesOnly, extra>>
     \/ Ignored

(* pnputil /add-driver /install: a node that waits for the driver gets it. *)
AddDriver(k) ==
  /\ At("add", k)
  /\ \/ \E s \in IF dev[k] = "absent" THEN {"absent"} ELSE {"started"} :
          /\ Done
          /\ pkg' = [pkg EXCEPT ![k] = TRUE]
          /\ dev' = [dev EXCEPT ![k] = s]
          /\ UNCHANGED <<devicesOnly, extra>>
     \/ /\ nextStep' = nextStep + 1 /\ hurt' = TRUE   \* codes 2, 259, 3010
        /\ pkg' = [pkg EXCEPT ![k] = TRUE]
        /\ UNCHANGED <<onlyOp, failed, devicesOnly, dev, extra>>
     \/ Fails

(* Without a started instance 0000, CreateRootDevice takes the first free  *)
(* number.  DeviceStartedOrOk sees none if its query fails.                *)
CreateNode(k) ==
  /\ At("node", k)
  /\ \/ /\ dev[k] = "started" /\ Done /\ UNCHANGED machineVars
     \/ /\ dev[k] = "absent" /\ Done
        /\ dev' = [dev EXCEPT ![k] = "bare"]
        /\ UNCHANGED <<devicesOnly, extra, pkg>>
     \/ /\ dev[k] # "absent" /\ extra[k] < MaxExtra
        /\ nextStep' = nextStep + 1 /\ hurt' = (hurt \/ dev[k] = "started")
        /\ extra' = [extra EXCEPT ![k] = @ + 1]
        /\ UNCHANGED <<onlyOp, failed, devicesOnly, dev, pkg>>
     \/ Fails

(* UpdateDriverForPlugAndPlayDevices; "no such device" passes.             *)
BindDriver(k) ==
  /\ At("bind", k)
  /\ \/ /\ Done
        /\ dev' = [dev EXCEPT ![k] = IF @ = "absent" THEN @ ELSE "started"]
        /\ UNCHANGED <<devicesOnly, extra, pkg>>
     \/ \E s \in Bound : \* bound, and started or waiting for a reboot
          /\ dev[k] # "absent"
          /\ nextStep' = nextStep + 1 /\ hurt' = TRUE
          /\ dev' = [dev EXCEPT ![k] = s]
          /\ UNCHANGED <<onlyOp, failed, devicesOnly, extra, pkg>>
     \/ Ignored
     \/ Fails

(* pnputil /scan-devices and /restart-device, results ignored.             *)
RestartDevice(k) ==
  /\ At("restart", k)
  /\ \/ /\ Done
        /\ dev' = [dev EXCEPT ![k] = IF @ \in Bound THEN "started" ELSE @]
        /\ UNCHANGED <<devicesOnly, extra, pkg>>
     \/ /\ nextStep' = nextStep + 1 /\ hurt' = TRUE
        /\ dev' = [dev EXCEPT ![k] = IF @ \in Bound THEN "stopped" ELSE @]
        /\ UNCHANGED <<onlyOp, failed, devicesOnly, extra, pkg>>

(* Faulty: goes by the exit code of pnputil alone.                         *)
StartedFaulty(k) == dev[k] # "absent"
(* DeviceStartedOrOk                                                       *)
Started(k) == dev[k] = "started"

VerifyDevice(k) ==
  /\ At("verify", k)
  /\ \/ Started(k) /\ Done /\ UNCHANGED machineVars
     \/ ~Started(k) /\ Refused
     \/ Fails

RemoveNode(k) ==
  /\ At("removeNode", k)
  /\ \/ /\ Done
        /\ dev' = [dev EXCEPT ![k] = "absent"]
        /\ UNCHANGED <<devicesOnly, extra, pkg>>
     \/ Ignored

Devices ==
  \E k \in Kind :
    \/ RemovePackage(k) \/ AddDriver(k) \/ CreateNode(k) \/ BindDriver(k)
    \/ RestartDevice(k) \/ VerifyDevice(k) \/ RemoveNode(k)

-----------------------------------------------------------------------------
(* The registry.  Nobody looks at the results of the writes.               *)

Configure ==
  /\ At("config", "none")
  /\ \/ /\ Done /\ config' = TRUE
        /\ UNCHANGED <<deviceVars, settings, svcVars, app>>
     \/ Ignored

Forget ==
  /\ At("forget", "none")
  /\ \/ /\ Done /\ config' = FALSE /\ settings' = FALSE
        /\ UNCHANGED <<deviceVars, svcVars, app>>
     \/ Ignored

ProcessExe ==
  /\ At("processExe", "none")
  /\ \/ config /\ Done /\ UNCHANGED machineVars
     \/ ~config /\ Refused

-----------------------------------------------------------------------------
(* The service.  A deletion waits for the service to stop.                 *)

svcOnly == <<deviceVars, registryVars, app>>

(* The process of the service has ended.                                   *)
Ended(s) == IF s.marked THEN Absent ELSE [s EXCEPT !.state = "stopped"]

ScStop ==
  /\ At("scStop", "none")
  /\ \/ /\ Done
        /\ svc' = IF svc.state = "running"
                  THEN [svc EXCEPT !.state = "stopping"] ELSE svc
        /\ UNCHANGED <<svcOnly, actions, restart>>
     \/ Ignored

(* taskkill of both programs: to the service manager the service has died. *)
Kill ==
  /\ At("kill", "none")
  /\ \/ /\ Done
        /\ app' = FALSE
        /\ IF svc.state \in {"running", "stopping"}
           THEN svc' = Ended(svc) /\ restart' = (actions /\ ~svc.marked)
           ELSE UNCHANGED <<svc, restart>>
        /\ UNCHANGED <<deviceVars, registryVars, actions>>
     \/ Ignored

(* Faulty: a service that exists is an error.                              *)
CreatesFaulty == svc.state = "absent"
(* 1073, the service exists, is allowed; 1072, it is being deleted, not.   *)
Creates == ~svc.marked

ScCreate ==
  /\ At("scCreate", "none")
  /\ \/ /\ Creates /\ Done
        /\ svc' = IF svc.state = "absent"
                  THEN [svc EXCEPT !.state = "stopped"] ELSE svc
        /\ UNCHANGED <<svcOnly, actions, restart>>
     \/ ~Creates /\ Refused
     \/ Fails

(* config and description                                                  *)
ScConfig ==
  /\ At("scConfig", "none")
  /\ \/ svc.state # "absent" /\ ~svc.marked /\ Done /\ UNCHANGED machineVars
     \/ (svc.state = "absent" \/ svc.marked) /\ Refused
     \/ Fails

(* failure and failureflag, results ignored                                *)
ScFailure ==
  /\ At("scFailure", "none")
  /\ \/ Done /\ actions' = TRUE /\ UNCHANGED <<svcOnly, svc, restart>>
     \/ Ignored

(* 1056 is allowed: also of a service that is still stopping.              *)
ScStart ==
  /\ At("scStart", "none")
  /\ \/ /\ svc.state # "absent" /\ ~svc.marked /\ Done
        /\ svc' = IF svc.state = "stopped"
                  THEN [svc EXCEPT !.state = "running"] ELSE svc
        /\ UNCHANGED <<svcOnly, actions, restart>>
     \/ (svc.state = "absent" \/ svc.marked) /\ Refused
     \/ Fails

(* The uninstallation ignores what the deletion of the service returns.    *)
Tolerated == IF op = "uninstall" THEN Ignored ELSE Fails

ScDelete ==
  /\ At("scDelete", "none")
  /\ \/ /\ ~svc.marked /\ Done
        /\ svc' = IF svc.state \in {"absent", "stopped"} THEN Absent
                  ELSE [svc EXCEPT !.marked = TRUE]
        /\ actions' = (actions /\ svc'.state # "absent")
        /\ restart' = FALSE
        /\ UNCHANGED svcOnly
     \/ /\ svc.marked
        /\ IF op = "uninstall" THEN Done /\ UNCHANGED machineVars ELSE Refused
     \/ Tolerated

ServiceSteps ==
  ScStop \/ Kill \/ ScCreate \/ ScConfig \/ ScFailure \/ ScStart \/ ScDelete

(* Unasked: the service stops, is restarted, dies or comes with a boot.    *)
ServiceEnds ==
  /\ svc.state = "stopping"
  /\ svc' = Ended(svc)
  /\ actions' = (actions /\ ~svc.marked)
  /\ UNCHANGED <<wizardVars, svcOnly, restart, ops, boots>>

ServiceRestarts ==
  /\ restart /\ boots < MaxBoots /\ boots' = boots + 1
  /\ restart' = FALSE
  /\ svc' = IF svc.state = "stopped" THEN [svc EXCEPT !.state = "running"]
            ELSE svc
  /\ UNCHANGED <<wizardVars, svcOnly, actions, ops>>

ServiceBoots ==
  /\ svc.state = "stopped" /\ boots < MaxBoots /\ boots' = boots + 1
  /\ svc' = [svc EXCEPT !.state = "running"]
  /\ UNCHANGED <<wizardVars, svcOnly, actions, restart, ops>>

-----------------------------------------------------------------------------
(* LaunchVirtuaCamInteractive; the watcher may start the application too.  *)

onlyApp == <<deviceVars, registryVars, svcVars>>

AppKill ==
  /\ At("appKill", "none")
  /\ \/ Done /\ app' = FALSE /\ UNCHANGED onlyApp
     \/ Ignored

AppStart ==
  /\ At("appStart", "none")
  /\ \/ Done /\ app' = TRUE /\ UNCHANGED onlyApp
     \/ Fails

AppSeen ==
  /\ At("appSeen", "none")
  /\ \/ app /\ Done /\ UNCHANGED machineVars
     \/ ~app /\ Refused

AppComesOrGoes ==
  /\ boots < MaxBoots /\ boots' = boots + 1
  /\ app' = ~app
  /\ UNCHANGED <<wizardVars, onlyApp, ops>>

-----------------------------------------------------------------------------
(* RunUninstallChecks: what is still there.                                *)
Queries == Kind \cup {"service"}
Remains ==
  {k \in Kind : dev[k] \in Bound}
    \cup {q \in {"service"} : svc.state = "running"}

(* A query that fails or runs out of time counts as one that finds nothing:*)
(* CheckPnpDeviceRemoved then succeeds, and CheckWatcherService, whose     *)
(* result is inverted, does not.                                           *)
Check ==
  /\ At("check", "none")
  /\ \E silent \in SUBSET Queries :
       /\ unseen' = silent /\ hurt' = (hurt \/ silent # {})
       /\ IF Remains \subseteq silent
          THEN nextStep' = nextStep + 1 /\ UNCHANGED failed
          ELSE failed' = TRUE /\ UNCHANGED nextStep
  /\ UNCHANGED <<ui, owner, op, unposted, checkVars, last, log, json,
                 machineVars, ops, boots>>

-----------------------------------------------------------------------------
(* RunFirstRunChecks.  They are shown in the window; the installation has  *)
(* succeeded before and does not fail because of them.                     *)

ThenShow(passes) ==
  /\ nextStep' = nextStep + 1 /\ clean' = (clean /\ passes) /\ reads' = 0
  /\ UNCHANGED <<ui, owner, op, failed, historyVars, unposted, last, log, json,
                 ops, boots>>

(* Every call a check makes may fail for a reason of its own.              *)
Shows(step, what, passes) ==
  /\ At(step, what)
  /\ \E ok \in BOOLEAN : (ok => passes) /\ ThenShow(ok)
  /\ UNCHANGED machineVars

(* A value that is there stays; one that is missing is written and read    *)
(* back (EnsureStringValue, EnsureDwordValue).                             *)
EnsureValue(there, ok) == there \/ ok

EnsureRegistrySettings ==
  /\ At("ensure", "settings")
  /\ \E ok \in BOOLEAN :
       settings' = EnsureValue(settings, ok) /\ ThenShow(ok)
  /\ UNCHANGED <<deviceVars, config, svcVars, app>>

CheckPnpDevice == Shows("look", "device", dev["camera"] = "started")
CheckWatcherService == Shows("look", "service", svc.state = "running")

(* The virtual camera is found by its name: another instance will do.      *)
CameraFound ==
  \/ dev["camera"] = "started"
  \/ pkg["camera"] /\ extra["camera"] > 0

CheckVirtualCameraEnumeration == Shows("look", "camera", CameraFound)
CheckVirtualCameraOpen == Shows("open", "camera", CameraFound)

(* Any microphone of the machine will do.                                  *)
CheckMicEnumeration == Shows("look", "mic", TRUE)
CheckMicOpen == Shows("open", "mic", TRUE)

(* CheckTestFrameOpen opens the camera and waits for a frame, each time for*)
(* a bounded time.                                                         *)
OpenVirtualCameraSource ==
  /\ At("open", "frame") /\ reads = 0
  /\ \/ /\ CameraFound /\ reads' = 1
        /\ UNCHANGED <<ui, owner, op, nextStep, failed, historyVars, unposted,
                       clean, last, log, json, ops, boots>>
     \/ ThenShow(FALSE)
  /\ UNCHANGED machineVars

(* What OnReadSample has left when the wait ends.                          *)
OnReadSample == {"sample", "nothing", "error", "timeout"}

CheckTestFrameOpen ==
  /\ At("open", "frame") /\ reads > 0
  /\ \E answer \in OnReadSample :
       IF answer = "nothing" /\ reads < ReadAttempts
       THEN /\ reads' = reads + 1
            /\ UNCHANGED <<ui, owner, op, nextStep, failed, historyVars,
                           unposted, clean, last, log, json, ops, boots>>
       ELSE ThenShow(answer = "sample")
  /\ UNCHANGED machineVars

FirstRun ==
  \/ EnsureRegistrySettings \/ CheckPnpDevice \/ CheckWatcherService
  \/ CheckVirtualCameraEnumeration \/ CheckVirtualCameraOpen
  \/ CheckMicEnumeration \/ CheckMicOpen
  \/ OpenVirtualCameraSource \/ CheckTestFrameOpen

-----------------------------------------------------------------------------
(* Operations begin and end.  BeginOperationLog forgets the last log.      *)

BeginOperation(o, w) ==
  /\ ~Working /\ ops < MaxOps
  /\ op' = o /\ owner' = w /\ nextStep' = 1
  /\ failed' = FALSE /\ hurt' = FALSE /\ unseen' = {} /\ log' = FALSE
  /\ clean' = TRUE /\ reads' = 0
  /\ ops' = ops + 1
  /\ UNCHANGED <<unposted, last, json, machineVars, boots>>

(* RunUiAction.  Without administrator's rights an installation is handed  *)
(* to an elevated wizard, which reports on its own.                        *)
RunUiAction(o) ==
  /\ ui = "idle"
  /\ o \in {"install", "uninstall", "launch"}
  /\ \/ BeginOperation(o, "worker") /\ ui' = "busy"
     \/ o # "launch" /\ BeginOperation(o, "headless") /\ ui' = "ok"

(* The approval, the memory or the thread is refused.                      *)
ActionRefused ==
  /\ ui = "idle" /\ ops < MaxOps
  /\ ui' = "ok" /\ ops' = ops + 1
  /\ UNCHANGED <<owner, op, nextStep, failed, historyVars, unposted, checkVars,
                 last, log, json, machineVars, boots>>

(* The thread has no memory for the result: it returns without running the *)
(* operation and without a message to the window.                          *)
WorkerGivesUp ==
  /\ ui = "idle" /\ ~Working /\ ops < MaxOps
  /\ ui' = "busy" /\ unposted' = TRUE /\ ops' = ops + 1
  /\ UNCHANGED <<owner, op, nextStep, failed, historyVars, checkVars, last, log,
                 json, machineVars, boots>>

RunHeadless(o) ==
  /\ o # "launch" /\ BeginOperation(o, "headless") /\ UNCHANGED ui

(* Faulty: a failed operation is not posted to the window.                 *)
ReportedFaulty == IF owner = "worker" /\ ~failed THEN "ok" ELSE ui
(* WM_APP_OPERATION_DONE arrives.                                          *)
Reported == IF owner = "worker" /\ ui = "busy" THEN "ok" ELSE ui

(* DiscardOperationLog and RemoveRunJson, or FlushOperationLog and         *)
(* WriteRunJson; a launch writes neither.                                  *)
WriteRunJson == json' = TRUE
RemoveRunJson == json' = FALSE
Files ==
  IF op = "launch" THEN UNCHANGED <<log, json>>
  ELSE /\ log' = failed
       /\ IF failed THEN WriteRunJson ELSE RemoveRunJson

Report ==
  /\ Working /\ Over
  /\ Files
  /\ last' = IF op = "launch" THEN last ELSE IF failed THEN "failed" ELSE "ok"
  /\ \/ ui' = Reported /\ UNCHANGED unposted
     \/ owner = "worker" /\ unposted' = TRUE /\ UNCHANGED ui \* PostMessage
  /\ owner' = "nobody" /\ unseen' = {}
  /\ UNCHANGED <<op, nextStep, failed, hurt, checkVars, machineVars, ops,
                 boots>>

PressOk ==
  /\ ui = "ok" /\ ui' = "idle"
  /\ UNCHANGED <<owner, op, nextStep, failed, historyVars, unposted, checkVars,
                 last, log, json, machineVars, ops, boots>>

(* Escape or the close box: the window's process ends, its worker with it. *)
WindowCloses ==
  /\ ui # "none" /\ ui' = "none" /\ unposted' = FALSE
  /\ IF owner = "worker"
     THEN /\ owner' = "nobody" /\ last' = IF op = "launch" THEN last ELSE "cut"
     ELSE UNCHANGED <<owner, last>>
  /\ UNCHANGED <<op, nextStep, failed, historyVars, checkVars, log, json,
                 machineVars, ops, boots>>

OpensAgain ==
  /\ ui = "none" /\ ui' = "idle" /\ ops < MaxOps
  /\ UNCHANGED <<owner, op, nextStep, failed, historyVars, unposted, checkVars,
                 last, log, json, machineVars, ops, boots>>

-----------------------------------------------------------------------------

Steps ==
  \/ Prerequisite \/ Devices \/ Configure \/ Forget \/ ProcessExe
  \/ ServiceSteps \/ AppKill \/ AppStart \/ AppSeen \/ Check
  \/ FirstRun \/ Report

SetupNext ==
  \/ Steps
  \/ \E o \in Op : RunUiAction(o) \/ RunHeadless(o)
  \/ ActionRefused \/ WorkerGivesUp \/ PressOk \/ WindowCloses \/ OpensAgain
  \/ ServiceEnds \/ ServiceRestarts \/ ServiceBoots \/ AppComesOrGoes

SetupSpec == SetupInit /\ [][SetupNext]_setupVars

(* Every tool has a time limit and system calls return, so that an         *)
(* operation goes on; of UpdateDriverForPlugAndPlayDevices, which has no   *)
(* limit and runs what comes with a driver, nothing is assumed.            *)
Binding == \E k \in Kind : At("bind", k)
SetupFairSpec == SetupSpec /\ WF_setupVars(~Binding /\ Steps)

-----------------------------------------------------------------------------

SetupTypeOK ==
  /\ ui \in {"none", "idle", "busy", "ok"}
  /\ owner \in {"nobody", "worker", "headless"}
  /\ op \in Op /\ nextStep \in 1 .. Len(Program[op]) + 1
  /\ failed \in BOOLEAN /\ hurt \in BOOLEAN
  /\ unseen \subseteq Queries /\ unposted \in BOOLEAN
  /\ clean \in BOOLEAN /\ reads \in 0 .. ReadAttempts
  /\ last \in {"none", "ok", "failed", "cut"}
  /\ log \in BOOLEAN /\ json \in BOOLEAN
  /\ dev \in [Kind -> {"absent", "bare"} \cup Bound]
  /\ extra \in [Kind -> 0 .. MaxExtra]
  /\ pkg \in [Kind -> BOOLEAN]
  /\ config \in BOOLEAN /\ settings \in BOOLEAN /\ svc \in Svc
  /\ svc.state \in {"absent", "stopped"} => ~svc.marked
  /\ actions \in BOOLEAN /\ restart \in BOOLEAN /\ app \in BOOLEAN
  /\ ops \in 0 .. MaxOps /\ boots \in 0 .. MaxBoots

(* What an operation reports as done is done, although most of its tools   *)
(* may fail without ending it.  An installation that succeeds has started  *)
(* both devices and has a service, one that runs if no check in the window *)
(* says otherwise.  An uninstallation that succeeds leaves a driver on a   *)
(* device only if its last check could not look at it; and if no tool and  *)
(* no query has failed, devices, registry entries and service are gone, or *)
(* the service goes as soon as it has stopped.                             *)
SuccessMeansDone ==
  Working /\ Over /\ ~failed =>
    /\ op = "install" =>
         /\ svc.state # "absent" /\ \A k \in Kind : dev[k] = "started"
         /\ clean => svc.state = "running" /\ settings
    /\ op = "uninstall" =>
         /\ \A k \in Kind : dev[k] \in Bound => k \in unseen
         /\ ~hurt => /\ \A k \in Kind : dev[k] = "absent"
                     /\ ~config /\ ~settings
                     /\ svc.state = "absent" \/ svc.marked

(* An installation whose tools all work succeeds, whatever an operation    *)
(* that failed or was cut off has left behind: half a device, a service    *)
(* that is there already, one that is being deleted.                       *)
RetryHeals == Working /\ op = "install" /\ failed => hurt

(* Between operations the report is there exactly when the last one failed *)
(* (of the operations that write one; one that was cut off leaves the      *)
(* report of the one before).                                              *)
ReportMatchesOutcome ==
  ~Working => /\ last = "failed" => json
              /\ last = "ok" => ~json /\ ~log

(* What an operation says in the window, the exit code and the files is    *)
(* true (RunMode).                                                         *)
ReportsAreTrue == SuccessMeansDone /\ ReportMatchesOutcome

(* The window always comes back from an operation, unless the message that *)
(* ends it is lost or Windows never returns from binding a driver.         *)
WindowComesBack ==
  <>[]Binding \/ (ui = "busy" ~> ui # "busy" \/ unposted)
=============================================================================
