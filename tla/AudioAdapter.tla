---------------------------- MODULE AudioAdapter ----------------------------
(***************************************************************************)
(* The microphone driver's adapter (audio-driver-project/Source/Main:      *)
(* adapter.cpp, CAdapterCommon of common.cpp): the driver is loaded and    *)
(* unloaded, a device starts, stops, is removed or disappears while a      *)
(* client records.  What keeps what alive is the subject: the adapter      *)
(* object counts references, the topology miniport has one, the wave       *)
(* miniport has a pointer and no reference, and the cache of subdevices    *)
(* refers to the miniports, so that cache and adapter keep each other      *)
(* alive until Cleanup.                                                    *)
(*                                                                         *)
(* A Device is a device object of the driver; two of them exist when a     *)
(* device comes back before its predecessor has gone, or when the node was *)
(* created twice.  StartDevice is one action per call that may fail, since *)
(* devices start in threads of their own.  There is one capture endpoint   *)
(* and no render endpoint (minipairs.h), and a new adapter's cache is      *)
(* empty: GetCachedSubdevice never finds anything.                         *)
(*                                                                         *)
(* Assumed of the system: IRPs of one device come one at a time; STOP and  *)
(* REMOVE come when no handle is open, SURPRISE_REMOVAL at any time; a     *)
(* failed start is followed by REMOVE; the port class driver keeps the     *)
(* subdevices and the power interface registered with it until STOP or     *)
(* REMOVE has been dispatched.  Left out: power states, mixer registers,   *)
(* the log of events, interface properties and their template.             *)
(***************************************************************************)
EXTENDS Naturals, FiniteSets, Sequences

CONSTANTS
  FeedEnabled,  \* VIRTUACAM_MIC_ENABLE_USERMODE_FEED; the source has it 0
  Device,       \* device objects
  MaxStreams    \* MICARRAY_MAX_INPUT_STREAMS

ASSUME AdapterConstants == FeedEnabled \in BOOLEAN /\ MaxStreams \in Nat

VARIABLES
  driver,       \* "unloaded", "loading" or "loaded"
  owned,        \* what DriverEntry has made and not freed
  instances,    \* CAdapterCommon::m_AdapterInstances
  workItems,    \* CSaveData::m_pWorkItems # NULL
  dev,          \* how far the system is with a device
  pc,           \* where the call in progress for it is
  status,       \* NT_SUCCESS(ntStatus) of its StartDevice
  adapter,      \* the references to its adapter; 0: no adapter
  common,       \* PortClassDeviceContext::m_pCommon # NULL
  power,        \* its power interface is registered
  held,         \* who refers to its filters: port, cache, install
  connected,    \* their bridge pins are connected
  streams,      \* the open streams of its wave filter
  lost          \* history: memory for an adapter was refused

driverVars == <<driver, owned>>
staticVars == <<instances, workItems, lost>>
filterVars == <<held, connected>>
vars ==
  <<driverVars, staticVars, dev, pc, status, adapter, common, power,
    filterVars, streams>>

Filter == {"topology", "wave"}
Holder == {"port", "cache", "install"}
NoHolders == [f \in Filter |-> {}]
Irp == {"stop", "remove", "surprise"}
Starting == {"new", "init", "power", "topology", "wave", "connect", "return"}

(* What DriverEntry makes: a copy of the path of its registry key and the  *)
(* ring of the microphone's bridge, and only in a build with the feed the  *)
(* bridge's control device and the link to it.                             *)
Made ==
  IF FeedEnabled THEN <<"path", "ring", "control", "link">>
  ELSE <<"path", "ring">>

Init ==
  /\ driver = "unloaded" /\ owned = {}
  /\ instances = 0 /\ workItems = FALSE /\ lost = FALSE
  /\ dev = [d \in Device |-> "absent"] /\ pc = [d \in Device |-> "idle"]
  /\ status = [d \in Device |-> TRUE]
  /\ adapter = [d \in Device |-> 0]
  /\ common = [d \in Device |-> FALSE] /\ power = [d \in Device |-> FALSE]
  /\ held = [d \in Device |-> NoHolders]
  /\ connected = [d \in Device |-> FALSE]
  /\ streams = [d \in Device |-> 0]

-----------------------------------------------------------------------------
(* The driver.                                                             *)

(* DriverEntry makes one thing after the other.                            *)
DriverEntryStep ==
  /\ \/ driver = "unloaded" /\ owned = {}
     \/ driver = "loading"
  /\ driver' = "loading"
  /\ \E i \in DOMAIN Made :
       /\ owned = {Made[j] : j \in 1..(i - 1)}
       /\ owned' = owned \cup {Made[i]}
  /\ UNCHANGED <<staticVars, dev, pc, status, adapter, common, power,
                 filterVars, streams>>

DriverEntrySucceeds ==
  /\ driver = "loading" /\ owned = {Made[i] : i \in DOMAIN Made}
  /\ driver' = "loaded"
  /\ UNCHANGED <<owned, staticVars, dev, pc, status, adapter, common, power,
                 filterVars, streams>>

(* VirtuaCamMicBridgeShutdown frees what it finds.                         *)
VirtuaCamMicBridgeShutdown(things) == things \ {"link", "control", "ring"}

(* ReleaseRegistryStringBuffer.                                            *)
ReleaseRegistryStringBuffer(things) == things \ {"path"}

Freed(things) ==
  ReleaseRegistryStringBuffer(VirtuaCamMicBridgeShutdown(things))

(* Whatever fails, the rest of DriverEntry frees what was made.            *)
DriverEntryFails ==
  /\ driver = "loading"
  /\ driver' = "unloaded" /\ owned' = Freed(owned)
  /\ UNCHANGED <<staticVars, dev, pc, status, adapter, common, power,
                 filterVars, streams>>

(* The statics go with the image.                                          *)
DriverUnload ==
  /\ driver = "loaded"
  /\ \A d \in Device : dev[d] = "absent"
  /\ driver' = "unloaded" /\ owned' = Freed(owned)
  /\ instances' = 0 /\ workItems' = FALSE /\ lost' = FALSE
  /\ UNCHANGED <<dev, pc, status, adapter, common, power, filterVars, streams>>

-----------------------------------------------------------------------------
(* References.                                                             *)

One(b) == IF b THEN 1 ELSE 0

(* InterlockedDecrement in ~CAdapterCommon.                                *)
InstancesWithout(n) == n - 1

(* The references to d's adapter become n; with the last one goes the      *)
(* adapter, and ~CAdapterCommon frees the work items.                      *)
SetRefs(d, n) ==
  /\ adapter' = [adapter EXCEPT ![d] = n]
  /\ IF adapter[d] > 0 /\ n = 0
       THEN instances' = InstancesWithout(instances) /\ workItems' = FALSE
       ELSE UNCHANGED <<instances, workItems>>
  /\ UNCHANGED lost

(* What the topology miniport's own reference amounts to.                  *)
TopologyRef(h) == One(h["topology"] # {})

(* h becomes the holders of d's filters, and own references are given up:  *)
(* a topology miniport that nobody holds gives up its own in its           *)
(* destructor.                                                             *)
Release(d, h, own) ==
  /\ held' = [held EXCEPT ![d] = h]
  /\ SetRefs(d, adapter[d] - own - (TopologyRef(held[d]) - TopologyRef(h)))

Without(h, who) == [f \in Filter |-> h[f] \ who]

-----------------------------------------------------------------------------
(* StartDevice.                                                            *)

AddDevice(d) ==
  /\ driver = "loaded" /\ dev[d] = "absent" /\ pc[d] = "idle"
  /\ dev' = [dev EXCEPT ![d] = "added"]
  /\ UNCHANGED <<driverVars, staticVars, pc, status, adapter, common, power,
                 filterVars, streams>>

StartDevice(d) ==
  /\ dev[d] \in {"added", "stopped"} /\ pc[d] = "idle"
  /\ pc' = [pc EXCEPT ![d] = "new"] /\ status' = [status EXCEPT ![d] = TRUE]
  /\ UNCHANGED <<driverVars, staticVars, dev, adapter, common, power,
                 filterVars, streams>>

Goto(d, to, ok) ==
  pc' = [pc EXCEPT ![d] = to] /\ status' = [status EXCEPT ![d] = ok]

(* NewAdapterCommon: only one adapter at a time.  The counter is raised    *)
(* before the memory is asked for and stays so when there is none.         *)
NewAdapterCommon(d) ==
  /\ pc[d] = "new"
  /\ \/ /\ instances # 0
        /\ Goto(d, "return", FALSE)
        /\ UNCHANGED <<adapter, instances, lost>>
     \/ /\ instances = 0
        /\ instances' = 1 /\ lost' = TRUE
        /\ Goto(d, "return", FALSE)
        /\ UNCHANGED adapter
     \/ /\ instances = 0
        /\ instances' = 1
        /\ adapter' = [adapter EXCEPT ![d] = 2]
                                   \* pUnknownCommon and pAdapterCommon
        /\ Goto(d, "init", TRUE)
        /\ UNCHANGED lost
  /\ UNCHANGED <<driverVars, workItems, dev, common, power, filterVars,
                 streams>>

(* InitializeWorkItems may have made its table when it fails.              *)
InitializeWorkItems(ok) ==
  workItems' \in IF ok THEN {TRUE} ELSE {workItems, TRUE}

(* CAdapterCommon::Init, which ends with the work items.                   *)
AdapterInit(d) ==
  /\ pc[d] = "init"
  /\ \E ok \in BOOLEAN :
       /\ InitializeWorkItems(ok)
       /\ Goto(d, IF ok THEN "power" ELSE "return", ok)
  /\ UNCHANGED <<driverVars, instances, lost, dev, adapter, common, power,
                 filterVars, streams>>

(* PcRegisterAdapterPowerManagement.                                       *)
RegisterPower(d) ==
  /\ pc[d] = "power"
  /\ \/ /\ power' = [power EXCEPT ![d] = TRUE]
        /\ SetRefs(d, adapter[d] + 1)
        /\ Goto(d, "topology", TRUE)
     \/ /\ Goto(d, "return", FALSE)
        /\ UNCHANGED <<power, adapter, staticVars>>
  /\ UNCHANGED <<driverVars, dev, common, filterVars, streams>>

(* The references that InstallSubdevice hands to its caller.               *)
HandedOut == {"install"}

(* InstallSubdevice makes a port and a miniport and registers them; every  *)
(* call may fail, and then nothing is left.                                *)
InstallSubdevice(ok) == IF ok THEN {"port"} \cup HandedOut ELSE {}

(* CacheSubdevice, called for what was installed.                          *)
CacheSubdevice(h, ok) == IF h # {} /\ ok THEN h \cup {"cache"} ELSE h

(* InstallEndpointFilters, first the topology filter.  How it went is      *)
(* forgotten: the status is overwritten by the search for the wave filter. *)
InstallTopology(d) ==
  /\ pc[d] = "topology"
  /\ \E installed, cached \in BOOLEAN :
       LET h == CacheSubdevice(InstallSubdevice(installed), cached)
       IN /\ held' = [held EXCEPT ![d]["topology"] = h]
          /\ SetRefs(d, adapter[d] + One(h # {}))
  /\ Goto(d, "wave", TRUE)
  /\ UNCHANGED <<driverVars, dev, common, power, connected, streams>>

InstallWave(d) ==
  /\ pc[d] = "wave"
  /\ \E installed, cached \in BOOLEAN :
       /\ held' = [held EXCEPT ![d]["wave"] =
                     CacheSubdevice(InstallSubdevice(installed), cached)]
       /\ Goto(d, "connect", installed /\ cached)
  /\ UNCHANGED <<driverVars, staticVars, dev, adapter, common, power,
                 connected, streams>>

DisconnectTopologies(d) == [connected EXCEPT ![d] = FALSE]

(* ConnectTopologies connects the pins or, when that fails, disconnects    *)
(* what it has connected.                                                  *)
ConnectTopologies(d, ok) ==
  connected' = IF ok THEN [connected EXCEPT ![d] = TRUE]
               ELSE DisconnectTopologies(d)

UnregisterSubdevice(h) == Without(h, {"port"})

(* Faulty: the record is found, and stays in the list.                     *)
RemoveCachedSubdeviceFaulty(h) == h

RemoveCachedSubdevice(h) == Without(h, {"cache"})

(* The end of InstallEndpointFilters: its own references go, and after a   *)
(* failure both filters are unregistered and removed from the cache.       *)
Settled(h, ok) ==
  Without(IF ok THEN h ELSE RemoveCachedSubdevice(UnregisterSubdevice(h)),
          {"install"})

(* Filters are connected when there are two; the status of that replaces   *)
(* the wave filter's.                                                      *)
ConnectFilters(d) ==
  /\ pc[d] = "connect"
  /\ LET both == \A f \in Filter : held[d][f] # {}
     IN \E ok \in IF both THEN BOOLEAN ELSE {status[d]} :
          /\ IF both THEN ConnectTopologies(d, ok) ELSE UNCHANGED connected
          /\ Release(d, Settled(held[d], ok), 0)
          /\ Goto(d, "return", ok)
  /\ UNCHANGED <<driverVars, dev, common, power, streams>>

(* InstallAllCaptureFilters: the endpoints in turn, and there is one.      *)
InstallAllCaptureFilters(d) ==
  InstallTopology(d) \/ InstallWave(d) \/ ConnectFilters(d)

(* Faulty: pAdapterCommon is released as well.                             *)
ReleasedAtReturnFaulty == 2

(* pUnknownCommon; pAdapterCommon is passed on to m_pCommon.               *)
ReleasedAtReturn == 1

(* The end of StartDevice.                                                 *)
StartReturns(d) ==
  /\ pc[d] = "return"
  /\ IF adapter[d] > 0
       THEN /\ common' = [common EXCEPT ![d] = TRUE]
            /\ SetRefs(d, adapter[d] - ReleasedAtReturn)
       ELSE UNCHANGED <<common, adapter, staticVars>>
  /\ dev' = [dev EXCEPT ![d] = IF status[d] THEN "started" ELSE "failed"]
  /\ pc' = [pc EXCEPT ![d] = "idle"]
  /\ UNCHANGED <<driverVars, status, power, filterVars, streams>>

-----------------------------------------------------------------------------
(* PnpHandler and the clients.                                             *)

MayCome(d, irp) ==
  CASE irp = "stop"     -> dev[d] = "started" /\ streams[d] = 0
    [] irp = "surprise" -> dev[d] = "started"
    [] irp = "remove"   -> dev[d] # "absent" /\ streams[d] = 0

(* Faulty: the list is emptied, its records keep their references.         *)
EmptySubdeviceCacheFaulty(h) == h

(* EmptySubdeviceCache.                                                    *)
EmptySubdeviceCache(h) == Without(h, {"cache"})

(* Cleanup, and m_pCommon is released.                                     *)
PnpHandler(d, irp) ==
  /\ pc[d] = "idle" /\ MayCome(d, irp)
  /\ IF common[d]
       THEN Release(d, EmptySubdeviceCache(held[d]), 1)
       ELSE UNCHANGED <<held, adapter, staticVars>>
  /\ common' = [common EXCEPT ![d] = FALSE]
  /\ pc' = [pc EXCEPT ![d] = irp]
  /\ UNCHANGED <<driverVars, dev, status, power, connected, streams>>

(* PcDispatchIrp.                                                          *)
PcDispatchIrp(d) ==
  /\ pc[d] \in Irp
  /\ IF pc[d] = "surprise"
       THEN UNCHANGED <<held, connected, power, adapter, staticVars>>
       ELSE /\ Release(d, Without(held[d], {"port"}), One(power[d]))
            /\ connected' = [connected EXCEPT ![d] = FALSE]
            /\ power' = [power EXCEPT ![d] = FALSE]
  /\ dev' = [dev EXCEPT ![d] = CASE pc[d] = "stop"     -> "stopped"
                                 [] pc[d] = "surprise" -> "surprise"
                                 [] pc[d] = "remove"   -> "absent"]
  /\ pc' = [pc EXCEPT ![d] = "idle"]
  /\ UNCHANGED <<driverVars, status, common, streams>>

OpenStream(d) ==
  /\ dev[d] = "started" /\ pc[d] = "idle" /\ "port" \in held[d]["wave"]
  /\ streams[d] < MaxStreams
  /\ streams' = [streams EXCEPT ![d] = @ + 1]
  /\ UNCHANGED <<driverVars, staticVars, dev, pc, status, adapter, common,
                 power, filterVars>>

CloseStream(d) ==
  /\ streams[d] > 0
  /\ streams' = [streams EXCEPT ![d] = @ - 1]
  /\ UNCHANGED <<driverVars, staticVars, dev, pc, status, adapter, common,
                 power, filterVars>>

Next ==
  \/ DriverEntryStep \/ DriverEntrySucceeds \/ DriverEntryFails
  \/ DriverUnload
  \/ \E d \in Device :
       \/ AddDevice(d) \/ StartDevice(d)
       \/ NewAdapterCommon(d) \/ AdapterInit(d) \/ RegisterPower(d)
       \/ InstallAllCaptureFilters(d) \/ StartReturns(d)
       \/ \E irp \in Irp : PnpHandler(d, irp)
       \/ PcDispatchIrp(d)
       \/ OpenStream(d) \/ CloseStream(d)

Spec == Init /\ [][Next]_vars

-----------------------------------------------------------------------------
(* Properties.                                                             *)

TypeOK ==
  /\ driver \in {"unloaded", "loading", "loaded"}
  /\ owned \subseteq {Made[i] : i \in DOMAIN Made}
  /\ instances \in Nat /\ workItems \in BOOLEAN /\ lost \in BOOLEAN
  /\ dev \in [Device -> {"absent", "added", "started", "failed", "stopped",
                         "surprise"}]
  /\ pc \in [Device -> {"idle"} \cup Starting \cup Irp]
  /\ status \in [Device -> BOOLEAN]
  /\ adapter \in [Device -> Nat]
  /\ common \in [Device -> BOOLEAN] /\ power \in [Device -> BOOLEAN]
  /\ held \in [Device -> [Filter -> SUBSET Holder]]
  /\ connected \in [Device -> BOOLEAN]
  /\ streams \in [Device -> Nat]

(* Whoever has a pointer to an adapter finds it alive: the device          *)
(* extension, the port class driver, the topology miniport, and, without a *)
(* reference of its own, a stream, whose timer reports to the adapter      *)
(* (TimerNotifyRT) even when the device has been pulled.                   *)
HeldAdapterLives ==
  \A d \in Device :
    \/ common[d] \/ power[d] \/ held[d]["topology"] # {} \/ streams[d] > 0
    => adapter[d] > 0

(* There is at most one adapter, and the counter that says so is that of   *)
(* the adapters alive, unless memory for one was refused; the work items   *)
(* they share go with the last one.                                        *)
AdaptersCounted ==
  LET alive == {d \in Device : adapter[d] > 0}
  IN /\ Cardinality(alive) <= 1
     /\ instances = IF lost THEN 1 ELSE Cardinality(alive)
     /\ workItems => alive # {}

(* The adapter lives exactly as long as it has to (common.cpp:345 to 454). *)
AdapterKept == HeldAdapterLives /\ AdaptersCounted

(* A device that started has its wave filter, connected to the topology    *)
(* filter if that one could be installed; one that could not start has     *)
(* left no filter behind, whatever failed.                                 *)
EndpointIsAllOrNothing ==
  \A d \in Device :
    /\ dev[d] = "started" /\ pc[d] = "idle" =>
         /\ "port" \in held[d]["wave"]
         /\ connected[d] <=> "port" \in held[d]["topology"]
    /\ dev[d] = "failed" => held[d] = NoHolders

(* A device that is gone has left nothing: cache and adapter do not keep   *)
(* each other alive.  Nor has a driver that is unloaded, or that could not *)
(* be loaded.                                                              *)
GoneLeavesNothing ==
  /\ \A d \in Device :
       dev[d] = "absent" =>
         adapter[d] = 0 /\ held[d] = NoHolders /\ ~common[d] /\ ~power[d]
  /\ driver = "unloaded" => owned = {} /\ ~workItems
=============================================================================
