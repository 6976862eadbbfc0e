---------------------------- MODULE DriverBridge ----------------------------
(* The driver bridge of the host program (DriverBridge.cpp), the part of   *)
(* the application loop that drives it (App.cpp), and the camera driver as *)
(* the bridge sees it through its property set.                            *)
(*                                                                         *)
(* The program's window thread makes every call, one at a time.  SendFrame *)
(* is a sequence of steps, one per call into the driver or the GPU, and    *)
(* the driver, the GPU and the device may change between any two of them.  *)
(* An upload is one step: what happens inside is the subject of HwSim.     *)
EXTENDS Integers, Sequences

CONSTANTS
  Size,          \* picture sizes: of the aspects, and of camera streams
  Area,          \* Area[s]: pixels of a picture of size s
  DefaultSize,   \* the size the bridge and the driver begin with
  Stream,        \* geometries a camera client may open: [size, format]
  PoolSize,      \* kDriverReadbackPoolSize
  NoSize,        \* not a size: a texture that does not exist
  Events         \* what else may happen: see Event

Format == {"rgb32", "nv12", "other"}
Event == {"pause", "removal", "policy", "exit", "heartbeat", "busy"}

ASSUME SizeAssumption ==
  /\ Area \in [Size -> Nat]
  /\ DefaultSize \in Size
  /\ NoSize \notin Size
ASSUME StreamAssumption == Stream \subseteq [size : Size, format : Format]
ASSUME PoolAssumption == PoolSize \in Nat \ {0}
ASSUME EventAssumption == Events \subseteq Event

NoStream == [size |-> NoSize, format |-> "unknown"]

(* A readback pool: the size of its textures, and its slots, the one that  *)
(* was written longest ago first.  A slot is empty (hasCopy is false), or  *)
(* holds a copy the GPU still draws or has drawn.                          *)
NoPool == [size |-> NoSize, slots |-> <<>>]
Slot == {"empty", "drawing", "ready"}
EmptySlot == "empty"
Pool == [size : Size \cup {NoSize},
         slots : UNION {[1..n -> Slot] : n \in {0, PoolSize}}]

VARIABLES
  drv,      \* the driver and its hardware
  bridge,   \* the fields of the DriverBridge object
  call,     \* the call of SendFrame that is under way
  app       \* what the application loop keeps

vars == <<drv, bridge, call, app>>

(* What a camera shows: the placeholder (SetDataAcceptedCount is 0), a     *)
(* picture of the broker's, or rows of a picture of another size.          *)
Picture == {"placeholder", "picture", "garbled"}

Driver ==
  [present : BOOLEAN,                          \* the device is there
   hw      : {"stopped", "paused", "running"}, \* m_HardwareState
   client  : BOOLEAN,                          \* m_ClientConnected
   late    : BOOLEAN,                          \* m_LastFrameTime is too long ago
   stream  : Stream \cup {NoStream},           \* m_Width, m_Height, m_OutputFormat
   shown   : Picture,
   policy  : Size]                             \* the preferred aspect

Bridge ==
  [handle    : {"none", "open", "stale"},   \* m_driverHandle, m_propertySet
   waiting   : BOOLEAN,                     \* m_nextDriverProbeTick lies ahead
   connected : BOOLEAN,                     \* m_connected
   pending   : BOOLEAN,                     \* m_hasPendingAspectPolicy
   wanted    : Size,                        \* m_pendingPreferredMode
   out       : [size : Size, format : Format \cup {"unknown"}],
   canvas    : Size \cup {NoSize},          \* m_scaledTexture
   bgra      : Pool,                        \* m_bgraReadbackSlots
   nv12      : Pool,                        \* m_nv12ReadbackSlots
   frameEx   : {"unknown", "yes", "no"}]    \* m_frameExSupported

(* pc    "exited" (no program), "idle", or the next step of SendFrame      *)
(* path  how the picture goes: FrameEx of a BGRA or NV12 copy, the same    *)
(*       BGRA copy again as BGR24, or a BGRA copy of its own as BGR24      *)
(* reason, recoverable: of the BGR24 upload that failed                    *)
Call ==
  [pc    : {"exited", "idle", "policy", "connect", "prepare", "map", "upload",
            "status", "reinitialize"},
   path  : {"none", "bgra", "nv12", "again", "legacy"},
   reason : {"none", "notRunning", "notConnected", "other"},
   recoverable : BOOLEAN]

NoCall == [pc |-> "idle", path |-> "none",
           reason |-> "none", recoverable |-> FALSE]

(* live: the broker's source is Connected; unsent: its frame value is not  *)
(* s_lastSentFrameValue, or there is no source and the default feed, which *)
(* is sent every time, is shown.                                           *)
App == [live : BOOLEAN, unsent : BOOLEAN]

TypeOK ==
  /\ drv \in Driver
  /\ bridge \in Bridge
  /\ call \in Call
  /\ app \in App

FreshBridge ==
  [handle |-> "none", waiting |-> FALSE, connected |-> FALSE,
   pending |-> FALSE, wanted |-> DefaultSize,
   out |-> [size |-> DefaultSize, format |-> "unknown"], canvas |-> NoSize,
   bgra |-> NoPool, nv12 |-> NoPool, frameEx |-> "unknown"]

Init ==
  /\ drv = [present |-> TRUE, hw |-> "stopped", client |-> FALSE,
            late |-> FALSE, stream |-> NoStream, shown |-> "placeholder",
            policy |-> DefaultSize]
  /\ bridge = FreshBridge
  /\ call = [NoCall EXCEPT !.pc = "exited"]
  /\ app = [live |-> FALSE, unsent |-> TRUE]

-----------------------------------------------------------------------------
(* The driver's side.                                                      *)

Streaming == drv.hw = "running"
Reachable == bridge.handle = "open"

(* SetClientConnected.                                                     *)
ClientSet(d, connected) == [d EXCEPT !.client = connected, !.late = FALSE]

(* Start: its counters begin anew, the reason of the last refusal among    *)
(* them.                                                                   *)
CameraStarts ==
  /\ drv.present /\ drv.hw = "stopped"
  /\ \E s \in Stream :
       drv' = [drv EXCEPT !.hw = "running", !.stream = s,
                          !.shown = "placeholder", !.late = FALSE]
  /\ call' = [call EXCEPT !.reason = "none"]
  /\ UNCHANGED <<bridge, app>>

CameraPauses ==
  /\ "pause" \in Events /\ drv.hw = "running"
  /\ drv' = [drv EXCEPT !.hw = "paused"]
  /\ UNCHANGED <<bridge, call, app>>

CameraResumes ==
  /\ drv.hw = "paused"
  /\ drv' = [drv EXCEPT !.hw = "running", !.late = FALSE]
  /\ UNCHANGED <<bridge, call, app>>

(* Stop.  What it leaves of stream and picture nobody reads before the     *)
(* next Start.                                                             *)
CameraStops ==
  /\ drv.hw # "stopped"
  /\ drv' = [drv EXCEPT !.hw = "stopped", !.stream = NoStream,
                        !.shown = "placeholder", !.late = FALSE]
  /\ UNCHANGED <<bridge, call, app>>

(* No frame for the time of the heartbeat: calls are shorter than that.    *)
HeartbeatElapses ==
  /\ "heartbeat" \in Events
  /\ call.pc \in {"exited", "idle"}
  /\ Streaming /\ drv.client /\ ~drv.late /\ drv.shown # "placeholder"
  /\ drv' = [drv EXCEPT !.late = TRUE]
  /\ UNCHANGED <<bridge, call, app>>

(* The DPC declares the client gone, if it has ever sent a frame.          *)
HeartbeatTimesOut ==
  /\ Streaming /\ drv.late /\ drv.shown # "placeholder"
  /\ drv' = ClientSet(drv, FALSE)
  /\ UNCHANGED <<bridge, call, app>>

(* The device is removed, or its driver replaced: handles that are open    *)
(* stay, and every call on them fails.                                     *)
DeviceLeaves ==
  /\ "removal" \in Events /\ drv.present
  /\ drv' = [drv EXCEPT !.present = FALSE, !.hw = "stopped",
                        !.client = FALSE, !.late = FALSE,
                        !.stream = NoStream, !.shown = "placeholder"]
  /\ bridge' = [bridge EXCEPT !.handle = IF @ = "open" THEN "stale" ELSE @]
  /\ UNCHANGED <<call, app>>

DeviceArrives ==
  /\ ~drv.present
  /\ drv' = [drv EXCEPT !.present = TRUE, !.policy = DefaultSize]
  /\ UNCHANGED <<bridge, call, app>>

-----------------------------------------------------------------------------
(* The bridge's resources.                                                 *)

(* Faulty: forgets the pool of NV12 copies.                                *)
DiscardFaulty(b) == [b EXCEPT !.canvas = NoSize, !.bgra = NoPool]

(* The textures go, and with them ResetReadbackPools and                   *)
(* ResetFrameExResources.                                                  *)
Discard(b) == [b EXCEPT !.canvas = NoSize, !.bgra = NoPool, !.nv12 = NoPool]

(* EnsureReadbackPool.                                                     *)
EmptyPool(size) ==
  [size |-> size, slots |-> [i \in 1..PoolSize |-> EmptySlot]]

(* EnsureGpuResources.                                                     *)
WithCanvas(b) ==
  IF b.canvas = b.out.size /\ b.bgra # NoPool THEN b
  ELSE [Discard(b) EXCEPT !.canvas = b.out.size,
                          !.bgra = EmptyPool(b.out.size)]

(* EnsureNv12Resources, when it succeeds.                                  *)
WithNv12(b) ==
  IF b.nv12 # NoPool THEN b ELSE [b EXCEPT !.nv12 = EmptyPool(b.out.size)]

(* The first half of QueueReadbackAndMapReady: a copy into the slot that   *)
(* was written longest ago.                                                *)
Queued(pool) ==
  [pool EXCEPT !.slots = Append(Tail(@), "drawing")]

(* Of the filters that know the property set the one with the best path;   *)
(* there is one camera, and it is found in either category.                *)
FindDriverFilter == IF drv.present THEN "open" ELSE "none"

(* EnsurePropertySetReady: it has failed if there is still no handle.      *)
Probed(b) ==
  IF b.handle # "none" \/ b.waiting THEN b
  ELSE [b EXCEPT !.handle = FindDriverFilter,
                 !.waiting = FindDriverFilter = "none"]

(* The handle, the control and the property set are three ways to one      *)
(* device, tried in turn: the driver takes a property, d describes it      *)
(* afterwards, or all three fail.                                          *)
SetDriverProperty(d) == drv' = IF Reachable THEN d ELSE drv

(* The status, which nobody tells from that of an idle driver if it cannot *)
(* be read.                                                                *)
GetDriverProperty ==
  IF Reachable THEN drv ELSE [drv EXCEPT !.hw = "stopped", !.client = FALSE]

IsPropertySetSupported == Reachable

(* Allowed and preferred aspects.                                          *)
ApplyDriverAspectProperties(mode) == [drv EXCEPT !.policy = mode]

(* What ApplyAspectPolicyNow does once the driver has taken the policy.    *)
Resized(b) ==
  IF b.out.size = b.wanted THEN b
  ELSE [Discard(b) EXCEPT !.out.size = b.wanted]

(* Faulty: the geometry is read once.                                      *)
RefreshedFaulty(b) == b

(* RefreshDriverGeometry: only a stream that runs for a connected client   *)
(* counts.                                                                 *)
Refreshed(b) ==
  LET status == GetDriverProperty
  IN IF status.hw # "running" \/ ~status.client \/ b.out = status.stream
     THEN b
     ELSE [Discard(b) EXCEPT !.out = status.stream]

(* IsFrameExSupported asks the driver once.                                *)
FrameExKnown(b) ==
  IF b.frameEx # "unknown" THEN b
  ELSE [b EXCEPT !.frameEx =
                      IF IsPropertySetSupported THEN "yes" ELSE "no"]

(* CanUseFrameEx, and the order in which SendFrame tries the formats.      *)
FirstPath(b) ==
  IF b.frameEx = "yes" /\ b.out.format = "rgb32" THEN "bgra"
  ELSE IF b.frameEx = "yes" /\ b.out.format = "nv12" THEN "nv12"
  ELSE "legacy"

(* Faulty: forgets the pending policy as well.                             *)
ReinitializedFaulty(b) == [FreshBridge EXCEPT !.out.size = b.out.size]

(* Shutdown and Initialize: the size and the pending policy stay.          *)
Reinitialized(b) ==
  [FreshBridge EXCEPT !.pending = b.pending, !.wanted = b.wanted,
                      !.out.size = b.out.size]

-----------------------------------------------------------------------------
(* SendFrame, called by TrySendBrokerFrameToDriver for the default feed    *)
(* and for a frame of the source that was not sent yet.  Without a handle  *)
(* it returns at once (PollDriver).                                        *)

Return == call' = NoCall
Goto(pc) == call' = [call EXCEPT !.pc = pc]

BeginSend ==
  /\ call.pc = "idle" /\ (app.live => app.unsent)
  /\ bridge' = Probed(bridge)
  /\ bridge'.handle # "none"
  /\ Goto("policy")
  /\ UNCHANGED <<drv, app>>

(* ApplyPendingAspectPolicyIfIdle.  A driver that does not answer counts   *)
(* as idle, and what is pending is forgotten before it is sent.            *)
ClientActive == GetDriverProperty.hw # "stopped"

KeepPolicy ==
  /\ call.pc = "policy" /\ (bridge.pending => ClientActive)
  /\ Goto("connect")
  /\ UNCHANGED <<drv, bridge, app>>

ApplyPendingPolicy ==
  /\ call.pc = "policy" /\ bridge.pending /\ ~ClientActive
  /\ IF Reachable
     THEN /\ SetDriverProperty(ApplyDriverAspectProperties(bridge.wanted))
          /\ bridge' = [Resized(bridge) EXCEPT !.pending = FALSE]
          /\ Goto("connect")
     ELSE /\ bridge' = [bridge EXCEPT !.pending = FALSE]
          /\ Return
          /\ UNCHANGED drv
  /\ UNCHANGED app

Connect ==
  /\ call.pc = "connect"
  /\ IF bridge.connected
     THEN Goto("prepare") /\ UNCHANGED <<drv, bridge>>
     ELSE IF Reachable
     THEN /\ SetDriverProperty(ClientSet(drv, TRUE))
          /\ bridge' = [bridge EXCEPT !.connected = TRUE]
          /\ Goto("prepare")
     ELSE Return /\ UNCHANGED <<drv, bridge>>
  /\ UNCHANGED app

(* From RefreshDriverGeometry to the copy into a readback slot.            *)
Prepared == FrameExKnown(WithCanvas(Refreshed(bridge)))

StartMap(path) == call' = [call EXCEPT !.pc = "map", !.path = path]

Prepare ==
  /\ call.pc = "prepare"
  /\ FirstPath(Prepared) # "nv12"
  /\ bridge' = [Prepared EXCEPT !.bgra = Queued(@)]
  /\ StartMap(FirstPath(Prepared))
  /\ UNCHANGED <<drv, app>>

PrepareNv12 ==
  /\ call.pc = "prepare"
  /\ FirstPath(Prepared) = "nv12"
  /\ bridge' = [WithNv12(Prepared) EXCEPT !.nv12 = Queued(@)]
  /\ StartMap("nv12")
  /\ UNCHANGED <<drv, app>>

(* The resources of the video processor cannot be had, or its blit fails.  *)
Nv12Fails ==
  /\ call.pc = "prepare"
  /\ FirstPath(Prepared) = "nv12"
  /\ \E b \in {Prepared, WithNv12(Prepared)} :
       bridge' = [b EXCEPT !.bgra = Queued(@)]
  /\ StartMap("legacy")
  /\ UNCHANGED <<drv, app>>

(* The second half of QueueReadbackAndMapReady: of the slots that hold a   *)
(* copy, the one that was written longest ago and is drawn.                *)
PoolOf(path) == IF path = "nv12" THEN bridge.nv12 ELSE bridge.bgra
Slots == PoolOf(call.path).slots
Ready == {i \in DOMAIN Slots : Slots[i] = "ready"}

MapCopy ==
  /\ call.pc = "map"
  /\ \E i \in Ready :
       /\ \A j \in Ready : i <= j
       /\ bridge' = IF call.path = "nv12"
                    THEN [bridge EXCEPT !.nv12.slots[i] = EmptySlot]
                    ELSE [bridge EXCEPT !.bgra.slots[i] = EmptySlot]
  /\ Goto("upload")
  /\ UNCHANGED <<drv, app>>

(* What SendFrame does when another path has failed: a copy as BGRA, to    *)
(* be sent as BGR24.                                                       *)
FallBack(b) ==
  /\ bridge' = [b EXCEPT !.bgra = Queued(@)]
  /\ call' = [NoCall EXCEPT !.pc = "map", !.path = "legacy"]

NoCopyReady ==
  /\ call.pc = "map"
  /\ Ready = {}
  /\ IF call.path = "nv12" THEN FallBack(bridge)
                           ELSE Return /\ UNCHANGED bridge
  /\ UNCHANGED <<drv, app>>

(* SetData and SetFrameEx in the driver: when they take a picture.  A      *)
(* BGR24 picture comes without a size, and only its length is checked.     *)
Takes == Reachable /\ Streaming /\ drv.client
TakesFrameEx ==
  /\ Takes
  /\ bridge.out.size = drv.stream.size
  /\ drv.stream.format = IF call.path = "nv12" THEN "nv12" ELSE "rgb32"
TakesBgr24 == Takes /\ Area[bridge.out.size] >= Area[drv.stream.size]

(* A reader may be in the way when a picture is to be published.           *)
Busy == "busy" \in Events

Uploaded(picture) ==
  /\ drv' = [drv EXCEPT !.shown = picture, !.late = FALSE]
  /\ app' = [app EXCEPT !.unsent = ~app.live]
  /\ Return
  /\ UNCHANGED bridge

UploadFrameEx ==
  /\ call.pc = "upload" /\ call.path \in {"bgra", "nv12"}
  /\ TakesFrameEx
  /\ Uploaded("picture")

(* A BGRA copy is tried again as BGR24.                                    *)
FrameExRefused ==
  /\ call.pc = "upload" /\ call.path \in {"bgra", "nv12"}
  /\ TakesFrameEx => Busy
  /\ IF call.path = "nv12"
     THEN FallBack(bridge)
     ELSE call' = [call EXCEPT !.path = "again"] /\ UNCHANGED bridge
  /\ UNCHANGED <<drv, app>>

UploadBgr24 ==
  /\ call.pc = "upload" /\ call.path \in {"again", "legacy"}
  /\ TakesBgr24
  /\ Uploaded(IF bridge.out.size = drv.stream.size THEN "picture"
                                                   ELSE "garbled")

RefusalReason ==
  IF ~Streaming THEN "notRunning"
  ELSE IF ~drv.client THEN "notConnected"
  ELSE "other"

(* IsRecoverableSendFailure, of the status that the reason is mapped to or *)
(* of a handle that has gone stale.                                        *)
Recoverable == ~Reachable \/ RefusalReason # "other"

Bgr24Refused ==
  /\ call.pc = "upload" /\ call.path \in {"again", "legacy"}
  /\ TakesBgr24 => Busy
  /\ call' = [call EXCEPT !.pc = "status",
                          !.reason = IF Reachable THEN RefusalReason ELSE @,
                          !.recoverable = Recoverable]
  /\ UNCHANGED <<drv, bridge, app>>

(* UploadMappedFrame asks the driver why.  A driver that only warms up is  *)
(* no reason to begin anew.                                                *)
NotedRefusal(b) ==
  IF Reachable /\ call.reason = "notConnected"
  THEN [b EXCEPT !.connected = FALSE] ELSE b

WarmsUp ==
  /\ Reachable
  /\ \/ call.reason \in {"notRunning", "notConnected"}
     \/ drv.shown = "placeholder" /\ ~Streaming

ReadStatus ==
  /\ call.pc = "status"
  /\ IF call.path = "again" THEN FallBack(NotedRefusal(bridge))
     ELSE /\ bridge' = NotedRefusal(bridge)
          /\ IF call.recoverable /\ ~WarmsUp THEN Goto("reinitialize")
                                             ELSE Return
  /\ UNCHANGED <<drv, app>>

Disconnect ==
  SetDriverProperty(IF bridge.connected THEN ClientSet(drv, FALSE) ELSE drv)

(* ReinitializeAfterFailure, Disconnect first.                             *)
Reinitialize ==
  /\ call.pc = "reinitialize"
  /\ Disconnect
  /\ bridge' = Reinitialized(bridge)
  /\ Return
  /\ UNCHANGED app

Continue ==
  \/ KeepPolicy \/ ApplyPendingPolicy \/ Connect
  \/ Prepare \/ PrepareNv12 \/ Nv12Fails
  \/ MapCopy \/ NoCopyReady
  \/ UploadFrameEx \/ FrameExRefused \/ UploadBgr24 \/ Bgr24Refused
  \/ ReadStatus \/ Reinitialize

-----------------------------------------------------------------------------
(* The GPU executes the copies into each pool in their order; how far it   *)
(* is matters where a call looks at them.                                  *)

Drawn(pool) ==
  [pool EXCEPT !.slots = [i \in DOMAIN @ |->
                            IF @[i] = "drawing" THEN "ready" ELSE @[i]]]

IsOldestDrawing(pool, i) ==
  /\ pool.slots[i] = "drawing"
  /\ \A j \in 1..(i - 1) : pool.slots[j] # "drawing"

GpuFinishesCopy ==
  /\ call.pc = "map"
  /\ \/ \E i \in DOMAIN bridge.bgra.slots :
          /\ IsOldestDrawing(bridge.bgra, i)
          /\ bridge' = [bridge EXCEPT !.bgra.slots[i] = "ready"]
     \/ \E i \in DOMAIN bridge.nv12.slots :
          /\ IsOldestDrawing(bridge.nv12, i)
          /\ bridge' = [bridge EXCEPT !.nv12.slots[i] = "ready"]
  /\ UNCHANGED <<drv, call, app>>

(* Between two calls it has finished everything.                           *)
GpuCatchesUp ==
  /\ call.pc = "idle"
  /\ bridge' = [bridge EXCEPT !.bgra = Drawn(@), !.nv12 = Drawn(@)]
  /\ bridge' # bridge
  /\ UNCHANGED <<drv, call, app>>

-----------------------------------------------------------------------------
(* The application.                                                        *)

(* GetDriverBridgeStatus, each time the loop is idle, and the back-off of  *)
(* a probe that found no driver.                                           *)
PollDriver ==
  /\ call.pc = "idle"
  /\ bridge' = Probed(bridge)
  /\ bridge' # bridge
  /\ UNCHANGED <<drv, call, app>>

ProbeTimePasses ==
  /\ bridge.waiting
  /\ bridge' = [bridge EXCEPT !.waiting = FALSE]
  /\ UNCHANGED <<drv, call, app>>

(* A new frame of the broker.                                              *)
NewFrame ==
  /\ call.pc = "idle" /\ app.live
  /\ app' = [app EXCEPT !.unsent = TRUE]
  /\ UNCHANGED <<drv, bridge, call>>

SourceChanges ==
  /\ call.pc = "idle"
  /\ app' = [live |-> ~app.live, unsent |-> TRUE]
  /\ UNCHANGED <<drv, bridge, call>>

(* ApplyDriverAspectPolicy: SetAspectPolicy, and Disconnect if that        *)
(* succeeded.  A driver in use gets the properties only; the bridge's own  *)
(* size follows when the camera was closed.                                *)
PolicySet(b) ==
  LET staged == Probed([b EXCEPT !.pending = TRUE])
      taken  == [staged EXCEPT !.connected = FALSE]
  IN IF staged.handle # "open"
     THEN bridge' = staged /\ UNCHANGED drv
     ELSE /\ drv' = [(IF b.connected THEN ClientSet(drv, FALSE) ELSE drv)
                       EXCEPT !.policy = b.wanted]
          /\ bridge' = IF drv.hw # "stopped" THEN taken
                       ELSE [Resized(taken) EXCEPT !.pending = FALSE]

SelectAspect ==
  /\ "policy" \in Events /\ call.pc = "idle"
  /\ \E s \in Size : PolicySet([bridge EXCEPT !.wanted = s])
  /\ UNCHANGED <<call, app>>

(* The settings are kept on disk.                                          *)
SavedSettings == [FreshBridge EXCEPT !.wanted = bridge.wanted]

Launch ==
  /\ call.pc = "exited"
  /\ PolicySet(SavedSettings)
  /\ app' = [live |-> FALSE, unsent |-> TRUE]
  /\ Return

(* ShutdownSystem, Disconnect first.                                       *)
Exit ==
  /\ "exit" \in Events /\ call.pc = "idle"
  /\ Disconnect
  /\ bridge' = SavedSettings
  /\ call' = [NoCall EXCEPT !.pc = "exited"]
  /\ UNCHANGED app

Crash ==
  /\ "exit" \in Events /\ call.pc # "exited"
  /\ bridge' = SavedSettings
  /\ call' = [NoCall EXCEPT !.pc = "exited"]
  /\ UNCHANGED <<drv, app>>

Environment ==
  \/ CameraStarts \/ CameraPauses \/ CameraResumes \/ CameraStops
  \/ HeartbeatElapses \/ HeartbeatTimesOut
  \/ DeviceLeaves \/ DeviceArrives
  \/ GpuFinishesCopy \/ GpuCatchesUp
  \/ NewFrame \/ SourceChanges \/ SelectAspect \/ Launch \/ Exit \/ Crash

Next ==
  \/ Environment
  \/ PollDriver \/ ProbeTimePasses \/ BeginSend
  \/ Continue

Spec == Init /\ [][Next]_vars

(* The loop runs, time passes, a call comes to its end, the GPU is often   *)
(* enough done when the next one begins, and readers are not in the way    *)
(* for ever.                                                               *)
Fairness ==
  /\ WF_vars(PollDriver) /\ WF_vars(ProbeTimePasses)
  /\ SF_vars(BeginSend) /\ WF_vars(Continue)
  /\ SF_vars(GpuCatchesUp)
  /\ SF_vars(UploadFrameEx \/ UploadBgr24)

FairSpec == Spec /\ Fairness

-----------------------------------------------------------------------------
(* Safety.                                                                 *)

(* QueueReadbackAndMapReady copies between textures of one size, and       *)
(* UploadMappedFrame and its FrameEx forms find in the mapped texture what *)
(* they read, m_outputWidth by m_outputHeight pixels, whatever changed the *)
(* geometry before.                                                        *)
CopiesFit ==
  call.pc \in {"map", "upload"} =>
    /\ bridge.canvas = bridge.out.size
    /\ PoolOf(call.path).size = bridge.out.size

(* An aspect policy that was staged is forgotten only when the driver has  *)
(* it, but for ApplyPendingAspectPolicyIfIdle on a stale handle.           *)
PolicyReachesDriver ==
  [][bridge.pending /\ ~bridge'.pending /\ call'.pc # "exited"
       => \/ drv'.policy = bridge'.wanted
          \/ call.pc = "policy" /\ bridge.handle = "stale"]_vars

-----------------------------------------------------------------------------
(* Liveness.                                                               *)

Served ==
  /\ call.pc # "exited" /\ Streaming
  /\ bridge.handle = "stale" => bridge.connected

Moving == app.live => app.unsent

(* The user does not change the aspect for ever, and the loop does not     *)
(* sleep past the heartbeat before every call it makes.                    *)
Undisturbed == <>[][~SelectAspect /\ ~HeartbeatElapses]_vars

(* "frames reach Windows camera clients": a camera that stays open shows,  *)
(* from some time on, pictures of a source that moves, in its own geometry,*)
(* and what the heartbeat, a crash, a change of aspect or the loss of the  *)
(* device has taken from the bridge, connection or handle, it gets back.   *)
CameraShowsMovingSource ==
  <>[]Served /\ []<>Moving /\ Undisturbed
    => <>[](drv.client /\ drv.shown = "picture")
=============================================================================
