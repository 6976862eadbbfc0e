------------------------- MODULE DriverBridgeProofs -------------------------
(***************************************************************************)
(* Proofs about DriverBridge, for any sizes, streams and length of the     *)
(* readback pools: copies fit, and a staged policy reaches the driver.     *)
(***************************************************************************)
EXTENDS DriverBridge, TLAPS

(* The fields of the records.                                              *)
BridgeFields ==
  {"handle", "waiting", "connected", "pending", "wanted", "out", "canvas",
   "bgra", "nv12", "frameEx"}
DriverFields ==
  {"present", "hw", "client", "late", "stream", "shown", "policy"}
CallFields == {"pc", "path", "reason", "recoverable"}

(* A bridge whose pools, where it has some, are of its output's size.      *)
Sound(b) ==
  /\ DOMAIN b = BridgeFields
  /\ b.handle \in {"none", "open", "stale"}
  /\ DOMAIN b.out = {"size", "format"}
  /\ DOMAIN b.bgra = {"size", "slots"} /\ DOMAIN b.nv12 = {"size", "slots"}
  /\ b.bgra # NoPool => b.bgra.size = b.out.size
  /\ b.nv12 # NoPool => b.nv12.size = b.out.size

(* What the first copy of a call needs.                                    *)
Copying(b) == b.canvas = b.out.size /\ b.bgra.size = b.out.size

(* The bridge is sound; while a call copies or uploads, it has what it     *)
(* copies from and to, also for the path it falls back to; and a call has  *)
(* a handle, open or stale.                                                *)
Fitting ==
  /\ Sound(bridge)
  /\ DOMAIN drv = DriverFields /\ drv.stream \in Stream \cup {NoStream}
  /\ DOMAIN call = CallFields
  /\ call.pc \in {"map", "upload", "status"} => Copying(bridge)
  /\ call.pc \in {"map", "upload"} /\ call.path = "nv12" =>
       bridge.nv12.size = bridge.out.size
  /\ call.pc \notin {"exited", "idle"} => bridge.handle # "none"

-----------------------------------------------------------------------------
(* The bridge's operators.                                                 *)

(* A stream is a size and a format.                                        *)
LEMMA StreamShape ==
  ASSUME NEW s \in Stream \cup {NoStream}
  PROVE  DOMAIN s = {"size", "format"}
  BY StreamAssumption DEF NoStream

(* A bridge that begins anew is sound.                                     *)
LEMMA FreshSound ==
  Sound(FreshBridge) /\ FreshBridge.handle = "none"
  BY DEF FreshBridge, Sound, BridgeFields, NoPool

(* Fields that are not about geometry do not matter to a sound bridge.     *)
LEMMA SameGeometry ==
  ASSUME NEW b, NEW c, Sound(b), DOMAIN c = BridgeFields,
         c.handle \in {"none", "open", "stale"},
         c.out = b.out, c.bgra = b.bgra, c.nv12 = b.nv12
  PROVE  Sound(c) /\ (Copying(b) /\ c.canvas = b.canvas => Copying(c))
  BY DEF Sound, Copying

(* Without textures a bridge is sound in any geometry.                     *)
LEMMA DiscardSound ==
  ASSUME NEW b, Sound(b)
  PROVE  /\ Sound(Discard(b)) /\ DOMAIN Discard(b) = BridgeFields
         /\ Discard(b).bgra = NoPool /\ Discard(b).nv12 = NoPool
         /\ \A f \in BridgeFields \ {"canvas", "bgra", "nv12"} :
              Discard(b)[f] = b[f]
  BY DEF Discard, Sound, BridgeFields, NoPool

(* ApplyAspectPolicyNow changes the size of a bridge without textures.     *)
LEMMA ResizedSound ==
  ASSUME NEW b, Sound(b)
  PROVE  /\ Sound(Resized(b))
         /\ Resized(b).handle = b.handle /\ Resized(b).wanted = b.wanted
         /\ Resized(b).pending = b.pending
<1>1. CASE b.out.size = b.wanted
  BY <1>1 DEF Resized
<1>2. CASE b.out.size # b.wanted
  <2> DEFINE d == Discard(b)
  <2>1. /\ Sound(d) /\ DOMAIN d = BridgeFields
        /\ d.bgra = NoPool /\ d.nv12 = NoPool
        /\ d.handle = b.handle /\ d.wanted = b.wanted
        /\ d.pending = b.pending /\ d.out = b.out
    BY DiscardSound DEF BridgeFields
  <2>. HIDE DEF d
  <2> DEFINE r == [d EXCEPT !.out.size = b.wanted]
  <2>2. /\ DOMAIN r = BridgeFields /\ DOMAIN r.out = {"size", "format"}
        /\ r.bgra = NoPool /\ r.nv12 = NoPool
        /\ r.handle = b.handle /\ r.wanted = b.wanted
        /\ r.pending = b.pending
    BY <2>1 DEF Sound, BridgeFields
  <2>3. Resized(b) = r
    BY <1>2 DEF Resized, d
  <2>. HIDE DEF r
  <2>4. Sound(r)
    BY <2>1, <2>2 DEF Sound
  <2>. QED BY <2>2, <2>3, <2>4
<1>. QED BY <1>1, <1>2

(* EnsurePropertySetReady looks for a handle and touches nothing else.     *)
LEMMA ProbedSound ==
  ASSUME NEW b, Sound(b)
  PROVE  /\ Sound(Probed(b)) /\ Probed(b).wanted = b.wanted
         /\ Probed(b).pending = b.pending
         /\ b.handle # "none" => Probed(b) = b
         /\ \A f \in BridgeFields \ {"handle", "waiting"} : Probed(b)[f] = b[f]
<1>1. FindDriverFilter \in {"none", "open"}
  BY DEF FindDriverFilter
<1>2. /\ DOMAIN Probed(b) = BridgeFields
      /\ Probed(b).handle \in {"none", "open", "stale"}
      /\ \A f \in BridgeFields \ {"handle", "waiting"} : Probed(b)[f] = b[f]
  BY <1>1 DEF Probed, Sound, BridgeFields
<1>3. Probed(b).wanted = b.wanted /\ Probed(b).pending = b.pending
      /\ Probed(b).out = b.out /\ Probed(b).bgra = b.bgra
      /\ Probed(b).nv12 = b.nv12
  BY <1>2 DEF BridgeFields
<1>4. b.handle # "none" => Probed(b) = b
  BY DEF Probed
<1>. QED BY <1>2, <1>3, <1>4, SameGeometry

(* RefreshDriverGeometry takes a new geometry without textures.            *)
LEMMA RefreshedSound ==
  ASSUME NEW b, Sound(b), DOMAIN drv = DriverFields,
         drv.stream \in Stream \cup {NoStream}
  PROVE  Sound(Refreshed(b)) /\ Refreshed(b).handle = b.handle
<1> DEFINE status == GetDriverProperty
           d == Discard(b)
           r == [d EXCEPT !.out = status.stream]
<1>1. status.stream = drv.stream
  BY DEF GetDriverProperty, DriverFields
<1>2. DOMAIN status.stream = {"size", "format"}
  BY <1>1, StreamShape
<1>3. /\ Sound(d) /\ DOMAIN d = BridgeFields
      /\ d.bgra = NoPool /\ d.nv12 = NoPool /\ d.handle = b.handle
  BY DiscardSound DEF BridgeFields
<1>4. Refreshed(b) \in {b, r}
  BY DEF Refreshed
<1>. HIDE DEF status, d
<1>5. /\ DOMAIN r = BridgeFields /\ r.out = status.stream
      /\ r.bgra = NoPool /\ r.nv12 = NoPool /\ r.handle = b.handle
  BY <1>3 DEF BridgeFields
<1>. HIDE DEF r
<1>6. Sound(r)
  BY <1>2, <1>3, <1>5 DEF Sound
<1>. QED BY <1>4, <1>5, <1>6

(* EnsureGpuResources leaves what a copy needs.                            *)
LEMMA CanvasSound ==
  ASSUME NEW b, Sound(b)
  PROVE  /\ Sound(WithCanvas(b)) /\ Copying(WithCanvas(b))
         /\ WithCanvas(b).handle = b.handle
<1> DEFINE d == Discard(b)
           c == [d EXCEPT !.canvas = b.out.size, !.bgra = EmptyPool(b.out.size)]
<1>1. CASE b.canvas = b.out.size /\ b.bgra # NoPool
  BY <1>1 DEF WithCanvas, Copying, Sound
<1>2. CASE ~(b.canvas = b.out.size /\ b.bgra # NoPool)
  <2>1. WithCanvas(b) = c
    BY <1>2 DEF WithCanvas
  <2>2. /\ Sound(d) /\ DOMAIN d = BridgeFields /\ d.nv12 = NoPool
        /\ d.handle = b.handle /\ d.out = b.out
    BY DiscardSound DEF BridgeFields
  <2>3. LET p == EmptyPool(b.out.size)
        IN  DOMAIN p = {"size", "slots"} /\ p.size = b.out.size
    BY DEF EmptyPool
  <2>. HIDE DEF d
  <2>4. /\ DOMAIN c = BridgeFields /\ c.canvas = b.out.size
        /\ c.bgra = EmptyPool(b.out.size) /\ c.nv12 = NoPool
        /\ c.handle = b.handle /\ c.out = b.out
    BY <2>2 DEF BridgeFields
  <2>. HIDE DEF c
  <2>. QED BY <2>1, <2>2, <2>3, <2>4 DEF Sound, Copying
<1>. QED BY <1>1, <1>2

(* What SendFrame has prepared before its first copy.                      *)
LEMMA PreparedSound ==
  ASSUME Fitting
  PROVE  /\ Sound(Prepared) /\ Copying(Prepared)
         /\ Prepared.handle = bridge.handle
<1> DEFINE w == WithCanvas(Refreshed(bridge))
<1>1. Sound(w) /\ Copying(w) /\ w.handle = bridge.handle
  BY RefreshedSound, CanvasSound DEF Fitting
<1>2. Prepared = FrameExKnown(w)
  BY DEF Prepared
<1>. HIDE DEF w
<1>3. /\ DOMAIN FrameExKnown(w) = BridgeFields
      /\ \A f \in BridgeFields \ {"frameEx"} : FrameExKnown(w)[f] = w[f]
  BY <1>1 DEF FrameExKnown, Sound, BridgeFields
<1>4. LET k == FrameExKnown(w)
      IN  /\ k.handle = w.handle /\ k.out = w.out /\ k.canvas = w.canvas
          /\ k.bgra = w.bgra /\ k.nv12 = w.nv12
  BY <1>3 DEF BridgeFields
<1>. QED BY <1>1, <1>2, <1>3, <1>4, SameGeometry DEF Sound

(* EnsureNv12Resources gives the second pool the size of the first.        *)
LEMMA Nv12Sound ==
  ASSUME NEW b, Sound(b), Copying(b)
  PROVE  /\ Sound(WithNv12(b)) /\ Copying(WithNv12(b))
         /\ WithNv12(b).nv12.size = b.out.size
         /\ WithNv12(b).out = b.out /\ WithNv12(b).handle = b.handle
<1> DEFINE n == [b EXCEPT !.nv12 = EmptyPool(b.out.size)]
<1>1. CASE b.nv12 # NoPool
  BY <1>1 DEF WithNv12, Sound
<1>2. CASE b.nv12 = NoPool
  <2>1. WithNv12(b) = n
    BY <1>2 DEF WithNv12
  <2>2. LET p == EmptyPool(b.out.size)
        IN  DOMAIN p = {"size", "slots"} /\ p.size = b.out.size
    BY DEF EmptyPool
  <2>3. /\ DOMAIN n = BridgeFields /\ n.nv12 = EmptyPool(b.out.size)
        /\ n.bgra = b.bgra /\ n.handle = b.handle /\ n.out = b.out
        /\ n.canvas = b.canvas
    BY DEF Sound, BridgeFields
  <2>. HIDE DEF n
  <2>. QED BY <2>1, <2>2, <2>3 DEF Sound, Copying
<1>. QED BY <1>1, <1>2

(* Changing the slots of a pool leaves its size.                           *)
LEMMA PoolsSound ==
  ASSUME NEW b, NEW c, Sound(b), DOMAIN c = BridgeFields,
         c.handle = b.handle, c.out = b.out,
         DOMAIN c.bgra = {"size", "slots"}, DOMAIN c.nv12 = {"size", "slots"},
         c.bgra.size = b.bgra.size, c.nv12.size = b.nv12.size,
         c.bgra = b.bgra \/ b.bgra.size = b.out.size,
         c.nv12 = b.nv12 \/ b.nv12.size = b.out.size
  PROVE  Sound(c)
  BY DEF Sound

(* A copy that is queued changes the slots of its pool.                    *)
LEMMA QueuedPool ==
  ASSUME NEW p, DOMAIN p = {"size", "slots"}
  PROVE  DOMAIN Queued(p) = {"size", "slots"} /\ Queued(p).size = p.size
  BY DEF Queued

(* A copy is queued in the pool of BGRA copies, or of NV12 copies.         *)
LEMMA QueuedSound ==
  ASSUME NEW b, Sound(b), Copying(b)
  PROVE  /\ LET c == [b EXCEPT !.bgra = Queued(@)]
            IN  /\ Sound(c) /\ Copying(c)
                /\ c.handle = b.handle /\ c.out = b.out
         /\ b.nv12.size = b.out.size =>
              LET c == [b EXCEPT !.nv12 = Queued(@)]
              IN  /\ Sound(c) /\ Copying(c) /\ c.nv12.size = c.out.size
                  /\ c.handle = b.handle
<1>1. /\ DOMAIN Queued(b.bgra) = {"size", "slots"}
      /\ Queued(b.bgra).size = b.bgra.size
      /\ DOMAIN Queued(b.nv12) = {"size", "slots"}
      /\ Queued(b.nv12).size = b.nv12.size
  BY QueuedPool DEF Sound
<1> DEFINE c == [b EXCEPT !.bgra = Queued(@)]
           e == [b EXCEPT !.nv12 = Queued(@)]
<1>2. /\ DOMAIN c = BridgeFields /\ c.bgra = Queued(b.bgra)
      /\ c.nv12 = b.nv12 /\ c.handle = b.handle /\ c.out = b.out
      /\ c.canvas = b.canvas
  BY DEF Sound, BridgeFields
<1>3. /\ DOMAIN e = BridgeFields /\ e.nv12 = Queued(b.nv12)
      /\ e.bgra = b.bgra /\ e.handle = b.handle /\ e.out = b.out
      /\ e.canvas = b.canvas
  BY DEF Sound, BridgeFields
<1>. HIDE DEF c, e
<1>4. Sound(c) /\ Copying(c)
  BY <1>1, <1>2, PoolsSound DEF Sound, Copying
<1>5. b.nv12.size = b.out.size => Sound(e) /\ Copying(e)
  BY <1>1, <1>3, PoolsSound DEF Sound, Copying
<1>. QED BY <1>1, <1>2, <1>3, <1>4, <1>5 DEF c, e

(* The GPU's progress changes slots of pools.                              *)
LEMMA DrawnPool ==
  ASSUME NEW p, DOMAIN p = {"size", "slots"}
  PROVE  /\ DOMAIN Drawn(p) = {"size", "slots"} /\ Drawn(p).size = p.size
         /\ p = NoPool => Drawn(p) = p
<1>1. DOMAIN Drawn(p) = {"size", "slots"} /\ Drawn(p).size = p.size
  BY DEF Drawn
<1>2. ASSUME p = NoPool
      PROVE  Drawn(p) = p
  <2> DEFINE s == [i \in DOMAIN <<>> |->
                     IF <<>>[i] = "drawing" THEN "ready" ELSE <<>>[i]]
  <2>1. s = <<>>
    OBVIOUS
  <2>2. Drawn(NoPool) = [NoPool EXCEPT !.slots = s]
    BY DEF Drawn, NoPool
  <2>3. [NoPool EXCEPT !.slots = <<>>] = NoPool
    BY DEF NoPool
  <2>. QED BY <1>2, <2>1, <2>2, <2>3
<1>. QED BY <1>1, <1>2

-----------------------------------------------------------------------------
(* Fitting holds.                                                          *)

(* The program does not run at first.                                      *)
LEMMA InitFitting == ASSUME Init PROVE Fitting
<1>1. bridge = FreshBridge
  BY DEF Init
<1>2. Sound(bridge)
  BY <1>1, FreshSound
<1>3. DOMAIN drv = DriverFields /\ drv.stream = NoStream
  BY DEF Init, DriverFields
<1>4. DOMAIN call = CallFields /\ call.pc = "exited"
  BY DEF Init, NoCall, CallFields
<1>. QED BY <1>2, <1>3, <1>4 DEF Fitting

(* A step that changes the driver only.                                    *)
LEMMA DriverStep ==
  ASSUME Fitting, UNCHANGED <<bridge, call>>,
         DOMAIN drv' = DriverFields, drv'.stream \in Stream \cup {NoStream}
  PROVE  Fitting'
  BY DEF Fitting, Sound, Copying

(* A camera that starts and stops, a heartbeat, a device that comes back.  *)
LEMMA DriverFitting ==
  ASSUME Fitting,
         \/ CameraStarts \/ CameraPauses \/ CameraResumes \/ CameraStops
         \/ HeartbeatElapses \/ HeartbeatTimesOut \/ DeviceArrives
  PROVE  Fitting'
<1>1. CASE CameraStarts
  <2>1. PICK s \in Stream :
          drv' = [drv EXCEPT !.hw = "running", !.stream = s,
                             !.shown = "placeholder", !.late = FALSE]
    BY <1>1 DEF CameraStarts
  <2>2. DOMAIN drv' = DriverFields /\ drv'.stream \in Stream
    BY <2>1 DEF Fitting, DriverFields
  <2>3. /\ DOMAIN call' = CallFields
        /\ call'.pc = call.pc /\ call'.path = call.path
    BY <1>1 DEF CameraStarts, Fitting, CallFields
  <2>4. UNCHANGED bridge
    BY <1>1 DEF CameraStarts
  <2>. QED BY <2>2, <2>3, <2>4 DEF Fitting, Sound, Copying
<1>2. CASE CameraPauses \/ CameraResumes \/ CameraStops \/ HeartbeatElapses
             \/ HeartbeatTimesOut \/ DeviceArrives
  <2>1. UNCHANGED <<bridge, call>>
    BY <1>2 DEF CameraPauses, CameraResumes, CameraStops, HeartbeatElapses,
                HeartbeatTimesOut, DeviceArrives
  <2>2. DOMAIN drv' = DriverFields /\ drv'.stream \in {drv.stream, NoStream}
    BY <1>2 DEF CameraPauses, CameraResumes, CameraStops, HeartbeatElapses,
                HeartbeatTimesOut, DeviceArrives, ClientSet, Fitting,
                DriverFields
  <2>. QED BY <2>1, <2>2, DriverStep DEF Fitting
<1>. QED BY <1>1, <1>2

(* A device that leaves makes an open handle stale.                        *)
LEMMA LeavesFitting == ASSUME Fitting, DeviceLeaves PROVE Fitting'
<1>1. DOMAIN drv' = DriverFields /\ drv'.stream = NoStream /\ UNCHANGED call
  BY DEF DeviceLeaves, Fitting, DriverFields
<1>2. /\ DOMAIN bridge' = BridgeFields
      /\ bridge'.handle = IF bridge.handle = "open" THEN "stale"
                                                    ELSE bridge.handle
      /\ bridge'.out = bridge.out /\ bridge'.bgra = bridge.bgra
      /\ bridge'.nv12 = bridge.nv12 /\ bridge'.canvas = bridge.canvas
  BY DEF DeviceLeaves, Fitting, Sound, BridgeFields
<1>3. bridge'.handle \in {"none", "open", "stale"}
  BY <1>2 DEF Fitting, Sound
<1>4. Sound(bridge') /\ (Copying(bridge) => Copying(bridge'))
  BY <1>2, <1>3, SameGeometry DEF Fitting
<1>. QED BY <1>1, <1>2, <1>4 DEF Fitting, Sound, Copying

(* What SetDriverProperty leaves of the driver.                            *)
LEMMA DriverTaken ==
  ASSUME Fitting, NEW d, SetDriverProperty(d),
         DOMAIN d = DriverFields, d.stream = drv.stream
  PROVE  DOMAIN drv' = DriverFields /\ drv'.stream \in Stream \cup {NoStream}
  BY DEF SetDriverProperty, Fitting

(* SetClientConnected keeps the stream.                                    *)
LEMMA ClientSetShape ==
  ASSUME Fitting, NEW c
  PROVE  DOMAIN ClientSet(drv, c) = DriverFields
         /\ ClientSet(drv, c).stream = drv.stream
  BY DEF ClientSet, Fitting, DriverFields

(* A call begins with a handle, and applies or keeps the policy.           *)
LEMMA BeginFitting ==
  ASSUME Fitting,
         BeginSend \/ KeepPolicy \/ ApplyPendingPolicy \/ Connect
  PROVE  Fitting'
<1>1. CASE BeginSend
  <2>1. Sound(bridge') /\ bridge'.handle # "none"
    BY <1>1, ProbedSound DEF BeginSend, Fitting
  <2>2. DOMAIN call' = CallFields /\ call'.pc = "policy" /\ UNCHANGED drv
    BY <1>1 DEF BeginSend, Goto, Fitting, CallFields
  <2>. QED BY <2>1, <2>2 DEF Fitting
<1>2. CASE KeepPolicy
  <2>1. DOMAIN call' = CallFields /\ call'.pc = "connect"
    BY <1>2 DEF KeepPolicy, Goto, Fitting, CallFields
  <2>2. UNCHANGED <<drv, bridge>> /\ bridge.handle # "none"
    BY <1>2 DEF KeepPolicy, Fitting
  <2>. QED BY <2>1, <2>2 DEF Fitting, Sound
<1>3. CASE ApplyPendingPolicy
  <2>0. bridge.handle # "none" /\ Sound(bridge)
    BY <1>3 DEF ApplyPendingPolicy, Fitting
  <2>1. CASE Reachable
    <3> DEFINE r == Resized(bridge)
    <3>1. Sound(r) /\ r.handle = bridge.handle
      BY <2>0, ResizedSound
    <3>. HIDE DEF r
    <3> DEFINE c == [r EXCEPT !.pending = FALSE]
    <3>2. /\ DOMAIN c = BridgeFields /\ c.handle = r.handle
          /\ c.out = r.out /\ c.bgra = r.bgra /\ c.nv12 = r.nv12
      BY <3>1 DEF Sound, BridgeFields
    <3>3. bridge' = c
      BY <1>3, <2>1 DEF ApplyPendingPolicy, r
    <3>. HIDE DEF c
    <3>4. Sound(bridge') /\ bridge'.handle # "none"
      BY <2>0, <3>1, <3>2, <3>3, SameGeometry DEF Sound
    <3>5. LET d == ApplyDriverAspectProperties(bridge.wanted)
          IN  DOMAIN d = DriverFields /\ d.stream = drv.stream
      BY DEF ApplyDriverAspectProperties, Fitting, DriverFields
    <3>6. DOMAIN drv' = DriverFields /\ drv'.stream \in Stream \cup {NoStream}
      BY <1>3, <2>1, <3>5, DriverTaken DEF ApplyPendingPolicy
    <3>7. DOMAIN call' = CallFields /\ call'.pc = "connect"
      BY <1>3, <2>1 DEF ApplyPendingPolicy, Goto, Fitting, CallFields
    <3>. QED BY <3>4, <3>6, <3>7 DEF Fitting
  <2>2. CASE ~Reachable
    <3>1. UNCHANGED drv /\ bridge' = [bridge EXCEPT !.pending = FALSE]
      BY <1>3, <2>2 DEF ApplyPendingPolicy
    <3>2. Sound(bridge')
      <4>1. /\ DOMAIN bridge' = BridgeFields
            /\ bridge'.handle = bridge.handle /\ bridge'.out = bridge.out
            /\ bridge'.bgra = bridge.bgra /\ bridge'.nv12 = bridge.nv12
        BY <2>0, <3>1 DEF Sound, BridgeFields
      <4>. QED BY <2>0, <4>1, SameGeometry DEF Sound
    <3>3. DOMAIN call' = CallFields /\ call'.pc = "idle"
      BY <1>3, <2>2 DEF ApplyPendingPolicy, Return, NoCall, CallFields
    <3>. QED BY <3>1, <3>2, <3>3 DEF Fitting
  <2>. QED BY <2>1, <2>2
<1>4. CASE Connect
  <2>1. /\ DOMAIN drv' = DriverFields
        /\ drv'.stream \in Stream \cup {NoStream}
    BY <1>4, ClientSetShape, DriverTaken DEF Connect, Fitting
  <2>2. DOMAIN call' = CallFields /\ call'.pc \in {"prepare", "idle"}
    <3>1. Goto("prepare") \/ Return
      BY <1>4 DEF Connect
    <3>. QED BY <3>1 DEF Goto, Return, NoCall, Fitting, CallFields
  <2>3. Sound(bridge') /\ bridge'.handle = bridge.handle
    <3>1. \/ UNCHANGED bridge
          \/ bridge' = [bridge EXCEPT !.connected = TRUE]
      BY <1>4 DEF Connect
    <3>2. /\ DOMAIN bridge' = BridgeFields
          /\ bridge'.handle = bridge.handle /\ bridge'.out = bridge.out
          /\ bridge'.bgra = bridge.bgra /\ bridge'.nv12 = bridge.nv12
      BY <3>1 DEF Fitting, Sound, BridgeFields
    <3>. QED BY <3>2, SameGeometry DEF Fitting, Sound
  <2>4. bridge.handle # "none"
    BY <1>4 DEF Connect, Fitting
  <2>. QED BY <2>1, <2>2, <2>3, <2>4 DEF Fitting
<1>. QED BY <1>1, <1>2, <1>3, <1>4

(* A picture is copied towards a slot.                                     *)
LEMMA PrepareFitting ==
  ASSUME Fitting, Prepare \/ PrepareNv12 \/ Nv12Fails
  PROVE  Fitting'
<1>0. bridge.handle # "none" /\ UNCHANGED drv
  BY DEF Prepare, PrepareNv12, Nv12Fails, Fitting
<1>1. /\ Sound(Prepared) /\ Copying(Prepared)
      /\ Prepared.handle = bridge.handle
  BY PreparedSound
<1> DEFINE n == WithNv12(Prepared)
<1>2. /\ Sound(n) /\ Copying(n) /\ n.nv12.size = n.out.size
      /\ n.handle = bridge.handle
  BY <1>1, Nv12Sound
<1>. HIDE DEF n
<1>3. CASE Prepare \/ Nv12Fails
  <2>1. PICK b \in {Prepared, n} : bridge' = [b EXCEPT !.bgra = Queued(@)]
    BY <1>3 DEF Prepare, Nv12Fails, n
  <2>2. /\ Sound(bridge') /\ Copying(bridge')
        /\ bridge'.handle = bridge.handle
    BY <1>1, <1>2, <2>1, QueuedSound
  <2>3. /\ DOMAIN call' = CallFields /\ call'.pc = "map"
        /\ call'.path # "nv12"
    BY <1>3 DEF Prepare, Nv12Fails, StartMap, Fitting, CallFields, FirstPath
  <2>. QED BY <1>0, <2>2, <2>3 DEF Fitting
<1>4. CASE PrepareNv12
  <2>1. bridge' = [n EXCEPT !.nv12 = Queued(@)]
    BY <1>4 DEF PrepareNv12, n
  <2>2. /\ Sound(bridge') /\ Copying(bridge')
        /\ bridge'.nv12.size = bridge'.out.size
        /\ bridge'.handle = bridge.handle
    BY <1>2, <2>1, QueuedSound
  <2>3. DOMAIN call' = CallFields /\ call'.pc = "map"
    BY <1>4 DEF PrepareNv12, StartMap, Fitting, CallFields
  <2>. QED BY <1>0, <2>2, <2>3 DEF Fitting
<1>. QED BY <1>3, <1>4

(* A step that changes slots of pools whose size is right.                 *)
LEMMA SlotsStep ==
  ASSUME Fitting, call.pc = "map", DOMAIN bridge' = BridgeFields,
         \A f \in BridgeFields \ {"bgra", "nv12"} : bridge'[f] = bridge[f],
         \/ /\ bridge'.nv12 = bridge.nv12
            /\ DOMAIN bridge'.bgra = {"size", "slots"}
            /\ bridge'.bgra.size = bridge.bgra.size
         \/ /\ bridge'.bgra = bridge.bgra
            /\ bridge.nv12.size = bridge.out.size
            /\ DOMAIN bridge'.nv12 = {"size", "slots"}
            /\ bridge'.nv12.size = bridge.nv12.size
  PROVE  Sound(bridge') /\ Copying(bridge') /\ bridge'.handle = bridge.handle
         /\ bridge'.nv12.size = bridge.nv12.size
         /\ bridge'.out = bridge.out
<1>1. /\ bridge'.handle = bridge.handle /\ bridge'.out = bridge.out
      /\ bridge'.canvas = bridge.canvas
  BY DEF BridgeFields
<1>2. bridge.bgra.size = bridge.out.size /\ Sound(bridge) /\ Copying(bridge)
  BY DEF Fitting, Copying
<1>3. Sound(bridge')
  BY <1>1, <1>2, PoolsSound DEF Sound
<1>. QED BY <1>1, <1>2, <1>3 DEF Copying

(* The copy that is mapped leaves its slot empty, and the GPU fills others.*)
LEMMA SlotsFitting ==
  ASSUME Fitting, MapCopy \/ GpuFinishesCopy
  PROVE  Fitting'
<1>0. /\ call.pc = "map" /\ UNCHANGED drv /\ bridge.handle # "none"
      /\ DOMAIN bridge = BridgeFields
      /\ DOMAIN bridge.bgra = {"size", "slots"}
      /\ DOMAIN bridge.nv12 = {"size", "slots"}
  BY DEF MapCopy, GpuFinishesCopy, Fitting, Sound
<1>1. /\ DOMAIN call' = CallFields /\ call'.pc \in {"map", "upload"}
      /\ call'.path = call.path
  BY <1>0 DEF MapCopy, GpuFinishesCopy, Goto, Fitting, CallFields
<1>2. \/ \E i, v : bridge' = [bridge EXCEPT !.bgra.slots[i] = v]
      \/ /\ bridge.nv12.size = bridge.out.size
         /\ \E i, v : bridge' = [bridge EXCEPT !.nv12.slots[i] = v]
  <2>1. CASE MapCopy
    BY <1>0, <2>1 DEF MapCopy, Fitting
  <2>2. CASE GpuFinishesCopy
    <3>1. bridge.nv12.slots # <<>> => bridge.nv12.size = bridge.out.size
      BY DEF Fitting, Sound, NoPool
    <3>2. \A i : i \notin DOMAIN <<>>
      OBVIOUS
    <3>3. CASE \E i \in DOMAIN bridge.bgra.slots :
                 bridge' = [bridge EXCEPT !.bgra.slots[i] = "ready"]
      BY <3>3
    <3>4. CASE \E i \in DOMAIN bridge.nv12.slots :
                 bridge' = [bridge EXCEPT !.nv12.slots[i] = "ready"]
      BY <3>1, <3>2, <3>4
    <3>. QED BY <2>2, <3>3, <3>4 DEF GpuFinishesCopy
  <2>. QED BY <2>1, <2>2
<1>3. /\ DOMAIN bridge' = BridgeFields
      /\ \A f \in BridgeFields \ {"bgra", "nv12"} : bridge'[f] = bridge[f]
  BY <1>0, <1>2 DEF BridgeFields
<1>4. \/ /\ bridge'.nv12 = bridge.nv12
         /\ DOMAIN bridge'.bgra = {"size", "slots"}
         /\ bridge'.bgra.size = bridge.bgra.size
      \/ /\ bridge'.bgra = bridge.bgra
         /\ bridge.nv12.size = bridge.out.size
         /\ DOMAIN bridge'.nv12 = {"size", "slots"}
         /\ bridge'.nv12.size = bridge.nv12.size
  BY <1>0, <1>2 DEF BridgeFields
<1>5. /\ Sound(bridge') /\ Copying(bridge')
      /\ bridge'.handle = bridge.handle
      /\ bridge'.nv12.size = bridge.nv12.size
      /\ bridge'.out = bridge.out
  BY <1>0, <1>3, <1>4, SlotsStep
<1>. QED BY <1>0, <1>1, <1>5 DEF Fitting

(* A step that ends the call, or does not begin one, needs a sound bridge. *)
LEMMA IdleStep ==
  ASSUME Sound(bridge'), DOMAIN drv' = DriverFields,
         drv'.stream \in Stream \cup {NoStream},
         DOMAIN call' = CallFields, call'.pc \in {"idle", "exited"}
  PROVE  Fitting'
  BY DEF Fitting

(* What Return and an exit leave of a call.                                *)
LEMMA CallEnds ==
  /\ Return => DOMAIN call' = CallFields /\ call'.pc = "idle"
  /\ call' = [NoCall EXCEPT !.pc = "exited"] =>
       DOMAIN call' = CallFields /\ call'.pc = "exited"
  BY DEF Return, NoCall, CallFields

(* The copy that a call falls back to.                                     *)
LEMMA FallBackStep ==
  ASSUME Fitting, NEW b, Sound(b), Copying(b), b.handle # "none",
         FallBack(b), UNCHANGED drv
  PROVE  Fitting'
<1>1. Sound(bridge') /\ Copying(bridge') /\ bridge'.handle # "none"
  BY QueuedSound DEF FallBack
<1>2. /\ DOMAIN call' = CallFields /\ call'.pc = "map"
      /\ call'.path = "legacy"
  BY DEF FallBack, NoCall, CallFields
<1>. QED BY <1>1, <1>2 DEF Fitting

(* What a refusal leaves of the bridge.                                    *)
LEMMA NotedSound ==
  ASSUME Fitting, Copying(bridge)
  PROVE  LET b == NotedRefusal(bridge)
         IN  /\ Sound(b) /\ Copying(b) /\ b.handle = bridge.handle
             /\ b.pending = bridge.pending
<1> DEFINE b == NotedRefusal(bridge)
<1>1. /\ DOMAIN b = BridgeFields /\ b.handle = bridge.handle
      /\ b.out = bridge.out /\ b.bgra = bridge.bgra /\ b.nv12 = bridge.nv12
      /\ b.canvas = bridge.canvas /\ b.pending = bridge.pending
  BY DEF NotedRefusal, Fitting, Sound, BridgeFields
<1>. HIDE DEF b
<1>2. Sound(b) /\ Copying(b)
  BY <1>1, SameGeometry DEF Fitting, Sound
<1>. QED BY <1>1, <1>2 DEF b

(* A mapped picture is taken or refused, on whichever path.                *)
LEMMA UploadFitting ==
  ASSUME Fitting,
         \/ NoCopyReady \/ UploadFrameEx \/ FrameExRefused \/ UploadBgr24
         \/ Bgr24Refused \/ ReadStatus
  PROVE  Fitting'
<1>0. /\ Sound(bridge) /\ Copying(bridge) /\ bridge.handle # "none"
      /\ DOMAIN call = CallFields
  BY DEF NoCopyReady, UploadFrameEx, FrameExRefused, UploadBgr24,
         Bgr24Refused, ReadStatus, Fitting
<1>1. CASE NoCopyReady
  <2>1. FallBack(bridge) \/ (Return /\ UNCHANGED bridge)
    BY <1>1 DEF NoCopyReady
  <2>2. UNCHANGED drv
    BY <1>1 DEF NoCopyReady
  <2>3. CASE FallBack(bridge)
    BY <1>0, <2>2, <2>3, FallBackStep
  <2>4. CASE Return /\ UNCHANGED bridge
    BY <1>0, <2>2, <2>4, CallEnds DEF Fitting
  <2>. QED BY <2>1, <2>3, <2>4
<1>2. CASE UploadFrameEx \/ UploadBgr24
  <2>1. PICK p : Uploaded(p)
    BY <1>2 DEF UploadFrameEx, UploadBgr24
  <2>2. DOMAIN drv' = DriverFields /\ drv'.stream = drv.stream
    BY <2>1 DEF Uploaded, Fitting, DriverFields
  <2>3. UNCHANGED bridge /\ Return
    BY <2>1 DEF Uploaded
  <2>. QED BY <1>0, <2>2, <2>3, CallEnds DEF Fitting
<1>3. CASE FrameExRefused
  <2>1. \/ FallBack(bridge)
        \/ call' = [call EXCEPT !.path = "again"] /\ UNCHANGED bridge
    BY <1>3 DEF FrameExRefused
  <2>2. UNCHANGED drv /\ call.pc = "upload"
    BY <1>3 DEF FrameExRefused
  <2>3. CASE FallBack(bridge)
    BY <1>0, <2>2, <2>3, FallBackStep
  <2>4. CASE call' = [call EXCEPT !.path = "again"] /\ UNCHANGED bridge
    <3>1. /\ DOMAIN call' = CallFields /\ call'.pc = "upload"
          /\ call'.path = "again"
      BY <1>0, <2>2, <2>4 DEF CallFields
    <3>2. Sound(bridge') /\ Copying(bridge') /\ bridge'.handle # "none"
      BY <1>0, <2>4
    <3>. QED BY <2>2, <3>1, <3>2 DEF Fitting
  <2>. QED BY <2>1, <2>3, <2>4
<1>4. CASE Bgr24Refused
  <2>1. DOMAIN call' = CallFields /\ call'.pc = "status"
    BY <1>0, <1>4 DEF Bgr24Refused, CallFields
  <2>2. UNCHANGED <<drv, bridge>>
    BY <1>4 DEF Bgr24Refused
  <2>3. Sound(bridge') /\ Copying(bridge') /\ bridge'.handle # "none"
    BY <1>0, <2>2
  <2>. QED BY <2>1, <2>2, <2>3 DEF Fitting
<1>5. CASE ReadStatus
  <2> DEFINE b == NotedRefusal(bridge)
  <2>1. Sound(b) /\ Copying(b) /\ b.handle # "none"
    BY <1>0, NotedSound
  <2>2. \/ FallBack(b)
        \/ bridge' = b /\ (Goto("reinitialize") \/ Return)
    BY <1>5 DEF ReadStatus
  <2>3. UNCHANGED drv
    BY <1>5 DEF ReadStatus
  <2>. HIDE DEF b
  <2>4. CASE FallBack(b)
    BY <2>1, <2>3, <2>4, FallBackStep
  <2>5. CASE bridge' = b /\ (Goto("reinitialize") \/ Return)
    <3>1. DOMAIN call' = CallFields /\ call'.pc \in {"reinitialize", "idle"}
      BY <1>0, <2>5, CallEnds DEF Goto, CallFields
    <3>2. Sound(bridge') /\ bridge'.handle # "none"
      BY <2>1, <2>5
    <3>. QED BY <2>3, <3>1, <3>2 DEF Fitting
  <2>. QED BY <2>2, <2>4, <2>5
<1>. QED BY <1>1, <1>2, <1>3, <1>4, <1>5

(* Disconnect tells the driver, if there is something to tell.             *)
LEMMA DisconnectShape ==
  ASSUME Fitting, Disconnect
  PROVE  DOMAIN drv' = DriverFields /\ drv'.stream \in Stream \cup {NoStream}
<1>1. SetDriverProperty(drv) \/ SetDriverProperty(ClientSet(drv, FALSE))
  BY DEF Disconnect
<1>. QED BY <1>1, DriverTaken, ClientSetShape DEF Fitting

(* What begins anew is sound.                                              *)
LEMMA AnewSound ==
  ASSUME Fitting
  PROVE  Sound(Reinitialized(bridge)) /\ Sound(SavedSettings)
<1> DEFINE r == Reinitialized(bridge)
           z == SavedSettings
<1>1. /\ DOMAIN r = BridgeFields /\ r.handle = "none"
      /\ DOMAIN r.out = {"size", "format"}
      /\ r.bgra = NoPool /\ r.nv12 = NoPool
  BY DEF Reinitialized, FreshBridge, BridgeFields
<1>2. /\ DOMAIN z = BridgeFields /\ z.handle = "none"
      /\ z.out = FreshBridge.out
      /\ z.bgra = NoPool /\ z.nv12 = NoPool
  BY DEF SavedSettings, FreshBridge, BridgeFields
<1>. HIDE DEF r, z
<1>3. DOMAIN NoPool = {"size", "slots"}
  BY DEF NoPool
<1>4. DOMAIN z.out = {"size", "format"}
  BY <1>2 DEF FreshBridge
<1>. QED BY <1>1, <1>2, <1>3, <1>4 DEF Sound, r, z

(* A policy that is set leaves the bridge sound, and is still pending      *)
(* unless the driver has it.                                               *)
LEMMA PolicySetSound ==
  ASSUME Fitting, NEW b, Sound(b), PolicySet(b)
  PROVE  /\ Sound(bridge')
         /\ DOMAIN drv' = DriverFields
         /\ drv'.stream \in Stream \cup {NoStream}
         /\ bridge'.pending \/ drv'.policy = bridge'.wanted
<1> DEFINE p == [b EXCEPT !.pending = TRUE]
           staged == Probed(p)
           taken == [staged EXCEPT !.connected = FALSE]
           r == Resized(taken)
           quiet == [r EXCEPT !.pending = FALSE]
           d == IF b.connected THEN ClientSet(drv, FALSE) ELSE drv
<1>1. Sound(p) /\ p.pending /\ p.wanted = b.wanted
  <2>1. /\ DOMAIN p = BridgeFields /\ p.handle = b.handle
        /\ p.out = b.out /\ p.bgra = b.bgra /\ p.nv12 = b.nv12
        /\ p.pending /\ p.wanted = b.wanted
    BY DEF Sound, BridgeFields
  <2>. HIDE DEF p
  <2>. QED BY <2>1, SameGeometry DEF Sound
<1>. HIDE DEF p
<1>2. Sound(staged) /\ staged.pending /\ staged.wanted = b.wanted
  BY <1>1, ProbedSound
<1>. HIDE DEF staged
<1>3. Sound(taken) /\ taken.pending /\ taken.wanted = b.wanted
  <2>1. /\ DOMAIN taken = BridgeFields /\ taken.handle = staged.handle
        /\ taken.out = staged.out /\ taken.bgra = staged.bgra
        /\ taken.nv12 = staged.nv12
        /\ taken.pending = staged.pending /\ taken.wanted = staged.wanted
    BY <1>2 DEF Sound, BridgeFields
  <2>. HIDE DEF taken
  <2>. QED BY <1>2, <2>1, SameGeometry DEF Sound
<1>. HIDE DEF taken
<1>4. Sound(r) /\ r.wanted = b.wanted
  BY <1>3, ResizedSound
<1>. HIDE DEF r
<1>5. Sound(quiet) /\ quiet.wanted = b.wanted
  <2>1. /\ DOMAIN quiet = BridgeFields /\ quiet.handle = r.handle
        /\ quiet.out = r.out /\ quiet.bgra = r.bgra /\ quiet.nv12 = r.nv12
        /\ quiet.wanted = r.wanted
    BY <1>4 DEF Sound, BridgeFields
  <2>. HIDE DEF quiet
  <2>. QED BY <1>4, <2>1, SameGeometry DEF Sound
<1>. HIDE DEF quiet
<1>6. DOMAIN d = DriverFields /\ d.stream = drv.stream
  BY ClientSetShape DEF Fitting
<1>. HIDE DEF d
<1>7. \/ bridge' = staged /\ UNCHANGED drv
      \/ /\ drv' = [d EXCEPT !.policy = b.wanted]
         /\ bridge' \in {taken, quiet}
  BY DEF PolicySet, p, staged, taken, r, quiet, d
<1>8. CASE bridge' = staged /\ UNCHANGED drv
  BY <1>2, <1>8 DEF Fitting
<1>9. CASE /\ drv' = [d EXCEPT !.policy = b.wanted]
           /\ bridge' \in {taken, quiet}
  <2>1. /\ DOMAIN drv' = DriverFields /\ drv'.stream = drv.stream
        /\ drv'.policy = b.wanted
    BY <1>6, <1>9 DEF DriverFields
  <2>. QED BY <1>3, <1>5, <1>9, <2>1 DEF Fitting
<1>. QED BY <1>7, <1>8, <1>9

(* What the application does between two calls, or on its way out.         *)
LEMMA ApplicationFitting ==
  ASSUME Fitting,
         \/ PollDriver \/ ProbeTimePasses \/ GpuCatchesUp
         \/ NewFrame \/ SourceChanges \/ Reinitialize
         \/ SelectAspect \/ Launch \/ Exit \/ Crash
  PROVE  Fitting'
<1>0. /\ Sound(bridge) /\ DOMAIN bridge = BridgeFields
      /\ DOMAIN call = CallFields /\ DOMAIN drv = DriverFields
      /\ drv.stream \in Stream \cup {NoStream}
  BY DEF Fitting, Sound
<1>1. CASE PollDriver
  <2>1. Sound(bridge')
    BY <1>0, <1>1, ProbedSound DEF PollDriver
  <2>. QED BY <1>0, <1>1, <2>1, IdleStep DEF PollDriver
<1>2. CASE ProbeTimePasses
  <2>1. /\ DOMAIN bridge' = BridgeFields
        /\ bridge'.handle = bridge.handle /\ bridge'.out = bridge.out
        /\ bridge'.bgra = bridge.bgra /\ bridge'.nv12 = bridge.nv12
        /\ bridge'.canvas = bridge.canvas
    BY <1>0, <1>2 DEF ProbeTimePasses, BridgeFields
  <2>2. Sound(bridge') /\ (Copying(bridge) => Copying(bridge'))
    BY <1>0, <2>1, SameGeometry DEF Sound
  <2>3. UNCHANGED <<drv, call>>
    BY <1>2 DEF ProbeTimePasses
  <2>. QED BY <1>0, <2>1, <2>2, <2>3 DEF Fitting
<1>3. CASE GpuCatchesUp
  <2>1. /\ DOMAIN bridge' = BridgeFields
        /\ bridge'.handle = bridge.handle /\ bridge'.out = bridge.out
        /\ bridge'.bgra = Drawn(bridge.bgra)
        /\ bridge'.nv12 = Drawn(bridge.nv12)
    BY <1>0, <1>3 DEF GpuCatchesUp, BridgeFields
  <2>2. \A q \in {bridge.bgra, bridge.nv12} :
          /\ DOMAIN Drawn(q) = {"size", "slots"}
          /\ Drawn(q).size = q.size /\ (q = NoPool => Drawn(q) = q)
    BY <1>0, DrawnPool DEF Sound
  <2>3. Sound(bridge')
    BY <1>0, <2>1, <2>2, PoolsSound DEF Sound
  <2>. QED BY <1>0, <1>3, <2>3, IdleStep DEF GpuCatchesUp
<1>4. CASE NewFrame \/ SourceChanges
  BY <1>0, <1>4, IdleStep DEF NewFrame, SourceChanges
<1>5. CASE Reinitialize
  <2>1. /\ DOMAIN drv' = DriverFields
        /\ drv'.stream \in Stream \cup {NoStream}
    BY <1>5, DisconnectShape DEF Reinitialize
  <2>2. Sound(bridge') /\ Return
    BY <1>5, AnewSound DEF Reinitialize
  <2>. QED BY <2>1, <2>2, CallEnds, IdleStep
<1>6. CASE SelectAspect
  <2>1. PICK s \in Size : PolicySet([bridge EXCEPT !.wanted = s])
    BY <1>6 DEF SelectAspect
  <2> DEFINE b == [bridge EXCEPT !.wanted = s]
  <2>2. /\ DOMAIN b = BridgeFields /\ b.handle = bridge.handle
        /\ b.out = bridge.out /\ b.bgra = bridge.bgra
        /\ b.nv12 = bridge.nv12
    BY <1>0 DEF BridgeFields
  <2>3. PolicySet(b)
    BY <2>1
  <2>. HIDE DEF b
  <2>4. Sound(b)
    BY <1>0, <2>2, SameGeometry DEF Sound
  <2>5. /\ Sound(bridge') /\ DOMAIN drv' = DriverFields
        /\ drv'.stream \in Stream \cup {NoStream}
    BY <2>3, <2>4, PolicySetSound
  <2>. QED BY <1>0, <1>6, <2>5, IdleStep DEF SelectAspect
<1>7. CASE Launch
  <2>1. /\ Sound(bridge') /\ DOMAIN drv' = DriverFields
        /\ drv'.stream \in Stream \cup {NoStream}
    BY <1>7, AnewSound, PolicySetSound DEF Launch
  <2>2. Return
    BY <1>7 DEF Launch
  <2>. QED BY <2>1, <2>2, CallEnds, IdleStep
<1>8. CASE Exit
  <2>1. /\ DOMAIN drv' = DriverFields
        /\ drv'.stream \in Stream \cup {NoStream}
    BY <1>8, DisconnectShape DEF Exit
  <2>2. Sound(bridge') /\ call' = [NoCall EXCEPT !.pc = "exited"]
    BY <1>8, AnewSound DEF Exit
  <2>. QED BY <2>1, <2>2, CallEnds, IdleStep
<1>9. CASE Crash
  <2>1. UNCHANGED drv /\ call' = [NoCall EXCEPT !.pc = "exited"]
    BY <1>9 DEF Crash
  <2>2. Sound(bridge')
    BY <1>9, AnewSound DEF Crash
  <2>. QED BY <1>0, <2>1, <2>2, CallEnds, IdleStep
<1>. QED BY <1>1, <1>2, <1>3, <1>4, <1>5, <1>6, <1>7, <1>8, <1>9

(* Every step of the program, the driver and the GPU.                      *)
LEMMA NextFitting == ASSUME Fitting, [Next]_vars PROVE Fitting'
<1>1. CASE Environment
  BY <1>1, DriverFitting, LeavesFitting, SlotsFitting, ApplicationFitting
     DEF Environment
<1>2. CASE PollDriver \/ ProbeTimePasses
  BY <1>2, ApplicationFitting
<1>3. CASE BeginSend
  BY <1>3, BeginFitting
<1>4. CASE Continue
  BY <1>4, BeginFitting, PrepareFitting, SlotsFitting, UploadFitting,
     ApplicationFitting DEF Continue
<1>5. CASE UNCHANGED vars
  BY <1>5 DEF vars, Fitting, Sound, Copying
<1>. QED BY <1>1, <1>2, <1>3, <1>4, <1>5 DEF Next

LEMMA AlwaysFitting == Spec => []Fitting
<1>1. Init => Fitting
  BY InitFitting
<1>2. Fitting /\ [Next]_vars => Fitting'
  BY NextFitting
<1>. QED BY <1>1, <1>2, PTL DEF Spec

(* QueueReadbackAndMapReady copies between textures of one size, and the   *)
(* uploads find m_outputWidth by m_outputHeight pixels in what is mapped,  *)
(* whatever happened to the geometry, the device or the pools before.      *)
THEOREM CopiesAlwaysFit == Spec => []CopiesFit
<1>1. Fitting => CopiesFit
  BY DEF Fitting, CopiesFit, PoolOf, Copying
<1>. QED BY <1>1, AlwaysFitting, PTL

-----------------------------------------------------------------------------
(* A staged policy stays pending until the driver has it.                  *)

(* Nothing on the way to the first copy touches what is pending.           *)
LEMMA PreparedPending ==
  ASSUME Fitting
  PROVE  /\ Prepared.pending = bridge.pending
         /\ WithNv12(Prepared).pending = bridge.pending
<1> DEFINE f == Refreshed(bridge)
           w == WithCanvas(f)
           k == FrameExKnown(w)
<1>1. Sound(f) /\ f.pending = bridge.pending
  <2>1. Discard(bridge).pending = bridge.pending
        /\ DOMAIN Discard(bridge) = BridgeFields
    BY DiscardSound DEF Fitting, BridgeFields
  <2>2. f.pending = bridge.pending
    BY <2>1 DEF Refreshed, BridgeFields
  <2>. QED BY <2>2, RefreshedSound DEF Fitting
<1>. HIDE DEF f
<1>2. Sound(w) /\ w.pending = f.pending
  <2>1. Discard(f).pending = f.pending /\ DOMAIN Discard(f) = BridgeFields
    BY <1>1, DiscardSound DEF BridgeFields
  <2>2. w.pending = f.pending
    BY <2>1 DEF WithCanvas, BridgeFields
  <2>. QED BY <1>1, <2>2, CanvasSound
<1>. HIDE DEF w
<1>3. k.pending = w.pending /\ DOMAIN k = BridgeFields
  BY <1>2 DEF FrameExKnown, Sound, BridgeFields
<1>. HIDE DEF k
<1>4. Prepared = k
  BY DEF Prepared, f, w, k
<1>5. WithNv12(k).pending = k.pending
  BY <1>3 DEF WithNv12, BridgeFields
<1>. QED BY <1>1, <1>2, <1>3, <1>4, <1>5

(* What a call and the environment do, other than to apply the policy.     *)
LEMMA OthersKeepPending ==
  ASSUME Fitting, Next,
         ~(ApplyPendingPolicy \/ SelectAspect \/ Launch \/ Exit \/ Crash)
  PROVE  bridge'.pending = bridge.pending
<1>0. /\ Sound(bridge) /\ DOMAIN bridge = BridgeFields
      /\ DOMAIN bridge.bgra = {"size", "slots"}
      /\ DOMAIN bridge.nv12 = {"size", "slots"}
  BY DEF Fitting, Sound
<1>1. CASE \/ CameraStarts \/ CameraPauses \/ CameraResumes \/ CameraStops
           \/ HeartbeatElapses \/ HeartbeatTimesOut \/ DeviceArrives
           \/ NewFrame \/ SourceChanges \/ KeepPolicy
  BY <1>1 DEF CameraStarts, CameraPauses, CameraResumes, CameraStops,
              HeartbeatElapses, HeartbeatTimesOut, DeviceArrives,
              NewFrame, SourceChanges, KeepPolicy
<1>2. CASE \/ DeviceLeaves \/ GpuFinishesCopy \/ GpuCatchesUp \/ MapCopy
           \/ ProbeTimePasses
  BY <1>0, <1>2 DEF DeviceLeaves, GpuFinishesCopy, GpuCatchesUp, MapCopy,
                    ProbeTimePasses, BridgeFields
<1>3. CASE PollDriver \/ BeginSend
  BY <1>0, <1>3, ProbedSound DEF PollDriver, BeginSend
<1>4. CASE Connect
  <2>1. \/ UNCHANGED bridge
        \/ bridge' = [bridge EXCEPT !.connected = TRUE]
    BY <1>4 DEF Connect
  <2>. QED BY <1>0, <2>1 DEF BridgeFields
<1>5. CASE Prepare \/ PrepareNv12 \/ Nv12Fails
  <2>1. PICK b \in {Prepared, WithNv12(Prepared)} :
          \/ bridge' = [b EXCEPT !.bgra = Queued(@)]
          \/ bridge' = [b EXCEPT !.nv12 = Queued(@)]
    BY <1>5 DEF Prepare, PrepareNv12, Nv12Fails
  <2>2. DOMAIN b = BridgeFields /\ b.pending = bridge.pending
    BY PreparedPending, PreparedSound, Nv12Sound DEF Sound
  <2>. QED BY <2>1, <2>2 DEF BridgeFields
<1>6. CASE \/ NoCopyReady \/ UploadFrameEx \/ FrameExRefused
           \/ UploadBgr24 \/ Bgr24Refused
  <2>1. UNCHANGED bridge \/ FallBack(bridge)
    BY <1>6 DEF NoCopyReady, UploadFrameEx, FrameExRefused, UploadBgr24,
                Bgr24Refused, Uploaded
  <2>. QED BY <1>0, <2>1 DEF FallBack, BridgeFields
<1>7. CASE ReadStatus
  <2> DEFINE b == NotedRefusal(bridge)
  <2>1. bridge' = b \/ FallBack(b)
    BY <1>7 DEF ReadStatus
  <2>2. DOMAIN b = BridgeFields /\ b.pending = bridge.pending
    BY <1>0 DEF NotedRefusal, BridgeFields
  <2>. HIDE DEF b
  <2>. QED BY <2>1, <2>2 DEF FallBack, BridgeFields
<1>8. CASE Reinitialize
  <2>1. Reinitialized(bridge).pending = bridge.pending
    BY DEF Reinitialized, FreshBridge
  <2>. QED BY <1>8, <2>1 DEF Reinitialize
<1>. QED
  BY <1>1, <1>2, <1>3, <1>4, <1>5, <1>6, <1>7, <1>8
     DEF Next, Environment, Continue

(* ApplyAspectPolicyNow takes the policy off the list once the driver has  *)
(* it; a handle that is there and does not answer is stale.                *)
LEMMA AppliedOrStale ==
  ASSUME Fitting, ApplyPendingPolicy
  PROVE  \/ drv'.policy = bridge'.wanted
         \/ call.pc = "policy" /\ bridge.handle = "stale"
<1>1. CASE Reachable
  <2> DEFINE r == Resized(bridge)
  <2>1. Sound(r) /\ r.wanted = bridge.wanted
    BY ResizedSound DEF Fitting
  <2>2. bridge' = [r EXCEPT !.pending = FALSE]
    BY <1>1 DEF ApplyPendingPolicy
  <2>. HIDE DEF r
  <2>3. bridge'.wanted = bridge.wanted
    BY <2>1, <2>2 DEF Sound, BridgeFields
  <2>4. drv' = ApplyDriverAspectProperties(bridge.wanted)
    BY <1>1 DEF ApplyPendingPolicy, SetDriverProperty
  <2>5. drv'.policy = bridge.wanted
    BY <2>4 DEF ApplyDriverAspectProperties, Fitting, DriverFields
  <2>. QED BY <2>3, <2>5
<1>2. CASE ~Reachable
  BY <1>2 DEF Reachable, ApplyPendingPolicy, Fitting, Sound
<1>. QED BY <1>1, <1>2

(* An aspect policy that was staged is forgotten only when the driver has  *)
(* it, through reconnections, changes of the device and new starts of the  *)
(* bridge; the one exception is ApplyPendingAspectPolicyIfIdle on a stale  *)
(* handle.                                                                 *)
THEOREM StagedPolicyIsKept == Spec => PolicyReachesDriver
<1> DEFINE Reaches ==
      bridge.pending /\ ~bridge'.pending /\ call'.pc # "exited"
        => \/ drv'.policy = bridge'.wanted
           \/ call.pc = "policy" /\ bridge.handle = "stale"
<1>1. ASSUME Fitting, Next
      PROVE  Reaches
  <2>1. CASE ApplyPendingPolicy
    BY <1>1, <2>1, AppliedOrStale
  <2>2. CASE SelectAspect
    <3>1. PICK s \in Size : PolicySet([bridge EXCEPT !.wanted = s])
      BY <2>2 DEF SelectAspect
    <3> DEFINE b == [bridge EXCEPT !.wanted = s]
    <3>2. /\ DOMAIN b = BridgeFields /\ b.handle = bridge.handle
          /\ b.out = bridge.out /\ b.bgra = bridge.bgra
          /\ b.nv12 = bridge.nv12
      BY <1>1 DEF Fitting, Sound, BridgeFields
    <3>3. PolicySet(b)
      BY <3>1
    <3>. HIDE DEF b
    <3>4. Sound(b)
      BY <1>1, <3>2, SameGeometry DEF Fitting, Sound
    <3>. QED BY <1>1, <3>3, <3>4, PolicySetSound
  <2>3. CASE Launch
    BY <1>1, <2>3, AnewSound, PolicySetSound DEF Launch
  <2>4. CASE Exit \/ Crash
    BY <2>4, CallEnds DEF Exit, Crash
  <2>5. CASE ~(ApplyPendingPolicy \/ SelectAspect \/ Launch \/ Exit \/ Crash)
    BY <1>1, <2>5, OthersKeepPending
  <2>. QED BY <2>1, <2>2, <2>3, <2>4, <2>5
<1>2. Fitting /\ [Next]_vars => [Reaches]_vars
  BY <1>1
<1>. QED BY <1>2, AlwaysFitting, PTL DEF Spec, PolicyReachesDriver

=============================================================================
