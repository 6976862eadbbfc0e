------------------------- MODULE CaptureDevice -------------------------
(***************************************************************************)
(* The capture device and the state changes of its pins (CCaptureDevice,   *)
(* driver-project/device.cpp, and CCapturePin::SetState, DispatchCreate    *)
(* and DispatchClose, driver-project/capture.cpp).                         *)
(*                                                                         *)
(* Every filter instance has one capture pin, and all of them share one    *)
(* simulated hardware: the first pin to acquire configures it, the first   *)
(* to run starts it, the last to stop running pauses it and the last to    *)
(* release stops it.  Plug and play and power callbacks stop and restart   *)
(* it under the pins.  The hardware itself is module HwSim; here its Start,*)
(* Pause and Stop are single steps on hw.                                  *)
(*                                                                         *)
(* A step is one interlocked operation, one call of the hardware or one    *)
(* stretch of code between two of them.  With Serialized the framework     *)
(* runs one callback at a time; without, pins of different graphs          *)
(* interleave ("we can have a filter in another graph going                *)
(* simultaneously", device.cpp:724).  A refused request changes nothing    *)
(* and is left out, and so are the filter factory and the DMA adapter.     *)
(***************************************************************************)
EXTENDS Integers, FiniteSets

CONSTANTS
  Pin,          \* the capture pins, one per filter instance
  NoPin,        \* an empty slot of m_CaptureSinks
  MaxSinks,     \* CAPTURE_FILTER_PIN_COUNT
  Serialized,   \* the framework runs one callback at a time
  Events,       \* what may happen to the device, a subset of AllEvents
  StartMayFail, \* the hardware may fail to allocate its buffers
  CallsAsleep   \* pins may be asked to run while the device sleeps

AllEvents == {"rebalance", "queryRemove", "surprise", "power"}

ASSUME DeviceConstants ==
  /\ IsFiniteSet(Pin) /\ NoPin \notin Pin
  /\ MaxSinks \in Nat \ {0}
  /\ Serialized \in BOOLEAN /\ StartMayFail \in BOOLEAN
  /\ CallsAsleep \in BOOLEAN
  /\ Events \subseteq AllEvents

VARIABLES
  \* framework
  pinState,         \* KSSTATE of each pin, "closed" or "closing"
  pnp, asleep,      \* plug and play state of the device; not in D0
  stale,            \* history: a rebalance took resources that pins still
                    \* believe they have
  \* CCapturePin
  pinHw,            \* m_HardwareState of the pin
  acquired,         \* m_AcquiredResources
  \* CCaptureDevice
  pinsWithResources, runningPinCount,
  sinks, sinkCount, \* m_CaptureSinks, m_CaptureSinkCount
  configured,       \* m_VideoInfoHeader and m_ImageSynth are set
  removePending,
  powerSaved, powerRestart,  \* m_PowerSavedHardwareState, m_PowerRestartPending
  \* CHardwareSimulation
  hw,               \* m_HardwareState of the hardware
  hwSynth,          \* its m_ImageSynth: "none", "live" or "dangling";
                    \* "failed" is "none" since a Start that failed
  requested,        \* the client request event is set
  \* callbacks
  pc, next, reg,    \* per pin: where it is, where it goes on, a local
  pnpPc, pnpReg     \* the plug and play thread

pinVars == <<pinState, pinHw, acquired>>
sinkVars == <<sinks, sinkCount, configured>>
powerVars == <<powerSaved, powerRestart>>
deviceVars ==
  <<pinsWithResources, runningPinCount, sinkVars, removePending, powerVars>>
hwVars == <<hw, hwSynth, requested>>
localVars == <<next, reg>>
pnpVars == <<pnp, asleep, stale, pnpPc, pnpReg>>
vars == <<pinVars, deviceVars, hwVars, pc, localVars, pnpVars>>

HardwareState == {"Stopped", "Paused", "Running"}
Slot == 0 .. MaxSinks - 1
NoSinks == [i \in Slot |-> NoPin]
Holders == {p \in Pin : acquired[p]}
Tracked == {sinks[i] : i \in {j \in Slot : j < sinkCount}} \ {NoPin}

Init ==
  /\ pinState = [p \in Pin |-> "closed"]
  /\ pnp = "started" /\ asleep = FALSE /\ stale = FALSE
  /\ pinHw = [p \in Pin |-> "Stopped"]
  /\ acquired = [p \in Pin |-> FALSE]
  /\ pinsWithResources = 0 /\ runningPinCount = 0
  /\ sinks = NoSinks /\ sinkCount = 0 /\ configured = FALSE
  /\ removePending = FALSE
  /\ powerSaved = "Stopped" /\ powerRestart = FALSE
  /\ hw = "Stopped" /\ hwSynth = "none"
  /\ requested = FALSE
  /\ pc = [p \in Pin |-> "idle"]
  /\ next = [p \in Pin |-> "idle"]
  /\ reg = [p \in Pin |-> 0]
  /\ pnpPc = "idle" /\ pnpReg = 0

AllIdle == pnpPc = "idle" /\ \A p \in Pin : pc[p] = "idle"

(* The framework may enter a callback of p.                                *)
MayCall(p) == pc[p] = "idle" /\ (Serialized => AllIdle)

Goto(p, l) == pc' = [pc EXCEPT ![p] = l]

-----------------------------------------------------------------------------
(* The hardware, as the device calls it.                                   *)

HwPause == hw' = (IF hw = "Running" THEN "Paused" ELSE hw)
HwResume == hw' = (IF hw = "Paused" THEN "Running" ELSE hw)
HwStop == hw' = "Stopped" /\ hwSynth' = "none"

(* A call of CHardwareSimulation::Start that succeeds.                     *)
HwStart == hw' = "Running" /\ hwSynth' = "live"
(* ... and one that fails: ReleaseFrameBuffers forgets the synthesizer.    *)
HwStartFails == StartMayFail /\ hwSynth' = "failed" /\ UNCHANGED hw

(* "delete m_ImageSynth", of which the hardware may still hold the address.*)
DeleteSynth == hwSynth' = (IF hwSynth = "live" THEN "dangling" ELSE hwSynth)

-----------------------------------------------------------------------------
(* DispatchCreate, and StartPinStream, called by SetState(KSSTATE_RUN).    *)

Open(p) ==
  /\ pinState[p] = "closed" /\ pnp = "started" /\ MayCall(p)
  /\ ~removePending
  /\ pinState' = [pinState EXCEPT ![p] = "stop"]
  /\ pinHw' = [pinHw EXCEPT ![p] = "Stopped"]
  /\ acquired' = [acquired EXCEPT ![p] = FALSE]
  /\ UNCHANGED <<deviceVars, hwVars, localVars, pnpVars, pc>>

(* A request to raise the state of p reaches SetState.                     *)
MayRaise(p) ==
  /\ MayCall(p) /\ pnp = "started" /\ (asleep => CallsAsleep)

BeginRun(p) ==
  /\ pinState[p] = "pause" /\ MayRaise(p)
  /\ ~removePending
  /\ Goto(p, "runCount")
  /\ UNCHANGED <<pinVars, deviceVars, hwVars, localVars, pnpVars>>

RunCount(p) ==
  /\ pc[p] = "runCount"
  /\ runningPinCount' = runningPinCount + 1
  /\ Goto(p, "runCheck")
  /\ UNCHANGED <<pinVars, hwVars, localVars, pnpVars, sinkVars, powerVars,
                 pinsWithResources, removePending>>

(* GetHardwareState decides what to do; the state may change before it is  *)
(* done.                                                                   *)
RunCheck(p) ==
  /\ pc[p] = "runCheck"
  /\ Goto(p, [Running |-> "runDone", Paused |-> "runResume",
              Stopped |-> "runStart"][hw])
  /\ UNCHANGED <<pinVars, deviceVars, hwVars, localVars, pnpVars>>

RunResume(p) ==
  /\ pc[p] = "runResume"
  /\ HwResume
  /\ Goto(p, "runDone")
  /\ UNCHANGED <<pinVars, deviceVars, localVars, pnpVars, hwSynth, requested>>

RunStart(p) ==
  /\ pc[p] = "runStart"
  /\ \/ configured /\ HwStart /\ Goto(p, "runDone")
     \/ configured /\ HwStartFails /\ Goto(p, "runUndo")
     \/ ~configured /\ Goto(p, "runUndo") /\ UNCHANGED <<hw, hwSynth>>
  /\ UNCHANGED <<pinVars, deviceVars, localVars, pnpVars, requested>>

CountWithoutPin == runningPinCount - 1

RunUndo(p) ==
  /\ pc[p] = "runUndo"
  /\ runningPinCount' = CountWithoutPin
  /\ Goto(p, "idle")
  /\ UNCHANGED <<pinVars, hwVars, localVars, pnpVars, sinkVars, powerVars,
                 pinsWithResources, removePending>>

RunDone(p) ==
  /\ pc[p] = "runDone"
  /\ pinHw' = [pinHw EXCEPT ![p] = "Running"]
  /\ requested' = TRUE
  /\ pinState' = [pinState EXCEPT ![p] = "run"]
  /\ Goto(p, "idle")
  /\ UNCHANGED <<deviceVars, localVars, pnpVars, acquired, hw, hwSynth>>

-----------------------------------------------------------------------------
(* PausePinStream, called on the way down from RUN; next[p] is where the   *)
(* caller goes on.                                                         *)

BeginPause(p) ==
  /\ pinState[p] = "run" /\ MayCall(p)
  /\ Goto(p, "pauseCheck")
  /\ next' = [next EXCEPT ![p] = "pauseDone"]
  /\ UNCHANGED <<pinVars, deviceVars, hwVars, pnpVars, reg>>

PauseCheck(p) ==
  /\ pc[p] = "pauseCheck"
  /\ Goto(p, IF runningPinCount <= 0 THEN next[p] ELSE "pauseCount")
  /\ UNCHANGED <<pinVars, deviceVars, hwVars, localVars, pnpVars>>

(* Faulty: off by one, the hardware is paused under the last other pin.    *)
OthersRunFaulty(n) == n > 1
OthersRun(n) == n > 0

PauseCount(p) ==
  /\ pc[p] = "pauseCount"
  /\ runningPinCount' = runningPinCount - 1
  /\ Goto(p, IF OthersRun(runningPinCount') THEN next[p] ELSE "pauseHw")
  /\ UNCHANGED <<pinVars, hwVars, localVars, pnpVars, sinkVars, powerVars,
                 pinsWithResources, removePending>>

PauseHw(p) ==
  /\ pc[p] = "pauseHw"
  /\ HwPause
  /\ Goto(p, next[p])
  /\ UNCHANGED <<pinVars, deviceVars, localVars, pnpVars, hwSynth, requested>>

PauseDone(p) ==
  /\ pc[p] = "pauseDone"
  /\ pinHw' = [pinHw EXCEPT ![p] = "Paused"]
  /\ pinState' = [pinState EXCEPT ![p] = "pause"]
  /\ Goto(p, "idle") /\ next' = [next EXCEPT ![p] = "idle"]
  /\ UNCHANGED <<deviceVars, hwVars, pnpVars, acquired, reg>>

(* SetState(KSSTATE_PAUSE, KSSTATE_ACQUIRE) touches no shared state.       *)
PauseFromAcquire(p) ==
  /\ pinState[p] = "acquire" /\ MayRaise(p)
  /\ pinState' = [pinState EXCEPT ![p] = "pause"]
  /\ UNCHANGED <<deviceVars, hwVars, localVars, pnpVars, pinHw, acquired, pc>>

(* SetState(KSSTATE_ACQUIRE, KSSTATE_PAUSE): the pin came through PAUSE,   *)
(* so it has left the running set already.                                 *)
LowerToAcquire(p) ==
  /\ pinState[p] = "pause" /\ MayCall(p)
  /\ ~removePending
  /\ pinHw' = [pinHw EXCEPT ![p] = "Stopped"]
  /\ pinState' = [pinState EXCEPT ![p] = "acquire"]
  /\ UNCHANGED <<deviceVars, hwVars, localVars, pnpVars, acquired, pc>>

-----------------------------------------------------------------------------
(* AcquireHardwareResources, called by SetState(KSSTATE_ACQUIRE) from STOP. *)

BeginAcquire(p) ==
  /\ pinState[p] = "stop" /\ MayRaise(p)
  /\ ~removePending
  /\ Goto(p, "acqClaim")
  /\ UNCHANGED <<pinVars, deviceVars, hwVars, localVars, pnpVars>>

(* InterlockedCompareExchange(&m_PinsWithResources, 1, 0).                 *)
AcqClaim(p) ==
  /\ pc[p] = "acqClaim"
  /\ IF pinsWithResources = 0
     THEN pinsWithResources' = 1 /\ Goto(p, "acqConfigure")
     ELSE UNCHANGED pinsWithResources /\ Goto(p, "acqCheck")
  /\ UNCHANGED <<pinVars, hwVars, localVars, pnpVars, sinkVars, powerVars,
                 runningPinCount, removePending>>

(* The first pin: copies the header and makes the synthesizer, which fails *)
(* for a format it does not know and when memory is short.                 *)
AcqConfigure(p) ==
  /\ pc[p] = "acqConfigure"
  /\ IF configured THEN DeleteSynth ELSE UNCHANGED hwSynth
  /\ \/ configured' = TRUE /\ Goto(p, "acqPublish") /\ UNCHANGED next
     \/ /\ configured' = FALSE
        /\ Goto(p, "release") /\ next' = [next EXCEPT ![p] = "acqFailed"]
  /\ UNCHANGED <<pinVars, pnpVars, powerVars, pinsWithResources,
                 runningPinCount, sinks, sinkCount, removePending, hw,
                 requested, reg>>

AcqPublish(p) ==
  /\ pc[p] = "acqPublish"
  /\ sinks' = [sinks EXCEPT ![0] = p] /\ sinkCount' = 1
  /\ Goto(p, "acqDone")
  /\ UNCHANGED <<pinVars, hwVars, localVars, pnpVars, powerVars,
                 pinsWithResources, runningPinCount, configured,
                 removePending>>

SlotFree == sinkCount < MaxSinks

(* A later pin: needs a header and a free slot.                            *)
AcqCheck(p) ==
  /\ pc[p] = "acqCheck"
  /\ Goto(p, IF ~configured \/ ~SlotFree THEN "idle"
             ELSE IF p \in Tracked THEN "acqDone" ELSE "acqSlot")
  /\ UNCHANGED <<pinVars, deviceVars, hwVars, localVars, pnpVars>>

(* m_CaptureSinks[m_CaptureSinkCount++] = CaptureSink, without a lock.     *)
AcqSlot(p) ==
  /\ pc[p] = "acqSlot"
  /\ reg' = [reg EXCEPT ![p] = sinkCount]
  /\ Goto(p, "acqAppend")
  /\ UNCHANGED <<pinVars, deviceVars, hwVars, pnpVars, next>>

AcqAppend(p) ==
  /\ pc[p] = "acqAppend"
  /\ sinks' = [sinks EXCEPT ![reg[p]] = p] /\ sinkCount' = reg[p] + 1
  /\ Goto(p, "acqCount")
  /\ UNCHANGED <<pinVars, hwVars, localVars, pnpVars, powerVars,
                 pinsWithResources, runningPinCount, configured,
                 removePending>>

AcqCount(p) ==
  /\ pc[p] = "acqCount"
  /\ pinsWithResources' = pinsWithResources + 1
  /\ Goto(p, "acqDone") /\ reg' = [reg EXCEPT ![p] = 0]
  /\ UNCHANGED <<pinVars, hwVars, pnpVars, sinkVars, powerVars,
                 runningPinCount, removePending, next>>

AcqDone(p) ==
  /\ pc[p] = "acqDone"
  /\ acquired' = [acquired EXCEPT ![p] = TRUE]
  /\ pinState' = [pinState EXCEPT ![p] = "acquire"]
  /\ Goto(p, "idle")
  /\ UNCHANGED <<deviceVars, hwVars, localVars, pnpVars, pinHw>>

AcqFailed(p) ==
  /\ pc[p] = "acqFailed"
  /\ Goto(p, "idle") /\ next' = [next EXCEPT ![p] = "idle"]
  /\ UNCHANGED <<pinVars, deviceVars, hwVars, pnpVars, reg>>

-----------------------------------------------------------------------------
(* SetState(KSSTATE_STOP), on the way down and from DispatchClose.         *)

EnterStop(p) ==
  /\ Goto(p, IF pinHw[p] = "Running" THEN "pauseCheck" ELSE "stopLast")
  /\ next' = [next EXCEPT ![p] = "stopLast"]

BeginStop(p) ==
  /\ pinState[p] = "acquire" /\ MayCall(p)
  /\ EnterStop(p)
  /\ UNCHANGED <<pinVars, deviceVars, hwVars, pnpVars, reg>>

Close(p) ==
  /\ pinState[p] \in {"stop", "acquire", "pause", "run"} /\ MayCall(p)
  /\ pinState' = [pinState EXCEPT ![p] = "closing"]
  /\ EnterStop(p)
  /\ UNCHANGED <<deviceVars, hwVars, pnpVars, pinHw, acquired, reg>>

(* Faulty: off by one, no pin is ever the last.                            *)
LastHolderFaulty == sinkCount < 1
LastHolder == sinkCount <= 1

(* releaseLastResource is decided here, before CleanupReferences.          *)
StopLast(p) ==
  /\ pc[p] = "stopLast"
  /\ pinHw' = [pinHw EXCEPT ![p] = "Stopped"]
  /\ Goto(p, IF ~acquired[p] THEN "stopDone"
             ELSE IF LastHolder THEN "stopHw" ELSE "release")
  /\ next' = [next EXCEPT ![p] = "stopReleased"]
  /\ UNCHANGED <<deviceVars, hwVars, pnpVars, pinState, acquired, reg>>

StopHw(p) ==
  /\ pc[p] = "stopHw"
  /\ HwStop
  /\ Goto(p, "release")
  /\ UNCHANGED <<pinVars, deviceVars, localVars, pnpVars, requested>>

(* Faulty: the last slot is cleared, whoever is in it.                     *)
SharedReleaseFaulty(p) ==
  /\ sinks' = [sinks EXCEPT ![sinkCount - 1] = NoPin]
  /\ sinkCount' = sinkCount - 1
  /\ UNCHANGED <<configured, hwSynth, runningPinCount>>

(* ReleaseHardwareResources for one of several sinks: the sinks after the  *)
(* one of p move up.                                                       *)
SharedRelease(p) ==
  LET i == CHOOSE j \in Slot : j < sinkCount /\ sinks[j] = p
  IN  /\ sinks' = [j \in Slot |->
                     IF j < i THEN sinks[j]
                     ELSE IF j < sinkCount - 1 THEN sinks[j + 1]
                     ELSE IF j = sinkCount - 1 THEN NoPin ELSE sinks[j]]
      /\ sinkCount' = sinkCount - 1
      /\ UNCHANGED <<configured, hwSynth, runningPinCount>>

(* ... and otherwise: everything goes.                                     *)
ReleaseAll ==
  /\ IF configured THEN DeleteSynth ELSE UNCHANGED hwSynth
  /\ configured' = FALSE
  /\ sinks' = NoSinks /\ sinkCount' = 0
  /\ runningPinCount' = 0

OneOfSeveral(p) == sinkCount > 1 /\ p \in Tracked

Release(p) ==
  /\ pc[p] = "release"
  /\ IF OneOfSeveral(p)
     THEN SharedRelease(p) /\ Goto(p, "releaseOne")
     ELSE ReleaseAll /\ Goto(p, "releaseAll")
  /\ UNCHANGED <<pinVars, localVars, pnpVars, powerVars, pinsWithResources,
                 removePending, hw, requested>>

ReleaseCount(p) ==
  /\ pc[p] \in {"releaseOne", "releaseAll"}
  /\ pinsWithResources' =
       IF pc[p] = "releaseOne" THEN pinsWithResources - 1 ELSE 0
  /\ Goto(p, next[p])
  /\ UNCHANGED <<pinVars, hwVars, localVars, pnpVars, sinkVars, powerVars,
                 runningPinCount, removePending>>

StopReleased(p) ==
  /\ pc[p] = "stopReleased"
  /\ acquired' = [acquired EXCEPT ![p] = FALSE]
  /\ Goto(p, "stopDone")
  /\ UNCHANGED <<deviceVars, hwVars, localVars, pnpVars, pinState, pinHw>>

RequestAfterStop == requested /\ sinkCount # 0

StopDone(p) ==
  /\ pc[p] = "stopDone"
  /\ requested' = RequestAfterStop
  /\ pinState' = [pinState EXCEPT ![p] =
                    IF pinState[p] = "closing" THEN "closed" ELSE "stop"]
  /\ Goto(p, "idle") /\ next' = [next EXCEPT ![p] = "idle"]
  /\ UNCHANGED <<deviceVars, pnpVars, pinHw, acquired, hw, hwSynth, reg>>

-----------------------------------------------------------------------------
(* Plug and play and power callbacks.  pnpReg is the number of pins with   *)
(* resources that a callback has read.                                     *)

MayCallPnp(e) ==
  /\ e \in Events /\ pnpPc = "idle" /\ (Serialized => AllIdle)
  /\ ~asleep

(* The device is asked to go; it always agrees.                            *)
QueryRemove ==
  /\ pnp = "started" /\ MayCallPnp("queryRemove")
  /\ pnp' = "leaving"
  /\ pnpReg' = pinsWithResources
  /\ removePending' = TRUE
  /\ pnpPc' = "quiet"
  /\ UNCHANGED <<pinVars, hwVars, localVars, sinkVars, powerVars, asleep, stale,
                 pinsWithResources, runningPinCount, pc>>

(* Faulty: off by one, a single pin's hardware is left running.            *)
MustQuietFaulty == pnpReg > 1
MustQuiet == pnpReg > 0

QueryRemoveQuiet ==
  /\ pnpPc = "quiet"
  /\ IF MustQuiet THEN HwStop /\ requested' = FALSE
                   ELSE UNCHANGED hwVars
  /\ pnpPc' = "idle" /\ pnpReg' = 0
  /\ UNCHANGED <<pinVars, deviceVars, localVars, pnp, asleep, stale, pc>>

CancelRemove ==
  /\ pnp = "leaving" /\ MayCallPnp("queryRemove")
  /\ pnp' = "started"
  /\ pnpReg' = pinsWithResources
  /\ removePending' = FALSE
  /\ pnpPc' = "restart"
  /\ UNCHANGED <<pinVars, hwVars, localVars, sinkVars, powerVars, asleep, stale,
                 pinsWithResources, runningPinCount, pc>>

CancelRemoveRestart ==
  /\ pnpPc = "restart"
  /\ IF pnpReg > 0 /\ configured
     THEN \/ HwStart /\ requested' = TRUE
          \/ HwStartFails /\ UNCHANGED requested
     ELSE UNCHANGED hwVars
  /\ pnpPc' = "idle" /\ pnpReg' = 0
  /\ UNCHANGED <<pinVars, deviceVars, localVars, pnp, asleep, stale, pc>>

(* PnpStop, PnpRemove and PnpSurpriseRemoval call QuiesceHardware.         *)
Quiesce(e, from, to) ==
  /\ pnp \in from /\ MayCallPnp(e)
  /\ pnp' = to
  /\ stale' = (stale \/ (to = "stopped" /\ Holders # {}))
  /\ removePending' = (removePending \/ to # "stopped")
  /\ runningPinCount' = 0
  /\ powerRestart' = FALSE /\ powerSaved' = "Stopped"
  /\ pnpPc' = "quiesceStop"
  /\ UNCHANGED <<pinVars, hwVars, localVars, sinkVars, asleep,
                 pinsWithResources, pc, pnpReg>>

PnpStop == Quiesce("rebalance", {"started"}, "stopped")
PnpRemove == Quiesce("queryRemove", {"leaving"}, "gone")
PnpSurpriseRemoval == Quiesce("surprise", {"started", "leaving"}, "gone")

QuiesceStop ==
  /\ pnpPc = "quiesceStop"
  /\ HwStop
  /\ pnpPc' = (IF pinsWithResources # 0 THEN "quiesceRelease" ELSE "idle")
  /\ UNCHANGED <<pinVars, deviceVars, localVars, pnp, asleep, stale, requested, pc,
                 pnpReg>>

QuiesceRelease ==
  /\ pnpPc = "quiesceRelease"
  /\ ReleaseAll
  /\ pnpPc' = "quiesceUnlock"
  /\ UNCHANGED <<pinVars, localVars, powerVars, pnp, asleep, stale, pinsWithResources,
                 removePending, hw, requested, pc, pnpReg>>

QuiesceUnlock ==
  /\ pnpPc = "quiesceUnlock"
  /\ pinsWithResources' = 0
  /\ pnpPc' = "idle"
  /\ UNCHANGED <<pinVars, hwVars, localVars, sinkVars, powerVars, pnp, asleep, stale,
                 runningPinCount, removePending, pc, pnpReg>>

(* The start after a rebalance.                                            *)
PnpStart ==
  /\ pnp = "stopped" /\ MayCallPnp("rebalance")
  /\ pnp' = "started"
  /\ stale' = (Holders # {})
  /\ removePending' = FALSE
  /\ UNCHANGED <<pinVars, hwVars, localVars, sinkVars, powerVars, asleep,
                 pinsWithResources, runningPinCount, pc, pnpPc, pnpReg>>

(* SetPower, leaving D0.                                                   *)
PowerDown ==
  /\ pnp = "started" /\ MayCallPnp("power")
  /\ asleep' = TRUE
  /\ powerSaved' = (IF pinsWithResources # 0 THEN hw ELSE "Stopped")
  /\ powerRestart' = (powerSaved' # "Stopped")
  /\ IF powerRestart' THEN HwStop /\ requested' = FALSE
                      ELSE UNCHANGED hwVars
  /\ UNCHANGED <<pinVars, localVars, sinkVars, pnp, stale, pinsWithResources,
                 runningPinCount, removePending, pc, pnpPc, pnpReg>>

(* A client that was asked for frames before the sleep is asked again.     *)
RequestAfterWake == requested \/ powerSaved = "Running"

(* SetPower, back to D0.                                                   *)
PowerUp ==
  /\ asleep /\ pnpPc = "idle" /\ (Serialized => AllIdle)
  /\ asleep' = FALSE
  /\ IF powerRestart /\ pinsWithResources # 0 /\ configured
     THEN \/ /\ hw' = powerSaved /\ hwSynth' = "live"
             /\ requested' = RequestAfterWake
          \/ HwStartFails /\ UNCHANGED requested
     ELSE UNCHANGED hwVars
  /\ powerRestart' = FALSE /\ powerSaved' = "Stopped"
  /\ UNCHANGED <<pinVars, localVars, sinkVars, pnp, stale, pinsWithResources,
                 runningPinCount, removePending, pc, pnpPc, pnpReg>>

-----------------------------------------------------------------------------
PinStep(p) ==
  \/ Open(p) \/ Close(p)
  \/ BeginAcquire(p) \/ PauseFromAcquire(p) \/ BeginRun(p)
  \/ BeginPause(p) \/ LowerToAcquire(p) \/ BeginStop(p)

RunStep(p) ==
  \/ RunCount(p) \/ RunCheck(p) \/ RunResume(p) \/ RunStart(p) \/ RunUndo(p)
  \/ RunDone(p)

PauseStep(p) == PauseCheck(p) \/ PauseCount(p) \/ PauseHw(p) \/ PauseDone(p)

AcquireStep(p) ==
  \/ AcqClaim(p) \/ AcqConfigure(p) \/ AcqPublish(p) \/ AcqCheck(p)
  \/ AcqSlot(p) \/ AcqAppend(p) \/ AcqCount(p) \/ AcqDone(p) \/ AcqFailed(p)

StopStep(p) ==
  \/ StopLast(p) \/ StopHw(p) \/ Release(p) \/ ReleaseCount(p)
  \/ StopReleased(p) \/ StopDone(p)

PnpStep ==
  \/ QueryRemove \/ QueryRemoveQuiet \/ CancelRemove \/ CancelRemoveRestart
  \/ PnpStop \/ PnpRemove \/ PnpSurpriseRemoval
  \/ QuiesceStop \/ QuiesceRelease \/ QuiesceUnlock \/ PnpStart
  \/ PowerDown \/ PowerUp

Next ==
  \/ PnpStep
  \/ \E p \in Pin : PinStep(p) \/ RunStep(p) \/ PauseStep(p) \/ AcquireStep(p)
                    \/ StopStep(p)

Spec == Init /\ [][Next]_vars

-----------------------------------------------------------------------------
(* Properties.                                                             *)

TypeOK ==
  /\ pinState \in [Pin -> {"closed", "stop", "acquire", "pause", "run",
                           "closing"}]
  /\ pnp \in {"started", "leaving", "stopped", "gone"} /\ asleep \in BOOLEAN
  /\ stale \in BOOLEAN
  /\ pinHw \in [Pin -> HardwareState] /\ acquired \in [Pin -> BOOLEAN]
  /\ pinsWithResources \in Int /\ runningPinCount \in Int
  /\ sinks \in [Slot -> Pin \cup {NoPin}] /\ sinkCount \in 0 .. MaxSinks
  /\ configured \in BOOLEAN /\ removePending \in BOOLEAN
  /\ powerSaved \in HardwareState /\ powerRestart \in BOOLEAN
  /\ hw \in HardwareState /\ hwSynth \in {"none", "live", "dangling", "failed"}
  /\ requested \in BOOLEAN
  /\ reg \in [Pin -> 0 .. MaxSinks]

RunningPins == {p \in Pin : pinHw[p] = "Running"}

(* No callback is in progress and the device is there.                     *)
Settled == AllIdle /\ pnp # "gone"

(* m_RunningPinCount, on which StartPinStream and PausePinStream base      *)
(* starting and pausing the hardware (device.cpp:1001 and 1036), counts    *)
(* the pins that are running: every path that leaves RUN, closing included,*)
(* counts down once and a failed start is undone.                          *)
RunningCountExact ==
  Settled /\ ~stale => runningPinCount = Cardinality(RunningPins)

(* The sinks that get the interrupts are the pins that hold resources, and *)
(* m_PinsWithResources counts them (device.cpp:722 to 845).                *)
SinksExact ==
  Settled /\ ~stale => /\ Tracked = Holders
                       /\ sinkCount = Cardinality(Holders)
                       /\ pinsWithResources = sinkCount

(* The hardware never runs or pauses on a synthesizer that                 *)
(* ReleaseHardwareResources or a new acquisition has deleted               *)
(* (device.cpp:744 and 897): whoever releases last has stopped it.         *)
SynthOutlivesHardware == ~stale /\ hw # "Stopped" => hwSynth = "live"

(* CHardwareSimulation::Start, which takes new buffers without looking at  *)
(* its state (hwsim.cpp:990), is only called when the hardware is stopped: *)
(* what module HwSim assumes of its caller.                                *)
StartCalled ==
  \/ \E p \in Pin : pc[p] = "runStart" /\ pc'[p] # "runStart"
  \/ pnpPc = "restart" /\ pnpPc' # "restart" /\ pnpReg > 0
  \/ asleep /\ ~asleep' /\ powerRestart /\ pinsWithResources # 0

StartsFromStopped == [][StartCalled /\ configured => hw = "Stopped"]_vars

(* A pin that is running has a running hardware, through removals that are *)
(* cancelled and through sleep, unless the hardware failed to start        *)
(* (device.cpp:542, 651 and 1014).                                         *)
RunningPinsServed ==
  Settled /\ ~stale /\ pnp = "started" /\ ~asleep /\ RunningPins # {}
    => hw = "Running" \/ hwSynth = "failed"

(* The client is asked for frames only while some pin holds the camera,    *)
(* and is asked whenever one streams (NotifyCameraState: capture.cpp:961   *)
(* and 1078, device.cpp:520, 545, 642 and 657).                            *)
RequestMatchesStreams ==
  Settled /\ ~stale => /\ requested => Holders # {}
                       /\ RunningPins # {} /\ hw = "Running" => requested

(* Between callbacks the device's books agree: the count of running pins,  *)
(* the sinks, the resources and the request to the client (device.cpp:722  *)
(* to 1047, capture.cpp:961 and 1078).                                     *)
StreamsAccounted == RunningCountExact /\ SinksExact /\ RequestMatchesStreams

(* When no pin holds the camera it is off and forgotten, whatever came     *)
(* before: counters, sinks, hardware and request are back where they       *)
(* started (capture.cpp:936 to 962, device.cpp:897 to 918).                *)
OffWhenReleased ==
  AllIdle /\ Holders = {} =>
    /\ sinkCount = 0 /\ pinsWithResources = 0 /\ runningPinCount = 0
    /\ ~configured /\ hw = "Stopped" /\ ~requested

=============================================================================
