---------------------------- MODULE HwSim ----------------------------
(***************************************************************************)
(* The frame exchange of the simulated capture hardware                    *)
(* (CHardwareSimulation, driver-project/hwsim.cpp).                        *)
(*                                                                         *)
(* Four kinds of threads meet in it:                                       *)
(*   - control: the pin and PnP callbacks that Start, Pause and Stop;      *)
(*   - uploaders: the property handlers in SetData and SetFrameEx;         *)
(*   - readers: the capture pins in CopyImageToStreamHeader;               *)
(*   - the timer DPC, FakeHardware, which may run on several processors.   *)
(*                                                                         *)
(* One step is one section under m_FrameLock, one interlocked operation,   *)
(* one timer or DPC call, or one end of a copy.  A buffer is a member of   *)
(* Buf and heap says what it holds, so that the address the pool gives out *)
(* again after a free is the same member.  m_LastFrameTime is kept as      *)
(* "zero", "fresh" or "stale" (older than kClientHeartbeatTimeout100ns),   *)
(* m_SetDataAcceptedCount as whether it is positive.  A rejected upload    *)
(* and a copy refused before its pin change only statistics and are left   *)
(* out, as are the geometry fields, which are constant while running.      *)
(***************************************************************************)
EXTENDS Naturals, FiniteSets

CONSTANTS
  Uploader,      \* threads that call SetData or SetFrameEx
  Reader,        \* threads that call CopyImageToStreamHeader
  Dpc,           \* processors on which the timer DPC may run
  Buf,           \* addresses the non-paged pool can give out
  Frame,         \* frames a client uploads
  Allocations,   \* the quadruples of addresses four allocations may return
  NoBuf,         \* the NULL pointer
  Freed,         \* heap contents: not allocated
  Blank,         \* ... zeroed by the allocation
  Torn,          \* ... half written
  Placeholder    \* ... the default frame drawn by Start

ASSUME ActorsFinite ==
  /\ IsFiniteSet(Uploader) /\ IsFiniteSet(Reader) /\ IsFiniteSet(Dpc)

ASSUME SpecialValues ==
  /\ NoBuf \notin Buf
  /\ {Freed, Blank, Torn, Placeholder} \cap Frame = {}
  /\ Freed \notin {Blank, Torn, Placeholder}
  /\ Placeholder \notin {Blank, Torn}

Role == {"synthesis", "temporary", "staging", "default"}

ASSUME AllocationsDisjoint ==
  /\ Allocations \subseteq [Role -> Buf]
  /\ \A b \in Allocations : \A r, s \in Role : r # s => b[r] # b[s]

(* The reads a thread can have pinned with InterlockedIncrement            *)
(* (&m_FrameReadActive): the 3-argument copy pins around the call of the   *)
(* 2-argument one, which pins again.                                       *)
Pin == (Reader \X {"outer", "inner"}) \cup (Dpc \X {"dpc"})

Content == Frame \cup {Freed, Blank, Torn, Placeholder}

VARIABLES
  hardwareState,     \* m_HardwareState
  clientConnected,   \* m_ClientConnected
  lastFrameTime,     \* m_LastFrameTime
  uploadAccepted,    \* m_SetDataAcceptedCount > 0
  buf,               \* the four buffer pointers of the object
  heap,              \* what each address of the pool holds
  dpcActive,         \* m_DpcActive
  frameWriteActive,  \* m_FrameWriteActive
  frameReadActive,   \* m_FrameReadActive
  timerArmed,        \* m_IsrTimer is set
  dpcQueued,         \* m_IsrFakeDpc is in a processor's DPC queue
  ctl, ctlFree,      \* control: where it is, the buffers Stop detached
  upPc, upStage, upFrame,       \* per uploader
  rdPc,                         \* per reader
  dpcPc, dpcSynth, dpcExpired,  \* per DPC
  pin                \* the buffer each pinned read is using

lockVars == <<hardwareState, clientConnected, lastFrameTime, uploadAccepted>>
countVars == <<dpcActive, frameWriteActive, frameReadActive>>
timerVars == <<timerArmed, dpcQueued>>
ctlVars == <<ctl, ctlFree>>
upVars == <<upPc, upStage, upFrame>>
dpcVars == <<dpcPc, dpcSynth, dpcExpired>>
vars == <<lockVars, buf, heap, countVars, timerVars, ctlVars, upVars, rdPc,
          dpcVars, pin>>

Init ==
  /\ hardwareState = "Stopped"
  /\ clientConnected = FALSE
  /\ lastFrameTime = "zero"
  /\ uploadAccepted = FALSE
  /\ buf = [r \in Role |-> NoBuf]
  /\ heap = [b \in Buf |-> Freed]
  /\ dpcActive = 0 /\ frameWriteActive = 0 /\ frameReadActive = 0
  /\ timerArmed = FALSE /\ dpcQueued = FALSE
  /\ ctl = "idle" /\ ctlFree = {}
  /\ upPc = [u \in Uploader |-> "idle"]
  /\ upStage = [u \in Uploader |-> NoBuf]
  /\ upFrame \in [Uploader -> Frame]
  /\ rdPc = [r \in Reader |-> "idle"]
  /\ dpcPc = [d \in Dpc |-> "idle"]
  /\ dpcSynth = [d \in Dpc |-> NoBuf]
  /\ dpcExpired = [d \in Dpc |-> FALSE]
  /\ pin = [p \in Pin |-> NoBuf]

-----------------------------------------------------------------------------
(* Control: Start, Pause and Stop, one call at a time.                     *)

(* m_LastFrameTime as Start and Pause(FALSE) set it.                       *)
FreshIfConnected == IF clientConnected THEN "fresh" ELSE lastFrameTime

(* Start, up to its lock: resets the counters and allocates the buffers.   *)
StartAllocate ==
  /\ ctl = "idle" /\ hardwareState = "Stopped"
  /\ \E b \in Allocations :
       /\ \A r \in Role : heap[b[r]] = Freed
       /\ buf' = b
       /\ heap' = [x \in Buf |->
                     IF x = b["default"] THEN Placeholder
                     ELSE IF \E r \in Role : x = b[r] THEN Blank
                     ELSE heap[x]]
  /\ uploadAccepted' = FALSE
  /\ ctl' = "starting"
  /\ UNCHANGED <<hardwareState, clientConnected, lastFrameTime, countVars,
                 timerVars, ctlFree, upVars, rdPc, dpcVars, pin>>

(* Start with an allocation that fails, or without a synthesizer:          *)
(* ReleaseFrameBuffers undoes it.                                          *)
StartFail ==
  /\ ctl = "idle" /\ hardwareState = "Stopped"
  /\ uploadAccepted' = FALSE
  /\ UNCHANGED <<hardwareState, clientConnected, lastFrameTime, buf, heap,
                 countVars, timerVars, ctlVars, upVars, rdPc, dpcVars, pin>>

(* Start, under its lock.                                                  *)
StartRun ==
  /\ ctl = "starting"
  /\ hardwareState' = "Running"
  /\ lastFrameTime' = IF clientConnected THEN "fresh" ELSE "zero"
  /\ ctl' = "arming"
  /\ UNCHANGED <<clientConnected, uploadAccepted, buf, heap, countVars,
                 timerVars, ctlFree, upVars, rdPc, dpcVars, pin>>

(* The KeSetTimer that ends Start and Pause(FALSE).                        *)
ArmTimer ==
  /\ ctl = "arming"
  /\ timerArmed' = TRUE
  /\ ctl' = "idle"
  /\ UNCHANGED <<lockVars, buf, heap, countVars, dpcQueued, ctlFree, upVars,
                 rdPc, dpcVars, pin>>

(* Pause(FALSE), under its lock.                                           *)
Resume ==
  /\ ctl = "idle" /\ hardwareState = "Paused"
  /\ hardwareState' = "Running"
  /\ lastFrameTime' = FreshIfConnected
  /\ ctl' = "arming"
  /\ UNCHANGED <<clientConnected, uploadAccepted, buf, heap, countVars,
                 timerVars, ctlFree, upVars, rdPc, dpcVars, pin>>

(* KeCancelTimer, the first thing Pause(TRUE) and Stop do.                 *)
CancelTimer ==
  /\ ctl = "idle"
  /\ timerArmed' = FALSE
  /\ ctl' \in {"pauseRemoveDpc", "stopRemoveDpc"}
  /\ UNCHANGED <<lockVars, buf, heap, countVars, dpcQueued, ctlFree, upVars,
                 rdPc, dpcVars, pin>>

(* KeRemoveQueueDpc, the second.                                           *)
RemoveQueuedDpc ==
  /\ \/ ctl = "pauseRemoveDpc" /\ ctl' = "pausing"
     \/ ctl = "stopRemoveDpc" /\ ctl' = "stopping"
  /\ dpcQueued' = FALSE
  /\ UNCHANGED <<lockVars, buf, heap, countVars, timerArmed, ctlFree, upVars,
                 rdPc, dpcVars, pin>>

(* Pause(TRUE), under its lock.                                            *)
PauseLocked ==
  /\ ctl = "pausing"
  /\ hardwareState' = IF hardwareState = "Running" THEN "Paused"
                                                   ELSE hardwareState
  /\ ctl' = "pauseWait"
  /\ UNCHANGED <<clientConnected, lastFrameTime, uploadAccepted, buf, heap,
                 countVars, timerVars, ctlFree, upVars, rdPc, dpcVars, pin>>

(* Faulty: a Pause that does not wait for the active DPCs.                 *)
PauseReturnAtOnce ==
  /\ ctl = "pauseWait"
  /\ ctl' = "idle"
  /\ UNCHANGED <<lockVars, buf, heap, countVars, timerVars, ctlFree, upVars,
                 rdPc, dpcVars, pin>>

(* Pause(TRUE) spins until no DPC is active and returns.                   *)
PauseReturn ==
  /\ ctl = "pauseWait" /\ dpcActive = 0
  /\ ctl' = "idle"
  /\ UNCHANGED <<lockVars, buf, heap, countVars, timerVars, ctlFree, upVars,
                 rdPc, dpcVars, pin>>

(* Stop, under its lock: detaches the buffers from the object.             *)
StopLocked ==
  /\ ctl = "stopping"
  /\ hardwareState' = "Stopped"
  /\ lastFrameTime' = "zero"
  /\ ctlFree' = {buf[r] : r \in Role} \ {NoBuf}
  /\ buf' = [r \in Role |-> NoBuf]
  /\ ctl' = "stopWait"
  /\ UNCHANGED <<clientConnected, uploadAccepted, heap, countVars, timerVars,
                 upVars, rdPc, dpcVars, pin>>

(* Stop spins on the three counters, which it reads one after the other,   *)
(* and starts again at the first when one of them is not zero.             *)
StopSeesNoDpc ==
  /\ ctl = "stopWait" /\ dpcActive = 0
  /\ ctl' = "stopWaitWrites"
  /\ UNCHANGED <<lockVars, buf, heap, countVars, timerVars, ctlFree, upVars,
                 rdPc, dpcVars, pin>>

(* Faulty: does not wait for the reads.                                    *)
StopIgnoresReads ==
  /\ ctl = "stopWaitReads"
  /\ heap' = [b \in Buf |-> IF b \in ctlFree THEN Freed ELSE heap[b]]
  /\ ctlFree' = {}
  /\ ctl' = "idle"
  /\ UNCHANGED <<lockVars, buf, countVars, timerVars, upVars, rdPc, dpcVars,
                 pin>>

StopReadsWrites ==
  /\ ctl = "stopWaitWrites"
  /\ ctl' = IF frameWriteActive = 0 THEN "stopWaitReads" ELSE "stopWait"
  /\ UNCHANGED <<lockVars, buf, heap, countVars, timerVars, ctlFree, upVars,
                 rdPc, dpcVars, pin>>

StopSeesReader ==
  /\ ctl = "stopWaitReads" /\ frameReadActive # 0
  /\ ctl' = "stopWait"
  /\ UNCHANGED <<lockVars, buf, heap, countVars, timerVars, ctlFree, upVars,
                 rdPc, dpcVars, pin>>

(* The last counter is zero, too: Stop frees what it detached and returns. *)
StopReturn ==
  /\ ctl = "stopWaitReads" /\ frameReadActive = 0
  /\ heap' = [b \in Buf |-> IF b \in ctlFree THEN Freed ELSE heap[b]]
  /\ ctlFree' = {}
  /\ ctl' = "idle"
  /\ UNCHANGED <<lockVars, buf, countVars, timerVars, upVars, rdPc, dpcVars,
                 pin>>

Control ==
  \/ StartAllocate \/ StartFail \/ StartRun \/ ArmTimer \/ Resume
  \/ CancelTimer \/ RemoveQueuedDpc \/ PauseLocked \/ PauseReturn
  \/ StopLocked \/ StopSeesNoDpc \/ StopReadsWrites \/ StopSeesReader
  \/ StopReturn

-----------------------------------------------------------------------------
(* Uploaders: SetData and SetFrameEx.                                      *)

(* The checks under the lock that admit an upload.                         *)
MayUpload ==
  /\ hardwareState = "Running"
  /\ buf["temporary"] # NoBuf /\ buf["staging"] # NoBuf
  /\ clientConnected
  /\ frameWriteActive = 0

BeginUpload(u) ==
  /\ upPc[u] = "idle"
  /\ MayUpload
  /\ \E f \in Frame : upFrame' = [upFrame EXCEPT ![u] = f]
  /\ upStage' = [upStage EXCEPT ![u] = buf["staging"]]
  /\ frameWriteActive' = frameWriteActive + 1
  /\ upPc' = [upPc EXCEPT ![u] = "admitted"]
  /\ UNCHANGED <<lockVars, buf, heap, dpcActive, frameReadActive, timerVars,
                 ctlVars, rdPc, dpcVars, pin>>

(* Faulty: an early return that skips the decrement.                       *)
RefuseSourceStillCounted(u) ==
  /\ upPc[u] = "admitted"
  /\ upPc' = [upPc EXCEPT ![u] = "idle"]
  /\ UNCHANGED <<lockVars, buf, heap, countVars, timerVars, ctlVars, upStage,
                 upFrame, rdPc, dpcVars, pin>>

(* A source that is too short, a geometry that overflows or an output      *)
(* format that takes no extended upload: give up after admission.          *)
RefuseSource(u) ==
  /\ upPc[u] = "admitted"
  /\ upPc' = [upPc EXCEPT ![u] = "leaving"]
  /\ UNCHANGED <<lockVars, buf, heap, countVars, timerVars, ctlVars, upStage,
                 upFrame, rdPc, dpcVars, pin>>

(* The conversion into the staging buffer, which is not atomic.            *)
BeginConvert(u) ==
  /\ upPc[u] = "admitted"
  /\ heap' = [heap EXCEPT ![upStage[u]] = Torn]
  /\ upPc' = [upPc EXCEPT ![u] = "converting"]
  /\ UNCHANGED <<lockVars, buf, countVars, timerVars, ctlVars, upStage,
                 upFrame, rdPc, dpcVars, pin>>

EndConvert(u) ==
  /\ upPc[u] = "converting"
  /\ heap' = [heap EXCEPT ![upStage[u]] = upFrame[u]]
  /\ upPc' = [upPc EXCEPT ![u] = "waiting"]
  /\ UNCHANGED <<lockVars, buf, countVars, timerVars, ctlVars, upStage,
                 upFrame, rdPc, dpcVars, pin>>

(* The spin on m_FrameReadActive.                                          *)
SeeNoReader(u) ==
  /\ upPc[u] = "waiting" /\ frameReadActive = 0
  /\ upPc' = [upPc EXCEPT ![u] = "committing"]
  /\ UNCHANGED <<lockVars, buf, heap, countVars, timerVars, ctlVars, upStage,
                 upFrame, rdPc, dpcVars, pin>>

(* Faulty: a commit that relies on the spin alone.                         *)
MayPublishUnderReaders(u) ==
  /\ hardwareState = "Running"
  /\ buf["temporary"] # NoBuf
  /\ buf["staging"] = upStage[u]

(* The checks under the lock that publish the staged frame.                *)
MayPublish(u) ==
  /\ hardwareState = "Running"
  /\ buf["temporary"] # NoBuf
  /\ buf["staging"] = upStage[u]
  /\ frameReadActive = 0

Publish(u) ==
  /\ upPc[u] = "committing" /\ MayPublish(u)
  /\ buf' = [buf EXCEPT !["staging"] = buf["temporary"],
                        !["temporary"] = upStage[u]]
  /\ lastFrameTime' = FreshIfConnected
  /\ upPc' = [upPc EXCEPT ![u] = "accounting"]
  /\ UNCHANGED <<hardwareState, clientConnected, uploadAccepted, heap,
                 countVars, timerVars, ctlVars, upStage, upFrame, rdPc,
                 dpcVars, pin>>

FailToPublish(u) ==
  /\ upPc[u] = "committing" /\ ~MayPublish(u)
  /\ upPc' = [upPc EXCEPT ![u] = "leaving"]
  /\ UNCHANGED <<lockVars, buf, heap, countVars, timerVars, ctlVars, upStage,
                 upFrame, rdPc, dpcVars, pin>>

(* m_SetDataAcceptedCount++, in a lock section of its own.                 *)
AccountUpload(u) ==
  /\ upPc[u] = "accounting"
  /\ uploadAccepted' = TRUE
  /\ upPc' = [upPc EXCEPT ![u] = "leaving"]
  /\ UNCHANGED <<hardwareState, clientConnected, lastFrameTime, buf, heap,
                 countVars, timerVars, ctlVars, upStage, upFrame, rdPc,
                 dpcVars, pin>>

EndUpload(u) ==
  /\ upPc[u] = "leaving"
  /\ frameWriteActive' = frameWriteActive - 1
  /\ upStage' = [upStage EXCEPT ![u] = NoBuf]
  /\ upPc' = [upPc EXCEPT ![u] = "idle"]
  /\ UNCHANGED <<lockVars, buf, heap, dpcActive, frameReadActive, timerVars,
                 ctlVars, upFrame, rdPc, dpcVars, pin>>

-----------------------------------------------------------------------------
(* Pinning a buffer for a read, and unpinning it.                          *)

PinBuf(p, b) ==
  /\ pin' = [pin EXCEPT ![p] = b]
  /\ frameReadActive' = IF b = NoBuf THEN frameReadActive
                                     ELSE frameReadActive + 1

Unpin(p) ==
  /\ pin' = [pin EXCEPT ![p] = NoBuf]
  /\ frameReadActive' = IF pin[p] = NoBuf THEN frameReadActive
                                          ELSE frameReadActive - 1

(* The frame shown while running: what was uploaded, else the default one. *)
SourceFrame ==
  IF (uploadAccepted /\ buf["temporary"] # NoBuf) \/ buf["default"] = NoBuf
  THEN buf["temporary"] ELSE buf["default"]

-----------------------------------------------------------------------------
(* Readers: CopyImageToStreamHeader.                                       *)

(* The 3-argument form while running: pin the uploaded frame, if any.  A   *)
(* pin of the hardware's geometry then calls the 2-argument form; another  *)
(* one resamples the pinned frame, or draws a test pattern, right here.    *)
BeginCopy(r) ==
  /\ rdPc[r] = "idle" /\ hardwareState = "Running"
  /\ PinBuf(<<r, "outer">>, IF uploadAccepted THEN buf["temporary"] ELSE NoBuf)
  /\ \E sameGeometry \in BOOLEAN :
       rdPc' = [rdPc EXCEPT ![r] = IF sameGeometry THEN "direct"
                                                   ELSE "leaving"]
  /\ UNCHANGED <<lockVars, buf, heap, dpcActive, frameWriteActive, timerVars,
                 ctlVars, upVars, dpcVars>>

(* A stream without a usable header goes to the 2-argument form at once.   *)
BeginCopyWithoutHeader(r) ==
  /\ rdPc[r] = "idle"
  /\ rdPc' = [rdPc EXCEPT ![r] = "direct"]
  /\ UNCHANGED <<lockVars, buf, heap, countVars, timerVars, ctlVars, upVars,
                 dpcVars, pin>>

(* The 2-argument form: pin the source, or refuse if the header has no     *)
(* buffer or the hardware no longer runs.                                  *)
PinSource(r) ==
  /\ rdPc[r] = "direct" /\ hardwareState = "Running"
  /\ PinBuf(<<r, "inner">>, SourceFrame)
  /\ rdPc' = [rdPc EXCEPT ![r] = "copying"]
  /\ UNCHANGED <<lockVars, buf, heap, dpcActive, frameWriteActive, timerVars,
                 ctlVars, upVars, dpcVars>>

RefuseCopy(r) ==
  /\ rdPc[r] = "direct"
  /\ rdPc' = [rdPc EXCEPT ![r] = "leaving"]
  /\ UNCHANGED <<lockVars, buf, heap, countVars, timerVars, ctlVars, upVars,
                 dpcVars, pin>>

EndDirectCopy(r) ==
  /\ rdPc[r] = "copying"
  /\ Unpin(<<r, "inner">>)
  /\ rdPc' = [rdPc EXCEPT ![r] = "leaving"]
  /\ UNCHANGED <<lockVars, buf, heap, dpcActive, frameWriteActive, timerVars,
                 ctlVars, upVars, dpcVars>>

EndCopy(r) ==
  /\ rdPc[r] = "leaving"
  /\ Unpin(<<r, "outer">>)
  /\ rdPc' = [rdPc EXCEPT ![r] = "idle"]
  /\ UNCHANGED <<lockVars, buf, heap, dpcActive, frameWriteActive, timerVars,
                 ctlVars, upVars, dpcVars>>

-----------------------------------------------------------------------------
(* The timer and its DPC, FakeHardware.                                    *)

TimerExpires ==
  /\ timerArmed
  /\ timerArmed' = FALSE
  /\ dpcQueued' = TRUE
  /\ UNCHANGED <<lockVars, buf, heap, countVars, ctlVars, upVars, rdPc,
                 dpcVars, pin>>

(* The DPC leaves its queue; nothing counts it yet.                        *)
DpcDispatch(d) ==
  /\ dpcQueued /\ dpcPc[d] = "idle"
  /\ dpcQueued' = FALSE
  /\ dpcPc' = [dpcPc EXCEPT ![d] = "entered"]
  /\ UNCHANGED <<lockVars, buf, heap, countVars, timerArmed, ctlVars, upVars,
                 rdPc, dpcSynth, dpcExpired, pin>>

DpcCount(d) ==
  /\ dpcPc[d] = "entered"
  /\ dpcActive' = dpcActive + 1
  /\ dpcPc' = [dpcPc EXCEPT ![d] = "counted"]
  /\ UNCHANGED <<lockVars, buf, heap, frameWriteActive, frameReadActive,
                 timerVars, ctlVars, upVars, rdPc, dpcSynth, dpcExpired, pin>>

(* The snapshot under the lock.  The heartbeat test that follows the copy  *)
(* compares this snapshot with the time of the test, which may be past the *)
(* timeout by then; its outcome is decided here.                           *)
DpcSnapshot(d) ==
  /\ dpcPc[d] = "counted"
  /\ \E expiresMeanwhile \in BOOLEAN :
       dpcExpired' = [dpcExpired EXCEPT ![d] =
         /\ hardwareState = "Running" /\ clientConnected /\ uploadAccepted
         /\ \/ lastFrameTime = "stale"
            \/ lastFrameTime = "fresh" /\ expiresMeanwhile]
  /\ \/ /\ hardwareState = "Running"
        /\ dpcSynth' = [dpcSynth EXCEPT ![d] = buf["synthesis"]]
        /\ PinBuf(<<d, "dpc">>, SourceFrame)
        /\ dpcPc' = [dpcPc EXCEPT ![d] = "copying"]
     \/ /\ hardwareState # "Running"
        /\ dpcPc' = [dpcPc EXCEPT ![d] = "checking"]
        /\ UNCHANGED <<dpcSynth, pin, frameReadActive>>
  /\ UNCHANGED <<lockVars, buf, heap, dpcActive, frameWriteActive, timerVars,
                 ctlVars, upVars, rdPc>>

(* The copy into the synthesis buffer is over.                             *)
DpcEndCopy(d) ==
  /\ dpcPc[d] = "copying"
  /\ Unpin(<<d, "dpc">>)
  /\ dpcSynth' = [dpcSynth EXCEPT ![d] = NoBuf]
  /\ dpcPc' = [dpcPc EXCEPT ![d] = IF dpcExpired[d] THEN "disconnecting"
                                                    ELSE "interrupting"]
  /\ UNCHANGED <<lockVars, buf, heap, dpcActive, frameWriteActive, timerVars,
                 ctlVars, upVars, rdPc, dpcExpired>>

(* The heartbeat: the client has been silent for too long.                 *)
DpcDisconnect(d) ==
  /\ dpcPc[d] = "disconnecting"
  /\ clientConnected' = FALSE
  /\ dpcPc' = [dpcPc EXCEPT ![d] = "interrupting"]
  /\ UNCHANGED <<hardwareState, lastFrameTime, uploadAccepted, buf, heap,
                 countVars, timerVars, ctlVars, upVars, rdPc, dpcSynth,
                 dpcExpired, pin>>

(* m_HardwareSink->Interrupt() returns.                                    *)
DpcInterrupt(d) ==
  /\ dpcPc[d] = "interrupting"
  /\ dpcPc' = [dpcPc EXCEPT ![d] = "checking"]
  /\ UNCHANGED <<lockVars, buf, heap, countVars, timerVars, ctlVars, upVars,
                 rdPc, dpcSynth, dpcExpired, pin>>

(* Is the hardware still running?  Read under the lock, used after it.     *)
DpcCheckState(d) ==
  /\ dpcPc[d] = "checking"
  /\ dpcPc' = [dpcPc EXCEPT ![d] = IF hardwareState = "Running" THEN "rearming"
                                                                ELSE "leaving"]
  /\ UNCHANGED <<lockVars, buf, heap, countVars, timerVars, ctlVars, upVars,
                 rdPc, dpcSynth, dpcExpired, pin>>

DpcRearm(d) ==
  /\ dpcPc[d] = "rearming"
  /\ timerArmed' = TRUE
  /\ dpcPc' = [dpcPc EXCEPT ![d] = "leaving"]
  /\ UNCHANGED <<lockVars, buf, heap, countVars, dpcQueued, ctlVars, upVars,
                 rdPc, dpcSynth, dpcExpired, pin>>

DpcLeave(d) ==
  /\ dpcPc[d] = "leaving"
  /\ dpcActive' = dpcActive - 1
  /\ dpcPc' = [dpcPc EXCEPT ![d] = "idle"]
  /\ dpcExpired' = [dpcExpired EXCEPT ![d] = FALSE]
  /\ UNCHANGED <<lockVars, buf, heap, frameWriteActive, frameReadActive,
                 timerVars, ctlVars, upVars, rdPc, dpcSynth, pin>>

-----------------------------------------------------------------------------
(* The client's connection, and time.                                      *)

SetClientConnected(connected) ==
  /\ clientConnected' = connected
  /\ lastFrameTime' = IF connected THEN "fresh" ELSE "zero"
  /\ UNCHANGED <<hardwareState, uploadAccepted, buf, heap, countVars,
                 timerVars, ctlVars, upVars, rdPc, dpcVars, pin>>

HeartbeatTimeoutPasses ==
  /\ lastFrameTime = "fresh"
  /\ lastFrameTime' = "stale"
  /\ UNCHANGED <<hardwareState, clientConnected, uploadAccepted, buf, heap,
                 countVars, timerVars, ctlVars, upVars, rdPc, dpcVars, pin>>

-----------------------------------------------------------------------------
(* An uploader, a reader or a DPC that has begun goes on to its end.       *)
UploadStep(u) ==
  \/ RefuseSource(u) \/ BeginConvert(u) \/ EndConvert(u) \/ SeeNoReader(u)
  \/ Publish(u) \/ FailToPublish(u) \/ AccountUpload(u) \/ EndUpload(u)

CopyStep(r) ==
  PinSource(r) \/ RefuseCopy(r) \/ EndDirectCopy(r) \/ EndCopy(r)

DpcStep(d) ==
  \/ DpcCount(d) \/ DpcSnapshot(d) \/ DpcEndCopy(d) \/ DpcDisconnect(d)
  \/ DpcInterrupt(d) \/ DpcCheckState(d) \/ DpcRearm(d) \/ DpcLeave(d)

Next ==
  \/ Control
  \/ \E u \in Uploader : BeginUpload(u) \/ UploadStep(u)
  \/ \E r \in Reader : BeginCopy(r) \/ BeginCopyWithoutHeader(r) \/ CopyStep(r)
  \/ TimerExpires
  \/ \E d \in Dpc : DpcDispatch(d) \/ DpcStep(d)
  \/ \E connected \in BOOLEAN : SetClientConnected(connected)
  \/ HeartbeatTimeoutPasses

Spec == Init /\ [][Next]_vars

(* A thread inside a call keeps running, and a spin sees a counter that    *)
(* stays at zero.  Nobody is obliged to begin a call.                      *)
Fairness ==
  /\ WF_vars(ctl # "idle" /\ Control)
  /\ \A u \in Uploader : WF_vars(UploadStep(u))
  /\ \A r \in Reader : WF_vars(CopyStep(r))
  /\ \A d \in Dpc : WF_vars(DpcStep(d))

FairSpec == Spec /\ Fairness
-----------------------------------------------------------------------------
(* Properties.                                                             *)

Control_pc == {"idle", "starting", "arming", "pauseRemoveDpc", "pausing",
               "pauseWait", "stopRemoveDpc", "stopping", "stopWait",
               "stopWaitWrites", "stopWaitReads"}

Upload_pc == {"idle", "admitted", "converting", "waiting", "committing",
              "accounting", "leaving"}

Copy_pc == {"idle", "direct", "copying", "leaving"}

Dpc_pc == {"idle", "entered", "counted", "copying", "disconnecting",
           "interrupting", "checking", "rearming", "leaving"}

(* Every variable has a value of its type (the fields of                   *)
(* CHardwareSimulation, hwsim.h, and the positions in its methods).        *)
TypeOK ==
  /\ hardwareState \in {"Stopped", "Running", "Paused"}
  /\ clientConnected \in BOOLEAN
  /\ lastFrameTime \in {"zero", "fresh", "stale"}
  /\ uploadAccepted \in BOOLEAN
  /\ buf \in [Role -> Buf \cup {NoBuf}]
  /\ heap \in [Buf -> Content]
  /\ dpcActive \in Nat /\ frameWriteActive \in Nat /\ frameReadActive \in Nat
  /\ timerArmed \in BOOLEAN /\ dpcQueued \in BOOLEAN
  /\ ctl \in Control_pc /\ ctlFree \in SUBSET Buf
  /\ upPc \in [Uploader -> Upload_pc]
  /\ upStage \in [Uploader -> Buf \cup {NoBuf}]
  /\ upFrame \in [Uploader -> Frame]
  /\ rdPc \in [Reader -> Copy_pc]
  /\ dpcPc \in [Dpc -> Dpc_pc]
  /\ dpcSynth \in [Dpc -> Buf \cup {NoBuf}]
  /\ dpcExpired \in [Dpc -> BOOLEAN]
  /\ pin \in [Pin -> Buf \cup {NoBuf}]

(* The three activity counters Stop and the writers wait on say exactly    *)
(* who is at work: the pinned reads, the admitted upload (there is at most *)
(* one) and the DPCs between their increment and their decrement.          *)
CountersExact ==
  /\ frameReadActive = Cardinality({p \in Pin : pin[p] # NoBuf})
  /\ dpcActive = Cardinality({d \in Dpc : dpcPc[d] \notin {"idle", "entered"}})
  /\ frameWriteActive = Cardinality({u \in Uploader : upPc[u] # "idle"})
  /\ frameWriteActive <= 1

(* No buffer is freed while somebody can still touch it: the object's own  *)
(* pointers, a pinned read, an admitted upload, the synthesis buffer a DPC *)
(* copies into (Stop frees only after the counters are zero).              *)
NoUseAfterFree ==
  /\ \A r \in Role : buf[r] # NoBuf => heap[buf[r]] # Freed
  /\ \A p \in Pin : pin[p] # NoBuf => heap[pin[p]] # Freed
  /\ \A u \in Uploader : upPc[u] # "idle" => heap[upStage[u]] # Freed
  /\ \A d \in Dpc : dpcSynth[d] # NoBuf => heap[dpcSynth[d]] # Freed

(* A pinned read sees a complete picture, never a half-written buffer and  *)
(* never the zeroes of a fresh allocation, and the read that is only made  *)
(* of uploaded frames sees one (SetData, SetFrameEx against the two forms  *)
(* of CopyImageToStreamHeader and FakeHardware).                           *)
ReadersSeeWholeFrames ==
  /\ \A p \in Pin : pin[p] # NoBuf => heap[pin[p]] \in Frame \cup {Placeholder}
  /\ \A r \in Reader :
       pin[<<r, "outer">>] # NoBuf => heap[pin[<<r, "outer">>]] \in Frame

(* The buffer an upload converts into is nobody else's: not what a read    *)
(* has pinned, not what readers will be shown, not what a DPC writes.      *)
UploaderOwnsStaging ==
  \A u \in Uploader :
    upPc[u] \in {"admitted", "converting", "waiting", "committing"} =>
    /\ upStage[u] \in Buf
    /\ \A p \in Pin : pin[p] # upStage[u]
    /\ \A d \in Dpc : dpcSynth[d] # upStage[u]
    /\ buf["temporary"] # upStage[u] /\ buf["default"] # upStage[u]

(* Once Stop or Pause has returned, no DPC is between the check that the   *)
(* hardware runs and the return of the sink's Interrupt: no frame is       *)
(* copied and no capture pin is called back any more.                      *)
NoInterruptAfterStop ==
  ctl = "idle" /\ hardwareState # "Running" =>
    \A d \in Dpc : dpcPc[d] \notin {"copying", "disconnecting", "interrupting"}

Allocated == {b \in Buf : heap[b] # Freed}

(* Once Stop has returned nothing uses the old run's buffers: no upload in *)
(* progress and no read pinned, so that Start may set the fields that      *)
(* m_FrameLock protects without holding it, and all of the pool is free.   *)
StoppedIsQuiet ==
  ctl = "idle" /\ hardwareState = "Stopped" =>
    /\ \A u \in Uploader : upPc[u] = "idle"
    /\ \A p \in Pin : pin[p] = NoBuf
    /\ Allocated = {}

(* Every Stop and every Pause returns: their spins on the counters end,    *)
(* since nobody new is counted once the state has changed.                 *)
StopReturns ==
  ctl \in {"stopRemoveDpc", "stopping", "stopWait", "stopWaitWrites",
           "stopWaitReads"} ~> ctl = "idle"

PauseReturns ==
  ctl \in {"pauseRemoveDpc", "pausing", "pauseWait"} ~> ctl = "idle"

(* Both: PnpStop, SetPower and the pins' SetState wait for them.           *)
WaitsEnd == StopReturns /\ PauseReturns

(* The exchange implements the mailbox: swapping the staging and temporary *)
(* pointers publishes a frame at once, and a pinned buffer is a picture in *)
(* its holder's hands.                                                     *)
latestFrame ==
  IF buf["temporary"] # NoBuf /\ heap[buf["temporary"]] \in Frame
  THEN heap[buf["temporary"]] ELSE Freed

pictureHeld == [p \in Pin |-> IF pin[p] = NoBuf THEN Freed ELSE heap[pin[p]]]

Mailbox ==
  INSTANCE FrameMailbox WITH
    Holder <- Pin, Nothing <- Freed,
    open <- hardwareState = "Running", latest <- latestFrame,
    held <- pictureHeld

MailboxImplemented == Mailbox!MailboxSpec
=============================================================================
