------------------------ MODULE CaptureDeviceProofs ------------------------
(***************************************************************************)
(* Proofs about the books of CaptureDevice: the counts of running pins, of *)
(* sinks and of resources, the configuration, the request to the client,   *)
(* and when the hardware runs.                                             *)
(*                                                                         *)
(* The argument.  The device counts, and the pins know: so each count is   *)
(* tied to a set of pins, given by where every pin stands, which a         *)
(* callback enters or leaves in the step that changes the count.           *)
(* Counted are the pins m_RunningPinCount stands for, Holding those that   *)
(* the table of sinks and m_PinsWithResources stand for.  The table is     *)
(* exact as long as plug and play took nothing away under the pins (Kept); *)
(* after that it still holds no pin that is not Holding, which is enough   *)
(* for the last pin to leave to take everything down.                      *)
(*                                                                         *)
(* Books needs the framework to run one callback at a time (Serialized);   *)
(* Service, which says when the hardware runs, needs in addition that no   *)
(* pin is asked to run while the device sleeps (~CallsAsleep).             *)
(***************************************************************************)
EXTENDS CaptureDevice, FiniteSetTheorems, TLAPS

(* Where a pin has been counted as running, and where it no longer is.     *)
RunPc == {"runCheck", "runResume", "runStart", "runUndo", "runDone"}
PausePc == {"pauseCheck", "pauseCount", "pauseHw"}
PausedPc == {"pauseHw", "pauseDone", "stopLast"}
AcqPc == {"acqClaim", "acqConfigure", "acqPublish", "acqCheck", "acqSlot",
          "acqAppend", "acqCount", "acqDone", "acqFailed"}
ReleasePc == {"release", "releaseOne", "releaseAll"}
StopPc == {"stopLast", "stopHw", "stopReleased", "stopDone"}
Location ==
  {"idle", "runCount", "pauseDone"} \cup RunPc \cup PausePc \cup AcqPc
    \cup ReleasePc \cup StopPc
PnpLocation ==
  {"idle", "quiet", "restart", "quiesceStop", "quiesceRelease",
   "quiesceUnlock"}

(* The locations of a pin and of the plug and play thread.                 *)
Places ==
  /\ pc \in [Pin -> Location]
  /\ next \in [Pin -> {"idle", "pauseDone", "stopLast", "stopReleased",
                       "acqFailed"}]
  /\ pnpPc \in PnpLocation /\ pnpReg \in Int

(* Callbacks come one at a time.                                           *)
OneAtATime ==
  /\ \A p, q \in Pin : pc[p] # "idle" /\ pc[q] # "idle" => p = q
  /\ pnpPc # "idle" => \A p \in Pin : pc[p] = "idle"

(* What the state of a pin says about its resources.                       *)
AtRest(p) ==
  /\ pinState[p] \in {"closed", "stop"} => ~acquired[p] /\ pinHw[p] = "Stopped"
  /\ pinState[p] = "acquire" /\ pc[p] # "stopDone" => acquired[p]
  /\ pinState[p] \in {"pause", "run"} => acquired[p]
  /\ pinState[p] \in {"acquire", "pause"} => pinHw[p] # "Running"
  /\ pinState[p] = "run" => pinHw[p] = "Running"
  /\ pinState[p] = "closing" => pc[p] \in PausePc \cup StopPc \cup ReleasePc
  /\ pinState[p] = "closing" /\ pinHw[p] = "Running" => acquired[p]

ForStop(p) == pinState[p] \in {"acquire", "closing"}

(* What each stretch of code has established when it is entered.           *)
InRun(p) ==
  /\ pc[p] = "runCount" \/ pc[p] \in RunPc =>
       pinState[p] = "pause" /\ pnp = "started"
  /\ pc[p] = "runResume" => hw = "Paused"
  /\ pc[p] = "runStart" => hw = "Stopped"
  /\ pc[p] = "runDone" => hw = "Running"

InPause(p) ==
  /\ pc[p] \in PausePc =>
       /\ pinHw[p] = "Running"
       /\ \/ next[p] = "pauseDone" /\ pinState[p] = "run"
          \/ next[p] = "stopLast" /\ pinState[p] = "closing"
  /\ pc[p] = "pauseDone" => pinState[p] = "run"

InAcquire(p) ==
  pc[p] \in AcqPc => pinState[p] = "stop" /\ pnp = "started"

InStop(p) ==
  /\ pc[p] \in StopPc => ForStop(p)
  /\ pc[p] \in {"stopHw", "stopReleased"} => acquired[p]
  /\ pc[p] = "stopHw" => next[p] = "stopReleased"
  /\ pc[p] \in ReleasePc =>
       \/ next[p] = "stopReleased" /\ ForStop(p) /\ acquired[p]
       \/ /\ next[p] = "acqFailed" /\ pinState[p] = "stop"
          /\ pc[p] # "releaseOne" /\ pnp = "started"
  /\ pc[p] = "stopDone" => ~acquired[p]
  /\ pc[p] \in {"stopHw", "stopReleased", "stopDone"} \cup ReleasePc =>
       pinHw[p] = "Stopped"

InPnp ==
  /\ pnpPc = "quiet" => pnp = "leaving" /\ pnpReg = pinsWithResources
  /\ pnpPc = "restart" => pnp = "started" /\ pnpReg = pinsWithResources
  /\ pnpPc \in {"quiesceStop", "quiesceRelease", "quiesceUnlock"} =>
       pnp \in {"stopped", "gone"}
  /\ asleep => pnpPc = "idle" /\ pnp = "started"
  /\ pnp = "stopped" /\ ~stale => Holders = {}

PinShape(p) == AtRest(p) /\ InRun(p) /\ InPause(p) /\ InAcquire(p) /\ InStop(p)

Shape == InPnp /\ \A p \in Pin : PinShape(p)

(* The pins that hold sinks and resources, and those counted as running.   *)
Holding ==
  {p \in Pin : \/ /\ acquired[p]
                  /\ pc[p] \notin {"releaseOne", "releaseAll", "stopReleased"}
               \/ pc[p] \in {"acqCount", "acqDone"}}
Streaming == {p \in Pin : pinHw[p] = "Running" /\ pc[p] \notin PausedPc}
Counted == Streaming \cup {p \in Pin : pc[p] \in RunPc}

(* No resources were taken away under a pin.                               *)
Kept == ~stale /\ pnp # "gone"

(* The sinks: no holes, no pin twice, nobody who does not hold, and, while *)
(* nothing was taken away, everybody who does.                             *)
TableSound ==
  /\ \A i \in Slot : i < sinkCount => sinks[i] \in Pin
  /\ \A i, j \in Slot : i < sinkCount /\ j < sinkCount /\ sinks[i] = sinks[j]
                          => i = j
  /\ Tracked \subseteq Holding
  /\ Kept => Holding \subseteq Tracked
  /\ sinkCount = Cardinality(Tracked)

(* A first pin that has claimed the device and has not published itself.   *)
Claims(p) ==
  \/ pc[p] \in {"acqConfigure", "acqPublish"}
  \/ pc[p] = "release" /\ next[p] = "acqFailed"

(* m_PinsWithResources is the number of sinks but for who is between the   *)
(* two.                                                                    *)
ResourcesCounted ==
  /\ \A p \in Pin : Claims(p) => pinsWithResources = 1 /\ sinkCount = 0
  /\ \A p \in Pin : pc[p] = "acqCount" =>
       pinsWithResources = sinkCount - 1 /\ sinkCount > 1
  /\ \A p \in Pin : pc[p] = "releaseOne" =>
       pinsWithResources = sinkCount + 1 /\ sinkCount > 0
  /\ \A p \in Pin : pc[p] = "releaseAll" => sinkCount = 0
  /\ pnpPc = "quiesceUnlock" => sinkCount = 0
  /\ pnpPc = "quiesceRelease" => pinsWithResources # 0
  /\ \/ pinsWithResources = sinkCount
     \/ pnpPc = "quiesceUnlock"
     \/ \E p \in Pin : Claims(p) \/ pc[p] \in {"acqCount", "releaseOne",
                                              "releaseAll"}

(* A pin that appends itself writes the first free slot.                   *)
SlotsFree(p) ==
  /\ pc[p] \in {"acqCheck", "acqSlot", "acqAppend"} => sinkCount > 0
  /\ pc[p] \in {"acqSlot", "acqAppend"} => sinkCount < MaxSinks
  /\ pc[p] = "acqAppend" => reg[p] = sinkCount

ConfigurationHeld ==
  /\ sinkCount > 0 => configured
  /\ \A p \in Pin : pc[p] = "acqPublish" => configured
  /\ configured => sinkCount > 0 \/ \E p \in Pin : pc[p] = "acqPublish"

(* m_RunningPinCount is the number of pins counted.                        *)
RunningCounted == Kept => runningPinCount = Cardinality(Counted)

(* Who leaves last has stopped the hardware and cleared the count.         *)
StopSound(p) ==
  /\ pc[p] = "stopHw" => sinkCount <= 1
  /\ pc[p] \in ReleasePc \cup {"stopReleased"} /\ Holders = {p}
       => hw = "Stopped" /\ pc[p] # "releaseOne"
  /\ pc[p] \in {"releaseAll", "stopReleased"} /\ Holders = {p}
       => runningPinCount = 0
  /\ pc[p] = "release" /\ next[p] = "stopReleased" /\ Kept =>
       (hw = "Stopped" /\ Holding = {p}) \/ sinkCount > 1
  /\ pc[p] = "pauseHw" /\ Kept => Streaming = {}

(* A hardware that is not stopped has a holder.                            *)
HardwareHeld ==
  /\ hw # "Stopped" => Holders # {}
  /\ Holders = {} => runningPinCount = 0
  /\ pnp = "gone" /\ pnpPc # "quiesceStop" => hw = "Stopped"
  /\ pnpPc \in {"quiesceRelease", "quiesceUnlock"} => hw = "Stopped"

(* The client is asked for frames by holders and for streams.              *)
Requests ==
  /\ requested => Holders # {} \/ \E p \in Pin : pc[p] = "stopDone"
  /\ Kept /\ hw = "Running" /\ Streaming # {} =>
       requested \/ \E p \in Pin : pc[p] = "runDone"

(* The inductive invariant of the books.                                   *)
Books ==
  /\ TypeOK /\ Places /\ OneAtATime /\ Shape
  /\ TableSound /\ ResourcesCounted /\ (\A p \in Pin : SlotsFree(p))
  /\ ConfigurationHeld /\ RunningCounted /\ (\A p \in Pin : StopSound(p))
  /\ HardwareHeld /\ Requests

(* ... and what it takes besides for a pin that streams to be served.      *)
Service ==
  /\ ~stale /\ hw # "Stopped" => hwSynth = "live"
  /\ asleep => \A p \in Pin :
       /\ pc[p] # "runCount" /\ pc[p] \notin RunPc \cup AcqPc
       /\ pc[p] \in ReleasePc => next[p] # "acqFailed"
  /\ hwSynth = "failed" => hw = "Stopped"
  /\ Kept /\ Streaming # {} /\ pnp = "started" /\ ~asleep /\ pnpPc # "restart"
       => hw = "Running" \/ hwSynth = "failed"
  /\ Kept /\ Streaming # {} /\ asleep
       => (powerRestart /\ powerSaved = "Running") \/ hwSynth = "failed"
  /\ pnp = "leaving" /\ pnpPc # "quiet" /\ pinsWithResources > 0
       => hw = "Stopped"
  /\ pnpPc = "restart" /\ pnpReg > 0 => hw = "Stopped"
  /\ asleep /\ powerRestart => hw = "Stopped" /\ hwSynth = "none"

-----------------------------------------------------------------------------
USE DEF pinVars, sinkVars, powerVars, deviceVars, hwVars, localVars, pnpVars,
        Goto, HardwareState, RunPc, PausePc, PausedPc, AcqPc, ReleasePc, StopPc

(* The sets of pins are finite.                                            *)
LEMMA SetsFinite ==
  /\ IsFiniteSet(Counted) /\ IsFiniteSet(Holding) /\ IsFiniteSet(Holders)
  /\ IsFiniteSet(RunningPins)
<1>1. /\ Counted \subseteq Pin /\ Holding \subseteq Pin /\ Holders \subseteq Pin
      /\ RunningPins \subseteq Pin
  BY DEF Counted, Streaming, Holding, Holders, RunningPins
<1>. QED BY <1>1, FS_Subset, DeviceConstants

(* What the number of sinks says about who is in the table.                *)
LEMMA TableSize ==
  ASSUME TypeOK, TableSound
  PROVE  /\ IsFiniteSet(Tracked)
         /\ sinkCount = 0 <=> Tracked = {}
         /\ \A p : Tracked \subseteq {p} => sinkCount <= 1
         /\ \A p \in Tracked : sinkCount <= 1 => Tracked = {p}
<1>1. IsFiniteSet(Tracked)
  <2>1. Tracked \subseteq Holding BY DEF TableSound
  <2>. QED BY <2>1, SetsFinite, FS_Subset
<1>2. sinkCount = Cardinality(Tracked) /\ sinkCount \in Nat
  BY DEF TableSound, TypeOK
<1>3. sinkCount = 0 <=> Tracked = {}
  BY <1>1, <1>2, FS_EmptySet
<1>4. ASSUME NEW p, Tracked \subseteq {p} PROVE sinkCount <= 1
  <2>1. Cardinality(Tracked) <= Cardinality({p}) /\ Cardinality({p}) = 1
    BY <1>4, FS_Subset, FS_Singleton
  <2>. QED BY <2>1, <1>2
<1>5. ASSUME NEW p \in Tracked, sinkCount <= 1 PROVE Tracked = {p}
  <2>1. Tracked # {} BY <1>5
  <2>2. sinkCount = 1 BY <2>1, <1>2, <1>3, <1>5
  <2>3. PICK x : Tracked = {x} BY <2>2, <1>1, <1>2, FS_Singleton
  <2>. QED BY <2>3, <1>5
<1>. QED BY <1>1, <1>3, <1>4, <1>5

(* Who streams holds a sink, and who holds a sink has acquired.            *)
LEMMA StreamsHold ==
  ASSUME Books
  PROVE  /\ Counted \subseteq Holding /\ Streaming \subseteq Holding
         /\ \A p \in Holding : p \in Holders \/ pc[p] \in {"acqCount", "acqDone"}
<1>1. TypeOK /\ Places /\ \A p \in Pin : PinShape(p)
  BY DEF Books, Shape
<1>2. ASSUME NEW p \in Counted PROVE p \in Holding
  BY <1>1 DEF Counted, Streaming, Holding, TypeOK, Places, Location, PinShape,
     AtRest, InRun, InStop, InAcquire, InPause, ForStop
<1>. QED BY <1>2 DEF Counted, Holding, Holders

(* While no pin is in a callback, the holders are those who have acquired. *)
LEMMA QuietTable ==
  ASSUME Books, \A p \in Pin : pc[p] = "idle"
  PROVE  /\ Holding = Holders
         /\ sinkCount > 0 => Holders # {}
         /\ Kept /\ Holders # {} => sinkCount > 0
         /\ Kept /\ Streaming # {} => sinkCount > 0
         /\ Holders = {} =>
              Counted = {} /\ Streaming = {} /\ Cardinality(Counted) = 0
<1>1. TypeOK /\ TableSound BY DEF Books
<1>2. Holding = Holders BY DEF Holding, Holders
<1>3. /\ sinkCount > 0 => Holders # {}
      /\ Kept /\ Holders # {} => sinkCount > 0
  BY <1>1, <1>2, TableSize DEF TableSound, TypeOK
<1>. QED BY <1>2, <1>3, StreamsHold, FS_EmptySet

(* ReleaseHardwareResources takes out of the table the pin that releases    *)
(* and no other, and leaves no hole.                                       *)
LEMMA SharedReleaseRemoves ==
  ASSUME TypeOK, TableSound, NEW p \in Pin, p \in Tracked, SharedRelease(p)
  PROVE  /\ Tracked' = Tracked \ {p}
         /\ sinkCount' = Cardinality(Tracked') /\ sinkCount' \in 0 .. MaxSinks
         /\ sinks' \in [Slot -> Pin \cup {NoPin}]
         /\ \A i \in Slot : i < sinkCount' => sinks'[i] \in Pin
         /\ \A i, j \in Slot :
              i < sinkCount' /\ j < sinkCount' /\ sinks'[i] = sinks'[j] => i = j
<1> DEFINE i == CHOOSE j \in Slot : j < sinkCount /\ sinks[j] = p
<1>1. /\ sinks \in [Slot -> Pin \cup {NoPin}] /\ sinkCount \in 0 .. MaxSinks
      /\ \A j \in Slot : j < sinkCount => sinks[j] \in Pin
      /\ \A j, k \in Slot :
           j < sinkCount /\ k < sinkCount /\ sinks[j] = sinks[k] => j = k
  BY DEF TypeOK, TableSound
<1>2. i \in Slot /\ i < sinkCount /\ sinks[i] = p
  <2>1. \E j \in Slot : j < sinkCount /\ sinks[j] = p BY DEF Tracked
  <2>. QED BY <2>1
<1>3. /\ sinks' = [j \in Slot |->
                     IF j < i THEN sinks[j]
                     ELSE IF j < sinkCount - 1 THEN sinks[j + 1]
                     ELSE IF j = sinkCount - 1 THEN NoPin ELSE sinks[j]]
      /\ sinkCount' = sinkCount - 1
  BY DEF SharedRelease
<1> HIDE DEF i
<1>4. MaxSinks \in Nat /\ Slot \subseteq Int
  BY DeviceConstants DEF Slot
<1>5. \A j \in Slot : j < sinkCount - 1 => j + 1 \in Slot /\ j + 1 < sinkCount
  BY <1>1, <1>4 DEF Slot
(* What a slot of the new table comes from.                                *)
<1> DEFINE from(j) == IF j < i THEN j ELSE j + 1
<1>6. \A j \in Slot : j < sinkCount - 1 =>
        /\ from(j) \in Slot /\ from(j) < sinkCount /\ from(j) # i
        /\ sinks'[j] = sinks[from(j)]
  BY <1>2, <1>3, <1>4, <1>5, <1>1
<1>7. \A j, k \in Slot : from(j) = from(k) => j = k
  BY <1>2, <1>4
<1>8. \A j \in Slot : j < sinkCount /\ j # i =>
        \E k \in Slot : k < sinkCount - 1 /\ from(k) = j
  <2>. SUFFICES ASSUME NEW j \in Slot, j < sinkCount, j # i
                PROVE  \E k \in Slot : k < sinkCount - 1 /\ from(k) = j
    OBVIOUS
  <2>1. CASE j < i
    <3>1. j < sinkCount - 1 /\ from(j) = j BY <2>1, <1>2, <1>4, <1>1
    <3>. QED BY <3>1
  <2>2. CASE j > i
    <3>1. /\ j - 1 \in Slot /\ j - 1 < sinkCount - 1
          /\ from(j - 1) = j
      BY <2>2, <1>2, <1>4, <1>1 DEF Slot
    <3>. QED BY <3>1
  <2>. QED BY <2>1, <2>2, <1>2, <1>4
<1> HIDE DEF from
<1>9. \A x : x \in Tracked <=>
               \E j \in Slot : j < sinkCount /\ x = sinks[j] /\ x # NoPin
  BY DEF Tracked
<1>10. \A x : x \in Tracked' <=>
                \E j \in Slot : j < sinkCount - 1 /\ x = sinks'[j] /\ x # NoPin
  BY <1>3 DEF Tracked
<1>11. Tracked' = Tracked \ {p}
  <2>1. ASSUME NEW x \in Tracked' PROVE x \in Tracked \ {p}
    <3>1. PICK j \in Slot : j < sinkCount - 1 /\ x = sinks'[j] /\ x # NoPin
      BY <2>1, <1>10
    <3>2. from(j) \in Slot /\ from(j) < sinkCount /\ from(j) # i /\ x = sinks[from(j)]
      BY <3>1, <1>6
    <3>3. x # p BY <3>2, <1>1, <1>2
    <3>. QED BY <3>1, <3>2, <3>3, <1>9
  <2>2. ASSUME NEW x \in Tracked \ {p} PROVE x \in Tracked'
    <3>1. PICK j \in Slot : j < sinkCount /\ x = sinks[j] /\ x # NoPin
      BY <2>2, <1>9
    <3>2. j # i BY <3>1, <1>2, <2>2
    <3>3. PICK k \in Slot : k < sinkCount - 1 /\ from(k) = j
      BY <3>1, <3>2, <1>8
    <3>. QED BY <3>1, <3>3, <1>6, <1>10
  <2>. QED BY <2>1, <2>2
<1>12. Cardinality(Tracked \ {p}) = sinkCount - 1
  <2>1. IsFiniteSet(Tracked) /\ sinkCount = Cardinality(Tracked)
    BY TableSize DEF TableSound
  <2>. QED BY <2>1, FS_RemoveElement
<1>13. sinkCount' \in 0 .. MaxSinks
  BY <1>1, <1>2, <1>3, <1>4 DEF Slot
<1>14. sinks' \in [Slot -> Pin \cup {NoPin}]
  BY <1>1, <1>3, <1>5
<1>15. \A j \in Slot : j < sinkCount' => sinks'[j] \in Pin
  BY <1>1, <1>3, <1>6
<1>16. \A j, k \in Slot :
         j < sinkCount' /\ k < sinkCount' /\ sinks'[j] = sinks'[k] => j = k
  BY <1>1, <1>3, <1>6, <1>7
<1>. QED BY <1>3, <1>11, <1>12, <1>13, <1>14, <1>15, <1>16

-----------------------------------------------------------------------------
(* The steps of the code, a lemma for each stretch of it.                  *)

(* DispatchCreate, and the calls that enter a change of state.             *)
LEMMA EntersCallback ==
  ASSUME Books, Serialized, NEW p \in Pin, PinStep(p)
  PROVE  Books'
<1> USE DEF PinStep, Open, Close, BeginAcquire, PauseFromAcquire, BeginRun,
          BeginPause, LowerToAcquire, BeginStop, MayCall, MayRaise, EnterStop
<1>1. /\ TypeOK /\ Places /\ OneAtATime /\ InPnp /\ TableSound
      /\ ResourcesCounted /\ ConfigurationHeld /\ RunningCounted
      /\ HardwareHeld /\ Requests
  BY DEF Books, Shape
<1>2. \A q \in Pin : PinShape(q) /\ SlotsFree(q) /\ StopSound(q)
  BY DEF Books, Shape
<1>3. TypeOK' /\ Places'
  <2> USE <1>1, <1>2, DeviceConstants
        DEF TypeOK, Places, Location, PnpLocation, SlotsFree, Slot
  <2>1. /\ pinState' \in [Pin -> {"closed", "stop", "acquire", "pause", "run",
                                 "closing"}]
        /\ pinHw' \in [Pin -> HardwareState] /\ acquired' \in [Pin -> BOOLEAN]
    OBVIOUS
  <2>2. pc' \in [Pin -> Location]
    OBVIOUS
  <2>3. sinks' \in [Slot -> Pin \cup {NoPin}] /\ sinkCount' \in 0 .. MaxSinks
    OBVIOUS
  <2>4. pinsWithResources' \in Int /\ runningPinCount' \in Int
    OBVIOUS
  <2>5. /\ pnp' \in {"started", "leaving", "stopped", "gone"}
        /\ asleep' \in BOOLEAN /\ stale' \in BOOLEAN
    OBVIOUS
  <2>6. /\ configured' \in BOOLEAN /\ removePending' \in BOOLEAN
        /\ powerSaved' \in HardwareState /\ powerRestart' \in BOOLEAN
    OBVIOUS
  <2>7. /\ hw' \in HardwareState /\ requested' \in BOOLEAN
        /\ hwSynth' \in {"none", "live", "dangling", "failed"}
    OBVIOUS
  <2>8. /\ next' \in [Pin -> {"idle", "pauseDone", "stopLast", "stopReleased",
                             "acqFailed"}]
    OBVIOUS
  <2>9. /\ pnpPc' \in PnpLocation /\ pnpReg' \in Int
        /\ reg' \in [Pin -> 0 .. MaxSinks]
    OBVIOUS
  <2>. QED BY <2>1, <2>2, <2>3, <2>4, <2>5, <2>6, <2>7, <2>8, <2>9
<1>4. OneAtATime'
  BY <1>1 DEF OneAtATime, AllIdle, TypeOK, Places
<1>5. Shape'
  <2>1. InPnp'
    BY <1>1, <1>2 DEF TypeOK, Places, OneAtATime, AllIdle, PinShape, AtRest,
       InRun, InPause, InAcquire, InStop, ForStop, InPnp, Holders
  <2>2. ASSUME NEW q \in Pin PROVE PinShape(q)'
    BY <1>1, <1>2 DEF TypeOK, Places, OneAtATime, AllIdle, PinShape, AtRest,
       InRun, InPause, InAcquire, InStop, ForStop, InPnp, Kept
  <2>. QED BY <2>1, <2>2 DEF Shape
<1>6. /\ Holders' = Holders /\ Holding' = Holding /\ Streaming' = Streaming
      /\ Counted' = Counted /\ Tracked' = Tracked
  BY <1>1, <1>2 DEF TypeOK, Places, PinShape, AtRest, InRun, InPause,
     InAcquire, InStop, ForStop, InPnp, Holders, Holding, Streaming, Counted,
     Tracked
<1>7. TableSound'
  BY <1>1, <1>2, <1>6 DEF TypeOK, Places, OneAtATime, AllIdle, PinShape,
     AtRest, InRun, InPause, InAcquire, InStop, ForStop, InPnp, TableSound,
     Kept
<1>8. ResourcesCounted'
  BY <1>1, <1>2, <1>6 DEF TypeOK, Places, OneAtATime, AllIdle, PinShape,
     AtRest, InRun, InPause, InAcquire, InStop, ForStop, InPnp,
     ResourcesCounted, Claims, TableSound
<1>9. ASSUME NEW q \in Pin PROVE SlotsFree(q)'
  BY <1>1, <1>2, <1>6 DEF TypeOK, Places, OneAtATime, AllIdle, PinShape,
     AtRest, InRun, InPause, InAcquire, InStop, ForStop, InPnp, SlotsFree,
     ResourcesCounted, TableSound
<1>10. ConfigurationHeld'
  BY <1>1, <1>2, <1>6 DEF TypeOK, Places, OneAtATime, AllIdle, PinShape,
     AtRest, InRun, InPause, InAcquire, InStop, ForStop, InPnp,
     ConfigurationHeld, ResourcesCounted, Claims
<1>11. RunningCounted'
  BY <1>1, <1>2, <1>6 DEF TypeOK, Places, OneAtATime, AllIdle, PinShape,
     AtRest, InRun, InPause, InAcquire, InStop, ForStop, InPnp,
     RunningCounted, Kept
<1>12. ASSUME NEW q \in Pin PROVE StopSound(q)'
  BY <1>1, <1>2, <1>6 DEF TypeOK, Places, OneAtATime, AllIdle, PinShape,
     AtRest, InRun, InPause, InAcquire, InStop, ForStop, InPnp, StopSound,
     Kept, TableSound
<1>13. HardwareHeld'
  BY <1>1, <1>2, <1>6 DEF TypeOK, Places, OneAtATime, AllIdle, PinShape,
     AtRest, InRun, InPause, InAcquire, InStop, ForStop, InPnp, HardwareHeld,
     StopSound
<1>14. Requests'
  BY <1>1, <1>2, <1>6 DEF TypeOK, Places, OneAtATime, AllIdle, PinShape,
     AtRest, InRun, InPause, InAcquire, InStop, ForStop, InPnp, Requests,
     Kept, TableSound
<1>. QED
  BY <1>3, <1>4, <1>5, <1>7, <1>8, <1>9, <1>10, <1>11, <1>12, <1>13, <1>14
     DEF Books

(* StartPinStream: a pin is counted, and the count is undone when the       *)
(* hardware does not start.                                                *)
LEMMA Runs ==
  ASSUME Books, Serialized, NEW p \in Pin, RunStep(p)
  PROVE  Books'
<1> USE DEF RunStep, RunCount, RunCheck, RunResume, RunStart, RunUndo, RunDone,
          HwResume, HwStart, HwStartFails, CountWithoutPin
<1>1. /\ TypeOK /\ Places /\ OneAtATime /\ InPnp /\ TableSound
      /\ ResourcesCounted /\ ConfigurationHeld /\ RunningCounted
      /\ HardwareHeld /\ Requests
  BY DEF Books, Shape
<1>2. \A q \in Pin : PinShape(q) /\ SlotsFree(q) /\ StopSound(q)
  BY DEF Books, Shape
<1>3. TypeOK' /\ Places'
  <2> USE <1>1, <1>2, DeviceConstants
        DEF TypeOK, Places, Location, PnpLocation, SlotsFree, Slot
  <2>1. /\ pinState' \in [Pin -> {"closed", "stop", "acquire", "pause", "run",
                                 "closing"}]
        /\ pinHw' \in [Pin -> HardwareState] /\ acquired' \in [Pin -> BOOLEAN]
    OBVIOUS
  <2>2. pc' \in [Pin -> Location]
    <3>1. CASE RunCheck(p) BY <3>1
    <3>2. CASE \/ RunCount(p) \/ RunResume(p) \/ RunStart(p) \/ RunUndo(p)
               \/ RunDone(p)
      BY <3>2
    <3>. QED BY <3>1, <3>2
  <2>3. sinks' \in [Slot -> Pin \cup {NoPin}] /\ sinkCount' \in 0 .. MaxSinks
    OBVIOUS
  <2>4. pinsWithResources' \in Int /\ runningPinCount' \in Int
    OBVIOUS
  <2>5. /\ pnp' \in {"started", "leaving", "stopped", "gone"}
        /\ asleep' \in BOOLEAN /\ stale' \in BOOLEAN
    OBVIOUS
  <2>6. /\ configured' \in BOOLEAN /\ removePending' \in BOOLEAN
        /\ powerSaved' \in HardwareState /\ powerRestart' \in BOOLEAN
    OBVIOUS
  <2>7. /\ hw' \in HardwareState /\ requested' \in BOOLEAN
        /\ hwSynth' \in {"none", "live", "dangling", "failed"}
    OBVIOUS
  <2>8. /\ next' \in [Pin -> {"idle", "pauseDone", "stopLast", "stopReleased",
                             "acqFailed"}]
    OBVIOUS
  <2>9. /\ pnpPc' \in PnpLocation /\ pnpReg' \in Int
        /\ reg' \in [Pin -> 0 .. MaxSinks]
    OBVIOUS
  <2>. QED BY <2>1, <2>2, <2>3, <2>4, <2>5, <2>6, <2>7, <2>8, <2>9
<1>4. OneAtATime'
  BY <1>1 DEF OneAtATime, AllIdle, TypeOK, Places
<1>5. Shape'
  <2>1. InPnp'
    BY <1>1, <1>2 DEF TypeOK, Places, OneAtATime, AllIdle, PinShape, AtRest,
       InRun, InPause, InAcquire, InStop, ForStop, InPnp, Holders
  <2>2. ASSUME NEW q \in Pin PROVE PinShape(q)'
    BY <1>1, <1>2 DEF TypeOK, Places, OneAtATime, AllIdle, PinShape, AtRest,
       InRun, InPause, InAcquire, InStop, ForStop, InPnp, Kept
  <2>. QED BY <2>1, <2>2 DEF Shape
<1>6. /\ Holders' = Holders /\ Holding' = Holding /\ Tracked' = Tracked
      /\ p \in Holders
  BY <1>1, <1>2 DEF TypeOK, Places, PinShape, AtRest, InRun, InPause,
     InAcquire, InStop, ForStop, InPnp, Holders, Holding, Tracked
<1>15. ~RunDone(p) => Streaming' = Streaming
  BY <1>1, <1>2 DEF TypeOK, Places, PinShape, AtRest, InRun, InPause,
     InAcquire, InStop, ForStop, InPnp, Streaming
<1>7. TableSound'
  BY <1>1, <1>2, <1>6 DEF TypeOK, Places, OneAtATime, AllIdle, PinShape,
     AtRest, InRun, InPause, InAcquire, InStop, ForStop, InPnp, TableSound,
     Kept
<1>8. ResourcesCounted'
  BY <1>1, <1>2, <1>6 DEF TypeOK, Places, OneAtATime, AllIdle, PinShape,
     AtRest, InRun, InPause, InAcquire, InStop, ForStop, InPnp,
     ResourcesCounted, Claims, TableSound
<1>9. ASSUME NEW q \in Pin PROVE SlotsFree(q)'
  BY <1>1, <1>2, <1>6 DEF TypeOK, Places, OneAtATime, AllIdle, PinShape,
     AtRest, InRun, InPause, InAcquire, InStop, ForStop, InPnp, SlotsFree,
     ResourcesCounted, TableSound
<1>10. ConfigurationHeld'
  BY <1>1, <1>2, <1>6 DEF TypeOK, Places, OneAtATime, AllIdle, PinShape,
     AtRest, InRun, InPause, InAcquire, InStop, ForStop, InPnp,
     ConfigurationHeld, ResourcesCounted, Claims
<1>11. RunningCounted'
  <2>1. CASE RunCount(p)
    <3>1. Counted' = Counted \cup {p} /\ p \notin Counted
      BY <2>1, <1>1, <1>2 DEF TypeOK, Places, PinShape, AtRest, InRun,
         InPause, InAcquire, InStop, ForStop, InPnp, Counted, Streaming
    <3>2. Cardinality(Counted') = Cardinality(Counted) + 1
      BY <3>1, SetsFinite, FS_AddElement
    <3>. QED BY <2>1, <3>2, <1>1 DEF RunningCounted, Kept, TypeOK
  <2>2. CASE RunUndo(p)
    <3>1. Counted' = Counted \ {p} /\ p \in Counted
      BY <2>2, <1>1, <1>2 DEF TypeOK, Places, PinShape, AtRest, InRun,
         InPause, InAcquire, InStop, ForStop, InPnp, Counted, Streaming
    <3>2. Cardinality(Counted') = Cardinality(Counted) - 1
      BY <3>1, SetsFinite, FS_RemoveElement
    <3>. QED BY <2>2, <3>2, <1>1 DEF RunningCounted, Kept, TypeOK
  <2>3. CASE RunCheck(p) \/ RunResume(p) \/ RunStart(p) \/ RunDone(p)
    <3>1. Counted' = Counted
      BY <2>3, <1>1, <1>2 DEF TypeOK, Places, PinShape, AtRest, InRun,
         InPause, InAcquire, InStop, ForStop, InPnp, Counted, Streaming
    <3>. QED BY <2>3, <3>1, <1>1 DEF RunningCounted, Kept
  <2>. QED BY <2>1, <2>2, <2>3
<1>12. ASSUME NEW q \in Pin PROVE StopSound(q)'
  BY <1>1, <1>2, <1>6, <1>15 DEF TypeOK, Places, OneAtATime, AllIdle,
     PinShape, AtRest, InRun, InPause, InAcquire, InStop, ForStop, InPnp,
     StopSound, Kept, TableSound
<1>13. HardwareHeld'
  BY <1>1, <1>2, <1>6 DEF TypeOK, Places, OneAtATime, AllIdle, PinShape,
     AtRest, InRun, InPause, InAcquire, InStop, ForStop, InPnp, HardwareHeld,
     StopSound
<1>14. Requests'
  BY <1>1, <1>2, <1>6, <1>15 DEF TypeOK, Places, OneAtATime, AllIdle,
     PinShape, AtRest, InRun, InPause, InAcquire, InStop, ForStop, InPnp,
     Requests, Kept, TableSound
<1>. QED
  BY <1>3, <1>4, <1>5, <1>7, <1>8, <1>9, <1>10, <1>11, <1>12, <1>13, <1>14
     DEF Books

(* PausePinStream: the last to leave the running set pauses the hardware.   *)
LEMMA Pauses ==
  ASSUME Books, Serialized, NEW p \in Pin, PauseStep(p)
  PROVE  Books'
<1> USE DEF PauseStep, PauseCheck, PauseCount, PauseHw, PauseDone, HwPause,
          OthersRun
<1>1. /\ TypeOK /\ Places /\ OneAtATime /\ InPnp /\ TableSound
      /\ ResourcesCounted /\ ConfigurationHeld /\ RunningCounted
      /\ HardwareHeld /\ Requests
  BY DEF Books, Shape
<1>2. \A q \in Pin : PinShape(q) /\ SlotsFree(q) /\ StopSound(q)
  BY DEF Books, Shape
<1>3. TypeOK' /\ Places'
  <2> USE <1>1, <1>2, DeviceConstants
        DEF TypeOK, Places, Location, PnpLocation, SlotsFree, Slot
  <2>1. /\ pinState' \in [Pin -> {"closed", "stop", "acquire", "pause", "run",
                                 "closing"}]
        /\ pinHw' \in [Pin -> HardwareState] /\ acquired' \in [Pin -> BOOLEAN]
    OBVIOUS
  <2>2. pc' \in [Pin -> Location]
    OBVIOUS
  <2>3. sinks' \in [Slot -> Pin \cup {NoPin}] /\ sinkCount' \in 0 .. MaxSinks
    OBVIOUS
  <2>4. pinsWithResources' \in Int /\ runningPinCount' \in Int
    OBVIOUS
  <2>5. /\ pnp' \in {"started", "leaving", "stopped", "gone"}
        /\ asleep' \in BOOLEAN /\ stale' \in BOOLEAN
    OBVIOUS
  <2>6. /\ configured' \in BOOLEAN /\ removePending' \in BOOLEAN
        /\ powerSaved' \in HardwareState /\ powerRestart' \in BOOLEAN
    OBVIOUS
  <2>7. /\ hw' \in HardwareState /\ requested' \in BOOLEAN
        /\ hwSynth' \in {"none", "live", "dangling", "failed"}
    OBVIOUS
  <2>8. /\ next' \in [Pin -> {"idle", "pauseDone", "stopLast", "stopReleased",
                             "acqFailed"}]
    OBVIOUS
  <2>9. /\ pnpPc' \in PnpLocation /\ pnpReg' \in Int
        /\ reg' \in [Pin -> 0 .. MaxSinks]
    OBVIOUS
  <2>. QED BY <2>1, <2>2, <2>3, <2>4, <2>5, <2>6, <2>7, <2>8, <2>9
<1>4. OneAtATime'
  BY <1>1 DEF OneAtATime, AllIdle, TypeOK, Places
<1>5. Shape'
  <2>1. InPnp'
    BY <1>1, <1>2 DEF TypeOK, Places, OneAtATime, AllIdle, PinShape, AtRest,
       InRun, InPause, InAcquire, InStop, ForStop, InPnp, Holders
  <2>2. ASSUME NEW q \in Pin PROVE PinShape(q)'
    BY <1>1, <1>2 DEF TypeOK, Places, OneAtATime, AllIdle, PinShape, AtRest,
       InRun, InPause, InAcquire, InStop, ForStop, InPnp, Kept
  <2>. QED BY <2>1, <2>2 DEF Shape
<1>6. /\ Holders' = Holders /\ Holding' = Holding /\ Tracked' = Tracked
      /\ p \in Holders
  BY <1>1, <1>2 DEF TypeOK, Places, PinShape, AtRest, InRun, InPause,
     InAcquire, InStop, ForStop, InPnp, Holders, Holding, Tracked
<1>15. PauseCheck(p) /\ Kept => Streaming' = Streaming /\ Counted' = Counted
  <2>. SUFFICES ASSUME PauseCheck(p), Kept
                PROVE  Streaming' = Streaming /\ Counted' = Counted
    OBVIOUS
  <2>1. p \in Counted
    BY <1>1, <1>2 DEF TypeOK, Places, PinShape, AtRest, InRun, InPause,
       InAcquire, InStop, ForStop, InPnp, Counted, Streaming
  <2>2. runningPinCount > 0
    BY <2>1, <1>1, SetsFinite, FS_EmptySet, FS_CardinalityType
       DEF RunningCounted
  <2>. QED
    BY <1>1, <1>2, <2>2 DEF TypeOK, Places, PinShape, AtRest, InRun, InPause,
       InAcquire, InStop, ForStop, InPnp, Counted, Streaming
<1>16. PauseCount(p) =>
        /\ p \in Counted /\ Counted' = Counted \ {p}
        /\ Streaming' = Streaming \ {p} /\ Streaming' \subseteq Counted'
  BY <1>1, <1>2 DEF TypeOK, Places, PinShape, AtRest, InRun, InPause,
     InAcquire, InStop, ForStop, InPnp, Counted, Streaming
<1>17. PauseCount(p) /\ Kept => runningPinCount' = Cardinality(Counted')
  BY <1>16, <1>1, SetsFinite, FS_RemoveElement DEF RunningCounted, TypeOK
<1>18. PauseHw(p) \/ PauseDone(p) => Streaming' = Streaming /\ Counted' = Counted
  BY <1>1, <1>2 DEF TypeOK, Places, PinShape, AtRest, InRun, InPause,
     InAcquire, InStop, ForStop, InPnp, Counted, Streaming
<1>7. TableSound'
  BY <1>1, <1>2, <1>6 DEF TypeOK, Places, OneAtATime, AllIdle, PinShape,
     AtRest, InRun, InPause, InAcquire, InStop, ForStop, InPnp, TableSound,
     Kept
<1>8. ResourcesCounted'
  BY <1>1, <1>2, <1>6 DEF TypeOK, Places, OneAtATime, AllIdle, PinShape,
     AtRest, InRun, InPause, InAcquire, InStop, ForStop, InPnp,
     ResourcesCounted, Claims, TableSound
<1>9. ASSUME NEW q \in Pin PROVE SlotsFree(q)'
  BY <1>1, <1>2, <1>6 DEF TypeOK, Places, OneAtATime, AllIdle, PinShape,
     AtRest, InRun, InPause, InAcquire, InStop, ForStop, InPnp, SlotsFree,
     ResourcesCounted, TableSound
<1>10. ConfigurationHeld'
  BY <1>1, <1>2, <1>6 DEF TypeOK, Places, OneAtATime, AllIdle, PinShape,
     AtRest, InRun, InPause, InAcquire, InStop, ForStop, InPnp,
     ConfigurationHeld, ResourcesCounted, Claims
<1>11. RunningCounted'
  <2>1. CASE PauseCount(p)
    BY <2>1, <1>17 DEF RunningCounted, Kept
  <2>2. CASE PauseCheck(p) \/ PauseHw(p) \/ PauseDone(p)
    BY <2>2, <1>1, <1>2, <1>15, <1>18 DEF TypeOK, Places, OneAtATime, AllIdle,
       PinShape, AtRest, InRun, InPause, InAcquire, InStop, ForStop, InPnp,
       RunningCounted, Kept
  <2>. QED BY <2>1, <2>2
<1>12. ASSUME NEW q \in Pin PROVE StopSound(q)'
  <2>1. CASE PauseCount(p)
    <3>1. ASSUME pc'[p] = "pauseHw", Kept PROVE Streaming' = {}
      <4>1. ~(runningPinCount' > 0) BY <3>1, <2>1, <1>1 DEF Places
      <4>2. IsFiniteSet(Counted')
        BY <1>16, <2>1, SetsFinite, FS_RemoveElement
      <4>3. Cardinality(Counted') = 0
        BY <4>1, <4>2, <1>17, <2>1, <3>1, FS_CardinalityType
      <4>4. Counted' = {} BY <4>2, <4>3, FS_EmptySet
      <4>. QED BY <4>4, <1>16, <2>1
    <3>. QED
      BY <2>1, <3>1, <1>1, <1>2, <1>6 DEF TypeOK, Places, PinShape, AtRest,
         InRun, InPause, InAcquire, InStop, ForStop, InPnp, StopSound, Kept,
         OneAtATime
  <2>2. CASE PauseCheck(p) \/ PauseHw(p) \/ PauseDone(p)
    BY <2>2, <1>1, <1>2, <1>6, <1>15, <1>18 DEF TypeOK, Places, OneAtATime,
       AllIdle, PinShape, AtRest, InRun, InPause, InAcquire, InStop, ForStop,
       InPnp, StopSound, Kept, TableSound
  <2>. QED BY <2>1, <2>2
<1>13. HardwareHeld'
  BY <1>1, <1>2, <1>6 DEF TypeOK, Places, OneAtATime, AllIdle, PinShape,
     AtRest, InRun, InPause, InAcquire, InStop, ForStop, InPnp, HardwareHeld,
     StopSound
<1>14. Requests'
  BY <1>1, <1>2, <1>6, <1>15, <1>16, <1>18 DEF TypeOK, Places, OneAtATime,
     AllIdle, PinShape, AtRest, InRun, InPause, InAcquire, InStop, ForStop,
     InPnp, Requests, Kept, TableSound
<1>. QED
  BY <1>3, <1>4, <1>5, <1>7, <1>8, <1>9, <1>10, <1>11, <1>12, <1>13, <1>14
     DEF Books

(* AcquireHardwareResources.                                               *)
LEMMA Acquires ==
  ASSUME Books, Serialized, NEW p \in Pin, AcquireStep(p)
  PROVE  Books'
<1> USE DEF AcquireStep, AcqClaim, AcqConfigure, AcqPublish, AcqCheck, AcqSlot,
          AcqAppend, AcqCount, AcqDone, AcqFailed, SlotFree, DeleteSynth
<1>1. /\ TypeOK /\ Places /\ OneAtATime /\ InPnp /\ TableSound
      /\ ResourcesCounted /\ ConfigurationHeld /\ RunningCounted
      /\ HardwareHeld /\ Requests
  BY DEF Books, Shape
<1>2. \A q \in Pin : PinShape(q) /\ SlotsFree(q) /\ StopSound(q)
  BY DEF Books, Shape
<1>3. TypeOK' /\ Places'
  <2> USE <1>1, <1>2, DeviceConstants
        DEF TypeOK, Places, Location, PnpLocation, SlotsFree, Slot
  <2>1. /\ pinState' \in [Pin -> {"closed", "stop", "acquire", "pause", "run",
                                 "closing"}]
        /\ pinHw' \in [Pin -> HardwareState] /\ acquired' \in [Pin -> BOOLEAN]
    OBVIOUS
  <2>2. pc' \in [Pin -> Location]
    <3>1. CASE AcqClaim(p) \/ AcqPublish(p) BY <3>1
    <3>3. CASE AcqConfigure(p) BY <3>3
    <3>4. CASE AcqCheck(p) BY <3>4
    <3>2. CASE \/ AcqSlot(p) \/ AcqAppend(p) \/ AcqCount(p) \/ AcqDone(p)
               \/ AcqFailed(p)
      BY <3>2
    <3>. QED BY <3>1, <3>2, <3>3, <3>4
  <2>3. sinks' \in [Slot -> Pin \cup {NoPin}] /\ sinkCount' \in 0 .. MaxSinks
    OBVIOUS
  <2>4. pinsWithResources' \in Int /\ runningPinCount' \in Int
    OBVIOUS
  <2>5. /\ pnp' \in {"started", "leaving", "stopped", "gone"}
        /\ asleep' \in BOOLEAN /\ stale' \in BOOLEAN
    OBVIOUS
  <2>6. /\ configured' \in BOOLEAN /\ removePending' \in BOOLEAN
        /\ powerSaved' \in HardwareState /\ powerRestart' \in BOOLEAN
    OBVIOUS
  <2>7. /\ hw' \in HardwareState /\ requested' \in BOOLEAN
        /\ hwSynth' \in {"none", "live", "dangling", "failed"}
    OBVIOUS
  <2>8. /\ next' \in [Pin -> {"idle", "pauseDone", "stopLast", "stopReleased",
                             "acqFailed"}]
    OBVIOUS
  <2>9. /\ pnpPc' \in PnpLocation /\ pnpReg' \in Int
        /\ reg' \in [Pin -> 0 .. MaxSinks]
    OBVIOUS
  <2>. QED BY <2>1, <2>2, <2>3, <2>4, <2>5, <2>6, <2>7, <2>8, <2>9
<1>4. OneAtATime'
  BY <1>1 DEF OneAtATime, AllIdle, TypeOK, Places
<1>5. Shape'
  <2>1. InPnp'
    BY <1>1, <1>2 DEF TypeOK, Places, OneAtATime, AllIdle, PinShape, AtRest,
       InRun, InPause, InAcquire, InStop, ForStop, InPnp, Holders
  <2>2. ASSUME NEW q \in Pin PROVE PinShape(q)'
    BY <1>1, <1>2 DEF TypeOK, Places, OneAtATime, AllIdle, PinShape, AtRest,
       InRun, InPause, InAcquire, InStop, ForStop, InPnp, Kept
  <2>. QED BY <2>1, <2>2 DEF Shape
<1>6. /\ Streaming' = Streaming /\ Counted' = Counted
      /\ p \notin Holders
  BY <1>1, <1>2 DEF TypeOK, Places, PinShape, AtRest, InRun, InPause,
     InAcquire, InStop, ForStop, InPnp, Holders, Counted, Streaming
<1>15. /\ AcqDone(p) => p \in Holders'
       /\ ~AcqDone(p) => Holders' = Holders
  BY <1>1, <1>2 DEF TypeOK, Places, PinShape, AtRest, InRun, InPause,
     InAcquire, InStop, ForStop, InPnp, Holders
<1>16. /\ AcqPublish(p) \/ AcqAppend(p) => Holding' = Holding \cup {p}
       /\ ~(AcqPublish(p) \/ AcqAppend(p)) => Holding' = Holding
  <2>1. CASE AcqPublish(p) \/ AcqAppend(p)
    BY <2>1, <1>1, <1>2 DEF TypeOK, Places, PinShape, AtRest, InRun, InPause,
       InAcquire, InStop, ForStop, InPnp, Holding
  <2>2. CASE AcqCheck(p)
    <3>1. p \notin Tracked
      BY <2>2, <1>1, <1>2 DEF TableSound, TypeOK, Places, PinShape, AtRest,
         InRun, InPause, InAcquire, InStop, ForStop, InPnp, Holding
    <3>. QED
      BY <2>2, <3>1, <1>1, <1>2 DEF TypeOK, Places, PinShape, AtRest, InRun,
         InPause, InAcquire, InStop, ForStop, InPnp, Holding
  <2>3. CASE \/ AcqClaim(p) \/ AcqConfigure(p) \/ AcqSlot(p) \/ AcqCount(p)
             \/ AcqDone(p) \/ AcqFailed(p)
    BY <2>3, <1>1, <1>2 DEF TypeOK, Places, PinShape, AtRest, InRun, InPause,
       InAcquire, InStop, ForStop, InPnp, Holding
  <2>. QED BY <2>1, <2>2, <2>3
<1>17. ~(AcqPublish(p) \/ AcqAppend(p)) => Tracked' = Tracked
  BY <1>1 DEF Tracked
<1>7. TableSound'
  <2>1. CASE AcqPublish(p)
    <3>1. sinkCount = 0 /\ Tracked = {}
      BY <2>1, <1>1, <1>2, TableSize DEF ResourcesCounted, Claims, PinShape,
         InAcquire
    <3>2. Tracked' = {p}
      BY <2>1, <1>1, DeviceConstants DEF Tracked, TypeOK, Slot
    <3>3. Kept' => Holding' = {p}
      BY <2>1, <3>1, <1>1, <1>16 DEF TableSound, Kept
    <3>4. Cardinality({p}) = 1 BY FS_Singleton
    <3>. QED
      BY <2>1, <3>2, <3>3, <3>4, <1>16, <1>1, DeviceConstants DEF TableSound,
         Kept, TypeOK, Slot
  <2>2. CASE AcqAppend(p)
    <3>1. reg[p] = sinkCount /\ sinkCount < MaxSinks
      BY <2>2, <1>2 DEF SlotsFree
    <3>2. p \notin Tracked
      BY <2>2, <1>1, <1>2 DEF TableSound, Holding, TypeOK, Places, PinShape,
         AtRest, InRun, InPause, InAcquire, InStop, ForStop, InPnp
    <3>3. /\ sinks' = [sinks EXCEPT ![sinkCount] = p]
          /\ sinkCount' = sinkCount + 1 /\ sinkCount \in Slot
      BY <2>2, <3>1, <1>1, DeviceConstants DEF TypeOK, Slot
    <3>4. Tracked' = Tracked \cup {p}
      <4>1. \A i \in Slot :
              /\ i < sinkCount' <=> i < sinkCount \/ i = sinkCount
              /\ sinks'[i] = IF i = sinkCount THEN p ELSE sinks[i]
        BY <3>3, <1>1 DEF TypeOK, Slot
      <4>2. \A x : x \in Tracked' <=>
                    \E i \in Slot : i < sinkCount' /\ x = sinks'[i] /\ x # NoPin
        BY DEF Tracked
      <4>3. \A x : x \in Tracked <=>
                    \E i \in Slot : i < sinkCount /\ x = sinks[i] /\ x # NoPin
        BY DEF Tracked
      <4>4. p # NoPin BY DeviceConstants
      <4>5. p \in Tracked' BY <3>3, <4>1, <4>2, <4>4
      <4>6. ASSUME NEW x, x # p PROVE x \in Tracked' <=> x \in Tracked
        <5>1. ASSUME x \in Tracked PROVE x \in Tracked'
          <6>1. PICK i \in Slot : i < sinkCount /\ x = sinks[i] /\ x # NoPin
            BY <5>1, <4>3
          <6>2. i < sinkCount' /\ x = sinks'[i]
            BY <6>1, <4>1, <1>1 DEF TypeOK, Slot
          <6>. QED BY <6>1, <6>2, <4>2
        <5>2. ASSUME x \in Tracked' PROVE x \in Tracked
          <6>1. PICK i \in Slot : i < sinkCount' /\ x = sinks'[i] /\ x # NoPin
            BY <5>2, <4>2
          <6>2. i < sinkCount /\ x = sinks[i]
            BY <6>1, <4>1, <4>6
          <6>. QED BY <6>1, <6>2, <4>3
        <5>. QED BY <5>1, <5>2
      <4>. QED BY <4>5, <4>6
    <3>5. Cardinality(Tracked') = Cardinality(Tracked) + 1
      <4>1. IsFiniteSet(Tracked) BY <1>1, TableSize
      <4>. QED BY <4>1, <3>2, <3>4, FS_AddElement
    <3>6. \A i \in Slot : i < sinkCount => sinks[i] # p
      BY <3>2, DeviceConstants DEF Tracked
    <3>7. /\ \A i \in Slot : i < sinkCount' => sinks'[i] \in Pin
          /\ \A i, j \in Slot :
               i < sinkCount' /\ j < sinkCount' /\ sinks'[i] = sinks'[j] => i = j
      BY <3>3, <3>6, <1>1 DEF TableSound, TypeOK, Slot
    <3>8. sinkCount + 1 = Cardinality(Tracked')
      BY <3>5, <1>1 DEF TableSound
    <3>. QED
      BY <2>2, <3>3, <3>4, <3>7, <3>8, <1>1, <1>16 DEF TableSound, Kept
  <2>3. CASE AcqClaim(p) \/ AcqConfigure(p) \/ AcqCheck(p) \/ AcqSlot(p)
             \/ AcqCount(p) \/ AcqDone(p) \/ AcqFailed(p)
    BY <2>3, <1>1, <1>16, <1>17 DEF TypeOK, Places, OneAtATime, AllIdle,
       PinShape, AtRest, InRun, InPause, InAcquire, InStop, ForStop, InPnp,
       TableSound, Kept
  <2>. QED BY <2>1, <2>2, <2>3
<1>8. ResourcesCounted'
  BY <1>1, <1>2, <1>6, <1>15, <1>16, <1>17 DEF TypeOK, Places, OneAtATime,
     AllIdle, PinShape, AtRest, InRun, InPause, InAcquire, InStop, ForStop,
     InPnp, ResourcesCounted, Claims, TableSound, SlotsFree
<1>9. ASSUME NEW q \in Pin PROVE SlotsFree(q)'
  BY <1>1, <1>2, <1>6 DEF TypeOK, Places, OneAtATime, AllIdle, PinShape,
     AtRest, InRun, InPause, InAcquire, InStop, ForStop, InPnp, SlotsFree,
     ResourcesCounted, TableSound, Claims
<1>10. ConfigurationHeld'
  BY <1>1, <1>2, <1>6 DEF TypeOK, Places, OneAtATime, AllIdle, PinShape,
     AtRest, InRun, InPause, InAcquire, InStop, ForStop, InPnp,
     ConfigurationHeld, ResourcesCounted, Claims, SlotsFree
<1>11. RunningCounted'
  BY <1>1, <1>2, <1>6 DEF TypeOK, Places, OneAtATime, AllIdle, PinShape,
     AtRest, InRun, InPause, InAcquire, InStop, ForStop, InPnp,
     RunningCounted, Kept
<1>12. ASSUME NEW q \in Pin PROVE StopSound(q)'
  BY <1>1, <1>2, <1>6, <1>15, <1>16 DEF TypeOK, Places, OneAtATime, AllIdle,
     PinShape, AtRest, InRun, InPause, InAcquire, InStop, ForStop, InPnp,
     StopSound, Kept, TableSound, Holders
<1>13. HardwareHeld'
  BY <1>1, <1>2, <1>6, <1>15 DEF TypeOK, Places, OneAtATime, AllIdle,
     PinShape, AtRest, InRun, InPause, InAcquire, InStop, ForStop, InPnp,
     HardwareHeld, StopSound
<1>14. Requests'
  BY <1>1, <1>2, <1>6, <1>15 DEF TypeOK, Places, OneAtATime, AllIdle,
     PinShape, AtRest, InRun, InPause, InAcquire, InStop, ForStop, InPnp,
     Requests, Kept, TableSound
<1>. QED
  BY <1>3, <1>4, <1>5, <1>7, <1>8, <1>9, <1>10, <1>11, <1>12, <1>13, <1>14
     DEF Books

(* SetState(KSSTATE_STOP) and ReleaseHardwareResources: whoever leaves     *)
(* last has stopped the hardware.                                          *)
LEMMA Stops ==
  ASSUME Books, Serialized, NEW p \in Pin, StopStep(p)
  PROVE  Books'
<1> USE DEF StopStep, StopLast, StopHw, Release, ReleaseCount, StopReleased,
          StopDone, LastHolder, HwStop, RequestAfterStop
<1>1. /\ TypeOK /\ Places /\ OneAtATime /\ InPnp /\ TableSound
      /\ ResourcesCounted /\ ConfigurationHeld /\ RunningCounted
      /\ HardwareHeld /\ Requests
  BY DEF Books, Shape
<1>2. \A q \in Pin : PinShape(q) /\ SlotsFree(q) /\ StopSound(q)
  BY DEF Books, Shape
<1>3. TypeOK' /\ Places'
  <2> USE <1>1, <1>2, DeviceConstants
        DEF TypeOK, Places, Location, PnpLocation, SlotsFree, Slot
  <2>1. /\ pinState' \in [Pin -> {"closed", "stop", "acquire", "pause", "run",
                                 "closing"}]
        /\ pinHw' \in [Pin -> HardwareState] /\ acquired' \in [Pin -> BOOLEAN]
    OBVIOUS
  <2>2. pc' \in [Pin -> Location]
    <3>1. CASE StopLast(p) \/ StopHw(p) \/ StopReleased(p) \/ StopDone(p)
      BY <3>1
    <3>2. CASE Release(p) BY <3>2
    <3>3. CASE ReleaseCount(p) BY <3>3
    <3>. QED BY <3>1, <3>2, <3>3
  <2>3. sinks' \in [Slot -> Pin \cup {NoPin}] /\ sinkCount' \in 0 .. MaxSinks
    <3>1. CASE Release(p) /\ OneOfSeveral(p)
      BY <3>1, SharedReleaseRemoves DEF OneOfSeveral
    <3>2. CASE Release(p) /\ ~OneOfSeveral(p) BY <3>2 DEF ReleaseAll, NoSinks
    <3>3. CASE \/ StopLast(p) \/ StopHw(p) \/ ReleaseCount(p)
               \/ StopReleased(p) \/ StopDone(p)
      BY <3>3
    <3>. QED BY <3>1, <3>2, <3>3
  <2>4. pinsWithResources' \in Int /\ runningPinCount' \in Int
    BY DEF SharedRelease, ReleaseAll, DeleteSynth
  <2>5. /\ pnp' \in {"started", "leaving", "stopped", "gone"}
        /\ asleep' \in BOOLEAN /\ stale' \in BOOLEAN
    OBVIOUS
  <2>6. /\ configured' \in BOOLEAN /\ removePending' \in BOOLEAN
        /\ powerSaved' \in HardwareState /\ powerRestart' \in BOOLEAN
    BY DEF SharedRelease, ReleaseAll, DeleteSynth
  <2>7. /\ hw' \in HardwareState /\ requested' \in BOOLEAN
        /\ hwSynth' \in {"none", "live", "dangling", "failed"}
    BY DEF SharedRelease, ReleaseAll, DeleteSynth
  <2>8. /\ next' \in [Pin -> {"idle", "pauseDone", "stopLast", "stopReleased",
                             "acqFailed"}]
    OBVIOUS
  <2>9. /\ pnpPc' \in PnpLocation /\ pnpReg' \in Int
        /\ reg' \in [Pin -> 0 .. MaxSinks]
    OBVIOUS
  <2>. QED BY <2>1, <2>2, <2>3, <2>4, <2>5, <2>6, <2>7, <2>8, <2>9
<1>4. OneAtATime'
  BY <1>1 DEF OneAtATime, AllIdle, TypeOK, Places
<1>5. Shape'
  <2>1. InPnp'
    BY <1>1, <1>2 DEF TypeOK, Places, OneAtATime, AllIdle, PinShape, AtRest,
       InRun, InPause, InAcquire, InStop, ForStop, InPnp, Holders
  <2>2. ASSUME NEW q \in Pin PROVE PinShape(q)'
    <3>1. CASE Release(p)
      <4>1. OneOfSeveral(p) => next[p] # "acqFailed"
        BY <3>1, <1>1 DEF ResourcesCounted, Claims, OneOfSeveral
      <4>. QED
        BY <3>1, <4>1, <1>1, <1>2 DEF TypeOK, Places, OneAtATime, PinShape,
           AtRest, InRun, InPause, InAcquire, InStop, ForStop, InPnp, Kept
    <3>2. CASE \/ StopLast(p) \/ StopHw(p) \/ ReleaseCount(p)
               \/ StopReleased(p) \/ StopDone(p)
      BY <3>2, <1>1, <1>2 DEF TypeOK, Places, OneAtATime, PinShape, AtRest,
         InRun, InPause, InAcquire, InStop, ForStop, InPnp, Kept
    <3>. QED BY <3>1, <3>2
  <2>. QED BY <2>1, <2>2 DEF Shape
<1>6. Streaming' = Streaming /\ Counted' = Counted
  BY <1>1, <1>2 DEF TypeOK, Places, PinShape, AtRest, InRun, InPause,
     InAcquire, InStop, ForStop, InPnp, Counted, Streaming
<1>15. /\ StopReleased(p) => Holders' = Holders \ {p} /\ p \in Holders
       /\ ~StopReleased(p) => Holders' = Holders
       /\ StopDone(p) => p \notin Holders
  BY <1>1, <1>2 DEF TypeOK, Places, PinShape, AtRest, InRun, InPause,
     InAcquire, InStop, ForStop, InPnp, Holders
<1>16. /\ Release(p) => Holding' = Holding \ {p}
       /\ ~Release(p) => Holding' = Holding
  <2>1. CASE Release(p)
    BY <2>1, <1>1, <1>2 DEF TypeOK, Places, PinShape, AtRest, InRun, InPause,
       InAcquire, InStop, ForStop, InPnp, Holding
  <2>2. CASE \/ StopLast(p) \/ StopHw(p) \/ ReleaseCount(p)
             \/ StopReleased(p) \/ StopDone(p)
    BY <2>2, <1>1, <1>2 DEF TypeOK, Places, PinShape, AtRest, InRun, InPause,
       InAcquire, InStop, ForStop, InPnp, Holding
  <2>. QED BY <2>1, <2>2
<1>17. ~Release(p) => Tracked' = Tracked
  BY <1>1 DEF Tracked
(* Nobody else is between a sink and its acquisition.                      *)
<1>18. Holding \subseteq Holders /\ Tracked \subseteq Holders
  <2>1. \A q \in Pin : pc[q] \notin {"acqCount", "acqDone"}
    BY <1>1 DEF OneAtATime, TypeOK, Places
  <2>. QED BY <2>1, <1>1, StreamsHold DEF TableSound, Holding
<1>19. sinkCount > 1 => Holders # {p}
  BY <1>18, <1>1, TableSize DEF TypeOK
(* Who takes the hardware down is the last to hold a sink.                 *)
<1>20. Release(p) /\ ~OneOfSeveral(p) /\ Kept => Holding' = {}
  <2>. SUFFICES ASSUME Release(p), ~OneOfSeveral(p), Kept PROVE Holding' = {}
    OBVIOUS
  <2>1. Holding \subseteq Tracked BY <1>1 DEF TableSound
  <2>2. CASE next[p] = "acqFailed"
    <3>1. sinkCount = 0
      BY <2>2, <1>1 DEF ResourcesCounted, Claims
    <3>. QED BY <3>1, <2>1, <1>1, <1>16, TableSize
  <2>3. CASE next[p] = "stopReleased"
    <3>1. Holding = {p} \/ sinkCount > 1
      BY <2>3, <1>2 DEF StopSound
    <3>2. p \in Holding
      BY <2>3, <1>1, <1>2 DEF Holding, PinShape, InStop
    <3>. QED BY <3>1, <3>2, <2>1, <1>16 DEF OneOfSeveral
  <2>. QED BY <2>2, <2>3, <1>2 DEF PinShape, InStop
<1>7. TableSound'
  <2>1. CASE Release(p) /\ OneOfSeveral(p)
    <3>1. /\ Tracked' = Tracked \ {p}
          /\ sinkCount' = Cardinality(Tracked')
          /\ \A i \in Slot : i < sinkCount' => sinks'[i] \in Pin
          /\ \A i, j \in Slot :
               i < sinkCount' /\ j < sinkCount' /\ sinks'[i] = sinks'[j] => i = j
      BY <2>1, <1>1, SharedReleaseRemoves DEF OneOfSeveral
    <3>. QED BY <2>1, <3>1, <1>1, <1>16 DEF TableSound, Kept
  <2>2. CASE Release(p) /\ ~OneOfSeveral(p)
    <3>1. sinkCount' = 0 BY <2>2 DEF ReleaseAll
    <3>2. \A i \in Slot : ~(i < sinkCount')
      BY <3>1, DeviceConstants DEF Slot
    <3>3. Tracked' = {} BY <3>2 DEF Tracked
    <3>4. Kept' => Holding' = {} BY <2>2, <1>20 DEF Kept
    <3>5. Cardinality({}) = 0 BY FS_EmptySet
    <3>. QED BY <3>1, <3>2, <3>3, <3>4, <3>5 DEF TableSound
  <2>3. CASE StopLast(p) \/ StopHw(p) \/ ReleaseCount(p) \/ StopReleased(p)
             \/ StopDone(p)
    BY <2>3, <1>1, <1>16, <1>17 DEF TypeOK, Places, OneAtATime, AllIdle,
       PinShape, AtRest, InRun, InPause, InAcquire, InStop, ForStop, InPnp,
       TableSound, Kept
  <2>. QED BY <2>1, <2>2, <2>3
<1>8. ResourcesCounted'
  BY <1>1, <1>2, <1>6, <1>17 DEF TypeOK, Places, OneAtATime, AllIdle,
     PinShape, AtRest, InRun, InPause, InAcquire, InStop, ForStop, InPnp,
     ResourcesCounted, Claims, TableSound, SharedRelease, ReleaseAll,
     OneOfSeveral
<1>9. ASSUME NEW q \in Pin PROVE SlotsFree(q)'
  BY <1>1, <1>2, <1>6 DEF TypeOK, Places, OneAtATime, AllIdle, PinShape,
     AtRest, InRun, InPause, InAcquire, InStop, ForStop, InPnp, SlotsFree,
     ResourcesCounted, TableSound, Claims
<1>10. ConfigurationHeld'
  BY <1>1, <1>2, <1>6 DEF TypeOK, Places, OneAtATime, AllIdle, PinShape,
     AtRest, InRun, InPause, InAcquire, InStop, ForStop, InPnp,
     ConfigurationHeld, ResourcesCounted, Claims, SharedRelease, ReleaseAll,
     OneOfSeveral
<1>11. RunningCounted'
  <2>1. CASE Release(p) /\ ~OneOfSeveral(p)
    <3>1. Kept => Counted = {}
      <4>1. p \notin Counted
        BY <2>1, <1>2 DEF Counted, Streaming, PinShape, InStop
      <4>. QED BY <2>1, <4>1, <1>16, <1>20, StreamsHold
    <3>2. Cardinality({}) = 0 BY FS_EmptySet
    <3>. QED BY <2>1, <3>1, <3>2, <1>6 DEF RunningCounted, Kept, ReleaseAll
  <2>2. CASE Release(p) /\ OneOfSeveral(p)
    BY <2>2, <1>1, <1>6 DEF RunningCounted, Kept, SharedRelease
  <2>3. CASE StopLast(p) \/ StopHw(p) \/ ReleaseCount(p) \/ StopReleased(p)
             \/ StopDone(p)
    BY <2>3, <1>1, <1>2, <1>6 DEF TypeOK, Places, OneAtATime, AllIdle,
       PinShape, AtRest, InRun, InPause, InAcquire, InStop, ForStop, InPnp,
       RunningCounted, Kept
  <2>. QED BY <2>1, <2>2, <2>3
<1>12. ASSUME NEW q \in Pin PROVE StopSound(q)'
  <2>1. CASE Release(p)
    BY <2>1, <1>1, <1>2, <1>15, <1>19 DEF TypeOK, Places, PinShape, AtRest,
       InRun, InPause, InAcquire, InStop, ForStop, InPnp, StopSound,
       OneAtATime, OneOfSeveral, ReleaseAll
  <2>2. CASE StopLast(p)
    BY <2>2, <1>1, <1>2, <1>15, <1>19 DEF TypeOK, Places, PinShape, AtRest,
       InRun, InPause, InAcquire, InStop, ForStop, InPnp, StopSound,
       OneAtATime
  <2>3. CASE StopHw(p)
    <3>1. Kept => Holding = {p}
      <4>1. p \in Holding /\ sinkCount <= 1
        BY <2>3, <1>2 DEF Holding, StopSound, PinShape, InStop
      <4>. QED BY <4>1, <1>1, TableSize DEF TableSound
    <3>. QED
      BY <2>3, <3>1, <1>1, <1>2, <1>15, <1>16 DEF TypeOK, Places, PinShape,
         AtRest, InRun, InPause, InAcquire, InStop, ForStop, InPnp, StopSound,
         OneAtATime, Kept
  <2>4. CASE ReleaseCount(p) \/ StopReleased(p) \/ StopDone(p)
    BY <2>4, <1>1, <1>2, <1>6, <1>15, <1>16 DEF TypeOK, Places, OneAtATime,
       AllIdle, PinShape, AtRest, InRun, InPause, InAcquire, InStop, ForStop,
       InPnp, StopSound, Kept, TableSound
  <2>. QED BY <2>1, <2>2, <2>3, <2>4
<1>13. HardwareHeld'
  BY <1>1, <1>2, <1>6, <1>15 DEF TypeOK, Places, OneAtATime, AllIdle,
     PinShape, AtRest, InRun, InPause, InAcquire, InStop, ForStop, InPnp,
     HardwareHeld, StopSound, SharedRelease, ReleaseAll
<1>14. Requests'
  <2>1. CASE StopDone(p)
    <3>1. sinkCount # 0 => Holders # {}
      BY <1>1, <1>18, TableSize
    <3>2. Kept /\ Streaming # {} => sinkCount # 0
      BY <1>1, StreamsHold, TableSize DEF TableSound
    <3>3. requested' => requested /\ sinkCount # 0 BY <2>1
    <3>4. requested /\ sinkCount # 0 => requested' BY <2>1
    <3>. QED
      BY <2>1, <3>1, <3>2, <3>3, <3>4, <1>1, <1>6, <1>15 DEF Requests, Kept,
         OneAtATime
  <2>2. CASE StopLast(p) \/ StopHw(p) \/ Release(p) \/ ReleaseCount(p)
             \/ StopReleased(p)
    BY <2>2, <1>1, <1>2, <1>6, <1>15 DEF TypeOK, Places, OneAtATime, AllIdle,
       PinShape, AtRest, InRun, InPause, InAcquire, InStop, ForStop, InPnp,
       Requests, Kept, TableSound
  <2>. QED BY <2>1, <2>2
<1>. QED
  BY <1>3, <1>4, <1>5, <1>7, <1>8, <1>9, <1>10, <1>11, <1>12, <1>13, <1>14
     DEF Books

(* The plug and play and power callbacks.                                  *)
LEMMA Callbacks ==
  ASSUME Books, Serialized, PnpStep
  PROVE  Books'
<1> USE DEF PnpStep, QueryRemove, QueryRemoveQuiet, CancelRemove, MustQuiet,
          CancelRemoveRestart, PnpStop, PnpRemove, PnpSurpriseRemoval,
          Quiesce, QuiesceStop, QuiesceRelease, QuiesceUnlock, PnpStart,
          PowerDown, PowerUp, RequestAfterWake, MayCallPnp, HwStop, HwStart,
          HwStartFails, ReleaseAll, DeleteSynth, NoSinks
<1>1. /\ TypeOK /\ Places /\ OneAtATime /\ InPnp /\ TableSound
      /\ ResourcesCounted /\ ConfigurationHeld /\ RunningCounted
      /\ HardwareHeld /\ Requests
  BY DEF Books, Shape
<1>2. \A q \in Pin : PinShape(q) /\ SlotsFree(q) /\ StopSound(q)
  BY DEF Books, Shape
<1>3. TypeOK' /\ Places'
  <2> USE <1>1, <1>2, DeviceConstants
        DEF TypeOK, Places, Location, PnpLocation, SlotsFree, Slot
  <2>1. /\ pinState' \in [Pin -> {"closed", "stop", "acquire", "pause", "run",
                                 "closing"}]
        /\ pinHw' \in [Pin -> HardwareState] /\ acquired' \in [Pin -> BOOLEAN]
    OBVIOUS
  <2>2. pc' \in [Pin -> Location]
    OBVIOUS
  <2>3. sinks' \in [Slot -> Pin \cup {NoPin}] /\ sinkCount' \in 0 .. MaxSinks
    OBVIOUS
  <2>4. pinsWithResources' \in Int /\ runningPinCount' \in Int
    OBVIOUS
  <2>5. /\ pnp' \in {"started", "leaving", "stopped", "gone"}
        /\ asleep' \in BOOLEAN /\ stale' \in BOOLEAN
    OBVIOUS
  <2>6. /\ configured' \in BOOLEAN /\ removePending' \in BOOLEAN
        /\ powerSaved' \in HardwareState /\ powerRestart' \in BOOLEAN
    OBVIOUS
  <2>7. /\ hw' \in HardwareState /\ requested' \in BOOLEAN
        /\ hwSynth' \in {"none", "live", "dangling", "failed"}
    OBVIOUS
  <2>8. /\ next' \in [Pin -> {"idle", "pauseDone", "stopLast", "stopReleased",
                             "acqFailed"}]
    OBVIOUS
  <2>9. /\ pnpPc' \in PnpLocation /\ pnpReg' \in Int
        /\ reg' \in [Pin -> 0 .. MaxSinks]
    OBVIOUS
  <2>. QED BY <2>1, <2>2, <2>3, <2>4, <2>5, <2>6, <2>7, <2>8, <2>9
<1>4. OneAtATime'
  BY <1>1 DEF OneAtATime, AllIdle, TypeOK, Places
<1>5. Shape'
  <2>1. InPnp'
    BY <1>1, <1>2 DEF TypeOK, Places, OneAtATime, AllIdle, PinShape, AtRest,
       InRun, InPause, InAcquire, InStop, ForStop, InPnp, Holders
  <2>2. ASSUME NEW q \in Pin PROVE PinShape(q)'
    BY <1>1, <1>2 DEF TypeOK, Places, OneAtATime, AllIdle, PinShape, AtRest,
       InRun, InPause, InAcquire, InStop, ForStop, InPnp, Kept
  <2>. QED BY <2>1, <2>2 DEF Shape
<1>6. /\ Streaming' = Streaming /\ Counted' = Counted
      /\ Holders' = Holders /\ Holding' = Holding
  BY <1>1 DEF Counted, Streaming, Holders, Holding
<1>15. ~QuiesceRelease => Tracked' = Tracked
  BY <1>1 DEF Tracked
<1>16. \A p \in Pin : pc[p] = "idle" /\ pc'[p] = "idle"
  BY <1>1 DEF AllIdle, OneAtATime
<1>17. Holding = Holders BY <1>16, QuietTable
<1>18. /\ sinkCount > 0 => Holders # {}
       /\ Kept /\ Holders # {} => sinkCount > 0
  BY <1>16, QuietTable
<1>19. Holders = {} => Counted = {} /\ Streaming = {} /\ Cardinality(Counted) = 0
  BY <1>16, QuietTable
<1>7. TableSound'
  <2>1. CASE QuiesceRelease
    <3>1. sinkCount' = 0 BY <2>1
    <3>2. \A i \in Slot : ~(i < sinkCount')
      BY <3>1, DeviceConstants DEF Slot
    <3>3. Tracked' = {} BY <3>2 DEF Tracked
    <3>4. Kept' => Holding' = {} BY <2>1, <1>1, <1>6, <1>17 DEF Kept, InPnp
    <3>5. Cardinality({}) = 0 BY FS_EmptySet
    <3>. QED BY <3>1, <3>2, <3>3, <3>4, <3>5 DEF TableSound
  <2>2. CASE PnpStart
    BY <2>2, <1>1, <1>6, <1>15, <1>17 DEF TableSound, Kept
  <2>3. CASE QueryRemove \/ QueryRemoveQuiet \/ CancelRemove
             \/ CancelRemoveRestart \/ PnpStop \/ PnpRemove
             \/ PnpSurpriseRemoval \/ QuiesceStop \/ QuiesceUnlock
             \/ PowerDown \/ PowerUp
    BY <2>3, <1>1, <1>6, <1>15 DEF TypeOK, Places, OneAtATime, AllIdle,
       PinShape, AtRest, InRun, InPause, InAcquire, InStop, ForStop, InPnp,
       TableSound, Kept
  <2>. QED BY <2>1, <2>2, <2>3
<1>8. ResourcesCounted'
  BY <1>1, <1>6, <1>16 DEF TypeOK, Places, OneAtATime, AllIdle, PinShape,
     AtRest, InRun, InPause, InAcquire, InStop, ForStop, InPnp,
     ResourcesCounted, Claims, TableSound
<1>9. ASSUME NEW q \in Pin PROVE SlotsFree(q)'
  BY <1>2, <1>16 DEF TypeOK, Places, OneAtATime, AllIdle, PinShape, AtRest,
     InRun, InPause, InAcquire, InStop, ForStop, InPnp, SlotsFree,
     ResourcesCounted, TableSound
<1>10. ConfigurationHeld'
  BY <1>1, <1>16 DEF TypeOK, Places, OneAtATime, AllIdle, PinShape, AtRest,
     InRun, InPause, InAcquire, InStop, ForStop, InPnp, ConfigurationHeld,
     ResourcesCounted, Claims
<1>11. RunningCounted'
  <2>1. CASE PnpStop \/ PnpRemove \/ PnpSurpriseRemoval \/ PnpStart
    BY <2>1, <1>1, <1>6, <1>19 DEF RunningCounted, HardwareHeld, Kept
  <2>2. CASE QueryRemove \/ QueryRemoveQuiet \/ CancelRemove
             \/ CancelRemoveRestart \/ QuiesceStop \/ QuiesceRelease
             \/ QuiesceUnlock \/ PowerDown \/ PowerUp
    BY <2>2, <1>1, <1>6, <1>19 DEF TypeOK, Places, OneAtATime, AllIdle,
       PinShape, AtRest, InRun, InPause, InAcquire, InStop, ForStop, InPnp,
       RunningCounted, Kept, InPnp, HardwareHeld
  <2>. QED BY <2>1, <2>2
<1>12. ASSUME NEW q \in Pin PROVE StopSound(q)'
  BY <1>2, <1>16 DEF TypeOK, Places, OneAtATime, AllIdle, PinShape, AtRest,
     InRun, InPause, InAcquire, InStop, ForStop, InPnp, StopSound, Kept,
     TableSound
<1>13. HardwareHeld'
  <2>1. CASE CancelRemoveRestart
    BY <2>1, <1>1, <1>6, <1>16, <1>18 DEF HardwareHeld, ResourcesCounted,
       Claims, InPnp, TypeOK
  <2>2. CASE PowerUp
    BY <2>2, <1>1, <1>6, <1>16, <1>18 DEF HardwareHeld, ResourcesCounted,
       Claims, InPnp, TypeOK
  <2>3. CASE QueryRemove \/ QueryRemoveQuiet \/ CancelRemove \/ PnpStop
             \/ PnpRemove \/ PnpSurpriseRemoval \/ QuiesceStop
             \/ QuiesceRelease \/ QuiesceUnlock \/ PnpStart \/ PowerDown
    BY <2>3, <1>1, <1>2, <1>6 DEF TypeOK, Places, OneAtATime, AllIdle,
       PinShape, AtRest, InRun, InPause, InAcquire, InStop, ForStop, InPnp,
       HardwareHeld, StopSound
  <2>. QED BY <2>1, <2>2, <2>3
<1>14. Requests'
  <2>1. CASE CancelRemoveRestart
    BY <2>1, <1>1, <1>6, <1>16, <1>18 DEF Requests, Kept, ResourcesCounted,
       Claims, InPnp, TypeOK
  <2>2. CASE PowerUp
    BY <2>2, <1>1, <1>6, <1>16, <1>18 DEF Requests, Kept, ResourcesCounted,
       Claims, InPnp, TypeOK
  <2>3. CASE QueryRemove \/ QueryRemoveQuiet \/ CancelRemove \/ PnpStop
             \/ PnpRemove \/ PnpSurpriseRemoval \/ QuiesceStop
             \/ QuiesceRelease \/ QuiesceUnlock \/ PnpStart \/ PowerDown
    BY <2>3, <1>1, <1>6, <1>16, <1>19 DEF TypeOK, Places, OneAtATime, AllIdle,
       PinShape, AtRest, InRun, InPause, InAcquire, InStop, ForStop, InPnp,
       Requests, Kept, TableSound
  <2>. QED BY <2>1, <2>2, <2>3
<1>. QED
  BY <1>3, <1>4, <1>5, <1>7, <1>8, <1>9, <1>10, <1>11, <1>12, <1>13, <1>14
     DEF Books

-----------------------------------------------------------------------------
(* A device that was just added keeps its books.                           *)
LEMMA BooksInit == Init => Books
<1>. SUFFICES ASSUME Init PROVE Books
  OBVIOUS
<1>. USE DeviceConstants DEF Init
<1>1. TypeOK /\ Places
  <2>1. 0 \in 0 .. MaxSinks OBVIOUS
  <2>2. Places BY DEF Places, Location, PnpLocation
  <2>3. sinks \in [Slot -> Pin \cup {NoPin}] BY DEF NoSinks
  <2>4. pinsWithResources \in Int /\ runningPinCount \in Int OBVIOUS
  <2>. QED BY <2>1, <2>2, <2>3, <2>4 DEF TypeOK
<1>2. /\ Holding = {} /\ Holders = {} /\ Counted = {} /\ Streaming = {}
      /\ Tracked = {}
  BY DEF Holding, Holders, Counted, Streaming, Tracked, Slot
<1>3. OneAtATime /\ Shape
  BY <1>2 DEF OneAtATime, Shape, InPnp, PinShape, AtRest, InRun, InPause,
     InAcquire, InStop
<1>4. TableSound /\ RunningCounted
  BY <1>2, FS_EmptySet DEF TableSound, RunningCounted, Slot
<1>5. ResourcesCounted /\ ConfigurationHeld /\ HardwareHeld /\ Requests
  BY <1>2 DEF ResourcesCounted, Claims, ConfigurationHeld, HardwareHeld,
     Requests
<1>6. ASSUME NEW p \in Pin PROVE SlotsFree(p) /\ StopSound(p)
  BY DEF SlotsFree, StopSound
<1>. QED BY <1>1, <1>3, <1>4, <1>5, <1>6 DEF Books

(* Every step keeps them.                                                  *)
LEMMA BooksStep ==
  ASSUME Serialized, Books, [Next]_vars
  PROVE  Books'
<1>1. CASE Next
  <2>1. CASE PnpStep BY <2>1, Callbacks
  <2>2. ASSUME NEW p \in Pin, PinStep(p) PROVE Books'
    BY <2>2, EntersCallback
  <2>3. ASSUME NEW p \in Pin, RunStep(p) PROVE Books'
    BY <2>3, Runs
  <2>4. ASSUME NEW p \in Pin, PauseStep(p) PROVE Books'
    BY <2>4, Pauses
  <2>5. ASSUME NEW p \in Pin, AcquireStep(p) PROVE Books'
    BY <2>5, Acquires
  <2>6. ASSUME NEW p \in Pin, StopStep(p) PROVE Books'
    BY <2>6, Stops
  <2>. QED BY <1>1, <2>1, <2>2, <2>3, <2>4, <2>5, <2>6 DEF Next
<1>2. CASE UNCHANGED vars
  <2>. USE <1>2 DEF vars
  <2>1. /\ Tracked' = Tracked /\ Holding' = Holding /\ Holders' = Holders
        /\ Counted' = Counted /\ Streaming' = Streaming /\ (Kept' <=> Kept)
    BY DEF Tracked, Holding, Holders, Counted, Streaming, Kept
  <2>2. TypeOK' /\ Places' /\ OneAtATime'
    BY DEF Books, TypeOK, Places, OneAtATime
  <2>3. Shape'
    BY <2>1 DEF Books, Shape, InPnp, PinShape, AtRest, InRun, InPause,
       InAcquire, InStop, ForStop
  <2>4. TableSound' /\ RunningCounted'
    BY <2>1 DEF Books, TableSound, RunningCounted
  <2>5. ResourcesCounted' /\ ConfigurationHeld'
    BY DEF Books, ResourcesCounted, Claims, ConfigurationHeld
  <2>6. HardwareHeld' /\ Requests'
    BY <2>1 DEF Books, HardwareHeld, Requests
  <2>7. ASSUME NEW p \in Pin PROVE SlotsFree(p)' /\ StopSound(p)'
    BY <2>1 DEF Books, SlotsFree, StopSound
  <2>. QED BY <2>2, <2>3, <2>4, <2>5, <2>6, <2>7 DEF Books
<1>. QED BY <1>1, <1>2

-----------------------------------------------------------------------------
(* The books are kept in every state.                                      *)
THEOREM DeviceBooks == ASSUME Serialized PROVE Spec => []Books
<1>1. Init => Books BY BooksInit
<1>2. Books /\ [Next]_vars => Books' BY BooksStep
<1>. QED BY <1>1, <1>2, PTL DEF Spec

(* Every variable keeps its type, and the counters of sinks stay within    *)
(* the table.                                                              *)
THEOREM DeviceTypes == ASSUME Serialized PROVE Spec => []TypeOK
<1>1. Books => TypeOK BY DEF Books
<1>. QED BY <1>1, DeviceBooks, PTL

(* Between callbacks the counts of running pins, of sinks and of           *)
(* resources are those of the pins, and the request to the client goes     *)
(* with the streams (device.cpp:722 to 1047, capture.cpp:961 and 1078).    *)
THEOREM DeviceStreamsAccounted ==
  ASSUME Serialized PROVE Spec => []StreamsAccounted
<1>1. Books => StreamsAccounted
  <2>. SUFFICES ASSUME Books, AllIdle, pnp # "gone", ~stale
                PROVE  /\ runningPinCount = Cardinality(RunningPins)
                       /\ Tracked = Holders
                       /\ sinkCount = Cardinality(Holders)
                       /\ pinsWithResources = sinkCount
                       /\ requested => Holders # {}
                       /\ RunningPins # {} /\ hw = "Running" => requested
    BY DEF StreamsAccounted, RunningCountExact, SinksExact,
       RequestMatchesStreams, Settled
  <2>1. /\ TableSound /\ ResourcesCounted /\ RunningCounted /\ Requests
        /\ \A p \in Pin : pc[p] = "idle"
        /\ pnpPc = "idle" /\ Kept
    BY DEF Books, AllIdle, Kept
  <2>2. RunningPins = Counted /\ RunningPins = Streaming
    BY <2>1 DEF RunningPins, Counted, Streaming
  <2>3. Holding = Holders BY <2>1 DEF Holding, Holders
  <2>4. Tracked = Holders BY <2>1, <2>3 DEF TableSound
  <2>5. pinsWithResources = sinkCount
    BY <2>1 DEF ResourcesCounted, Claims
  <2>. QED
    BY <2>1, <2>2, <2>4, <2>5 DEF TableSound, RunningCounted, Requests
<1>. QED BY <1>1, DeviceBooks, PTL

(* When no pin holds the camera it is off and forgotten, whatever came     *)
(* before (capture.cpp:936 to 962, device.cpp:897 to 918).                 *)
THEOREM DeviceOffWhenReleased ==
  ASSUME Serialized PROVE Spec => []OffWhenReleased
<1>1. Books => OffWhenReleased
  <2>. SUFFICES ASSUME Books, AllIdle, Holders = {}
                PROVE  /\ sinkCount = 0 /\ pinsWithResources = 0
                       /\ runningPinCount = 0 /\ ~configured
                       /\ hw = "Stopped" /\ ~requested
    BY DEF OffWhenReleased
  <2>1. /\ TypeOK /\ TableSound /\ ResourcesCounted /\ HardwareHeld /\ Requests
        /\ ConfigurationHeld /\ pnpPc = "idle"
        /\ \A p \in Pin : pc[p] = "idle"
    BY DEF Books, AllIdle
  <2>2. Tracked = {}
    BY <2>1 DEF TableSound, Holding, Holders
  <2>3. sinkCount = 0 BY <2>1, <2>2, TableSize
  <2>4. pinsWithResources = 0
    BY <2>1, <2>3 DEF ResourcesCounted, Claims
  <2>. QED
    BY <2>1, <2>3, <2>4 DEF HardwareHeld, Requests, ConfigurationHeld
<1>. QED BY <1>1, DeviceBooks, PTL

-----------------------------------------------------------------------------
(* Initially nothing streams.                                              *)
LEMMA ServiceInit == Init => Service
  BY DEF Init, Service, Streaming

(* Given the books, every step keeps the running pins served.              *)
LEMMA ServiceStep ==
  ASSUME Serialized, ~CallsAsleep, Books, Service, [Next]_vars
  PROVE  Service'
<1>1. /\ TypeOK /\ Places /\ OneAtATime /\ InPnp /\ TableSound
      /\ ResourcesCounted /\ ConfigurationHeld /\ RunningCounted
      /\ HardwareHeld /\ Requests
  BY DEF Books, Shape
<1>2. \A q \in Pin : PinShape(q) /\ SlotsFree(q) /\ StopSound(q)
  BY DEF Books, Shape
<1>3. ASSUME NEW p \in Pin, PinStep(p) PROVE Service'
  <2>. USE <1>3 DEF PinStep, Open, Close, BeginAcquire, PauseFromAcquire,
             BeginRun, BeginPause, LowerToAcquire, BeginStop, MayCall,
             MayRaise, EnterStop
  <2>1. Streaming' = Streaming
    BY <1>1, <1>2 DEF TypeOK, Places, PinShape, AtRest, InRun, InPause,
       InAcquire, InStop, ForStop, InPnp, Streaming
  <2>. QED
    BY <1>1, <1>2, <2>1 DEF TypeOK, Places, OneAtATime, AllIdle, PinShape,
       AtRest, InRun, InPause, InAcquire, InStop, ForStop, InPnp, Service,
       Kept
<1>4. ASSUME NEW p \in Pin, RunStep(p) PROVE Service'
  <2>. USE <1>4 DEF RunStep, RunCount, RunCheck, RunResume, RunStart, RunUndo,
             RunDone, HwResume, HwStart, HwStartFails, CountWithoutPin
  <2>1. ~RunDone(p) => Streaming' = Streaming
    BY <1>1, <1>2 DEF TypeOK, Places, PinShape, AtRest, InRun, InPause,
       InAcquire, InStop, ForStop, InPnp, Streaming
  <2>. QED
    BY <1>1, <1>2, <2>1 DEF TypeOK, Places, OneAtATime, AllIdle, PinShape,
       AtRest, InRun, InPause, InAcquire, InStop, ForStop, InPnp, Service,
       Kept
<1>5. ASSUME NEW p \in Pin, PauseStep(p) PROVE Service'
  <2>. USE <1>5 DEF PauseStep, PauseCheck, PauseCount, PauseHw, PauseDone,
             OthersRun, HwPause
  <2>1. Streaming' \subseteq Streaming
    BY <1>1, <1>2 DEF TypeOK, Places, PinShape, AtRest, InRun, InPause,
       InAcquire, InStop, ForStop, InPnp, Streaming
  <2>2. PauseHw(p) /\ Kept => Streaming = {}
    BY <1>2 DEF StopSound
  <2>. QED
    BY <1>1, <1>2, <2>1, <2>2 DEF TypeOK, Places, OneAtATime, AllIdle,
       PinShape, AtRest, InRun, InPause, InAcquire, InStop, ForStop, InPnp,
       Service, Kept
<1>6. ASSUME NEW p \in Pin, AcquireStep(p) PROVE Service'
  <2>. USE <1>6 DEF AcquireStep, AcqClaim, AcqConfigure, AcqPublish, AcqCheck,
             AcqSlot, AcqAppend, AcqCount, AcqDone, AcqFailed, SlotFree,
             DeleteSynth
  <2>1. Streaming' = Streaming
    BY <1>1, <1>2 DEF TypeOK, Places, PinShape, AtRest, InRun, InPause,
       InAcquire, InStop, ForStop, InPnp, Streaming
  <2>2. AcqConfigure(p) => ~configured /\ hwSynth' = hwSynth
    BY <1>1 DEF ResourcesCounted, Claims, ConfigurationHeld, OneAtATime
  <2>3. pnp = "started" /\ pnpPc = "idle" /\ pnpPc' = "idle"
    BY <1>1, <1>2 DEF OneAtATime, PinShape, InAcquire
  <2>4. ~asleep /\ ~asleep' /\ Kept' = Kept
    BY <1>1 DEF Service, Kept
  <2>5. hwSynth' = hwSynth /\ hw' = hw /\ stale' = stale /\ pnp' = pnp
    BY <2>2
  <2>. QED
    BY <2>1, <2>3, <2>4, <2>5, <1>1 DEF Service, Kept
<1>7. ASSUME NEW p \in Pin, StopStep(p) PROVE Service'
  <2>. USE <1>7 DEF StopStep, StopLast, StopHw, Release, ReleaseCount,
             StopReleased, StopDone, LastHolder, HwStop, RequestAfterStop
  <2>1. Streaming' = Streaming
    BY <1>1, <1>2 DEF TypeOK, Places, PinShape, AtRest, InRun, InPause,
       InAcquire, InStop, ForStop, InPnp, Streaming
  <2>2. StopHw(p) /\ Kept => Streaming = {}
    <3>. SUFFICES ASSUME StopHw(p), Kept PROVE Streaming = {}
      OBVIOUS
    <3>1. p \in Holding /\ sinkCount <= 1 /\ p \notin Streaming
      BY <1>1, <1>2 DEF Holding, Streaming, StopSound, PinShape, InStop
    <3>2. Holding = {p}
      BY <3>1, <1>1, TableSize DEF TableSound
    <3>. QED BY <3>1, <3>2, StreamsHold
  <2>3. Release(p) /\ ~OneOfSeveral(p) /\ ~stale /\ hw # "Stopped"
          => hwSynth' = hwSynth
    <3>. SUFFICES ASSUME Release(p), ~OneOfSeveral(p), ~stale, hw # "Stopped"
                  PROVE  hwSynth' = hwSynth
      OBVIOUS
    <3>1. CASE next[p] = "acqFailed"
      BY <3>1, <1>1 DEF ResourcesCounted, Claims, ConfigurationHeld,
         OneAtATime, ReleaseAll
    <3>2. CASE next[p] = "stopReleased"
      <4>1. Kept BY <1>1 DEF Kept, HardwareHeld, OneAtATime
      <4>2. p \in Tracked
        BY <3>2, <4>1, <1>1, <1>2 DEF TableSound, Holding, PinShape, InStop
      <4>. QED BY <3>2, <4>1, <4>2, <1>2 DEF StopSound, OneOfSeveral
    <3>. QED BY <3>1, <3>2, <1>2 DEF PinShape, InStop
  <2>4. Release(p) /\ OneOfSeveral(p) => hwSynth' = hwSynth
    BY DEF SharedRelease
  <2>5. Release(p) => /\ hw' = hw /\ hwSynth' \in {hwSynth, "dangling"}
                      /\ hwSynth # "live" => hwSynth' = hwSynth
    BY <2>4 DEF ReleaseAll, DeleteSynth
  <2>6. CASE Release(p)
    <3>1. /\ pc'[p] \in {"releaseOne", "releaseAll"} /\ pc[p] = "release"
          /\ \A q \in Pin : q # p => pc'[q] = "idle"
          /\ next' = next
      BY <2>6, <1>1 DEF OneAtATime, Places
    <3>2. /\ pnpPc = "idle" /\ pnpPc' = "idle" /\ stale' = stale /\ pnp' = pnp
          /\ asleep' = asleep /\ powerRestart' = powerRestart
          /\ powerSaved' = powerSaved /\ pinsWithResources' = pinsWithResources
      BY <2>6, <1>1 DEF OneAtATime
    <3>3. ~stale /\ hw # "Stopped" => hwSynth' = hwSynth
      BY <2>3, <2>4, <2>6
    <3>. HIDE <1>7 DEF Release, StopStep
    <3>. QED
      BY <2>1, <2>5, <2>6, <3>1, <3>2, <3>3 DEF Service, Kept
  <2>7. CASE StopHw(p)
    BY <1>1, <1>2, <2>1, <2>2, <2>7 DEF TypeOK, Places, OneAtATime, PinShape,
       AtRest, InRun, InPause, InAcquire, InStop, ForStop, InPnp, Service,
       Kept
  <2>8. CASE StopLast(p) \/ ReleaseCount(p) \/ StopReleased(p) \/ StopDone(p)
    BY <1>1, <1>2, <2>1, <2>8 DEF TypeOK, Places, OneAtATime, PinShape,
       AtRest, InRun, InPause, InAcquire, InStop, ForStop, InPnp, Service,
       Kept
  <2>. QED BY <2>6, <2>7, <2>8
<1>8. ASSUME PnpStep PROVE Service'
  <2>. USE <1>8
        DEF PnpStep, QueryRemove, QueryRemoveQuiet, CancelRemove, MustQuiet,
            CancelRemoveRestart, PnpStop, PnpRemove, PnpSurpriseRemoval,
            Quiesce, QuiesceStop, QuiesceRelease, QuiesceUnlock, PnpStart,
            PowerDown, PowerUp, RequestAfterWake, MayCallPnp, HwStop, HwStart,
            HwStartFails, ReleaseAll, DeleteSynth, NoSinks
  <2>1. Streaming' = Streaming
    BY DEF Streaming
  <2>2. \A p \in Pin : pc[p] = "idle" /\ pc'[p] = "idle"
    BY <1>1 DEF AllIdle, OneAtATime
  <2>3. /\ Kept /\ Streaming # {} => sinkCount > 0
        /\ Holders = {} => Streaming = {}
    BY <2>2, QuietTable
  <2>4. pnpPc # "quiesceUnlock" => pinsWithResources = sinkCount
    BY <1>1, <2>2 DEF ResourcesCounted, Claims
  <2>5. sinkCount > 0 => configured
    BY <1>1 DEF ConfigurationHeld
  <2>6. CASE QuiesceStop \/ QuiesceRelease \/ QuiesceUnlock
    BY <2>6, <2>1, <2>2, <1>1 DEF Service, Kept, InPnp, HardwareHeld
  <2>7. CASE PnpStop \/ PnpRemove \/ PnpSurpriseRemoval
    <3>1. /\ pnp' \in {"stopped", "gone"} /\ pnpPc' = "quiesceStop"
          /\ ~asleep' /\ hw' = hw /\ hwSynth' = hwSynth
      BY <2>7
    <3>2. ~stale' => ~stale BY <2>7
    <3>. HIDE <1>8 DEF PnpStop, PnpRemove, PnpSurpriseRemoval
    <3>. QED BY <3>1, <3>2, <2>2 DEF Service, Kept
  <2>12. CASE PnpStart
    <3>1. Kept' \/ ~stale' => Streaming' = {} /\ hw = "Stopped"
      BY <2>12, <2>1, <2>3, <1>1 DEF Kept, HardwareHeld
    <3>. QED BY <2>12, <3>1, <2>2, <1>1 DEF Service, InPnp
  <2>8. CASE QueryRemove \/ QueryRemoveQuiet \/ CancelRemove
    BY <2>8, <2>1, <2>2, <2>3, <2>4, <1>1 DEF Service, Kept, InPnp, TypeOK
  <2>9. CASE CancelRemoveRestart
    BY <2>9, <2>1, <2>2, <2>3, <2>4, <2>5, <1>1 DEF Service, Kept, InPnp,
       TypeOK
  <2>10. CASE PowerDown
    BY <2>10, <2>1, <2>2, <2>3, <2>4, <2>5, <1>1 DEF Service, Kept, InPnp,
       TypeOK
  <2>11. CASE PowerUp
    BY <2>11, <2>1, <2>2, <2>3, <2>4, <2>5, <1>1 DEF Service, Kept, InPnp,
       TypeOK
  <2>. QED BY <2>6, <2>7, <2>8, <2>9, <2>10, <2>11, <2>12
<1>9. CASE UNCHANGED vars
  <2>1. Streaming' = Streaming /\ (Kept' <=> Kept)
    BY <1>9 DEF vars, Streaming, Kept
  <2>. QED BY <1>9, <2>1 DEF vars, Service
<1>. QED BY <1>3, <1>4, <1>5, <1>6, <1>7, <1>8, <1>9 DEF Next

(* So is what the service of a running pin needs.                          *)
THEOREM DeviceService ==
  ASSUME Serialized, ~CallsAsleep PROVE Spec => [](Books /\ Service)
<1>1. Init => Books /\ Service BY BooksInit, ServiceInit
<1>2. Books /\ Service /\ [Next]_vars => (Books /\ Service)'
  BY BooksStep, ServiceStep
<1>. QED BY <1>1, <1>2, PTL DEF Spec

(* The hardware never runs or pauses on a synthesizer that has been        *)
(* deleted under it (device.cpp:744 and 897).                              *)
THEOREM DeviceSynthOutlivesHardware ==
  ASSUME Serialized, ~CallsAsleep PROVE Spec => []SynthOutlivesHardware
<1>1. Service => SynthOutlivesHardware BY DEF Service, SynthOutlivesHardware
<1>. QED BY <1>1, DeviceService, PTL

(* A pin that is running has a running hardware, through removals that are *)
(* cancelled and through sleep, unless the hardware failed to start        *)
(* (device.cpp:542, 651 and 1014).                                         *)
THEOREM DeviceRunningPinsServed ==
  ASSUME Serialized, ~CallsAsleep PROVE Spec => []RunningPinsServed
<1>1. Books /\ Service => RunningPinsServed
  <2>. SUFFICES ASSUME Service, AllIdle, pnp = "started", ~stale, ~asleep,
                       RunningPins # {}
                PROVE  hw = "Running" \/ hwSynth = "failed"
    BY DEF RunningPinsServed, Settled
  <2>1. Streaming = RunningPins
    BY DEF AllIdle, Streaming, RunningPins
  <2>2. Kept /\ pnpPc = "idle" BY DEF AllIdle, Kept
  <2>. QED BY <2>1, <2>2 DEF Service
<1>. QED BY <1>1, DeviceService, PTL

(* Start is only called on a hardware that is stopped (hwsim.cpp:990): the *)
(* assumption under which module HwSim models and HwSimProofs proves the   *)
(* hardware.                                                               *)
THEOREM DeviceStartsFromStopped ==
  ASSUME Serialized, ~CallsAsleep PROVE Spec => StartsFromStopped
<1>1. Books /\ Service /\ [Next]_vars
        => [StartCalled /\ configured => hw = "Stopped"]_vars
  <2>. SUFFICES ASSUME Books, Service, StartCalled PROVE hw = "Stopped"
    OBVIOUS
  <2>1. \A p \in Pin : InRun(p) BY DEF Books, Shape, PinShape
  <2>. QED BY <2>1 DEF StartCalled, Service, InRun
<1>. QED BY <1>1, DeviceService, PTL DEF Spec, StartsFromStopped

=============================================================================
