----------------------------- MODULE MicStream -----------------------------
(***************************************************************************)
(* The microphone's stream (CMiniportWaveRTStream, audio-driver-project/   *)
(* Source/Main/minwavertstream.cpp) and its place in the miniport          *)
(* (minwavert.cpp).  There is no hardware: positions are computed from the *)
(* clock whenever somebody asks, and a timer of one millisecond stands for *)
(* the interrupt at the end of a packet.                                   *)
(*                                                                         *)
(* Time is in ticks of "100 ns", HnsPerMs of them to a millisecond.        *)
(* dmaAge and dpcAge are the time since m_ullDmaTimeStamp and              *)
(* m_ullLastDPCTimeStamp.  A section under m_PositionSpinLock is one step, *)
(* except that the timer's DPC, which keeps the lock, walks the list of    *)
(* notification events one entry at a time: the list is changed without    *)
(* the lock.  The DMA buffer receives what the ring of VirtuaCamMicBridge  *)
(* holds (module MicFeed); here bytes are only counted.                    *)
(*                                                                         *)
(* Left out: the render branches (minipairs.h registers no render          *)
(* endpoint) and with them m_bEoSReceived, which no code sets; queries     *)
(* that change nothing; the tone generator.                                *)
(*                                                                         *)
(* Assumed of the port: state changes come one at a time and step by step, *)
(* a buffer is allocated and freed, and events are registered and          *)
(* unregistered, only when the stream is at most paused, and a stream runs *)
(* only with a buffer.  The code tests none of it.                         *)
(***************************************************************************)
EXTENDS Integers, Sequences

CONSTANTS
  HnsPerMs,      \* HNSTIME_PER_MILLISECOND
  MsPerSecond,   \* the 1000 of the conversions
  Rate,          \* nAvgBytesPerSec
  BlockAlign,    \* nBlockAlign
  Request,       \* requests for a buffer: [size, count], count 0 for
                 \* AllocateAudioBuffer
  Event,         \* notification events of the client
  MaxStreams,    \* MICARRAY_MAX_INPUT_STREAMS
  Ulong,         \* 2^32
  MaxTicks,      \* bound on the time a stream runs between two stops,
  MaxOwed        \* and on the packet counter's carry at a stop

ASSUME StreamConstants ==
  /\ {HnsPerMs, MsPerSecond, Rate, BlockAlign, MaxStreams, Ulong}
       \subseteq Nat \ {0}
  /\ Request \subseteq [size : Nat, count : Nat]
  /\ MaxTicks \in Nat /\ MaxOwed \in Nat

VARIABLES
  \* CMiniportWaveRT
  slots,             \* m_ulSystemAllocated
  \* CMiniportWaveRTStream
  stream,            \* "none", "open" or "closing"
  unregister,        \* m_bUnregisterStream
  ks,                \* m_KsState
  bufSize, notifs, interval, mapped,
                     \* m_ulDmaBufferSize, m_ulNotificationsPerBuffer,
                     \* m_ulNotificationIntervalMs, m_pDmaBuffer # NULL
  packets,           \* m_llPacketCounter
  linear, writePos,  \* m_ullLinearPosition, m_ullWritePosition
  elapsedCarry, byteCarry, dpcCarry,
                     \* m_hnsElapsedTimeCarryForward,
                     \* m_byteDisplacementCarryForward,
                     \* m_hnsDPCTimeCarryForward
  dmaAge, dpcAge,
  list,              \* m_NotificationList
  lastRead,          \* m_ulLastOsReadPacket, -1 for ULONG_MAX
  \* the callers
  ctl,               \* where the thread in SetState is
  snap,              \* what GetReadPacket has copied: m_llPacketCounter
  \* the timer
  timer, phase, due, \* set, time since the last expiry, DPC queued
  dpc,               \* 0: not running; else the list entry it is at
  \* history
  ran,               \* time run since STOP, in units of a byte's time
  owed,              \* dpcCarry as it was at the last STOP
  wrapped            \* a 32-bit product has wrapped since STOP

bufferVars == <<bufSize, notifs, interval, mapped>>
positionVars == <<linear, writePos, elapsedCarry, byteCarry, dmaAge, wrapped>>
packetVars == <<packets, dpcCarry, dpcAge>>
timerVars == <<timer, phase, due>>
historyVars == <<ran, owed>>
openVars == <<slots, stream, unregister>>
streamVars ==
  <<openVars, ks, bufferVars, positionVars, packetVars, list, lastRead, ctl,
    snap, timerVars, dpc, historyVars>>

NoPacket == -1
KsState == {"STOP", "ACQUIRE", "PAUSE", "RUN"}

InitialStream ==
  /\ ks = "STOP" /\ ctl = "idle" /\ snap = NoPacket
  /\ bufSize = 0 /\ notifs = 0 /\ interval = 0 /\ mapped = FALSE
  /\ packets = 0 /\ linear = 0 /\ writePos = 0
  /\ elapsedCarry = 0 /\ byteCarry = 0 /\ dpcCarry = 0
  /\ dmaAge = 0 /\ dpcAge = 0 /\ wrapped = FALSE
  /\ list = <<>> /\ lastRead = NoPacket
  /\ timer = "off" /\ phase = 0 /\ due = FALSE /\ dpc = 0
  /\ ran = 0 /\ owed = 0

StreamInit ==
  /\ slots = 0 /\ stream = "none" /\ unregister = FALSE
  /\ InitialStream

-----------------------------------------------------------------------------
(* Streams come and go.                                                    *)

(* NewStream: a stream whose Init has succeeded.                           *)
NewStream ==
  /\ stream = "none"
  /\ slots < MaxStreams
  /\ stream' = "open" /\ slots' = slots + 1 /\ unregister' = TRUE
  /\ UNCHANGED <<ks, bufferVars, positionVars, packetVars, list, lastRead,
                 ctl, snap, timerVars, dpc, historyVars>>

(* Init fails half-way, and NewStream releases the stream: the destructor  *)
(* runs without a slot to give back.                                       *)
NewStreamFails ==
  /\ stream = "none"
  /\ slots < MaxStreams
  /\ stream' = "closing"
  /\ UNCHANGED <<slots, unregister, ks, bufferVars, positionVars, packetVars,
                 list, lastRead, ctl, snap, timerVars, dpc, historyVars>>

Quiet == stream = "open" /\ ctl = "idle" /\ snap = NoPacket

(* The last reference is released: the port has stopped the stream, freed  *)
(* its buffer and unregistered its events.                                 *)
CloseStream ==
  /\ Quiet /\ ks = "STOP" /\ bufSize = 0 /\ list = <<>>
  /\ stream' = "closing"
  /\ UNCHANGED <<slots, unregister, ks, bufferVars, positionVars, packetVars,
                 list, lastRead, ctl, snap, timerVars, dpc, historyVars>>

(* StreamClosed, called only for a stream that StreamCreated has counted.  *)
SlotsAfterClose == IF unregister THEN slots - 1 ELSE slots

(* The destructor; ExDeleteTimer waits for a callback.                     *)
DestroyStream ==
  /\ stream = "closing" /\ dpc = 0
  /\ slots' = SlotsAfterClose
  /\ unregister' = FALSE
  /\ stream' = "none"
  /\ ks' = "STOP" /\ ctl' = "idle" /\ snap' = NoPacket
  /\ bufSize' = 0 /\ notifs' = 0 /\ interval' = 0 /\ mapped' = FALSE
  /\ packets' = 0 /\ linear' = 0 /\ writePos' = 0
  /\ elapsedCarry' = 0 /\ byteCarry' = 0 /\ dpcCarry' = 0
  /\ dmaAge' = 0 /\ dpcAge' = 0 /\ wrapped' = FALSE
  /\ list' = <<>> /\ lastRead' = NoPacket
  /\ timer' = "off" /\ phase' = 0 /\ due' = FALSE /\ dpc' = 0
  /\ ran' = 0 /\ owed' = 0

-----------------------------------------------------------------------------
(* Buffers and events.                                                     *)

Aligned(size) == size - (size % BlockAlign)

(* m_ulNotificationIntervalMs: whole milliseconds, rounded down twice.     *)
IntervalOf(size, count) ==
  (((size * MsPerSecond) % Ulong) \div Rate) \div count

(* AllocateBufferWithNotification, and AllocateAudioBuffer, which leaves   *)
(* the interval of an earlier buffer as it is.                             *)
AllocateBuffer(r) ==
  /\ Quiet /\ ks = "STOP" /\ bufSize = 0
  /\ r.size >= BlockAlign
  /\ r.count > 0 => r.size % r.count = 0
  /\ mapped' = TRUE
  /\ bufSize' = Aligned(r.size) /\ notifs' = r.count
  /\ interval' = (IF r.count = 0 THEN interval
                  ELSE IntervalOf(Aligned(r.size), r.count))
  /\ UNCHANGED <<openVars, ks, positionVars, packetVars, list, lastRead, ctl,
                 snap, timerVars, dpc, historyVars>>

(* FreeBufferWithNotification, FreeAudioBuffer.                            *)
FreeBuffer ==
  /\ Quiet /\ ks = "STOP" /\ bufSize > 0
  /\ mapped' = FALSE /\ bufSize' = 0 /\ notifs' = 0
  /\ UNCHANGED <<openVars, ks, interval, positionVars, packetVars, list,
                 lastRead, ctl, snap, timerVars, dpc, historyVars>>

Registered == {list[i] : i \in DOMAIN list}

RegisterNotificationEvent(e) ==
  /\ Quiet /\ ks # "RUN" /\ e \notin Registered
  /\ list' = Append(list, e)
  /\ UNCHANGED <<openVars, ks, bufferVars, positionVars, packetVars, lastRead,
                 ctl, snap, timerVars, dpc, historyVars>>

UnregisterNotificationEvent(e) ==
  /\ Quiet /\ ks # "RUN"
  /\ \E i \in DOMAIN list :
       /\ list[i] = e
       /\ list' = SubSeq(list, 1, i - 1) \o SubSeq(list, i + 1, Len(list))
  /\ UNCHANGED <<openVars, ks, bufferVars, positionVars, packetVars, lastRead,
                 ctl, snap, timerVars, dpc, historyVars>>

-----------------------------------------------------------------------------
(* Positions.                                                              *)

(* Faulty: forgets what is left of the milliseconds.                       *)
HnsLeftFaulty(hns) == 0
HnsLeft(hns) == hns % HnsPerMs

(* UpdatePosition, under the lock: whole milliseconds become bytes, what   *)
(* is left of both divisions is carried forward.  Sums and products are    *)
(* 32 bits wide.                                                           *)
UpdatePosition ==
  LET hns == dmaAge + elapsedCarry
      ms == (hns % Ulong) \div HnsPerMs
      product == Rate * ms + byteCarry
      bytes == (product % Ulong) \div MsPerSecond
  IN  /\ elapsedCarry' = HnsLeft(hns)
      /\ byteCarry' = (product % Ulong) % MsPerSecond
      /\ linear' = linear + bytes
      /\ writePos' = (writePos + bytes) % bufSize
      /\ dmaAge' = 0
      /\ wrapped' = (wrapped \/ hns >= Ulong \/ product >= Ulong)

LockFree == dpc = 0

(* GetPosition, GetPositions, GetPacketCount, and through the second       *)
(* GetPresentationPosition, of a running stream.                           *)
GetPosition ==
  /\ stream = "open" /\ LockFree
  /\ ks = "RUN" /\ dmaAge > 0
  /\ UpdatePosition
  /\ UNCHANGED <<openVars, ks, bufferVars, packetVars, list, lastRead, ctl,
                 snap, timerVars, dpc, historyVars>>

(* GetReadPacket copies the counter under the lock ...                     *)
GetReadPacket ==
  /\ Quiet /\ LockFree
  /\ notifs > 0 /\ ks \in {"PAUSE", "RUN"}
  /\ packets - 1 # lastRead
  /\ snap' = packets
  /\ UNCHANGED <<openVars, ks, bufferVars, positionVars, packetVars, list,
                 lastRead, ctl, timerVars, dpc, historyVars>>

(* ... and returns the packet before it.                                   *)
ReturnReadPacket ==
  /\ snap # NoPacket
  /\ lastRead' = snap - 1
  /\ snap' = NoPacket
  /\ UNCHANGED <<openVars, ks, bufferVars, positionVars, packetVars, list,
                 ctl, timerVars, dpc, historyVars>>

-----------------------------------------------------------------------------
(* SetState.                                                               *)

Goto(l) == ctl' = l

SetAcquire ==
  /\ Quiet /\ ks \in {"STOP", "PAUSE"} /\ bufSize > 0
  /\ ks' = "ACQUIRE"
  /\ UNCHANGED <<openVars, bufferVars, positionVars, packetVars, list,
                 lastRead, ctl, snap, timerVars, dpc, historyVars>>

(* PAUSE from below: GetPositions finds a stream that does not run.        *)
SetPause ==
  /\ Quiet /\ ks = "ACQUIRE"
  /\ ks' = "PAUSE"
  /\ UNCHANGED <<openVars, bufferVars, positionVars, packetVars, list,
                 lastRead, ctl, snap, timerVars, dpc, historyVars>>

LastReadAfterStop == NoPacket

(* STOP: the positions and packet numbers start again; the three carries   *)
(* do not.                                                                 *)
SetStop ==
  /\ Quiet /\ ks = "ACQUIRE" /\ LockFree
  /\ dpcCarry <= MaxOwed
  /\ ks' = "STOP"
  /\ packets' = 0 /\ linear' = 0 /\ writePos' = 0
  /\ lastRead' = LastReadAfterStop
  /\ ran' = HnsPerMs * byteCarry + Rate * elapsedCarry
  /\ owed' = dpcCarry /\ wrapped' = FALSE
  /\ UNCHANGED <<openVars, bufferVars, elapsedCarry, byteCarry, dmaAge,
                 dpcCarry, dpcAge, list, ctl, snap, timerVars, dpc>>

(* RUN: both time stamps are taken and the timer is armed ...              *)
BeginRun ==
  /\ Quiet /\ ks = "PAUSE"
  /\ dmaAge' = 0 /\ dpcAge' = 0
  /\ IF interval > 0 THEN timer' = "set" /\ phase' = 0 /\ UNCHANGED due
                     ELSE UNCHANGED timerVars
  /\ Goto("run")
  /\ UNCHANGED <<openVars, ks, bufferVars, linear, writePos, elapsedCarry,
                 byteCarry, wrapped, packets, dpcCarry, list, lastRead, snap,
                 dpc, historyVars>>

(* ... before the state is set: the timer may expire in between.           *)
EndRun ==
  /\ ctl = "run"
  /\ ks' = "RUN" /\ Goto("idle")
  /\ UNCHANGED <<openVars, bufferVars, positionVars, packetVars, list,
                 lastRead, snap, timerVars, dpc, historyVars>>

(* RUN to PAUSE: the timer is cancelled, which does not stop a callback    *)
(* that has begun or is queued, ...                                        *)
PauseCancel ==
  /\ stream = "open" /\ ctl = "idle" /\ ks = "RUN"
  /\ IF interval > 0 THEN timer' = "off" /\ Goto("pauseFlush")
                     ELSE UNCHANGED timer /\ Goto("pausePosition")
  /\ UNCHANGED <<openVars, ks, bufferVars, positionVars, packetVars, list,
                 lastRead, snap, phase, due, dpc, historyVars>>

(* ... KeFlushQueuedDpcs waits for it, ...                                 *)
DpcsFlushedFaulty == TRUE  \* faulty: goes on at once
DpcsFlushed == ~due /\ dpc = 0
PauseFlush ==
  /\ ctl = "pauseFlush"
  /\ DpcsFlushed
  /\ Goto("pauseCarry")
  /\ UNCHANGED <<openVars, ks, bufferVars, positionVars, packetVars, list,
                 lastRead, snap, timerVars, dpc, historyVars>>

(* ... the time since the last packet is kept for the next run, ...        *)
PauseCarry ==
  /\ ctl = "pauseCarry"
  /\ dpcCarry' = dpcAge + dpcCarry
  /\ Goto("pausePosition")
  /\ UNCHANGED <<openVars, ks, bufferVars, positionVars, packets, dpcAge,
                 list, lastRead, snap, timerVars, dpc, historyVars>>

(* ... the positions are brought up to date, ...                           *)
PausePosition ==
  /\ ctl = "pausePosition" /\ LockFree
  /\ UpdatePosition
  /\ Goto("pauseDone")
  /\ UNCHANGED <<openVars, ks, bufferVars, packetVars, list, lastRead, snap,
                 timerVars, dpc, historyVars>>

(* ... and the state is set.  What passed since then is not played.        *)
PauseDone ==
  /\ ctl = "pauseDone"
  /\ ks' = "PAUSE" /\ Goto("idle")
  /\ ran' = ran - Rate * dmaAge
  /\ dmaAge' = 0 /\ dpcAge' = 0
  /\ UNCHANGED <<openVars, bufferVars, linear, writePos, elapsedCarry,
                 byteCarry, wrapped, packets, dpcCarry, list, lastRead, snap,
                 timerVars, dpc, owed>>

-----------------------------------------------------------------------------
(* The clock, and the timer's DPC.                                         *)

(* A tick while the stream runs, or is about to.  A timer that expires     *)
(* queues its DPC; one that is already queued is not queued again.         *)
Running == ks = "RUN" \/ ctl = "run"
Tick ==
  /\ Running /\ ran < Rate * MaxTicks
  /\ ran' = ran + Rate
  /\ dmaAge' = dmaAge + 1 /\ dpcAge' = dpcAge + 1
  /\ IF timer = "set"
     THEN /\ phase' = (phase + 1) % HnsPerMs
          /\ due' = (due \/ phase + 1 = HnsPerMs)
     ELSE UNCHANGED <<phase, due>>
  /\ UNCHANGED <<openVars, ks, bufferVars, linear, writePos, elapsedCarry,
                 byteCarry, wrapped, packets, dpcCarry, list, lastRead, ctl,
                 snap, timer, dpc, owed>>

SinceLastPacket == dpcAge + dpcCarry
PacketElapsed == (SinceLastPacket % Ulong) \div HnsPerMs >= interval

(* TimerNotifyRT on a tick that ends no packet.                            *)
DpcEarly ==
  /\ due /\ LockFree
  /\ ~PacketElapsed
  /\ due' = FALSE
  /\ UNCHANGED <<openVars, ks, bufferVars, positionVars, packetVars, list,
                 lastRead, ctl, snap, timer, phase, dpc, historyVars>>

(* Faulty: only what passed since the last packet counts for the next.     *)
CarryAfterPacketFaulty == SinceLastPacket
CarryAfterPacket == SinceLastPacket - interval * HnsPerMs

(* TimerNotifyRT at the end of a packet: the time beyond the interval is   *)
(* carried forward, the bytes are written and the packet is counted.  Only *)
(* in RUN are events signalled.                                            *)
DpcPacket ==
  /\ due /\ LockFree
  /\ PacketElapsed
  /\ due' = FALSE
  /\ dpcCarry' = CarryAfterPacket
  /\ dpcAge' = 0
  /\ UpdatePosition
  /\ packets' = packets + 1
  /\ dpc' = (IF ks = "RUN" /\ list # <<>> THEN 1 ELSE 0)
  /\ UNCHANGED <<openVars, ks, bufferVars, list, lastRead, ctl, snap, timer,
                 phase, historyVars>>

(* The DPC signals an event and moves on; the end of the list ends it.     *)
DpcSignal ==
  /\ dpc > 0
  /\ dpc' = (IF dpc < Len(list) THEN dpc + 1 ELSE 0)
  /\ UNCHANGED <<openVars, ks, bufferVars, positionVars, packetVars, list,
                 lastRead, ctl, snap, timerVars, historyVars>>

SetState ==
  \/ SetAcquire \/ SetPause \/ SetStop \/ BeginRun \/ EndRun
  \/ PauseCancel \/ PauseFlush \/ PauseCarry \/ PausePosition \/ PauseDone

Timer == DpcEarly \/ DpcPacket \/ DpcSignal

StreamNext ==
  \/ NewStream \/ NewStreamFails \/ CloseStream \/ DestroyStream
  \/ \E r \in Request : AllocateBuffer(r)
  \/ FreeBuffer
  \/ \E e \in Event :
        RegisterNotificationEvent(e) \/ UnregisterNotificationEvent(e)
  \/ GetPosition \/ GetReadPacket \/ ReturnReadPacket
  \/ SetState
  \/ Tick
  \/ Timer

StreamSpec == StreamInit /\ [][StreamNext]_streamVars

-----------------------------------------------------------------------------
(* Properties.                                                             *)

StreamTypes ==
  /\ slots \in 0 .. MaxStreams
  /\ stream \in {"none", "open", "closing"}
  /\ ks \in KsState
  /\ ctl \in {"idle", "run", "pauseFlush", "pauseCarry", "pausePosition",
              "pauseDone"}
  /\ lastRead \in Nat \cup {NoPacket} /\ snap \in Nat \cup {NoPacket}

BufferTypes ==
  /\ bufSize \in Nat /\ notifs \in Nat /\ interval \in Nat
  /\ list \in Seq(Event)

PositionTypes ==
  /\ packets \in Nat /\ linear \in Nat
  /\ bufSize > 0 => writePos \in 0 .. bufSize - 1
  /\ elapsedCarry \in 0 .. HnsPerMs - 1
  /\ byteCarry \in 0 .. MsPerSecond - 1
  /\ dmaAge \in Nat
  /\ ran \in Nat /\ owed \in Nat

TimerTypes ==
  /\ timer \in {"off", "set"} /\ phase \in 0 .. HnsPerMs - 1
  /\ dpc \in Nat
  /\ dpcCarry \in Nat /\ dpcAge \in Nat

FlagTypes ==
  /\ unregister \in BOOLEAN /\ mapped \in BOOLEAN /\ due \in BOOLEAN
  /\ wrapped \in BOOLEAN

StreamTypeOK ==
  /\ StreamTypes /\ BufferTypes /\ PositionTypes /\ TimerTypes /\ FlagTypes

(* Whoever asks for the position, and however often, no time that the      *)
(* stream ran is lost or counted twice: the bytes written and what is      *)
(* carried forward are the time since STOP times the rate, across any      *)
(* number of pauses.  And the offset that WriteBytes takes from the linear *)
(* position is the write position.  A product of 32 bits that wraps, when  *)
(* nobody asks for 22 seconds, loses time; then only the offset counts.    *)
PositionsConserveTime ==
  /\ ~wrapped =>
       MsPerSecond * HnsPerMs * linear + HnsPerMs * byteCarry
         + Rate * (elapsedCarry + dmaAge) = ran
  /\ bufSize > 0 => writePos = linear % bufSize

PacketBytes == bufSize \div notifs

(* The milliseconds of the interval are exactly the bytes of a packet.     *)
ExactInterval == Rate * interval = MsPerSecond * PacketBytes

(* A packet that is counted has all of its bytes in the buffer, through    *)
(* pauses and late DPCs, if the interval has not been rounded and no stop  *)
(* has left time in the packet counter's carry: with that, the bytes are   *)
(* behind by no more than it is worth.                                     *)
RoundedUp(n, d) == (n + d - 1) \div d
OwedBytes == RoundedUp(Rate * RoundedUp(owed, HnsPerMs), MsPerSecond)
PacketsBackedByBytes ==
  notifs > 0 /\ ExactInterval /\ ~wrapped =>
    packets * PacketBytes <= linear + OwedBytes

(* The DPC works on a mapped buffer of a stream that is there, and at an   *)
(* entry of the list that has not been freed: SetState(PAUSE) has made     *)
(* sure that none runs before a buffer, an event or the stream can go.     *)
DpcFindsWhatItUses ==
  due \/ dpc > 0 => stream = "open" /\ mapped /\ bufSize > 0 /\ dpc <= Len(list)

(* The client reads packets in order and none of them twice between two    *)
(* stops, whatever happens while GetReadPacket is at work, and never one   *)
(* that has not been counted.                                              *)
ReadPacketsAdvance ==
  ReturnReadPacket => lastRead' > lastRead /\ lastRead' < packets

(* Together: a client that reads packets (GetReadPacket) gets each of them *)
(* once, in order, and complete.                                           *)
PacketsAreDelivered ==
  [][PacketsBackedByBytes' /\ ReadPacketsAdvance]_streamVars

=============================================================================
