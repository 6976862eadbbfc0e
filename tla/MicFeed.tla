------------------------------ MODULE MicFeed -------------------------------
(***************************************************************************)
(* How sound gets to the microphone: the application captures an audio     *)
(* device (WASAPICapture, software-project/src/VirtuaCam/WASAPI.cpp) in a  *)
(* thread of its own, resamples it and sends packets to the driver, whose  *)
(* ring (audio-driver-project/Source/Main/VirtuaCamMicBridge.cpp) the      *)
(* running stream (module MicStream) reads.                                *)
(*                                                                         *)
(* A sample frame is the number of the source frame it was made from, or   *)
(* Silence.  The ring is counted in frames: packets are whole frames, and  *)
(* so is what a stream of 192 bytes to the millisecond reads.  A section   *)
(* under the ring's spin lock is one step.                                 *)
(*                                                                         *)
(* The ring is written only in a build of the driver with the feed: the    *)
(* source has VIRTUACAM_MIC_ENABLE_USERMODE_FEED 0 (VirtuaCamMicBridge.h), *)
(* then there is no control device for the application to open, and the    *)
(* microphone is silent.  Both builds are modelled.                        *)
(*                                                                         *)
(* Left out: the counters that only IOCTL_VIRTUACAM_MIC_GET_STATUS shows,  *)
(* the sequence number that no code reads, the branch for a packet larger  *)
(* than the ring (DispatchDeviceControl lets only packets of 10 ms pass,   *)
(* the ring is 2 s), sample formats.                                       *)
(***************************************************************************)
EXTENDS Integers, Sequences

CONSTANTS
  Builds,          \* values of VIRTUACAM_MIC_ENABLE_USERMODE_FEED
  Capacity,        \* of the ring, in frames
  PacketFrames,    \* VIRTUACAM_MIC_PACKET_FRAMES
  MicRate,         \* VIRTUACAM_MIC_SAMPLE_RATE
  SourceRate,      \* of the captured device
  Burst,           \* frames in a packet of the device
  ReadSize,        \* frames the stream asks for
  MaxFrames,       \* bound on the source frames that are not silent,
  MaxBacklog       \* and on the packets waiting in the device

ASSUME FeedConstants ==
  /\ Builds \subseteq BOOLEAN
  /\ {Capacity, PacketFrames, MicRate, SourceRate} \subseteq Nat \ {0}
  /\ PacketFrames <= Capacity
  /\ Burst \subseteq Nat \ {0} /\ ReadSize \subseteq Nat \ {0}
  /\ MaxFrames \in Nat /\ MaxBacklog \in Nat

VARIABLES
  \* VirtuaCamMicBridge
  feed,               \* the driver is built with the feed
  loaded,             \* Initialize has succeeded
  ring,               \* Buffer
  readOffset, writeOffset, queued,
  \* WASAPICapture
  client,             \* m_audioClient: "none", "made", "running", "stopped"
  service,            \* m_captureClient is set
  audioEvent,         \* m_hAudioEvent is set
  bridge,             \* m_hMicBridge is open
  capturing,          \* m_isCapturing
  shutdown,           \* m_hShutdownEvent is signalled
  pending,            \* m_bridgeFrameBuffer
  \* its threads
  ui,                 \* where the caller is: "idle", "join", "open", "start"
  opens,              \* a StartCapture follows the StopCapture
  thread,             \* "none", "begin", "wait", "drain", "send",
                      \* "done"
  \* the device and the reader
  backlog,            \* packets of the device that nobody has taken
  lost,               \* the device has been invalidated
  comFailed,          \* CoInitializeEx has failed in the thread
  made,               \* frames made so far
  heard               \* the last frame read that was not silence

ringVars == <<feed, loaded, ring, readOffset, writeOffset, queued>>
handleVars == <<client, service, audioEvent, bridge, capturing>>
callVars == <<ui, opens>>
deviceVars == <<backlog, lost, made>>
vars ==
  <<ringVars, handleVars, shutdown, pending, callVars, thread, deviceVars,
    comFailed, heard>>

Silence == 0
Slots == 0 .. Capacity - 1
Zeroed == [i \in Slots |-> Silence]

Init ==
  /\ feed \in Builds /\ loaded = FALSE /\ ring = Zeroed
  /\ readOffset = 0 /\ writeOffset = 0 /\ queued = 0
  /\ client = "none" /\ service = FALSE /\ audioEvent = FALSE
  /\ bridge = FALSE /\ capturing = FALSE
  /\ shutdown = FALSE /\ pending = <<>>
  /\ ui = "idle" /\ opens = FALSE /\ thread = "none"
  /\ backlog = <<>> /\ lost = FALSE /\ made = 0
  /\ comFailed = FALSE /\ heard = Silence

-----------------------------------------------------------------------------
(* The bridge in the driver.                                               *)

(* Initialize; when it fails half-way it undoes itself with Shutdown.      *)
BridgeInitialize ==
  /\ ~loaded
  /\ loaded' = TRUE /\ ring' = Zeroed
  /\ UNCHANGED <<feed, readOffset, writeOffset, queued, handleVars, shutdown,
                 pending, callVars, thread, deviceVars, comFailed, heard>>

(* Shutdown, without the lock: the driver is unloaded only when no handle  *)
(* is open and no stream runs.                                             *)
BridgeShutdown ==
  /\ loaded /\ ~bridge
  /\ loaded' = FALSE /\ ring' = Zeroed
  /\ readOffset' = 0 /\ writeOffset' = 0 /\ queued' = 0
  /\ UNCHANGED <<feed, handleVars, shutdown, pending, callVars, thread,
                 deviceVars, comFailed, heard>>

Lesser(a, b) == IF a < b THEN a ELSE b

(* Faulty: counts the dropped frames off but leaves the read position.     *)
RoomForStale(count) ==
  [read |-> readOffset, queued |-> Lesser(queued, Capacity - count)]

(* WritePacketLocked drops the oldest frames if the packet does not fit.   *)
RoomFor(count) ==
  LET free == Capacity - queued
      drop == IF count > free THEN count - free ELSE 0
  IN  [read |-> (readOffset + drop) % Capacity, queued |-> queued - drop]

(* WritePacketLocked, copying at most twice, to the end and from the start.*)
WritePacket(packet) ==
  LET room == RoomFor(Len(packet))
  IN  /\ readOffset' = room.read
      /\ queued' = room.queued + Len(packet)
      /\ writeOffset' = (writeOffset + Len(packet)) % Capacity
      /\ ring' = [i \in Slots |->
                    LET j == (i - writeOffset + Capacity) % Capacity
                    IN  IF j < Len(packet) THEN packet[j + 1] ELSE ring[i]]

QueuedFrames == [i \in 1 .. queued |-> ring[(readOffset + i - 1) % Capacity]]

(* The last frame that is not silence is heard.                            *)
Hear(frames) ==
  \/ /\ \A i \in DOMAIN frames : frames[i] = Silence
     /\ UNCHANGED heard
  \/ \E i \in DOMAIN frames :
       /\ frames[i] # Silence
       /\ \A j \in DOMAIN frames : j > i => frames[j] = Silence
       /\ heard' = frames[i]

(* ReadAudio, called for the stream under its position lock: what is there *)
(* is taken, the rest of the reader's buffer is zeroed.                    *)
ReadAudio(n) ==
  LET taken == Lesser(n, queued)
  IN  /\ loaded
      /\ readOffset' = (readOffset + taken) % Capacity
      /\ queued' = queued - taken
      /\ Hear([i \in 1 .. taken |-> ring[(readOffset + i - 1) % Capacity]])
      /\ UNCHANGED <<feed, loaded, ring, writeOffset, handleVars, shutdown,
                     pending, callVars, thread, deviceVars, comFailed>>

-----------------------------------------------------------------------------
(* StartCapture and StopCapture, in the application's only other thread.   *)

(* Faulty: the device goes on.                                             *)
StoppedClientFaulty == client
StoppedClient == IF client # "none" /\ capturing THEN "stopped" ELSE client

(* StopCapture stops the device, signals the thread and waits for it.      *)
StopCapture ==
  /\ client' = StoppedClient
  /\ shutdown' = TRUE
  /\ ui' = "join"

CallStop ==
  /\ ui = "idle"
  /\ StopCapture /\ opens' = FALSE
  /\ UNCHANGED <<ringVars, service, audioEvent, bridge, capturing, pending,
                 thread, deviceVars, comFailed, heard>>

CallStart ==
  /\ ui = "idle"
  /\ StopCapture /\ opens' = TRUE
  /\ UNCHANGED <<ringVars, service, audioEvent, bridge, capturing, pending,
                 thread, deviceVars, comFailed, heard>>

(* Faulty: waits for a limited time.                                       *)
JoinedFaulty == TRUE
Joined == thread \in {"none", "done"}

(* The thread has ended, and everything it used is closed.                 *)
Join ==
  /\ ui = "join" /\ Joined
  /\ thread' = (IF thread = "done" THEN "none" ELSE thread)
  /\ client' = "none" /\ service' = FALSE
  /\ audioEvent' = FALSE /\ bridge' = FALSE /\ capturing' = FALSE
  /\ pending' = <<>>
  /\ backlog' = <<>>
  /\ ui' = (IF opens THEN "open" ELSE "idle")
  /\ UNCHANGED <<ringVars, shutdown, opens, lost, made, comFailed, heard>>

(* StartCapture fails before there is a thread.  What has been opened      *)
(* stays so until the next StopCapture.                                    *)
StartFails ==
  /\ ui = "open"
  /\ client' \in {"none", "made"}
  /\ audioEvent' \in BOOLEAN /\ service' \in BOOLEAN /\ bridge' \in BOOLEAN
  /\ audioEvent' => client' = "made"
  /\ service' => audioEvent'
  /\ bridge' => service' /\ feed /\ loaded
  /\ shutdown' \in {shutdown, shutdown /\ ~service'}
  /\ ui' = "idle"
  /\ UNCHANGED <<ringVars, capturing, pending, opens, thread, deviceVars,
                 comFailed, heard>>

ShutdownAtStart == FALSE

(* The thread is created ...                                               *)
CreateThread ==
  /\ ui = "open"
  /\ client' = "made" /\ audioEvent' = TRUE /\ service' = TRUE
  /\ bridge' \in {FALSE, feed /\ loaded}
  /\ shutdown' = ShutdownAtStart
  /\ pending' = <<>>
  /\ thread' = "begin"
  /\ lost' = FALSE /\ comFailed' = FALSE
  /\ ui' = "start"
  /\ UNCHANGED <<ringVars, capturing, opens, backlog, made, heard>>

(* ... before the device is started.                                       *)
StartDevice ==
  /\ ui = "start"
  /\ capturing' = TRUE /\ client' = "running"
  /\ ui' = "idle"
  /\ UNCHANGED <<ringVars, service, audioEvent, bridge, shutdown, pending,
                 opens, thread, deviceVars, comFailed, heard>>

(* Start fails: everything is taken back with StopCapture.                 *)
StartDeviceFails ==
  /\ ui = "start"
  /\ capturing' = TRUE /\ client' = "stopped"
  /\ shutdown' = TRUE
  /\ ui' = "join" /\ opens' = FALSE
  /\ UNCHANGED <<ringVars, service, audioEvent, bridge, pending, thread,
                 deviceVars, comFailed, heard>>

-----------------------------------------------------------------------------
(* The capture thread.                                                     *)

CoInitialize ==
  /\ thread = "begin"
  /\ \/ thread' = "wait" /\ UNCHANGED comFailed
     \/ thread' = "done" /\ comFailed' = TRUE
  /\ UNCHANGED <<ringVars, handleVars, shutdown, pending, callVars,
                 deviceVars, heard>>

SeeShutdown ==
  /\ thread = "wait" /\ shutdown
  /\ thread' = "done"
  /\ UNCHANGED <<ringVars, handleVars, shutdown, pending, callVars,
                 deviceVars, comFailed, heard>>

(* The device's event, or 100 ms.                                          *)
WakeUp ==
  /\ thread = "wait" /\ ~shutdown
  /\ thread' = "drain"
  /\ UNCHANGED <<ringVars, handleVars, shutdown, pending, callVars,
                 deviceVars, comFailed, heard>>

(* No packet, or the device fails for good: back to waiting.               *)
NothingToTake ==
  /\ thread = "drain"
  /\ backlog = <<>> \/ lost
  /\ thread' = "wait"
  /\ UNCHANGED <<ringVars, handleVars, shutdown, pending, callVars,
                 deviceVars, comFailed, heard>>

Greater(a, b) == IF a > b THEN a ELSE b

OutputFrames(count) ==
  Greater(1, (2 * count * MicRate + SourceRate) \div (2 * SourceRate))

SourceFrame(count, i) == Lesser(count - 1, (i * SourceRate) \div MicRate)

Resampled(packet) ==
  LET count == Len(packet)
  IN  [i \in 1 .. OutputFrames(count) |->
         packet[SourceFrame(count, i - 1) + 1]]

(* PublishAudioToBridge, up to the sends; without a bridge, nothing.       *)
TakePacket ==
  /\ thread = "drain" /\ ~lost /\ backlog # <<>>
  /\ IF bridge
     THEN pending' = pending \o Resampled(Head(backlog)) /\ thread' = "send"
     ELSE UNCHANGED <<pending, thread>>
  /\ backlog' = Tail(backlog)
  /\ UNCHANGED <<ringVars, handleVars, shutdown, callVars, lost, made,
                 comFailed, heard>>

(* SendMicPacket, for every whole packet.                                  *)
SendMicPacket ==
  /\ thread = "send"
  /\ Len(pending) >= PacketFrames
  /\ WritePacket(SubSeq(pending, 1, PacketFrames))
  /\ pending' = SubSeq(pending, PacketFrames + 1, Len(pending))
  /\ UNCHANGED <<feed, loaded, handleVars, shutdown, callVars, thread,
                 deviceVars, comFailed, heard>>

(* The rest is kept for the next packet of the device.                     *)
EndSend ==
  /\ thread = "send"
  /\ Len(pending) < PacketFrames
  /\ thread' = "drain"
  /\ UNCHANGED <<ringVars, handleVars, shutdown, pending, callVars,
                 deviceVars, comFailed, heard>>

-----------------------------------------------------------------------------
(* The device.                                                             *)

Deliver(packet) ==
  /\ client = "running" /\ ~lost
  /\ Len(backlog) < MaxBacklog
  /\ backlog' = Append(backlog, packet)
  /\ UNCHANGED <<ringVars, handleVars, shutdown, pending, callVars, thread,
                 lost, comFailed, heard>>

DeliverSound(n) ==
  /\ made + n <= MaxFrames
  /\ Deliver([i \in 1 .. n |-> made + i])
  /\ made' = made + n

(* AUDCLNT_BUFFERFLAGS_SILENT                                              *)
DeliverSilence(n) ==
  /\ Deliver([i \in 1 .. n |-> Silence])
  /\ UNCHANGED made

(* The device is unplugged or its format changes.                          *)
LoseDevice ==
  /\ client = "running" /\ ~lost
  /\ lost' = TRUE
  /\ UNCHANGED <<ringVars, handleVars, shutdown, pending, callVars, thread,
                 backlog, made, comFailed, heard>>

Caller ==
  \/ Join
  \/ StartFails \/ CreateThread \/ StartDevice \/ StartDeviceFails

CaptureThread ==
  \/ CoInitialize \/ SeeShutdown \/ WakeUp \/ NothingToTake
  \/ TakePacket \/ SendMicPacket \/ EndSend

Next ==
  \/ BridgeInitialize \/ BridgeShutdown
  \/ \E n \in ReadSize : ReadAudio(n)
  \/ CallStop \/ CallStart
  \/ Caller
  \/ CaptureThread
  \/ \E n \in Burst : DeliverSound(n) \/ DeliverSilence(n)
  \/ LoseDevice

(* Both threads are scheduled.                                             *)
Spec == Init /\ [][Next]_vars /\ WF_vars(Caller) /\ WF_vars(CaptureThread)

-----------------------------------------------------------------------------
(* Properties.                                                             *)

Frame == 0 .. MaxFrames

TypeOK ==
  /\ feed \in BOOLEAN /\ loaded \in BOOLEAN /\ ring \in [Slots -> Frame]
  /\ readOffset \in Slots /\ writeOffset \in Slots /\ queued \in 0 .. Capacity
  /\ client \in {"none", "made", "running", "stopped"}
  /\ {service, audioEvent, bridge, capturing} \subseteq BOOLEAN
  /\ {shutdown, opens, lost, comFailed} \subseteq BOOLEAN
  /\ pending \in Seq(Frame) /\ backlog \in Seq(Seq(Frame))
  /\ ui \in {"idle", "join", "open", "start"}
  /\ thread \in {"none", "begin", "wait", "drain", "send", "done"}
  /\ made \in Frame /\ heard \in Frame

(* While the thread runs, the handles and interfaces it uses are open: a   *)
(* stop, a restart and a start that fails wait for it before they close    *)
(* anything.                                                               *)
ThreadFindsItsHandles ==
  thread \notin {"none", "done"} =>
    client # "none" /\ service /\ audioEvent /\ (thread = "send" => bridge)

(* Between calls, a capture that was reported as started has a thread that *)
(* serves it: no signal of an earlier stop is left to end it.  (The thread *)
(* may have failed to initialise COM, which nobody reports.)               *)
CaptureIsServed ==
  ui = "idle" /\ capturing /\ ~comFailed => thread \notin {"none", "done"}

(* What the application believes of its capture, and what the thread of it *)
(* uses, agree (WASAPI.cpp: StartCapture, StopCapture).                    *)
ThreadMatchesCapture == ThreadFindsItsHandles /\ CaptureIsServed

(* No sound in s is younger than one after it; silence is 0.               *)
Ordered(s) ==
  \A i, j \in DOMAIN s : i < j /\ s[j] # Silence => s[i] <= s[j]

(* No sound in s is younger than one in t.                                 *)
Before(s, t) ==
  \A i \in DOMAIN s, j \in DOMAIN t : t[j] # Silence => s[i] <= t[j]

(* From the reader back to the device.                                     *)
UnderWay == <<<<heard>>, QueuedFrames, pending>> \o backlog

(* Sound is heard in the order it was made, across overruns, underruns,    *)
(* resampling, restarts and the wrap of the ring: from the reader back to  *)
(* the device, everything under way is younger (VirtuaCamMicBridge.cpp:    *)
(* WritePacketLocked, ReadAudio; WASAPI.cpp: PublishAudioToBridge).        *)
(* Without the feed nothing is heard, and nothing reaches the ring.        *)
SoundInOrder ==
  /\ \A k, l \in DOMAIN UnderWay :
       IF k = l THEN Ordered(UnderWay[k])
       ELSE k < l => Before(UnderWay[k], UnderWay[l])
  /\ ~feed => heard = Silence /\ QueuedFrames = <<>> /\ pending = <<>>

(* The application can always stop or switch the device: the capture       *)
(* thread ends although the device may have a packet whenever it looks.    *)
StopReturns == ui = "join" ~> ui # "join"

(* The ring is the queue of MicQueue.                                      *)
Queue ==
  INSTANCE MicQueue WITH
    Room <- Capacity, Packet <- [1 .. PacketFrames -> Frame],
    Amount <- ReadSize, queue <- QueuedFrames

QueueImplemented == Queue!QueueSpec
=============================================================================
