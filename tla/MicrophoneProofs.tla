-------------------------- MODULE MicrophoneProofs --------------------------
(***************************************************************************)
(* Proofs about the microphone.  Of MicFeed, for any rates, packets and    *)
(* size of the ring: the capture thread finds its handles, a capture is    *)
(* served, sound stays in order, and the ring is the queue of MicQueue.    *)
(* Of MicStream, for any rate, packets, events and clock: the positions    *)
(* lose no time, the timer's DPC finds what it uses, and packets are       *)
(* delivered whole and once.                                               *)
(***************************************************************************)
EXTENDS MicFeed, MicStream, TLAPS

-----------------------------------------------------------------------------
(* The feed (MicFeed).                                                     *)


Alive == thread \notin {"none", "done"}
Served == ~shutdown /\ (Alive \/ comFailed)

(* The thread finds its handles, and a capture is served: a thread is made *)
(* when there is none and no signal to end it, and is waited for.          *)
Handled ==
  /\ Alive => client # "none" /\ service /\ audioEvent
  /\ thread = "send" => bridge
  /\ ui = "open" => thread = "none" /\ ~capturing
  /\ ui = "start" => Served /\ client # "none"
  /\ ui = "idle" /\ capturing => Served

Packets == {p \in Seq(Frame) : Len(p) > 0}

(* The write position is as many frames behind the read position as are    *)
(* queued.                                                                 *)
RingSound ==
  /\ readOffset \in Slots /\ queued \in 0 .. Capacity
  /\ writeOffset = (readOffset + queued) % Capacity

(* A ring that is not there is empty, and nobody writes to it.             *)
LoadedSound ==
  /\ ~loaded => queued = 0
  /\ bridge => loaded

(* What waits for the ring is frames.                                      *)
FramesWait ==
  /\ pending \in Seq(Frame) /\ backlog \in Seq(Packets) /\ made \in Frame

FeedInv == Handled /\ RingSound /\ LoadedSound /\ FramesWait

-----------------------------------------------------------------------------
(* The remainders of positions.                                            *)

Wrap(a) == IF a < Capacity THEN a ELSE a - Capacity

(* One addition takes a position at most once around the ring.             *)
LEMMA Around ==
  ASSUME NEW a \in 0 .. 2 * Capacity - 1
  PROVE  a % Capacity = Wrap(a)
<1>1. Capacity \in Nat \ {0}
  BY FeedConstants
<1>. QED BY <1>1, Z3 DEF Wrap

(* Division of natural numbers.                                            *)
LEMMA DivNat ==
  ASSUME NEW c \in Nat \ {0}, NEW a \in Nat
  PROVE  a \div c \in Nat
  BY Z3

(* The frames queued are a sequence.                                       *)
LEMMA QueuedShape ==
  ASSUME RingSound
  PROVE  /\ QueuedFrames \in Seq({ring[i] : i \in Int})
         /\ Len(QueuedFrames) = queued
         /\ \A i \in 1 .. queued :
              QueuedFrames[i] = ring[(readOffset + i - 1) % Capacity]
<1>1. queued \in Nat
  BY FeedConstants DEF RingSound
<1>2. \A i \in 1 .. queued : (readOffset + i - 1) % Capacity \in Int
  <2>. TAKE i \in 1 .. queued
  <2>1. readOffset + i - 1 \in 0 .. 2 * Capacity - 1
    BY <1>1, FeedConstants DEF RingSound, Slots
  <2>. QED BY <1>1, <2>1, Around, FeedConstants DEF Wrap, RingSound, Slots
<1>. QED BY <1>1, <1>2 DEF QueuedFrames

(* A sequence is a function of its places, and so is a concatenation.      *)
LEMMA SeqIsFcn ==
  ASSUME NEW S, NEW s \in Seq(S)
  PROVE  s = [i \in 1 .. Len(s) |-> s[i]]
  OBVIOUS

LEMMA ConcatIsFcn ==
  ASSUME NEW S, NEW T, NEW s \in Seq(S), NEW t \in Seq(T)
  PROVE  /\ Len(s \o t) = Len(s) + Len(t)
         /\ s \o t = [i \in 1 .. Len(s) + Len(t) |->
                       IF i <= Len(s) THEN s[i] ELSE t[i - Len(s)]]
<1> DEFINE both == s \o t
<1>1. both \in Seq(S \cup T) /\ Len(both) = Len(s) + Len(t)
  OBVIOUS
<1>2. \A i \in 1 .. Len(s) + Len(t) :
        both[i] = IF i <= Len(s) THEN s[i] ELSE t[i - Len(s)]
  OBVIOUS
<1>. HIDE DEF both
<1>3. both = [i \in 1 .. Len(both) |-> both[i]]
  BY <1>1, SeqIsFcn
<1>. QED BY <1>1, <1>2, <1>3, Zenon DEF both

(* A part of a sequence, from its place in it.                             *)
LEMMA SubSeqShift ==
  ASSUME NEW s, NEW a \in Nat, NEW n \in Nat
  PROVE  SubSeq(s, a + 1, a + n) = [i \in 1 .. n |-> s[i + a]]
<1>1. SubSeq(s, a + 1, a + n)
        = [i \in 1 .. (1 + (a + n) - (a + 1)) |-> s[i + (a + 1) - 1]]
  OBVIOUS
<1>2. 1 + (a + n) - (a + 1) = n /\ \A i \in 1 .. n : i + (a + 1) - 1 = i + a
  OBVIOUS
<1>. QED BY <1>1, <1>2

(* WritePacketLocked writes a packet whole and drops the oldest frames.    *)
LEMMA WriteIsWrite ==
  ASSUME RingSound, NEW packet \in [1 .. PacketFrames -> Frame],
         WritePacket(packet), UNCHANGED heard
  PROVE  /\ Queue!Write(packet)
         /\ readOffset' \in Slots /\ queued' \in 0 .. Capacity
         /\ writeOffset' = (readOffset' + queued') % Capacity
<1> DEFINE k == PacketFrames
           drop == IF k > Capacity - queued THEN k - (Capacity - queued) ELSE 0
           read == Wrap(readOffset + drop)
           count == queued - drop + k
           all == QueuedFrames \o packet
<1>1. /\ Capacity \in Nat \ {0} /\ k \in Nat \ {0} /\ k <= Capacity
      /\ queued \in 0 .. Capacity /\ readOffset \in 0 .. Capacity - 1
  BY FeedConstants DEF RingSound, Slots
<1>2. packet \in Seq(Frame) /\ Len(packet) = k
  BY <1>1
<1>3. /\ readOffset' = (readOffset + drop) % Capacity
      /\ queued' = count
      /\ writeOffset' = (writeOffset + k) % Capacity
      /\ ring' = [i \in Slots |->
                    LET j == (i - writeOffset + Capacity) % Capacity
                    IN  IF j < k THEN packet[j + 1] ELSE ring[i]]
  BY <1>2 DEF WritePacket, RoomFor
<1>4. /\ drop \in 0 .. queued /\ count \in 0 .. Capacity
      /\ queued + k > Capacity => drop = queued + k - Capacity
      /\ queued + k <= Capacity => drop = 0
  BY <1>1
<1>. HIDE DEF k, drop
<1>5. readOffset' = read
  <2>1. readOffset + drop \in 0 .. 2 * Capacity - 1
    BY <1>1, <1>4
  <2>. QED BY <1>3, <2>1, Around
<1>6. writeOffset = Wrap(readOffset + queued)
  <2>1. readOffset + queued \in 0 .. 2 * Capacity - 1
    BY <1>1
  <2>. QED BY <2>1, Around DEF RingSound
<1>7. read \in 0 .. Capacity - 1 /\ writeOffset \in 0 .. Capacity - 1
  BY <1>1, <1>4, <1>6 DEF Wrap
<1>8. writeOffset' = (read + count) % Capacity
  <2>1. writeOffset + k \in 0 .. 2 * Capacity - 1
    BY <1>1, <1>7
  <2>2. read + count \in 0 .. 2 * Capacity - 1
    BY <1>1, <1>4, <1>7
  <2>3. writeOffset' = Wrap(writeOffset + k)
    BY <1>3, <2>1, Around
  <2>4. (read + count) % Capacity = Wrap(read + count)
    BY <2>2, Around
  <2>5. Wrap(writeOffset + k) = Wrap(read + count)
    BY <1>1, <1>4, <1>6 DEF Wrap
  <2>. QED BY <2>3, <2>4, <2>5
<1>9. /\ Len(all) = queued + k
      /\ all = [i \in 1 .. queued + k |->
                  IF i <= queued THEN QueuedFrames[i] ELSE packet[i - queued]]
  <2>1. /\ QueuedFrames \in Seq({ring[i] : i \in Int})
        /\ Len(QueuedFrames) = queued
    BY QueuedShape
  <2>2. /\ Len(all) = Len(QueuedFrames) + Len(packet)
        /\ all = [i \in 1 .. Len(QueuedFrames) + Len(packet) |->
                    IF i <= Len(QueuedFrames) THEN QueuedFrames[i]
                    ELSE packet[i - Len(QueuedFrames)]]
    <3>1. packet \in Seq(Frame)
      BY <1>2
    <3>. PICK S : QueuedFrames \in Seq(S)
      BY <2>1
    <3>2. Len(all) = Len(QueuedFrames) + Len(packet)
      BY <3>1, ConcatIsFcn
    <3>3. all = [i \in 1 .. Len(QueuedFrames) + Len(packet) |->
                  IF i <= Len(QueuedFrames) THEN QueuedFrames[i]
                  ELSE packet[i - Len(QueuedFrames)]]
      <4>1. PICK p : p = packet
        OBVIOUS
      <4>2. p \in Seq(Frame)
        BY <3>1, <4>1
      <4>3. QueuedFrames \o p
              = [i \in 1 .. Len(QueuedFrames) + Len(p) |->
                   IF i <= Len(QueuedFrames) THEN QueuedFrames[i]
                   ELSE p[i - Len(QueuedFrames)]]
        BY <4>2, ConcatIsFcn
      <4>. QED BY <4>1, <4>3, Zenon
    <3>. QED BY <3>2, <3>3
  <2>. HIDE DEF all
  <2>. QED BY <1>2, <2>1, <2>2, Zenon
<1>. HIDE DEF all
<1>10. QueuedFrames' = [i \in 1 .. count |-> ring'[(read + i - 1) % Capacity]]
  <2>. HIDE DEF read, count
  <2>. QED BY <1>3, <1>5 DEF QueuedFrames
<1>11. \A i \in 1 .. count : ring'[(read + i - 1) % Capacity] = all[i + drop]
  <2>. SUFFICES ASSUME NEW i \in 1 .. count
                PROVE  ring'[(read + i - 1) % Capacity] = all[i + drop]
    OBVIOUS
  <2> DEFINE x == (read + i - 1) % Capacity
             j == (x - writeOffset + Capacity) % Capacity
  <2>. SUFFICES ring'[x] = all[i + drop]
    OBVIOUS
  <2>1. i \in Nat \ {0} /\ i <= count /\ i <= Capacity
    BY <1>1, <1>4
  <2>2. x = Wrap(read + i - 1)
    <3>1. read + i - 1 \in 0 .. 2 * Capacity - 1
      BY <1>1, <1>7, <2>1
    <3>. QED BY <3>1, Around
  <2>. HIDE DEF x
  <2>3. x \in 0 .. Capacity - 1
    <3>. HIDE DEF read
    <3>. QED BY <1>1, <1>7, <2>1, <2>2 DEF Wrap
  <2>4. j = Wrap(x - writeOffset + Capacity)
    <3>1. x - writeOffset + Capacity \in 0 .. 2 * Capacity - 1
      BY <1>1, <1>7, <2>3
    <3>. QED BY <3>1, Around
  <2>5. ring'[x] = IF j < k THEN packet[j + 1] ELSE ring[x]
    BY <1>3, <2>3 DEF Slots
  <2>. HIDE DEF j
  <2>6. CASE i <= queued - drop
    <3>1. ~(j < k)
      BY <1>1, <1>4, <1>6, <2>1, <2>2, <2>4, <2>6 DEF Wrap
    <3>2. i + drop \in 1 .. queued /\ i + drop \in 1 .. queued + k
      BY <1>1, <1>4, <2>1, <2>6
    <3>3. all[i + drop] = QueuedFrames[i + drop]
      BY <1>9, <3>2
    <3>4. QueuedFrames[i + drop]
            = ring[(readOffset + (i + drop) - 1) % Capacity]
      BY <3>2, QueuedShape
    <3>5. (readOffset + (i + drop) - 1) % Capacity
            = Wrap(readOffset + (i + drop) - 1)
      <4>1. readOffset + (i + drop) - 1 \in 0 .. 2 * Capacity - 1
        BY <1>1, <3>2
      <4>. QED BY <4>1, Around
    <3>6. x = Wrap(readOffset + (i + drop) - 1)
      BY <1>1, <1>4, <2>1, <2>2, <2>6 DEF Wrap
    <3>. HIDE DEF read
    <3>. QED BY <2>5, <3>1, <3>3, <3>4, <3>5, <3>6
  <2>7. CASE i > queued - drop
    <3>1. j = i - 1 - (queued - drop)
      BY <1>1, <1>4, <1>6, <2>1, <2>2, <2>4, <2>7 DEF Wrap
    <3>2. j < k /\ j + 1 = i + drop - queued
      BY <1>1, <1>4, <2>1, <2>7, <3>1
    <3>3. i + drop \in 1 .. queued + k /\ ~(i + drop <= queued)
      BY <1>1, <1>4, <2>1, <2>7
    <3>4. all[i + drop] = packet[(i + drop) - queued]
      BY <1>9, <3>3, Zenon
    <3>5. ring'[x] = packet[j + 1]
      BY <2>5, <3>2
    <3>6. packet[j + 1] = packet[(i + drop) - queued]
      BY <1>1, <1>4, <2>1, <3>1, <3>2
    <3>. QED BY <3>4, <3>5, <3>6, Zenon
  <2>8. i <= queued - drop \/ i > queued - drop
    BY <1>1, <1>4, <2>1
  <2>. QED BY <2>6, <2>7, <2>8
<1>12. QueuedFrames' = [i \in 1 .. count |-> all[i + drop]]
  BY <1>10, <1>11, Zenon
<1>13. QueuedFrames' = IF Len(all) <= Capacity THEN all
                       ELSE Queue!Newest(all, Capacity)
  <2>1. CASE queued + k <= Capacity
    <3>1. drop = 0 /\ count = queued + k
      BY <1>1, <1>4, <2>1
    <3>2. all = [i \in 1 .. queued + k |-> all[i]]
      BY <1>9
    <3>3. \A i \in 1 .. queued + k : i + 0 = i
      OBVIOUS
    <3>. QED BY <1>9, <1>12, <2>1, <3>1, <3>2, <3>3
  <2>2. CASE queued + k > Capacity
    <3>1. drop = queued + k - Capacity /\ count = Capacity
      BY <1>1, <1>4, <2>2
    <3>2. Queue!Newest(all, Capacity) = SubSeq(all, drop + 1, drop + Capacity)
      BY <1>1, <1>9, <3>1 DEF Queue!Newest
    <3>3. SubSeq(all, drop + 1, drop + Capacity)
            = [i \in 1 .. Capacity |-> all[i + drop]]
      BY <1>1, <1>4, SubSeqShift
    <3>4. ~(Len(all) <= Capacity)
      BY <1>1, <1>9, <2>2
    <3>. QED BY <1>12, <3>1, <3>2, <3>3, <3>4
  <2>. QED BY <1>1, <2>1, <2>2
<1>14. writeOffset' = (readOffset' + queued') % Capacity
  BY <1>3, <1>5, <1>8, Zenon
<1>. QED BY <1>3, <1>4, <1>5, <1>7, <1>13, <1>14 DEF Queue!Write, all, Slots

(* ReadAudio takes the oldest frames, as many as there are.                *)
LEMMA ReadIsRead ==
  ASSUME RingSound, NEW n \in ReadSize, ReadAudio(n)
  PROVE  /\ Queue!Read(n)
         /\ readOffset' \in Slots /\ queued' \in 0 .. Capacity
         /\ writeOffset' = (readOffset' + queued') % Capacity
<1> DEFINE taken == Lesser(n, queued)
           read == Wrap(readOffset + taken)
           count == queued - taken
           first == [i \in 1 .. taken |-> ring[(readOffset + i - 1) % Capacity]]
<1>1. /\ Capacity \in Nat \ {0} /\ n \in Nat \ {0}
      /\ queued \in 0 .. Capacity /\ readOffset \in 0 .. Capacity - 1
  BY FeedConstants DEF RingSound, Slots
<1>2. /\ readOffset' = (readOffset + taken) % Capacity
      /\ queued' = count /\ UNCHANGED <<ring, writeOffset>>
      /\ Hear(first)
  BY DEF ReadAudio
<1>3. taken \in 0 .. queued /\ taken = IF n <= queued THEN n ELSE queued
  BY <1>1 DEF Lesser
<1>. HIDE DEF taken
<1>4. readOffset' = read
  <2>1. readOffset + taken \in 0 .. 2 * Capacity - 1
    BY <1>1, <1>3
  <2>. QED BY <1>2, <2>1, Around
<1>5. read \in 0 .. Capacity - 1 /\ count \in 0 .. Capacity
  BY <1>1, <1>3 DEF Wrap
<1>6. writeOffset' = (readOffset' + queued') % Capacity
  <2>1. readOffset + queued \in 0 .. 2 * Capacity - 1
    BY <1>1
  <2>2. read + count \in 0 .. 2 * Capacity - 1
    BY <1>1, <1>5
  <2>3. writeOffset = Wrap(readOffset + queued)
    BY <2>1, Around DEF RingSound
  <2>4. (read + count) % Capacity = Wrap(read + count)
    BY <2>2, Around
  <2>5. Wrap(readOffset + queued) = Wrap(read + count)
    BY <1>1, <1>3 DEF Wrap
  <2>6. writeOffset' = (read + count) % Capacity
    BY <1>2, <2>3, <2>4, <2>5
  <2>. QED BY <1>2, <1>4, <2>6, Zenon
<1>7. /\ QueuedFrames \in Seq({ring[i] : i \in Int})
      /\ Len(QueuedFrames) = queued
      /\ \A i \in 1 .. queued :
           QueuedFrames[i] = ring[(readOffset + i - 1) % Capacity]
  BY QueuedShape
<1>8. \A i \in 1 .. count :
        ring[(read + i - 1) % Capacity] = QueuedFrames[i + taken]
  <2>. SUFFICES ASSUME NEW i \in 1 .. count
                PROVE  ring[(read + i - 1) % Capacity] = QueuedFrames[i + taken]
    OBVIOUS
  <2>1. i \in Nat \ {0} /\ i <= count /\ i + taken \in 1 .. queued
    BY <1>1, <1>3
  <2>2. (read + i - 1) % Capacity = Wrap(read + i - 1)
    <3>1. read + i - 1 \in 0 .. 2 * Capacity - 1
      BY <1>1, <1>3, <1>5, <2>1
    <3>. QED BY <3>1, Around
  <2>3. (readOffset + (i + taken) - 1) % Capacity
          = Wrap(readOffset + (i + taken) - 1)
    <3>1. readOffset + (i + taken) - 1 \in 0 .. 2 * Capacity - 1
      BY <1>1, <2>1
    <3>. QED BY <3>1, Around
  <2>4. Wrap(read + i - 1) = Wrap(readOffset + (i + taken) - 1)
    BY <1>1, <1>3, <2>1 DEF Wrap
  <2>5. QueuedFrames[i + taken]
          = ring[(readOffset + (i + taken) - 1) % Capacity]
    BY <1>7, <2>1
  <2>. QED BY <2>2, <2>3, <2>4, <2>5, Zenon
<1>9. QueuedFrames' = SubSeq(QueuedFrames, taken + 1, Len(QueuedFrames))
  <2>1. QueuedFrames' = [i \in 1 .. count |-> ring[(read + i - 1) % Capacity]]
    BY <1>2, <1>4, Zenon DEF QueuedFrames
  <2>2. QueuedFrames' = [i \in 1 .. count |-> QueuedFrames[i + taken]]
    BY <1>8, <2>1, Zenon
  <2>3. queued = taken + count /\ count \in Nat
    BY <1>1, <1>3
  <2>4. SubSeq(QueuedFrames, taken + 1, taken + count)
          = [i \in 1 .. count |-> QueuedFrames[i + taken]]
    BY <1>1, <1>3, <2>3, SubSeqShift
  <2>. QED BY <1>7, <2>2, <2>3, <2>4, Zenon
<1>10. SubSeq(QueuedFrames, 1, taken) = first
  <2>1. SubSeq(QueuedFrames, 1, taken)
          = [i \in 1 .. taken |-> QueuedFrames[i]]
    <3>1. SubSeq(QueuedFrames, 0 + 1, 0 + taken)
            = [i \in 1 .. taken |-> QueuedFrames[i + 0]]
      BY <1>1, <1>3, SubSeqShift
    <3>2. taken = 0 + taken /\ 1 = 0 + 1 /\ \A i \in 1 .. taken : i + 0 = i
      BY <1>1, <1>3
    <3>. QED BY <3>1, <3>2
  <2>2. \A i \in 1 .. taken : i \in 1 .. queued
    BY <1>1, <1>3
  <2>. QED BY <1>7, <2>1, <2>2
<1>. HIDE DEF first
<1>11. Queue!Hear(SubSeq(QueuedFrames, 1, taken))
  BY <1>2, <1>10 DEF Hear, Queue!Hear
<1>. QED
  BY <1>2, <1>3, <1>4, <1>5, <1>6, <1>7, <1>9, <1>11 DEF Queue!Read, Slots

-----------------------------------------------------------------------------
(* The invariant.                                                          *)

(* A ring that nobody touches stays as it is, and so does its queue.       *)
LEMMA RingStays ==
  ASSUME RingSound, UNCHANGED <<ring, readOffset, writeOffset, queued>>
  PROVE  RingSound' /\ QueuedFrames' = QueuedFrames
<1>1. readOffset' = readOffset /\ writeOffset' = writeOffset
      /\ queued' = queued /\ ring' = ring
  OBVIOUS
<1>2. QueuedFrames' = QueuedFrames
  BY <1>1, Zenon DEF QueuedFrames
<1>. QED BY <1>1, <1>2, Zenon DEF RingSound, Slots

(* A ring without frames has an empty queue.                               *)
LEMMA EmptyQueue == queued = 0 => QueuedFrames = <<>>
  BY DEF QueuedFrames

(* The ring is there at first, empty, and its thread is not.               *)
LEMMA InitHolds ==
  ASSUME Init
  PROVE  FeedInv /\ Queue!QueueInit
<1>1. Handled
  BY DEF Init, Handled, Alive, Served
<1>2. Capacity \in Nat \ {0} /\ MaxFrames \in Nat
  BY FeedConstants
<1>3. readOffset = 0 /\ writeOffset = 0 /\ queued = 0
  BY DEF Init
<1>4. 0 % Capacity = 0
  <2>1. 0 \in 0 .. 2 * Capacity - 1
    BY <1>2
  <2>. QED BY <1>2, <2>1, Around DEF Wrap
<1>5. RingSound
  BY <1>2, <1>3, <1>4 DEF RingSound, Slots
<1>6. LoadedSound /\ FramesWait
  BY <1>2 DEF Init, LoadedSound, FramesWait, Frame
<1>7. Queue!QueueInit
  BY <1>3, EmptyQueue DEF Init, Queue!QueueInit
<1>. QED BY <1>1, <1>5, <1>6, <1>7 DEF FeedInv

(* StartCapture, StopCapture and the thread keep each other's handles.     *)
LEMMA HandledKept ==
  ASSUME Handled, [Next]_vars
  PROVE  Handled'
<1>1. CASE BridgeInitialize \/ BridgeShutdown
  BY <1>1 DEF BridgeInitialize, BridgeShutdown, Handled, Alive, Served,
              handleVars, callVars
<1>2. ASSUME NEW n \in ReadSize, ReadAudio(n) PROVE Handled'
  BY <1>2 DEF ReadAudio, Handled, Alive, Served, handleVars, callVars
<1>3. CASE CallStop \/ CallStart
  BY <1>3 DEF CallStop, CallStart, StopCapture, StoppedClient, Handled, Alive,
              Served
<1>4. CASE Join
  BY <1>4 DEF Join, Joined, Handled, Alive, Served
<1>5. CASE StartFails
  BY <1>5 DEF StartFails, Handled, Alive, Served
<1>6. CASE CreateThread
  BY <1>6 DEF CreateThread, ShutdownAtStart, Handled, Alive, Served
<1>7. CASE StartDevice
  BY <1>7 DEF StartDevice, Handled, Alive, Served
<1>8. CASE StartDeviceFails
  BY <1>8 DEF StartDeviceFails, Handled, Alive, Served
<1>9. CASE CoInitialize
  BY <1>9 DEF CoInitialize, Handled, Alive, Served, handleVars, callVars
<1>10. CASE SeeShutdown
  BY <1>10 DEF SeeShutdown, Handled, Alive, Served, handleVars, callVars
<1>11. CASE WakeUp \/ NothingToTake
  BY <1>11 DEF WakeUp, NothingToTake, Handled, Alive, Served, handleVars,
               callVars
<1>12. CASE TakePacket
  BY <1>12 DEF TakePacket, Handled, Alive, Served, handleVars, callVars
<1>13. CASE SendMicPacket
  BY <1>13 DEF SendMicPacket, Handled, Alive, Served, handleVars, callVars
<1>14. CASE EndSend
  BY <1>14 DEF EndSend, Handled, Alive, Served, handleVars, callVars
<1>15. ASSUME NEW n \in Burst, DeliverSound(n) \/ DeliverSilence(n)
       PROVE  Handled'
  BY <1>15 DEF DeliverSound, DeliverSilence, Deliver, Handled, Alive, Served,
               handleVars, callVars
<1>16. CASE LoseDevice
  BY <1>16 DEF LoseDevice, Handled, Alive, Served, handleVars, callVars
<1>17. CASE UNCHANGED vars
  BY <1>17 DEF vars, Handled, Alive, Served, handleVars, callVars
<1>. QED
  BY <1>1, <1>2, <1>3, <1>4, <1>5, <1>6, <1>7, <1>8, <1>9, <1>10, <1>11,
     <1>12, <1>13, <1>14, <1>15, <1>16, <1>17 DEF Next, Caller, CaptureThread

(* A packet of the device becomes at least one frame of the microphone's   *)
(* rate, and each of them is one of the packet's.                          *)
LEMMA ResampledFrames ==
  ASSUME NEW packet \in Packets
  PROVE  Resampled(packet) \in Seq(Frame)
<1> DEFINE count == Len(packet)
<1>1. /\ MicRate \in Nat \ {0} /\ SourceRate \in Nat \ {0}
      /\ packet \in Seq(Frame) /\ count \in Nat \ {0}
  BY FeedConstants DEF Packets
<1>2. OutputFrames(count) \in Nat
  <2> DEFINE a == 2 * count * MicRate + SourceRate
             c == 2 * SourceRate
  <2>1. a \in Nat /\ c \in Nat \ {0}
    <3>. HIDE DEF count
    <3>. QED BY <1>1
  <2>. HIDE DEF a, c
  <2>2. a \div c \in Nat
    BY <2>1, DivNat
  <2>3. OutputFrames(count) = Greater(1, a \div c)
    BY DEF OutputFrames, a, c
  <2>. QED BY <2>2, <2>3 DEF Greater
<1>3. ASSUME NEW i \in 1 .. OutputFrames(count)
      PROVE  packet[SourceFrame(count, i - 1) + 1] \in Frame
  <2> DEFINE a == (i - 1) * SourceRate
  <2>1. a \in Nat
    BY <1>1, <1>2
  <2>. HIDE DEF a
  <2>2. a \div MicRate \in Nat
    BY <1>1, <2>1, DivNat
  <2>3. SourceFrame(count, i - 1) = Lesser(count - 1, a \div MicRate)
    BY DEF SourceFrame, a
  <2>4. SourceFrame(count, i - 1) + 1 \in 1 .. count
    <3>. HIDE DEF count
    <3>. QED BY <1>1, <2>2, <2>3 DEF Lesser
  <2>. QED BY <1>1, <2>4
<1>. QED BY <1>2, <1>3 DEF Resampled

(* The ring's invariant, and what the step is to the queue.                *)
LEMMA RingKept ==
  ASSUME FeedInv, [Next]_vars
  PROVE  /\ RingSound' /\ LoadedSound' /\ FramesWait'
         /\ [Queue!QueueNext]_(Queue!queueVars)
<1>. USE DEF FeedInv
<1>1. CASE BridgeInitialize
  <2>1. readOffset' = readOffset /\ writeOffset' = writeOffset
        /\ queued' = queued /\ heard' = heard /\ queued = 0
    BY <1>1 DEF BridgeInitialize, LoadedSound
  <2>2. QueuedFrames' = <<>> /\ QueuedFrames = <<>>
    BY <2>1, EmptyQueue DEF QueuedFrames
  <2>3. RingSound'
    BY <2>1, Zenon DEF RingSound, Slots
  <2>4. LoadedSound' /\ FramesWait'
    BY <1>1 DEF BridgeInitialize, LoadedSound, FramesWait, handleVars,
                deviceVars
  <2>. QED BY <2>1, <2>2, <2>3, <2>4 DEF Queue!queueVars
<1>2. CASE BridgeShutdown
  <2>1. readOffset' = 0 /\ writeOffset' = 0 /\ queued' = 0 /\ heard' = heard
    BY <1>2 DEF BridgeShutdown
  <2>2. QueuedFrames' = <<>>
    BY <2>1 DEF QueuedFrames
  <2>3. RingSound'
    <3>1. Capacity \in Nat \ {0} /\ 0 \in 0 .. 2 * Capacity - 1
      BY FeedConstants
    <3>2. 0 % Capacity = 0
      BY <3>1, Around DEF Wrap
    <3>3. 0 \in Slots /\ 0 \in 0 .. Capacity /\ 0 + 0 = 0
      BY <3>1 DEF Slots
    <3>4. readOffset' + queued' = 0
      BY <2>1, <3>3, Zenon
    <3>. QED BY <2>1, <3>2, <3>3, <3>4, Zenon DEF RingSound, Slots
  <2>4. LoadedSound' /\ FramesWait'
    BY <1>2 DEF BridgeShutdown, LoadedSound, FramesWait, handleVars,
                deviceVars
  <2>. QED BY <2>1, <2>2, <2>3, <2>4 DEF Queue!QueueNext, Queue!Clear
<1>3. ASSUME NEW n \in ReadSize, ReadAudio(n)
      PROVE  /\ RingSound' /\ LoadedSound' /\ FramesWait'
             /\ [Queue!QueueNext]_(Queue!queueVars)
  <2>1. RingSound' /\ Queue!Read(n)
    BY <1>3, ReadIsRead DEF RingSound, Slots
  <2>2. LoadedSound' /\ FramesWait'
    BY <1>3 DEF ReadAudio, LoadedSound, FramesWait, handleVars, deviceVars
  <2>. QED BY <2>1, <2>2 DEF Queue!QueueNext
<1>4. CASE SendMicPacket
  <2> DEFINE packet == SubSeq(pending, 1, PacketFrames)
  <2>1. PacketFrames \in Nat /\ pending \in Seq(Frame)
        /\ Len(pending) >= PacketFrames
    BY <1>4, FeedConstants DEF SendMicPacket, FramesWait
  <2>2. packet \in [1 .. PacketFrames -> Frame]
    <3>1. SubSeq(pending, 0 + 1, 0 + PacketFrames)
            = [i \in 1 .. PacketFrames |-> pending[i + 0]]
      BY <2>1, SubSeqShift
    <3>2. /\ 0 + 1 = 1 /\ 0 + PacketFrames = PacketFrames
          /\ \A i \in 1 .. PacketFrames : pending[i + 0] \in Frame
      BY <2>1
    <3>3. packet = [i \in 1 .. PacketFrames |-> pending[i + 0]]
      BY <3>1, <3>2, Zenon
    <3>. HIDE DEF packet
    <3>. QED BY <3>2, <3>3
  <2>3. WritePacket(packet) /\ heard' = heard
    BY <1>4 DEF SendMicPacket
  <2>. HIDE DEF packet
  <2>4. RingSound' /\ Queue!Write(packet)
    BY <2>2, <2>3, WriteIsWrite DEF RingSound, Slots
  <2>5. LoadedSound'
    BY <1>4 DEF SendMicPacket, LoadedSound, Handled, handleVars
  <2>6. FramesWait'
    <3>1. SubSeq(pending, PacketFrames + 1, Len(pending)) \in Seq(Frame)
      BY <2>1
    <3>. QED BY <1>4, <3>1 DEF SendMicPacket, FramesWait, deviceVars
  <2>. QED BY <2>2, <2>4, <2>5, <2>6 DEF Queue!QueueNext
<1>5. ASSUME UNCHANGED <<ring, readOffset, writeOffset, queued, heard>>
      PROVE  RingSound' /\ UNCHANGED Queue!queueVars
  BY <1>5, RingStays DEF Queue!queueVars
<1>6. CASE CallStop \/ CallStart
  BY <1>5, <1>6 DEF CallStop, CallStart, ringVars, LoadedSound, FramesWait,
                    deviceVars
<1>7. CASE Join
  BY <1>5, <1>7 DEF Join, ringVars, LoadedSound, FramesWait, deviceVars
<1>8. CASE StartFails
  BY <1>5, <1>8 DEF StartFails, ringVars, LoadedSound, FramesWait, deviceVars
<1>9. CASE CreateThread
  <2>1. RingSound' /\ UNCHANGED Queue!queueVars
    BY <1>5, <1>9 DEF CreateThread, ringVars
  <2>2. bridge' = FALSE \/ bridge' = (feed /\ loaded)
    BY <1>9, Zenon DEF CreateThread
  <2>3. bridge' => loaded
    BY <2>2, Zenon
  <2>4. LoadedSound' /\ FramesWait'
    BY <1>9, <2>3 DEF CreateThread, ringVars, LoadedSound, FramesWait
  <2>. QED BY <2>1, <2>4
<1>10. CASE StartDevice \/ StartDeviceFails
  BY <1>5, <1>10 DEF StartDevice, StartDeviceFails, ringVars, LoadedSound,
                     FramesWait, deviceVars
<1>11. CASE CoInitialize \/ SeeShutdown \/ WakeUp \/ NothingToTake \/ EndSend
  BY <1>5, <1>11 DEF CoInitialize, SeeShutdown, WakeUp, NothingToTake, EndSend,
     ringVars, LoadedSound, FramesWait, handleVars, deviceVars
<1>12. CASE TakePacket
  <2>1. RingSound' /\ LoadedSound' /\ UNCHANGED Queue!queueVars
    BY <1>5, <1>12 DEF TakePacket, ringVars, LoadedSound, handleVars
  <2>2. backlog \in Seq(Packets) /\ backlog # <<>>
        /\ pending \in Seq(Frame) /\ made \in Frame
    BY <1>12 DEF TakePacket, FramesWait
  <2>3. Head(backlog) \in Packets /\ Tail(backlog) \in Seq(Packets)
    BY <2>2
  <2>4. pending \o Resampled(Head(backlog)) \in Seq(Frame)
    BY <2>2, <2>3, ResampledFrames
  <2>5. /\ pending' = pending \/ pending' = pending \o Resampled(Head(backlog))
        /\ backlog' = Tail(backlog) /\ made' = made
    BY <1>12 DEF TakePacket
  <2>6. FramesWait'
    BY <2>2, <2>3, <2>4, <2>5 DEF FramesWait
  <2>. QED BY <2>1, <2>6
<1>13. ASSUME NEW n \in Burst, DeliverSound(n) \/ DeliverSilence(n)
       PROVE  /\ RingSound' /\ LoadedSound' /\ FramesWait'
              /\ [Queue!QueueNext]_(Queue!queueVars)
  <2>1. RingSound' /\ LoadedSound' /\ UNCHANGED Queue!queueVars
    BY <1>5, <1>13 DEF DeliverSound, DeliverSilence, Deliver, ringVars,
                       LoadedSound, handleVars
  <2>2. n \in Nat \ {0} /\ MaxFrames \in Nat /\ made \in 0 .. MaxFrames
        /\ backlog \in Seq(Packets)
    BY FeedConstants DEF FramesWait, Frame
  <2>3. CASE DeliverSound(n)
    <3> DEFINE packet == [i \in 1 .. n |-> made + i]
    <3>1. made + n <= MaxFrames /\ made' = made + n
          /\ backlog' = Append(backlog, packet) /\ pending' = pending
      BY <2>3 DEF DeliverSound, Deliver
    <3>2. packet \in [1 .. n -> Frame]
      BY <2>2, <3>1 DEF Frame
    <3>3. packet \in Packets
      BY <2>2, <3>2 DEF Packets
    <3>. HIDE DEF packet
    <3>4. made + n \in Frame
      BY <2>2, <3>1 DEF Frame
    <3>. QED BY <2>1, <2>2, <3>1, <3>3, <3>4 DEF FramesWait
  <2>4. CASE DeliverSilence(n)
    <3> DEFINE packet == [i \in 1 .. n |-> Silence]
    <3>1. made' = made /\ backlog' = Append(backlog, packet)
          /\ pending' = pending
      BY <2>4 DEF DeliverSilence, Deliver
    <3>2. packet \in [1 .. n -> Frame]
      BY <2>2 DEF Frame, Silence
    <3>3. packet \in Packets
      BY <2>2, <3>2 DEF Packets
    <3>. HIDE DEF packet
    <3>. QED BY <2>1, <2>2, <3>1, <3>3 DEF FramesWait
  <2>. QED BY <1>13, <2>3, <2>4
<1>14. CASE LoseDevice
  BY <1>5, <1>14 DEF LoseDevice, ringVars, LoadedSound, FramesWait, handleVars
<1>15. CASE UNCHANGED vars
  BY <1>5, <1>15 DEF vars, ringVars, LoadedSound, FramesWait, handleVars,
                     deviceVars
<1>. QED
  BY <1>1, <1>2, <1>3, <1>4, <1>6, <1>7, <1>8, <1>9, <1>10, <1>11, <1>12,
     <1>13, <1>14, <1>15 DEF Next, Caller, CaptureThread

-----------------------------------------------------------------------------
(* The order of sound.                                                     *)

(* Nothing in s is younger than frame n.                                   *)
MadeBy(s, n) == \A i \in DOMAIN s : s[i] <= n

(* Sound in its order, after frame h and made by m.                        *)
Line(s, h, m) == Ordered(s) /\ Before(<<h>>, s) /\ MadeBy(s, m)

(* With h heard, the frames q in the ring, p waiting for it, the packets b *)
(* in the device and m made: everything is in line, each part before the   *)
(* parts after it.                                                         *)
InLine(h, q, p, b, m) ==
  /\ h \in Frame /\ q \in Seq(Frame) /\ h <= m
  /\ Line(q, h, m) /\ Line(p, h, m) /\ Before(q, p)
  /\ \A k \in DOMAIN b :
       Line(b[k], h, m) /\ Before(q, b[k]) /\ Before(p, b[k])
  /\ \A k, l \in DOMAIN b : k < l => Before(b[k], b[l])

(* SoundInOrder, and that the device has made all of it.                   *)
InOrder == InLine(heard, QueuedFrames, pending, backlog, made)

(* The frames of t are frames of s, taken in their order: some are left    *)
(* out, and some repeated.                                                 *)
Drawn(t, s) ==
  \E f \in [DOMAIN t -> DOMAIN s] :
    /\ \A i, j \in DOMAIN t : i <= j => f[i] <= f[j]
    /\ \A i \in DOMAIN t : t[i] = s[f[i]]

(* What is drawn from a sequence is where it was.                          *)
LEMMA DrawnStays ==
  ASSUME NEW s \in Seq(Frame), NEW t \in Seq(Frame), Drawn(t, s)
  PROVE  /\ Ordered(s) => Ordered(t)
         /\ \A n : MadeBy(s, n) => MadeBy(t, n)
         /\ \A x : Before(x, s) => Before(x, t)
         /\ \A x : Before(s, x) => Before(t, x)
<1>. PICK f \in [DOMAIN t -> DOMAIN s] :
       /\ \A i, j \in DOMAIN t : i <= j => f[i] <= f[j]
       /\ \A i \in DOMAIN t : t[i] = s[f[i]]
  BY DEF Drawn
<1>1. Ordered(s) => Ordered(t)
  <2>. SUFFICES ASSUME Ordered(s), NEW i \in DOMAIN t, NEW j \in DOMAIN t,
                       i < j, t[j] # Silence
                PROVE  t[i] <= t[j]
    BY DEF Ordered
  <2>1. /\ f[i] \in 1 .. Len(s) /\ f[j] \in 1 .. Len(s)
        /\ i \in Nat /\ j \in Nat
    OBVIOUS
  <2>2. t[i] = s[f[i]] /\ t[j] = s[f[j]] /\ f[i] <= f[j]
    BY <2>1
  <2>3. s[f[i]] \in Nat
    <3>1. s[f[i]] \in Frame
      BY <2>1
    <3>. QED BY <3>1, FeedConstants DEF Frame
  <2>4. CASE f[i] = f[j]
    BY <2>2, <2>3, <2>4
  <2>5. CASE f[i] < f[j]
    BY <2>1, <2>2, <2>5 DEF Ordered
  <2>. QED BY <2>1, <2>2, <2>4, <2>5
<1>2. \A n : MadeBy(s, n) => MadeBy(t, n)
  BY DEF MadeBy
<1>3. \A x : Before(x, s) => Before(x, t)
  BY DEF Before
<1>4. \A x : Before(s, x) => Before(t, x)
  BY DEF Before
<1>. QED BY <1>1, <1>2, <1>3, <1>4

(* A part of a sequence is drawn from it.                                  *)
LEMMA PartIsDrawn ==
  ASSUME NEW s \in Seq(Frame), NEW first \in Nat \ {0}, NEW last \in Nat,
         first <= last + 1, last <= Len(s)
  PROVE  /\ SubSeq(s, first, last) \in Seq(Frame)
         /\ DOMAIN SubSeq(s, first, last) = 1 .. last - first + 1
         /\ \A i \in 1 .. last - first + 1 :
              SubSeq(s, first, last)[i] = s[i + first - 1]
         /\ Drawn(SubSeq(s, first, last), s)
<1> DEFINE t == SubSeq(s, first, last)
           n == last - first + 1
           f == [i \in 1 .. n |-> i + first - 1]
<1>1. t = [i \in 1 .. n |-> s[i + first - 1]]
  OBVIOUS
<1>2. \A i \in 1 .. n : i + first - 1 \in 1 .. Len(s)
  OBVIOUS
<1>3. \A i \in 1 .. n : s[i + first - 1] \in Frame
  BY <1>2
<1>4. DOMAIN s = 1 .. Len(s) /\ DOMAIN t = 1 .. n /\ n \in Nat
  BY <1>1
<1>5. \A i \in 1 .. n : t[i] = s[i + first - 1]
  BY <1>1
<1>6. t \in Seq(Frame)
  <2>. HIDE DEF t, n
  <2>. QED BY <1>1, <1>3, <1>4
<1>. HIDE DEF t
<1>7. Drawn(t, s)
  <2>1. f \in [DOMAIN t -> DOMAIN s]
        /\ \A i \in DOMAIN t : f[i] = i + first - 1
    BY <1>2, <1>4
  <2>. HIDE DEF f
  <2>2. \A i, j \in DOMAIN t : i <= j => f[i] <= f[j]
    BY <1>4, <2>1
  <2>3. \A i \in DOMAIN t : t[i] = s[f[i]]
    BY <1>4, <1>5, <2>1
  <2>. QED BY <2>1, <2>2, <2>3 DEF Drawn
<1>. QED BY <1>4, <1>5, <1>6, <1>7 DEF t

(* Two sequences one after the other.                                      *)
LEMMA OneAfterTheOther ==
  ASSUME NEW s \in Seq(Frame), NEW t \in Seq(Frame)
  PROVE  /\ s \o t \in Seq(Frame)
         /\ Ordered(s) /\ Ordered(t) /\ Before(s, t) => Ordered(s \o t)
         /\ \A n : MadeBy(s, n) /\ MadeBy(t, n) => MadeBy(s \o t, n)
         /\ \A x : Before(x, s) /\ Before(x, t) => Before(x, s \o t)
         /\ \A x : Before(s, x) /\ Before(t, x) => Before(s \o t, x)
<1> DEFINE c == s \o t
<1>1. c \in Seq(Frame) /\ DOMAIN c = 1 .. Len(s) + Len(t)
  OBVIOUS
<1>2. \A i \in DOMAIN c : \/ i \in DOMAIN s /\ c[i] = s[i]
                          \/ i - Len(s) \in DOMAIN t /\ c[i] = t[i - Len(s)]
                             /\ i \notin DOMAIN s
  OBVIOUS
<1>3. DOMAIN s = 1 .. Len(s) /\ DOMAIN t = 1 .. Len(t)
      /\ Len(s) \in Nat /\ Len(t) \in Nat
  OBVIOUS
<1>. HIDE DEF c
<1>4. ASSUME Ordered(s), Ordered(t), Before(s, t) PROVE Ordered(c)
  BY <1>1, <1>2, <1>3, <1>4 DEF Ordered, Before
<1>5. \A n : MadeBy(s, n) /\ MadeBy(t, n) => MadeBy(c, n)
  BY <1>2 DEF MadeBy
<1>6. \A x : Before(x, s) /\ Before(x, t) => Before(x, c)
  BY <1>2 DEF Before
<1>7. \A x : Before(s, x) /\ Before(t, x) => Before(c, x)
  BY <1>2 DEF Before
<1>. QED BY <1>1, <1>4, <1>5, <1>6, <1>7 DEF c

(* Division keeps the order.                                               *)
LEMMA DivOrder ==
  ASSUME NEW c \in Nat \ {0}, NEW a \in Nat, NEW b \in Nat, a <= b
  PROVE  a \div c <= b \div c
  BY Z3

(* A resampled packet is drawn from the device's: positions in it are      *)
(* scaled, and the last frame repeats at the end.                          *)
LEMMA ResampledIsDrawn ==
  ASSUME NEW packet \in Packets
  PROVE  Drawn(Resampled(packet), packet)
<1> DEFINE count == Len(packet)
           out == OutputFrames(count)
           f == [i \in 1 .. out |-> SourceFrame(count, i - 1) + 1]
<1>1. /\ MicRate \in Nat \ {0} /\ SourceRate \in Nat \ {0}
      /\ packet \in Seq(Frame) /\ count \in Nat \ {0}
      /\ DOMAIN packet = 1 .. count
  BY FeedConstants DEF Packets
<1>2. /\ Resampled(packet) = [i \in 1 .. out |-> packet[f[i]]]
      /\ DOMAIN Resampled(packet) = 1 .. out
  BY DEF Resampled
<1>3. \A i \in 1 .. out : i \in Nat \ {0}
  <2>1. Resampled(packet) \in Seq(Frame)
    BY ResampledFrames
  <2>2. DOMAIN Resampled(packet) = 1 .. Len(Resampled(packet))
    BY <2>1
  <2>. HIDE DEF out
  <2>. QED BY <1>2, <2>1, <2>2
<1>. HIDE DEF out, count
<1>4. ASSUME NEW i \in 1 .. out
      PROVE  /\ (i - 1) * SourceRate \in Nat
             /\ ((i - 1) * SourceRate) \div MicRate \in Nat
  <2> DEFINE a == (i - 1) * SourceRate
  <2>1. a \in Nat
    BY <1>1, <1>3
  <2>. HIDE DEF a
  <2>2. a \div MicRate \in Nat
    BY <1>1, <2>1, DivNat
  <2>. QED BY <2>1, <2>2 DEF a
<1>5. ASSUME NEW i \in 1 .. out
      PROVE  f[i] = Lesser(count - 1, ((i - 1) * SourceRate) \div MicRate) + 1
  BY DEF SourceFrame
<1>6. ASSUME NEW i \in 1 .. out
      PROVE  f[i] \in DOMAIN packet
  <2> DEFINE d == ((i - 1) * SourceRate) \div MicRate
  <2>1. d \in Nat /\ f[i] = Lesser(count - 1, d) + 1
    BY <1>4, <1>5
  <2>. HIDE DEF d, f
  <2>. QED BY <1>1, <2>1 DEF Lesser
<1>7. ASSUME NEW i \in 1 .. out, NEW j \in 1 .. out, i <= j
      PROVE  f[i] <= f[j]
  <2> DEFINE a == (i - 1) * SourceRate
             b == (j - 1) * SourceRate
  <2>1. a <= b
    BY <1>1, <1>3, <1>7
  <2>2. a \in Nat /\ b \in Nat
    BY <1>4
  <2>3. f[i] = Lesser(count - 1, a \div MicRate) + 1
        /\ f[j] = Lesser(count - 1, b \div MicRate) + 1
    BY <1>5
  <2>. HIDE DEF a, b, f
  <2>4. a \div MicRate <= b \div MicRate
    BY <1>1, <2>1, <2>2, DivOrder
  <2>5. a \div MicRate \in Nat /\ b \div MicRate \in Nat
    BY <1>1, <2>2, DivNat
  <2>. QED BY <1>1, <2>3, <2>4, <2>5 DEF Lesser
<1>8. f \in [1 .. out -> DOMAIN packet]
  BY <1>6
<1>. HIDE DEF f
<1>. QED BY <1>2, <1>7, <1>8 DEF Drawn

(* Nothing is under way at first.                                          *)
LEMMA InitInOrder ==
  ASSUME Init
  PROVE  InOrder
<1>1. heard = 0 /\ pending = <<>> /\ backlog = <<>> /\ made = 0 /\ queued = 0
  BY DEF Init, Silence
<1>2. QueuedFrames = <<>>
  BY <1>1, EmptyQueue
<1>. QED
  BY <1>1, <1>2, FeedConstants
  DEF InOrder, InLine, Line, Ordered, Before, MadeBy, Frame

(* Nothing is between nothing and anything.                                *)
LEMMA NothingInLine ==
  /\ Ordered(<<>>) /\ \A n : MadeBy(<<>>, n)
  /\ \A x : Before(x, <<>>) /\ Before(<<>>, x)
  BY DEF Ordered, MadeBy, Before

(* What is cleared leaves the rest in line.                                *)
LEMMA ClearedInLine ==
  ASSUME NEW h, NEW q, NEW p, NEW b, NEW m, InLine(h, q, p, b, m)
  PROVE  /\ InLine(h, <<>>, p, b, m)
         /\ InLine(h, q, <<>>, b, m)
         /\ InLine(h, q, <<>>, <<>>, m)
  BY NothingInLine DEF InLine, Line

(* The first frames of the ring are read, and one of them may be heard.    *)
LEMMA ReadInLine ==
  ASSUME NEW h, NEW q, NEW p, NEW b \in Seq(Packets), NEW m \in Frame,
         p \in Seq(Frame), InLine(h, q, p, b, m),
         NEW n \in 0 .. Len(q), NEW g,
         \/ g = h
         \/ \E i \in 1 .. n : q[i] # Silence /\ g = q[i]
  PROVE  InLine(g, SubSeq(q, n + 1, Len(q)), p, b, m)
<1> DEFINE r == SubSeq(q, n + 1, Len(q))
           c == Len(q) - n
<1>1. /\ q \in Seq(Frame) /\ n \in Nat /\ c \in Nat /\ n + c = Len(q)
      /\ DOMAIN q = 1 .. Len(q) /\ Len(q) \in Nat
  BY DEF InLine
<1>2. /\ r \in Seq(Frame) /\ DOMAIN r = 1 .. c
      /\ \A i \in 1 .. c : r[i] = q[i + n]
      /\ Drawn(r, q)
  <2>1. /\ n + 1 \in Nat \ {0} /\ n + 1 <= Len(q) + 1 /\ Len(q) <= Len(q)
        /\ Len(q) - (n + 1) + 1 = c
        /\ \A i \in 1 .. c : i + (n + 1) - 1 = i + n
    BY <1>1
  <2>2. /\ r \in Seq(Frame) /\ Drawn(r, q)
        /\ DOMAIN r = 1 .. Len(q) - (n + 1) + 1
        /\ \A i \in 1 .. Len(q) - (n + 1) + 1 : r[i] = q[i + (n + 1) - 1]
    BY <1>1, <2>1, PartIsDrawn
  <2>. HIDE DEF c, r
  <2>. QED BY <2>1, <2>2
<1>. HIDE DEF r
<1>3. Line(r, h, m) /\ Before(r, p) /\ \A k \in DOMAIN b : Before(r, b[k])
  BY <1>1, <1>2, DrawnStays DEF InLine, Line
<1>4. CASE g = h
  BY <1>2, <1>3, <1>4 DEF InLine, r
<1>5. ASSUME NEW i \in 1 .. n, q[i] # Silence, g = q[i]
      PROVE  InLine(g, r, p, b, m)
  <2>1. i \in DOMAIN q /\ g \in Frame /\ g <= m
    BY <1>1, <1>5 DEF InLine, Line, MadeBy
  <2>2. Before(<<g>>, r)
    <3>. SUFFICES ASSUME NEW j \in 1 .. c, r[j] # Silence
                  PROVE  g <= r[j]
      BY <1>2 DEF Before
    <3>1. j + n \in DOMAIN q /\ i < j + n /\ r[j] = q[j + n]
      BY <1>1, <1>2
    <3>. QED BY <1>5, <2>1, <3>1 DEF InLine, Line, Ordered
  <2>3. ASSUME NEW x, Before(q, x) PROVE Before(<<g>>, x)
    BY <1>5, <2>1, <2>3 DEF Before
  <2>4. Before(<<g>>, p) /\ \A k \in DOMAIN b : Before(<<g>>, b[k])
    BY <2>3 DEF InLine
  <2>. QED BY <1>2, <1>3, <2>1, <2>2, <2>4 DEF InLine, Line
<1>. QED BY <1>4, <1>5 DEF r

(* The first n frames that wait go into the ring, which keeps what it has  *)
(* room for.                                                               *)
LEMMA SentInLine ==
  ASSUME NEW h, NEW q, NEW p \in Seq(Frame), NEW b \in Seq(Packets),
         NEW m \in Frame, InLine(h, q, p, b, m),
         NEW n \in 1 .. Len(p), NEW all, all = q \o SubSeq(p, 1, n),
         NEW r, r = IF Len(all) <= Capacity THEN all
                    ELSE Queue!Newest(all, Capacity)
  PROVE  InLine(h, r, SubSeq(p, n + 1, Len(p)), b, m)
<1> DEFINE sent == SubSeq(p, 1, n)
           kept == SubSeq(p, n + 1, Len(p))
           c == Len(p) - n
<1>1. /\ q \in Seq(Frame) /\ n \in Nat /\ c \in Nat /\ n + c = Len(p)
      /\ Capacity \in Nat
  BY FeedConstants DEF InLine
<1>2. /\ sent \in Seq(Frame) /\ DOMAIN sent = 1 .. n /\ Drawn(sent, p)
      /\ \A i \in 1 .. n : sent[i] = p[i]
  <2>1. /\ 1 \in Nat \ {0} /\ 1 <= n + 1 /\ n <= Len(p) /\ n - 1 + 1 = n
        /\ \A i \in 1 .. n : i + 1 - 1 = i
    BY <1>1
  <2>. QED BY <1>1, <2>1, PartIsDrawn
<1>3. /\ kept \in Seq(Frame) /\ DOMAIN kept = 1 .. c /\ Drawn(kept, p)
      /\ \A i \in 1 .. c : kept[i] = p[i + n]
  <2>1. /\ n + 1 \in Nat \ {0} /\ n + 1 <= Len(p) + 1 /\ Len(p) <= Len(p)
        /\ Len(p) - (n + 1) + 1 = c
        /\ \A i \in 1 .. c : i + (n + 1) - 1 = i + n
    BY <1>1
  <2>2. /\ kept \in Seq(Frame) /\ Drawn(kept, p)
        /\ DOMAIN kept = 1 .. Len(p) - (n + 1) + 1
        /\ \A i \in 1 .. Len(p) - (n + 1) + 1 : kept[i] = p[i + (n + 1) - 1]
    BY <1>1, <2>1, PartIsDrawn
  <2>. HIDE DEF c, kept
  <2>. QED BY <2>1, <2>2
<1>. HIDE DEF sent, kept
<1>4. Line(sent, h, m) /\ Before(q, sent)
      /\ \A k \in DOMAIN b : Before(sent, b[k])
  BY <1>2, DrawnStays DEF InLine, Line
<1>5. Line(kept, h, m) /\ Before(q, kept)
      /\ \A k \in DOMAIN b : Before(kept, b[k])
  BY <1>3, DrawnStays DEF InLine, Line
<1>6. Before(sent, kept)
  <2>. SUFFICES ASSUME NEW i \in 1 .. n, NEW j \in 1 .. c, kept[j] # Silence
                PROVE  sent[i] <= kept[j]
    BY <1>2, <1>3 DEF Before
  <2>1. i \in DOMAIN p /\ j + n \in DOMAIN p /\ i < j + n
    BY <1>1
  <2>. QED BY <1>2, <1>3, <2>1 DEF InLine, Line, Ordered
<1>7. /\ all \in Seq(Frame) /\ Line(all, h, m) /\ Before(all, kept)
      /\ \A k \in DOMAIN b : Before(all, b[k])
  <2> DEFINE both == q \o sent
  <2>1. /\ both \in Seq(Frame) /\ Line(both, h, m) /\ Before(both, kept)
        /\ \A k \in DOMAIN b : Before(both, b[k])
    BY <1>1, <1>2, <1>4, <1>5, <1>6, OneAfterTheOther DEF InLine, Line
  <2>. QED BY <2>1 DEF sent
<1>8. r = IF Len(all) <= Capacity THEN all ELSE Queue!Newest(all, Capacity)
  OBVIOUS
<1>9. r \in Seq(Frame) /\ (r = all \/ Drawn(r, all))
  <2>1. CASE Len(all) <= Capacity
    BY <1>7, <1>8, <2>1
  <2>2. CASE Len(all) > Capacity
    <3> DEFINE from == Len(all) - Capacity + 1
    <3>1. all \in Seq(Frame) /\ Len(all) \in Nat
      BY <1>7
    <3>2. from \in Nat \ {0} /\ from <= Len(all) + 1 /\ Len(all) <= Len(all)
      BY <1>1, <2>2, <3>1
    <3>3. ~(Len(all) <= Capacity)
      BY <1>1, <2>2, <3>1
    <3>4. r = SubSeq(all, from, Len(all))
      BY <1>8, <3>3 DEF Queue!Newest
    <3>. HIDE DEF from
    <3>5. /\ SubSeq(all, from, Len(all)) \in Seq(Frame)
          /\ Drawn(SubSeq(all, from, Len(all)), all)
      BY <3>1, <3>2, PartIsDrawn
    <3>. QED BY <3>4, <3>5
  <2>3. Len(all) <= Capacity \/ Len(all) > Capacity
    BY <1>1, <1>7
  <2>. QED BY <2>1, <2>2, <2>3
<1>10. /\ Line(r, h, m) /\ Before(r, kept)
       /\ \A k \in DOMAIN b : Before(r, b[k])
  <2>1. CASE r = all
    BY <1>7, <2>1
  <2>2. CASE Drawn(r, all)
    <3>1. all \in Seq(Frame) /\ r \in Seq(Frame) /\ Drawn(r, all)
      BY <1>7, <1>9, <2>2
    <3>2. Line(r, h, m)
      BY <1>7, <3>1, DrawnStays DEF Line
    <3>3. Before(r, kept) /\ \A k \in DOMAIN b : Before(r, b[k])
      BY <1>7, <3>1, DrawnStays
    <3>. QED BY <3>2, <3>3
  <2>. QED BY <1>9, <2>1, <2>2
<1>. QED BY <1>5, <1>9, <1>10 DEF InLine, kept

(* The first packet of the device is taken, and dropped or resampled.      *)
LEMMA TakenInLine ==
  ASSUME NEW h, NEW q, NEW p \in Seq(Frame), NEW b \in Seq(Packets),
         NEW m \in Frame, InLine(h, q, p, b, m), b # <<>>
  PROVE  /\ InLine(h, q, p, Tail(b), m)
         /\ InLine(h, q, p \o Resampled(Head(b)), Tail(b), m)
<1> DEFINE r == Resampled(Head(b))
           t == Tail(b)
<1>1. /\ q \in Seq(Frame) /\ b[1] \in Packets /\ 1 \in DOMAIN b
      /\ Head(b) = b[1] /\ b[1] \in Seq(Frame)
  BY DEF InLine, Packets
<1>2. \A k \in DOMAIN t : k + 1 \in DOMAIN b /\ t[k] = b[k + 1] /\ 1 < k + 1
                          /\ k \in Nat /\ t[k] \in Seq(Frame)
  BY DEF Packets
<1>3. r \in Seq(Frame) /\ Drawn(r, b[1])
  BY <1>1, ResampledFrames, ResampledIsDrawn
<1>. HIDE DEF r, t
<1>4. Line(r, h, m) /\ Before(q, r) /\ Before(p, r)
  BY <1>1, <1>3, DrawnStays DEF InLine, Line
<1>5. \A k \in DOMAIN t : Before(r, t[k])
  BY <1>1, <1>2, <1>3, DrawnStays DEF InLine
<1>6. /\ \A k \in DOMAIN t :
           Line(t[k], h, m) /\ Before(q, t[k]) /\ Before(p, t[k])
      /\ \A k, l \in DOMAIN t : k < l => Before(t[k], t[l])
  BY <1>2 DEF InLine
<1>7. /\ Line(p \o r, h, m) /\ Before(q, p \o r)
      /\ \A k \in DOMAIN t : Before(p \o r, t[k])
  BY <1>3, <1>4, <1>5, <1>6, OneAfterTheOther DEF InLine, Line
<1>. QED BY <1>6, <1>7 DEF InLine, r, t

(* The device makes a packet, of sound or of silence.                      *)
LEMMA DeliveredInLine ==
  ASSUME NEW h, NEW q, NEW p \in Seq(Frame), NEW b \in Seq(Packets),
         NEW m \in Frame, InLine(h, q, p, b, m),
         NEW n \in Nat \ {0}, NEW l \in Nat, NEW packet,
         \/ packet = [i \in 1 .. n |-> m + i] /\ l = m + n
         \/ packet = [i \in 1 .. n |-> Silence] /\ l = m
  PROVE  InLine(h, q, p, Append(b, packet), l)
<1> DEFINE c == Append(b, packet)
<1>1. m \in Nat /\ m <= l /\ h \in Nat /\ h <= m
      /\ DOMAIN packet = 1 .. n
  BY FeedConstants DEF Frame, InLine
<1>2. Line(packet, h, l)
  BY <1>1 DEF Line, Ordered, Before, MadeBy, Silence
<1>3. ASSUME NEW x \in Seq(Frame), MadeBy(x, m)
      PROVE  Before(x, packet) /\ MadeBy(x, l)
  <2>1. \A i \in DOMAIN x : x[i] \in Nat /\ x[i] <= m
    BY <1>3, FeedConstants DEF MadeBy, Frame
  <2>. QED BY <1>1, <2>1 DEF Before, MadeBy, Silence
<1>4. q \in Seq(Frame) /\ \A k \in DOMAIN b : b[k] \in Seq(Frame)
  BY DEF InLine, Packets
<1>5. /\ Before(q, packet) /\ Before(p, packet)
      /\ MadeBy(q, l) /\ MadeBy(p, l)
      /\ \A k \in DOMAIN b : Before(b[k], packet) /\ MadeBy(b[k], l)
  BY <1>3, <1>4 DEF InLine, Line
<1>6. /\ \A k \in DOMAIN c : k \in Nat
      /\ \A k \in DOMAIN c :
           \/ k \in DOMAIN b /\ c[k] = b[k]
           \/ k = Len(b) + 1 /\ c[k] = packet
      /\ \A k \in DOMAIN b : k < Len(b) + 1
      /\ Len(b) \in Nat
  OBVIOUS
<1>. HIDE DEF c
<1>7. \A k \in DOMAIN c :
        Line(c[k], h, l) /\ Before(q, c[k]) /\ Before(p, c[k])
  BY <1>2, <1>5, <1>6 DEF InLine, Line
<1>8. \A k, j \in DOMAIN c : k < j => Before(c[k], c[j])
  <2>. SUFFICES ASSUME NEW k \in DOMAIN c, NEW j \in DOMAIN c, k < j
                PROVE  Before(c[k], c[j])
    OBVIOUS
  <2>1. k \in DOMAIN b /\ c[k] = b[k]
    BY <1>6
  <2>. QED BY <1>5, <1>6, <2>1 DEF InLine
<1>9. h <= l
  BY <1>1
<1>. QED BY <1>5, <1>7, <1>8, <1>9 DEF InLine, Line, c

(* What a step does that moves no sound forward: it may empty the ring,    *)
(* what waits for it, and the device.                                      *)
LEMMA NothingMoves ==
  ASSUME InOrder, UNCHANGED <<heard, made>>,
         QueuedFrames' = QueuedFrames \/ QueuedFrames' = <<>>,
         \/ UNCHANGED <<pending, backlog>>
         \/ pending' = <<>> /\ UNCHANGED backlog
         \/ pending' = <<>> /\ backlog' = <<>>
  PROVE  InOrder'
<1> DEFINE q == QueuedFrames
           r == QueuedFrames'
<1>1. InLine(heard, q, pending, backlog, made) /\ (r = q \/ r = <<>>)
  BY DEF InOrder
<1>. HIDE DEF q, r
<1>2. InLine(heard, r, pending, backlog, made)
  BY <1>1, ClearedInLine
<1>3. InLine(heard, r, pending', backlog', made)
  BY <1>2, ClearedInLine
<1>. QED BY <1>3 DEF InOrder, r

(* Reading takes the oldest, sending the next, and the device makes newer  *)
(* sound than all.                                                         *)
LEMMA OrderKept ==
  ASSUME FeedInv, InOrder, [Next]_vars
  PROVE  InOrder'
<1> DEFINE q == QueuedFrames
<1>1. /\ InLine(heard, q, pending, backlog, made) /\ q \in Seq(Frame)
      /\ pending \in Seq(Frame) /\ backlog \in Seq(Packets) /\ made \in Frame
  BY DEF InOrder, InLine, FeedInv, FramesWait
<1>2. ASSUME UNCHANGED <<ring, readOffset, writeOffset, queued>>
      PROVE  QueuedFrames' = q
  BY <1>2, RingStays DEF FeedInv
<1>3. CASE BridgeInitialize
  <2>1. queued = 0 /\ queued' = 0
    BY <1>3 DEF BridgeInitialize, FeedInv, LoadedSound
  <2>2. QueuedFrames' = <<>>
    BY <2>1 DEF QueuedFrames
  <2>. QED BY <1>3, <2>2, NothingMoves DEF BridgeInitialize, deviceVars
<1>4. CASE BridgeShutdown
  <2>1. queued' = 0
    BY <1>4 DEF BridgeShutdown
  <2>2. QueuedFrames' = <<>>
    BY <2>1 DEF QueuedFrames
  <2>. QED BY <1>4, <2>2, NothingMoves DEF BridgeShutdown, deviceVars
<1>5. ASSUME NEW n \in ReadSize, ReadAudio(n) PROVE InOrder'
  <2> DEFINE taken == IF n <= Len(q) THEN n ELSE Len(q)
             first == SubSeq(q, 1, taken)
  <2>1. /\ QueuedFrames' = SubSeq(q, taken + 1, Len(q))
        /\ Queue!Hear(first)
    BY <1>5, ReadIsRead DEF FeedInv, Queue!Read
  <2>2. UNCHANGED <<pending, backlog, made>>
    BY <1>5 DEF ReadAudio, deviceVars
  <2>3. taken \in 0 .. Len(q)
    BY <1>1, FeedConstants
  <2>. HIDE DEF q, taken
  <2>4. /\ 1 \in Nat \ {0} /\ 1 <= taken + 1 /\ taken <= Len(q)
        /\ taken \in Nat /\ taken - 1 + 1 = taken
        /\ \A i \in 1 .. taken : i + 1 - 1 = i
    BY <1>1, <2>3
  <2>5. DOMAIN first = 1 .. taken /\ \A i \in 1 .. taken : first[i] = q[i]
    BY <1>1, <2>4, PartIsDrawn
  <2>. HIDE DEF first
  <2>6. \/ heard' = heard
        \/ \E i \in 1 .. taken : q[i] # Silence /\ heard' = q[i]
    BY <2>1, <2>5 DEF Queue!Hear
  <2>7. InLine(heard', SubSeq(q, taken + 1, Len(q)), pending, backlog, made)
    BY <1>1, <2>3, <2>6, ReadInLine
  <2>. QED BY <2>1, <2>2, <2>7 DEF InOrder
<1>6. CASE SendMicPacket
  <2> DEFINE packet == SubSeq(pending, 1, PacketFrames)
             rest == SubSeq(pending, PacketFrames + 1, Len(pending))
             all == q \o packet
  <2>1. /\ PacketFrames \in 1 .. Len(pending) /\ WritePacket(packet)
        /\ pending' = rest /\ UNCHANGED <<heard, backlog, made>>
    BY <1>1, <1>6, FeedConstants DEF SendMicPacket, deviceVars
  <2>2. packet \in [1 .. PacketFrames -> Frame]
    <3>1. packet \in Seq(Frame) /\ Len(packet) = PacketFrames
      BY <1>1, <2>1
    <3>. HIDE DEF packet
    <3>. QED BY <3>1
  <2>. HIDE DEF packet
  <2>3. Queue!Write(packet)
    BY <2>1, <2>2, WriteIsWrite DEF FeedInv
  <2>4. QueuedFrames' = IF Len(all) <= Capacity THEN all
                        ELSE Queue!Newest(all, Capacity)
    BY <2>3 DEF Queue!Write
  <2>. HIDE DEF q
  <2>5. all = q \o SubSeq(pending, 1, PacketFrames)
    BY DEF packet
  <2>. HIDE DEF all, rest
  <2>6. \A r : r = (IF Len(all) <= Capacity THEN all
                    ELSE Queue!Newest(all, Capacity))
               => InLine(heard, r, rest, backlog, made)
    BY <1>1, <2>1, <2>5, SentInLine DEF rest
  <2>7. InLine(heard, QueuedFrames', rest, backlog, made)
    BY <2>4, <2>6
  <2>. QED BY <2>1, <2>7 DEF InOrder
<1>7. CASE TakePacket
  <2>1. /\ backlog # <<>> /\ backlog' = Tail(backlog)
        /\ \/ pending' = pending
           \/ pending' = pending \o Resampled(Head(backlog))
        /\ UNCHANGED <<heard, made>> /\ QueuedFrames' = q
    BY <1>2, <1>7 DEF TakePacket, ringVars
  <2>. HIDE DEF q
  <2>2. InLine(heard, q, pending', backlog', made)
    BY <1>1, <2>1, TakenInLine
  <2>. QED BY <2>1, <2>2 DEF InOrder
<1>8. ASSUME NEW n \in Burst, DeliverSound(n) \/ DeliverSilence(n)
      PROVE  InOrder'
  <2>1. PICK packet :
          /\ backlog' = Append(backlog, packet)
          /\ \/ packet = [i \in 1 .. n |-> made + i] /\ made' = made + n
             \/ packet = [i \in 1 .. n |-> Silence] /\ made' = made
    BY <1>8 DEF DeliverSound, DeliverSilence, Deliver
  <2>2. UNCHANGED <<heard, pending>> /\ QueuedFrames' = q
    BY <1>2, <1>8 DEF DeliverSound, DeliverSilence, Deliver, ringVars
  <2>3. n \in Nat \ {0} /\ made \in Nat /\ made + n \in Nat
    BY <1>1, FeedConstants DEF Frame
  <2>. HIDE DEF q
  <2>4. InLine(heard, q, pending, Append(backlog, packet), made')
    BY <1>1, <2>1, <2>3, DeliveredInLine
  <2>. QED BY <2>1, <2>2, <2>4 DEF InOrder
<1>9. CASE CallStop \/ CallStart
  BY <1>2, <1>9, NothingMoves DEF CallStop, CallStart, ringVars, deviceVars
<1>10. CASE Join
  BY <1>2, <1>10, NothingMoves DEF Join, ringVars
<1>11. CASE StartFails \/ StartDevice \/ StartDeviceFails
  BY <1>2, <1>11, NothingMoves
  DEF StartFails, StartDevice, StartDeviceFails, ringVars, deviceVars
<1>12. CASE CreateThread
  BY <1>2, <1>12, NothingMoves DEF CreateThread, ringVars
<1>13. CASE CoInitialize \/ SeeShutdown \/ WakeUp \/ NothingToTake \/ EndSend
  BY <1>2, <1>13, NothingMoves
  DEF CoInitialize, SeeShutdown, WakeUp, NothingToTake, EndSend, ringVars,
      deviceVars
<1>14. CASE LoseDevice \/ UNCHANGED vars
  BY <1>2, <1>14, NothingMoves DEF LoseDevice, vars, ringVars, deviceVars
<1>. QED
  BY <1>3, <1>4, <1>5, <1>6, <1>7, <1>8, <1>9, <1>10, <1>11, <1>12, <1>13,
     <1>14 DEF Next, Caller, CaptureThread

(* In a build without the feed the bridge is never open, and nothing moves.*)
Silent ==
  ~feed => ~bridge /\ heard = Silence /\ queued = 0 /\ pending = <<>>

LEMMA SilentKept ==
  ASSUME FeedInv, Silent, [Next]_vars
  PROVE  Silent'
<1>. SUFFICES ASSUME ~feed, Next
              PROVE  /\ ~feed' /\ ~bridge' /\ heard' = Silence
                     /\ queued' = 0 /\ pending' = <<>>
  <2>1. feed' = feed
    BY DEF Next, Caller, CaptureThread, BridgeInitialize, BridgeShutdown,
       ReadAudio, CallStop, CallStart, Join, StartFails, CreateThread,
       StartDevice, StartDeviceFails, CoInitialize, SeeShutdown, WakeUp,
       NothingToTake, TakePacket, SendMicPacket, EndSend, DeliverSound,
       DeliverSilence, Deliver, LoseDevice, vars, ringVars
  <2>2. CASE UNCHANGED vars
    BY <2>2 DEF vars, ringVars, handleVars, Silent
  <2>. QED BY <2>1, <2>2 DEF Silent
<1>1. ~bridge /\ heard = Silence /\ queued = 0 /\ pending = <<>>
  BY DEF Silent
<1>2. CASE BridgeInitialize \/ BridgeShutdown
  BY <1>1, <1>2 DEF BridgeInitialize, BridgeShutdown, handleVars
<1>3. ASSUME NEW n \in ReadSize, ReadAudio(n)
      PROVE  /\ ~feed' /\ ~bridge' /\ heard' = Silence
             /\ queued' = 0 /\ pending' = <<>>
  <2> DEFINE taken == Lesser(n, queued)
  <2>1. taken = 0
    BY <1>1, FeedConstants DEF Lesser
  <2>2. /\ queued' = queued - taken
        /\ Hear([i \in 1 .. taken |-> ring[(readOffset + i - 1) % Capacity]])
        /\ UNCHANGED <<feed, bridge, pending>>
    BY <1>3 DEF ReadAudio, handleVars
  <2>. HIDE DEF taken
  <2>3. heard' = heard
    BY <2>1, <2>2 DEF Hear
  <2>. QED BY <1>1, <2>1, <2>2, <2>3
<1>4. CASE CallStop \/ CallStart
  BY <1>1, <1>4 DEF CallStop, CallStart, ringVars
<1>5. CASE Join \/ StartFails \/ CreateThread
  <2>1. ~bridge'
    <3>1. CASE Join
      BY <3>1 DEF Join
    <3>2. CASE StartFails
      BY <3>2 DEF StartFails
    <3>3. CASE CreateThread
      <4>1. ~(feed /\ loaded)
        OBVIOUS
      <4>2. bridge' \in {FALSE, feed /\ loaded}
        BY <3>3 DEF CreateThread
      <4>. QED BY <4>1, <4>2
    <3>. QED BY <1>5, <3>1, <3>2, <3>3
  <2>2. UNCHANGED <<feed, queued, heard>>
    BY <1>5 DEF Join, StartFails, CreateThread, ringVars
  <2>3. pending' = <<>>
    BY <1>1, <1>5 DEF Join, StartFails, CreateThread
  <2>. QED BY <1>1, <2>1, <2>2, <2>3
<1>6. CASE StartDevice \/ StartDeviceFails
  BY <1>1, <1>6 DEF StartDevice, StartDeviceFails, ringVars
<1>7. CASE CoInitialize \/ SeeShutdown \/ WakeUp \/ NothingToTake \/ EndSend
  BY <1>1, <1>7 DEF CoInitialize, SeeShutdown, WakeUp, NothingToTake, EndSend,
     ringVars, handleVars
<1>8. CASE TakePacket
  BY <1>1, <1>8 DEF TakePacket, ringVars, handleVars
<1>9. ~SendMicPacket
  BY <1>1 DEF FeedInv, Handled, SendMicPacket
<1>10. ASSUME NEW n \in Burst, DeliverSound(n) \/ DeliverSilence(n)
       PROVE  /\ ~feed' /\ ~bridge' /\ heard' = Silence
              /\ queued' = 0 /\ pending' = <<>>
  BY <1>1, <1>10 DEF DeliverSound, DeliverSilence, Deliver, ringVars,
     handleVars
<1>11. CASE LoseDevice
  BY <1>1, <1>11 DEF LoseDevice, ringVars, handleVars
<1>. QED
  BY <1>2, <1>3, <1>4, <1>5, <1>6, <1>7, <1>8, <1>9, <1>10, <1>11
  DEF Next, Caller, CaptureThread

(* The invariant holds whatever rates and packets the devices have.        *)
LEMMA AlwaysSound == Spec => []FeedInv
<1>1. Init => FeedInv
  BY InitHolds
<1>2. FeedInv /\ [Next]_vars => FeedInv'
  BY HandledKept, RingKept DEF FeedInv
<1>. QED BY <1>1, <1>2, PTL DEF Spec

(* What the application believes of its capture and what the capture       *)
(* thread uses agree, through stops, restarts and starts that fail         *)
(* (WASAPI.cpp: StartCapture, StopCapture).                                *)
THEOREM CaptureIsMatched == Spec => []ThreadMatchesCapture
<1>1. FeedInv => ThreadMatchesCapture
  BY DEF FeedInv, Handled, Alive, Served, ThreadMatchesCapture,
         ThreadFindsItsHandles, CaptureIsServed
<1>. QED BY <1>1, AlwaysSound, PTL

(* Sound is heard in the order it was made, across overruns, underruns,    *)
(* resampling, restarts and the wrap of the ring (VirtuaCamMicBridge.cpp:  *)
(* WritePacketLocked, ReadAudio; WASAPI.cpp: PublishAudioToBridge); where  *)
(* the driver is built without the feed, none is.                          *)
THEOREM SoundIsInOrder == Spec => []SoundInOrder
<1>1. Init => InOrder /\ Silent
  BY InitInOrder DEF Init, Silent
<1>2. FeedInv /\ InOrder /\ Silent /\ [Next]_vars => InOrder' /\ Silent'
  BY OrderKept, SilentKept
<1>3. FeedInv /\ InOrder /\ Silent => SoundInOrder
  <2>. SUFFICES ASSUME FeedInv, InOrder, Silent
                PROVE  SoundInOrder
    OBVIOUS
  <2> DEFINE q == QueuedFrames
             three == <<<<heard>>, q, pending>>
  <2>1. /\ InLine(heard, q, pending, backlog, made) /\ q \in Seq(Frame)
        /\ pending \in Seq(Frame) /\ backlog \in Seq(Packets)
        /\ heard \in Frame
    BY DEF InOrder, InLine, FeedInv, FramesWait
  <2>2. UnderWay = three \o backlog
    BY DEF UnderWay
  <2>. HIDE DEF q
  <2>3. three \in Seq(Seq(Frame)) /\ Len(three) = 3 /\ Len(backlog) \in Nat
    BY <2>1
  <2>4. /\ DOMAIN UnderWay = 1 .. 3 + Len(backlog)
        /\ UnderWay[1] = <<heard>> /\ UnderWay[2] = q /\ UnderWay[3] = pending
        /\ \A k \in 4 .. 3 + Len(backlog) :
             k - 3 \in DOMAIN backlog /\ UnderWay[k] = backlog[k - 3]
    BY <2>1, <2>2, <2>3
  <2>5. Ordered(<<heard>>)
    BY DEF Ordered
  <2>6. ASSUME NEW k \in DOMAIN UnderWay
        PROVE  Ordered(UnderWay[k])
    <3>1. k \in {1, 2, 3} \/ k \in 4 .. 3 + Len(backlog)
      BY <2>3, <2>4
    <3>. QED BY <2>1, <2>4, <2>5, <3>1 DEF InLine, Line
  <2>7. ASSUME NEW k \in DOMAIN UnderWay, NEW l \in DOMAIN UnderWay, k < l
        PROVE  Before(UnderWay[k], UnderWay[l])
    <3>1. /\ k \in {1, 2, 3} \/ k \in 4 .. 3 + Len(backlog)
          /\ l \in {1, 2, 3} \/ l \in 4 .. 3 + Len(backlog)
      BY <2>3, <2>4
    <3>2. CASE l \in {1, 2, 3}
      <4>1. <<k, l>> \in {<<1, 2>>, <<1, 3>>, <<2, 3>>}
        BY <2>7, <3>1, <3>2
      <4>. QED BY <2>1, <2>4, <4>1 DEF InLine, Line
    <3>3. CASE k \in {1, 2, 3} /\ l \in 4 .. 3 + Len(backlog)
      BY <2>1, <2>4, <3>3 DEF InLine, Line
    <3>4. CASE k \in 4 .. 3 + Len(backlog) /\ l \in 4 .. 3 + Len(backlog)
      <4>1. k - 3 < l - 3
        BY <2>7, <2>3, <3>4
      <4>. QED BY <2>1, <2>4, <3>4, <4>1 DEF InLine
    <3>5. ~(k \in 4 .. 3 + Len(backlog) /\ l \in {1, 2, 3})
      BY <2>3, <2>7
    <3>. QED BY <3>1, <3>2, <3>3, <3>4, <3>5
  <2>8. ~feed => heard = Silence /\ QueuedFrames = <<>> /\ pending = <<>>
    BY EmptyQueue DEF Silent
  <2>. QED BY <2>6, <2>7, <2>8 DEF SoundInOrder
<1>. QED BY <1>1, <1>2, <1>3, AlwaysSound, PTL DEF Spec

(* The ring with its positions that wrap is a queue that drops its oldest  *)
(* frames (VirtuaCamMicBridge.cpp: WritePacketLocked, ReadAudio), whatever *)
(* its size, the packets' and the readers'.                                *)
THEOREM RingImplementsQueue == Spec => QueueImplemented
<1>1. Init => Queue!QueueInit
  BY InitHolds
<1>2. FeedInv /\ [Next]_vars => [Queue!QueueNext]_(Queue!queueVars)
  BY RingKept
<1>. QED
  BY <1>1, <1>2, AlwaysSound, PTL DEF Spec, QueueImplemented, Queue!QueueSpec

-----------------------------------------------------------------------------
(* The stream (MicStream).                                                 *)

-----------------------------------------------------------------------------
(* Arithmetic.                                                             *)

(* What a division leaves.                                                 *)
LEMMA Division ==
  ASSUME NEW n \in Nat, NEW d \in Nat \ {0}
  PROVE  /\ n \div d \in Nat /\ n % d \in 0 .. d - 1
         /\ n = d * (n \div d) + (n % d)
  BY Z3

(* A remainder is no more than what is divided.                            *)
LEMMA Remainder ==
  ASSUME NEW n \in Nat, NEW d \in Nat \ {0}
  PROVE  n % d \in Nat /\ n % d <= n /\ (n < d => n % d = n)
  BY Z3

(* Products of natural numbers.                                            *)
LEMMA Product ==
  ASSUME NEW a \in Nat, NEW b \in Nat
  PROVE  a * b \in Nat /\ 0 * b = 0
  BY Z3

(* A whole number of times d that is within n is at most the quotient.     *)
LEMMA WithinQuotient ==
  ASSUME NEW n \in Nat, NEW d \in Nat \ {0}, NEW q \in Int, d * q <= n
  PROVE  q <= n \div d
  BY Z3

(* Quotient and remainder are the only ones.                               *)
LEMMA OnlyRemainder ==
  ASSUME NEW n \in Nat, NEW d \in Nat \ {0}, NEW q \in Int,
         NEW r \in 0 .. d - 1,
         n = d * q + r
  PROVE  n % d = r
<1>1. /\ n \div d \in Nat /\ n % d \in 0 .. d - 1
      /\ n = d * (n \div d) + (n % d)
  BY Division
<1>2. d * (q - (n \div d)) = (n % d) - r
  BY <1>1
<1>3. DEFINE k == q - (n \div d)
<1>4. k \in Int /\ d * k < d /\ d * k > -d
  BY <1>1, <1>2
<1>5. k = 0
  <2>1. CASE k >= 1
    <3>1. d * k >= d
      BY <1>4, <2>1, Z3
    <3>. QED BY <3>1, <1>4
  <2>2. CASE k <= -1
    <3>1. d * k <= -d
      BY <1>4, <2>2, Z3
    <3>. QED BY <3>1, <1>4
  <2>. QED BY <2>1, <2>2, <1>4
<1>. QED BY <1>1, <1>2, <1>5

(* A remainder may be taken before adding.                                 *)
LEMMA RemainderOfSum ==
  ASSUME NEW a \in Nat, NEW c \in Nat, NEW d \in Nat \ {0}
  PROVE  ((a % d) + c) % d = (a + c) % d
<1>1. PICK q \in Nat, r \in 0 .. d - 1 : a = d * q + r /\ r = a % d
  BY Division
<1>2. r + c \in Nat
  OBVIOUS
<1>3. PICK p \in Nat, s \in 0 .. d - 1 : r + c = d * p + s /\ s = (r + c) % d
  BY <1>2, Division
<1>4. a + c = d * (q + p) + s
  <2>1. d * (q + p) = d * q + d * p
    BY Z3
  <2>2. a = d * q + r
    BY <1>1
  <2>3. r + c = d * p + s
    BY <1>3
  <2>. QED BY <2>1, <2>2, <2>3
<1>5. a + c \in Nat /\ q + p \in Int
  OBVIOUS
<1>6. (a + c) % d = s
  BY <1>4, <1>5, OnlyRemainder
<1>. QED BY <1>1, <1>3, <1>6

(* An update moves the same time from the clock to the bytes and to what   *)
(* is carried forward.                                                     *)
LEMMA SameTime ==
  ASSUME NEW M \in Nat, NEW H \in Nat, NEW R \in Nat, NEW l \in Nat,
         NEW b \in Nat, NEW e \in Nat, NEW a \in Nat, NEW ms \in Nat,
         NEW y \in Nat, NEW b2 \in Nat, NEW e2 \in Nat,
         H * ms + e2 = a + e,
         M * y + b2 = R * ms + b
  PROVE  M * H * (l + y) + H * b2 + R * e2 = M * H * l + H * b + R * (e + a)
<1>1. M * H * (l + y) = M * H * l + H * (M * y)
  BY Z3
<1>2. H * (M * y) + H * b2 = H * (R * ms) + H * b
  <2>1. H * (M * y) + H * b2 = H * (M * y + b2)
    BY Z3
  <2>2. H * (R * ms) + H * b = H * (R * ms + b)
    BY Z3
  <2>. QED BY <2>1, <2>2
<1>3. R * (e + a) = H * (R * ms) + R * e2
  <2>1. R * (H * ms + e2) = H * (R * ms) + R * e2
    BY Z3
  <2>2. e + a = H * ms + e2
    OBVIOUS
  <2>. QED BY <2>1, <2>2
<1>. QED BY <1>1, <1>2, <1>3

-----------------------------------------------------------------------------
(* The assumptions, one by one.                                            *)
LEMMA Constants ==
  /\ HnsPerMs \in Nat \ {0} /\ MsPerSecond \in Nat \ {0}
  /\ Rate \in Nat \ {0} /\ BlockAlign \in Nat \ {0}
  /\ MaxStreams \in Nat \ {0} /\ Ulong \in Nat \ {0}
  /\ MaxOwed \in Nat
  /\ \A r \in Request : r.size \in Nat /\ r.count \in Nat
  BY StreamConstants

(* What an update of the position does: ms milliseconds became y bytes.    *)
LEMMA PositionUpdated ==
  ASSUME StreamTypeOK, bufSize > 0, UpdatePosition
  PROVE  \E ms \in Nat, y \in Nat :
           /\ linear' = linear + y /\ dmaAge' = 0
           /\ writePos' = (writePos + y) % bufSize
           /\ elapsedCarry' \in 0 .. HnsPerMs - 1
           /\ byteCarry' \in 0 .. MsPerSecond - 1
           /\ wrapped' \in BOOLEAN
           /\ ~wrapped' =>
                /\ ~wrapped
                /\ HnsPerMs * ms + elapsedCarry' = dmaAge + elapsedCarry
                /\ MsPerSecond * y + byteCarry' = Rate * ms + byteCarry
<1>. DEFINE hns == dmaAge + elapsedCarry
            ms == (hns % Ulong) \div HnsPerMs
            product == Rate * ms + byteCarry
            y == (product % Ulong) \div MsPerSecond
<1>1. hns \in Nat
  BY Constants DEF StreamTypeOK, PositionTypes
<1>2. /\ hns % Ulong \in Nat /\ (hns < Ulong => hns % Ulong = hns)
  BY <1>1, Constants, Remainder
<1>3. /\ ms \in Nat /\ hns % HnsPerMs \in 0 .. HnsPerMs - 1
      /\ hns < Ulong => hns = HnsPerMs * ms + (hns % HnsPerMs)
  BY <1>1, <1>2, Constants, Division
<1>. HIDE DEF ms
<1>4. product \in Nat
  BY <1>3, Constants DEF StreamTypeOK, PositionTypes
<1>5. /\ product % Ulong \in Nat
      /\ product < Ulong => product % Ulong = product
  BY <1>4, Constants, Remainder
<1>. HIDE DEF product
<1>6. /\ y \in Nat /\ (product % Ulong) % MsPerSecond \in 0 .. MsPerSecond - 1
      /\ product % Ulong
           = MsPerSecond * y + ((product % Ulong) % MsPerSecond)
  BY <1>5, Constants, Division
<1>7. /\ elapsedCarry' = hns % HnsPerMs
      /\ byteCarry' = (product % Ulong) % MsPerSecond
      /\ linear' = linear + y /\ writePos' = (writePos + y) % bufSize
      /\ dmaAge' = 0
      /\ wrapped' = (wrapped \/ hns >= Ulong \/ product >= Ulong)
  BY DEF UpdatePosition, HnsLeft, ms, product
<1>. HIDE DEF y
<1>8. wrapped' \in BOOLEAN
  BY <1>7 DEF StreamTypeOK, FlagTypes
<1>9. ASSUME ~wrapped'
      PROVE  ~wrapped /\ hns < Ulong /\ product < Ulong
  <2>1. ~wrapped /\ ~(hns >= Ulong) /\ ~(product >= Ulong)
    BY <1>7, <1>9
  <2>. QED BY <1>1, <1>4, <2>1, Constants
<1>10. ASSUME ~wrapped'
       PROVE  /\ HnsPerMs * ms + elapsedCarry' = dmaAge + elapsedCarry
              /\ MsPerSecond * y + byteCarry' = Rate * ms + byteCarry
  <2>1. HnsPerMs * ms + elapsedCarry' = hns
    BY <1>3, <1>7, <1>9, <1>10
  <2>2. MsPerSecond * y + byteCarry' = product
    BY <1>5, <1>6, <1>7, <1>9, <1>10
  <2>. QED BY <2>1, <2>2 DEF product
<1>11. /\ elapsedCarry' \in 0 .. HnsPerMs - 1
       /\ byteCarry' \in 0 .. MsPerSecond - 1
  BY <1>3, <1>6, <1>7
<1>. HIDE DEF hns
<1>12. ~wrapped' => /\ ~wrapped
                    /\ HnsPerMs * ms + elapsedCarry' = dmaAge + elapsedCarry
                    /\ MsPerSecond * y + byteCarry' = Rate * ms + byteCarry
  BY <1>9, <1>10
<1>. QED BY <1>3, <1>6, <1>7, <1>8, <1>11, <1>12

-----------------------------------------------------------------------------
(* The invariant.                                                          *)

Pausing == {"pauseFlush", "pauseCarry", "pausePosition", "pauseDone"}

(* Where the stream is: a buffer and packets only outside STOP, the clock  *)
(* only in RUN and on the way there.                                       *)
Placed ==
  /\ slots = (IF unregister THEN 1 ELSE 0)
  /\ stream = "none" => ~unregister
  /\ stream # "open" =>
       ks = "STOP" /\ ctl = "idle" /\ bufSize = 0 /\ list = <<>>
  /\ bufSize = 0 => ks = "STOP"
  /\ mapped <=> bufSize > 0
  /\ ctl = "run" => ks = "PAUSE"
  /\ ctl \in Pausing => ks = "RUN"
  /\ ks # "RUN" /\ ctl # "run" => dmaAge = 0 /\ dpcAge = 0
  /\ ks = "STOP" => packets = 0 /\ linear = 0 /\ writePos = 0

(* Where the timer is: set from the moment RUN arms it until PAUSE cancels *)
(* it, with a DPC queued or running until that has been flushed.           *)
TimerPlaced ==
  /\ timer = "set" =>
       interval > 0 /\ (ctl = "run" \/ (ks = "RUN" /\ ctl = "idle"))
  /\ due =>
       /\ interval > 0
       /\ ctl = "run" \/ (ks = "RUN" /\ ctl \in {"idle", "pauseFlush"})
  /\ dpc > 0 =>
       /\ dpc <= Len(list) /\ interval > 0
       /\ ks = "RUN" /\ ctl \in {"idle", "pauseFlush"}

(* Time is conserved, and what the clock shows has passed.                 *)
Positions == PositionsConserveTime /\ Rate * dmaAge <= ran

(* The time that counts for the next packet, and for the next bytes: the   *)
(* former has moved to the carry when the DPCs are flushed; what passes    *)
(* after the last position of a pause counts for neither.                  *)
Age == IF ctl \in {"pausePosition", "pauseDone"} THEN 0 ELSE dpcAge
PlayAge == IF ctl = "pauseDone" THEN 0 ELSE dmaAge

PacketHns == interval * HnsPerMs

(* The packets counted last no longer than the milliseconds ms that became *)
(* bytes, what is left of them and what the last stop owed; with the time  *)
(* that counts for the next packet, no longer than with what the clock     *)
(* shows.                                                                  *)
BackedBy(ms) ==
  /\ Rate * ms <= MsPerSecond * linear + byteCarry
  /\ packets * PacketHns <= ms * HnsPerMs + elapsedCarry + owed
  /\ packets * PacketHns + dpcCarry + Age
       <= ms * HnsPerMs + elapsedCarry + PlayAge + owed
Backed == ~wrapped => \E ms \in Nat : BackedBy(ms)

(* What was read, and what is being read, has been counted.                *)
Reads ==
  /\ lastRead < packets
  /\ snap # NoPacket => lastRead < snap - 1 /\ snap <= packets

Inv == StreamTypeOK /\ Placed /\ TimerPlaced /\ Positions /\ Backed /\ Reads

-----------------------------------------------------------------------------
(* At first everything is empty; so it is again when a stream is           *)
(* destroyed.                                                              *)
LEMMA InitInv == ASSUME StreamInit PROVE Inv
<1>1. StreamTypes /\ BufferTypes
  BY Constants DEF StreamInit, InitialStream, StreamTypes, BufferTypes, KsState
<1>2. PositionTypes /\ TimerTypes
  BY Constants DEF StreamInit, InitialStream, PositionTypes, TimerTypes
<1>3. FlagTypes
  BY DEF StreamInit, InitialStream, FlagTypes
<1>4. Placed /\ TimerPlaced /\ Reads
  BY DEF StreamInit, InitialStream, Placed, TimerPlaced, Reads, Pausing, NoPacket
<1>5. Positions
  BY Constants DEF StreamInit, InitialStream, Positions, PositionsConserveTime
<1>6. BackedBy(0)
  BY Constants DEF StreamInit, InitialStream, BackedBy, PacketHns, Age, PlayAge
<1>. QED BY <1>1, <1>2, <1>3, <1>4, <1>5, <1>6 DEF Inv, StreamTypeOK, Backed

LEMMA DestroyStreamInv == ASSUME Inv, DestroyStream PROVE Inv'
<1>1. StreamTypes' /\ BufferTypes'
  BY Constants
     DEF Inv, StreamTypeOK, StreamTypes, BufferTypes, Placed, DestroyStream,
         SlotsAfterClose, KsState
<1>2. PositionTypes' /\ TimerTypes'
  BY Constants DEF DestroyStream, PositionTypes, TimerTypes
<1>3. FlagTypes'
  BY DEF DestroyStream, FlagTypes
<1>4. Placed' /\ TimerPlaced' /\ Reads'
  BY DEF Inv, DestroyStream, SlotsAfterClose, Placed, TimerPlaced, Reads,
         Pausing, NoPacket
<1>5. Positions'
  BY Constants DEF DestroyStream, Positions, PositionsConserveTime
<1>6. BackedBy(0)'
  BY Constants, <1>1
     DEF DestroyStream, BackedBy, PacketHns, Age, PlayAge, BufferTypes
<1>. QED BY <1>1, <1>2, <1>3, <1>4, <1>5, <1>6 DEF Inv, StreamTypeOK, Backed

-----------------------------------------------------------------------------
(* Steps of which the positions see nothing.                               *)

LEMMA Unmoved ==
  ASSUME Inv, UNCHANGED <<positionVars, packetVars, bufSize, interval>>,
         UNCHANGED historyVars, Age' \in {Age, 0}, PlayAge' = PlayAge
  PROVE  PositionTypes' /\ Positions' /\ Backed'
<1>. USE DEF positionVars, packetVars, historyVars
<1>1. PositionTypes'
  BY DEF Inv, StreamTypeOK, PositionTypes
<1>2. Positions'
  BY DEF Inv, Positions, PositionsConserveTime
<1>3. ASSUME NEW ms \in Nat, BackedBy(ms)
      PROVE  BackedBy(ms)'
  <2>1. Age \in Nat /\ PlayAge \in Nat
    BY DEF Inv, StreamTypeOK, PositionTypes, TimerTypes, Age, PlayAge
  <2>2. PacketHns' = PacketHns /\ packets * PacketHns \in Nat
    BY Constants DEF PacketHns, Inv, StreamTypeOK, BufferTypes, PositionTypes
  <2>. HIDE DEF PacketHns, Age, PlayAge
  <2>. QED
    BY <1>3, <2>1, <2>2, Constants
       DEF BackedBy, Inv, StreamTypeOK, PositionTypes, TimerTypes
<1>4. Backed'
  BY <1>3 DEF Inv, Backed
<1>. QED BY <1>1, <1>2, <1>4

(* The positions and the packets stay as they are, and so does what is     *)
(* left when a thread only moves on from where its place matters.          *)
LEMMA StreamsInv ==
  ASSUME Inv, NewStream \/ NewStreamFails \/ CloseStream
  PROVE  Inv'
<1>. USE DEF NewStream, NewStreamFails, CloseStream, Quiet, openVars,
             bufferVars, positionVars, packetVars, timerVars, historyVars
<1>1. Age' = Age /\ PlayAge' = PlayAge
  BY DEF Age, PlayAge
<1>2. PositionTypes' /\ Positions' /\ Backed'
  BY <1>1, Unmoved
<1>3. StreamTypes'
  BY Constants DEF Inv, StreamTypeOK, StreamTypes, Placed
<1>7. BufferTypes' /\ TimerTypes'
  BY DEF Inv, StreamTypeOK, BufferTypes, TimerTypes
<1>4. FlagTypes'
  BY DEF Inv, StreamTypeOK, FlagTypes
<1>5. Placed' /\ TimerPlaced' /\ Reads'
  BY Constants
     DEF Inv, StreamTypeOK, StreamTypes, FlagTypes, Placed, TimerPlaced, Reads,
         Pausing
<1>. QED BY <1>2, <1>3, <1>4, <1>5, <1>7 DEF Inv, StreamTypeOK

LEMMA EventsInv ==
  ASSUME Inv, NEW e \in Event,
         RegisterNotificationEvent(e) \/ UnregisterNotificationEvent(e)
  PROVE  Inv'
<1>. USE DEF RegisterNotificationEvent, UnregisterNotificationEvent, Quiet,
             openVars, bufferVars, positionVars, packetVars, timerVars,
             historyVars
<1>1. Age' = Age /\ PlayAge' = PlayAge
  BY DEF Age, PlayAge
<1>2. PositionTypes' /\ Positions' /\ Backed'
  BY <1>1, Unmoved
<1>3. StreamTypes' /\ TimerTypes'
  BY DEF Inv, StreamTypeOK, StreamTypes, TimerTypes
<1>4. BufferTypes'
  <2>1. list \in Seq(Event)
    BY DEF Inv, StreamTypeOK, BufferTypes
  <2>2. list' \in Seq(Event)
    <3>1. CASE list' = Append(list, e)
      BY <2>1, <3>1
    <3>2. ASSUME NEW i \in DOMAIN list,
                 list' = SubSeq(list, 1, i - 1)
                           \o SubSeq(list, i + 1, Len(list))
          PROVE  list' \in Seq(Event)
      BY <2>1, <3>2
    <3>. QED BY <3>1, <3>2
  <2>. QED BY <2>2 DEF Inv, StreamTypeOK, BufferTypes
<1>5. FlagTypes'
  BY DEF Inv, StreamTypeOK, FlagTypes
<1>6. ~(dpc > 0) /\ stream = "open"
  BY DEF Inv, TimerPlaced, Placed, Pausing
<1>7. Placed' /\ TimerPlaced' /\ Reads'
  BY <1>6 DEF Inv, Placed, TimerPlaced, Reads, Pausing
<1>. QED BY <1>2, <1>3, <1>4, <1>5, <1>7 DEF Inv, StreamTypeOK

(* A packet is read when it was counted, and no earlier one was read.      *)
LEMMA ReadPacketInv ==
  ASSUME Inv, GetReadPacket \/ ReturnReadPacket
  PROVE  Inv'
<1>. USE DEF GetReadPacket, ReturnReadPacket, Quiet, openVars, bufferVars,
             positionVars, packetVars, timerVars, historyVars
<1>1. Age' = Age /\ PlayAge' = PlayAge
  BY DEF Age, PlayAge
<1>2. PositionTypes' /\ Positions' /\ Backed'
  BY <1>1, Unmoved
<1>3. StreamTypes' /\ Reads'
  BY DEF Inv, StreamTypeOK, StreamTypes, PositionTypes, Reads, NoPacket
<1>4. BufferTypes' /\ TimerTypes'
  BY DEF Inv, StreamTypeOK, BufferTypes, TimerTypes
<1>5. FlagTypes'
  BY DEF Inv, StreamTypeOK, FlagTypes
<1>6. Placed' /\ TimerPlaced'
  BY DEF Inv, Placed, TimerPlaced, Pausing
<1>. QED BY <1>2, <1>3, <1>4, <1>5, <1>6 DEF Inv, StreamTypeOK

(* SetState, but for the steps that touch clock or positions: the DPC is   *)
(* flushed before the pause goes on.                                       *)
LEMMA StatesInv ==
  ASSUME Inv,
         SetAcquire \/ SetPause \/ EndRun \/ PauseCancel \/ PauseFlush
  PROVE  Inv'
<1>. USE DEF SetAcquire, SetPause, EndRun, PauseCancel, PauseFlush, Quiet,
             Goto, DpcsFlushed, openVars, bufferVars, positionVars,
             packetVars, timerVars, historyVars
<1>1. Age' \in {Age, 0} /\ PlayAge' = PlayAge
  BY DEF Age, PlayAge, Inv, Placed, Pausing
<1>2. PositionTypes' /\ Positions' /\ Backed'
  BY <1>1, Unmoved
<1>3. StreamTypes' /\ BufferTypes' /\ TimerTypes'
  BY DEF Inv, StreamTypeOK, StreamTypes, BufferTypes, TimerTypes, KsState
<1>4. FlagTypes'
  BY DEF Inv, StreamTypeOK, FlagTypes
<1>5. Placed' /\ Reads'
  BY DEF Inv, StreamTypeOK, StreamTypes, BufferTypes, Placed, Reads, Pausing
<1>6. TimerPlaced'
  BY DEF Inv, StreamTypeOK, TimerTypes, BufferTypes, TimerPlaced, Placed, Pausing
<1>. QED BY <1>2, <1>3, <1>4, <1>5, <1>6 DEF Inv, StreamTypeOK

(* A DPC that ends no packet, and one that signals an event.               *)
LEMMA SignalInv ==
  ASSUME Inv, DpcEarly \/ DpcSignal
  PROVE  Inv'
<1>. USE DEF DpcEarly, DpcSignal, openVars, bufferVars, positionVars,
             packetVars, timerVars, historyVars
<1>1. Age' = Age /\ PlayAge' = PlayAge
  BY DEF Age, PlayAge
<1>2. PositionTypes' /\ Positions' /\ Backed'
  BY <1>1, Unmoved
<1>3. StreamTypes' /\ BufferTypes'
  BY DEF Inv, StreamTypeOK, StreamTypes, BufferTypes
<1>7. TimerTypes'
  BY DEF Inv, StreamTypeOK, BufferTypes, TimerTypes
<1>4. FlagTypes'
  BY DEF Inv, StreamTypeOK, FlagTypes
<1>5. Placed' /\ Reads'
  BY DEF Inv, Placed, Reads, Pausing
<1>6. TimerPlaced'
  BY DEF Inv, StreamTypeOK, TimerTypes, BufferTypes, TimerPlaced
<1>. QED BY <1>2, <1>3, <1>4, <1>5, <1>6, <1>7 DEF Inv, StreamTypeOK

-----------------------------------------------------------------------------
(* Buffers come and go while nothing has been played.                      *)

LEMMA AllocateBufferInv ==
  ASSUME Inv, NEW r \in Request, AllocateBuffer(r)
  PROVE  Inv'
<1>. DEFINE size == Aligned(r.size)
<1>1. /\ stream = "open" /\ ctl = "idle" /\ ks = "STOP" /\ snap = NoPacket
      /\ packets = 0 /\ linear = 0 /\ writePos = 0
      /\ mapped' = TRUE /\ bufSize' = size /\ notifs' = r.count
      /\ UNCHANGED <<openVars, ks, positionVars, packetVars, list, lastRead,
                     ctl, snap, timerVars, dpc, historyVars>>
      /\ interval' \in {interval, IntervalOf(size, r.count)}
      /\ r.count = 0 => interval' = interval
      /\ r.size >= BlockAlign
  BY DEF AllocateBuffer, Quiet, Inv, Placed
<1>2. size \in Nat /\ size > 0
  <2>1. /\ r.size % BlockAlign \in 0 .. BlockAlign - 1
        /\ r.size \in Nat
    BY Constants, Division
  <2>. QED BY <1>1, <2>1, Constants DEF Aligned
<1>3. interval' \in Nat
  <2>1. interval \in Nat /\ r.count \in Nat
    BY Constants DEF Inv, StreamTypeOK, BufferTypes
  <2>2. ASSUME r.count # 0
        PROVE  IntervalOf(size, r.count) \in Nat
    <3>. HIDE DEF size
    <3>1. size * MsPerSecond \in Nat
      BY <1>2, Constants
    <3>2. (size * MsPerSecond) % Ulong \in Nat
      BY <3>1, Constants, Remainder
    <3>3. ((size * MsPerSecond) % Ulong) \div Rate \in Nat
      BY <3>2, Constants, Division
    <3>. QED BY <3>3, <2>1, <2>2, Division DEF IntervalOf
  <2>. QED BY <1>1, <2>1, <2>2
<1>. HIDE DEF size
<1>. USE DEF openVars, positionVars, packetVars, timerVars, historyVars
<1>4. StreamTypes' /\ PositionTypes' /\ TimerTypes'
  BY <1>1, <1>2
     DEF Inv, StreamTypeOK, StreamTypes, PositionTypes, TimerTypes
<1>5. BufferTypes'
  BY <1>1, <1>2, <1>3, Constants DEF Inv, StreamTypeOK, BufferTypes
<1>6. FlagTypes'
  BY <1>1 DEF Inv, StreamTypeOK, FlagTypes
<1>7. Placed'
  BY <1>1, <1>2 DEF Inv, Placed, Pausing
<1>8. ~due /\ dpc = 0 /\ timer # "set"
  BY <1>1 DEF Inv, StreamTypeOK, TimerPlaced, TimerTypes
<1>9. TimerPlaced' /\ Reads'
  BY <1>1, <1>8 DEF Inv, TimerPlaced, Reads
<1>10. Positions'
  <2>1. 0 = 0 % size
    BY <1>2, Remainder
  <2>. QED
    BY <1>1, <2>1 DEF Inv, Positions, PositionsConserveTime
<1>11. Backed'
  <2>1. ASSUME NEW ms \in Nat, BackedBy(ms)
        PROVE  BackedBy(ms)'
    <3>1. packets * PacketHns = 0 /\ packets' * PacketHns' = 0
      <4>1. interval \in Nat /\ interval' \in Nat /\ HnsPerMs \in Nat
        BY <1>3, Constants DEF Inv, StreamTypeOK, BufferTypes
      <4>2. PacketHns \in Nat /\ PacketHns' \in Nat
        BY <4>1, Product DEF PacketHns
      <4>. QED BY <1>1, <4>2, Product
    <3>2. Age' = Age /\ PlayAge' = PlayAge
      BY <1>1 DEF Age, PlayAge
    <3>. QED BY <1>1, <2>1, <3>1, <3>2 DEF BackedBy
  <2>. QED BY <1>1, <2>1 DEF Inv, Backed
<1>. QED BY <1>4, <1>5, <1>6, <1>7, <1>9, <1>10, <1>11 DEF Inv, StreamTypeOK

LEMMA FreeBufferInv == ASSUME Inv, FreeBuffer PROVE Inv'
<1>1. /\ stream = "open" /\ ctl = "idle" /\ ks = "STOP"
      /\ mapped' = FALSE /\ bufSize' = 0 /\ notifs' = 0
      /\ UNCHANGED <<openVars, ks, interval, positionVars, packetVars, list,
                     lastRead, ctl, snap, timerVars, dpc, historyVars>>
  BY DEF FreeBuffer, Quiet
<1>. USE DEF openVars, positionVars, packetVars, timerVars, historyVars
<1>2. StreamTypes' /\ PositionTypes' /\ TimerTypes'
  BY <1>1 DEF Inv, StreamTypeOK, StreamTypes, PositionTypes, TimerTypes
<1>3. BufferTypes'
  BY <1>1 DEF Inv, StreamTypeOK, BufferTypes
<1>4. FlagTypes'
  BY <1>1 DEF Inv, StreamTypeOK, FlagTypes
<1>5. Placed' /\ TimerPlaced' /\ Reads'
  BY <1>1 DEF Inv, Placed, TimerPlaced, Reads, Pausing
<1>6. Positions'
  BY <1>1 DEF Inv, Positions, PositionsConserveTime
<1>7. Backed'
  BY <1>1 DEF Inv, Backed, BackedBy, PacketHns, Age, PlayAge
<1>. QED BY <1>2, <1>3, <1>4, <1>5, <1>6, <1>7 DEF Inv, StreamTypeOK

-----------------------------------------------------------------------------
(* The steps of SetState at which clocks begin and end.                    *)

(* STOP: what is carried forward is all the time there is.                 *)
LEMMA SetStopInv == ASSUME Inv, SetStop PROVE Inv'
<1>1. /\ stream = "open" /\ ctl = "idle" /\ ks = "ACQUIRE" /\ snap = NoPacket
      /\ dmaAge = 0 /\ dpcAge = 0
      /\ ks' = "STOP" /\ packets' = 0 /\ linear' = 0 /\ writePos' = 0
      /\ lastRead' = NoPacket /\ wrapped' = FALSE
      /\ ran' = HnsPerMs * byteCarry + Rate * elapsedCarry
      /\ owed' = dpcCarry
      /\ UNCHANGED <<openVars, bufferVars, elapsedCarry, byteCarry, dmaAge,
                     dpcCarry, dpcAge, list, ctl, snap, timerVars, dpc>>
  BY DEF SetStop, Quiet, LastReadAfterStop, Inv, Placed
<1>. USE DEF openVars, bufferVars, timerVars
<1>2. StreamTypes'
  BY <1>1 DEF Inv, StreamTypeOK, StreamTypes, KsState
<1>3. PositionTypes'
  <2>1. ran' \in Nat
    BY <1>1, Constants DEF Inv, StreamTypeOK, PositionTypes
  <2>. QED
    BY <1>1, <2>1 DEF Inv, StreamTypeOK, PositionTypes, TimerTypes, BufferTypes
<1>4. BufferTypes' /\ TimerTypes'
  BY <1>1 DEF Inv, StreamTypeOK, BufferTypes, TimerTypes
<1>5. FlagTypes'
  BY <1>1 DEF Inv, StreamTypeOK, FlagTypes
<1>6. Placed' /\ TimerPlaced' /\ Reads'
  BY <1>1 DEF Inv, Placed, TimerPlaced, Reads, Pausing, NoPacket
<1>7. Positions'
  <2>1. ran' \in Nat
    BY <1>3 DEF PositionTypes
  <2>2. bufSize > 0 => 0 = 0 % bufSize
    BY Remainder DEF Inv, StreamTypeOK, BufferTypes
  <2>3. /\ MsPerSecond * HnsPerMs * 0 = 0 /\ Rate * 0 = 0
        /\ Rate * (elapsedCarry + 0) = Rate * elapsedCarry
    BY Constants DEF Inv, StreamTypeOK, PositionTypes
  <2>. QED
    BY <1>1, <2>1, <2>2, <2>3, Constants
       DEF Inv, StreamTypeOK, PositionTypes, Positions, PositionsConserveTime
<1>8. Backed'
  <2>1. 0 * PacketHns' = 0 /\ Rate * 0 = 0 /\ MsPerSecond * 0 = 0
        /\ 0 * HnsPerMs = 0
    <3>1. interval' \in Nat /\ HnsPerMs \in Nat
      BY <1>4, Constants DEF BufferTypes
    <3>2. PacketHns' \in Nat
      BY <3>1, Product DEF PacketHns
    <3>3. 0 * PacketHns' = 0
      BY <3>2, Product
    <3>. QED BY <3>3, Constants
  <2>2. Age' = 0 /\ PlayAge' = 0
    BY <1>1 DEF Age, PlayAge
  <2>3. BackedBy(0)'
    BY <1>1, <2>1, <2>2, Constants
       DEF BackedBy, Inv, StreamTypeOK, PositionTypes, TimerTypes
  <2>. QED BY <2>3 DEF Backed
<1>. QED BY <1>2, <1>3, <1>4, <1>5, <1>6, <1>7, <1>8 DEF Inv, StreamTypeOK

(* RUN: the clocks begin at zero, as they were.                            *)
LEMMA BeginRunInv == ASSUME Inv, BeginRun PROVE Inv'
<1>1. /\ stream = "open" /\ ctl = "idle" /\ ks = "PAUSE" /\ snap = NoPacket
      /\ dmaAge = 0 /\ dpcAge = 0 /\ dmaAge' = 0 /\ dpcAge' = 0
      /\ ctl' = "run"
      /\ UNCHANGED <<openVars, ks, bufferVars, linear, writePos, elapsedCarry,
                     byteCarry, wrapped, packets, dpcCarry, list, lastRead,
                     snap, dpc, historyVars>>
      /\ \/ interval > 0 /\ timer' = "set" /\ phase' = 0 /\ UNCHANGED due
         \/ ~(interval > 0) /\ UNCHANGED timerVars
  BY DEF BeginRun, Quiet, Goto, Inv, Placed
<1>. USE DEF openVars, bufferVars, timerVars, historyVars
<1>2. PositionTypes' /\ Positions' /\ Backed'
  <2>1. Age' \in {Age, 0} /\ PlayAge' = PlayAge
    BY <1>1 DEF Age, PlayAge
  <2>2. UNCHANGED <<positionVars, packetVars, bufSize, interval>>
    BY <1>1 DEF positionVars, packetVars
  <2>. QED BY <1>1, <2>1, <2>2, Unmoved
<1>3. StreamTypes' /\ BufferTypes'
  BY <1>1 DEF Inv, StreamTypeOK, StreamTypes, BufferTypes
<1>4. TimerTypes'
  BY <1>1, Constants DEF Inv, StreamTypeOK, TimerTypes
<1>5. FlagTypes'
  BY <1>1 DEF Inv, StreamTypeOK, FlagTypes
<1>6. Placed' /\ Reads'
  BY <1>1 DEF Inv, Placed, Reads, Pausing
<1>7. TimerPlaced'
  BY <1>1 DEF Inv, StreamTypeOK, TimerTypes, TimerPlaced
<1>. QED BY <1>2, <1>3, <1>4, <1>5, <1>6, <1>7 DEF Inv, StreamTypeOK

(* PAUSE: the time since the last packet is kept for the next run, ...     *)
LEMMA PauseCarryInv == ASSUME Inv, PauseCarry PROVE Inv'
<1>1. /\ ctl = "pauseCarry" /\ ctl' = "pausePosition" /\ ks = "RUN"
      /\ dpcCarry' = dpcAge + dpcCarry
      /\ UNCHANGED <<openVars, ks, bufferVars, positionVars, packets, dpcAge,
                     list, lastRead, snap, timerVars, dpc, historyVars>>
  BY DEF PauseCarry, Goto, Inv, Placed, Pausing
<1>. USE DEF openVars, bufferVars, positionVars, timerVars, historyVars
<1>2. StreamTypes' /\ BufferTypes' /\ PositionTypes'
  BY <1>1 DEF Inv, StreamTypeOK, StreamTypes, BufferTypes, PositionTypes
<1>3. TimerTypes'
  BY <1>1 DEF Inv, StreamTypeOK, TimerTypes
<1>4. FlagTypes'
  BY <1>1 DEF Inv, StreamTypeOK, FlagTypes
<1>5. Placed' /\ Reads'
  BY <1>1 DEF Inv, StreamTypeOK, StreamTypes, Placed, Reads, Pausing
<1>6. TimerPlaced'
  BY <1>1 DEF Inv, StreamTypeOK, TimerTypes, TimerPlaced
<1>7. Positions'
  BY <1>1 DEF Inv, Positions, PositionsConserveTime
<1>8. Backed'
  <2>1. ASSUME NEW ms \in Nat, BackedBy(ms)
        PROVE  BackedBy(ms)'
    <3>1. Age = dpcAge /\ Age' = 0 /\ PlayAge' = PlayAge
      BY <1>1 DEF Age, PlayAge
    <3>2. packets * PacketHns \in Nat
      BY Constants, Product
         DEF PacketHns, Inv, StreamTypeOK, BufferTypes, PositionTypes
    <3>3. packets' * PacketHns' = packets * PacketHns
      BY <1>1 DEF PacketHns
    <3>4. packets * PacketHns + dpcCarry + dpcAge
            = packets * PacketHns + (dpcAge + dpcCarry) + 0
      BY <3>2 DEF Inv, StreamTypeOK, TimerTypes
    <3>. QED BY <1>1, <2>1, <3>1, <3>3, <3>4 DEF BackedBy
  <2>. QED BY <1>1, <2>1 DEF Inv, Backed
<1>. QED BY <1>2, <1>3, <1>4, <1>5, <1>6, <1>7, <1>8 DEF Inv, StreamTypeOK

(* ... and what passes after the positions were settled is dropped.        *)
LEMMA PauseDoneInv == ASSUME Inv, PauseDone PROVE Inv'
<1>1. /\ ctl = "pauseDone" /\ ctl' = "idle" /\ ks = "RUN" /\ ks' = "PAUSE"
      /\ ran' = ran - Rate * dmaAge /\ dmaAge' = 0 /\ dpcAge' = 0
      /\ UNCHANGED <<openVars, bufferVars, linear, writePos, elapsedCarry,
                     byteCarry, wrapped, packets, dpcCarry, list, lastRead,
                     snap, timerVars, dpc, owed>>
  BY DEF PauseDone, Goto, Inv, Placed, Pausing
<1>. USE DEF openVars, bufferVars, timerVars
<1>2. ran' \in Nat
  <2>1. Rate * dmaAge \in Nat /\ ran \in Nat
    BY Constants, Product DEF Inv, StreamTypeOK, PositionTypes
  <2>2. Rate * dmaAge <= ran
    BY DEF Inv, Positions
  <2>. QED BY <1>1, <2>1, <2>2
<1>3. StreamTypes' /\ BufferTypes' /\ PositionTypes'
  BY <1>1, <1>2
     DEF Inv, StreamTypeOK, StreamTypes, BufferTypes, PositionTypes, KsState
<1>4. TimerTypes'
  BY <1>1 DEF Inv, StreamTypeOK, TimerTypes
<1>5. FlagTypes'
  BY <1>1 DEF Inv, StreamTypeOK, FlagTypes
<1>6. Placed' /\ Reads'
  BY <1>1 DEF Inv, Placed, Reads, Pausing
<1>7. TimerPlaced'
  BY <1>1 DEF Inv, StreamTypeOK, TimerTypes, TimerPlaced
<1>8. Positions'
  <2>1. /\ Rate * (elapsedCarry + dmaAge)
             = Rate * elapsedCarry + Rate * dmaAge
        /\ Rate * elapsedCarry \in Nat /\ Rate * dmaAge \in Nat
        /\ Rate * (elapsedCarry + 0) = Rate * elapsedCarry /\ Rate * 0 = 0
        /\ HnsPerMs * byteCarry \in Nat
        /\ MsPerSecond * HnsPerMs * linear \in Nat
    BY Constants DEF Inv, StreamTypeOK, PositionTypes
  <2>2. ran' >= Rate * dmaAge'
    BY <1>1, <1>2, <2>1
  <2>3. PositionsConserveTime'
    BY <1>1, <2>1 DEF Inv, StreamTypeOK, PositionTypes, Positions,
                      PositionsConserveTime
  <2>. QED BY <1>2, <2>1, <2>3, <1>1 DEF Positions
<1>9. Backed'
  <2>1. ASSUME NEW ms \in Nat, BackedBy(ms)
        PROVE  BackedBy(ms)'
    <3>1. Age = 0 /\ Age' = 0 /\ PlayAge' = 0 /\ PlayAge = 0
      BY <1>1 DEF Age, PlayAge
    <3>2. packets' * PacketHns' = packets * PacketHns
      BY <1>1 DEF PacketHns
    <3>. QED BY <1>1, <2>1, <3>1, <3>2 DEF BackedBy
  <2>. QED BY <1>1, <2>1 DEF Inv, Backed
<1>. QED BY <1>3, <1>4, <1>5, <1>6, <1>7, <1>8, <1>9 DEF Inv, StreamTypeOK

-----------------------------------------------------------------------------
(* The clock.                                                              *)
LEMMA TickInv == ASSUME Inv, Tick PROVE Inv'
<1>1. /\ ks = "RUN" \/ ctl = "run"
      /\ ran' = ran + Rate /\ dmaAge' = dmaAge + 1 /\ dpcAge' = dpcAge + 1
      /\ UNCHANGED <<openVars, ks, bufferVars, linear, writePos, elapsedCarry,
                     byteCarry, wrapped, packets, dpcCarry, list, lastRead,
                     ctl, snap, timer, dpc, owed>>
  BY DEF Tick, Running
<1>2. \/ timer = "set" /\ phase' = (phase + 1) % HnsPerMs
         /\ due' = (due \/ phase + 1 = HnsPerMs)
      \/ UNCHANGED <<phase, due>>
  BY DEF Tick
<1>. USE DEF openVars, bufferVars
<1>3. StreamTypes' /\ BufferTypes' /\ PositionTypes'
  BY <1>1, Constants
     DEF Inv, StreamTypeOK, StreamTypes, BufferTypes, PositionTypes
<1>4. TimerTypes'
  <2>1. phase + 1 \in Nat
    BY DEF Inv, StreamTypeOK, TimerTypes
  <2>2. (phase + 1) % HnsPerMs \in 0 .. HnsPerMs - 1
    BY <2>1, Constants, Division
  <2>. QED BY <1>1, <1>2, <2>2 DEF Inv, StreamTypeOK, TimerTypes
<1>5. FlagTypes'
  BY <1>1, <1>2 DEF Inv, StreamTypeOK, FlagTypes
<1>6. Placed' /\ Reads'
  BY <1>1 DEF Inv, Placed, Reads, Pausing
<1>7. TimerPlaced'
  BY <1>1, <1>2 DEF Inv, TimerPlaced
<1>8. Positions'
  <2>1. /\ Rate * (elapsedCarry + (dmaAge + 1))
             = Rate * (elapsedCarry + dmaAge) + Rate
        /\ Rate * (dmaAge + 1) = Rate * dmaAge + Rate
        /\ Rate * (elapsedCarry + dmaAge) \in Nat
        /\ Rate * dmaAge \in Nat
        /\ HnsPerMs * byteCarry \in Nat
        /\ MsPerSecond * HnsPerMs * linear \in Nat
    BY Constants DEF Inv, StreamTypeOK, PositionTypes
  <2>. QED
    BY <1>1, <2>1, Constants
       DEF Inv, StreamTypeOK, PositionTypes, Positions, PositionsConserveTime
<1>9. Backed'
  <2>1. ASSUME NEW ms \in Nat, BackedBy(ms)
        PROVE  BackedBy(ms)'
    <3>1. \/ Age' = Age /\ PlayAge' \in {PlayAge, PlayAge + 1}
          \/ Age' = Age + 1 /\ PlayAge' = PlayAge + 1
      BY <1>1 DEF Age, PlayAge
    <3>2. packets' * PacketHns' = packets * PacketHns
      BY <1>1 DEF PacketHns
    <3>3. Age \in Nat /\ PlayAge \in Nat
      BY DEF Age, PlayAge, Inv, StreamTypeOK, PositionTypes, TimerTypes
    <3>4. packets * PacketHns \in Nat /\ ms * HnsPerMs \in Nat
      BY Constants, Product
         DEF PacketHns, Inv, StreamTypeOK, BufferTypes, PositionTypes
    <3>. QED BY <1>1, <2>1, <3>1, <3>2, <3>3, <3>4
             DEF BackedBy, Inv, StreamTypeOK, PositionTypes, TimerTypes
  <2>. QED BY <1>1, <2>1 DEF Inv, Backed
<1>. QED BY <1>3, <1>4, <1>5, <1>6, <1>7, <1>8, <1>9 DEF Inv, StreamTypeOK

-----------------------------------------------------------------------------
(* Steps that bring the positions up to date.                              *)

(* No time is lost, and the offset follows the linear position.            *)
LEMMA UpdatedPositions ==
  ASSUME Inv, bufSize > 0, UpdatePosition, packets' \in Nat,
         UNCHANGED <<bufSize, historyVars>>
  PROVE  PositionTypes' /\ Positions' /\ wrapped' \in BOOLEAN
<1>. USE DEF historyVars
<1>1. PICK ms \in Nat, y \in Nat :
        /\ linear' = linear + y /\ dmaAge' = 0
        /\ writePos' = (writePos + y) % bufSize
        /\ elapsedCarry' \in 0 .. HnsPerMs - 1
        /\ byteCarry' \in 0 .. MsPerSecond - 1
        /\ wrapped' \in BOOLEAN
        /\ ~wrapped' =>
             /\ ~wrapped
             /\ HnsPerMs * ms + elapsedCarry' = dmaAge + elapsedCarry
             /\ MsPerSecond * y + byteCarry' = Rate * ms + byteCarry
  BY PositionUpdated DEF Inv
<1>2. /\ linear \in Nat /\ bufSize \in Nat \ {0} /\ writePos \in Nat
      /\ ran \in Nat /\ owed \in Nat
      /\ elapsedCarry \in Nat /\ byteCarry \in Nat /\ dmaAge \in Nat
  BY DEF Inv, StreamTypeOK, BufferTypes, PositionTypes
<1>3. PICK e \in Nat, b \in Nat : elapsedCarry' = e /\ byteCarry' = b
  BY <1>1, Constants
<1>4. writePos' = linear' % bufSize
  <2>1. writePos = linear % bufSize
    BY DEF Inv, Positions, PositionsConserveTime
  <2>2. ((linear % bufSize) + y) % bufSize = (linear + y) % bufSize
    <3>1. linear \in Nat /\ bufSize \in Nat \ {0}
      BY <1>2
    <3>. QED BY <3>1, RemainderOfSum, Zenon
  <2>3. writePos' = (writePos + y) % bufSize /\ linear' = linear + y
    BY <1>1
  <2>. QED BY <2>1, <2>2, <2>3
<1>5. writePos' \in 0 .. bufSize - 1
  <2>1. linear + y \in Nat
    BY <1>2
  <2>. QED BY <1>1, <1>2, <1>4, <2>1, Division
<1>6. PositionTypes'
  BY <1>1, <1>2, <1>5 DEF PositionTypes
<1>7. ASSUME ~wrapped'
      PROVE  MsPerSecond * HnsPerMs * linear' + HnsPerMs * byteCarry'
               + Rate * (elapsedCarry' + dmaAge') = ran
  <2>1. /\ HnsPerMs * ms + e = dmaAge + elapsedCarry
        /\ MsPerSecond * y + b = Rate * ms + byteCarry
    BY <1>1, <1>3, <1>7
  <2>2. MsPerSecond \in Nat /\ HnsPerMs \in Nat /\ Rate \in Nat
    BY Constants
  <2>3. MsPerSecond * HnsPerMs * (linear + y) + HnsPerMs * b + Rate * e
          = MsPerSecond * HnsPerMs * linear + HnsPerMs * byteCarry
              + Rate * (elapsedCarry + dmaAge)
    BY <2>1, <2>2, <1>2, SameTime
  <2>4. MsPerSecond * HnsPerMs * linear + HnsPerMs * byteCarry
          + Rate * (elapsedCarry + dmaAge) = ran
    BY <1>1, <1>7 DEF Inv, Positions, PositionsConserveTime
  <2>5. e + 0 = e
    OBVIOUS
  <2>. QED BY <1>1, <1>3, <2>3, <2>4, <2>5
<1>8. PositionsConserveTime'
  BY <1>4, <1>7 DEF PositionsConserveTime
<1>9. Rate * dmaAge' <= ran'
  BY <1>1, <1>2, Constants
<1>. QED BY <1>1, <1>6, <1>8, <1>9 DEF Positions

(* The milliseconds that became bytes go on by what the clock showed.      *)
LEMMA UpdatedBacking ==
  ASSUME Inv, bufSize > 0, UpdatePosition, ~wrapped'
  PROVE  \E m \in Nat, n \in Nat :
           /\ BackedBy(m)
           /\ Rate * n <= MsPerSecond * linear' + byteCarry'
           /\ n * HnsPerMs + elapsedCarry'
                = m * HnsPerMs + elapsedCarry + dmaAge
           /\ dmaAge' = 0 /\ elapsedCarry' \in Nat
<1>1. PICK ms \in Nat, y \in Nat :
        /\ linear' = linear + y /\ dmaAge' = 0
        /\ elapsedCarry' \in 0 .. HnsPerMs - 1
        /\ byteCarry' \in 0 .. MsPerSecond - 1
        /\ ~wrapped
        /\ HnsPerMs * ms + elapsedCarry' = dmaAge + elapsedCarry
        /\ MsPerSecond * y + byteCarry' = Rate * ms + byteCarry
  BY PositionUpdated DEF Inv
<1>2. PICK m \in Nat : BackedBy(m)
  BY <1>1 DEF Inv, Backed
<1>3. /\ linear \in Nat /\ byteCarry \in Nat /\ elapsedCarry \in Nat
      /\ dmaAge \in Nat /\ elapsedCarry' \in Nat /\ byteCarry' \in Nat
  BY <1>1, Constants DEF Inv, StreamTypeOK, PositionTypes
<1>4. Rate * (m + ms) <= MsPerSecond * linear' + byteCarry'
  <2>1. Rate * (m + ms) = Rate * m + Rate * ms
    BY Constants, Z3
  <2>2. MsPerSecond * (linear + y) = MsPerSecond * linear + MsPerSecond * y
    BY <1>3, Constants, Z3
  <2>3. Rate * m <= MsPerSecond * linear + byteCarry
    BY <1>2 DEF BackedBy
  <2>4. /\ Rate * m \in Nat /\ Rate * ms \in Nat
        /\ MsPerSecond * linear \in Nat /\ MsPerSecond * y \in Nat
    BY <1>3, Constants, Product
  <2>5. MsPerSecond * y + byteCarry' = Rate * ms + byteCarry
    BY <1>1
  <2>6. linear' = linear + y
    BY <1>1
  <2>. QED BY <2>1, <2>2, <2>3, <2>4, <2>5, <2>6, <1>3
<1>5. (m + ms) * HnsPerMs + elapsedCarry'
        = m * HnsPerMs + elapsedCarry + dmaAge
  <2>1. (m + ms) * HnsPerMs = m * HnsPerMs + HnsPerMs * ms
    BY Constants, Z3
  <2>2. HnsPerMs * ms + elapsedCarry' = dmaAge + elapsedCarry
    BY <1>1
  <2>3. m * HnsPerMs \in Nat /\ HnsPerMs * ms \in Nat
    BY Constants, Product
  <2>. QED BY <2>1, <2>2, <2>3, <1>3
<1>6. m + ms \in Nat
  OBVIOUS
<1>. QED BY <1>1, <1>2, <1>3, <1>4, <1>5, <1>6

(* A question for the position, and the one at a pause.                    *)
LEMMA AskedInv ==
  ASSUME Inv, GetPosition \/ PausePosition
  PROVE  Inv'
<1>1. /\ ks = "RUN" /\ UpdatePosition
      /\ UNCHANGED <<openVars, ks, bufferVars, packetVars, list, lastRead,
                     snap, timerVars, dpc, historyVars>>
      /\ \/ UNCHANGED ctl
         \/ ctl = "pausePosition" /\ ctl' = "pauseDone"
  BY DEF GetPosition, PausePosition, Goto, Inv, Placed, Pausing
<1>2. bufSize > 0 /\ bufSize \in Nat
  BY <1>1 DEF Inv, StreamTypeOK, BufferTypes, Placed
<1>. USE DEF openVars, bufferVars, packetVars, timerVars, historyVars
<1>3. PositionTypes' /\ Positions' /\ wrapped' \in BOOLEAN
  BY <1>1, <1>2, UpdatedPositions DEF Inv, StreamTypeOK, PositionTypes
<1>4. StreamTypes' /\ BufferTypes' /\ TimerTypes'
  BY <1>1 DEF Inv, StreamTypeOK, StreamTypes, BufferTypes, TimerTypes
<1>5. FlagTypes'
  BY <1>1, <1>3 DEF Inv, StreamTypeOK, FlagTypes
<1>6. Placed' /\ Reads'
  BY <1>1 DEF Inv, Placed, Reads, Pausing
<1>7. TimerPlaced'
  BY <1>1 DEF Inv, TimerPlaced
<1>8. Backed'
  <2>1. SUFFICES ASSUME ~wrapped'
                 PROVE  \E n \in Nat : BackedBy(n)'
    BY DEF Backed
  <2>2. PICK m \in Nat, n \in Nat :
           /\ BackedBy(m)
           /\ Rate * n <= MsPerSecond * linear' + byteCarry'
           /\ n * HnsPerMs + elapsedCarry'
                = m * HnsPerMs + elapsedCarry + dmaAge
           /\ dmaAge' = 0 /\ elapsedCarry' \in Nat
    BY <1>1, <1>2, <2>1, UpdatedBacking
  <2>3. /\ Age' = Age /\ PlayAge' = 0 /\ PlayAge <= dmaAge
        /\ Age \in Nat /\ PlayAge \in Nat /\ dmaAge \in Nat
    BY <1>1, <2>2 DEF Age, PlayAge, Inv, StreamTypeOK, PositionTypes, TimerTypes
  <2>4. packets' * PacketHns' = packets * PacketHns
    BY <1>1 DEF PacketHns
  <2>5. /\ packets * PacketHns \in Nat
        /\ m * HnsPerMs \in Nat /\ n * HnsPerMs \in Nat
    BY Constants, Product
       DEF PacketHns, Inv, StreamTypeOK, BufferTypes, PositionTypes
  <2>6. /\ packets * PacketHns <= m * HnsPerMs + elapsedCarry + owed
        /\ packets * PacketHns + dpcCarry + Age
             <= m * HnsPerMs + elapsedCarry + PlayAge + owed
    BY <2>2 DEF BackedBy
  <2>7. elapsedCarry \in Nat /\ owed \in Nat /\ dpcCarry \in Nat
    BY DEF Inv, StreamTypeOK, PositionTypes, TimerTypes
  <2>8. /\ packets * PacketHns <= n * HnsPerMs + elapsedCarry' + owed
        /\ packets * PacketHns + dpcCarry + Age
             <= n * HnsPerMs + elapsedCarry' + 0 + owed
    <3>1. n * HnsPerMs + elapsedCarry' = m * HnsPerMs + elapsedCarry + dmaAge
      BY <2>2
    <3>2. elapsedCarry' \in Nat
      BY <2>2
    <3>. QED BY <2>3, <2>5, <2>6, <2>7, <3>1, <3>2
  <2>. QED BY <1>1, <2>2, <2>3, <2>4, <2>8 DEF BackedBy
<1>. QED BY <1>3, <1>4, <1>5, <1>6, <1>7, <1>8 DEF Inv, StreamTypeOK

(* The end of a packet: the time that is counted for it has passed, and    *)
(* became bytes just now.                                                  *)
LEMMA DpcPacketInv == ASSUME Inv, DpcPacket PROVE Inv'
<1>1. /\ due /\ dpc = 0 /\ PacketElapsed /\ due' = FALSE
      /\ dpcCarry' = SinceLastPacket - interval * HnsPerMs /\ dpcAge' = 0
      /\ UpdatePosition /\ packets' = packets + 1
      /\ dpc' = (IF ks = "RUN" /\ list # <<>> THEN 1 ELSE 0)
      /\ UNCHANGED <<openVars, ks, bufferVars, list, lastRead, ctl, snap,
                     timer, phase, historyVars>>
  BY DEF DpcPacket, LockFree, CarryAfterPacket
<1>2. /\ interval > 0 /\ ks # "STOP" /\ bufSize > 0
      /\ ctl = "run" \/ (ks = "RUN" /\ ctl \in {"idle", "pauseFlush"})
  BY <1>1 DEF Inv, TimerPlaced, Placed, StreamTypeOK, BufferTypes
<1>. USE DEF openVars, bufferVars, historyVars
<1>3. /\ packets \in Nat /\ bufSize \in Nat /\ interval \in Nat
      /\ dpcAge \in Nat /\ dpcCarry \in Nat /\ owed \in Nat
      /\ dmaAge \in Nat /\ elapsedCarry \in Nat
  BY DEF Inv, StreamTypeOK, BufferTypes, PositionTypes, TimerTypes
<1>4. PositionTypes' /\ Positions' /\ wrapped' \in BOOLEAN
  <2>1. packets' \in Nat
    BY <1>1, <1>3
  <2>. QED BY <1>1, <1>2, <2>1, UpdatedPositions
<1>5. SinceLastPacket \in Nat /\ PacketHns \in Nat
  BY <1>3, Constants, Product DEF SinceLastPacket, PacketHns
<1>6. PacketHns <= SinceLastPacket
  <2>. DEFINE hns == SinceLastPacket % Ulong
  <2>1. hns \in Nat /\ hns <= SinceLastPacket
    BY <1>5, Constants, Remainder
  <2>2. interval <= hns \div HnsPerMs
    BY <1>1 DEF PacketElapsed
  <2>. HIDE DEF hns
  <2>3. /\ hns \div HnsPerMs \in Nat /\ hns % HnsPerMs \in 0 .. HnsPerMs - 1
        /\ hns = HnsPerMs * (hns \div HnsPerMs) + (hns % HnsPerMs)
    BY <2>1, Constants, Division
  <2>4. PICK q \in Nat : q = hns \div HnsPerMs /\ HnsPerMs * q <= hns
    BY <2>1, <2>3, Constants
  <2>5. interval * HnsPerMs <= HnsPerMs * q
    BY <1>3, <2>2, <2>4, Constants, Z3
  <2>. QED BY <1>3, <1>5, <2>1, <2>4, <2>5, Constants DEF PacketHns
<1>7. StreamTypes' /\ BufferTypes'
  BY <1>1 DEF Inv, StreamTypeOK, StreamTypes, BufferTypes
<1>8. TimerTypes'
  <2>1. dpcCarry' \in Nat
    BY <1>1, <1>5, <1>6 DEF PacketHns
  <2>. QED BY <1>1, <2>1 DEF Inv, StreamTypeOK, TimerTypes
<1>9. FlagTypes'
  BY <1>1, <1>4 DEF Inv, StreamTypeOK, FlagTypes
<1>10. dmaAge' = 0
  BY <1>1 DEF UpdatePosition
<1>11. Placed'
  BY <1>1, <1>2, <1>10 DEF Inv, Placed, Pausing
<1>12. Reads'
  BY <1>1, <1>3 DEF Inv, StreamTypeOK, StreamTypes, Reads, NoPacket
<1>13. TimerPlaced'
  <2>1. list # <<>> => Len(list) \in Nat /\ Len(list) > 0
    BY DEF Inv, StreamTypeOK, BufferTypes
  <2>. QED BY <1>1, <1>2, <2>1 DEF Inv, TimerPlaced, Placed
<1>14. Backed'
  <2>1. SUFFICES ASSUME ~wrapped'
                 PROVE  \E n \in Nat : BackedBy(n)'
    BY DEF Backed
  <2>2. PICK m \in Nat, n \in Nat :
           /\ BackedBy(m)
           /\ Rate * n <= MsPerSecond * linear' + byteCarry'
           /\ n * HnsPerMs + elapsedCarry'
                = m * HnsPerMs + elapsedCarry + dmaAge
           /\ dmaAge' = 0 /\ elapsedCarry' \in Nat
    BY <1>1, <1>2, <2>1, UpdatedBacking
  <2>3. PICK e \in Nat : elapsedCarry' = e
    BY <2>2
  <2>4. /\ Age = dpcAge /\ Age' = 0 /\ PlayAge' = 0 /\ PlayAge = dmaAge
    BY <1>1, <1>2, <1>10 DEF Age, PlayAge
  <2>5. packets' * PacketHns' = packets * PacketHns + PacketHns
    <3>1. PacketHns' = PacketHns
      BY <1>1 DEF PacketHns
    <3>2. (packets + 1) * PacketHns = packets * PacketHns + PacketHns
      BY <1>3, <1>5, Z3
    <3>. QED BY <1>1, <3>1, <3>2
  <2>6. /\ packets * PacketHns \in Nat
        /\ m * HnsPerMs \in Nat /\ n * HnsPerMs \in Nat
    BY <1>3, <1>5, Constants, Product
  <2>7. packets * PacketHns + dpcCarry + dpcAge
          <= m * HnsPerMs + elapsedCarry + dmaAge + owed
    BY <2>2, <2>4 DEF BackedBy
  <2>8. n * HnsPerMs + e = m * HnsPerMs + elapsedCarry + dmaAge
    BY <2>2, <2>3
  <2>9. /\ packets * PacketHns + PacketHns <= n * HnsPerMs + e + owed
        /\ packets * PacketHns + PacketHns + (SinceLastPacket - PacketHns) + 0
             <= n * HnsPerMs + e + 0 + owed
    <3>1. SinceLastPacket = dpcAge + dpcCarry
      BY DEF SinceLastPacket
    <3>. HIDE DEF PacketHns, SinceLastPacket
    <3>. QED BY <1>3, <1>5, <1>6, <2>6, <2>7, <2>8, <3>1
  <2>10. dpcCarry' = SinceLastPacket - PacketHns /\ owed' = owed
    BY <1>1 DEF PacketHns
  <2>. HIDE DEF PacketHns, SinceLastPacket, Age, PlayAge
  <2>. QED BY <2>2, <2>3, <2>4, <2>5, <2>9, <2>10 DEF BackedBy
<1>. QED BY <1>4, <1>7, <1>8, <1>9, <1>11, <1>12, <1>13, <1>14
         DEF Inv, StreamTypeOK

-----------------------------------------------------------------------------
(* Every step preserves the invariant.                                     *)
LEMMA NextInv == ASSUME Inv, [StreamNext]_streamVars PROVE Inv'
<1>1. CASE StreamNext
  BY <1>1, StreamsInv, DestroyStreamInv, AllocateBufferInv, FreeBufferInv,
     EventsInv, ReadPacketInv, StatesInv, SetStopInv, BeginRunInv,
     PauseCarryInv, PauseDoneInv, AskedInv, TickInv, SignalInv, DpcPacketInv
     DEF StreamNext, SetState, Timer
<1>2. CASE UNCHANGED streamVars
  <2>. USE DEF streamVars, openVars, bufferVars, positionVars, packetVars, timerVars,
               historyVars
  <2>1. Age' \in {Age, 0} /\ PlayAge' = PlayAge
    BY <1>2 DEF Age, PlayAge
  <2>2. PositionTypes' /\ Positions' /\ Backed'
    BY <1>2, <2>1, Unmoved
  <2>3. StreamTypes' /\ BufferTypes' /\ TimerTypes'
    BY <1>2 DEF Inv, StreamTypeOK, StreamTypes, BufferTypes, TimerTypes
  <2>4. FlagTypes'
    BY <1>2 DEF Inv, StreamTypeOK, FlagTypes
  <2>5. Placed' /\ TimerPlaced' /\ Reads'
    BY <1>2 DEF Inv, Placed, TimerPlaced, Reads, Pausing
  <2>. QED BY <2>2, <2>3, <2>4, <2>5 DEF Inv, StreamTypeOK
<1>. QED BY <1>1, <1>2

THEOREM StreamInv == StreamSpec => []Inv
<1>1. StreamInit => Inv
  BY InitInv
<1>2. Inv /\ [StreamNext]_streamVars => Inv'
  BY NextInv
<1>. QED BY <1>1, <1>2, PTL DEF StreamSpec

-----------------------------------------------------------------------------
(* What the runs check.                                                    *)

(* Every variable of the stream keeps its type.                            *)
THEOREM StreamTypesHold == StreamSpec => []StreamTypeOK
BY StreamInv, PTL DEF Inv

(* No time that the stream ran is lost or counted twice, whoever asks for  *)
(* the position and however often, across pauses (UpdatePosition,          *)
(* minwavertstream.cpp:1278).                                              *)
THEOREM TimeIsConserved == StreamSpec => []PositionsConserveTime
<1>1. Inv => PositionsConserveTime
  BY DEF Inv, Positions
<1>. QED BY <1>1, StreamInv, PTL

(* The timer's DPC finds the stream, its buffer and its entry in the list, *)
(* since SetState(PAUSE) flushes it before any of them can go              *)
(* (minwavertstream.cpp:1177).                                             *)
THEOREM DpcIsSafe == StreamSpec => []DpcFindsWhatItUses
<1>1. Inv => DpcFindsWhatItUses
  <2>1. ASSUME Inv, due \/ dpc > 0
        PROVE  ks # "STOP" /\ (dpc > 0 => dpc <= Len(list))
    BY <2>1 DEF Inv, TimerPlaced, Placed, Pausing
  <2>2. ASSUME Inv, ks # "STOP"
        PROVE  stream = "open" /\ mapped /\ bufSize > 0
    BY <2>2 DEF Inv, Placed, StreamTypeOK, BufferTypes
  <2>3. ASSUME Inv
        PROVE  dpc \in Nat /\ Len(list) \in Nat
    BY <2>3 DEF Inv, StreamTypeOK, BufferTypes, TimerTypes
  <2>. QED BY <2>1, <2>2, <2>3 DEF DpcFindsWhatItUses
<1>. QED BY <1>1, StreamInv, PTL

(* A packet that lasts its interval exactly has its bytes, but for what    *)
(* the last stop owed: what the milliseconds are short of is less than one *)
(* of them, and what the bytes are short of is less than one of those.     *)
LEMMA PacketsHaveBytes == ASSUME Inv PROVE PacketsBackedByBytes
<1>. SUFFICES ASSUME notifs > 0, ExactInterval, ~wrapped
              PROVE  packets * PacketBytes <= linear + OwedBytes
  BY DEF PacketsBackedByBytes
<1>1. PICK ms \in Nat : BackedBy(ms)
  BY DEF Inv, Backed
<1>. DEFINE owedMs == RoundedUp(owed, HnsPerMs)
<1>2. /\ packets \in Nat /\ interval \in Nat /\ linear \in Nat
      /\ owed \in Nat /\ elapsedCarry \in 0 .. HnsPerMs - 1
      /\ byteCarry \in 0 .. MsPerSecond - 1
      /\ bufSize \in Nat /\ notifs \in Nat \ {0}
  BY DEF Inv, StreamTypeOK, BufferTypes, PositionTypes
<1>3. packets * interval - ms <= owedMs
  <2>1. packets * (interval * HnsPerMs) <= ms * HnsPerMs + elapsedCarry + owed
    BY <1>1 DEF BackedBy, PacketHns
  <2>2. HnsPerMs * (packets * interval - ms)
          = packets * (interval * HnsPerMs) - ms * HnsPerMs
    BY <1>2, Constants, Z3
  <2>3. /\ packets * (interval * HnsPerMs) \in Int /\ ms * HnsPerMs \in Int
        /\ packets * interval - ms \in Int
    BY <1>2, Constants, Z3
  <2>4. owed + HnsPerMs - 1 \in Nat
    BY <1>2, Constants
  <2>5. HnsPerMs * (packets * interval - ms) <= owed + HnsPerMs - 1
    BY <1>2, <2>1, <2>2, <2>3, Constants
  <2>. QED BY <2>3, <2>4, <2>5, Constants, WithinQuotient DEF RoundedUp
<1>4. owedMs \in Nat
  <2>1. owed + HnsPerMs - 1 \in Nat
    BY <1>2, Constants
  <2>. QED BY <2>1, Constants, Division DEF RoundedUp
<1>. HIDE DEF owedMs
<1>5. PacketBytes \in Nat
  BY <1>2, Division DEF PacketBytes
<1>6. packets * PacketBytes - linear <= OwedBytes
  <2>1. Rate * interval = MsPerSecond * PacketBytes
    BY DEF ExactInterval
  <2>2. Rate * ms <= MsPerSecond * linear + byteCarry
    BY <1>1 DEF BackedBy
  <2>3. Rate * (packets * interval) <= Rate * (ms + owedMs)
    BY <1>2, <1>3, <1>4, Constants, Z3
  <2>4. Rate * (ms + owedMs) = Rate * ms + Rate * owedMs
    BY <1>4, Constants, Z3
  <2>5. Rate * (packets * interval) = packets * (Rate * interval)
    BY <1>2, Constants, Z3
  <2>6. MsPerSecond * (packets * PacketBytes - linear)
          = packets * (MsPerSecond * PacketBytes) - MsPerSecond * linear
    BY <1>2, <1>5, Constants, Z3
  <2>7. /\ Rate * ms \in Nat /\ Rate * owedMs \in Nat
        /\ MsPerSecond * linear \in Nat
        /\ packets * (MsPerSecond * PacketBytes) \in Nat
        /\ packets * PacketBytes - linear \in Int
    BY <1>2, <1>4, <1>5, Constants, Product
  <2>8. Rate * owedMs + MsPerSecond - 1 \in Nat
    BY <2>7, Constants
  <2>9. MsPerSecond * (packets * PacketBytes - linear)
          <= Rate * owedMs + MsPerSecond - 1
    BY <1>2, <2>1, <2>2, <2>3, <2>4, <2>5, <2>6, <2>7, Constants
  <2>. QED
    BY <2>7, <2>8, <2>9, Constants, WithinQuotient
       DEF OwedBytes, RoundedUp, owedMs
<1>7. packets * PacketBytes \in Nat /\ OwedBytes \in Int
  <2>1. Rate * owedMs + MsPerSecond - 1 \in Nat
    BY <1>4, Constants, Product
  <2>2. (Rate * owedMs + MsPerSecond - 1) \div MsPerSecond \in Nat
    BY <2>1, Constants, Division
  <2>. QED
    BY <1>2, <1>5, <2>2, Product DEF OwedBytes, RoundedUp, owedMs
<1>. QED BY <1>2, <1>6, <1>7

(* A client that reads packets gets each of them once, in order, and       *)
(* complete (GetReadPacket, minwavertstream.cpp:834; TimerNotifyRT).       *)
THEOREM PacketsArrive == StreamSpec => PacketsAreDelivered
<1>1. Inv => PacketsBackedByBytes
  BY PacketsHaveBytes
<1>2. Inv => [ReadPacketsAdvance]_streamVars
  BY DEF ReadPacketsAdvance, ReturnReadPacket, Inv, Reads, StreamTypeOK,
         StreamTypes, PositionTypes, NoPacket
<1>3. PacketsBackedByBytes' /\ [ReadPacketsAdvance]_streamVars
        => [PacketsBackedByBytes' /\ ReadPacketsAdvance]_streamVars
  OBVIOUS
<1>. QED
  BY <1>1, <1>2, <1>3, StreamInv, PTL DEF StreamSpec, PacketsAreDelivered

=============================================================================
