------------------------------ MODULE MicQueue ------------------------------
(***************************************************************************)
(* What the ring of the microphone bridge promises: a queue that holds the *)
(* newest samples and gives them out oldest first.                         *)
(***************************************************************************)
EXTENDS Integers, Sequences

CONSTANTS
  Room,     \* how many samples the queue holds
  Packet,   \* the packets that may be written
  Amount,   \* what a reader may ask for
  Silence

VARIABLES
  queue,   \* samples written and not yet read
  heard    \* the last sample read that was not silence

queueVars == <<queue, heard>>

QueueInit == queue = <<>> /\ heard = Silence

Newest(s, n) == SubSeq(s, Len(s) - n + 1, Len(s))

(* A packet is written whole; what no longer fits is lost from the front.  *)
Write(packet) ==
  LET all == queue \o packet
  IN  /\ queue' = (IF Len(all) <= Room THEN all ELSE Newest(all, Room))
      /\ UNCHANGED heard

(* What a reader has got: the last sample that is not silence is heard.    *)
Hear(samples) ==
  \/ /\ \A i \in DOMAIN samples : samples[i] = Silence
     /\ UNCHANGED heard
  \/ \E i \in DOMAIN samples :
       /\ samples[i] # Silence
       /\ \A j \in DOMAIN samples : j > i => samples[j] = Silence
       /\ heard' = samples[i]

(* The oldest samples are read; a reader that wants more gets silence.     *)
Read(n) ==
  LET taken == IF n <= Len(queue) THEN n ELSE Len(queue)
  IN  /\ queue' = SubSeq(queue, taken + 1, Len(queue))
      /\ Hear(SubSeq(queue, 1, taken))

Clear == queue' = <<>> /\ UNCHANGED heard

QueueNext ==
  \/ \E packet \in Packet : Write(packet)
  \/ \E n \in Amount : Read(n)
  \/ Clear

QueueSpec == QueueInit /\ [][QueueNext]_queueVars
=============================================================================
