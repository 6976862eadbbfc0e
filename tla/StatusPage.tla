----------------------------- MODULE StatusPage -----------------------------
(***************************************************************************)
(* The status page that a producer shares with the broker (Tools.cpp): one *)
(* process publishes, others read, without a lock.  The sequence number is *)
(* odd while a status is written, and a reader that finds it odd, or       *)
(* changed after it has copied the page, tries again.                      *)
(*                                                                         *)
(* The fields of a status are written and copied one after another, in any *)
(* order; each holds the number of the publication it was written by.      *)
(* Interlocked operations and barriers keep the order of the steps.  The   *)
(* producer may die anywhere.  A page has one producer: a process that     *)
(* takes over the id of a dead one, and with it a page that is still       *)
(* mapped, is left out, and so are the header fields, which do not change. *)
(***************************************************************************)
EXTENDS Integers

CONSTANTS
  Fields,        \* producerFrameQpc, lastPublishedFenceValue, ...
  Readers,       \* threads that read: the multiplexer's and discovery's
  Attempts,      \* how often a reader tries
  Nothing,       \* what a reader has that was given no status
  MaxPublished   \* bound on the publications

ASSUME StatusPageConstants ==
  /\ Fields # {} /\ Attempts \in Nat /\ Nothing \notin Nat
  /\ MaxPublished \in Nat

VARIABLES
  publishSequence, page,   \* the page
  writer,                  \* where the producer is, and what it has written
  frameCount,              \* the mapping's: publications begun
  reader,                  \* where each reader is: see Reader
  given                    \* the snapshot each reader's last call returned

pageVars == <<publishSequence, page, writer, frameCount, reader, given>>

Writer == [at : {"idle", "write", "dead"}, written : SUBSET Fields]
Reader ==
  [at : {"idle", "begin", "copy"}, attempt : 0 .. Attempts,
   begin : Nat, copied : SUBSET Fields, snapshot : [Fields -> Nat]]

Odd(n) == n % 2 = 1

PageInit ==
  /\ publishSequence = 0 /\ page = [f \in Fields |-> 0]
  /\ writer = [at |-> "idle", written |-> {}]
  /\ frameCount = 0
  /\ reader = [r \in Readers |->
                [at |-> "idle", attempt |-> 0, begin |-> 0, copied |-> {},
                 snapshot |-> [f \in Fields |-> 0]]]
  /\ given = [r \in Readers |-> Nothing]

-----------------------------------------------------------------------------
(* PublishDirectPortStatus                                                 *)

(* The odd number that marks the page, also if an even one was skipped.    *)
MarkedFaulty(s) == s
Marked(s) == IF Odd(s) THEN s + 2 ELSE s + 1

BeginWrite ==
  /\ writer.at = "idle" /\ frameCount < MaxPublished
  /\ frameCount' = frameCount + 1
  /\ publishSequence' = Marked(publishSequence)
  /\ writer' = [at |-> "write", written |-> {}]
  /\ UNCHANGED <<page, reader, given>>

WriteField(f) ==
  /\ writer.at = "write" /\ f \notin writer.written
  /\ page' = [page EXCEPT ![f] = frameCount]
  /\ writer' = [writer EXCEPT !.written = @ \cup {f}]
  /\ UNCHANGED <<publishSequence, frameCount, reader, given>>

EndWrite ==
  /\ writer.at = "write" /\ writer.written = Fields
  /\ publishSequence' = publishSequence + 1
  /\ writer' = [at |-> "idle", written |-> {}]
  /\ UNCHANGED <<page, frameCount, reader, given>>

Die ==
  /\ writer.at # "dead"
  /\ writer' = [writer EXCEPT !.at = "dead"]
  /\ UNCHANGED <<publishSequence, page, frameCount, reader, given>>

-----------------------------------------------------------------------------
(* ReadDirectPortStatusStable                                              *)

Goes(r, new) == reader' = [reader EXCEPT ![r] = new]

Call(r) ==
  /\ reader[r].at = "idle"
  /\ Goes(r, [reader[r] EXCEPT !.at = "begin", !.attempt = 0])
  /\ UNCHANGED <<publishSequence, page, writer, frameCount, given>>

(* The next attempt, if there is one.                                      *)
GiveUp(r) ==
  /\ reader[r].at = "begin" /\ reader[r].attempt = Attempts
  /\ Goes(r, [reader[r] EXCEPT !.at = "idle"])
  /\ given' = [given EXCEPT ![r] = Nothing]
  /\ UNCHANGED <<publishSequence, page, writer, frameCount>>

BeginRead(r) ==
  /\ reader[r].at = "begin" /\ reader[r].attempt < Attempts
  /\ IF Odd(publishSequence)
     THEN Goes(r, [reader[r] EXCEPT !.attempt = reader[r].attempt + 1])
     ELSE Goes(r, [reader[r] EXCEPT !.at = "copy", !.copied = {},
                                    !.begin = publishSequence])
  /\ UNCHANGED <<publishSequence, page, writer, frameCount, given>>

CopyField(r, f) ==
  /\ reader[r].at = "copy" /\ f \notin reader[r].copied
  /\ Goes(r, [reader[r] EXCEPT !.copied = reader[r].copied \cup {f},
                                !.snapshot[f] = page[f]])
  /\ UNCHANGED <<publishSequence, page, writer, frameCount, given>>

(* endSequence is compared with beginSequence.  A call returns the whole   *)
(* snapshot; given has a field of it, any that the caller may look at.     *)
StableFaulty(r) == ~Odd(publishSequence)
Stable(r) == reader[r].begin = publishSequence /\ ~Odd(publishSequence)

EndRead(r) ==
  /\ reader[r].at = "copy" /\ reader[r].copied = Fields
  /\ IF Stable(r)
     THEN /\ \E f \in Fields :
               given' = [given EXCEPT ![r] = reader[r].snapshot[f]]
          /\ Goes(r, [reader[r] EXCEPT !.at = "idle"])
     ELSE /\ Goes(r, [reader[r] EXCEPT !.at = "begin",
                                       !.attempt = reader[r].attempt + 1])
          /\ UNCHANGED given
  /\ UNCHANGED <<publishSequence, page, writer, frameCount>>

-----------------------------------------------------------------------------
Publish == BeginWrite \/ (\E f \in Fields : WriteField(f)) \/ EndWrite \/ Die
Read(r) ==
  \/ Call(r) \/ GiveUp(r) \/ BeginRead(r)
  \/ (\E f \in Fields : CopyField(r, f)) \/ EndRead(r)
PageNext == Publish \/ \E r \in Readers : Read(r)

PageSpec == PageInit /\ [][PageNext]_pageVars

-----------------------------------------------------------------------------
(* Types.                                                                  *)
PageTypeOK ==
  /\ publishSequence \in Nat /\ frameCount \in 0 .. MaxPublished
  /\ page \in [Fields -> Nat]
  /\ writer \in Writer
  /\ reader \in [Readers -> Reader]
  /\ given \in [Readers -> Nat \cup {Nothing}]

(* The part of a page that may be read as it is: its number is even.       *)
PageWhole ==
  /\ writer.at = "idle" =>
       publishSequence = 2 * frameCount /\ \A f \in Fields : page[f] = frameCount
  /\ writer.at = "write" =>
       /\ frameCount > 0 /\ publishSequence = 2 * frameCount - 1
       /\ \A f \in writer.written : page[f] = frameCount
  /\ writer.at = "dead" =>
       \/ frameCount > 0 /\ publishSequence = 2 * frameCount - 1
       \/ /\ publishSequence = 2 * frameCount
          /\ \A f \in Fields : page[f] = frameCount

(* While the number is the one a reader has begun with, what it has copied *)
(* so far is of one publication.                                           *)
CopiesWhole ==
  \A r \in Readers : reader[r].at = "copy" =>
    /\ reader[r].attempt < Attempts
    /\ ~Odd(reader[r].begin) /\ reader[r].begin <= publishSequence
    /\ reader[r].begin = publishSequence =>
         \A f \in reader[r].copied : 2 * reader[r].snapshot[f] = publishSequence

(* The page is correct: types, whole pages have even numbers, and what was *)
(* copied under an unchanged number is of one publication.                 *)
PageCorrect == PageTypeOK /\ PageWhole /\ CopiesWhole

(* The page implements a status that is replaced as a whole and read at a  *)
(* moment of the call: however the copy and the writes interleave, and if  *)
(* the producer dies half way, no reader is given a torn or an old status. *)
Promise == INSTANCE PublishedStatus WITH status <- publishSequence \div 2
StatusImplemented == Promise!Spec
=============================================================================
