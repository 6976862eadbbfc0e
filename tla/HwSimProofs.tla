---------------------------- MODULE HwSimProofs ----------------------------
(***************************************************************************)
(* Proofs about the frame exchange of HwSim: its type invariant, its       *)
(* safety invariants, and that it implements FrameMailbox.                 *)
(*                                                                         *)
(* The argument.  Whoever touches a buffer is counted, and so the buffers  *)
(* that somebody can touch are those of the object or those that a Stop,   *)
(* still spinning on the counters, has detached (Reachable).               *)
(* The admitted upload is alone, and its buffer is the staging one until   *)
(* it publishes (StagingOwned); reads pin only the temporary and default   *)
(* buffers (PinsShown), and the pointers swap only when no read is pinned. *)
(* So a buffer that is written is never one that is read.                  *)
(***************************************************************************)
EXTENDS HwSim, FiniteSetTheorems, TLAPS

(* An upload whose buffer is still the staging one.                        *)
Staged == {"admitted", "converting", "waiting", "committing"}

(* The object has its four buffers, or none.                               *)
HasBuffers == hardwareState # "Stopped" \/ ctl = "starting"

Live == ctlFree \cup ({buf[r] : r \in Role} \ {NoBuf})

PinnedReads == {p \in Pin : pin[p] # NoBuf}
CountedDpcs == {d \in Dpc : dpcPc[d] \notin {"idle", "entered"}}
Uploads == {u \in Uploader : upPc[u] # "idle"}

Interrupting == {"copying", "disconnecting", "interrupting"}

ReadsCounted == frameReadActive = Cardinality(PinnedReads)

DpcsCounted == dpcActive = Cardinality(CountedDpcs)

UploadsCounted ==
  /\ frameWriteActive = Cardinality(Uploads)
  /\ \A u, v \in Uploads : u = v

(* A Stop that has detached the buffers and spins on the counters.         *)
Draining == {"stopWait", "stopWaitWrites", "stopWaitReads"}

(* Where control can be in each state of the hardware.                     *)
ControlConsistent ==
  /\ ctl = "starting" => hardwareState = "Stopped"
  /\ ctl = "arming" => hardwareState = "Running"
  /\ ctl = "pauseWait" => hardwareState # "Running"
  /\ ctl \in Draining => hardwareState = "Stopped"
  /\ ctl \notin Draining => ctlFree = {}

BuffersConsistent ==
  /\ HasBuffers =>
       /\ \A r \in Role : buf[r] # NoBuf
       /\ \A r, s \in Role : r # s => buf[r] # buf[s]
  /\ ~HasBuffers => \A r \in Role : buf[r] = NoBuf

(* What each position of a thread says about what it holds.                *)
PositionsConsistent ==
  /\ \A u \in Uploader : upPc[u] # "idle" => upStage[u] # NoBuf
  /\ \A r \in Reader : rdPc[r] = "idle" => pin[<<r, "outer">>] = NoBuf
  /\ \A r \in Reader : rdPc[r] # "copying" => pin[<<r, "inner">>] = NoBuf
  /\ \A d \in Dpc : dpcPc[d] # "copying" =>
       pin[<<d, "dpc">>] = NoBuf /\ dpcSynth[d] = NoBuf

(* After a Stop has returned, and while one spins, nothing of an old run   *)
(* lives on outside the buffers that are still to be freed.                *)
Reachable ==
  /\ \A b \in Buf : (heap[b] # Freed) <=> b \in Live
  /\ \A p \in Pin : pin[p] # NoBuf => pin[p] \in Live
  /\ \A u \in Uploader : upPc[u] # "idle" => upStage[u] \in Live
  /\ \A d \in Dpc : dpcSynth[d] # NoBuf => dpcSynth[d] \in Live

(* Each counter that a Stop has seen at zero stays without new arrivals,   *)
(* since nobody is admitted, and nothing pinned, while stopped.            *)
Quiet ==
  hardwareState = "Stopped" =>
    /\ ctl # "stopWait" => \A d \in Dpc : dpcPc[d] \notin Interrupting
    /\ ctl \notin {"stopWait", "stopWaitWrites"} =>
         \A u \in Uploader : upPc[u] = "idle"
    /\ ctl \notin Draining => \A p \in Pin : pin[p] = NoBuf

PausedQuiet ==
  hardwareState = "Paused" /\ ctl # "pauseWait" =>
    \A d \in Dpc : dpcPc[d] \notin Interrupting

PinsShown ==
  HasBuffers =>
    /\ \A p \in Pin : pin[p] \in {NoBuf, buf["temporary"], buf["default"]}
    /\ \A d \in Dpc : dpcSynth[d] \in {NoBuf, buf["synthesis"]}

StagingOwned ==
  \A u \in Uploader : upPc[u] \in Staged =>
    /\ HasBuffers => upStage[u] = buf["staging"]
    /\ \A p \in Pin : pin[p] # upStage[u]
    /\ \A d \in Dpc : dpcSynth[d] # upStage[u]

(* What the buffers that can be shown contain.                             *)
ContentsWhole ==
  /\ HasBuffers => heap[buf["default"]] = Placeholder
  /\ HasBuffers /\ uploadAccepted => heap[buf["temporary"]] \in Frame
  /\ \A u \in Uploader : HasBuffers /\ upPc[u] = "accounting" =>
       heap[buf["temporary"]] \in Frame
  /\ \A u \in Uploader : upPc[u] \in {"waiting", "committing"} =>
       heap[upStage[u]] = upFrame[u]
  /\ ReadersSeeWholeFrames

IndInv ==
  /\ TypeOK
  /\ ReadsCounted
  /\ DpcsCounted
  /\ UploadsCounted
  /\ ControlConsistent
  /\ BuffersConsistent
  /\ PositionsConsistent
  /\ Reachable
  /\ Quiet
  /\ PausedQuiet
  /\ PinsShown
  /\ StagingOwned
  /\ ContentsWhole

USE DEF lockVars, countVars, timerVars, ctlVars, upVars, dpcVars

-----------------------------------------------------------------------------
(* Counting.                                                               *)

(* A finite set with one more element counts one more.                     *)
LEMMA CountUp ==
  ASSUME NEW S, NEW T, NEW x, IsFiniteSet(S), x \notin S, T = S \cup {x}
  PROVE  Cardinality(T) = Cardinality(S) + 1 /\ Cardinality(T) \in Nat
BY FS_AddElement, FS_CardinalityType

(* A finite set with one element less counts one less, and no less than 0. *)
LEMMA CountDown ==
  ASSUME NEW S, NEW T, NEW x, IsFiniteSet(S), x \in S, T = S \ {x}
  PROVE  Cardinality(T) = Cardinality(S) - 1 /\ Cardinality(T) \in Nat
BY FS_RemoveElement, FS_CardinalityType

(* The sets whose sizes the counters are, are finite.                      *)
LEMMA CountedFinite ==
  /\ IsFiniteSet(Pin)
  /\ IsFiniteSet(PinnedReads)
  /\ IsFiniteSet(CountedDpcs)
  /\ IsFiniteSet(Uploads)
<1>1. IsFiniteSet(Reader \X {"outer", "inner"})
  <2>1. IsFiniteSet({"outer"} \cup {"inner"})
    <3>1. IsFiniteSet({"outer"}) BY FS_Singleton
    <3>2. QED BY <3>1, FS_AddElement
  <2>2. {"outer", "inner"} = {"outer"} \cup {"inner"} OBVIOUS
  <2>3. QED BY <2>1, <2>2, ActorsFinite, FS_Product
<1>2. IsFiniteSet(Dpc \X {"dpc"})
  BY ActorsFinite, FS_Product, FS_Singleton
<1>3. IsFiniteSet(Pin)
  BY <1>1, <1>2, FS_Union DEF Pin
<1>4. IsFiniteSet(PinnedReads)
  BY <1>3, FS_Subset, PinnedReads \subseteq Pin DEF PinnedReads
<1>5. IsFiniteSet(CountedDpcs)
  BY ActorsFinite, FS_Subset, CountedDpcs \subseteq Dpc DEF CountedDpcs
<1>6. IsFiniteSet(Uploads)
  BY ActorsFinite, FS_Subset, Uploads \subseteq Uploader DEF Uploads
<1>7. QED BY <1>3, <1>4, <1>5, <1>6

(* A counter that is zero: nobody of its kind is at work.                  *)
LEMMA NoReads ==
  ASSUME ReadsCounted, frameReadActive = 0
  PROVE  \A p \in Pin : pin[p] = NoBuf
<1>1. PinnedReads = {}
  BY CountedFinite, FS_EmptySet DEF ReadsCounted
<1>2. QED BY <1>1 DEF PinnedReads

LEMMA NoDpcs ==
  ASSUME DpcsCounted, dpcActive = 0
  PROVE  \A d \in Dpc : dpcPc[d] \in {"idle", "entered"}
<1>1. CountedDpcs = {}
  BY CountedFinite, FS_EmptySet DEF DpcsCounted
<1>2. QED BY <1>1 DEF CountedDpcs

LEMMA NoUploads ==
  ASSUME UploadsCounted, frameWriteActive = 0
  PROVE  \A u \in Uploader : upPc[u] = "idle"
<1>1. Uploads = {}
  BY CountedFinite, FS_EmptySet DEF UploadsCounted
<1>2. QED BY <1>1 DEF Uploads

(* Pinning and unpinning keep the count of the pinned reads.               *)
LEMMA PinCounted ==
  ASSUME TypeOK, ReadsCounted, NEW p \in Pin, pin[p] = NoBuf,
         NEW b \in Buf \cup {NoBuf}, PinBuf(p, b)
  PROVE  ReadsCounted' /\ frameReadActive' \in Nat
<1>1. CASE b = NoBuf
  <2>1. pin' = pin BY <1>1 DEF PinBuf, TypeOK
  <2>2. QED BY <1>1, <2>1 DEF PinBuf, TypeOK, ReadsCounted, PinnedReads
<1>2. CASE b # NoBuf
  <2>1. PinnedReads' = PinnedReads \cup {p} /\ p \notin PinnedReads
    BY <1>2 DEF PinBuf, TypeOK, PinnedReads
  <2>2. QED BY <1>2, <2>1, CountedFinite, CountUp DEF PinBuf, ReadsCounted
<1>3. QED BY <1>1, <1>2

LEMMA UnpinCounted ==
  ASSUME TypeOK, ReadsCounted, NEW p \in Pin, Unpin(p)
  PROVE  ReadsCounted' /\ frameReadActive' \in Nat
<1>1. CASE pin[p] = NoBuf
  <2>1. pin' = pin BY <1>1 DEF Unpin, TypeOK
  <2>2. QED BY <1>1, <2>1 DEF Unpin, TypeOK, ReadsCounted, PinnedReads
<1>2. CASE pin[p] # NoBuf
  <2>1. PinnedReads' = PinnedReads \ {p} /\ p \in PinnedReads
    BY <1>2 DEF Unpin, TypeOK, PinnedReads
  <2>2. QED BY <1>2, <2>1, CountedFinite, CountDown DEF Unpin, ReadsCounted
<1>3. QED BY <1>1, <1>2
(* The four fresh buffers are distinct, and nothing of an older run is left. *)
LEMMA StartAllocateInv ==
  ASSUME IndInv, StartAllocate
  PROVE  IndInv'
<1>1. PICK b \in Allocations :
      /\ \A r \in Role : heap[b[r]] = Freed
      /\ buf' = b
      /\ heap' = [x \in Buf |->
                     IF x = b["default"] THEN Placeholder
                     ELSE IF \E r \in Role : x = b[r] THEN Blank
                     ELSE heap[x]]
  BY DEF StartAllocate
<1>2. b \in [Role -> Buf] /\ \A r, s \in Role : r # s => b[r] # b[s]
  BY AllocationsDisjoint
<1>3. \A x \in Buf : heap[x] = Freed
  BY DEF IndInv, StartAllocate, BuffersConsistent, HasBuffers, Reachable, Live,
         ControlConsistent, Draining
<1>4. HasBuffers' /\ ctlFree' = {} /\ ctlFree = {}
  BY DEF IndInv, StartAllocate, HasBuffers, ControlConsistent, Draining
<1>5. ReadsCounted' /\ DpcsCounted' /\ UploadsCounted' /\
     PositionsConsistent'
  BY DEF IndInv, StartAllocate, ReadsCounted, PinnedReads, DpcsCounted,
         CountedDpcs, UploadsCounted, Uploads, PositionsConsistent
<1>6. TypeOK'
  BY <1>1, <1>2 DEF IndInv, StartAllocate, TypeOK, Control_pc, Content
<1>7. ControlConsistent'
  BY DEF IndInv, StartAllocate, ControlConsistent, Draining
<1>8. BuffersConsistent'
  BY <1>1, <1>2, <1>4, SpecialValues DEF BuffersConsistent
<1>9. Reachable'
  <2>1. Live' = {b[r] : r \in Role}
    BY <1>1, <1>2, <1>4, SpecialValues DEF Live
  <2>2. \A x \in Buf : (heap'[x] # Freed) <=> (x \in Live')
    BY <1>1, <1>2, <1>3, <2>1, SpecialValues DEF Role
  <2>3. QED BY <2>2 DEF IndInv, StartAllocate, Reachable, Quiet, Draining,
                        PositionsConsistent, Interrupting
<1>10. Quiet'
  BY DEF IndInv, StartAllocate, Quiet, Draining, Interrupting
<1>11. PausedQuiet'
  BY DEF IndInv, StartAllocate, PausedQuiet, Interrupting
<1>12. PinsShown'
  BY <1>1 DEF IndInv, StartAllocate, PinsShown, Quiet, Draining, PositionsConsistent,
               Interrupting
<1>13. StagingOwned'
  BY DEF IndInv, StartAllocate, StagingOwned, Staged, Quiet, Draining
<1>14. ContentsWhole'
  BY <1>1, <1>2 DEF IndInv, StartAllocate, ContentsWhole, Quiet, Draining,
               ReadersSeeWholeFrames, Pin, Role
<1>15. QED BY <1>5, <1>6, <1>7, <1>8, <1>9, <1>10, <1>11, <1>12, <1>13, <1>14
  DEF IndInv

(* A Start that fails leaves no buffer behind.                             *)
LEMMA StartFailInv ==
  ASSUME IndInv, StartFail
  PROVE  IndInv'
<1>1. ReadsCounted' /\ DpcsCounted' /\ UploadsCounted' /\
     ControlConsistent' /\ BuffersConsistent' /\ PositionsConsistent' /\
     Reachable' /\ Quiet' /\ PausedQuiet' /\ PinsShown' /\ StagingOwned'
  BY DEF IndInv, StartFail, ReadsCounted, PinnedReads, DpcsCounted,
         CountedDpcs, UploadsCounted, Uploads, ControlConsistent, Draining,
         BuffersConsistent, HasBuffers, PositionsConsistent, Reachable,
         Live, Quiet, Interrupting, PausedQuiet, PinsShown, StagingOwned,
         Staged
<1>2. TypeOK'
  BY DEF IndInv, StartFail, TypeOK, Control_pc, Content
<1>3. ContentsWhole'
  BY DEF IndInv, StartFail, ContentsWhole, ReadersSeeWholeFrames, HasBuffers
<1>4. QED BY <1>1, <1>2, <1>3 DEF IndInv

(* The buffers Start allocated become those of the running hardware.       *)
LEMMA StartRunInv ==
  ASSUME IndInv, StartRun
  PROVE  IndInv'
<1>1. HasBuffers' <=> HasBuffers
  BY DEF IndInv, StartRun, HasBuffers, ControlConsistent, Draining
<1>2. ReadsCounted' /\ DpcsCounted' /\ UploadsCounted' /\
     BuffersConsistent' /\ PositionsConsistent' /\ Reachable' /\
     PinsShown' /\ StagingOwned' /\ ContentsWhole'
  BY <1>1 DEF IndInv, StartRun, ReadsCounted, PinnedReads, DpcsCounted,
         CountedDpcs, UploadsCounted, Uploads, BuffersConsistent,
         PositionsConsistent, Reachable, Live, PinsShown, StagingOwned,
         Staged, ContentsWhole, ReadersSeeWholeFrames
<1>3. TypeOK'
  BY DEF IndInv, StartRun, TypeOK, Control_pc, Content
<1>4. ControlConsistent'
  BY DEF IndInv, StartRun, ControlConsistent, Draining
<1>5. Quiet'
  BY DEF IndInv, StartRun, Quiet, Draining, Interrupting
<1>6. PausedQuiet'
  BY DEF IndInv, StartRun, PausedQuiet, Interrupting
<1>7. QED BY <1>2, <1>3, <1>4, <1>5, <1>6 DEF IndInv

(* Arming the timer touches no buffer.                                     *)
LEMMA ArmTimerInv ==
  ASSUME IndInv, ArmTimer
  PROVE  IndInv'
<1>1. HasBuffers' <=> HasBuffers
  BY DEF IndInv, ArmTimer, HasBuffers, ControlConsistent, Draining
<1>2. ReadsCounted' /\ DpcsCounted' /\ UploadsCounted' /\
     BuffersConsistent' /\ PositionsConsistent' /\ Reachable' /\
     PinsShown' /\ StagingOwned' /\ ContentsWhole'
  BY <1>1 DEF IndInv, ArmTimer, ReadsCounted, PinnedReads, DpcsCounted,
         CountedDpcs, UploadsCounted, Uploads, BuffersConsistent,
         PositionsConsistent, Reachable, Live, PinsShown, StagingOwned,
         Staged, ContentsWhole, ReadersSeeWholeFrames
<1>3. TypeOK'
  BY DEF IndInv, ArmTimer, TypeOK, Control_pc, Content
<1>4. ControlConsistent'
  BY DEF IndInv, ArmTimer, ControlConsistent, Draining
<1>5. Quiet'
  BY DEF IndInv, ArmTimer, Quiet, Draining, Interrupting
<1>6. PausedQuiet'
  BY DEF IndInv, ArmTimer, PausedQuiet, Interrupting
<1>7. QED BY <1>2, <1>3, <1>4, <1>5, <1>6 DEF IndInv

(* Resuming finds the buffers and the frames that Pause left.              *)
LEMMA ResumeInv ==
  ASSUME IndInv, Resume
  PROVE  IndInv'
<1>1. HasBuffers' <=> HasBuffers
  BY DEF IndInv, Resume, HasBuffers, ControlConsistent, Draining
<1>2. ReadsCounted' /\ DpcsCounted' /\ UploadsCounted' /\
     BuffersConsistent' /\ PositionsConsistent' /\ Reachable' /\
     PinsShown' /\ StagingOwned' /\ ContentsWhole'
  BY <1>1 DEF IndInv, Resume, ReadsCounted, PinnedReads, DpcsCounted,
         CountedDpcs, UploadsCounted, Uploads, BuffersConsistent,
         PositionsConsistent, Reachable, Live, PinsShown, StagingOwned,
         Staged, ContentsWhole, ReadersSeeWholeFrames
<1>3. TypeOK'
  BY DEF IndInv, Resume, FreshIfConnected, TypeOK, Control_pc, Content
<1>4. ControlConsistent'
  BY DEF IndInv, Resume, FreshIfConnected, ControlConsistent, Draining
<1>5. Quiet'
  BY DEF IndInv, Resume, FreshIfConnected, Quiet, Draining, Interrupting
<1>6. PausedQuiet'
  BY DEF IndInv, Resume, FreshIfConnected, PausedQuiet, Interrupting
<1>7. QED BY <1>2, <1>3, <1>4, <1>5, <1>6 DEF IndInv

(* Cancelling the timer touches no buffer.                                 *)
LEMMA CancelTimerInv ==
  ASSUME IndInv, CancelTimer
  PROVE  IndInv'
<1>1. HasBuffers' <=> HasBuffers
  BY DEF IndInv, CancelTimer, HasBuffers, ControlConsistent, Draining
<1>2. ReadsCounted' /\ DpcsCounted' /\ UploadsCounted' /\
     BuffersConsistent' /\ PositionsConsistent' /\ Reachable' /\
     PinsShown' /\ StagingOwned' /\ ContentsWhole'
  BY <1>1 DEF IndInv, CancelTimer, ReadsCounted, PinnedReads, DpcsCounted,
         CountedDpcs, UploadsCounted, Uploads, BuffersConsistent,
         PositionsConsistent, Reachable, Live, PinsShown, StagingOwned,
         Staged, ContentsWhole, ReadersSeeWholeFrames
<1>3. TypeOK'
  BY DEF IndInv, CancelTimer, TypeOK, Control_pc, Content
<1>4. ControlConsistent'
  BY DEF IndInv, CancelTimer, ControlConsistent, Draining
<1>5. Quiet'
  BY DEF IndInv, CancelTimer, Quiet, Draining, Interrupting
<1>6. PausedQuiet'
  BY DEF IndInv, CancelTimer, PausedQuiet, Interrupting
<1>7. QED BY <1>2, <1>3, <1>4, <1>5, <1>6 DEF IndInv

(* Nor does removing the queued DPC.                                       *)
LEMMA RemoveQueuedDpcInv ==
  ASSUME IndInv, RemoveQueuedDpc
  PROVE  IndInv'
<1>1. HasBuffers' <=> HasBuffers
  BY DEF IndInv, RemoveQueuedDpc, HasBuffers, ControlConsistent, Draining
<1>2. ReadsCounted' /\ DpcsCounted' /\ UploadsCounted' /\
     BuffersConsistent' /\ PositionsConsistent' /\ Reachable' /\
     PinsShown' /\ StagingOwned' /\ ContentsWhole'
  BY <1>1 DEF IndInv, RemoveQueuedDpc, ReadsCounted, PinnedReads,
         DpcsCounted, CountedDpcs, UploadsCounted, Uploads,
         BuffersConsistent, PositionsConsistent, Reachable, Live, PinsShown,
         StagingOwned, Staged, ContentsWhole, ReadersSeeWholeFrames
<1>3. TypeOK'
  BY DEF IndInv, RemoveQueuedDpc, TypeOK, Control_pc, Content
<1>4. ControlConsistent'
  BY DEF IndInv, RemoveQueuedDpc, ControlConsistent, Draining
<1>5. Quiet'
  BY DEF IndInv, RemoveQueuedDpc, Quiet, Draining, Interrupting
<1>6. PausedQuiet'
  BY DEF IndInv, RemoveQueuedDpc, PausedQuiet, Interrupting
<1>7. QED BY <1>2, <1>3, <1>4, <1>5, <1>6 DEF IndInv

(* Pausing keeps the buffers; DPCs may still be at work.                   *)
LEMMA PauseLockedInv ==
  ASSUME IndInv, PauseLocked
  PROVE  IndInv'
<1>1. HasBuffers' <=> HasBuffers
  BY DEF IndInv, PauseLocked, HasBuffers, ControlConsistent, Draining
<1>2. ReadsCounted' /\ DpcsCounted' /\ UploadsCounted' /\
     BuffersConsistent' /\ PositionsConsistent' /\ Reachable' /\
     PinsShown' /\ StagingOwned' /\ ContentsWhole'
  BY <1>1 DEF IndInv, PauseLocked, ReadsCounted, PinnedReads, DpcsCounted,
         CountedDpcs, UploadsCounted, Uploads, BuffersConsistent,
         PositionsConsistent, Reachable, Live, PinsShown, StagingOwned,
         Staged, ContentsWhole, ReadersSeeWholeFrames
<1>3. TypeOK'
  BY DEF IndInv, PauseLocked, TypeOK, Control_pc, Content
<1>4. ControlConsistent'
  BY DEF IndInv, PauseLocked, ControlConsistent, Draining
<1>5. Quiet'
  BY DEF IndInv, PauseLocked, Quiet, Draining, Interrupting
<1>6. PausedQuiet'
  BY DEF IndInv, PauseLocked, PausedQuiet, Interrupting
<1>7. QED BY <1>2, <1>3, <1>4, <1>5, <1>6 DEF IndInv

(* When Pause sees no active DPC, none is between its check and its sink.  *)
LEMMA PauseReturnInv ==
  ASSUME IndInv, PauseReturn
  PROVE  IndInv'
<1>1. HasBuffers' <=> HasBuffers
  BY DEF IndInv, PauseReturn, HasBuffers, ControlConsistent, Draining
<1>2. \A d \in Dpc : dpcPc[d] \in {"idle", "entered"}
  BY NoDpcs DEF IndInv, PauseReturn
<1>3. ReadsCounted' /\ DpcsCounted' /\ UploadsCounted' /\
     BuffersConsistent' /\ PositionsConsistent' /\ Reachable' /\
     PinsShown' /\ StagingOwned' /\ ContentsWhole'
  BY <1>1 DEF IndInv, PauseReturn, ReadsCounted, PinnedReads, DpcsCounted,
         CountedDpcs, UploadsCounted, Uploads, BuffersConsistent,
         PositionsConsistent, Reachable, Live, PinsShown, StagingOwned,
         Staged, ContentsWhole, ReadersSeeWholeFrames
<1>4. TypeOK'
  BY DEF IndInv, PauseReturn, TypeOK, Control_pc, Content
<1>5. ControlConsistent'
  BY DEF IndInv, PauseReturn, ControlConsistent, Draining
<1>6. Quiet'
  BY DEF IndInv, PauseReturn, Quiet, Draining, Interrupting
<1>7. PausedQuiet'
  BY <1>2 DEF IndInv, PauseReturn, PausedQuiet, Interrupting
<1>8. QED BY <1>3, <1>4, <1>5, <1>6, <1>7 DEF IndInv

(* Detaching moves the buffers from the object to what is to be freed.     *)
LEMMA StopLockedInv ==
  ASSUME IndInv, StopLocked
  PROVE  IndInv'
<1>1. ReadsCounted' /\ DpcsCounted' /\ UploadsCounted' /\
     PositionsConsistent'
  BY DEF IndInv, StopLocked, ReadsCounted, PinnedReads, DpcsCounted,
         CountedDpcs, UploadsCounted, Uploads, PositionsConsistent
<1>2. TypeOK'
  BY DEF IndInv, StopLocked, TypeOK, Control_pc, Content
<1>3. ControlConsistent'
  BY DEF IndInv, StopLocked, ControlConsistent, Draining
<1>4. BuffersConsistent'
  BY DEF IndInv, StopLocked, BuffersConsistent, HasBuffers
<1>5. Reachable'
  <2>1. Live' = Live
    <3>1. ctlFree = {} BY DEF IndInv, StopLocked, ControlConsistent, Draining
    <3>2. {buf'[r] : r \in Role} \ {NoBuf} = {} BY DEF StopLocked
    <3>3. QED BY <3>1, <3>2 DEF StopLocked, Live
  <2>2. QED BY <2>1 DEF IndInv, StopLocked, Reachable
<1>6. Quiet'
  BY DEF IndInv, StopLocked, Quiet, Draining, Interrupting
<1>7. PausedQuiet'
  BY DEF IndInv, StopLocked, PausedQuiet, Interrupting
<1>8. PinsShown'
  BY DEF IndInv, StopLocked, PinsShown, HasBuffers
<1>9. StagingOwned'
  BY DEF IndInv, StopLocked, StagingOwned, Staged, HasBuffers
<1>10. ContentsWhole'
  BY DEF IndInv, StopLocked, ContentsWhole, ReadersSeeWholeFrames,
         HasBuffers
<1>11. QED BY <1>1, <1>2, <1>3, <1>4, <1>5, <1>6, <1>7, <1>8, <1>9, <1>10
  DEF IndInv

(* When Stop sees no active DPC, none is between its check and its sink.   *)
LEMMA StopSeesNoDpcInv ==
  ASSUME IndInv, StopSeesNoDpc
  PROVE  IndInv'
<1>1. HasBuffers' <=> HasBuffers
  BY DEF IndInv, StopSeesNoDpc, HasBuffers, ControlConsistent, Draining
<1>2. \A d \in Dpc : dpcPc[d] \in {"idle", "entered"}
  BY NoDpcs DEF IndInv, StopSeesNoDpc
<1>3. ReadsCounted' /\ DpcsCounted' /\ UploadsCounted' /\
     BuffersConsistent' /\ PositionsConsistent' /\ Reachable' /\
     PinsShown' /\ StagingOwned' /\ ContentsWhole'
  BY <1>1 DEF IndInv, StopSeesNoDpc, ReadsCounted, PinnedReads, DpcsCounted,
         CountedDpcs, UploadsCounted, Uploads, BuffersConsistent,
         PositionsConsistent, Reachable, Live, PinsShown, StagingOwned,
         Staged, ContentsWhole, ReadersSeeWholeFrames
<1>4. TypeOK'
  BY DEF IndInv, StopSeesNoDpc, TypeOK, Control_pc, Content
<1>5. ControlConsistent'
  BY DEF IndInv, StopSeesNoDpc, ControlConsistent, Draining
<1>6. Quiet'
  BY <1>2 DEF IndInv, StopSeesNoDpc, Quiet, Interrupting, Draining
<1>7. PausedQuiet'
  BY DEF IndInv, StopSeesNoDpc, PausedQuiet, Interrupting
<1>8. QED BY <1>3, <1>4, <1>5, <1>6, <1>7 DEF IndInv

(* When it then sees no upload, none is left, for none is admitted.        *)
LEMMA StopReadsWritesInv ==
  ASSUME IndInv, StopReadsWrites
  PROVE  IndInv'
<1>1. HasBuffers' <=> HasBuffers
  BY DEF IndInv, StopReadsWrites, HasBuffers, ControlConsistent, Draining
<1>2. frameWriteActive = 0 => \A u \in Uploader : upPc[u] = "idle"
  BY NoUploads DEF IndInv
<1>3. ReadsCounted' /\ DpcsCounted' /\ UploadsCounted' /\
     BuffersConsistent' /\ PositionsConsistent' /\ Reachable' /\
     PinsShown' /\ StagingOwned' /\ ContentsWhole'
  BY <1>1 DEF IndInv, StopReadsWrites, ReadsCounted, PinnedReads,
         DpcsCounted, CountedDpcs, UploadsCounted, Uploads,
         BuffersConsistent, PositionsConsistent, Reachable, Live, PinsShown,
         StagingOwned, Staged, ContentsWhole, ReadersSeeWholeFrames
<1>4. TypeOK'
  BY DEF IndInv, StopReadsWrites, TypeOK, Control_pc, Content
<1>5. ControlConsistent'
  BY DEF IndInv, StopReadsWrites, ControlConsistent, Draining
<1>6. Quiet'
  BY <1>2 DEF IndInv, StopReadsWrites, Quiet, Draining
<1>7. PausedQuiet'
  BY DEF IndInv, StopReadsWrites, PausedQuiet, Interrupting
<1>8. QED BY <1>3, <1>4, <1>5, <1>6, <1>7 DEF IndInv

(* A pinned read makes Stop start its checks again.                        *)
LEMMA StopSeesReaderInv ==
  ASSUME IndInv, StopSeesReader
  PROVE  IndInv'
<1>1. HasBuffers' <=> HasBuffers
  BY DEF IndInv, StopSeesReader, HasBuffers, ControlConsistent, Draining
<1>2. ReadsCounted' /\ DpcsCounted' /\ UploadsCounted' /\
     BuffersConsistent' /\ PositionsConsistent' /\ Reachable' /\
     PinsShown' /\ StagingOwned' /\ ContentsWhole'
  BY <1>1 DEF IndInv, StopSeesReader, ReadsCounted, PinnedReads,
         DpcsCounted, CountedDpcs, UploadsCounted, Uploads,
         BuffersConsistent, PositionsConsistent, Reachable, Live, PinsShown,
         StagingOwned, Staged, ContentsWhole, ReadersSeeWholeFrames
<1>3. TypeOK'
  BY DEF IndInv, StopSeesReader, TypeOK, Control_pc, Content
<1>4. ControlConsistent'
  BY DEF IndInv, StopSeesReader, ControlConsistent, Draining
<1>5. Quiet'
  BY DEF IndInv, StopSeesReader, Quiet, Draining, Interrupting
<1>6. PausedQuiet'
  BY DEF IndInv, StopSeesReader, PausedQuiet, Interrupting
<1>7. QED BY <1>2, <1>3, <1>4, <1>5, <1>6 DEF IndInv

(* When it last sees no pinned read, nobody holds what it frees.           *)
LEMMA StopReturnInv ==
  ASSUME IndInv, StopReturn
  PROVE  IndInv'
<1>1. HasBuffers' <=> HasBuffers
  BY DEF IndInv, StopReturn, HasBuffers, ControlConsistent, Draining
<1>2. /\ \A d \in Dpc : dpcPc[d] \notin Interrupting
      /\ \A u \in Uploader : upPc[u] = "idle"
      /\ \A p \in Pin : pin[p] = NoBuf
  BY NoReads DEF IndInv, StopReturn, Quiet, ControlConsistent, Draining
<1>3. ~HasBuffers /\ \A r \in Role : buf[r] = NoBuf
  BY DEF IndInv, StopReturn, HasBuffers, ControlConsistent, BuffersConsistent,
         Draining
<1>4. ReadsCounted' /\ DpcsCounted' /\ UploadsCounted' /\
     BuffersConsistent' /\ PositionsConsistent'
  BY <1>1 DEF IndInv, StopReturn, ReadsCounted, PinnedReads, DpcsCounted,
         CountedDpcs, UploadsCounted, Uploads, BuffersConsistent,
         PositionsConsistent
<1>5. TypeOK'
  BY DEF IndInv, StopReturn, TypeOK, Control_pc, Content
<1>6. ControlConsistent'
  BY DEF IndInv, StopReturn, ControlConsistent, Draining
<1>7. Reachable'
  <2>1. Live = ctlFree /\ Live' = {}
    BY <1>3 DEF StopReturn, Live
  <2>2. \A d \in Dpc : dpcSynth[d] = NoBuf
    BY <1>2 DEF IndInv, PositionsConsistent, Interrupting
  <2>3. QED BY <2>1, <2>2, <1>2 DEF IndInv, StopReturn, Reachable, TypeOK
<1>8. Quiet'
  BY <1>2 DEF StopReturn, Quiet
<1>9. PausedQuiet'
  BY <1>2 DEF IndInv, StopReturn, PausedQuiet, Interrupting
<1>10. PinsShown'
  BY <1>1, <1>3 DEF PinsShown
<1>11. StagingOwned'
  BY <1>2 DEF StopReturn, StagingOwned, Staged
<1>12. ContentsWhole'
  BY <1>1, <1>3, <1>2 DEF IndInv, StopReturn, ContentsWhole,
       ReadersSeeWholeFrames, Pin
<1>13. QED BY <1>4, <1>5, <1>6, <1>7, <1>8, <1>9, <1>10,
              <1>11, <1>12 DEF IndInv

(* An upload is admitted alone, and its buffer is shown to no reader.      *)
LEMMA BeginUploadInv ==
  ASSUME NEW u \in Uploader, IndInv, BeginUpload(u)
  PROVE  IndInv'
<1>1. \A v \in Uploader : upPc[v] = "idle"
  BY NoUploads DEF IndInv, BeginUpload, MayUpload
<1>2. HasBuffers /\ upStage'[u] = buf["staging"] /\ buf["staging"] # NoBuf
  BY DEF IndInv, BeginUpload, MayUpload, HasBuffers, TypeOK
<1>3. ReadsCounted' /\ DpcsCounted' /\ ControlConsistent' /\
     BuffersConsistent' /\ PausedQuiet' /\ PinsShown'
  BY DEF IndInv, BeginUpload, ReadsCounted, PinnedReads, DpcsCounted,
         CountedDpcs, ControlConsistent, Draining, BuffersConsistent,
         HasBuffers, PausedQuiet, Interrupting, PinsShown
<1>4. TypeOK'
  BY SpecialValues DEF IndInv, BeginUpload, MayUpload, TypeOK, Upload_pc,
         Content, Pin, Role, BuffersConsistent, HasBuffers, ControlConsistent,
         PositionsConsistent
<1>5. UploadsCounted'
  <2>1. Uploads = {} /\ Uploads' = Uploads \cup {u}
    BY <1>1 DEF IndInv, BeginUpload, TypeOK, Uploads
  <2>2. QED BY <2>1, CountedFinite, CountUp
            DEF IndInv, BeginUpload, UploadsCounted
<1>6. PositionsConsistent'
  BY DEF IndInv, BeginUpload, MayUpload, TypeOK, PositionsConsistent
<1>7. Reachable'
  BY SpecialValues DEF IndInv, BeginUpload, MayUpload, TypeOK, Reachable,
         Live, Content, Pin, Role, BuffersConsistent, HasBuffers,
         ControlConsistent, PositionsConsistent
<1>8. Quiet'
  BY DEF IndInv, BeginUpload, MayUpload, Quiet, Draining, Interrupting
<1>9. StagingOwned'
  <2>1. \A v \in Uploader : upPc'[v] \in Staged => v = u
    BY <1>1 DEF IndInv, BeginUpload, TypeOK, Staged
  <2>2. \A p \in Pin : pin[p] # buf["staging"]
    BY <1>2 DEF IndInv, PinsShown, BuffersConsistent, Role
  <2>3. \A d \in Dpc : dpcSynth[d] # buf["staging"]
    BY <1>2 DEF IndInv, PinsShown, BuffersConsistent, Role
  <2>4. QED BY <2>1, <2>2, <2>3, <1>2 DEF BeginUpload, StagingOwned
<1>10. ContentsWhole'
  BY DEF IndInv, BeginUpload, MayUpload, ContentsWhole,
         ReadersSeeWholeFrames, HasBuffers
<1>11. QED BY <1>3, <1>4, <1>5, <1>6, <1>7, <1>8, <1>9, <1>10 DEF IndInv

(* A refused upload keeps its count until it leaves.                       *)
LEMMA RefuseSourceInv ==
  ASSUME NEW u \in Uploader, IndInv, RefuseSource(u)
  PROVE  IndInv'
<1>1. ReadsCounted' /\ DpcsCounted' /\ ControlConsistent' /\
     BuffersConsistent' /\ PausedQuiet' /\ PinsShown'
  BY DEF IndInv, RefuseSource, ReadsCounted, PinnedReads, DpcsCounted,
         CountedDpcs, ControlConsistent, Draining, BuffersConsistent,
         HasBuffers, PausedQuiet, Interrupting, PinsShown
<1>2. TypeOK'
  BY DEF IndInv, RefuseSource, TypeOK, Upload_pc, Content
<1>3. UploadsCounted'
  <2>1. Uploads' = Uploads
    BY DEF IndInv, RefuseSource, TypeOK, Uploads
  <2>2. QED BY <2>1 DEF IndInv, RefuseSource, UploadsCounted
<1>4. PositionsConsistent'
  BY DEF IndInv, RefuseSource, PositionsConsistent
<1>5. Reachable'
  BY DEF IndInv, RefuseSource, Reachable, Live
<1>6. Quiet'
  BY DEF IndInv, RefuseSource, Quiet, Draining, Interrupting
<1>7. StagingOwned'
  BY DEF IndInv, RefuseSource, StagingOwned, Staged, HasBuffers
<1>8. ContentsWhole'
  BY DEF IndInv, RefuseSource, ContentsWhole, ReadersSeeWholeFrames,
         HasBuffers
<1>9. QED BY <1>1, <1>2, <1>3, <1>4, <1>5, <1>6, <1>7, <1>8 DEF IndInv

(* Tearing the staging buffer tears nothing that is read.                  *)
LEMMA BeginConvertInv ==
  ASSUME NEW u \in Uploader, IndInv, BeginConvert(u)
  PROVE  IndInv'
<1>1. /\ upStage[u] \in Buf /\ heap[upStage[u]] # Freed
      /\ \A p \in Pin : pin[p] # upStage[u]
      /\ HasBuffers => upStage[u] = buf["staging"]
  BY SpecialValues DEF IndInv, BeginConvert, TypeOK, PositionsConsistent,
         StagingOwned, Staged, Reachable
<1>2. \A v \in Uploader : upPc[v] # "idle" => v = u
  BY DEF IndInv, BeginConvert, UploadsCounted, Uploads
<1>3. HasBuffers =>
       /\ buf["default"] # upStage[u] /\ buf["default"] \in Buf
       /\ buf["temporary"] # upStage[u] /\ buf["temporary"] \in Buf
  <2>1. SUFFICES ASSUME HasBuffers
                 PROVE  /\ buf["default"] # upStage[u]
                        /\ buf["default"] \in Buf
                        /\ buf["temporary"] # upStage[u]
                        /\ buf["temporary"] \in Buf
    OBVIOUS
  <2>2. "default" \in Role /\ "temporary" \in Role /\ "staging" \in Role
    BY DEF Role
  <2>3. buf \in [Role -> Buf \cup {NoBuf}]
    BY DEF IndInv, TypeOK
  <2>4. \A r \in Role : buf[r] \in Buf
    BY <2>1, <2>3 DEF IndInv, BuffersConsistent
  <2>5. buf["default"] # buf["staging"] /\ buf["temporary"] # buf["staging"]
    BY <2>1, <2>2 DEF IndInv, BuffersConsistent
  <2>6. upStage[u] = buf["staging"] BY <2>1, <1>1
  <2>7. QED BY <2>2, <2>4, <2>5, <2>6
<1>4. ReadsCounted' /\ DpcsCounted' /\ ControlConsistent' /\
     BuffersConsistent' /\ PausedQuiet' /\ PinsShown'
  BY DEF IndInv, BeginConvert, ReadsCounted, PinnedReads, DpcsCounted,
         CountedDpcs, ControlConsistent, Draining, BuffersConsistent,
         HasBuffers, PausedQuiet, Interrupting, PinsShown
<1>5. TypeOK'
  BY DEF IndInv, BeginConvert, TypeOK, Upload_pc, Content
<1>6. UploadsCounted'
  <2>1. Uploads' = Uploads
    BY DEF IndInv, BeginConvert, TypeOK, Uploads
  <2>2. QED BY <2>1 DEF IndInv, BeginConvert, UploadsCounted
<1>7. PositionsConsistent'
  BY DEF IndInv, BeginConvert, PositionsConsistent
<1>8. Reachable'
  <2>1. \A b \in Buf : (heap'[b] # Freed) <=> (heap[b] # Freed)
    BY <1>1, SpecialValues DEF IndInv, BeginConvert, TypeOK
  <2>2. QED BY <2>1 DEF IndInv, BeginConvert, Reachable, Live, TypeOK
<1>9. Quiet'
  BY DEF IndInv, BeginConvert, Quiet, Draining, Interrupting
<1>10. StagingOwned'
  BY DEF IndInv, BeginConvert, StagingOwned, Staged, HasBuffers
<1>11. ContentsWhole'
  <2>1. \A b \in Buf : b # upStage[u] => heap'[b] = heap[b]
    BY DEF IndInv, BeginConvert, TypeOK
  <2>2. HasBuffers' <=> HasBuffers
    BY DEF BeginConvert, HasBuffers
  <2>3. /\ HasBuffers => heap'[buf["default"]] = Placeholder
        /\ HasBuffers /\ uploadAccepted => heap'[buf["temporary"]] \in Frame
    BY <2>1, <1>3 DEF IndInv, ContentsWhole
  <2>4. \A v \in Uploader : upPc'[v] # "accounting"
    BY <1>2 DEF IndInv, BeginConvert, TypeOK
  <2>5. \A v \in Uploader : upPc'[v] \in {"waiting", "committing"} =>
          heap'[upStage[v]] = upFrame[v]
    BY <1>1, <1>2 DEF IndInv, BeginConvert, TypeOK
  <2>6. ReadersSeeWholeFrames'
    <3>1. \A p \in Pin : pin[p] # NoBuf => heap'[pin[p]] = heap[pin[p]]
      BY <2>1, <1>1 DEF IndInv, TypeOK
    <3>2. \A r \in Reader : <<r, "outer">> \in Pin BY DEF Pin
    <3>3. QED BY <3>1, <3>2
              DEF IndInv, BeginConvert, ContentsWhole, ReadersSeeWholeFrames
  <2>7. QED BY <2>2, <2>3, <2>4, <2>5, <2>6 DEF BeginConvert, ContentsWhole
<1>12. QED BY <1>4, <1>5, <1>6, <1>7, <1>8, <1>9, <1>10, <1>11 DEF IndInv

(* Completing the staging buffer changes nothing that is read.             *)
LEMMA EndConvertInv ==
  ASSUME NEW u \in Uploader, IndInv, EndConvert(u)
  PROVE  IndInv'
<1>1. /\ upStage[u] \in Buf /\ heap[upStage[u]] # Freed
      /\ \A p \in Pin : pin[p] # upStage[u]
      /\ HasBuffers => upStage[u] = buf["staging"]
  BY SpecialValues DEF IndInv, EndConvert, TypeOK, PositionsConsistent,
         StagingOwned, Staged, Reachable
<1>2. \A v \in Uploader : upPc[v] # "idle" => v = u
  BY DEF IndInv, EndConvert, UploadsCounted, Uploads
<1>3. HasBuffers =>
       /\ buf["default"] # upStage[u] /\ buf["default"] \in Buf
       /\ buf["temporary"] # upStage[u] /\ buf["temporary"] \in Buf
  <2>1. SUFFICES ASSUME HasBuffers
                 PROVE  /\ buf["default"] # upStage[u]
                        /\ buf["default"] \in Buf
                        /\ buf["temporary"] # upStage[u]
                        /\ buf["temporary"] \in Buf
    OBVIOUS
  <2>2. "default" \in Role /\ "temporary" \in Role /\ "staging" \in Role
    BY DEF Role
  <2>3. buf \in [Role -> Buf \cup {NoBuf}]
    BY DEF IndInv, TypeOK
  <2>4. \A r \in Role : buf[r] \in Buf
    BY <2>1, <2>3 DEF IndInv, BuffersConsistent
  <2>5. buf["default"] # buf["staging"] /\ buf["temporary"] # buf["staging"]
    BY <2>1, <2>2 DEF IndInv, BuffersConsistent
  <2>6. upStage[u] = buf["staging"] BY <2>1, <1>1
  <2>7. QED BY <2>2, <2>4, <2>5, <2>6
<1>4. ReadsCounted' /\ DpcsCounted' /\ ControlConsistent' /\
     BuffersConsistent' /\ PausedQuiet' /\ PinsShown'
  BY DEF IndInv, EndConvert, ReadsCounted, PinnedReads, DpcsCounted,
         CountedDpcs, ControlConsistent, Draining, BuffersConsistent,
         HasBuffers, PausedQuiet, Interrupting, PinsShown
<1>5. TypeOK'
  BY DEF IndInv, EndConvert, TypeOK, Upload_pc, Content
<1>6. UploadsCounted'
  <2>1. Uploads' = Uploads
    BY DEF IndInv, EndConvert, TypeOK, Uploads
  <2>2. QED BY <2>1 DEF IndInv, EndConvert, UploadsCounted
<1>7. PositionsConsistent'
  BY DEF IndInv, EndConvert, PositionsConsistent
<1>8. Reachable'
  <2>1. \A b \in Buf : (heap'[b] # Freed) <=> (heap[b] # Freed)
    BY <1>1, SpecialValues DEF IndInv, EndConvert, TypeOK
  <2>2. QED BY <2>1 DEF IndInv, EndConvert, Reachable, Live, TypeOK
<1>9. Quiet'
  BY DEF IndInv, EndConvert, Quiet, Draining, Interrupting
<1>10. StagingOwned'
  BY DEF IndInv, EndConvert, StagingOwned, Staged, HasBuffers
<1>11. ContentsWhole'
  <2>1. \A b \in Buf : b # upStage[u] => heap'[b] = heap[b]
    BY DEF IndInv, EndConvert, TypeOK
  <2>2. HasBuffers' <=> HasBuffers
    BY DEF EndConvert, HasBuffers
  <2>3. /\ HasBuffers => heap'[buf["default"]] = Placeholder
        /\ HasBuffers /\ uploadAccepted => heap'[buf["temporary"]] \in Frame
    BY <2>1, <1>3 DEF IndInv, ContentsWhole
  <2>4. \A v \in Uploader : upPc'[v] # "accounting"
    BY <1>2 DEF IndInv, EndConvert, TypeOK
  <2>5. \A v \in Uploader : upPc'[v] \in {"waiting", "committing"} =>
          heap'[upStage[v]] = upFrame[v]
    BY <1>1, <1>2 DEF IndInv, EndConvert, TypeOK
  <2>6. ReadersSeeWholeFrames'
    <3>1. \A p \in Pin : pin[p] # NoBuf => heap'[pin[p]] = heap[pin[p]]
      BY <2>1, <1>1 DEF IndInv, TypeOK
    <3>2. \A r \in Reader : <<r, "outer">> \in Pin BY DEF Pin
    <3>3. QED BY <3>1, <3>2
              DEF IndInv, EndConvert, ContentsWhole, ReadersSeeWholeFrames
  <2>7. QED BY <2>2, <2>3, <2>4, <2>5, <2>6 DEF EndConvert, ContentsWhole
<1>12. QED BY <1>4, <1>5, <1>6, <1>7, <1>8, <1>9, <1>10, <1>11 DEF IndInv

(* Seeing no reader changes no state but the position.                     *)
LEMMA SeeNoReaderInv ==
  ASSUME NEW u \in Uploader, IndInv, SeeNoReader(u)
  PROVE  IndInv'
<1>1. ReadsCounted' /\ DpcsCounted' /\ ControlConsistent' /\
     BuffersConsistent' /\ PausedQuiet' /\ PinsShown'
  BY DEF IndInv, SeeNoReader, ReadsCounted, PinnedReads, DpcsCounted,
         CountedDpcs, ControlConsistent, Draining, BuffersConsistent,
         HasBuffers, PausedQuiet, Interrupting, PinsShown
<1>2. TypeOK'
  BY DEF IndInv, SeeNoReader, TypeOK, Upload_pc, Content
<1>3. UploadsCounted'
  <2>1. Uploads' = Uploads
    BY DEF IndInv, SeeNoReader, TypeOK, Uploads
  <2>2. QED BY <2>1 DEF IndInv, SeeNoReader, UploadsCounted
<1>4. PositionsConsistent'
  BY DEF IndInv, SeeNoReader, PositionsConsistent
<1>5. Reachable'
  BY DEF IndInv, SeeNoReader, Reachable, Live
<1>6. Quiet'
  BY DEF IndInv, SeeNoReader, Quiet, Draining, Interrupting
<1>7. StagingOwned'
  BY DEF IndInv, SeeNoReader, StagingOwned, Staged, HasBuffers
<1>8. ContentsWhole'
  BY DEF IndInv, SeeNoReader, ContentsWhole, ReadersSeeWholeFrames,
         HasBuffers
<1>9. QED BY <1>1, <1>2, <1>3, <1>4, <1>5, <1>6, <1>7, <1>8 DEF IndInv

(* The pointers swap while nothing is pinned: what becomes shown is whole. *)
LEMMA PublishInv ==
  ASSUME NEW u \in Uploader, IndInv, Publish(u)
  PROVE  IndInv'
<1>1. \A p \in Pin : pin[p] = NoBuf
  BY NoReads DEF IndInv, Publish, MayPublish
<1>2. HasBuffers /\ HasBuffers'
  BY DEF Publish, MayPublish, HasBuffers
<1>3. \A v \in Uploader : upPc[v] # "idle" => v = u
  BY DEF IndInv, Publish, UploadsCounted, Uploads
<1>4. /\ buf'["staging"] = buf["temporary"]
      /\ buf'["temporary"] = buf["staging"]
      /\ buf'["default"] = buf["default"]
      /\ buf'["synthesis"] = buf["synthesis"]
  BY DEF IndInv, Publish, MayPublish, TypeOK, Role
<1>5. ReadsCounted' /\ DpcsCounted' /\ ControlConsistent' /\ PausedQuiet'
  BY DEF IndInv, Publish, ReadsCounted, PinnedReads, DpcsCounted,
         CountedDpcs, ControlConsistent, Draining, PausedQuiet, Interrupting
<1>6. TypeOK'
  BY SpecialValues DEF IndInv, Publish, MayPublish, FreshIfConnected, TypeOK,
         Upload_pc, Content, Pin, Role, BuffersConsistent, HasBuffers,
         ControlConsistent, PositionsConsistent
<1>7. UploadsCounted'
  <2>1. Uploads' = Uploads
    BY DEF IndInv, Publish, TypeOK, Uploads
  <2>2. QED BY <2>1 DEF IndInv, Publish, UploadsCounted
<1>8. BuffersConsistent'
  BY <1>2, <1>4 DEF IndInv, BuffersConsistent, Role
<1>9. PositionsConsistent'
  BY DEF IndInv, Publish, MayPublish, FreshIfConnected, PositionsConsistent
<1>10. Reachable'
  <2>1. Live' = Live
    BY <1>4 DEF Publish, Live, Role
  <2>2. QED BY <2>1 DEF IndInv, Publish, Reachable, TypeOK
<1>11. Quiet'
  BY DEF IndInv, Publish, MayPublish, FreshIfConnected, Quiet, Draining,
         Interrupting
<1>12. PinsShown'
  BY <1>1, <1>2, <1>4 DEF IndInv, Publish, PinsShown
<1>13. StagingOwned'
  BY <1>3 DEF IndInv, Publish, StagingOwned, Staged, TypeOK
<1>14. ContentsWhole'
  <2>1. heap[buf["staging"]] \in Frame
    BY <1>2 DEF IndInv, Publish, MayPublish, ContentsWhole, TypeOK
  <2>2. QED BY <2>1, <1>1, <1>2, <1>3, <1>4
            DEF IndInv, Publish, ContentsWhole, ReadersSeeWholeFrames, TypeOK,
                Pin
<1>15. QED BY <1>5, <1>6, <1>7, <1>8, <1>9, <1>10, <1>11, <1>12, <1>13, <1>14
  DEF IndInv

(* An upload that cannot publish leaves everything as it is.               *)
LEMMA FailToPublishInv ==
  ASSUME NEW u \in Uploader, IndInv, FailToPublish(u)
  PROVE  IndInv'
<1>1. ReadsCounted' /\ DpcsCounted' /\ ControlConsistent' /\
     BuffersConsistent' /\ PausedQuiet' /\ PinsShown'
  BY DEF IndInv, FailToPublish, ReadsCounted, PinnedReads, DpcsCounted,
         CountedDpcs, ControlConsistent, Draining, BuffersConsistent,
         HasBuffers, PausedQuiet, Interrupting, PinsShown
<1>2. TypeOK'
  BY DEF IndInv, FailToPublish, MayPublish, TypeOK, Upload_pc, Content
<1>3. UploadsCounted'
  <2>1. Uploads' = Uploads
    BY DEF IndInv, FailToPublish, TypeOK, Uploads
  <2>2. QED BY <2>1 DEF IndInv, FailToPublish, UploadsCounted
<1>4. PositionsConsistent'
  BY DEF IndInv, FailToPublish, MayPublish, PositionsConsistent
<1>5. Reachable'
  BY DEF IndInv, FailToPublish, MayPublish, Reachable, Live
<1>6. Quiet'
  BY DEF IndInv, FailToPublish, MayPublish, Quiet, Draining, Interrupting
<1>7. StagingOwned'
  BY DEF IndInv, FailToPublish, MayPublish, StagingOwned, Staged, HasBuffers
<1>8. ContentsWhole'
  BY DEF IndInv, FailToPublish, MayPublish, ContentsWhole,
         ReadersSeeWholeFrames, HasBuffers
<1>9. QED BY <1>1, <1>2, <1>3, <1>4, <1>5, <1>6, <1>7, <1>8 DEF IndInv

(* The frame accounted for is the one that was published.                  *)
LEMMA AccountUploadInv ==
  ASSUME NEW u \in Uploader, IndInv, AccountUpload(u)
  PROVE  IndInv'
<1>1. ReadsCounted' /\ DpcsCounted' /\ ControlConsistent' /\
     BuffersConsistent' /\ PausedQuiet' /\ PinsShown'
  BY DEF IndInv, AccountUpload, ReadsCounted, PinnedReads, DpcsCounted,
         CountedDpcs, ControlConsistent, Draining, BuffersConsistent,
         HasBuffers, PausedQuiet, Interrupting, PinsShown
<1>2. TypeOK'
  BY DEF IndInv, AccountUpload, TypeOK, Upload_pc, Content
<1>3. UploadsCounted'
  <2>1. Uploads' = Uploads
    BY DEF IndInv, AccountUpload, TypeOK, Uploads
  <2>2. QED BY <2>1 DEF IndInv, AccountUpload, UploadsCounted
<1>4. PositionsConsistent'
  BY DEF IndInv, AccountUpload, PositionsConsistent
<1>5. Reachable'
  BY DEF IndInv, AccountUpload, Reachable, Live
<1>6. Quiet'
  BY DEF IndInv, AccountUpload, Quiet, Draining, Interrupting
<1>7. StagingOwned'
  BY DEF IndInv, AccountUpload, StagingOwned, Staged, HasBuffers
<1>8. ContentsWhole'
  BY DEF IndInv, AccountUpload, ContentsWhole, ReadersSeeWholeFrames,
         HasBuffers
<1>9. QED BY <1>1, <1>2, <1>3, <1>4, <1>5, <1>6, <1>7, <1>8 DEF IndInv

(* The count goes down with the upload that leaves.                        *)
LEMMA EndUploadInv ==
  ASSUME NEW u \in Uploader, IndInv, EndUpload(u)
  PROVE  IndInv'
<1>1. UploadsCounted' /\ frameWriteActive' \in Nat
  <2>1. u \in Uploads /\ Uploads' = Uploads \ {u}
    BY DEF IndInv, EndUpload, TypeOK, Uploads
  <2>2. QED BY <2>1, CountedFinite, CountDown
            DEF IndInv, EndUpload, UploadsCounted
<1>2. ReadsCounted' /\ DpcsCounted' /\ ControlConsistent' /\
     BuffersConsistent' /\ PausedQuiet' /\ PinsShown'
  BY DEF IndInv, EndUpload, ReadsCounted, PinnedReads, DpcsCounted,
         CountedDpcs, ControlConsistent, Draining, BuffersConsistent,
         HasBuffers, PausedQuiet, Interrupting, PinsShown
<1>3. TypeOK'
  BY <1>1 DEF IndInv, EndUpload, TypeOK, Upload_pc, Content
<1>4. UploadsCounted'
  BY <1>1
<1>5. PositionsConsistent'
  BY DEF IndInv, EndUpload, TypeOK, PositionsConsistent
<1>6. Reachable'
  BY DEF IndInv, EndUpload, TypeOK, Reachable, Live
<1>7. Quiet'
  BY DEF IndInv, EndUpload, Quiet, Draining, Interrupting
<1>8. StagingOwned'
  BY DEF IndInv, EndUpload, StagingOwned, Staged, HasBuffers
<1>9. ContentsWhole'
  BY DEF IndInv, EndUpload, ContentsWhole, ReadersSeeWholeFrames, HasBuffers
<1>10. QED BY <1>2, <1>3, <1>4, <1>5, <1>6, <1>7, <1>8, <1>9 DEF IndInv

(* The outer pin is counted and shows an uploaded frame.                   *)
LEMMA BeginCopyInv ==
  ASSUME NEW r \in Reader, IndInv, BeginCopy(r)
  PROVE  IndInv'
<1>1. /\ <<r, "outer">> \in Pin
      /\ (IF uploadAccepted THEN buf["temporary"] ELSE NoBuf)
           \in Buf \cup {NoBuf}
  BY DEF IndInv, TypeOK, Pin, Role, SourceFrame
<1>2. ReadsCounted' /\ frameReadActive' \in Nat
  BY <1>1, PinCounted DEF IndInv, BeginCopy, PositionsConsistent
<1>3. DpcsCounted' /\ UploadsCounted' /\ ControlConsistent' /\
     BuffersConsistent' /\ PausedQuiet'
  BY DEF IndInv, BeginCopy, DpcsCounted, CountedDpcs, UploadsCounted,
         Uploads, ControlConsistent, Draining, BuffersConsistent,
         HasBuffers, PausedQuiet, Interrupting
<1>4. TypeOK'
  BY <1>1, <1>2 DEF IndInv, BeginCopy, PinBuf, TypeOK, Copy_pc
<1>5. ReadsCounted'
  BY <1>2
<1>6. PositionsConsistent'
  BY <1>1 DEF IndInv, BeginCopy, PinBuf, TypeOK, PositionsConsistent
<1>7. Reachable'
  BY <1>1, SpecialValues DEF IndInv, BeginCopy, PinBuf, TypeOK, Reachable,
         Live, Content, Pin, Role, BuffersConsistent, HasBuffers,
         ControlConsistent, PositionsConsistent
<1>8. Quiet'
  BY <1>1 DEF IndInv, BeginCopy, PinBuf, Quiet, Draining, Interrupting
<1>9. PinsShown'
  BY <1>1 DEF IndInv, BeginCopy, PinBuf, PinsShown, HasBuffers
<1>10. StagingOwned'
  BY <1>1, SpecialValues DEF IndInv, BeginCopy, PinBuf, TypeOK,
         StagingOwned, Staged, HasBuffers, Content, Pin, Role,
         BuffersConsistent, ControlConsistent, PositionsConsistent
<1>11. ContentsWhole'
  BY <1>1 DEF IndInv, BeginCopy, PinBuf, ContentsWhole,
         ReadersSeeWholeFrames, HasBuffers
<1>12. QED BY <1>3, <1>4, <1>5, <1>6, <1>7, <1>8, <1>9, <1>10, <1>11 DEF IndInv

(* A copy without a header pins nothing yet.                               *)
LEMMA BeginCopyWithoutHeaderInv ==
  ASSUME NEW r \in Reader, IndInv, BeginCopyWithoutHeader(r)
  PROVE  IndInv'
<1>1. ReadsCounted' /\ DpcsCounted' /\ UploadsCounted' /\
     ControlConsistent' /\ BuffersConsistent' /\ Reachable' /\ Quiet' /\
     PausedQuiet' /\ PinsShown' /\ StagingOwned' /\ ContentsWhole'
  BY DEF IndInv, BeginCopyWithoutHeader, ReadsCounted, PinnedReads,
         DpcsCounted, CountedDpcs, UploadsCounted, Uploads,
         ControlConsistent, Draining, BuffersConsistent, HasBuffers,
         Reachable, Live, Quiet, Interrupting, PausedQuiet, PinsShown,
         StagingOwned, Staged, ContentsWhole, ReadersSeeWholeFrames
<1>2. TypeOK'
  BY DEF IndInv, BeginCopyWithoutHeader, TypeOK, Copy_pc
<1>3. PositionsConsistent'
  BY DEF IndInv, BeginCopyWithoutHeader, PositionsConsistent
<1>4. QED BY <1>1, <1>2, <1>3 DEF IndInv

(* The inner pin is counted and shows a frame or the placeholder.          *)
LEMMA PinSourceInv ==
  ASSUME NEW r \in Reader, IndInv, PinSource(r)
  PROVE  IndInv'
<1>1. <<r, "inner">> \in Pin /\ SourceFrame \in Buf \cup {NoBuf}
  BY DEF IndInv, TypeOK, Pin, Role, SourceFrame
<1>2. ReadsCounted' /\ frameReadActive' \in Nat
  BY <1>1, PinCounted DEF IndInv, PinSource, PositionsConsistent
<1>3. DpcsCounted' /\ UploadsCounted' /\ ControlConsistent' /\
     BuffersConsistent' /\ PausedQuiet'
  BY DEF IndInv, PinSource, DpcsCounted, CountedDpcs, UploadsCounted,
         Uploads, ControlConsistent, Draining, BuffersConsistent,
         HasBuffers, PausedQuiet, Interrupting
<1>4. TypeOK'
  BY <1>1, <1>2 DEF IndInv, PinSource, PinBuf, SourceFrame, TypeOK, Copy_pc
<1>5. ReadsCounted'
  BY <1>2
<1>6. PositionsConsistent'
  BY <1>1 DEF IndInv, PinSource, PinBuf, SourceFrame, TypeOK,
         PositionsConsistent
<1>7. Reachable'
  BY <1>1, SpecialValues DEF IndInv, PinSource, PinBuf, SourceFrame, TypeOK,
         Reachable, Live, Content, Pin, Role, BuffersConsistent, HasBuffers,
         ControlConsistent, PositionsConsistent
<1>8. Quiet'
  BY <1>1 DEF IndInv, PinSource, PinBuf, SourceFrame, Quiet, Draining,
         Interrupting
<1>9. PinsShown'
  BY <1>1 DEF IndInv, PinSource, PinBuf, SourceFrame, PinsShown, HasBuffers
<1>10. StagingOwned'
  BY <1>1, SpecialValues DEF IndInv, PinSource, PinBuf, SourceFrame, TypeOK,
         StagingOwned, Staged, HasBuffers, Content, Pin, Role,
         BuffersConsistent, ControlConsistent, PositionsConsistent
<1>11. ContentsWhole'
  BY <1>1, SpecialValues DEF IndInv, PinSource, PinBuf, SourceFrame, TypeOK,
         ContentsWhole, ReadersSeeWholeFrames, HasBuffers, Content, Pin,
         Role, BuffersConsistent, ControlConsistent, PositionsConsistent
<1>12. QED BY <1>3, <1>4, <1>5, <1>6, <1>7, <1>8, <1>9, <1>10, <1>11 DEF IndInv

(* A refused copy keeps its outer pin.                                     *)
LEMMA RefuseCopyInv ==
  ASSUME NEW r \in Reader, IndInv, RefuseCopy(r)
  PROVE  IndInv'
<1>1. ReadsCounted' /\ DpcsCounted' /\ UploadsCounted' /\
     ControlConsistent' /\ BuffersConsistent' /\ Reachable' /\ Quiet' /\
     PausedQuiet' /\ PinsShown' /\ StagingOwned' /\ ContentsWhole'
  BY DEF IndInv, RefuseCopy, ReadsCounted, PinnedReads, DpcsCounted,
         CountedDpcs, UploadsCounted, Uploads, ControlConsistent, Draining,
         BuffersConsistent, HasBuffers, Reachable, Live, Quiet,
         Interrupting, PausedQuiet, PinsShown, StagingOwned, Staged,
         ContentsWhole, ReadersSeeWholeFrames
<1>2. TypeOK'
  BY DEF IndInv, RefuseCopy, TypeOK, Copy_pc
<1>3. PositionsConsistent'
  BY DEF IndInv, RefuseCopy, PositionsConsistent
<1>4. QED BY <1>1, <1>2, <1>3 DEF IndInv

(* The inner pin goes with its count.                                      *)
LEMMA EndDirectCopyInv ==
  ASSUME NEW r \in Reader, IndInv, EndDirectCopy(r)
  PROVE  IndInv'
<1>1. ReadsCounted' /\ frameReadActive' \in Nat
  <2>1. <<r, "inner">> \in Pin BY DEF Pin
  <2>2. QED BY <2>1, UnpinCounted DEF IndInv, EndDirectCopy
<1>2. DpcsCounted' /\ UploadsCounted' /\ ControlConsistent' /\
     BuffersConsistent' /\ PausedQuiet'
  BY DEF IndInv, EndDirectCopy, DpcsCounted, CountedDpcs, UploadsCounted,
         Uploads, ControlConsistent, Draining, BuffersConsistent,
         HasBuffers, PausedQuiet, Interrupting
<1>3. TypeOK'
  BY <1>1 DEF IndInv, EndDirectCopy, Unpin, TypeOK, Copy_pc
<1>4. ReadsCounted'
  BY <1>1
<1>5. PositionsConsistent'
  BY SpecialValues DEF IndInv, EndDirectCopy, Unpin, TypeOK,
         PositionsConsistent, Content, Pin, Role, BuffersConsistent,
         HasBuffers, ControlConsistent
<1>6. Reachable'
  BY DEF IndInv, EndDirectCopy, Unpin, Reachable, Live
<1>7. Quiet'
  BY DEF IndInv, EndDirectCopy, Unpin, Quiet, Draining, Interrupting
<1>8. PinsShown'
  BY DEF IndInv, EndDirectCopy, Unpin, PinsShown, HasBuffers
<1>9. StagingOwned'
  BY SpecialValues DEF IndInv, EndDirectCopy, Unpin, TypeOK, StagingOwned,
         Staged, HasBuffers, Content, Pin, Role, BuffersConsistent,
         ControlConsistent, PositionsConsistent
<1>10. ContentsWhole'
  BY DEF IndInv, EndDirectCopy, Unpin, ContentsWhole, ReadersSeeWholeFrames,
         HasBuffers
<1>11. QED BY <1>2, <1>3, <1>4, <1>5, <1>6, <1>7, <1>8, <1>9, <1>10 DEF IndInv

(* The outer pin goes with its count.                                      *)
LEMMA EndCopyInv ==
  ASSUME NEW r \in Reader, IndInv, EndCopy(r)
  PROVE  IndInv'
<1>1. ReadsCounted' /\ frameReadActive' \in Nat
  <2>1. <<r, "outer">> \in Pin BY DEF Pin
  <2>2. QED BY <2>1, UnpinCounted DEF IndInv, EndCopy
<1>2. DpcsCounted' /\ UploadsCounted' /\ ControlConsistent' /\
     BuffersConsistent' /\ PausedQuiet'
  BY DEF IndInv, EndCopy, DpcsCounted, CountedDpcs, UploadsCounted, Uploads,
         ControlConsistent, Draining, BuffersConsistent, HasBuffers,
         PausedQuiet, Interrupting
<1>3. TypeOK'
  BY <1>1 DEF IndInv, EndCopy, Unpin, TypeOK, Copy_pc
<1>4. ReadsCounted'
  BY <1>1
<1>5. PositionsConsistent'
  BY SpecialValues DEF IndInv, EndCopy, Unpin, TypeOK, PositionsConsistent,
         Content, Pin, Role, BuffersConsistent, HasBuffers,
         ControlConsistent
<1>6. Reachable'
  BY DEF IndInv, EndCopy, Unpin, Reachable, Live
<1>7. Quiet'
  BY DEF IndInv, EndCopy, Unpin, Quiet, Draining, Interrupting
<1>8. PinsShown'
  BY DEF IndInv, EndCopy, Unpin, PinsShown, HasBuffers
<1>9. StagingOwned'
  BY SpecialValues DEF IndInv, EndCopy, Unpin, TypeOK, StagingOwned, Staged,
         HasBuffers, Content, Pin, Role, BuffersConsistent,
         ControlConsistent, PositionsConsistent
<1>10. ContentsWhole'
  BY DEF IndInv, EndCopy, Unpin, ContentsWhole, ReadersSeeWholeFrames,
         HasBuffers
<1>11. QED BY <1>2, <1>3, <1>4, <1>5, <1>6, <1>7, <1>8, <1>9, <1>10 DEF IndInv

(* The timer touches no buffer.                                            *)
LEMMA TimerExpiresInv ==
  ASSUME IndInv, TimerExpires
  PROVE  IndInv'
<1>1. ReadsCounted' /\ DpcsCounted' /\ UploadsCounted' /\
     ControlConsistent' /\ BuffersConsistent' /\ PositionsConsistent' /\
     Reachable' /\ Quiet' /\ PausedQuiet' /\ PinsShown' /\ StagingOwned' /\
     ContentsWhole'
  BY DEF IndInv, TimerExpires, ReadsCounted, PinnedReads, DpcsCounted,
         CountedDpcs, UploadsCounted, Uploads, ControlConsistent, Draining,
         BuffersConsistent, HasBuffers, PositionsConsistent, Reachable,
         Live, Quiet, Interrupting, PausedQuiet, PinsShown, StagingOwned,
         Staged, ContentsWhole, ReadersSeeWholeFrames
<1>2. TypeOK'
  BY DEF IndInv, TimerExpires, TypeOK, Dpc_pc
<1>3. QED BY <1>1, <1>2 DEF IndInv

(* A DPC that has only been dispatched holds nothing.                      *)
LEMMA DpcDispatchInv ==
  ASSUME NEW d \in Dpc, IndInv, DpcDispatch(d)
  PROVE  IndInv'
<1>1. ReadsCounted' /\ UploadsCounted' /\ ControlConsistent' /\
     BuffersConsistent' /\ Reachable' /\ PinsShown' /\ StagingOwned' /\
     ContentsWhole'
  BY DEF IndInv, DpcDispatch, ReadsCounted, PinnedReads, UploadsCounted,
         Uploads, ControlConsistent, Draining, BuffersConsistent,
         HasBuffers, Reachable, Live, PinsShown, StagingOwned, Staged,
         ContentsWhole, ReadersSeeWholeFrames
<1>2. TypeOK'
  BY DEF IndInv, DpcDispatch, TypeOK, Dpc_pc
<1>3. DpcsCounted'
  <2>1. CountedDpcs' = CountedDpcs
    BY DEF IndInv, DpcDispatch, TypeOK, CountedDpcs
  <2>2. QED BY <2>1 DEF IndInv, DpcDispatch, DpcsCounted
<1>4. PositionsConsistent'
  BY DEF IndInv, DpcDispatch, PositionsConsistent
<1>5. Quiet'
  BY DEF IndInv, DpcDispatch, Quiet, Draining, Interrupting
<1>6. PausedQuiet'
  BY DEF IndInv, DpcDispatch, PausedQuiet, Interrupting
<1>7. QED BY <1>1, <1>2, <1>3, <1>4, <1>5, <1>6 DEF IndInv

(* A DPC is counted before it looks at the hardware.                       *)
LEMMA DpcCountInv ==
  ASSUME NEW d \in Dpc, IndInv, DpcCount(d)
  PROVE  IndInv'
<1>1. ReadsCounted' /\ UploadsCounted' /\ ControlConsistent' /\
     BuffersConsistent' /\ Reachable' /\ PinsShown' /\ StagingOwned' /\
     ContentsWhole'
  BY DEF IndInv, DpcCount, ReadsCounted, PinnedReads, UploadsCounted,
         Uploads, ControlConsistent, Draining, BuffersConsistent,
         HasBuffers, Reachable, Live, PinsShown, StagingOwned, Staged,
         ContentsWhole, ReadersSeeWholeFrames
<1>2. TypeOK'
  BY DEF IndInv, DpcCount, TypeOK, Dpc_pc
<1>3. DpcsCounted'
  <2>1. d \notin CountedDpcs /\ CountedDpcs' = CountedDpcs \cup {d}
    BY DEF IndInv, DpcCount, TypeOK, CountedDpcs
  <2>2. QED BY <2>1, CountedFinite, CountUp DEF IndInv, DpcCount, DpcsCounted
<1>4. PositionsConsistent'
  BY DEF IndInv, DpcCount, PositionsConsistent
<1>5. Quiet'
  BY DEF IndInv, DpcCount, Quiet, Draining, Interrupting
<1>6. PausedQuiet'
  BY DEF IndInv, DpcCount, PausedQuiet, Interrupting
<1>7. QED BY <1>1, <1>2, <1>3, <1>4, <1>5, <1>6 DEF IndInv

(* The DPC pins what it copies in the section that finds it running.       *)
LEMMA DpcSnapshotInv ==
  ASSUME NEW d \in Dpc, IndInv, DpcSnapshot(d)
  PROVE  IndInv'
<1>1. ReadsCounted' /\ frameReadActive' \in Nat
  <2>1. CASE hardwareState = "Running"
    <3>1. <<d, "dpc">> \in Pin /\ SourceFrame \in Buf \cup {NoBuf}
      BY DEF IndInv, TypeOK, Pin, Role, SourceFrame
    <3>2. TypeOK /\ ReadsCounted BY DEF IndInv
    <3>3. pin[<<d, "dpc">>] = NoBuf
      BY DEF IndInv, DpcSnapshot, PositionsConsistent
    <3>4. PinBuf(<<d, "dpc">>, SourceFrame)
      BY <2>1 DEF DpcSnapshot
    <3>5. QED BY <3>1, <3>2, <3>3, <3>4, PinCounted
  <2>2. CASE hardwareState # "Running"
    <3>1. pin' = pin /\ frameReadActive' = frameReadActive
      BY <2>2 DEF DpcSnapshot
    <3>2. QED BY <3>1 DEF IndInv, ReadsCounted, PinnedReads, TypeOK
  <2>3. QED BY <2>1, <2>2
<1>2. UploadsCounted' /\ ControlConsistent' /\ BuffersConsistent'
  BY DEF IndInv, DpcSnapshot, UploadsCounted, Uploads, ControlConsistent,
         Draining, BuffersConsistent, HasBuffers
<1>3. TypeOK'
  <2>1. CASE hardwareState = "Running"
    <3>1. /\ <<d, "dpc">> \in Pin /\ SourceFrame \in Buf \cup {NoBuf}
          /\ buf["synthesis"] \in Buf \cup {NoBuf}
      BY DEF IndInv, TypeOK, Pin, Role, SourceFrame
    <3>2. frameReadActive' \in Nat
      BY <1>1
    <3>3. /\ dpcPc' \in [Dpc -> Dpc_pc]
          /\ dpcSynth' \in [Dpc -> Buf \cup {NoBuf}]
          /\ dpcExpired' \in [Dpc -> BOOLEAN]
      BY <2>1, <3>1 DEF IndInv, TypeOK, DpcSnapshot, Dpc_pc
    <3>4. pin' \in [Pin -> Buf \cup {NoBuf}]
      BY <2>1, <3>1 DEF IndInv, TypeOK, DpcSnapshot, PinBuf
    <3>5. QED BY <3>2, <3>3, <3>4 DEF IndInv, TypeOK, DpcSnapshot
  <2>2. CASE hardwareState # "Running"
    <3>1. /\ dpcPc' \in [Dpc -> Dpc_pc]
          /\ dpcExpired' \in [Dpc -> BOOLEAN]
      BY <2>2 DEF IndInv, TypeOK, DpcSnapshot, Dpc_pc
    <3>2. QED BY <2>2, <3>1 DEF IndInv, TypeOK, DpcSnapshot
  <2>3. QED BY <2>1, <2>2
<1>4. ReadsCounted'
  BY <1>1
<1>5. DpcsCounted'
  <2>1. CountedDpcs' = CountedDpcs
    BY DEF IndInv, DpcSnapshot, TypeOK, CountedDpcs
  <2>2. QED BY <2>1 DEF IndInv, DpcSnapshot, DpcsCounted
<1>6. PositionsConsistent'
  BY SpecialValues DEF IndInv, DpcSnapshot, PinBuf, SourceFrame, TypeOK,
         PositionsConsistent, Content, Pin, Role, BuffersConsistent,
         HasBuffers, ControlConsistent
<1>7. Reachable'
  BY SpecialValues DEF IndInv, DpcSnapshot, PinBuf, SourceFrame, TypeOK,
         Reachable, Live, Content, Pin, Role, BuffersConsistent, HasBuffers,
         ControlConsistent, PositionsConsistent
<1>8. Quiet'
  BY DEF IndInv, DpcSnapshot, PinBuf, SourceFrame, TypeOK, Quiet, Draining,
         Interrupting
<1>9. PausedQuiet'
  BY DEF IndInv, DpcSnapshot, PinBuf, SourceFrame, TypeOK, PausedQuiet,
         Interrupting
<1>10. PinsShown'
  BY DEF IndInv, DpcSnapshot, PinBuf, SourceFrame, TypeOK, PinsShown,
         HasBuffers
<1>11. StagingOwned'
  <2>1. CASE hardwareState = "Running"
    <3>1. HasBuffers /\ HasBuffers' BY <2>1 DEF DpcSnapshot, HasBuffers
    <3>2. /\ SourceFrame # buf["staging"]
          /\ buf["synthesis"] # buf["staging"]
      BY <3>1 DEF IndInv, BuffersConsistent, SourceFrame, Role
    <3>3. /\ \A p \in Pin : pin'[p] \in {pin[p], SourceFrame}
          /\ \A e \in Dpc : dpcSynth'[e] \in {dpcSynth[e], buf["synthesis"]}
          /\ UNCHANGED <<buf, upVars>>
      BY <2>1 DEF IndInv, DpcSnapshot, PinBuf, TypeOK
    <3>4. QED BY <3>1, <3>2, <3>3 DEF IndInv, StagingOwned
  <2>2. CASE hardwareState # "Running"
    BY <2>2 DEF IndInv, DpcSnapshot, StagingOwned, HasBuffers
  <2>3. QED BY <2>1, <2>2
<1>12. ContentsWhole'
  BY SpecialValues DEF IndInv, DpcSnapshot, PinBuf, SourceFrame, TypeOK,
         ContentsWhole, ReadersSeeWholeFrames, HasBuffers, Content, Pin,
         Role, BuffersConsistent, ControlConsistent, PositionsConsistent
<1>13. QED BY <1>2, <1>3, <1>4, <1>5, <1>6, <1>7, <1>8, <1>9, <1>10,
              <1>11, <1>12 DEF IndInv

(* The pin of the DPC goes with its count.                                 *)
LEMMA DpcEndCopyInv ==
  ASSUME NEW d \in Dpc, IndInv, DpcEndCopy(d)
  PROVE  IndInv'
<1>1. ReadsCounted' /\ frameReadActive' \in Nat
  <2>1. <<d, "dpc">> \in Pin BY DEF Pin
  <2>2. QED BY <2>1, UnpinCounted DEF IndInv, DpcEndCopy
<1>2. UploadsCounted' /\ ControlConsistent' /\ BuffersConsistent'
  BY DEF IndInv, DpcEndCopy, UploadsCounted, Uploads, ControlConsistent,
         Draining, BuffersConsistent, HasBuffers
<1>3. TypeOK'
  BY <1>1 DEF IndInv, DpcEndCopy, Unpin, TypeOK, Dpc_pc
<1>4. ReadsCounted'
  BY <1>1
<1>5. DpcsCounted'
  <2>1. CountedDpcs' = CountedDpcs
    BY DEF IndInv, DpcEndCopy, TypeOK, CountedDpcs
  <2>2. QED BY <2>1 DEF IndInv, DpcEndCopy, DpcsCounted
<1>6. PositionsConsistent'
  BY SpecialValues DEF IndInv, DpcEndCopy, Unpin, TypeOK,
         PositionsConsistent, Content, Pin, Role, BuffersConsistent,
         HasBuffers, ControlConsistent
<1>7. Reachable'
  BY DEF IndInv, DpcEndCopy, Unpin, Reachable, Live
<1>8. Quiet'
  BY DEF IndInv, DpcEndCopy, Unpin, Quiet, Draining, Interrupting
<1>9. PausedQuiet'
  BY DEF IndInv, DpcEndCopy, Unpin, PausedQuiet, Interrupting
<1>10. PinsShown'
  BY DEF IndInv, DpcEndCopy, Unpin, PinsShown, HasBuffers
<1>11. StagingOwned'
  BY SpecialValues DEF IndInv, DpcEndCopy, Unpin, TypeOK, StagingOwned,
         Staged, HasBuffers, Content, Pin, Role, BuffersConsistent,
         ControlConsistent, PositionsConsistent
<1>12. ContentsWhole'
  BY DEF IndInv, DpcEndCopy, Unpin, ContentsWhole, ReadersSeeWholeFrames,
         HasBuffers
<1>13. QED BY <1>2, <1>3, <1>4, <1>5, <1>6, <1>7, <1>8, <1>9, <1>10,
              <1>11, <1>12 DEF IndInv

(* The heartbeat touches no buffer.                                        *)
LEMMA DpcDisconnectInv ==
  ASSUME NEW d \in Dpc, IndInv, DpcDisconnect(d)
  PROVE  IndInv'
<1>1. ReadsCounted' /\ UploadsCounted' /\ ControlConsistent' /\
     BuffersConsistent' /\ Reachable' /\ PinsShown' /\ StagingOwned' /\
     ContentsWhole'
  BY DEF IndInv, DpcDisconnect, ReadsCounted, PinnedReads, UploadsCounted,
         Uploads, ControlConsistent, Draining, BuffersConsistent,
         HasBuffers, Reachable, Live, PinsShown, StagingOwned, Staged,
         ContentsWhole, ReadersSeeWholeFrames
<1>2. TypeOK'
  BY DEF IndInv, DpcDisconnect, TypeOK, Dpc_pc
<1>3. DpcsCounted'
  <2>1. CountedDpcs' = CountedDpcs
    BY DEF IndInv, DpcDisconnect, TypeOK, CountedDpcs
  <2>2. QED BY <2>1 DEF IndInv, DpcDisconnect, DpcsCounted
<1>4. PositionsConsistent'
  BY DEF IndInv, DpcDisconnect, PositionsConsistent
<1>5. Quiet'
  BY DEF IndInv, DpcDisconnect, Quiet, Draining, Interrupting
<1>6. PausedQuiet'
  BY DEF IndInv, DpcDisconnect, PausedQuiet, Interrupting
<1>7. QED BY <1>1, <1>2, <1>3, <1>4, <1>5, <1>6 DEF IndInv

(* The sink returns while the DPC is still counted.                        *)
LEMMA DpcInterruptInv ==
  ASSUME NEW d \in Dpc, IndInv, DpcInterrupt(d)
  PROVE  IndInv'
<1>1. ReadsCounted' /\ UploadsCounted' /\ ControlConsistent' /\
     BuffersConsistent' /\ Reachable' /\ PinsShown' /\ StagingOwned' /\
     ContentsWhole'
  BY DEF IndInv, DpcInterrupt, ReadsCounted, PinnedReads, UploadsCounted,
         Uploads, ControlConsistent, Draining, BuffersConsistent,
         HasBuffers, Reachable, Live, PinsShown, StagingOwned, Staged,
         ContentsWhole, ReadersSeeWholeFrames
<1>2. TypeOK'
  BY DEF IndInv, DpcInterrupt, TypeOK, Dpc_pc
<1>3. DpcsCounted'
  <2>1. CountedDpcs' = CountedDpcs
    BY DEF IndInv, DpcInterrupt, TypeOK, CountedDpcs
  <2>2. QED BY <2>1 DEF IndInv, DpcInterrupt, DpcsCounted
<1>4. PositionsConsistent'
  BY DEF IndInv, DpcInterrupt, PositionsConsistent
<1>5. Quiet'
  BY DEF IndInv, DpcInterrupt, Quiet, Draining, Interrupting
<1>6. PausedQuiet'
  BY DEF IndInv, DpcInterrupt, PausedQuiet, Interrupting
<1>7. QED BY <1>1, <1>2, <1>3, <1>4, <1>5, <1>6 DEF IndInv

(* Checking the state touches no buffer.                                   *)
LEMMA DpcCheckStateInv ==
  ASSUME NEW d \in Dpc, IndInv, DpcCheckState(d)
  PROVE  IndInv'
<1>1. ReadsCounted' /\ UploadsCounted' /\ ControlConsistent' /\
     BuffersConsistent' /\ Reachable' /\ PinsShown' /\ StagingOwned' /\
     ContentsWhole'
  BY DEF IndInv, DpcCheckState, ReadsCounted, PinnedReads, UploadsCounted,
         Uploads, ControlConsistent, Draining, BuffersConsistent,
         HasBuffers, Reachable, Live, PinsShown, StagingOwned, Staged,
         ContentsWhole, ReadersSeeWholeFrames
<1>2. TypeOK'
  BY DEF IndInv, DpcCheckState, TypeOK, Dpc_pc
<1>3. DpcsCounted'
  <2>1. CountedDpcs' = CountedDpcs
    BY DEF IndInv, DpcCheckState, TypeOK, CountedDpcs
  <2>2. QED BY <2>1 DEF IndInv, DpcCheckState, DpcsCounted
<1>4. PositionsConsistent'
  BY DEF IndInv, DpcCheckState, PositionsConsistent
<1>5. Quiet'
  BY DEF IndInv, DpcCheckState, Quiet, Draining, Interrupting
<1>6. PausedQuiet'
  BY DEF IndInv, DpcCheckState, PausedQuiet, Interrupting
<1>7. QED BY <1>1, <1>2, <1>3, <1>4, <1>5, <1>6 DEF IndInv

(* Nor does arming the timer again.                                        *)
LEMMA DpcRearmInv ==
  ASSUME NEW d \in Dpc, IndInv, DpcRearm(d)
  PROVE  IndInv'
<1>1. ReadsCounted' /\ UploadsCounted' /\ ControlConsistent' /\
     BuffersConsistent' /\ Reachable' /\ PinsShown' /\ StagingOwned' /\
     ContentsWhole'
  BY DEF IndInv, DpcRearm, ReadsCounted, PinnedReads, UploadsCounted,
         Uploads, ControlConsistent, Draining, BuffersConsistent,
         HasBuffers, Reachable, Live, PinsShown, StagingOwned, Staged,
         ContentsWhole, ReadersSeeWholeFrames
<1>2. TypeOK'
  BY DEF IndInv, DpcRearm, TypeOK, Dpc_pc
<1>3. DpcsCounted'
  <2>1. CountedDpcs' = CountedDpcs
    BY DEF IndInv, DpcRearm, TypeOK, CountedDpcs
  <2>2. QED BY <2>1 DEF IndInv, DpcRearm, DpcsCounted
<1>4. PositionsConsistent'
  BY DEF IndInv, DpcRearm, PositionsConsistent
<1>5. Quiet'
  BY DEF IndInv, DpcRearm, Quiet, Draining, Interrupting
<1>6. PausedQuiet'
  BY DEF IndInv, DpcRearm, PausedQuiet, Interrupting
<1>7. QED BY <1>1, <1>2, <1>3, <1>4, <1>5, <1>6 DEF IndInv

(* The count goes down with the DPC that leaves.                           *)
LEMMA DpcLeaveInv ==
  ASSUME NEW d \in Dpc, IndInv, DpcLeave(d)
  PROVE  IndInv'
<1>1. DpcsCounted' /\ dpcActive' \in Nat
  <2>1. d \in CountedDpcs /\ CountedDpcs' = CountedDpcs \ {d}
    BY DEF IndInv, DpcLeave, TypeOK, CountedDpcs
  <2>2. QED BY <2>1, CountedFinite, CountDown DEF IndInv, DpcLeave, DpcsCounted
<1>2. ReadsCounted' /\ UploadsCounted' /\ ControlConsistent' /\
     BuffersConsistent' /\ Reachable' /\ PinsShown' /\ StagingOwned' /\
     ContentsWhole'
  BY DEF IndInv, DpcLeave, ReadsCounted, PinnedReads, UploadsCounted,
         Uploads, ControlConsistent, Draining, BuffersConsistent,
         HasBuffers, Reachable, Live, PinsShown, StagingOwned, Staged,
         ContentsWhole, ReadersSeeWholeFrames
<1>3. TypeOK'
  BY <1>1 DEF IndInv, DpcLeave, TypeOK, Dpc_pc
<1>4. DpcsCounted'
  BY <1>1
<1>5. PositionsConsistent'
  BY DEF IndInv, DpcLeave, PositionsConsistent
<1>6. Quiet'
  BY DEF IndInv, DpcLeave, Quiet, Draining, Interrupting
<1>7. PausedQuiet'
  BY DEF IndInv, DpcLeave, PausedQuiet, Interrupting
<1>8. QED BY <1>2, <1>3, <1>4, <1>5, <1>6, <1>7 DEF IndInv

(* The connection touches no buffer.                                       *)
LEMMA SetClientConnectedInv ==
  ASSUME NEW connected \in BOOLEAN, IndInv, SetClientConnected(connected)
  PROVE  IndInv'
<1>1. ReadsCounted' /\ DpcsCounted' /\ UploadsCounted' /\
     ControlConsistent' /\ BuffersConsistent' /\ PositionsConsistent' /\
     Reachable' /\ Quiet' /\ PausedQuiet' /\ PinsShown' /\ StagingOwned' /\
     ContentsWhole'
  BY DEF IndInv, SetClientConnected, ReadsCounted, PinnedReads, DpcsCounted,
         CountedDpcs, UploadsCounted, Uploads, ControlConsistent, Draining,
         BuffersConsistent, HasBuffers, PositionsConsistent, Reachable,
         Live, Quiet, Interrupting, PausedQuiet, PinsShown, StagingOwned,
         Staged, ContentsWhole, ReadersSeeWholeFrames
<1>2. TypeOK'
  BY DEF IndInv, SetClientConnected, TypeOK
<1>3. QED BY <1>1, <1>2 DEF IndInv

(* Time touches no buffer.                                                 *)
LEMMA HeartbeatTimeoutPassesInv ==
  ASSUME IndInv, HeartbeatTimeoutPasses
  PROVE  IndInv'
<1>1. ReadsCounted' /\ DpcsCounted' /\ UploadsCounted' /\
     ControlConsistent' /\ BuffersConsistent' /\ PositionsConsistent' /\
     Reachable' /\ Quiet' /\ PausedQuiet' /\ PinsShown' /\ StagingOwned' /\
     ContentsWhole'
  BY DEF IndInv, HeartbeatTimeoutPasses, ReadsCounted, PinnedReads,
         DpcsCounted, CountedDpcs, UploadsCounted, Uploads,
         ControlConsistent, Draining, BuffersConsistent, HasBuffers,
         PositionsConsistent, Reachable, Live, Quiet, Interrupting,
         PausedQuiet, PinsShown, StagingOwned, Staged, ContentsWhole,
         ReadersSeeWholeFrames
<1>2. TypeOK'
  BY DEF IndInv, HeartbeatTimeoutPasses, TypeOK
<1>3. QED BY <1>1, <1>2 DEF IndInv
-----------------------------------------------------------------------------
(* The initial state satisfies the invariant: nothing is allocated, nobody *)
(* is at work.                                                             *)
LEMMA InitInv ==
  ASSUME Init
  PROVE  IndInv
<1>1. TypeOK
  BY DEF Init, TypeOK, Content, Control_pc, Upload_pc, Copy_pc, Dpc_pc
<1>2. ReadsCounted
  <2>1. PinnedReads = {} BY DEF Init, PinnedReads
  <2>2. QED BY <2>1, FS_EmptySet DEF Init, ReadsCounted
<1>3. DpcsCounted
  <2>1. CountedDpcs = {} BY DEF Init, CountedDpcs
  <2>2. QED BY <2>1, FS_EmptySet DEF Init, DpcsCounted
<1>4. UploadsCounted
  <2>1. Uploads = {} BY DEF Init, Uploads
  <2>2. QED BY <2>1, FS_EmptySet DEF Init, UploadsCounted
<1>5. ControlConsistent /\ BuffersConsistent /\ PositionsConsistent
  <2>1. \A r \in Reader : <<r, "outer">> \in Pin /\ <<r, "inner">> \in Pin
    BY DEF Pin
  <2>2. \A d \in Dpc : <<d, "dpc">> \in Pin
    BY DEF Pin
  <2>3. QED BY <2>1, <2>2 DEF Init, ControlConsistent, BuffersConsistent,
                              HasBuffers, PositionsConsistent
<1>6. Reachable
  <2>1. Live = {} BY DEF Init, Live
  <2>2. QED BY <2>1 DEF Init, Reachable
<1>7. Quiet /\ PausedQuiet /\ PinsShown /\ StagingOwned
  BY DEF Init, Quiet, PausedQuiet, Interrupting, PinsShown, HasBuffers,
         StagingOwned, Staged
<1>8. ContentsWhole
  <2>1. \A r \in Reader : <<r, "outer">> \in Pin BY DEF Pin
  <2>2. QED BY <2>1 DEF Init, ContentsWhole, HasBuffers,
                        ReadersSeeWholeFrames
<1>9. QED
  BY <1>1, <1>2, <1>3, <1>4, <1>5, <1>6, <1>7, <1>8 DEF IndInv

(* A step that changes nothing keeps the invariant.                        *)
LEMMA StutterInv ==
  ASSUME IndInv, UNCHANGED vars
  PROVE  IndInv'
BY DEF IndInv, vars, TypeOK, ReadsCounted, PinnedReads, DpcsCounted,
       CountedDpcs, UploadsCounted, Uploads, ControlConsistent,
       BuffersConsistent, HasBuffers, PositionsConsistent, Reachable, Live,
       Quiet, PausedQuiet, PinsShown, StagingOwned, ContentsWhole,
       ReadersSeeWholeFrames

(* Every step keeps it.                                                    *)
LEMMA NextInv ==
  ASSUME IndInv, [Next]_vars
  PROVE  IndInv'
<1>1. CASE Control
  <2>1. CASE StartAllocate BY <2>1, StartAllocateInv
  <2>2. CASE StartFail BY <2>2, StartFailInv
  <2>3. CASE StartRun BY <2>3, StartRunInv
  <2>4. CASE ArmTimer BY <2>4, ArmTimerInv
  <2>5. CASE Resume BY <2>5, ResumeInv
  <2>6. CASE CancelTimer BY <2>6, CancelTimerInv
  <2>7. CASE RemoveQueuedDpc BY <2>7, RemoveQueuedDpcInv
  <2>8. CASE PauseLocked BY <2>8, PauseLockedInv
  <2>9. CASE PauseReturn BY <2>9, PauseReturnInv
  <2>10. CASE StopLocked BY <2>10, StopLockedInv
  <2>11. CASE StopSeesNoDpc BY <2>11, StopSeesNoDpcInv
  <2>12. CASE StopReadsWrites BY <2>12, StopReadsWritesInv
  <2>13. CASE StopSeesReader BY <2>13, StopSeesReaderInv
  <2>14. CASE StopReturn BY <2>14, StopReturnInv
  <2>15. QED BY <1>1, <2>1, <2>2, <2>3, <2>4, <2>5, <2>6, <2>7, <2>8, <2>9,
                <2>10, <2>11, <2>12, <2>13, <2>14 DEF Control
<1>2. ASSUME NEW u \in Uploader, BeginUpload(u) \/ UploadStep(u)
      PROVE  IndInv'
  <2>1. CASE BeginUpload(u) BY <2>1, BeginUploadInv
  <2>2. CASE RefuseSource(u) BY <2>2, RefuseSourceInv
  <2>3. CASE BeginConvert(u) BY <2>3, BeginConvertInv
  <2>4. CASE EndConvert(u) BY <2>4, EndConvertInv
  <2>5. CASE SeeNoReader(u) BY <2>5, SeeNoReaderInv
  <2>6. CASE Publish(u) BY <2>6, PublishInv
  <2>7. CASE FailToPublish(u) BY <2>7, FailToPublishInv
  <2>8. CASE AccountUpload(u) BY <2>8, AccountUploadInv
  <2>9. CASE EndUpload(u) BY <2>9, EndUploadInv
  <2>10. QED BY <1>2, <2>1, <2>2, <2>3, <2>4, <2>5, <2>6, <2>7, <2>8, <2>9
             DEF UploadStep
<1>3. ASSUME NEW r \in Reader,
             BeginCopy(r) \/ BeginCopyWithoutHeader(r) \/ CopyStep(r)
      PROVE  IndInv'
  <2>1. CASE BeginCopy(r) BY <2>1, BeginCopyInv
  <2>2. CASE BeginCopyWithoutHeader(r) BY <2>2, BeginCopyWithoutHeaderInv
  <2>3. CASE PinSource(r) BY <2>3, PinSourceInv
  <2>4. CASE RefuseCopy(r) BY <2>4, RefuseCopyInv
  <2>5. CASE EndDirectCopy(r) BY <2>5, EndDirectCopyInv
  <2>6. CASE EndCopy(r) BY <2>6, EndCopyInv
  <2>7. QED BY <1>3, <2>1, <2>2, <2>3, <2>4, <2>5, <2>6 DEF CopyStep
<1>4. ASSUME NEW d \in Dpc, DpcDispatch(d) \/ DpcStep(d)
      PROVE  IndInv'
  <2>1. CASE DpcDispatch(d) BY <2>1, DpcDispatchInv
  <2>2. CASE DpcCount(d) BY <2>2, DpcCountInv
  <2>3. CASE DpcSnapshot(d) BY <2>3, DpcSnapshotInv
  <2>4. CASE DpcEndCopy(d) BY <2>4, DpcEndCopyInv
  <2>5. CASE DpcDisconnect(d) BY <2>5, DpcDisconnectInv
  <2>6. CASE DpcInterrupt(d) BY <2>6, DpcInterruptInv
  <2>7. CASE DpcCheckState(d) BY <2>7, DpcCheckStateInv
  <2>8. CASE DpcRearm(d) BY <2>8, DpcRearmInv
  <2>9. CASE DpcLeave(d) BY <2>9, DpcLeaveInv
  <2>10. QED BY <1>4, <2>1, <2>2, <2>3, <2>4, <2>5, <2>6, <2>7, <2>8, <2>9
             DEF DpcStep
<1>5. CASE TimerExpires BY <1>5, TimerExpiresInv
<1>6. CASE \E connected \in BOOLEAN : SetClientConnected(connected)
  BY <1>6, SetClientConnectedInv
<1>7. CASE HeartbeatTimeoutPasses BY <1>7, HeartbeatTimeoutPassesInv
<1>8. CASE UNCHANGED vars BY <1>8, StutterInv
<1>9. QED BY <1>1, <1>2, <1>3, <1>4, <1>5, <1>6, <1>7, <1>8 DEF Next

(* The invariant holds in every state the exchange reaches, whatever the   *)
(* number of threads, processors, buffers and frames.                      *)
THEOREM IndInvHolds == Spec => []IndInv
BY InitInv, NextInv, PTL DEF Spec

-----------------------------------------------------------------------------
(* What follows from it.                                                   *)

(* Every variable of the hardware, in every state, has its type.           *)
THEOREM TypeCorrect == Spec => []TypeOK
<1>1. IndInv => TypeOK BY DEF IndInv
<1>2. QED BY <1>1, IndInvHolds, PTL

(* The activity counters say exactly who is at work, and no two uploads    *)
(* are ever admitted together (m_FrameWriteActive is tested and            *)
(* incremented in one section under m_FrameLock).                          *)
THEOREM CountersAreExact == Spec => []CountersExact
<1>1. ASSUME UploadsCounted PROVE Cardinality(Uploads) <= 1
  <2>1. CASE Uploads = {} BY <2>1, FS_EmptySet
  <2>2. CASE Uploads # {}
    <3>1. PICK u \in Uploads : TRUE BY <2>2
    <3>2. Uploads = {u} BY <1>1, <3>1 DEF UploadsCounted
    <3>3. QED BY <3>2, FS_Singleton
  <2>3. QED BY <2>1, <2>2
<1>2. IndInv => CountersExact
  BY <1>1 DEF IndInv, CountersExact, ReadsCounted, PinnedReads, DpcsCounted,
              CountedDpcs, UploadsCounted, Uploads
<1>3. QED BY <1>2, IndInvHolds, PTL

(* Stop frees no buffer that a pinned read, an admitted upload, a DPC or   *)
(* the object itself can still reach.                                      *)
THEOREM NothingUsedAfterFree == Spec => []NoUseAfterFree
<1>1. ASSUME IndInv PROVE NoUseAfterFree
  <2>1. \A b \in Live : b \in Buf
    BY <1>1 DEF IndInv, TypeOK, Live
  <2>2. \A b \in Live : heap[b] # Freed
    BY <1>1, <2>1 DEF IndInv, Reachable
  <2>3. \A r \in Role : buf[r] # NoBuf => buf[r] \in Live
    BY DEF Live
  <2>4. QED BY <1>1, <2>2, <2>3 DEF IndInv, Reachable, NoUseAfterFree
<1>2. QED BY <1>1, IndInvHolds, PTL

(* No read ever holds a half-written or blank buffer: a copy of the frame  *)
(* delivers one uploaded frame, or the placeholder.                        *)
THEOREM WholeFramesRead == Spec => []ReadersSeeWholeFrames
<1>1. IndInv => ReadersSeeWholeFrames BY DEF IndInv, ContentsWhole
<1>2. QED BY <1>1, IndInvHolds, PTL

(* The buffer an upload converts into is written by nobody else and read   *)
(* by nobody, also while a Stop waits for that upload.                     *)
THEOREM StagingIsOwned == Spec => []UploaderOwnsStaging
<1>1. ASSUME IndInv, NEW u \in Uploader, upPc[u] \in Staged
      PROVE  /\ upStage[u] \in Buf
             /\ \A p \in Pin : pin[p] # upStage[u]
             /\ \A d \in Dpc : dpcSynth[d] # upStage[u]
             /\ buf["temporary"] # upStage[u]
             /\ buf["default"] # upStage[u]
  <2>1. upStage[u] \in Buf
    BY <1>1 DEF IndInv, TypeOK, PositionsConsistent, Staged
  <2>2. /\ HasBuffers => upStage[u] = buf["staging"]
        /\ \A p \in Pin : pin[p] # upStage[u]
        /\ \A d \in Dpc : dpcSynth[d] # upStage[u]
    BY <1>1 DEF IndInv, StagingOwned
  <2>3. buf["temporary"] # upStage[u] /\ buf["default"] # upStage[u]
    BY <1>1, <2>1, <2>2, SpecialValues DEF IndInv, BuffersConsistent, Role
  <2>4. QED BY <2>1, <2>2, <2>3
<1>2. IndInv => UploaderOwnsStaging
  BY <1>1 DEF UploaderOwnsStaging, Staged
<1>3. QED BY <1>2, IndInvHolds, PTL

(* Once Stop or Pause has returned, no DPC is copying a frame or calling   *)
(* the capture sink.                                                       *)
THEOREM InterruptsCease == Spec => []NoInterruptAfterStop
<1>1. IndInv => NoInterruptAfterStop
  BY DEF IndInv, TypeOK, Quiet, PausedQuiet, Interrupting,
         NoInterruptAfterStop
<1>2. QED BY <1>1, IndInvHolds, PTL

(* Once Stop has returned, no upload and no read of the old run is left,   *)
(* and every buffer of the pool is free again.                             *)
THEOREM QuietAfterStop == Spec => []StoppedIsQuiet
<1>1. ASSUME IndInv, ctl = "idle", hardwareState = "Stopped"
      PROVE  Allocated = {}
  <2>1. ctlFree = {} /\ ~HasBuffers
    BY <1>1 DEF IndInv, ControlConsistent, Draining, HasBuffers
  <2>2. Live = {}
    BY <1>1, <2>1 DEF IndInv, BuffersConsistent, Live
  <2>3. QED BY <1>1, <2>2 DEF IndInv, Reachable, Allocated
<1>2. IndInv => StoppedIsQuiet
  BY <1>1 DEF IndInv, Quiet, Draining, StoppedIsQuiet
<1>3. QED BY <1>2, IndInvHolds, PTL

-----------------------------------------------------------------------------
(* The exchange implements the mailbox.                                    *)

(* The mailbox does not move when no buffer, no pin and not the state of   *)
(* the hardware changes.                                                   *)
LEMMA MailboxStutters ==
  ASSUME UNCHANGED <<hardwareState, buf, heap, pin>>
  PROVE  UNCHANGED Mailbox!mailboxVars
BY DEF Mailbox!mailboxVars, latestFrame, pictureHeld

(* Pinning a buffer that is shown takes a picture; pinning none is no      *)
(* step.                                                                   *)
LEMMA PinTakes ==
  ASSUME IndInv, NEW p \in Pin, pin[p] = NoBuf, hardwareState = "Running",
         NEW b, b \in {NoBuf, buf["temporary"], buf["default"]},
         b # NoBuf => heap[b] \in Frame \cup {Placeholder},
         PinBuf(p, b), UNCHANGED <<hardwareState, buf, heap>>
  PROVE  [Mailbox!MailboxNext]_(Mailbox!mailboxVars)
<1>1. CASE b = NoBuf
  <2>1. pin' = pin BY <1>1 DEF PinBuf, IndInv, TypeOK
  <2>2. QED BY <2>1, MailboxStutters
<1>2. CASE b # NoBuf
  <2>1. /\ pictureHeld' = [pictureHeld EXCEPT ![p] = heap[b]]
        /\ pictureHeld[p] = Freed
    BY <1>2 DEF PinBuf, pictureHeld, IndInv, TypeOK
  <2>2. latestFrame' = latestFrame BY DEF latestFrame
  <2>3. HasBuffers BY DEF HasBuffers
  <2>4. heap[buf["default"]] = Placeholder
    BY <2>3 DEF IndInv, ContentsWhole
  <2>5. heap[b] \in {Placeholder, latestFrame}
    BY <1>2, <2>4 DEF latestFrame
  <2>6. heap[b] # Freed BY <1>2, SpecialValues
  <2>7. Mailbox!Take(p)
    BY <2>1, <2>2, <2>5, <2>6 DEF Mailbox!Take
  <2>8. QED BY <2>7 DEF Mailbox!MailboxNext
<1>3. QED BY <1>1, <1>2

(* Unpinning drops the picture.                                            *)
LEMMA UnpinDrops ==
  ASSUME IndInv, NEW p \in Pin, Unpin(p),
         UNCHANGED <<hardwareState, buf, heap>>
  PROVE  Mailbox!MailboxNext
<1>1. pictureHeld' = [pictureHeld EXCEPT ![p] = Freed]
  BY DEF Unpin, pictureHeld, IndInv, TypeOK
<1>2. latestFrame' = latestFrame BY DEF latestFrame
<1>3. Mailbox!Drop(p) BY <1>1, <1>2 DEF Mailbox!Drop
<1>4. QED BY <1>3 DEF Mailbox!MailboxNext

(* Writing a buffer that is neither pinned nor shown goes unnoticed.       *)
LEMMA UnseenWrite ==
  ASSUME IndInv, NEW u \in Uploader, upPc[u] \in Staged,
         \A x \in Buf : x # upStage[u] => heap'[x] = heap[x],
         UNCHANGED <<hardwareState, buf, pin>>
  PROVE  UNCHANGED Mailbox!mailboxVars
<1>1. \A p \in Pin : pin[p] # NoBuf => heap'[pin[p]] = heap[pin[p]]
  BY DEF IndInv, TypeOK, StagingOwned
<1>2. pictureHeld' = pictureHeld
  BY <1>1 DEF pictureHeld
<1>3. buf["temporary"] # NoBuf => buf["temporary"] \in Buf \ {upStage[u]}
  <2>1. SUFFICES ASSUME buf["temporary"] # NoBuf
                 PROVE  buf["temporary"] \in Buf \ {upStage[u]}
    OBVIOUS
  <2>2. "temporary" \in Role /\ "staging" \in Role BY DEF Role
  <2>3. HasBuffers BY <2>1, <2>2 DEF IndInv, BuffersConsistent
  <2>4. upStage[u] = buf["staging"] BY <2>3 DEF IndInv, StagingOwned
  <2>5. QED BY <2>1, <2>2, <2>3, <2>4 DEF IndInv, TypeOK, BuffersConsistent
<1>4. latestFrame' = latestFrame
  BY <1>3 DEF latestFrame
<1>5. QED BY <1>2, <1>4 DEF Mailbox!mailboxVars

(* Each step of the control calls is a step of the mailbox, or none.       *)
LEMMA ControlImplements ==
  ASSUME IndInv, Control
  PROVE  [Mailbox!MailboxNext]_(Mailbox!mailboxVars)
<1>0. "temporary" \in Role BY DEF Role
<1>1. CASE StartAllocate
  <2>1. \A p \in Pin : pin[p] = NoBuf
    BY <1>1 DEF IndInv, StartAllocate, Quiet, Draining
  <2>2. pictureHeld' = pictureHeld
    BY <1>1, <2>1 DEF StartAllocate, pictureHeld
  <2>3. buf["temporary"] = NoBuf
    BY <1>0, <1>1 DEF IndInv, StartAllocate, BuffersConsistent, HasBuffers
  <2>4. heap'[buf'["temporary"]] \notin Frame
    BY <1>1, AllocationsDisjoint, SpecialValues DEF StartAllocate, Role
  <2>5. latestFrame' = latestFrame BY <2>3, <2>4 DEF latestFrame
  <2>6. QED BY <1>1, <2>2, <2>5 DEF StartAllocate, Mailbox!mailboxVars
<1>2. CASE StartRun \/ Resume
  <2>1. UNCHANGED <<buf, heap, pin>> /\ hardwareState # "Running"
        /\ hardwareState' = "Running"
    BY <1>2 DEF StartRun, Resume, IndInv, ControlConsistent
  <2>2. Mailbox!Open
    BY <2>1 DEF Mailbox!Open, latestFrame, pictureHeld
  <2>3. QED BY <2>2 DEF Mailbox!MailboxNext
<1>3. CASE PauseLocked
  <2>1. CASE hardwareState = "Running"
    <3>1. Mailbox!Close
      BY <1>3, <2>1 DEF PauseLocked, Mailbox!Close, latestFrame, pictureHeld
    <3>2. QED BY <3>1 DEF Mailbox!MailboxNext
  <2>2. CASE hardwareState # "Running"
    BY <1>3, <2>2, MailboxStutters DEF PauseLocked
  <2>3. QED BY <2>1, <2>2
<1>4. CASE StopLocked
  <2>1. /\ hardwareState' = "Stopped" /\ buf'["temporary"] = NoBuf
        /\ UNCHANGED <<heap, pin>>
    BY <1>0, <1>4 DEF StopLocked
  <2>2. Mailbox!Forget
    BY <2>1 DEF Mailbox!Forget, latestFrame, pictureHeld
  <2>3. QED BY <2>2 DEF Mailbox!MailboxNext
<1>5. CASE StopReturn
  <2>1. \A p \in Pin : pin[p] = NoBuf
    BY <1>5, NoReads DEF IndInv, StopReturn
  <2>2. pictureHeld' = pictureHeld
    BY <1>5, <2>1 DEF StopReturn, pictureHeld
  <2>3. buf["temporary"] = NoBuf
    BY <1>0, <1>5
       DEF IndInv, StopReturn, ControlConsistent, BuffersConsistent, HasBuffers,
           Draining
  <2>4. latestFrame' = latestFrame
    BY <1>5, <2>3 DEF StopReturn, latestFrame
  <2>5. QED BY <1>5, <2>2, <2>4 DEF StopReturn, Mailbox!mailboxVars
<1>6. CASE StartFail \/ ArmTimer \/ CancelTimer \/ RemoveQueuedDpc
           \/ PauseReturn \/ StopSeesNoDpc \/ StopReadsWrites
           \/ StopSeesReader
  BY <1>6, MailboxStutters
     DEF StartFail, ArmTimer, CancelTimer, RemoveQueuedDpc, PauseReturn,
         StopSeesNoDpc, StopReadsWrites, StopSeesReader
<1>7. QED BY <1>1, <1>2, <1>3, <1>4, <1>5, <1>6 DEF Control

(* Each step of an upload is one, too: the swap publishes the frame.       *)
LEMMA UploadImplements ==
  ASSUME IndInv, NEW u \in Uploader, BeginUpload(u) \/ UploadStep(u)
  PROVE  [Mailbox!MailboxNext]_(Mailbox!mailboxVars)
<1>1. CASE BeginConvert(u) \/ EndConvert(u)
  <2>1. upPc[u] \in Staged
    BY <1>1 DEF BeginConvert, EndConvert, Staged
  <2>2. \A x \in Buf : x # upStage[u] => heap'[x] = heap[x]
    BY <1>1 DEF IndInv, TypeOK, BeginConvert, EndConvert
  <2>3. UNCHANGED <<hardwareState, buf, pin>>
    BY <1>1 DEF BeginConvert, EndConvert
  <2>4. QED BY <2>1, <2>2, <2>3, UnseenWrite
<1>2. CASE Publish(u)
  <2>1. heap[upStage[u]] = upFrame[u] /\ upFrame[u] \in Frame
    BY <1>2 DEF IndInv, TypeOK, ContentsWhole, Publish
  <2>2. buf'["temporary"] = upStage[u] /\ upStage[u] # NoBuf
    BY <1>2 DEF IndInv, TypeOK, PositionsConsistent, Publish, Role
  <2>3. latestFrame' = upFrame[u]
    BY <1>2, <2>1, <2>2 DEF latestFrame, Publish
  <2>4. Mailbox!PublishFrame(upFrame[u])
    BY <1>2, <2>3
       DEF Publish, MayPublish, Mailbox!PublishFrame, pictureHeld
  <2>5. QED BY <2>1, <2>4 DEF Mailbox!MailboxNext
<1>3. CASE BeginUpload(u) \/ RefuseSource(u) \/ SeeNoReader(u)
           \/ FailToPublish(u) \/ AccountUpload(u) \/ EndUpload(u)
  BY <1>3, MailboxStutters
     DEF BeginUpload, RefuseSource, SeeNoReader, FailToPublish, AccountUpload,
         EndUpload
<1>4. QED BY <1>1, <1>2, <1>3 DEF UploadStep

(* What a running exchange shows is one of the two buffers that hold a     *)
(* picture.                                                                *)
LEMMA SourceIsPicture ==
  ASSUME IndInv, hardwareState = "Running"
  PROVE  /\ SourceFrame \in {buf["temporary"], buf["default"]}
         /\ heap[SourceFrame] \in Frame \cup {Placeholder}
<1>1. HasBuffers BY DEF HasBuffers
<1>2. buf["temporary"] # NoBuf /\ buf["default"] # NoBuf
  BY <1>1 DEF IndInv, BuffersConsistent, Role
<1>3. QED BY <1>1, <1>2 DEF IndInv, ContentsWhole, SourceFrame

(* Each step of a copy is one: a pin takes, an unpin drops.                *)
LEMMA CopyImplements ==
  ASSUME IndInv, NEW r \in Reader,
         BeginCopy(r) \/ BeginCopyWithoutHeader(r) \/ CopyStep(r)
  PROVE  [Mailbox!MailboxNext]_(Mailbox!mailboxVars)
<1>0. <<r, "outer">> \in Pin /\ <<r, "inner">> \in Pin BY DEF Pin
<1>1. CASE BeginCopy(r)
  <2>1. DEFINE b == IF uploadAccepted THEN buf["temporary"] ELSE NoBuf
  <2>2. HasBuffers BY <1>1 DEF BeginCopy, HasBuffers
  <2>3. /\ b \in {NoBuf, buf["temporary"], buf["default"]}
        /\ b # NoBuf => heap[b] \in Frame \cup {Placeholder}
    BY <2>2 DEF IndInv, ContentsWhole
  <2>4. /\ pin[<<r, "outer">>] = NoBuf /\ hardwareState = "Running"
        /\ PinBuf(<<r, "outer">>, b) /\ UNCHANGED <<hardwareState, buf, heap>>
    BY <1>1 DEF BeginCopy, IndInv, PositionsConsistent
  <2>5. QED BY <1>0, <2>3, <2>4, PinTakes
<1>2. CASE PinSource(r)
  <2>1. /\ pin[<<r, "inner">>] = NoBuf /\ hardwareState = "Running"
        /\ PinBuf(<<r, "inner">>, SourceFrame)
        /\ UNCHANGED <<hardwareState, buf, heap>>
    BY <1>2 DEF PinSource, IndInv, PositionsConsistent
  <2>2. QED BY <1>0, <2>1, SourceIsPicture, PinTakes
<1>3. CASE EndDirectCopy(r)
  BY <1>0, <1>3, UnpinDrops DEF EndDirectCopy
<1>4. CASE EndCopy(r)
  BY <1>0, <1>4, UnpinDrops DEF EndCopy
<1>5. CASE BeginCopyWithoutHeader(r) \/ RefuseCopy(r)
  BY <1>5, MailboxStutters DEF BeginCopyWithoutHeader, RefuseCopy
<1>6. QED BY <1>1, <1>2, <1>3, <1>4, <1>5 DEF CopyStep

(* Each step of a DPC is one.                                              *)
LEMMA DpcImplements ==
  ASSUME IndInv, NEW d \in Dpc, DpcDispatch(d) \/ DpcStep(d)
  PROVE  [Mailbox!MailboxNext]_(Mailbox!mailboxVars)
<1>0. <<d, "dpc">> \in Pin BY DEF Pin
<1>1. CASE DpcSnapshot(d)
  <2>1. CASE hardwareState = "Running"
    <3>1. /\ pin[<<d, "dpc">>] = NoBuf /\ PinBuf(<<d, "dpc">>, SourceFrame)
          /\ UNCHANGED <<hardwareState, buf, heap>>
      BY <1>1, <2>1 DEF DpcSnapshot, IndInv, PositionsConsistent
    <3>2. QED BY <1>0, <2>1, <3>1, SourceIsPicture, PinTakes
  <2>2. CASE hardwareState # "Running"
    BY <1>1, <2>2, MailboxStutters DEF DpcSnapshot
  <2>3. QED BY <2>1, <2>2
<1>2. CASE DpcEndCopy(d)
  BY <1>0, <1>2, UnpinDrops DEF DpcEndCopy
<1>3. CASE DpcDispatch(d) \/ DpcCount(d) \/ DpcDisconnect(d)
           \/ DpcInterrupt(d) \/ DpcCheckState(d) \/ DpcRearm(d)
           \/ DpcLeave(d)
  BY <1>3, MailboxStutters
     DEF DpcDispatch, DpcCount, DpcDisconnect, DpcInterrupt, DpcCheckState,
         DpcRearm, DpcLeave
<1>4. QED BY <1>1, <1>2, <1>3 DEF DpcStep

(* The frame exchange implements the mailbox: a reader that has pinned a   *)
(* buffer holds one whole picture, the placeholder or the frame published  *)
(* last, and nobody changes it before the reader lets it go.               *)
THEOREM ExchangeImplementsMailbox == Spec => MailboxImplemented
<1>1. Init => Mailbox!MailboxInit
  BY DEF Init, Mailbox!MailboxInit, latestFrame, pictureHeld, Role
<1>2. ASSUME IndInv, [Next]_vars
      PROVE  [Mailbox!MailboxNext]_(Mailbox!mailboxVars)
  <2>1. CASE TimerExpires BY <2>1, MailboxStutters DEF TimerExpires
  <2>2. CASE \E connected \in BOOLEAN : SetClientConnected(connected)
    BY <2>2, MailboxStutters DEF SetClientConnected
  <2>3. CASE HeartbeatTimeoutPasses
    BY <2>3, MailboxStutters DEF HeartbeatTimeoutPasses
  <2>4. CASE UNCHANGED vars BY <2>4, MailboxStutters DEF vars
  <2>5. QED BY <1>2, <2>1, <2>2, <2>3, <2>4, ControlImplements,
               UploadImplements, CopyImplements, DpcImplements DEF Next
<1>3. QED
  BY <1>1, <1>2, IndInvHolds, PTL
     DEF Spec, MailboxImplemented, Mailbox!MailboxSpec
=============================================================================
