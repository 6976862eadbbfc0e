------------------------- MODULE SharedObjectProofs -------------------------
(***************************************************************************)
(* Proofs about what a process leaves and another finds: the status page   *)
(* of a producer (StatusPage), the event that the driver sets for the      *)
(* watcher (Watcher), and the machine as the setup wizard's operations,    *)
(* finished or not, have left it (Setup).                                  *)
(*                                                                         *)
(* The page: its invariant, and that it implements PublishedStatus, for    *)
(* any number of fields, readers, attempts and publications.  The event:   *)
(* the watcher's service launches nothing it was not asked for, for any    *)
(* number of streams, users and restarts.  The wizard: what it reports is  *)
(* true, and an installation that is repeated heals, for any number of     *)
(* operations, device nodes and boots.                                     *)
(***************************************************************************)
EXTENDS StatusPage, Watcher, Setup, TLAPS

(* The sequence number of a whole page is even, the one of a page that is  *)
(* being written is odd.                                                   *)
LEMMA Parity ==
  ASSUME NEW n \in Nat
  PROVE  /\ ~Odd(2 * n) /\ (2 * n) \div 2 = n
         /\ n > 0 => Odd(2 * n - 1) /\ (2 * n - 1) \div 2 = n - 1
  BY DEF Odd

(* The invariant holds at first.                                           *)
LEMMA InitCorrect == ASSUME PageInit PROVE PageCorrect
  BY StatusPageConstants, Parity
     DEF PageInit, PageCorrect, PageTypeOK, PageWhole, CopiesWhole, Writer,
         Reader

(* A publication begins: the number is marked.                             *)
LEMMA BeginWriteCorrect ==
  ASSUME PageCorrect, BeginWrite
  PROVE  PageCorrect'
<1>1. publishSequence = 2 * frameCount /\ frameCount \in Nat
  BY StatusPageConstants DEF PageCorrect, PageWhole, PageTypeOK, BeginWrite
<1>2. publishSequence' = 2 * frameCount' - 1 /\ frameCount' = frameCount + 1
  BY <1>1, Parity DEF BeginWrite, Marked
<1>3. PageTypeOK'
  BY <1>1, <1>2, StatusPageConstants
     DEF PageCorrect, PageTypeOK, BeginWrite, Writer
<1>4. PageWhole'
  BY <1>1, <1>2 DEF BeginWrite, PageWhole
<1>5. CopiesWhole'
  BY <1>1, <1>2
     DEF PageCorrect, CopiesWhole, BeginWrite, PageTypeOK, Reader
<1>. QED BY <1>3, <1>4, <1>5 DEF PageCorrect

(* A field is written under an odd number, which no reader has begun with. *)
LEMMA WriteFieldCorrect ==
  ASSUME PageCorrect, NEW f \in Fields, WriteField(f)
  PROVE  PageCorrect'
<1>1. PageTypeOK'
  BY StatusPageConstants DEF PageCorrect, PageTypeOK, WriteField, Writer
<1>2. PageWhole'
  BY DEF PageCorrect, PageTypeOK, PageWhole, WriteField, Writer
<1>3. CopiesWhole'
  BY DEF PageCorrect, CopiesWhole, WriteField
<1>. QED BY <1>1, <1>2, <1>3 DEF PageCorrect

(* The publication ends: all fields are written, and the number is even,   *)
(* and higher than what any reader has begun with.                         *)
LEMMA EndWriteCorrect ==
  ASSUME PageCorrect, EndWrite
  PROVE  PageCorrect'
<1>1. /\ publishSequence = 2 * frameCount - 1 /\ frameCount \in Nat
      /\ frameCount > 0
  BY StatusPageConstants DEF PageCorrect, PageWhole, PageTypeOK, EndWrite
<1>2. publishSequence' = 2 * frameCount /\ frameCount' = frameCount
  BY <1>1 DEF EndWrite
<1>3. PageTypeOK'
  BY <1>1, <1>2, StatusPageConstants
     DEF PageCorrect, PageTypeOK, EndWrite, Writer
<1>4. PageWhole'
  BY <1>1, <1>2 DEF PageCorrect, PageWhole, EndWrite
<1>5. ASSUME NEW r \in Readers, reader[r].at = "copy"
      PROVE  /\ reader[r].attempt < Attempts /\ ~Odd(reader[r].begin)
             /\ reader[r].begin <= publishSequence'
             /\ reader[r].begin # publishSequence'
  BY <1>1, <1>2, <1>5 DEF PageCorrect, CopiesWhole, PageTypeOK, Reader
<1>6. CopiesWhole'
  BY <1>5 DEF CopiesWhole, EndWrite
<1>. QED BY <1>3, <1>4, <1>6 DEF PageCorrect

(* The producer dies between any two of its steps.                         *)
LEMMA DieCorrect ==
  ASSUME PageCorrect, Die
  PROVE  PageCorrect'
  BY DEF PageCorrect, PageTypeOK, PageWhole, CopiesWhole, Die, Writer

(* A page with an even number is whole.                                    *)
LEMMA EvenIsWhole ==
  ASSUME PageCorrect, ~Odd(publishSequence)
  PROVE  /\ frameCount \in Nat /\ publishSequence = 2 * frameCount
         /\ \A f \in Fields : page[f] = frameCount
<1>1. frameCount \in Nat
  BY StatusPageConstants DEF PageCorrect, PageTypeOK
<1>2. ~(frameCount > 0 /\ publishSequence = 2 * frameCount - 1)
  BY <1>1, Parity
<1>. QED BY <1>1, <1>2 DEF PageCorrect, PageWhole, PageTypeOK, Writer

(* A step of one reader is correct if what the reader has afterwards is.   *)
LEMMA ReaderStep ==
  ASSUME PageCorrect, NEW r \in Readers, NEW new \in Reader,
         reader' = [reader EXCEPT ![r] = new],
         UNCHANGED <<publishSequence, page, writer, frameCount>>,
         given' \in [Readers -> Nat \cup {Nothing}],
         new.at = "copy" =>
           /\ new.attempt < Attempts
           /\ ~Odd(new.begin) /\ new.begin <= publishSequence
           /\ new.begin = publishSequence =>
                \A f \in new.copied : 2 * new.snapshot[f] = publishSequence
  PROVE  PageCorrect'
<1>1. PageTypeOK'
  BY DEF PageCorrect, PageTypeOK
<1>2. PageWhole'
  BY DEF PageCorrect, PageWhole
<1>3. ASSUME NEW q \in Readers
      PROVE  reader'[q] = IF q = r THEN new ELSE reader[q]
  BY DEF PageCorrect, PageTypeOK
<1>4. CopiesWhole'
  BY <1>3 DEF PageCorrect, CopiesWhole
<1>. QED BY <1>1, <1>2, <1>4 DEF PageCorrect

(* The steps of a reader that copy nothing.                                *)
LEMMA OtherReadsCorrect ==
  ASSUME PageCorrect, NEW r \in Readers,
         Call(r) \/ GiveUp(r) \/ BeginRead(r) \/ EndRead(r)
  PROVE  PageCorrect'
<1>0. /\ reader[r] \in Reader /\ publishSequence \in Nat /\ Attempts \in Nat
      /\ given \in [Readers -> Nat \cup {Nothing}]
  BY StatusPageConstants DEF PageCorrect, PageTypeOK
<1>1. CASE Call(r)
  <2>. DEFINE new == [reader[r] EXCEPT !.at = "begin", !.attempt = 0]
  <2>1. 0 \in 0 .. Attempts
    BY <1>0
  <2>2. new \in Reader /\ new.at = "begin"
    BY <1>0, <2>1 DEF Reader
  <2>3. reader' = [reader EXCEPT ![r] = new]
    BY <1>1 DEF Call, Goes
  <2>. QED BY <1>0, <1>1, <2>2, <2>3, ReaderStep DEF Call
<1>2. CASE GiveUp(r)
  <2>. DEFINE new == [reader[r] EXCEPT !.at = "idle"]
  <2>1. new \in Reader /\ new.at = "idle"
    BY <1>0 DEF Reader
  <2>2. reader' = [reader EXCEPT ![r] = new]
    BY <1>2 DEF GiveUp, Goes
  <2>3. given' \in [Readers -> Nat \cup {Nothing}]
    BY <1>0, <1>2 DEF GiveUp
  <2>. QED BY <1>2, <2>1, <2>2, <2>3, ReaderStep DEF GiveUp
<1>3. CASE BeginRead(r) /\ Odd(publishSequence)
  <2>. DEFINE new == [reader[r] EXCEPT !.attempt = reader[r].attempt + 1]
  <2>1. new \in Reader /\ new.at = "begin"
    BY <1>0, <1>3 DEF Reader, BeginRead
  <2>2. reader' = [reader EXCEPT ![r] = new]
    BY <1>3 DEF BeginRead, Goes
  <2>. QED BY <1>0, <1>3, <2>1, <2>2, ReaderStep DEF BeginRead
<1>4. CASE BeginRead(r) /\ ~Odd(publishSequence)
  <2>. DEFINE new == [reader[r] EXCEPT !.at = "copy", !.copied = {},
                                       !.begin = publishSequence]
  <2>1. /\ new \in Reader /\ new.attempt < Attempts
        /\ new.begin = publishSequence /\ new.copied = {}
    BY <1>0, <1>4 DEF Reader, BeginRead
  <2>2. reader' = [reader EXCEPT ![r] = new]
    BY <1>4 DEF BeginRead, Goes
  <2>3. ~Odd(new.begin) /\ new.begin <= publishSequence
    BY <1>0, <1>4, <2>1
  <2>4. \A f \in new.copied : 2 * new.snapshot[f] = publishSequence
    BY <2>1
  <2>5. UNCHANGED <<publishSequence, page, writer, frameCount, given>>
    BY <1>4 DEF BeginRead
  <2>. HIDE DEF new
  <2>. QED BY <1>0, <2>1, <2>2, <2>3, <2>4, <2>5, ReaderStep
<1>5. CASE EndRead(r) /\ Stable(r)
  <2>. DEFINE new == [reader[r] EXCEPT !.at = "idle"]
  <2>1. new \in Reader /\ new.at = "idle"
    BY <1>0 DEF Reader
  <2>2. reader' = [reader EXCEPT ![r] = new]
    BY <1>5 DEF EndRead, Goes
  <2>3. given' \in [Readers -> Nat \cup {Nothing}]
    BY <1>0, <1>5 DEF EndRead, Reader
  <2>. QED BY <1>5, <2>1, <2>2, <2>3, ReaderStep DEF EndRead
<1>6. CASE EndRead(r) /\ ~Stable(r)
  <2>. DEFINE new == [reader[r] EXCEPT !.at = "begin", !.attempt = reader[r].attempt + 1]
  <2>1. reader[r].attempt < Attempts
    BY <1>6 DEF EndRead, PageCorrect, CopiesWhole
  <2>2. reader[r].attempt + 1 \in 0 .. Attempts
    BY <1>0, <2>1 DEF Reader
  <2>3. new \in Reader /\ new.at = "begin"
    BY <1>0, <2>2 DEF Reader
  <2>4. reader' = [reader EXCEPT ![r] = new]
    BY <1>6 DEF EndRead, Goes
  <2>. QED BY <1>0, <1>6, <2>3, <2>4, ReaderStep DEF EndRead
<1>. QED BY <1>1, <1>2, <1>3, <1>4, <1>5, <1>6

(* A field is copied; if the number is still the one the reader has begun  *)
(* with, the page is whole and its fields of the publication of that       *)
(* number.                                                                 *)
LEMMA CopyFieldCorrect ==
  ASSUME PageCorrect, NEW r \in Readers, NEW f \in Fields, CopyField(r, f)
  PROVE  PageCorrect'
<1>. DEFINE new == [reader[r] EXCEPT !.copied = reader[r].copied \cup {f},
                                     !.snapshot[f] = page[f]]
<1>0. /\ reader[r] \in Reader /\ publishSequence \in Nat
      /\ page[f] \in Nat /\ reader[r].at = "copy"
      /\ given \in [Readers -> Nat \cup {Nothing}]
  BY DEF PageCorrect, PageTypeOK, CopyField
<1>1. reader' = [reader EXCEPT ![r] = new]
  BY DEF CopyField, Goes
<1>2. /\ new.at = "copy" /\ new.begin = reader[r].begin
      /\ new.attempt = reader[r].attempt
      /\ new.copied = reader[r].copied \cup {f}
      /\ new.snapshot = [reader[r].snapshot EXCEPT ![f] = page[f]]
  BY <1>0 DEF Reader
<1>3. new \in Reader
  BY <1>0 DEF Reader
<1>4. /\ reader[r].attempt < Attempts
      /\ ~Odd(reader[r].begin) /\ reader[r].begin <= publishSequence
      /\ reader[r].begin = publishSequence =>
           \A g \in reader[r].copied :
             2 * reader[r].snapshot[g] = publishSequence
  BY <1>0 DEF PageCorrect, CopiesWhole
<1>5. reader[r].begin = publishSequence => 2 * page[f] = publishSequence
  BY <1>4, EvenIsWhole
<1>6. ASSUME new.begin = publishSequence, NEW g \in new.copied
      PROVE  2 * new.snapshot[g] = publishSequence
  <2>1. reader[r].snapshot \in [Fields -> Nat] /\ reader[r].copied \subseteq Fields
    BY <1>0 DEF Reader
  <2>. HIDE DEF new
  <2>2. CASE g = f
    BY <1>2, <1>5, <1>6, <2>1, <2>2
  <2>3. CASE g # f
    BY <1>2, <1>4, <1>6, <2>1, <2>3
  <2>. QED BY <2>2, <2>3
<1>. HIDE DEF new
<1>. QED BY <1>0, <1>1, <1>2, <1>3, <1>4, <1>6, ReaderStep DEF CopyField

(* Every step preserves the invariant.                                     *)
LEMMA NextCorrect ==
  ASSUME PageCorrect, [PageNext]_pageVars
  PROVE  PageCorrect'
<1>1. CASE UNCHANGED pageVars
  BY <1>1 DEF pageVars, PageCorrect, PageTypeOK, PageWhole, CopiesWhole
<1>2. CASE PageNext
  BY <1>2, BeginWriteCorrect, WriteFieldCorrect, EndWriteCorrect, DieCorrect,
     OtherReadsCorrect, CopyFieldCorrect DEF PageNext, Publish, Read
<1>. QED BY <1>1, <1>2

(* The page is always correct: types, whole pages have even numbers, and   *)
(* what a reader has copied while the number stood still is of one         *)
(* publication, wherever the producer and the readers are.                 *)
THEOREM PageIsCorrect == PageSpec => []PageCorrect
<1>1. PageInit => PageCorrect
  BY InitCorrect
<1>2. PageCorrect /\ [PageNext]_pageVars => PageCorrect'
  BY NextCorrect
<1>. QED BY <1>1, <1>2, PTL DEF PageSpec

-----------------------------------------------------------------------------

(* A step of the page is a step of the promise, or leaves it alone.        *)
LEMMA StepImplements ==
  ASSUME PageCorrect, [PageNext]_pageVars
  PROVE  [Promise!Next]_(Promise!vars)
<1>0. frameCount \in Nat /\ publishSequence \in Nat
  BY StatusPageConstants DEF PageCorrect, PageTypeOK
<1>1. CASE BeginWrite
  <2>1. publishSequence = 2 * frameCount
    BY <1>1 DEF PageCorrect, PageWhole, BeginWrite
  <2>2. publishSequence' = 2 * (frameCount + 1) - 1
    BY <1>0, <1>1, <2>1, Parity DEF BeginWrite, Marked
  <2>3. publishSequence' \div 2 = publishSequence \div 2
    <3>1. (2 * (frameCount + 1) - 1) \div 2 = (frameCount + 1) - 1
      BY <1>0, Parity
    <3>. QED BY <1>0, <2>1, <2>2, <3>1, Parity
  <2>. QED BY <1>1, <2>3 DEF BeginWrite, Promise!vars
<1>2. CASE EndWrite
  <2>1. publishSequence = 2 * frameCount - 1 /\ frameCount > 0
    BY <1>2 DEF PageCorrect, PageWhole, EndWrite
  <2>2. publishSequence' = 2 * frameCount
    BY <1>0, <1>2, <2>1 DEF EndWrite
  <2>3. publishSequence' \div 2 = publishSequence \div 2 + 1
    BY <1>0, <2>1, <2>2, Parity
  <2>. QED BY <1>2, <2>3 DEF EndWrite, Promise!Next, Promise!Publish
<1>3. ASSUME NEW f \in Fields, WriteField(f)
      PROVE  [Promise!Next]_(Promise!vars)
  BY <1>3 DEF WriteField, Promise!vars
<1>4. CASE Die
  BY <1>4 DEF Die, Promise!vars
<1>5. ASSUME NEW r \in Readers, Read(r)
      PROVE  [Promise!Next]_(Promise!vars)
  <2>1. CASE Call(r)
    BY <2>1 DEF Call, Promise!vars
  <2>2. CASE GiveUp(r)
    BY <2>2 DEF GiveUp, Promise!Next, Promise!Refuse
  <2>3. CASE BeginRead(r)
    BY <2>3 DEF BeginRead, Promise!vars
  <2>4. ASSUME NEW f \in Fields, CopyField(r, f)
        PROVE  [Promise!Next]_(Promise!vars)
    BY <2>4 DEF CopyField, Promise!vars
  <2>5. CASE EndRead(r) /\ Stable(r)
    <3>1. PICK f \in Fields :
            given' = [given EXCEPT ![r] = reader[r].snapshot[f]]
      BY <2>5 DEF EndRead
    <3>2. /\ 2 * reader[r].snapshot[f] = publishSequence
          /\ reader[r].snapshot[f] \in Nat
      BY <2>5 DEF EndRead, Stable, PageCorrect, CopiesWhole, PageTypeOK, Reader
    <3>3. reader[r].snapshot[f] = publishSequence \div 2
      BY <3>2, Parity
    <3>4. publishSequence' = publishSequence
      BY <2>5 DEF EndRead
    <3>. QED BY <3>1, <3>3, <3>4 DEF Promise!Next, Promise!Read
  <2>6. CASE EndRead(r) /\ ~Stable(r)
    BY <2>6 DEF EndRead, Promise!vars
  <2>. QED BY <1>5, <2>1, <2>2, <2>3, <2>4, <2>5, <2>6 DEF Read
<1>6. CASE UNCHANGED pageVars
  BY <1>6 DEF pageVars, Promise!vars
<1>. QED BY <1>1, <1>2, <1>3, <1>4, <1>5, <1>6 DEF PageNext, Publish

(* The page implements a status that is replaced as a whole and read at a  *)
(* moment of the call: no reader is given a torn or an old status, however *)
(* many fields, readers and publications there are.                        *)
THEOREM PageImplementsStatus == PageSpec => StatusImplemented
<1>1. PageInit => Promise!Init
  <2>1. 0 \div 2 = 0
    OBVIOUS
  <2>. QED BY <2>1 DEF PageInit, Promise!Init
<1>2. PageCorrect /\ [PageNext]_pageVars => [Promise!Next]_(Promise!vars)
  BY StepImplements
<1>. QED BY <1>1, <1>2, PageIsCorrect, PTL
     DEF PageSpec, StatusImplemented, Promise!Spec

-----------------------------------------------------------------------------
(* The watcher.                                                            *)

(* Where the worker holds its event, which is the global one.              *)
Holding == {"register", "wait", "look", "launch", "reset"}

(* Around the worker's life the service's main thread runs; what it waits  *)
(* on is the global event; and while that is set, a run of the camera is   *)
(* owed an answer, but between the answer and the reset.                   *)
Asked ==
  service =>
    /\ main \notin {"running", "waits"} => pc = "none"
    /\ pc \in Holding => handle = "global"
    /\ named /\ pc # "reset" => owed
    /\ pc \in {"look", "launch"} => owed

(* The invariant holds at first.                                           *)
LEMMA InitAsked == ASSUME Init PROVE Asked
  BY DEF Init, Asked, Holding

(* The driver sets the event for a new run of the camera only.             *)
LEMMA DriverAsked ==
  ASSUME Asked, StreamRuns \/ StreamStops \/ DriverReloads
  PROVE  Asked'
<1>1. CASE StreamRuns
  BY <1>1 DEF Asked, StreamRuns, Notified, workerVars, serviceVars
<1>2. CASE StreamStops
  BY <1>2 DEF Asked, StreamStops, Notified, workerVars, serviceVars
<1>3. CASE DriverReloads
  BY <1>3 DEF Asked, DriverReloads, workerVars, serviceVars
<1>. QED BY <1>1, <1>2, <1>3

(* The worker goes from its top to a wait on the global event.             *)
LEMMA WaitingAsked ==
  ASSUME Asked,
         \/ Top
         \/ CreateNamedClientRequestEventHandle
         \/ CreateNamedClientRequestEventHandleForService
         \/ CreateRegisteredClientRequestEventHandle
         \/ WaitFails
         \/ \E ok \in BOOLEAN : WorkerBegins(ok)
  PROVE  Asked'
<1>1. CASE Top
  BY <1>1 DEF Asked, Holding, Top, Goto, driverVars, serviceVars
<1>2. CASE CreateNamedClientRequestEventHandle
  BY <1>2 DEF Asked, CreateNamedClientRequestEventHandle, Opened
<1>3. CASE CreateNamedClientRequestEventHandleForService
  BY <1>3 DEF Asked, Holding, CreateNamedClientRequestEventHandleForService,
              Opened, Goto, driverVars, serviceVars
<1>4. CASE CreateRegisteredClientRequestEventHandle
  BY <1>4 DEF Asked, Holding, CreateRegisteredClientRequestEventHandle,
              RegisterClientRequestEvent, Goto, eventVars, serviceVars
<1>5. CASE WaitFails
  BY <1>5 DEF Asked, Holding, WaitFails, Goto, serviceVars
<1>6. CASE \E ok \in BOOLEAN : WorkerBegins(ok)
  BY <1>6 DEF Asked, Holding, WorkerBegins, Goto, driverVars, serviceVars
<1>. QED BY <1>1, <1>2, <1>3, <1>4, <1>5, <1>6

(* A wait that ends for a signal ends for a run that is owed an answer,    *)
(* and the event is reset before the next wait.                            *)
LEMMA AnsweringAsked ==
  ASSUME Asked,
         \/ WaitEnds \/ Look \/ Reset
         \/ LaunchVirtuaCamForDriverAccess
         \/ LaunchVirtuaCamForDriverAccessFromService
  PROVE  Asked'
<1>1. CASE WaitEnds
  BY <1>1 DEF Asked, Holding, WaitEnds, Signalled, Goto, driverVars,
              serviceVars
<1>2. CASE Look
  BY <1>2 DEF Asked, Holding, Look, LookFor, Goto, driverVars, serviceVars
<1>3. CASE Reset
  BY <1>3 DEF Asked, Holding, Reset, Goto, serviceVars
<1>4. CASE LaunchVirtuaCamForDriverAccess
  BY <1>4 DEF Asked, LaunchVirtuaCamForDriverAccess, Launched
<1>5. CASE LaunchVirtuaCamForDriverAccessFromService
  BY <1>5 DEF Asked, Holding, LaunchVirtuaCamForDriverAccessFromService,
              Launched, Goto, driverVars, serviceVars
<1>. QED BY <1>1, <1>2, <1>3, <1>4, <1>5

(* The service's main thread begins a worker when there is none.           *)
LEMMA ServiceAsked ==
  ASSUME Asked, StartService \/ Service \/ Control
  PROVE  Asked'
<1>1. CASE StartService
  BY <1>1 DEF Asked, Holding, StartService, mainOnly, driverVars
<1>2. CASE \E event, thread \in BOOLEAN : Begin(event, thread)
  BY <1>2 DEF Asked, Holding, Begin, mainOnly, driverVars
<1>3. CASE Running \/ Joined \/ Stopped
  BY <1>3 DEF Asked, Holding, Running, Joined, Stopped, mainOnly, driverVars
<1>4. CASE ProcessExits
  BY <1>4 DEF Asked, Holding, ProcessExits
<1>5. CASE CtrlPending \/ CtrlSignals \/ Control
  BY <1>5 DEF Asked, Holding, CtrlPending, CtrlSignals, Control, driverVars,
              workerVars
<1>. QED BY <1>1, <1>2, <1>3, <1>4, <1>5 DEF Service

(* Users and applications do not touch the watcher.                        *)
LEMMA UsersAsked ==
  ASSUME Asked,
         \/ UserLaunches \/ (\E a \in App : UserQuits(a))
         \/ DriverStartExits \/ AppEnds \/ SessionChanges \/ ExeChanges
  PROVE  Asked'
<1>1. UNCHANGED appsOnly
  BY DEF UserLaunches, UserQuits, DriverStartExits, AppEnds, SessionChanges,
         ExeChanges
<1>. QED
  BY <1>1 DEF appsOnly, Asked, driverVars, workerVars, serviceVars

(* Every step preserves the invariant.                                     *)
LEMMA NextAsked == ASSUME Asked, [Next]_vars PROVE Asked'
<1>1. CASE Next
  BY <1>1, DriverAsked, WaitingAsked, AnsweringAsked, ServiceAsked, UsersAsked
     DEF Next, Worker
<1>2. CASE UNCHANGED vars
  BY <1>2 DEF vars, Asked, driverVars, workerVars, serviceVars
<1>. QED BY <1>1, <1>2

(* Every launch of the service answers a run of the camera that none has   *)
(* answered before (RunWatcherLoopForService, Process.cpp).                *)
THEOREM NeverUnasked == Spec => []NoLaunchUnasked
<1>1. Init => Asked
  BY InitAsked
<1>2. Asked /\ [Next]_vars => Asked'
  BY NextAsked
<1>3. Asked => NoLaunchUnasked
  BY DEF Asked, NoLaunchUnasked
<1>. QED BY <1>1, <1>2, <1>3, PTL DEF Spec

-----------------------------------------------------------------------------
(* The wizard.                                                             *)

(* The programs of the wizard, step by step.                               *)
LEMMA Lengths ==
  /\ DOMAIN Program = Op
  /\ Len(Program["install"]) = 31 /\ Len(Program["uninstall"]) = 8
  /\ Len(Program["addService"]) = 6 /\ Len(Program["removeService"]) = 2
  /\ Len(Program["launch"]) = 4
  BY DEF Program, Op, InstallDriver, ConfigureWatcherService, FirstRunChecks

LEMMA InstallProgram ==
  LET s == Program["install"]
  IN  /\ s[1] = <<"artifacts", "none">> /\ s[2] = <<"scStop", "none">>
      /\ s[3] = <<"kill", "none">> /\ s[4] = <<"signing", "none">>
      /\ s[5] = <<"removePackage", "camera">>
      /\ s[6] = <<"removePackage", "mic">>
      /\ s[7] = <<"add", "camera">> /\ s[8] = <<"node", "camera">>
      /\ s[9] = <<"bind", "camera">> /\ s[10] = <<"restart", "camera">>
      /\ s[11] = <<"verify", "camera">>
      /\ s[12] = <<"add", "mic">> /\ s[13] = <<"node", "mic">>
      /\ s[14] = <<"bind", "mic">> /\ s[15] = <<"restart", "mic">>
      /\ s[16] = <<"verify", "mic">>
      /\ s[17] = <<"dll", "none">> /\ s[18] = <<"config", "none">>
      /\ s[19] = <<"scStop", "none">> /\ s[20] = <<"scCreate", "none">>
      /\ s[21] = <<"scConfig", "none">> /\ s[22] = <<"scFailure", "none">>
      /\ s[23] = <<"scStart", "none">>
      /\ s[24] = <<"ensure", "settings">> /\ s[25] = <<"look", "device">>
      /\ s[26] = <<"look", "service">> /\ s[27] = <<"look", "camera">>
      /\ s[28] = <<"look", "mic">> /\ s[29] = <<"open", "camera">>
      /\ s[30] = <<"open", "mic">> /\ s[31] = <<"open", "frame">>
  BY DEF Program, InstallDriver, ConfigureWatcherService, FirstRunChecks

LEMMA UninstallProgram ==
  LET s == Program["uninstall"]
  IN  /\ s[1] = <<"scStop", "none">> /\ s[2] = <<"scDelete", "none">>
      /\ s[3] = <<"removePackage", "mic">>
      /\ s[4] = <<"removePackage", "camera">>
      /\ s[5] = <<"removeNode", "mic">> /\ s[6] = <<"removeNode", "camera">>
      /\ s[7] = <<"forget", "none">> /\ s[8] = <<"check", "none">>
  BY DEF Program

(* Which step of an installation a tool is.                                *)
InstallAt(n, s, k) ==
  /\ n = 1 <=> s = "artifacts"
  /\ n \in {2, 19} <=> s = "scStop"
  /\ n = 3 <=> s = "kill"
  /\ n = 4 <=> s = "signing"
  /\ n \in {5, 6} <=> s = "removePackage"
  /\ n = 7 <=> s = "add" /\ k = "camera"
  /\ n = 12 <=> s = "add" /\ k = "mic"
  /\ n = 8 <=> s = "node" /\ k = "camera"
  /\ n = 13 <=> s = "node" /\ k = "mic"
  /\ n = 9 <=> s = "bind" /\ k = "camera"
  /\ n = 14 <=> s = "bind" /\ k = "mic"
  /\ n = 10 <=> s = "restart" /\ k = "camera"
  /\ n = 15 <=> s = "restart" /\ k = "mic"
  /\ n = 11 <=> s = "verify" /\ k = "camera"
  /\ n = 16 <=> s = "verify" /\ k = "mic"
  /\ n = 17 <=> s = "dll"
  /\ n = 18 <=> s = "config"
  /\ n = 20 <=> s = "scCreate"
  /\ n = 21 <=> s = "scConfig"
  /\ n = 22 <=> s = "scFailure"
  /\ n = 23 <=> s = "scStart"
  /\ n = 24 <=> s = "ensure"
  /\ n = 26 <=> s = "look" /\ k = "service"
  /\ n > 24 <=> s \in {"look", "open"}
  /\ s \notin {"exe", "processExe", "appKill", "appStart", "appSeen",
               "scDelete", "removeNode", "forget", "check"}

(* Which step of an uninstallation a tool is.                              *)
UninstallAt(n, s, k) ==
  /\ n = 1 <=> s = "scStop"
  /\ n = 2 <=> s = "scDelete"
  /\ n \in {3, 4} <=> s = "removePackage"
  /\ n = 5 <=> s = "removeNode" /\ k = "mic"
  /\ n = 6 <=> s = "removeNode" /\ k = "camera"
  /\ n = 7 <=> s = "forget"
  /\ n = 8 <=> s = "check"

LEMMA UninstallPlace ==
  ASSUME NEW n \in 1 .. 8, NEW s, NEW k, Program["uninstall"][n] = <<s, k>>
  PROVE  UninstallAt(n, s, k)
<1>1. \/ n = 1 \/ n = 2 \/ n = 3 \/ n = 4 \/ n = 5 \/ n = 6 \/ n = 7
      \/ n = 8
  OBVIOUS
<1>2. s = Program["uninstall"][n][1] /\ k = Program["uninstall"][n][2]
  OBVIOUS
<1>. QED BY <1>1, <1>2, UninstallProgram DEF UninstallAt

LEMMA InstallPlace ==
  ASSUME NEW n \in 1 .. 31, NEW s, NEW k, Program["install"][n] = <<s, k>>
  PROVE  InstallAt(n, s, k)
<1>1. \/ n = 1 \/ n = 2 \/ n = 3 \/ n = 4 \/ n = 5 \/ n = 6 \/ n = 7
      \/ n = 8 \/ n = 9 \/ n = 10 \/ n = 11 \/ n = 12 \/ n = 13 \/ n = 14
      \/ n = 15 \/ n = 16 \/ n = 17 \/ n = 18 \/ n = 19 \/ n = 20
      \/ n = 21 \/ n = 22 \/ n = 23 \/ n = 24 \/ n = 25 \/ n = 26
      \/ n = 27 \/ n = 28 \/ n = 29 \/ n = 30 \/ n = 31
  OBVIOUS
<1>2. s = Program["install"][n][1] /\ k = Program["install"][n][2]
  OBVIOUS
<1>. QED BY <1>1, <1>2, InstallProgram DEF InstallAt

-----------------------------------------------------------------------------

WizardTypes ==
  /\ ui \in {"none", "idle", "busy", "ok"}
  /\ owner \in {"nobody", "worker", "headless"}
  /\ op \in Op /\ nextStep \in 1 .. Len(Program[op]) + 1
  /\ failed \in BOOLEAN /\ hurt \in BOOLEAN
  /\ unseen \subseteq Queries /\ unposted \in BOOLEAN
  /\ clean \in BOOLEAN /\ reads \in 0 .. ReadAttempts
  /\ last \in {"none", "ok", "failed", "cut"}
  /\ log \in BOOLEAN /\ json \in BOOLEAN
  /\ ops \in 0 .. MaxOps
MachineTypes ==
  /\ dev \in [Kind -> {"absent", "bare"} \cup Bound]
  /\ extra \in [Kind -> 0 .. MaxExtra]
  /\ pkg \in [Kind -> BOOLEAN]
  /\ config \in BOOLEAN /\ settings \in BOOLEAN /\ svc \in Svc
  /\ svc.state \in {"absent", "stopped"} => ~svc.marked
  /\ actions \in BOOLEAN /\ restart \in BOOLEAN /\ app \in BOOLEAN
  /\ boots \in 0 .. MaxBoots

(* The files are of the last operation that ended.                         *)
FilesSound ==
  /\ last = "failed" => json
  /\ last = "ok" => ~json /\ ~log

(* As long as all tools have worked no step finds what it refuses: the     *)
(* service is not being deleted once its process was killed, and a device  *)
(* is there or not, but never half, when its node is made.                 *)
Unhurt ==
  ~hurt =>
    /\ ~failed
    /\ nextStep > 3 => ~svc.marked
    /\ nextStep = 8 => dev["camera"] \in {"absent", "started"}
    /\ nextStep = 9 => dev["camera"] \in {"bare", "started"}
    /\ nextStep \in {10, 11} => dev["camera"] = "started"
    /\ nextStep = 13 => dev["mic"] \in {"absent", "started"}
    /\ nextStep = 14 => dev["mic"] \in {"bare", "started"}
    /\ nextStep \in {15, 16} => dev["mic"] = "started"

(* What the steps behind an installation have verified stays so.           *)
Installed ==
  /\ nextStep > 11 => dev["camera"] = "started"
  /\ nextStep > 16 => dev["mic"] = "started"
  /\ nextStep > 20 => svc.state # "absent" /\ ~svc.marked
  /\ nextStep > 24 /\ clean => settings
  /\ nextStep > 26 /\ clean => svc.state = "running"

(* As long as all tools of an uninstallation have worked, what they remove *)
(* is gone.                                                                *)
Gone ==
  /\ nextStep > 2 => svc.state = "absent" \/ svc.marked
  /\ nextStep > 5 => dev["mic"] = "absent"
  /\ nextStep > 6 => dev["camera"] = "absent"
  /\ nextStep > 7 => ~config /\ ~settings

(* Behind its last check a driver is bound only where it could not look.   *)
Removed ==
  /\ nextStep > 8 => \A k \in Kind : dev[k] \in Bound => k \in unseen
  /\ ~hurt => Gone

SetupInv ==
  /\ WizardTypes /\ MachineTypes /\ FilesSound
  /\ Working /\ op = "install" => Unhurt /\ Installed
  /\ Working /\ op = "uninstall" => Removed

LEMMA SetupInvGives == SetupInv => SetupTypeOK /\ ReportsAreTrue /\ RetryHeals
<1> SUFFICES ASSUME SetupInv PROVE SetupTypeOK /\ ReportsAreTrue /\ RetryHeals
  OBVIOUS
<1>1. SetupTypeOK
  BY DEF SetupInv, WizardTypes, MachineTypes, SetupTypeOK
<1>2. ASSUME Working, Over, ~failed, op = "install"
      PROVE  /\ svc.state # "absent" /\ \A k \in Kind : dev[k] = "started"
             /\ clean => svc.state = "running" /\ settings
  <2>1. nextStep > 31
    BY <1>2, Lengths DEF Over
  <2>2. Installed
    BY <1>2 DEF SetupInv
  <2>3. nextStep \in Nat
    BY Lengths, <1>2 DEF SetupInv, WizardTypes
  <2>. QED BY <2>1, <2>2, <2>3 DEF Installed, Kind
<1>3. ASSUME Working, Over, ~failed, op = "uninstall"
      PROVE  /\ \A k \in Kind : dev[k] \in Bound => k \in unseen
             /\ ~hurt => /\ \A k \in Kind : dev[k] = "absent"
                         /\ ~config /\ ~settings
                         /\ svc.state = "absent" \/ svc.marked
  <2>1. nextStep > 8
    BY <1>3, Lengths DEF Over
  <2>2. Removed
    BY <1>3 DEF SetupInv
  <2>3. nextStep \in Nat
    BY Lengths, <1>3 DEF SetupInv, WizardTypes
  <2>. QED BY <2>1, <2>2, <2>3 DEF Removed, Gone, Kind
<1>4. ReportMatchesOutcome
  BY DEF SetupInv, FilesSound, ReportMatchesOutcome
<1>5. RetryHeals
  BY DEF SetupInv, Unhurt, RetryHeals
<1>. QED BY <1>1, <1>2, <1>3, <1>4, <1>5 DEF ReportsAreTrue, SuccessMeansDone

(* The wizard's part of a step: it has passed, with a failure or without,  *)
(* or the operation has failed.                                            *)
Passed ==
  nextStep' = nextStep + 1 /\ UNCHANGED <<onlyOp, failed>>
Failed ==
  failed' = TRUE /\ UNCHANGED <<onlyOp, nextStep>>
ToolStep ==
  /\ Passed \/ Failed
  /\ hurt' = hurt \/ hurt' = TRUE
MachineSame == UNCHANGED machineVars

(* A step that is taken is one of its program.                             *)
LEMMA StepIsInProgram ==
  ASSUME WizardTypes, NEW s, NEW k, At(s, k)
  PROVE  /\ Working /\ ~Over /\ failed = FALSE
         /\ nextStep \in 1 .. Len(Program[op]) /\ Len(Program[op]) \in Nat
         /\ Program[op][nextStep] = <<s, k>>
<1>1. Len(Program[op]) \in Nat
  BY Lengths DEF WizardTypes, Op
<1>. QED BY <1>1 DEF WizardTypes, At, Over

LEMMA InstallStep ==
  ASSUME WizardTypes, NEW s, NEW k, At(s, k), op = "install"
  PROVE  nextStep \in 1 .. 31 /\ Program["install"][nextStep] = <<s, k>>
  BY StepIsInProgram, Lengths

LEMMA UninstallStep ==
  ASSUME WizardTypes, NEW s, NEW k, At(s, k), op = "uninstall"
  PROVE  nextStep \in 1 .. 8 /\ UninstallAt(nextStep, s, k)
<1>1. nextStep \in 1 .. 8 /\ Program["uninstall"][nextStep] = <<s, k>>
  BY StepIsInProgram, Lengths
<1>. QED BY <1>1, UninstallPlace

LEMMA ToolStepKeepsTypes ==
  ASSUME WizardTypes, NEW s, NEW k, At(s, k), ToolStep
  PROVE  WizardTypes'
<1>1. nextStep' \in 1 .. Len(Program[op]) + 1 /\ op' = op
  <2>1. nextStep' \in {nextStep, nextStep + 1} /\ op' = op
    BY DEF ToolStep, Passed, Failed, onlyOp
  <2>2. nextStep \in 1 .. Len(Program[op]) /\ Len(Program[op]) \in Nat
    BY StepIsInProgram
  <2>. QED BY <2>1, <2>2
<1>2. failed' \in BOOLEAN /\ hurt' \in BOOLEAN
  BY DEF WizardTypes, ToolStep, Passed, Failed, onlyOp
<1>3. UNCHANGED onlyOp
  BY DEF ToolStep, Passed, Failed
<1>. QED BY <1>1, <1>2, <1>3 DEF WizardTypes, onlyOp, checkVars

(* What remains to be shown of the step of a tool.                         *)
LEMMA ToolStepInv ==
  ASSUME SetupInv, NEW s, NEW k, At(s, k), ToolStep, MachineTypes',
         op = "install" => Unhurt' /\ Installed',
         op = "uninstall" => Removed'
  PROVE  SetupInv'
<1>1. WizardTypes'
  BY ToolStepKeepsTypes DEF SetupInv
<1>2. UNCHANGED <<op, owner, last, log, json>>
  BY DEF ToolStep, Passed, Failed, onlyOp
<1>3. FilesSound'
  BY <1>2 DEF SetupInv, FilesSound
<1>. QED BY <1>1, <1>2, <1>3 DEF SetupInv

LEMMA Ends ==
  /\ Done => ToolStep
  /\ Refused => ToolStep /\ MachineSame
  /\ Ignored => ToolStep /\ MachineSame
  /\ Fails => ToolStep /\ MachineSame
  BY DEF Done, Refused, Ignored, Fails, ToolStep, Passed, Failed, MachineSame

LEMMA SameMachine ==
  ASSUME MachineTypes, MachineSame, UNCHANGED boots PROVE MachineTypes'
  BY DEF MachineTypes, MachineSame, machineVars, deviceVars, registryVars,
         svcVars

(* A step that leaves the machine alone.                                   *)
LEMMA FailsInv ==
  ASSUME SetupInv, NEW s, NEW k, At(s, k), Fails PROVE SetupInv'
<1>1. ToolStep /\ MachineSame
  BY Ends
<1>2. MachineTypes'
  BY <1>1, SameMachine DEF Fails, onlyOp, SetupInv
<1>3. op = "install" => Unhurt' /\ Installed'
  <2>1. Working
    BY DEF At
  <2>. QED BY <2>1, <1>1
       DEF SetupInv, Unhurt, Installed, Fails, onlyOp, checkVars, MachineSame,
            machineVars, deviceVars, registryVars, svcVars
<1>4. op = "uninstall" => Removed'
  <2>1. Working
    BY DEF At
  <2>. QED BY <2>1, <1>1
       DEF SetupInv, Removed, Fails, onlyOp, MachineSame, machineVars,
           deviceVars
<1>. QED BY <1>1, <1>2, <1>3, <1>4, ToolStepInv

LEMMA IgnoredInv ==
  ASSUME SetupInv, NEW s, NEW k, At(s, k), Ignored,
         s \in {"removePackage", "bind", "removeNode", "config", "forget",
                "scStop", "kill", "scFailure", "appKill", "scDelete"}
  PROVE  SetupInv'
<1>1. ToolStep /\ MachineSame
  BY Ends
<1>2. MachineTypes'
  BY <1>1, SameMachine DEF Ignored, onlyOp, SetupInv
<1>3. ASSUME op = "install" PROVE Unhurt' /\ Installed'
  <2>1. Working /\ Unhurt /\ Installed
    BY <1>3 DEF At, SetupInv
  <2>2. /\ nextStep \in 1 .. 31
        /\ nextStep \notin {11, 16, 20, 24, 26}
    <3>1. nextStep \in 1 .. 31 /\ InstallAt(nextStep, s, k)
      BY <1>3, InstallStep, InstallPlace DEF SetupInv
    <3>. QED BY <3>1 DEF InstallAt
  <2>3. Unhurt'
    BY DEF Ignored, Unhurt
  <2>4. Installed'
    BY <2>1, <2>2 DEF Installed, Ignored, onlyOp, checkVars,
       machineVars, deviceVars, registryVars, svcVars
  <2>. QED BY <2>3, <2>4
<1>4. ASSUME op = "uninstall" PROVE Removed'
  <2>1. nextStep \in 1 .. 8 /\ UninstallAt(nextStep, s, k)
    BY <1>4, UninstallStep DEF SetupInv
  <2>2. nextStep # 8
    BY <2>1 DEF UninstallAt
  <2>. QED BY <2>1, <2>2 DEF Ignored, Removed
<1>. QED BY <1>1, <1>2, <1>3, <1>4, ToolStepInv

LEMMA RefusedInv ==
  ASSUME SetupInv, NEW s, NEW k, At(s, k), Refused,
         op = "install" => hurt
  PROVE  SetupInv'
<1>1. ToolStep /\ MachineSame
  BY Ends
<1>2. MachineTypes'
  BY <1>1, SameMachine DEF Refused, onlyOp, SetupInv
<1>3. op = "install" => Unhurt' /\ Installed'
  <2>1. Working
    BY DEF At
  <2>. QED BY <2>1 DEF SetupInv, Unhurt, Installed, Refused, onlyOp, checkVars,
            machineVars, deviceVars, registryVars, svcVars
<1>4. op = "uninstall" => Removed'
  <2>1. Working
    BY DEF At
  <2>. QED BY <2>1 DEF SetupInv, Removed, Gone, Refused, onlyOp, machineVars,
            deviceVars, registryVars, svcVars
<1>. QED BY <1>1, <1>2, <1>3, <1>4, ToolStepInv

(* A tool has done its work.                                               *)
LEMMA DoneInv ==
  ASSUME SetupInv, NEW s, NEW k, At(s, k), Done, MachineTypes',
         op = "install" => Unhurt' /\ Installed',
         s # "check", op = "uninstall" /\ ~hurt => Gone'
  PROVE  SetupInv'
<1>1. ToolStep
  BY Ends
<1>2. ASSUME op = "uninstall" PROVE Removed'
  <2>1. nextStep \in 1 .. 8 /\ UninstallAt(nextStep, s, k)
    BY <1>2, UninstallStep DEF SetupInv
  <2>2. nextStep' \in 2 .. 8 /\ hurt' = hurt
    BY <2>1 DEF UninstallAt, Done
  <2>. QED BY <1>2, <2>2 DEF Removed
<1>. QED BY <1>1, <1>2, ToolStepInv

LEMMA Before ==
  ASSUME SetupInv, NEW s, NEW k, At(s, k), op = "install"
  PROVE  /\ Unhurt /\ Installed /\ failed = FALSE
         /\ nextStep \in 1 .. 31 /\ InstallAt(nextStep, s, k)
  BY InstallStep, InstallPlace, StepIsInProgram DEF SetupInv

LEMMA BeforeUninstall ==
  ASSUME SetupInv, NEW s, NEW k, At(s, k), op = "uninstall"
  PROVE  /\ Removed /\ nextStep \in 1 .. 8
         /\ UninstallAt(nextStep, s, k)
  BY UninstallStep, StepIsInProgram DEF SetupInv

(* The other steps are none of an uninstallation.                          *)
LEMMA NotUninstall ==
  ASSUME SetupInv, NEW s, NEW k, At(s, k),
         s \notin {"scStop", "scDelete", "removePackage", "removeNode",
                   "forget", "check"}
  PROVE  op # "uninstall"
<1> SUFFICES ASSUME op = "uninstall" PROVE FALSE
  OBVIOUS
<1>1. nextStep \in 1 .. 8 /\ UninstallAt(nextStep, s, k)
  BY BeforeUninstall
<1>2. nextStep \notin 1 .. 8
  BY <1>1 DEF UninstallAt
<1>. QED BY <1>1, <1>2

(* The steps that only look, where they pass.                              *)
LEMMA LookInv ==
  ASSUME SetupInv, NEW s, NEW k, At(s, k), Done, MachineSame,
         s \in {"artifacts", "signing", "dll", "exe", "processExe", "appSeen"}
  PROVE  SetupInv'
<1>1. MachineTypes'
  BY SameMachine DEF Done, onlyOp, SetupInv
<1>2. ASSUME op = "install" PROVE Unhurt' /\ Installed'
  <2>1. /\ Unhurt /\ Installed /\ failed = FALSE
        /\ nextStep \in 1 .. 31 /\ InstallAt(nextStep, s, k)
    BY <1>2, Before
  <2>2. nextStep \in {1, 4, 17}
    BY <2>1 DEF InstallAt
  <2>3. Unhurt'
    BY <2>1, <2>2 DEF Unhurt, Done, onlyOp, MachineSame, machineVars,
       deviceVars, svcVars
  <2>4. Installed'
    BY <2>1, <2>2 DEF Installed, Done, onlyOp, checkVars, MachineSame,
       machineVars, deviceVars, registryVars, svcVars
  <2>. QED BY <2>3, <2>4
<1>3. op # "uninstall"
  BY NotUninstall
<1>. QED BY <1>1, <1>2, <1>3, DoneInv

LEMMA PrerequisiteInv == ASSUME SetupInv, Prerequisite PROVE SetupInv'
<1>1. PICK s \in {"artifacts", "signing", "dll", "exe"} :
        /\ At(s, "none")
        /\ \/ Done /\ UNCHANGED machineVars
           \/ Fails
  BY DEF Prerequisite
<1>. QED BY <1>1, LookInv, FailsInv DEF MachineSame

-----------------------------------------------------------------------------
(* Devices.                                                                *)

(* A step of device k that passes; dev is all that the invariant looks at. *)
DeviceStep(k) ==
  /\ ToolStep /\ nextStep' = nextStep + 1 /\ UNCHANGED unseen
  /\ UNCHANGED <<failed, clean, boots>> /\ UNCHANGED devicesOnly
  /\ dev' = [dev EXCEPT ![k] = dev'[k]]
  /\ dev'[k] \in {"absent", "bare"} \cup Bound
  /\ extra' \in [Kind -> 0 .. MaxExtra] /\ pkg' \in [Kind -> BOOLEAN]

LEMMA DeviceStepInv ==
  ASSUME SetupInv, NEW s, NEW k \in Kind, At(s, k), DeviceStep(k),
         s \in {"removePackage", "add", "node", "bind", "restart",
                "removeNode", "verify"},
         s = "verify" => dev'[k] = "started",
         s = "removeNode" => dev'[k] = "absent",
         op = "install" /\ ~hurt' =>
           /\ s = "add" => dev'[k] \in {"absent", "started"}
           /\ s = "node" => dev'[k] \in {"bare", "started"}
           /\ s \in {"bind", "restart"} => dev'[k] = "started"
  PROVE  SetupInv'
<1>1. MachineTypes'
  BY DEF SetupInv, MachineTypes, DeviceStep, devicesOnly, registryVars,
     svcVars
<1>2. ASSUME op = "install" PROVE Unhurt' /\ Installed'
  <2>1. /\ Unhurt /\ Installed /\ failed = FALSE
        /\ nextStep \in 1 .. 31 /\ InstallAt(nextStep, s, k)
    BY <1>2, Before
  <2>2. UNCHANGED <<failed, clean, svc, settings>> /\ nextStep' = nextStep + 1
    BY DEF DeviceStep, devicesOnly, registryVars, svcVars
  <2>3. \A j \in Kind : j # k => dev'[j] = dev[j]
    BY DEF DeviceStep, SetupInv, MachineTypes
  <2>4. k \in {"camera", "mic"} /\ "camera" \in Kind /\ "mic" \in Kind
    BY DEF Kind
  <2>5. nextStep \in 5 .. 16
    BY <2>1, <2>4 DEF InstallAt
  <2>6. hurt' = hurt \/ hurt'
    BY DEF DeviceStep, ToolStep
  <2>7. Unhurt'
    <3> SUFFICES ASSUME ~hurt' PROVE Unhurt'
      BY DEF Unhurt
    <3>1. Unhurt!2
      BY <2>1, <2>6 DEF Unhurt
    <3>2. CASE k = "camera"
      BY <1>2, <2>1, <2>2, <2>3, <2>4, <2>5, <3>1, <3>2 DEF InstallAt, Unhurt
    <3>3. CASE k = "mic"
      BY <1>2, <2>1, <2>2, <2>3, <2>4, <2>5, <3>1, <3>3 DEF InstallAt, Unhurt
    <3>. QED BY <2>4, <3>2, <3>3
  <2>8. Installed'
    <3>1. CASE k = "camera"
      BY <2>1, <2>2, <2>3, <2>4, <2>5, <3>1 DEF InstallAt, Installed
    <3>2. CASE k = "mic"
      BY <2>1, <2>2, <2>3, <2>4, <2>5, <3>2 DEF InstallAt, Installed
    <3>. QED BY <2>4, <3>1, <3>2
  <2>. QED BY <2>7, <2>8
<1>3. ASSUME op = "uninstall" PROVE Removed'
  <2>1. /\ Removed /\ nextStep \in 1 .. 8
        /\ UninstallAt(nextStep, s, k)
    BY <1>3, BeforeUninstall
  <2>2. UNCHANGED <<svc, config, settings>> /\ nextStep' = nextStep + 1
    BY DEF DeviceStep, devicesOnly, registryVars, svcVars
  <2>3. \A j \in Kind : j # k => dev'[j] = dev[j]
    BY DEF DeviceStep, SetupInv, MachineTypes
  <2>4. nextStep \in 3 .. 6
    BY <2>1 DEF UninstallAt
  <2>5. ~hurt' => ~hurt
    BY DEF DeviceStep, ToolStep
  <2>6. ASSUME ~hurt' PROVE Gone'
    <3>1. Gone
      BY <2>1, <2>5, <2>6 DEF Removed
    <3>2. nextStep' > 5 => dev'["mic"] = "absent"
      BY <2>1, <2>2, <2>3, <2>4, <3>1 DEF UninstallAt, Gone, Kind
    <3>3. nextStep' > 6 => dev'["camera"] = "absent"
      BY <2>1, <2>2, <2>3, <2>4, <3>1 DEF UninstallAt, Gone, Kind
    <3>. QED BY <2>2, <2>4, <3>1, <3>2, <3>3 DEF Gone
  <2>. QED BY <2>2, <2>4, <2>6 DEF Removed
<1>. QED BY <1>1, <1>2, <1>3, ToolStepInv DEF DeviceStep

LEMMA RemovePackageInv ==
  ASSUME SetupInv, NEW k \in Kind, RemovePackage(k) PROVE SetupInv'
<1>1. At("removePackage", k) /\ MachineTypes
  BY DEF RemovePackage, SetupInv
<1>2. CASE Ignored
  BY <1>1, <1>2, IgnoredInv
<1>3. CASE ~Ignored
  <2>1. DeviceStep(k)
    BY <1>1, <1>3, Ends DEF RemovePackage, DeviceStep, Done, onlyOp, checkVars,
       devicesOnly, MachineTypes, Bound
  <2>. QED BY <1>1, <2>1, DeviceStepInv
<1>. QED BY <1>2, <1>3

LEMMA AddDriverInv ==
  ASSUME SetupInv, NEW k \in Kind, AddDriver(k) PROVE SetupInv'
<1>1. At("add", k) /\ MachineTypes
  BY DEF AddDriver, SetupInv
<1>2. CASE Fails
  BY <1>1, <1>2, FailsInv
<1>3. CASE ~Fails
  <2>1. DeviceStep(k) /\ (~hurt' => dev'[k] \in {"absent", "started"})
    <3>1. \/ Done
          \/ /\ nextStep' = nextStep + 1 /\ hurt' = TRUE
             /\ UNCHANGED <<onlyOp, failed, dev>>
      BY <1>3 DEF AddDriver
    <3>2. ToolStep /\ nextStep' = nextStep + 1 /\ UNCHANGED <<onlyOp, failed>>
      BY <3>1, Ends DEF ToolStep, Passed, Done
    <3>3. /\ UNCHANGED devicesOnly /\ UNCHANGED extra
          /\ pkg' = [pkg EXCEPT ![k] = TRUE]
      BY <1>3 DEF AddDriver
    <3>4. CASE hurt' = TRUE /\ UNCHANGED dev
      BY <1>1, <3>2, <3>3, <3>4
         DEF DeviceStep, onlyOp, checkVars, MachineTypes
    <3>5. CASE \E t \in IF dev[k] = "absent" THEN {"absent"} ELSE {"started"} :
                 dev' = [dev EXCEPT ![k] = t]
      BY <1>1, <3>2, <3>3, <3>5
         DEF DeviceStep, onlyOp, checkVars, MachineTypes, Bound
    <3>. QED BY <1>3, <3>4, <3>5 DEF AddDriver
  <2>. QED BY <1>1, <2>1, DeviceStepInv
<1>. QED BY <1>2, <1>3

(* A further node, made beside one that is there.                          *)
LEMMA MoreNodesInv ==
  ASSUME SetupInv, NEW k \in Kind, At("node", k),
         dev[k] # "absent", extra[k] < MaxExtra,
         nextStep' = nextStep + 1, hurt' = (hurt \/ dev[k] = "started"),
         extra' = [extra EXCEPT ![k] = @ + 1],
         UNCHANGED <<onlyOp, failed, devicesOnly, dev, pkg>>
  PROVE  SetupInv'
<1>1. MachineTypes
  BY DEF SetupInv
<1>2. extra' \in [Kind -> 0 .. MaxExtra]
  BY <1>1, SetupConstants DEF MachineTypes
<1>3. hurt' = hurt \/ hurt' = TRUE
  <2>1. hurt \in BOOLEAN
    BY DEF SetupInv, WizardTypes
  <2>. QED BY <2>1
<1>4. ToolStep
  BY <1>3 DEF ToolStep, Passed
<1>5. DeviceStep(k)
  BY <1>1, <1>2, <1>4 DEF DeviceStep, onlyOp, checkVars, MachineTypes
<1>6. op = "install" => hurt'
  <2> SUFFICES ASSUME op = "install", ~hurt' PROVE FALSE
    OBVIOUS
  <2>1. Unhurt /\ InstallAt(nextStep, "node", k) /\ ~hurt
        /\ dev[k] # "started"
    BY Before
  <2>. QED BY <2>1 DEF Unhurt, InstallAt, Kind
<1>. QED BY <1>5, <1>6, DeviceStepInv

LEMMA CreateNodeInv ==
  ASSUME SetupInv, NEW k \in Kind, CreateNode(k) PROVE SetupInv'
<1>1. At("node", k) /\ MachineTypes
  BY DEF CreateNode, SetupInv
<1>2. CASE Fails
  BY <1>1, <1>2, FailsInv
<1>3. CASE Done
  <2>1. /\ ToolStep /\ nextStep' = nextStep + 1
        /\ UNCHANGED <<onlyOp, failed, hurt>>
    BY <1>3, Ends DEF Done
  <2>2. CASE dev[k] = "started" /\ UNCHANGED machineVars
    <3>1. DeviceStep(k) /\ dev'[k] = "started"
      BY <1>1, <2>1, <2>2 DEF DeviceStep, onlyOp, checkVars, MachineTypes,
         machineVars, deviceVars, registryVars, svcVars, devicesOnly, Bound
    <3>. QED BY <1>1, <3>1, DeviceStepInv
  <2>3. CASE /\ dev' = [dev EXCEPT ![k] = "bare"]
             /\ UNCHANGED <<devicesOnly, extra, pkg>>
    <3>1. DeviceStep(k) /\ dev'[k] = "bare"
      BY <1>1, <2>1, <2>3 DEF DeviceStep, onlyOp, checkVars, MachineTypes
    <3>. QED BY <1>1, <3>1, DeviceStepInv
  <2>4. CASE /\ dev[k] # "absent" /\ extra[k] < MaxExtra
             /\ hurt' = (hurt \/ dev[k] = "started")
             /\ extra' = [extra EXCEPT ![k] = @ + 1]
             /\ UNCHANGED <<devicesOnly, dev, pkg>>
    BY <1>1, <2>1, <2>4, MoreNodesInv
  <2>. QED BY <1>3, <2>2, <2>3, <2>4 DEF CreateNode, Done, Fails
<1>4. CASE /\ dev[k] # "absent" /\ extra[k] < MaxExtra
           /\ nextStep' = nextStep + 1 /\ hurt' = (hurt \/ dev[k] = "started")
           /\ extra' = [extra EXCEPT ![k] = @ + 1]
           /\ UNCHANGED <<onlyOp, failed, devicesOnly, dev, pkg>>
  BY <1>1, <1>4, MoreNodesInv
<1>. QED BY <1>2, <1>3, <1>4 DEF CreateNode

LEMMA BindDriverInv ==
  ASSUME SetupInv, NEW k \in Kind, BindDriver(k) PROVE SetupInv'
<1>1. At("bind", k) /\ MachineTypes
  BY DEF BindDriver, SetupInv
<1>2. CASE Fails \/ Ignored
  BY <1>1, <1>2, FailsInv, IgnoredInv
<1>3. CASE /\ Done
           /\ dev' = [dev EXCEPT ![k] = IF @ = "absent" THEN @ ELSE "started"]
           /\ UNCHANGED <<devicesOnly, extra, pkg>>
  <2>1. DeviceStep(k) /\ (dev[k] # "absent" => dev'[k] = "started")
    BY <1>1, <1>3, Ends DEF Done, DeviceStep, onlyOp, checkVars, MachineTypes,
       Bound
  <2>2. op = "install" /\ ~hurt' => dev[k] # "absent"
    <3> SUFFICES ASSUME op = "install", ~hurt' PROVE dev[k] # "absent"
      OBVIOUS
    <3>1. Unhurt /\ InstallAt(nextStep, "bind", k) /\ ~hurt
      BY <1>1, <1>3, Before DEF Done
    <3>. QED BY <3>1 DEF Unhurt, InstallAt, Kind
  <2>. QED BY <1>1, <2>1, <2>2, DeviceStepInv
<1>4. CASE \E t \in Bound :
             /\ nextStep' = nextStep + 1 /\ hurt' = TRUE
             /\ dev' = [dev EXCEPT ![k] = t]
             /\ UNCHANGED <<onlyOp, failed, devicesOnly, extra, pkg>>
  <2>1. ToolStep
    BY <1>4 DEF ToolStep, Passed
  <2>2. DeviceStep(k) /\ hurt' = TRUE
    BY <1>1, <1>4, <2>1 DEF DeviceStep, onlyOp, checkVars, MachineTypes
  <2>. QED BY <1>1, <2>2, DeviceStepInv
<1>. QED BY <1>2, <1>3, <1>4 DEF BindDriver

LEMMA RestartDeviceInv ==
  ASSUME SetupInv, NEW k \in Kind, RestartDevice(k) PROVE SetupInv'
<1>1. At("restart", k) /\ MachineTypes
  BY DEF RestartDevice, SetupInv
<1>2. CASE /\ Done
           /\ dev' = [dev EXCEPT ![k] = IF @ \in Bound THEN "started" ELSE @]
           /\ UNCHANGED <<devicesOnly, extra, pkg>>
  <2>1. DeviceStep(k) /\ (dev[k] = "started" => dev'[k] = "started")
    BY <1>1, <1>2, Ends DEF Done, DeviceStep, onlyOp, checkVars, MachineTypes,
       Bound
  <2>2. op = "install" /\ ~hurt' => dev[k] = "started"
    <3> SUFFICES ASSUME op = "install", ~hurt' PROVE dev[k] = "started"
      OBVIOUS
    <3>1. Unhurt /\ InstallAt(nextStep, "restart", k) /\ ~hurt
      BY <1>1, <1>2, Before DEF Done
    <3>. QED BY <3>1 DEF Unhurt, InstallAt, Kind
  <2>. QED BY <1>1, <2>1, <2>2, DeviceStepInv
<1>3. CASE /\ nextStep' = nextStep + 1 /\ hurt' = TRUE
           /\ dev' = [dev EXCEPT ![k] = IF @ \in Bound THEN "stopped" ELSE @]
           /\ UNCHANGED <<onlyOp, failed, devicesOnly, extra, pkg>>
  <2>1. ToolStep
    BY <1>3 DEF ToolStep, Passed
  <2>2. DeviceStep(k) /\ hurt' = TRUE
    BY <1>1, <1>3, <2>1 DEF DeviceStep, onlyOp, checkVars, MachineTypes, Bound
  <2>. QED BY <1>1, <2>2, DeviceStepInv
<1>. QED BY <1>2, <1>3 DEF RestartDevice

LEMMA VerifyDeviceInv ==
  ASSUME SetupInv, NEW k \in Kind, VerifyDevice(k) PROVE SetupInv'
<1>1. At("verify", k) /\ MachineTypes
  BY DEF VerifyDevice, SetupInv
<1>2. CASE Fails
  BY <1>1, <1>2, FailsInv
<1>3. CASE Started(k) /\ Done /\ UNCHANGED machineVars
  <2>1. DeviceStep(k) /\ dev'[k] = "started"
    BY <1>1, <1>3, Ends DEF Done, DeviceStep, onlyOp, checkVars, MachineTypes,
       machineVars, deviceVars, registryVars, svcVars, devicesOnly, Started,
       Bound
  <2>. QED BY <1>1, <2>1, DeviceStepInv
<1>4. CASE ~Started(k) /\ Refused
  <2>1. ASSUME op = "install", ~hurt PROVE FALSE
    <3>1. Unhurt /\ InstallAt(nextStep, "verify", k)
      BY <1>1, <2>1, Before
    <3>. QED BY <3>1, <2>1, <1>4 DEF Unhurt, InstallAt, Kind, Started
  <2>. QED BY <1>1, <1>4, <2>1, RefusedInv
<1>. QED BY <1>2, <1>3, <1>4 DEF VerifyDevice

LEMMA RemoveNodeInv ==
  ASSUME SetupInv, NEW k \in Kind, RemoveNode(k) PROVE SetupInv'
<1>1. At("removeNode", k) /\ MachineTypes
  BY DEF RemoveNode, SetupInv
<1>2. CASE Ignored
  BY <1>1, <1>2, IgnoredInv
<1>3. CASE ~Ignored
  <2>1. DeviceStep(k) /\ dev'[k] = "absent"
    BY <1>1, <1>3, Ends DEF RemoveNode, DeviceStep, Done, onlyOp, checkVars,
       MachineTypes
  <2>. QED BY <1>1, <2>1, DeviceStepInv
<1>. QED BY <1>2, <1>3

LEMMA DevicesInv == ASSUME SetupInv, Devices PROVE SetupInv'
  BY RemovePackageInv, AddDriverInv, CreateNodeInv, BindDriverInv,
     RestartDeviceInv, VerifyDeviceInv, RemoveNodeInv DEF Devices

-----------------------------------------------------------------------------
(* The registry, the service and the application.                          *)

LEMMA ConfigureInv == ASSUME SetupInv, Configure PROVE SetupInv'
<1>1. At("config", "none") /\ MachineTypes
  BY DEF Configure, SetupInv
<1>2. CASE Ignored
  BY <1>1, <1>2, IgnoredInv
<1>3. CASE ~Ignored
  <2>1. /\ Done /\ config' = TRUE
        /\ UNCHANGED <<deviceVars, settings, svcVars, app, boots>>
    BY <1>3 DEF Configure, Done, onlyOp
  <2>2. MachineTypes'
    BY <1>1, <2>1 DEF MachineTypes, deviceVars, svcVars
  <2>3. ASSUME op = "install" PROVE Unhurt' /\ Installed'
    <3>1. /\ Unhurt /\ Installed /\ nextStep = 18
      BY <1>1, <2>3, Before DEF InstallAt
    <3>. QED BY <2>1, <3>1 DEF Unhurt, Installed, Done, onlyOp, checkVars,
             deviceVars, svcVars
  <2>4. op # "uninstall"
    BY <1>1, NotUninstall
  <2>. QED BY <1>1, <2>1, <2>2, <2>3, <2>4, DoneInv
<1>. QED BY <1>2, <1>3

LEMMA ForgetInv == ASSUME SetupInv, Forget PROVE SetupInv'
<1>1. At("forget", "none") /\ MachineTypes
  BY DEF Forget, SetupInv
<1>2. CASE Ignored
  BY <1>1, <1>2, IgnoredInv
<1>3. CASE ~Ignored
  <2>1. /\ Done /\ config' = FALSE /\ settings' = FALSE
        /\ UNCHANGED <<deviceVars, svcVars, app, boots>>
    BY <1>3 DEF Forget, Done, onlyOp
  <2>2. MachineTypes'
    BY <1>1, <2>1 DEF MachineTypes, deviceVars, svcVars
  <2>3. op # "install"
    BY <1>1, Before DEF InstallAt
  <2>4. ASSUME op = "uninstall", ~hurt PROVE Gone'
    <3>1. Gone /\ nextStep = 7
      BY <1>1, <2>4, BeforeUninstall DEF Removed, UninstallAt
    <3>. QED BY <2>1, <3>1 DEF Gone, Done, deviceVars, svcVars
  <2>. QED BY <1>1, <2>1, <2>2, <2>3, <2>4, DoneInv
<1>. QED BY <1>2, <1>3

LEMMA ProcessExeInv == ASSUME SetupInv, ProcessExe PROVE SetupInv'
<1>1. At("processExe", "none")
  BY DEF ProcessExe
<1>2. op # "install"
  BY <1>1, Before DEF InstallAt
<1>. QED BY <1>1, <1>2, LookInv, RefusedInv DEF ProcessExe, MachineSame

(* A tool of the service has done its work.                                *)
ServiceStep ==
  /\ Done /\ UNCHANGED <<deviceVars, registryVars>>
  /\ svc' \in Svc /\ (svc'.state \in {"absent", "stopped"} => ~svc'.marked)
  /\ actions' \in BOOLEAN /\ restart' \in BOOLEAN /\ app' \in BOOLEAN

LEMMA ServiceStepInv ==
  ASSUME SetupInv, NEW s, At(s, "none"), ServiceStep,
         s \in {"scStop", "kill", "scCreate", "scConfig", "scFailure",
                "scStart", "scDelete"},
         op = "install" /\ svc'.marked => svc.marked /\ s # "kill",
         s \in {"scCreate", "scConfig", "scFailure", "scStart"} /\
           svc.state # "absent" /\ ~svc.marked =>
             svc'.state # "absent" /\ ~svc'.marked,
         s = "scCreate" => svc'.state # "absent" /\ ~svc'.marked,
         s = "scDelete" => svc'.state = "absent" \/ svc'.marked
  PROVE  SetupInv'
<1>1. MachineTypes'
  BY DEF SetupInv, MachineTypes, ServiceStep, Done, onlyOp, deviceVars,
     registryVars
<1>2. ASSUME op = "install" PROVE Unhurt' /\ Installed'
  <2>1. /\ Unhurt /\ Installed /\ failed = FALSE
        /\ nextStep \in 1 .. 31 /\ InstallAt(nextStep, s, "none")
    BY <1>2, Before
  <2>2. UNCHANGED <<failed, hurt, clean, dev, settings>>
        /\ nextStep' = nextStep + 1
    BY DEF ServiceStep, Done, onlyOp, checkVars, deviceVars, registryVars
  <2>3. nextStep \in {2, 3, 19, 20, 21, 22, 23}
    BY <1>2, <2>1 DEF InstallAt
  <2>4. Unhurt'
    <3> SUFFICES ASSUME ~hurt' PROVE Unhurt!2'
      BY DEF Unhurt
    <3>1. Unhurt!2
      BY <2>1, <2>2 DEF Unhurt
    <3>2. nextStep' > 3 => ~svc'.marked
      BY <1>2, <2>1, <2>2, <2>3, <3>1 DEF InstallAt
    <3>. QED BY <2>2, <2>3, <3>1, <3>2
  <2>5. nextStep' > 20 => svc'.state # "absent" /\ ~svc'.marked
    BY <2>1, <2>2, <2>3 DEF InstallAt, Installed
  <2>6. Installed'
    BY <2>1, <2>2, <2>3, <2>5 DEF Installed
  <2>. QED BY <2>4, <2>6
<1>3. ASSUME op = "uninstall", ~hurt PROVE Gone'
  <2>1. nextStep \in 1 .. 8 /\ UninstallAt(nextStep, s, "none")
    BY <1>3, BeforeUninstall
  <2>2. /\ nextStep' = nextStep + 1 /\ nextStep \in {1, 2}
        /\ nextStep = 2 => s = "scDelete"
    BY <2>1 DEF UninstallAt, ServiceStep, Done
  <2>. QED BY <2>2 DEF Gone
<1>. QED BY <1>1, <1>2, <1>3, DoneInv DEF ServiceStep

LEMMA EndedIs ==
  ASSUME NEW s \in Svc
  PROVE  /\ Ended(s) \in Svc /\ ~Ended(s).marked
         /\ Ended(s).state \in {"absent", "stopped"}
         /\ ~s.marked => Ended(s).state = "stopped"
         /\ s.marked => Ended(s).state = "absent"
  BY DEF Ended, Svc, Absent

LEMMA ScStopInv == ASSUME SetupInv, ScStop PROVE SetupInv'
<1>1. At("scStop", "none") /\ MachineTypes
  BY DEF ScStop, SetupInv
<1>2. CASE Ignored
  BY <1>1, <1>2, IgnoredInv
<1>3. CASE ~Ignored
  <2>1. ServiceStep /\ svc'.marked = svc.marked
    BY <1>1, <1>3 DEF ScStop, ServiceStep, MachineTypes, svcOnly, Svc
  <2>. QED BY <1>1, <2>1, ServiceStepInv
<1>. QED BY <1>2, <1>3

LEMMA KillInv == ASSUME SetupInv, Kill PROVE SetupInv'
<1>1. At("kill", "none") /\ MachineTypes
  BY DEF Kill, SetupInv
<1>2. CASE Ignored
  BY <1>1, <1>2, IgnoredInv
<1>3. CASE ~Ignored
  <2>1. svc \in Svc /\ actions \in BOOLEAN /\ restart \in BOOLEAN
    BY <1>1 DEF MachineTypes
  <2>2. CASE svc.state \in {"running", "stopping"}
    <3>1. svc' = Ended(svc) /\ restart' = (actions /\ ~svc.marked)
      BY <1>3, <2>2 DEF Kill
    <3>2. ServiceStep /\ ~svc'.marked
      BY <1>3, <2>1, <3>1, EndedIs DEF Kill, ServiceStep, Svc
    <3>. QED BY <1>1, <3>2, ServiceStepInv
  <2>3. CASE svc.state \notin {"running", "stopping"}
    <3>1. ServiceStep /\ UNCHANGED svc /\ ~svc.marked
      BY <1>1, <1>3, <2>1, <2>3 DEF Kill, ServiceStep, Svc, MachineTypes
    <3>. QED BY <1>1, <3>1, ServiceStepInv
  <2>. QED BY <2>2, <2>3
<1>. QED BY <1>2, <1>3

LEMMA ScCreateInv == ASSUME SetupInv, ScCreate PROVE SetupInv'
<1>1. At("scCreate", "none") /\ MachineTypes
  BY DEF ScCreate, SetupInv
<1>2. CASE Fails
  BY <1>1, <1>2, FailsInv
<1>3. CASE ~Creates /\ Refused
  <2>1. ASSUME op = "install", ~hurt PROVE FALSE
    <3>1. Unhurt /\ InstallAt(nextStep, "scCreate", "none")
      BY <1>1, <2>1, Before
    <3>. QED BY <3>1, <2>1, <1>3 DEF Unhurt, InstallAt, Creates
  <2>. QED BY <1>1, <1>3, <2>1, RefusedInv
<1>4. CASE /\ Creates /\ Done
           /\ svc' = IF svc.state = "absent"
                     THEN [svc EXCEPT !.state = "stopped"] ELSE svc
           /\ UNCHANGED <<svcOnly, actions, restart>>
  <2>1. ServiceStep /\ svc'.state # "absent" /\ ~svc'.marked
    BY <1>1, <1>4 DEF ServiceStep, MachineTypes, svcOnly, Svc, Creates
  <2>. QED BY <1>1, <2>1, ServiceStepInv
<1>. QED BY <1>2, <1>3, <1>4 DEF ScCreate

LEMMA ScConfigInv == ASSUME SetupInv, ScConfig PROVE SetupInv'
<1>1. At("scConfig", "none") /\ MachineTypes
  BY DEF ScConfig, SetupInv
<1>2. CASE Fails
  BY <1>1, <1>2, FailsInv
<1>3. CASE (svc.state = "absent" \/ svc.marked) /\ Refused
  <2>1. ASSUME op = "install" PROVE FALSE
    <3>1. Installed /\ InstallAt(nextStep, "scConfig", "none")
      BY <1>1, <2>1, Before
    <3>. QED BY <3>1, <1>3 DEF Installed, InstallAt
  <2>. QED BY <1>1, <1>3, <2>1, RefusedInv
<1>4. CASE svc.state # "absent" /\ ~svc.marked /\ Done /\ UNCHANGED machineVars
  <2>1. ServiceStep /\ UNCHANGED svc
    BY <1>1, <1>4 DEF ServiceStep, MachineTypes, machineVars, svcVars
  <2>. QED BY <1>1, <1>4, <2>1, ServiceStepInv
<1>. QED BY <1>2, <1>3, <1>4 DEF ScConfig

LEMMA ScFailureInv == ASSUME SetupInv, ScFailure PROVE SetupInv'
<1>1. At("scFailure", "none") /\ MachineTypes
  BY DEF ScFailure, SetupInv
<1>2. CASE Ignored
  BY <1>1, <1>2, IgnoredInv
<1>3. CASE Done /\ actions' = TRUE /\ UNCHANGED <<svcOnly, svc, restart>>
  <2>1. ServiceStep /\ UNCHANGED svc
    BY <1>1, <1>3 DEF ServiceStep, MachineTypes, svcOnly
  <2>. QED BY <1>1, <2>1, ServiceStepInv
<1>. QED BY <1>2, <1>3 DEF ScFailure

LEMMA ScStartInv == ASSUME SetupInv, ScStart PROVE SetupInv'
<1>1. At("scStart", "none") /\ MachineTypes
  BY DEF ScStart, SetupInv
<1>2. CASE Fails
  BY <1>1, <1>2, FailsInv
<1>3. CASE (svc.state = "absent" \/ svc.marked) /\ Refused
  <2>1. ASSUME op = "install" PROVE FALSE
    <3>1. Installed /\ InstallAt(nextStep, "scStart", "none")
      BY <1>1, <2>1, Before
    <3>. QED BY <3>1, <1>3 DEF Installed, InstallAt
  <2>. QED BY <1>1, <1>3, <2>1, RefusedInv
<1>4. CASE /\ svc.state # "absent" /\ ~svc.marked /\ Done
           /\ svc' = IF svc.state = "stopped"
                     THEN [svc EXCEPT !.state = "running"] ELSE svc
           /\ UNCHANGED <<svcOnly, actions, restart>>
  <2>1. ServiceStep /\ svc'.state # "absent" /\ ~svc'.marked
    BY <1>1, <1>4 DEF ServiceStep, MachineTypes, svcOnly, Svc
  <2>. QED BY <1>1, <2>1, ServiceStepInv
<1>. QED BY <1>2, <1>3, <1>4 DEF ScStart

LEMMA ScDeleteInv == ASSUME SetupInv, ScDelete PROVE SetupInv'
<1>1. At("scDelete", "none") /\ MachineTypes
  BY DEF ScDelete, SetupInv
<1>2. op # "install"
  BY <1>1, Before DEF InstallAt
<1>3. CASE Ignored \/ Fails
  BY <1>1, <1>3, FailsInv, IgnoredInv
<1>4. CASE Refused
  BY <1>1, <1>2, <1>4, RefusedInv
<1>5. CASE svc.marked /\ Done /\ UNCHANGED machineVars
  <2>1. ServiceStep /\ svc'.marked
    BY <1>1, <1>5 DEF ServiceStep, MachineTypes, machineVars, svcVars
  <2>. QED BY <1>1, <1>2, <2>1, ServiceStepInv
<1>6. CASE /\ ~svc.marked /\ Done
           /\ svc' = IF svc.state \in {"absent", "stopped"} THEN Absent
                     ELSE [svc EXCEPT !.marked = TRUE]
           /\ actions' = (actions /\ svc'.state # "absent")
           /\ restart' = FALSE
           /\ UNCHANGED svcOnly
  <2>1. svc \in Svc /\ actions \in BOOLEAN /\ app \in BOOLEAN
    BY <1>1 DEF MachineTypes
  <2>2. /\ svc' \in Svc
        /\ svc'.state \in {"absent", "stopped"} => ~svc'.marked
        /\ svc'.state = "absent" \/ svc'.marked
    BY <1>6, <2>1 DEF Svc, Absent
  <2>3. actions' \in BOOLEAN /\ restart' \in BOOLEAN
    BY <1>6
  <2>4. ServiceStep
    BY <1>6, <2>1, <2>2, <2>3 DEF ServiceStep, svcOnly
  <2>. QED BY <1>1, <1>2, <2>2, <2>4, ServiceStepInv
<1>. QED BY <1>3, <1>4, <1>5, <1>6 DEF ScDelete, Tolerated

LEMMA ServiceStepsInv == ASSUME SetupInv, ServiceSteps PROVE SetupInv'
  BY ScStopInv, KillInv, ScCreateInv, ScConfigInv, ScFailureInv, ScStartInv,
     ScDeleteInv DEF ServiceSteps

(* What the service does unasked.                                          *)
LEMMA UnaskedInv ==
  ASSUME SetupInv, UNCHANGED <<wizardVars, svcOnly, ops>>,
         svc' \in Svc, svc'.state \in {"absent", "stopped"} => ~svc'.marked,
         actions' \in BOOLEAN, restart' \in BOOLEAN, boots' \in 0 .. MaxBoots,
         svc'.marked => svc.marked,
         svc.state # "absent" /\ ~svc.marked => svc'.state # "absent",
         svc.state = "running" => svc'.state = "running",
         svc.state = "absent" \/ svc.marked =>
           svc'.state = "absent" \/ svc'.marked
  PROVE  SetupInv'
<1>1. MachineTypes' /\ WizardTypes'
  BY DEF SetupInv, MachineTypes, WizardTypes, wizardVars, historyVars,
     checkVars, svcOnly, deviceVars, registryVars
<1>2. Unhurt /\ Installed => Unhurt' /\ Installed'
  BY DEF Unhurt, Installed, wizardVars, historyVars, checkVars, svcOnly,
     deviceVars, registryVars
<1>3. FilesSound => FilesSound'
  BY DEF FilesSound, wizardVars
<1>4. Removed => Removed'
  BY DEF Removed, Gone, wizardVars, historyVars, svcOnly, deviceVars,
     registryVars
<1>5. UNCHANGED <<owner, op>>
  BY DEF wizardVars
<1>. QED BY <1>1, <1>2, <1>3, <1>4, <1>5 DEF SetupInv, Working

LEMMA ServiceEndsInv == ASSUME SetupInv, ServiceEnds PROVE SetupInv'
<1>1. MachineTypes /\ svc \in Svc /\ actions \in BOOLEAN
  BY DEF SetupInv, MachineTypes
<1>2. svc' = Ended(svc) /\ svc.state = "stopping"
  BY DEF ServiceEnds
<1>3. /\ svc' \in Svc /\ ~svc'.marked
      /\ ~svc.marked => svc'.state # "absent"
      /\ svc.marked => svc'.state = "absent"
  BY <1>1, <1>2, EndedIs
<1>4. actions' \in BOOLEAN
  BY DEF ServiceEnds
<1>5. /\ UNCHANGED <<wizardVars, svcOnly, ops>> /\ UNCHANGED <<restart, boots>>
  BY DEF ServiceEnds
<1>. QED BY <1>1, <1>2, <1>3, <1>4, <1>5, UnaskedInv DEF MachineTypes

LEMMA ServiceRestartsInv == ASSUME SetupInv, ServiceRestarts PROVE SetupInv'
<1>1. MachineTypes
  BY DEF SetupInv
<1>2. boots' \in 0 .. MaxBoots
  BY <1>1, SetupConstants DEF ServiceRestarts, MachineTypes
<1>3. /\ svc' \in Svc /\ svc'.marked = svc.marked
      /\ svc'.state \in {"absent", "stopped"} => ~svc'.marked
      /\ svc.state # "absent" => svc'.state # "absent"
      /\ svc.state = "absent" => svc'.state = "absent"
      /\ svc.state = "running" => svc'.state = "running"
  BY <1>1 DEF ServiceRestarts, MachineTypes, Svc
<1>. QED BY <1>1, <1>2, <1>3, UnaskedInv DEF ServiceRestarts, MachineTypes

LEMMA ServiceBootsInv == ASSUME SetupInv, ServiceBoots PROVE SetupInv'
<1>1. MachineTypes
  BY DEF SetupInv
<1>2. boots' \in 0 .. MaxBoots
  BY <1>1, SetupConstants DEF ServiceBoots, MachineTypes
<1>3. /\ svc' \in Svc /\ svc'.marked = svc.marked /\ svc'.state = "running"
      /\ ~svc.marked /\ svc.state = "stopped"
  BY <1>1 DEF ServiceBoots, MachineTypes, Svc
<1>. QED BY <1>1, <1>2, <1>3, UnaskedInv DEF ServiceBoots, MachineTypes

LEMMA AppInv ==
  ASSUME SetupInv, AppKill \/ AppStart \/ AppSeen PROVE SetupInv'
<1>1. PICK s \in {"appKill", "appStart", "appSeen"} : At(s, "none")
  BY DEF AppKill, AppStart, AppSeen
<1>2. op # "install" /\ op # "uninstall" /\ MachineTypes
  BY <1>1, Before, NotUninstall DEF InstallAt, SetupInv
<1>3. ASSUME Done, app' \in BOOLEAN, UNCHANGED onlyApp PROVE SetupInv'
  <2>1. MachineTypes'
    BY <1>2, <1>3 DEF MachineTypes, onlyApp, Done, onlyOp, deviceVars,
       registryVars, svcVars
  <2>. QED BY <1>1, <1>2, <1>3, <2>1, DoneInv
<1>4. CASE AppKill
  BY <1>3, <1>4, IgnoredInv DEF AppKill
<1>5. CASE AppStart
  BY <1>3, <1>5, FailsInv DEF AppStart
<1>6. CASE AppSeen
  BY <1>1, <1>2, <1>6, LookInv, RefusedInv DEF AppSeen, MachineSame
<1>. QED BY <1>4, <1>5, <1>6

LEMMA AppComesOrGoesInv == ASSUME SetupInv, AppComesOrGoes PROVE SetupInv'
<1>1. MachineTypes
  BY DEF SetupInv
<1>2. boots' \in 0 .. MaxBoots /\ app' \in BOOLEAN
  BY <1>1, SetupConstants DEF AppComesOrGoes, MachineTypes
<1>3. UNCHANGED <<wizardVars, onlyApp, ops>>
  BY DEF AppComesOrGoes
<1>4. MachineTypes' /\ WizardTypes'
  BY <1>1, <1>2, <1>3 DEF SetupInv, MachineTypes, WizardTypes, wizardVars,
     historyVars, checkVars, onlyApp, deviceVars, registryVars, svcVars
<1>5. Unhurt /\ Installed => Unhurt' /\ Installed'
  BY <1>3 DEF Unhurt, Installed, wizardVars, historyVars, checkVars, onlyApp,
     deviceVars, registryVars, svcVars
<1>6. (FilesSound => FilesSound') /\ (Removed => Removed')
      /\ UNCHANGED <<owner, op>>
  BY <1>3 DEF FilesSound, Removed, Gone, wizardVars, historyVars, onlyApp,
     deviceVars, registryVars, svcVars
<1>. QED BY <1>4, <1>5, <1>6 DEF SetupInv, Working

LEMMA CheckInv == ASSUME SetupInv, Check PROVE SetupInv'
<1>1. At("check", "none") /\ WizardTypes /\ MachineTypes /\ FilesSound
  BY DEF Check, SetupInv
<1>2. op # "install" /\ Working
  BY <1>1, Before DEF InstallAt, At
<1>3. PICK silent \in SUBSET Queries :
        /\ unseen' = silent /\ hurt' = (hurt \/ silent # {})
        /\ IF Remains \subseteq silent
           THEN nextStep' = nextStep + 1 /\ UNCHANGED failed
           ELSE failed' = TRUE /\ UNCHANGED nextStep
  BY DEF Check
<1>4. /\ UNCHANGED <<ui, owner, op, unposted, clean, reads, last, log, json>>
      /\ UNCHANGED machineVars /\ UNCHANGED <<ops, boots>>
  BY DEF Check, checkVars
<1>5. WizardTypes'
  <2>1. nextStep' \in {nextStep, nextStep + 1}
    BY <1>3
  <2>2. nextStep \in 1 .. Len(Program[op]) /\ Len(Program[op]) \in Nat
    BY <1>1, StepIsInProgram
  <2>3. nextStep' \in 1 .. Len(Program[op]) + 1
    BY <2>1, <2>2
  <2>4. failed' \in BOOLEAN /\ hurt' \in BOOLEAN
    BY <1>1, <1>3 DEF WizardTypes
  <2>. QED BY <1>1, <1>3, <1>4, <2>3, <2>4 DEF WizardTypes
<1>6. MachineTypes' /\ FilesSound'
  BY <1>1, <1>4, SameMachine DEF MachineSame, FilesSound
<1>7. ASSUME op = "uninstall" PROVE Removed'
  <2>1. Removed /\ nextStep = 8
    BY <1>1, <1>7, BeforeUninstall DEF UninstallAt
  <2>2. UNCHANGED <<dev, svc, config, settings>>
    BY <1>4 DEF machineVars, deviceVars, svcVars, registryVars
  <2>3. ~hurt' => Gone'
    <3>1. ~hurt' => ~hurt
      BY <1>3
    <3>2. nextStep' \in {8, 9}
      BY <1>3, <2>1
    <3>. QED BY <2>1, <2>2, <3>1, <3>2 DEF Removed, Gone
  <2>4. ASSUME nextStep' > 8, NEW k \in Kind, dev'[k] \in Bound
        PROVE  k \in unseen'
    <3>1. Remains \subseteq silent
      BY <1>3, <2>1, <2>4
    <3>2. k \in Remains
      BY <2>2, <2>4 DEF Remains
    <3>. QED BY <1>3, <3>1, <3>2
  <2>. QED BY <2>3, <2>4 DEF Removed
<1>. QED BY <1>2, <1>4, <1>5, <1>6, <1>7 DEF SetupInv

-----------------------------------------------------------------------------
(* The first-run checks.                                                   *)

(* A check that passes has found what Installed says from then on; one that*)
(* does not leaves clean FALSE.                                            *)
LEMMA ThenShowInv ==
  ASSUME SetupInv, NEW s, NEW k, At(s, k), NEW passes \in BOOLEAN,
         ThenShow(passes), s \in {"ensure", "look", "open"},
         UNCHANGED <<deviceVars, config, svcVars, app>>,
         settings' \in BOOLEAN, settings => settings',
         s = "ensure" /\ passes => settings',
         s = "look" /\ k = "service" /\ passes => svc.state = "running"
  PROVE  SetupInv'
<1>1. MachineTypes'
  BY DEF SetupInv, MachineTypes, deviceVars, svcVars, ThenShow
<1>2. UNCHANGED <<ui, op, owner, failed, hurt, unseen, unposted, last, log,
                  json, ops>>
      /\ nextStep' = nextStep + 1
  BY DEF ThenShow, historyVars
<1>3. WizardTypes'
  <2>1. nextStep \in 1 .. Len(Program[op]) /\ Len(Program[op]) \in Nat
    BY StepIsInProgram DEF SetupInv
  <2>2. nextStep' \in 1 .. Len(Program[op]) + 1
    BY <1>2, <2>1
  <2>3. clean' \in BOOLEAN
    BY DEF ThenShow
  <2>4. reads' \in 0 .. ReadAttempts
    BY SetupConstants DEF ThenShow
  <2>. QED BY <1>2, <2>2, <2>3, <2>4 DEF SetupInv, WizardTypes
<1>4. ASSUME op = "install" PROVE Unhurt' /\ Installed'
  <2>1. /\ Unhurt /\ Installed
        /\ nextStep \in 1 .. 31 /\ InstallAt(nextStep, s, k)
    BY <1>4, Before
  <2>2. nextStep > 23
    BY <2>1 DEF InstallAt
  <2>3. Unhurt'
    BY <1>2, <2>1, <2>2 DEF Unhurt, deviceVars, svcVars
  <2>4. clean' => clean /\ passes
    BY DEF ThenShow
  <2>5. nextStep' > 24 /\ clean' => settings'
    BY <1>2, <2>1, <2>2, <2>4 DEF Installed, InstallAt
  <2>6. nextStep' > 26 /\ clean' => svc'.state = "running"
    BY <1>2, <2>1, <2>2, <2>4 DEF Installed, InstallAt, svcVars
  <2>7. Installed'
    BY <1>2, <2>1, <2>2, <2>5, <2>6 DEF Installed, deviceVars, svcVars
  <2>. QED BY <2>3, <2>7
<1>5. op # "uninstall"
  BY NotUninstall
<1>6. FilesSound'
  BY <1>2 DEF SetupInv, FilesSound
<1>. QED BY <1>1, <1>2, <1>3, <1>4, <1>5, <1>6 DEF SetupInv

LEMMA ShowsInv ==
  ASSUME SetupInv, NEW s, NEW k, NEW good, Shows(s, k, good),
         s \in {"look", "open"},
         s = "look" /\ k = "service" => (good => svc.state = "running")
  PROVE  SetupInv'
<1>1. PICK ok \in BOOLEAN : (ok => good) /\ ThenShow(ok)
  BY DEF Shows
<1>2. /\ At(s, k)
      /\ UNCHANGED <<deviceVars, config, svcVars, app, settings>>
  BY DEF Shows, machineVars, registryVars
<1>3. settings \in BOOLEAN
  BY DEF SetupInv, MachineTypes
<1>. QED BY <1>1, <1>2, <1>3, ThenShowInv

LEMMA ReadsMore ==
  ASSUME SetupInv, NEW s, NEW k, At(s, k), reads' \in 0 .. ReadAttempts,
         UNCHANGED <<ui, owner, op, nextStep, failed, historyVars, unposted,
                     clean, last, log, json, ops, boots>>,
         UNCHANGED machineVars
  PROVE  SetupInv'
<1>1. MachineTypes' /\ WizardTypes'
  BY SameMachine DEF SetupInv, MachineSame, WizardTypes, historyVars
<1>2. Unhurt /\ Installed => Unhurt' /\ Installed'
  BY DEF Unhurt, Installed, historyVars, machineVars, deviceVars,
     registryVars, svcVars
<1>3. (FilesSound => FilesSound') /\ (Removed => Removed')
  BY DEF FilesSound, Removed, Gone, historyVars, machineVars, deviceVars,
     registryVars, svcVars
<1>. QED BY <1>1, <1>2, <1>3 DEF SetupInv, Working

LEMMA EnsureInv == ASSUME SetupInv, EnsureRegistrySettings PROVE SetupInv'
<1>1. PICK ok \in BOOLEAN :
        settings' = EnsureValue(settings, ok) /\ ThenShow(ok)
  BY DEF EnsureRegistrySettings
<1>2. settings' \in BOOLEAN /\ (settings => settings') /\ (ok => settings')
  BY <1>1 DEF EnsureValue
<1>. QED BY <1>1, <1>2, ThenShowInv DEF EnsureRegistrySettings

LEMMA FrameInv ==
  ASSUME SetupInv, OpenVirtualCameraSource \/ CheckTestFrameOpen
  PROVE  SetupInv'
<1>1. At("open", "frame")
  BY DEF OpenVirtualCameraSource, CheckTestFrameOpen
<1>2. reads \in 0 .. ReadAttempts /\ settings \in BOOLEAN
  BY DEF SetupInv, WizardTypes, MachineTypes
<1>3. ASSUME NEW passes \in BOOLEAN, ThenShow(passes), UNCHANGED machineVars
      PROVE  SetupInv'
  BY <1>1, <1>2, <1>3, ThenShowInv DEF machineVars, registryVars
<1>4. CASE OpenVirtualCameraSource
  <2>1. CASE ThenShow(FALSE) /\ UNCHANGED machineVars
    BY <1>3, <2>1
  <2>2. CASE ~ThenShow(FALSE)
    <3>1. reads' \in 0 .. ReadAttempts
      <4>1. reads' = 1
        BY <1>4, <2>2 DEF OpenVirtualCameraSource
      <4>. QED BY <4>1, SetupConstants
    <3>. QED BY <1>1, <1>4, <2>2, <3>1, ReadsMore DEF OpenVirtualCameraSource
  <2>. QED BY <1>4, <2>1, <2>2 DEF OpenVirtualCameraSource
<1>5. CASE CheckTestFrameOpen
  <2>1. PICK answer \in OnReadSample :
          IF answer = "nothing" /\ reads < ReadAttempts
          THEN /\ reads' = reads + 1
               /\ UNCHANGED <<ui, owner, op, nextStep, failed, historyVars,
                              unposted, clean, last, log, json, ops, boots>>
          ELSE ThenShow(answer = "sample")
    BY <1>5 DEF CheckTestFrameOpen
  <2>2. CASE answer = "nothing" /\ reads < ReadAttempts
    <3>1. reads' \in 0 .. ReadAttempts
      BY <1>2, <2>1, <2>2, SetupConstants
    <3>. QED BY <1>1, <1>5, <2>1, <2>2, <3>1, ReadsMore DEF CheckTestFrameOpen
  <2>3. CASE ~(answer = "nothing" /\ reads < ReadAttempts)
    BY <1>3, <1>5, <2>1, <2>3 DEF CheckTestFrameOpen
  <2>. QED BY <2>2, <2>3
<1>. QED BY <1>4, <1>5

LEMMA FirstRunInv == ASSUME SetupInv, FirstRun PROVE SetupInv'
<1>1. CASE CheckWatcherService
  BY <1>1, ShowsInv DEF CheckWatcherService
<1>2. CASE \/ CheckPnpDevice \/ CheckVirtualCameraEnumeration
           \/ CheckVirtualCameraOpen \/ CheckMicEnumeration \/ CheckMicOpen
  <2>1. PICK s \in {"look", "open"}, k \in {"device", "camera", "mic"} :
             \E good : Shows(s, k, good)
    BY <1>2 DEF CheckPnpDevice, CheckVirtualCameraEnumeration,
       CheckVirtualCameraOpen, CheckMicEnumeration, CheckMicOpen
  <2>. QED BY <2>1, ShowsInv
<1>. QED BY <1>1, <1>2, EnsureInv, FrameInv DEF FirstRun

-----------------------------------------------------------------------------
(* Operations begin and end.                                               *)

(* Nothing but the window, the outcome and the count of operations.        *)
LEMMA WindowInv ==
  ASSUME SetupInv, WizardTypes', UNCHANGED <<machineVars, boots>>,
         UNCHANGED <<op, nextStep, failed, hurt, clean>>,
         Working' => Working /\ UNCHANGED unseen, FilesSound'
  PROVE  SetupInv'
<1>1. MachineTypes'
  BY SameMachine DEF SetupInv, MachineSame
<1>2. /\ Unhurt /\ Installed => Unhurt' /\ Installed'
      /\ Working' /\ Removed => Removed'
  BY DEF Unhurt, Installed, Removed, Gone, machineVars, deviceVars,
     registryVars, svcVars
<1>. QED BY <1>1, <1>2 DEF SetupInv

LEMMA BeginOperationInv ==
  ASSUME SetupInv, NEW o \in Op, NEW w \in {"worker", "headless"},
         BeginOperation(o, w), ui' \in {"none", "idle", "busy", "ok"}
  PROVE  SetupInv'
<1>1. /\ op' = o /\ owner' = w /\ nextStep' = 1
      /\ failed' = FALSE /\ hurt' = FALSE /\ unseen' = {} /\ log' = FALSE
      /\ clean' = TRUE /\ reads' = 0
      /\ ops < MaxOps /\ ops' = ops + 1
      /\ UNCHANGED <<unposted, last, json>> /\ UNCHANGED boots /\ UNCHANGED machineVars
  BY DEF BeginOperation
<1>2. WizardTypes /\ MachineTypes /\ FilesSound
  BY DEF SetupInv
<1>3. WizardTypes'
  <2>1. nextStep' \in 1 .. Len(Program[o]) + 1
    BY <1>1, Lengths DEF Op
  <2>2. ops' \in 0 .. MaxOps
    BY <1>1, <1>2, SetupConstants DEF WizardTypes
  <2>3. reads' \in 0 .. ReadAttempts
    BY <1>1, SetupConstants
  <2>4. log' \in BOOLEAN /\ clean' \in BOOLEAN /\ failed' \in BOOLEAN
        /\ hurt' \in BOOLEAN
    BY <1>1
  <2>. QED BY <1>1, <1>2, <2>1, <2>2, <2>3, <2>4 DEF WizardTypes
<1>4. MachineTypes'
  BY <1>1, <1>2, SameMachine DEF MachineSame
<1>5. FilesSound'
  BY <1>1, <1>2 DEF FilesSound
<1>6. Unhurt' /\ Installed' /\ Removed'
  BY <1>1 DEF Unhurt, Installed, Removed, Gone
<1>. QED BY <1>3, <1>4, <1>5, <1>6 DEF SetupInv

LEMMA BeginsInv ==
  ASSUME SetupInv, NEW o \in Op, RunUiAction(o) \/ RunHeadless(o)
  PROVE  SetupInv'
<1>1. PICK w \in {"worker", "headless"} : BeginOperation(o, w)
  BY DEF RunUiAction, RunHeadless
<1>2. ui' \in {"none", "idle", "busy", "ok"}
  BY DEF RunUiAction, RunHeadless, SetupInv, WizardTypes
<1>. QED BY <1>1, <1>2, BeginOperationInv

LEMMA ReportInv == ASSUME SetupInv, Report PROVE SetupInv'
<1>1. /\ Working /\ Files /\ owner' = "nobody" /\ unseen' = {}
      /\ ui' \in {Reported, ui} /\ unposted' \in {unposted, TRUE}
      /\ last' = IF op = "launch" THEN last
                 ELSE IF failed THEN "failed" ELSE "ok"
      /\ UNCHANGED <<op, nextStep, failed, hurt, clean, reads>>
      /\ UNCHANGED machineVars /\ UNCHANGED <<ops, boots>>
  BY DEF Report, checkVars
<1>2. WizardTypes /\ FilesSound
  BY DEF SetupInv
<1>3. log' \in BOOLEAN /\ json' \in BOOLEAN
  BY <1>1, <1>2 DEF Files, WriteRunJson, RemoveRunJson, WizardTypes
<1>4. ui' \in {"none", "idle", "busy", "ok"}
  BY <1>1, <1>2 DEF Reported, WizardTypes
<1>5. WizardTypes'
  BY <1>1, <1>2, <1>3, <1>4 DEF WizardTypes
<1>6. FilesSound'
  <2>1. CASE op = "launch"
    BY <1>1, <1>2, <2>1 DEF FilesSound, Files
  <2>2. CASE op # "launch" /\ failed
    BY <1>1, <2>2 DEF FilesSound, Files, WriteRunJson
  <2>3. CASE op # "launch" /\ ~failed
    <3>1. ~json' /\ ~log' /\ last' = "ok"
      BY <1>1, <2>3 DEF Files, RemoveRunJson
    <3>. QED BY <3>1 DEF FilesSound
  <2>. QED BY <2>1, <2>2, <2>3
<1>. QED BY <1>1, <1>5, <1>6, WindowInv DEF Working

LEMMA WindowsInv ==
  ASSUME SetupInv,
         \/ ActionRefused \/ WorkerGivesUp \/ PressOk \/ WindowCloses
         \/ OpensAgain
  PROVE  SetupInv'
<1>1. /\ UNCHANGED <<op, nextStep, failed, hurt, unseen, clean, reads, log,
                     json>>
      /\ UNCHANGED machineVars /\ UNCHANGED boots
  BY DEF ActionRefused, WorkerGivesUp, PressOk, WindowCloses, OpensAgain,
     checkVars, historyVars
<1>2. WizardTypes /\ FilesSound
  BY DEF SetupInv
<1>3. /\ ui' \in {"none", "idle", "busy", "ok"}
      /\ owner' \in {owner, "nobody"} /\ last' \in {last, "cut"}
      /\ unposted' \in {unposted, TRUE, FALSE}
  BY DEF ActionRefused, WorkerGivesUp, PressOk, WindowCloses, OpensAgain
<1>4. ops' \in 0 .. MaxOps
  BY <1>2, SetupConstants
     DEF ActionRefused, WorkerGivesUp, PressOk, WindowCloses, OpensAgain,
         WizardTypes
<1>5. WizardTypes'
  BY <1>1, <1>2, <1>3, <1>4 DEF WizardTypes
<1>6. FilesSound'
  BY <1>1, <1>2, <1>3 DEF FilesSound
<1>. QED BY <1>1, <1>3, <1>5, <1>6, WindowInv DEF Working

LEMMA SetupInitInv == ASSUME SetupInit PROVE SetupInv
<1>1. WizardTypes
  <2>1. nextStep \in 1 .. Len(Program[op]) + 1
    BY Lengths DEF SetupInit
  <2>2. reads \in 0 .. ReadAttempts /\ ops \in 0 .. MaxOps
    BY SetupConstants DEF SetupInit
  <2>. QED BY <2>1, <2>2 DEF SetupInit, WizardTypes, Op
<1>2. MachineTypes
  <2>1. 0 \in 0 .. MaxExtra /\ 0 \in 0 .. MaxBoots
    BY SetupConstants
  <2>. QED BY <2>1 DEF SetupInit, MachineTypes, Svc, Absent
<1>. QED BY <1>1, <1>2 DEF SetupInv, SetupInit, FilesSound, Working

LEMMA SetupNextInv == ASSUME SetupInv, [SetupNext]_setupVars PROVE SetupInv'
<1>1. CASE Steps
  BY <1>1, PrerequisiteInv, DevicesInv, ConfigureInv, ForgetInv,
     ProcessExeInv, ServiceStepsInv, AppInv, CheckInv, FirstRunInv, ReportInv
     DEF Steps
<1>2. CASE \E o \in Op : RunUiAction(o) \/ RunHeadless(o)
  BY <1>2, BeginsInv
<1>3. CASE \/ ActionRefused \/ WorkerGivesUp \/ PressOk \/ WindowCloses
           \/ OpensAgain
  BY <1>3, WindowsInv
<1>4. CASE \/ ServiceEnds \/ ServiceRestarts \/ ServiceBoots \/ AppComesOrGoes
  BY <1>4, ServiceEndsInv, ServiceRestartsInv, ServiceBootsInv,
     AppComesOrGoesInv
<1>5. CASE UNCHANGED setupVars
  <2>1. UNCHANGED <<op, nextStep, failed, hurt, unseen, clean, owner, last,
                    log, json>>
        /\ UNCHANGED <<machineVars, boots>>
    BY <1>5 DEF setupVars, wizardVars, historyVars, checkVars
  <2>2. WizardTypes' /\ FilesSound'
    BY <1>5 DEF setupVars, wizardVars, historyVars, checkVars, SetupInv,
       WizardTypes, FilesSound
  <2>. QED BY <2>1, <2>2, WindowInv DEF Working
<1>. QED BY <1>1, <1>2, <1>3, <1>4, <1>5 DEF SetupNext

LEMMA SetupIsSound == SetupSpec => []SetupInv
  BY SetupInitInv, SetupNextInv, PTL DEF SetupSpec

(* Every variable of the wizard and of the machine keeps its type.         *)
THEOREM SetupTypes == SetupSpec => []SetupTypeOK
  BY SetupIsSound, SetupInvGives, PTL

(* What an operation reports is true of the machine, of an uninstallation  *)
(* as far as its check could look and entirely if nothing has failed, and  *)
(* the report is there when the last one failed and only then (RunMode,    *)
(* RunNativeInstall, RunNativeUninstall, RunUninstallChecks).              *)
THEOREM WizardReportsTruly == SetupSpec => []ReportsAreTrue
  BY SetupIsSound, SetupInvGives, PTL

(* An installation whose tools all work succeeds on whatever earlier       *)
(* operations have left (RunNativeInstall).                                *)
THEOREM RetriesHeal == SetupSpec => []RetryHeals
  BY SetupIsSound, SetupInvGives, PTL
=============================================================================
