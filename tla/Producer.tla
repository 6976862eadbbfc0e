------------------------------ MODULE Producer ------------------------------
(***************************************************************************)
(* A producer process (Process.cpp): its main thread initializes one of    *)
(* the built-in producers, then asks it for a frame every now and then     *)
(* until WM_QUIT arrives.  A camera or a video file is read through Media  *)
(* Foundation, which calls AsyncSourceReaderCallback on a thread of its    *)
(* own; a window is captured with WGC, PrintWindow or BitBlt; an image is  *)
(* published over and over.                                                *)
(*                                                                         *)
(* A sample is its number: the n-th the camera delivers, or the n-th of    *)
(* the file.  A picture of a window is the size it was taken at.           *)
(*                                                                         *)
(* Left out: D3D objects other than the texture a source is uploaded to,   *)
(* the canvas, the count of dropped samples, and the pace of the loop,     *)
(* which only delays ProcessFrame.  How outputs get their names and who    *)
(* maps them is in Broadcast, how the status is written in StatusPage.     *)
(***************************************************************************)
EXTENDS Integers

CONSTANTS
  Kinds,        \* --type and --media-kind
  Overrides,    \* VIRTUACAM_CAPTURE_BACKEND: "auto" or a backend
  Length,       \* samples of the file
  MaxSamples,   \* bound on what the camera delivers
  Sizes,        \* sizes of the window; 0: it has no client area
  MaxResizes    \* bound on the changes of the window

ASSUME ProducerConstants ==
  /\ Kinds \subseteq {"camera", "video", "image", "window", "display"}
  /\ Overrides \subseteq {"auto", "wgc", "printwindow", "bitblt"}
  /\ Length \in Nat \ {0} /\ MaxSamples \in Nat
  /\ Sizes \subseteq Nat /\ 0 \in Sizes /\ MaxResizes \in Nat

VARIABLES
  kind, override,
  main,       \* where the main thread is: see MainSteps
  quit,       \* WM_QUIT is in its queue
  capturing,  \* g_isCapturing
  outputs,    \* the shared outputs exist
  frame,      \* g_fenceValue modulo 2: it changes with every picture
  shown,      \* the picture that was published last
  newest,     \* the sample published last since the file was begun
  \* the source reader and its callback
  reader,     \* what main and Media Foundation hold: see Reader
  cb,         \* the callback's members: see Callback
  mf,         \* the thread that calls the callback: see Worker
  fault,      \* Media Foundation has failed a call or a read, or a sample
              \* could not be used
  \* the capture of a window or a display
  backend,    \* g_captureBackend
  wgc,        \* how far the WGC objects were made
  pool,       \* the size g_framePool was created with
  size,       \* g_captureWidth and g_captureHeight
  texture,    \* the size of g_sourceD3D11Texture
  cache,      \* the size of g_gdiCache
  uploaded,   \* sizes of the texture and of the bits at the last upload
  window,     \* the client area
  resizes     \* how often it has changed

mediaVars == <<reader, cb, mf, fault>>
captureVars == <<backend, wgc, pool, size, texture, cache, uploaded>>
windowVars == <<window, resizes>>
producerVars == <<kind, override, main, quit, capturing, outputs, frame, shown,
                  newest, mediaVars, captureVars, windowVars>>

None == 0                         \* no sample, no size, no picture
Sample == 1 .. (IF Length > MaxSamples THEN Length ELSE MaxSamples)
Media == {"camera", "video"}
Outcome ==                        \* what a read ends with
  [ok : BOOLEAN, end : BOOLEAN, sample : Sample \cup {None}]
MainSteps ==
  {"start", "printwindow", "bitblt",  \* Initialize, and its fallbacks
   "loop",                            \* the message loop
   "first", "read",                   \* in BeginRead, before ReadSample
   "flush", "drop",                   \* in ShutdownProducer
   "done", "failed"}                  \* it has returned, at once if failed
Reader ==
  [held : BOOLEAN,                    \* g_sourceReader
   asked : {0, 1},                    \* reads that were not answered
   next : Nat,                        \* what the next read delivers
   flushing : BOOLEAN]                \* OnFlush will be called
Callback ==
  [reader : BOOLEAN, pending : BOOLEAN, shut : BOOLEAN,
   has : BOOLEAN, latest : Outcome]
Worker ==
  [at : {"idle", "called", "begin", "read"}, got : Outcome]

NoOutcome == [ok |-> TRUE, end |-> FALSE, sample |-> None]
Failure == [ok |-> FALSE, end |-> FALSE, sample |-> None]
EndOfStream == [ok |-> TRUE, end |-> TRUE, sample |-> None]
Delivered(n) == [ok |-> TRUE, end |-> FALSE, sample |-> n]

ProducerInit ==
  /\ kind \in Kinds
  /\ override \in (IF kind = "window" THEN Overrides ELSE {"auto"})
  /\ main = "start" /\ quit = FALSE
  /\ capturing = FALSE /\ outputs = FALSE /\ frame = 0 /\ shown = None
  /\ newest = None
  /\ reader = [held |-> FALSE, asked |-> 0, next |-> 1, flushing |-> FALSE]
  /\ cb = [reader |-> FALSE, pending |-> FALSE, shut |-> FALSE,
           has |-> FALSE, latest |-> NoOutcome]
  /\ mf = [at |-> "idle", got |-> NoOutcome]
  /\ fault = FALSE
  /\ backend = "none" /\ wgc = "none" /\ pool = None
  /\ size = None /\ texture = None
  /\ cache = None /\ uploaded = <<None, None>>
  /\ window \in Sizes /\ resizes = 0

-----------------------------------------------------------------------------
(* AsyncSourceReaderCallback                                               *)

(* SetReader.                                                              *)
ReaderSet ==
  [cb EXCEPT !.reader = TRUE, !.pending = FALSE, !.shut = FALSE,
             !.has = FALSE, !.latest.sample = None]

(* BeginRead under the mutex: whether a read is asked for.                 *)
MayBegin(c) == ~c.shut /\ ~c.pending /\ c.reader

Begun(c) == [c EXCEPT !.pending = MayBegin(c) \/ @]

(* What BeginRead leaves if ReadSample failed.                             *)
Refused(c) == [c EXCEPT !.pending = FALSE, !.has = TRUE, !.latest = Failure]

(* What OnReadSample leaves; the rest of it is the next BeginRead.         *)
Received(c, got) ==
  IF c.shut
  THEN [c EXCEPT !.pending = FALSE]
  ELSE [c EXCEPT !.pending = FALSE, !.latest = got, !.has = TRUE]

(* Faulty: asks for more after the end.                                    *)
ReadsOnFaulty(got) == got.ok
ReadsOn(got) == got.ok /\ ~got.end

(* TryTakeLatest.                                                          *)
Taken(c) == [c EXCEPT !.has = FALSE, !.latest.sample = None]

(* Faulty: the callback keeps the reader.                                  *)
ShutFaulty(c) ==
  [c EXCEPT !.shut = TRUE, !.pending = FALSE, !.has = FALSE,
            !.latest.sample = None]

(* Shutdown.                                                               *)
Shut(c) ==
  [c EXCEPT !.shut = TRUE, !.pending = FALSE, !.has = FALSE,
            !.latest.sample = None, !.reader = FALSE]

-----------------------------------------------------------------------------
(* Media Foundation                                                        *)

(* Who holds the reader: main, the callback, and either in BeginRead.      *)
ReaderAlive ==
  reader.held \/ cb.reader \/ mf.at = "read" \/ main \in {"first", "read"}

(* What a read may end with.                                               *)
Outcomes ==
  (IF kind = "video"
   THEN {IF reader.next <= Length THEN Delivered(reader.next) ELSE EndOfStream}
   ELSE {NoOutcome} \cup {Delivered(n) : n \in {reader.next} \cap Sample})
  \cup {Failure}

(* A read is answered.  Callbacks come one at a time.                      *)
Answer ==
  /\ ReaderAlive /\ reader.asked > 0 /\ mf.at = "idle"
  /\ \E got \in Outcomes :
       /\ mf' = [at |-> "called", got |-> got]
       /\ reader' = [reader EXCEPT !.asked = @ - 1,
                       !.next = IF got.sample # None THEN @ + 1 ELSE @]
       /\ fault' = (fault \/ ~got.ok)
  /\ UNCHANGED <<kind, override, main, quit, capturing, outputs, frame, shown,
                 newest, cb, captureVars, windowVars>>

OnFlush ==
  /\ ReaderAlive /\ reader.flushing /\ mf.at = "idle"
  /\ reader' = [reader EXCEPT !.flushing = FALSE]
  /\ cb' = [cb EXCEPT !.pending = FALSE, !.has = FALSE, !.latest.sample = None]
  /\ UNCHANGED <<kind, override, main, quit, capturing, outputs, frame, shown,
                 newest, mf, fault, captureVars, windowVars>>

OnReadSample ==
  /\ mf.at = "called"
  /\ cb' = Received(cb, mf.got)
  /\ mf' = [mf EXCEPT !.at =
              IF ~cb.shut /\ ReadsOn(mf.got) THEN "begin" ELSE "idle"]
  /\ UNCHANGED <<kind, override, main, quit, capturing, outputs, frame, shown,
                 newest, reader, fault, captureVars, windowVars>>

(* BeginRead on the thread of the callback: the part under the mutex.      *)
WorkerBegins ==
  /\ mf.at = "begin"
  /\ cb' = Begun(cb)
  /\ mf' = [mf EXCEPT !.at = IF MayBegin(cb) THEN "read" ELSE "idle"]
  /\ UNCHANGED <<kind, override, main, quit, capturing, outputs, frame, shown,
                 newest, reader, fault, captureVars, windowVars>>

(* ReadSample is called without the mutex, and may fail.                   *)
ReadSample ==
  \/ reader' = [reader EXCEPT !.asked = @ + 1] /\ UNCHANGED <<cb, fault>>
  \/ cb' = Refused(cb) /\ fault' = TRUE /\ UNCHANGED reader

WorkerReads ==
  /\ mf.at = "read"
  /\ ReadSample
  /\ mf' = [mf EXCEPT !.at = "idle"]
  /\ UNCHANGED <<kind, override, main, quit, capturing, outputs, frame, shown,
                 newest, captureVars, windowVars>>

-----------------------------------------------------------------------------
(* A camera or a file: BuiltInCameraProducer                               *)

(* InitializeProducer and InitializeFileProducer up to ReadSample.         *)
InitializeReader ==
  /\ main = "start" /\ kind \in Media
  /\ reader' = [reader EXCEPT !.held = TRUE]
  /\ cb' = Begun(ReaderSet)
  /\ outputs' = TRUE /\ capturing' = TRUE
  /\ main' = "first"
  /\ UNCHANGED <<kind, override, quit, frame, shown, newest, mf, fault,
                 captureVars, windowVars>>

InitializeImage ==
  /\ main = "start" /\ kind = "image"
  /\ outputs' = TRUE /\ capturing' = TRUE
  /\ main' = "loop"
  /\ UNCHANGED <<kind, override, quit, frame, shown, newest, mediaVars,
                 captureVars, windowVars>>

(* They fail before g_isCapturing is set, with or without the reader:      *)
(* ShutdownProducer then returns at once.                                  *)
InitializeFails ==
  /\ main = "start" /\ kind \in Media \cup {"image"}
  /\ main' = "failed"
  /\ \/ UNCHANGED <<reader, cb, outputs>>
     \/ /\ kind \in Media
        /\ reader' = [reader EXCEPT !.held = TRUE] /\ cb' = ReaderSet
        /\ outputs' \in BOOLEAN
  /\ UNCHANGED <<kind, override, quit, capturing, frame, shown, newest, mf,
                 fault, captureVars, windowVars>>

(* The first part of ShutdownProducer.                                     *)
BeginsShutdown == capturing' = FALSE /\ cb' = Shut(cb) /\ main' = "flush"

(* ReadSample on the main thread.  A failure ends the initialization, and  *)
(* is ignored after a restart of the file.                                 *)
MainReads ==
  /\ \/ /\ main \in {"first", "read"}
        /\ reader' = [reader EXCEPT !.asked = @ + 1]
        /\ main' = "loop"
        /\ UNCHANGED <<cb, fault, capturing>>
     \/ /\ main = "read"
        /\ cb' = Refused(cb) /\ fault' = TRUE
        /\ main' = "loop"
        /\ UNCHANGED <<reader, capturing>>
     \/ /\ main = "first"
        /\ BeginsShutdown
        /\ fault' = TRUE
        /\ UNCHANGED reader
  /\ UNCHANGED <<kind, override, quit, outputs, frame, shown, newest, mf,
                 captureVars, windowVars>>

Published(picture) == frame' = 1 - frame /\ shown' = picture

(* ProcessFrame with a sample, if it can be uploaded and drawn.            *)
PublishSample ==
  /\ main = "loop" /\ capturing /\ cb.has /\ cb.latest.sample # None
  /\ cb' = Taken(cb)
  /\ Published(cb.latest.sample)
  /\ newest' = cb.latest.sample
  /\ UNCHANGED <<kind, override, main, quit, capturing, outputs, reader, mf,
                 fault, captureVars, windowVars>>

(* ProcessFrame with a sample it cannot use, a failure, or neither.        *)
TakeForNothing ==
  /\ main = "loop" /\ capturing /\ cb.has /\ ~(cb.latest.ok /\ cb.latest.end)
  /\ cb' = Taken(cb)
  /\ fault' = (fault \/ cb.latest.sample # None)
  /\ UNCHANGED <<kind, override, main, quit, capturing, outputs, frame, shown,
                 newest, reader, mf, captureVars, windowVars>>

(* ProcessFrame at the end of the file.  SetCurrentPosition is refused     *)
(* while a read is outstanding.                                            *)
RestartFile ==
  /\ main = "loop" /\ capturing /\ cb.has /\ cb.latest.ok /\ cb.latest.end
  /\ \/ /\ reader.asked = 0
        /\ reader' = [reader EXCEPT !.next = 1]
        /\ newest' = None
        /\ cb' = Begun(Taken(cb))
        /\ main' = IF MayBegin(cb) THEN "read" ELSE "loop"
        /\ UNCHANGED fault
     \/ /\ cb' = Taken(cb)
        /\ fault' = (fault \/ reader.asked = 0)
        /\ UNCHANGED <<reader, newest, main>>
  /\ UNCHANGED <<kind, override, quit, capturing, outputs, frame, shown, mf,
                 captureVars, windowVars>>

PublishImage ==
  /\ main = "loop" /\ capturing /\ kind = "image"
  /\ Published(1)
  /\ UNCHANGED <<kind, override, main, quit, capturing, outputs, newest,
                 mediaVars, captureVars, windowVars>>

(* WM_QUIT is taken: ShutdownProducer of this producer.                    *)
ShutdownReader ==
  /\ main = "loop" /\ quit /\ kind \in Media
  /\ BeginsShutdown
  /\ UNCHANGED <<kind, override, quit, outputs, frame, shown, newest, reader,
                 mf, fault, captureVars, windowVars>>

Flush ==
  /\ main = "flush"
  /\ reader' = [reader EXCEPT !.asked = 0, !.flushing = TRUE]
  /\ main' = "drop"
  /\ UNCHANGED <<kind, override, quit, capturing, outputs, frame, shown,
                 newest, cb, mf, fault, captureVars, windowVars>>

DropReader ==
  /\ main = "drop"
  /\ reader' = [reader EXCEPT !.held = FALSE]
  /\ outputs' = FALSE
  /\ main' = "done"
  /\ UNCHANGED <<kind, override, quit, capturing, frame, shown, newest, cb, mf,
                 fault, captureVars, windowVars>>

-----------------------------------------------------------------------------
(* A window or a display: BuiltInCaptureProducer                           *)

(* The size of the item that is captured.  A window without client area    *)
(* has one too, but a pool cannot have the size 0.                         *)
ItemSizes == IF window = 0 THEN Sizes \ {0} ELSE {window}

(* InitWgc and InitWgcMonitor succeed, and the outputs are made.  The pool *)
(* gets the size the item has now, and is not created again.               *)
InitWgc ==
  /\ main = "start"
  /\ kind = "display" \/ (kind = "window" /\ override \in {"auto", "wgc"})
  /\ wgc' = "running" /\ backend' = "wgc"
  /\ pool' \in ItemSizes /\ size' = pool'
  /\ outputs' = TRUE /\ capturing' = TRUE
  /\ main' = "loop"
  /\ UNCHANGED <<kind, override, quit, frame, shown, newest, mediaVars,
                 texture, cache, uploaded, windowVars>>

(* ResetSharedOutputs.                                                     *)
OutputsReset ==
  outputs' = FALSE /\ size' = None /\ texture' = None /\ cache' = None

(* InitWgc fails, and leaves what it has made.  A window then falls back,  *)
(* if no backend was forced; otherwise, and if the outputs cannot be made, *)
(* the initialization fails.                                               *)
WgcFails ==
  /\ main = "start"
  /\ kind = "display" \/ (kind = "window" /\ override \in {"auto", "wgc"})
  /\ \/ /\ kind = "window" /\ override = "auto"
        /\ wgc' \in {"none", "partial"}
        /\ OutputsReset
        /\ main' = "printwindow"
     \/ /\ wgc' \in {"none", "partial", "running"}
        /\ wgc' # "running" => kind = "display" \/ override = "wgc"
        /\ outputs' \in {FALSE, wgc' = "running"}
        /\ main' = "failed"
        /\ UNCHANGED <<size, texture, cache>>
  /\ pool' \in (CASE wgc' = "none" -> {None}
                  [] wgc' = "partial" -> {None} \cup ItemSizes
                  [] wgc' = "running" -> ItemSizes)
  /\ UNCHANGED <<kind, override, quit, capturing, frame, shown, newest,
                 mediaVars, backend, uploaded, windowVars>>

(* EnsureCaptureSourceTexture, and GdiCaptureCache::Ensure: what they      *)
(* leave, None if they fail.                                               *)
Ensured(have, w) == IF have = w THEN {w} ELSE {w, None}

(* Faulty: what is there will do.                                          *)
CachedFaulty(have, w) == IF have # None THEN {have} ELSE {w, None}
Cached(have, w) == IF have = w THEN {w} ELSE {w, None}

(* Faulty: not made again.                                                 *)
EnsuredAgainFaulty(have, w) == {have}
(* The second call of EnsureCaptureSourceTexture, before the upload.       *)
EnsuredAgain(have, w) == Ensured(have, w)

(* CapturePrintWindowFrame and CaptureBitBltFrame on s, the record of      *)
(* size, texture, cache and uploaded: what they may leave, and whether     *)
(* they drew a picture of the window.                                      *)
GdiFrames(s) ==
  LET w == window
      sized == [s EXCEPT !.size = w]
      made == IF s.size = w THEN {} ELSE Ensured(s.texture, w)
      textures == IF s.size = w THEN {s.texture} ELSE made \ {None}
      caches == Cached(s.cache, w)
      \* the texture for the new size cannot be made
      first == {[sized EXCEPT !.texture = t] : t \in made \cap {None}}
      \* the cache cannot be made, or nothing or only black was copied
      second == {[sized EXCEPT !.texture = p[1], !.cache = p[2]] :
                   p \in textures \X caches}
      \* the texture was not there, and again cannot be made
      third == {[sized EXCEPT !.texture = None, !.cache = c] :
                  c \in IF None \in textures THEN caches \ {None} ELSE {}}
      \* uploaded, and drawn or not
      again == (UNION {EnsuredAgain(u, w) : u \in textures}) \ {None}
      last == {[sized EXCEPT !.texture = p[1], !.cache = p[2],
                             !.uploaded = p] :
                 p \in again \X (caches \ {None})}
  IN IF w = 0
     THEN {[left |-> s, drawn |-> FALSE]}
     ELSE {[left |-> r, drawn |-> FALSE] :
             r \in first \cup second \cup third \cup last}
          \cup {[left |-> r, drawn |-> TRUE] : r \in last}

Gdi == [size |-> size, texture |-> texture, cache |-> cache,
        uploaded |-> uploaded]

Leaves(s) == size' = s.size /\ texture' = s.texture /\ cache' = s.cache
             /\ uploaded' = s.uploaded

(* InitPrintWindowCapture and its test picture.                            *)
FirstSize(s) == [s EXCEPT !.size = window, !.texture = window,
                          !.cache = window]

InitPrintWindow ==
  /\ \/ main = "printwindow"
     \/ main = "start" /\ kind = "window" /\ override = "printwindow"
  /\ window # 0
  /\ \E f \in GdiFrames(FirstSize(Gdi)) : f.drawn /\ Leaves(f.left)
  /\ outputs' = TRUE /\ backend' = "printwindow" /\ capturing' = TRUE
  /\ main' = "loop"
  /\ UNCHANGED <<kind, override, quit, frame, shown, newest, mediaVars, wgc,
                 pool, windowVars>>

PrintWindowFails ==
  /\ \/ /\ main = "printwindow"
        /\ OutputsReset
        /\ main' = "bitblt"
     \/ /\ main = "start" /\ kind = "window" /\ override = "printwindow"
        /\ outputs' \in BOOLEAN
        /\ main' = "failed"
        /\ UNCHANGED <<size, texture, cache>>
  /\ UNCHANGED <<kind, override, quit, capturing, frame, shown, newest,
                 mediaVars, backend, wgc, pool, uploaded, windowVars>>

(* InitBitBltCapture, the last resort.                                     *)
InitBitBlt ==
  /\ \/ main = "bitblt"
     \/ main = "start" /\ kind = "window" /\ override = "bitblt"
  /\ \/ /\ window # 0
        /\ Leaves(FirstSize(Gdi))
        /\ outputs' = TRUE /\ backend' = "bitblt" /\ capturing' = TRUE
        /\ main' = "loop"
     \/ /\ outputs' \in BOOLEAN
        /\ main' = "failed"
        /\ UNCHANGED <<backend, capturing, size, texture, cache, uploaded>>
  /\ UNCHANGED <<kind, override, quit, frame, shown, newest, mediaVars, wgc,
                 pool, windowVars>>

(* ProcessFrame with PrintWindow or BitBlt.                                *)
PublishGdi ==
  /\ main = "loop" /\ capturing /\ backend \in {"printwindow", "bitblt"}
  /\ \E f \in GdiFrames(Gdi) : f.drawn /\ Leaves(f.left)
  /\ Published(window)
  /\ UNCHANGED <<kind, override, main, quit, capturing, outputs, newest,
                 mediaVars, backend, wgc, pool, windowVars>>

GdiFails ==
  /\ main = "loop" /\ capturing /\ backend \in {"printwindow", "bitblt"}
  /\ \E f \in GdiFrames(Gdi) : ~f.drawn /\ Leaves(f.left)
  /\ UNCHANGED <<kind, override, main, quit, capturing, outputs, frame, shown,
                 newest, mediaVars, backend, wgc, pool, windowVars>>

(* ProcessFrame with WGC.  The surface of a frame has the pool's size,     *)
(* whatever the size of the window is by now.                              *)
PublishWgc ==
  /\ main = "loop" /\ capturing /\ backend = "wgc" /\ window # 0
  /\ size' = pool
  /\ Published(pool)
  /\ UNCHANGED <<kind, override, main, quit, capturing, outputs, newest,
                 mediaVars, backend, wgc, pool, texture, cache, uploaded,
                 windowVars>>

(* WM_QUIT is taken: ShutdownProducer of this producer, and of an image.   *)
ShutdownCapture ==
  /\ main = "loop" /\ quit /\ kind \notin Media
  /\ capturing' = FALSE
  /\ wgc' = "none" /\ pool' = None /\ backend' = "none"
  /\ OutputsReset
  /\ main' = "done"
  /\ UNCHANGED <<kind, override, quit, frame, shown, newest, mediaVars,
                 uploaded, windowVars>>

-----------------------------------------------------------------------------
(* The surroundings: the application posts WM_QUIT, the window changes.    *)

PostQuit ==
  /\ ~quit /\ quit' = TRUE
  /\ UNCHANGED <<kind, override, main, capturing, outputs, frame, shown,
                 newest, mediaVars, captureVars, windowVars>>

Resize ==
  /\ kind \in {"window", "display"} /\ resizes < MaxResizes
  /\ window' \in Sizes \ {window} /\ resizes' = resizes + 1
  /\ UNCHANGED <<kind, override, main, quit, capturing, outputs, frame, shown,
                 newest, mediaVars, captureVars>>

MediaFoundation ==
  Answer \/ OnFlush \/ OnReadSample \/ WorkerBegins \/ WorkerReads
ProcessFrame ==
  \/ PublishSample \/ TakeForNothing \/ RestartFile \/ PublishImage
  \/ PublishGdi \/ GdiFails \/ PublishWgc
Initialize ==
  \/ InitializeReader \/ InitializeImage \/ InitializeFails
  \/ InitWgc \/ WgcFails \/ InitPrintWindow \/ PrintWindowFails \/ InitBitBlt
ShutdownProducer == ShutdownReader \/ Flush \/ DropReader \/ ShutdownCapture

ProducerNext ==
  \/ MediaFoundation \/ Initialize \/ MainReads \/ ProcessFrame
  \/ ShutdownProducer
  \/ PostQuit \/ Resize

ProducerSpec == ProducerInit /\ [][ProducerNext]_producerVars

(* The threads run, Media Foundation answers what it was asked, and GDI    *)
(* does not fail for ever.                                                 *)
ProducerFairSpec ==
  /\ ProducerSpec
  /\ WF_producerVars(Answer) /\ WF_producerVars(OnReadSample)
  /\ WF_producerVars(WorkerBegins) /\ WF_producerVars(WorkerReads)
  /\ WF_producerVars(MainReads)
  /\ WF_producerVars(PublishSample \/ TakeForNothing)
  /\ WF_producerVars(RestartFile) /\ WF_producerVars(PublishGdi)

-----------------------------------------------------------------------------
(* Types; there is never more than one read, and no sample is kept that    *)
(* nobody will take.                                                       *)
ProducerTypeOK ==
  /\ kind \in Kinds /\ override \in Overrides \cup {"auto"}
  /\ main \in MainSteps /\ quit \in BOOLEAN
  /\ capturing \in BOOLEAN /\ outputs \in BOOLEAN
  /\ frame \in {0, 1} /\ newest \in Sample \cup {None}
  /\ shown \in Sample \cup Sizes \cup {None}
  /\ reader \in Reader /\ cb \in Callback /\ mf \in Worker
  /\ ~cb.has => cb.latest.sample = None
  /\ fault \in BOOLEAN
  /\ backend \in {"none", "wgc", "printwindow", "bitblt"}
  /\ wgc \in {"none", "partial", "running"}
  /\ {pool, size, texture, cache} \subseteq Sizes
  /\ uploaded \in Sizes \X Sizes
  /\ window \in Sizes /\ resizes \in 0 .. MaxResizes

(* A published sample is later than the one published before it: however   *)
(* the callback and ProcessFrame alternate, none is shown twice or late.   *)
ShownInOrder == frame' # frame /\ kind \in Media => newest' > newest

(* Once ShutdownProducer has returned and the callback is through, nobody  *)
(* holds the reader or a sample, although reader and callback hold each    *)
(* other and a read may have been under way.                               *)
ReaderLetGo ==
  main = "done" /\ mf.at = "idle" => ~ReaderAlive /\ cb.latest.sample = None

(* Bits are uploaded to a texture of their size, whichever of the calls    *)
(* that make the two has failed since the window changed.                  *)
UploadFits == uploaded[1] = uploaded[2]

(* What a producer publishes (ProcessFrame) is in order and whole.         *)
PicturesAreRight == [][UploadFits' /\ ShownInOrder]_producerVars

(* A video file that has ended is begun again, unless Media Foundation     *)
(* has failed or a sample could not be used.                               *)
VideoGoesOn ==
  main = "loop" /\ kind = "video" /\ reader.next = Length + 1
    ~> reader.next = 1 \/ quit \/ fault

(* A window that PrintWindow or BitBlt captures is shown as it is once it  *)
(* is not resized any more, whichever of the calls that follow a change    *)
(* have failed before.  (WGC, the default, does not follow: PublishWgc.)   *)
WindowIsFollowed ==
  main = "loop" /\ backend \in {"printwindow", "bitblt"}
    /\ resizes = MaxResizes /\ window # 0
  ~> shown = window \/ quit
=============================================================================
