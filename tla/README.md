# VirtuaCam in TLA+

TLA+ modules of VirtuaCam (a virtual camera and microphone for Windows), the
TLC configurations that check them on small instances, and TLAPS proofs about
them. `src/` below is the root of the repository; `PROJECT.json` maps every
definition to the lines it stands for.

    tlc -workers 2 -config HwSim.cfg MCHwSim.tla
    tlapm HwSimProofs.tla

1. [The system](#the-system)
2. [Modules](#modules): how each corresponds to the code
3. [Runs](#runs): what is checked, with which bounds and which fairness
4. [Proofs](#proofs)
5. [Known divergences](#known-divergences) of the code from its docs
6. [Not modelled, and what is planned](#not-modelled-and-what-is-planned)

## The system

A host program composes pictures and uploads them, as a property of a kernel
streaming filter, to a camera driver. The driver has no camera: a simulated
hardware plays its part, with a timer for the interrupt, and every frame it
"captures" is the last one uploaded, or a placeholder. Pictures come from
producer processes, one per source, which share textures with the program. The
program also captures an audio device and sends the sound to a second driver, a
microphone without hardware. A watcher process starts the program when somebody
opens the camera, and a wizard installs all of it.

| part | state it keeps | operations | talks to |
|---|---|---|---|
| simulated hardware `driver-project/hwsim.cpp` | state, four frame buffers, counts of threads inside, timer and DPC, heartbeat | Start, Pause, Stop, SetData, SetFrameEx, two CopyImageToStreamHeader, the DPC FakeHardware, SetClientConnected, NotifyCameraState | called by device, pins and filter; interrupts the device; signals the watcher |
| capture device `device.cpp` | counts of pins with resources and running pins, sink table, header and synthesizer, state to return to | Acquire/ReleaseHardwareResources, Start/PausePinStream, PnP and power callbacks, Interrupt | called by pins and framework; drives the hardware |
| capture pin `capture.cpp` | pin state, resources, connection format and header, buffers | DispatchCreate/Close, SetFormat, SetState, Process, CompleteMappings, aspect policy | the device; the framework's queues |
| capture filter `filter.cpp` | property values | connect, upload, status, aspect, request event | the hardware |
| synthesizers `image.cpp` | geometry | pixel conversion | written by the hardware |
| driver bridge `VirtuaCam/DriverBridge.cpp` | device handle, connection, readback rings, pending aspect policy | connect, send frame, retry, disconnect | property calls into the driver; called by the idle loop |
| broker, multiplexer, discovery | expected producers, connections, private textures | scan, connect, compose | producers, through named sections and textures |
| application `App.cpp`, `UI.cpp` | what is selected, the producers' processes | selection, idle loop, launch, exit | broker, bridge, producers, microphone feed |
| producers `Process.cpp` | source reader or capture session, shared outputs | initialize, process frame, shut down | Media Foundation, Windows capture, the broker |
| status page `Tools.cpp` | sequence number and a status | publish, read | a producer writes, the broker reads |
| watcher `Process.cpp` | event, failures | wait, look, launch; service control | the driver's event, the service manager, the application |
| microphone feed `WASAPI.cpp` | capture thread, handles | start, stop, capture loop | audio device; the microphone driver |
| microphone bridge `VirtuaCamMicBridge.cpp` | ring of samples | write, read, initialize, shut down | feed; microphone stream |
| microphone stream `minwavertstream.cpp`, `minwavert.cpp` | positions, packets, notification list, timer | SetState, positions, buffers, events, DPC | the port driver, the ring |
| audio adapter `adapter.cpp`, `common.cpp` | reference counts, cache of subdevices | load, start, PnP | the framework |
| setup wizard `VirtuaCamSetup.cpp` | the operation under way | install, uninstall, service, launch, checks | system tools |

Where the behaviour is hard:

* **Threads of four kinds in the simulated hardware.** Control calls free
  buffers that uploads and copies use without a lock; three counts, read one
  after another, protect them. The timer's DPC re-arms itself.
* **Several pins, one hardware.** Counts and an array decide which pin starts,
  pauses, stops and forgets the hardware, while PnP and power callbacks stop,
  restart it and take resources away underneath. Pins may be connected in
  different geometries.
* **Pictures in flight.** Uploads, readbacks and shared textures may be late,
  stale or half done when the state changes; connections are found again by
  process ids, which are used again.
* **Callbacks of others' threads.** Media Foundation calls back while a
  producer shuts down; a timer's DPC reports while a stream is paused.
* **Processes that die** in the middle of a publication, of an installation, or
  while their names are still open elsewhere.
* **Arithmetic that is carried forward**: positions and packets of a stream that
  nobody clocks.

## Modules

| module | role | models |
|---|---|---|
| `HwSim` | component | `hwsim.cpp` |
| `FrameMailbox` | abstract specification | what the exchange of frames promises |
| `HwSimProofs` | proofs | types, safety and refinement of HwSim |
| `CaptureDevice` | component | `device.cpp`, states of pins in `capture.cpp` |
| `CaptureDeviceProofs` | proofs | counts, sinks, service of running pins, starts |
| `CapturePin` | component | formats, buffers and pictures of pins, aspect policy, the interrupt |
| `CapturePinProofs` | proofs | pictures, formats, the table a policy makes, types |
| `DriverBridge` | composition | `DriverBridge.cpp`, the idle loop, the driver as they see it |
| `DriverBridgeProofs` | proofs | geometry of the copies, the staged policy |
| `Broadcast` | composition | application, producers' outputs, discovery, broker, multiplexer |
| `BroadcastProofs` | proofs | Broadcast: earlier sources are let go, what is shown; Producer: pictures in order and whole, the reader is let go |
| `Producer` | component | a producer process |
| `StatusPage` | component | the status in shared memory |
| `PublishedStatus` | abstract specification | what its readers are promised |
| `Watcher` | composition | watcher and service, the driver's events, the applications |
| `SharedObjectProofs` | proofs | StatusPage's invariant and refinement; Watcher: no launch unasked; Setup: reports and retries |
| `MicFeed` | composition | capture thread, its owner, the driver's ring |
| `MicQueue` | abstract specification | what the ring promises |
| `MicStream` | component | the microphone's stream |
| `MicrophoneProofs` | proofs | MicFeed: the thread's handles, order of sound, refinement of the ring; MicStream: all its safety properties |
| `AudioAdapter` | component | life of adapter, filters and cache |
| `AudioAdapterProofs` | proofs | all its safety properties |
| `Setup` | component | the wizard and the machine it works on |
| `MC...` | instances for TLC | |

A definition named `...Faulty` (in `HwSim`, `StopIgnoresReads`,
`PauseReturnAtOnce`, `MayPublishUnderReaders` and `RefuseSourceStillCounted`; in
`MicFeed`, `RoomForStale`) is a plausible mistake in the operator after it. No
specification uses it; in its place it makes a property fail.

### HwSim

The actors are one control thread, uploaders, readers and the processors that
may run the DPC. A step is one section under `m_FrameLock`, one interlocked
operation, one timer call or one end of a copy; everything the code does
outside the lock can be interleaved with the other actors. `heap` says for each
address whether it is free, zeroed, half written, a frame or the placeholder,
and addresses come back from the pool after they were freed, so that a stale
pointer that happens to be right again is part of the model. The four pointers
are `buf`; what a copy holds is `pin`, for which `m_FrameReadActive` is the
count. The copy without a destination buffer nests in the one with it, which is
why a reader has an outer and an inner pin.

| code | actions |
|---|---|
| Start | StartAllocate, StartFail, StartRun, ArmTimer |
| Pause | CancelTimer, RemoveQueuedDpc, PauseLocked, PauseReturn; Resume |
| Stop | CancelTimer, RemoveQueuedDpc, StopLocked, StopSeesNoDpc, StopReadsWrites, StopSeesReader, StopReturn |
| SetData, SetFrameEx | BeginUpload, RefuseSource, BeginConvert, EndConvert, SeeNoReader, Publish, FailToPublish, AccountUpload, EndUpload |
| CopyImageToStreamHeader | BeginCopy, BeginCopyWithoutHeader, PinSource, RefuseCopy, EndDirectCopy, EndCopy |
| FakeHardware | DpcDispatch, DpcCount, DpcSnapshot, DpcEndCopy, DpcDisconnect, DpcInterrupt, DpcCheckState, DpcRearm, DpcLeave |
| kernel, clock | TimerExpires, HeartbeatTimeoutPasses |

Two assumptions about its callers: control calls come one at a time, and Start
is called only when the hardware is stopped. `StartsFromStopped` of
`CaptureDevice` is the second one.

`FrameMailbox` is what is promised: a camera that is open shows the placeholder
or the latest frame, and who holds a picture holds a whole one that does not
change. `HwSim!Mailbox` maps the pointer swap to a publication and a pinned
buffer to a picture that is held.

### CaptureDevice

The pins with their kernel streaming state, the device's fields, the hardware
reduced to its state and to what it knows of the synthesizer (`hwSynth`, which
becomes "dangling" when the device deletes the object under it), and the
request event of the client. The code between two calls that change shared
state is one step, per pin `pc`; `next` is where a pause or a release returns
to. `Serialized` says that callbacks come one at a time, which is what the
framework's locks give pins of one filter and what the repository does not
settle for pins of different filters. `Events` selects what happens to the
device. `stale` is a history variable: the pins whose resources a rebalance has
taken and which have not released since.

| code | actions |
|---|---|
| DispatchCreate, DispatchClose | Open, Close |
| SetState(RUN), StartPinStream | BeginRun, RunCount, RunCheck, RunResume, RunStart, RunUndo, RunDone |
| SetState(PAUSE), PausePinStream | BeginPause, PauseCheck, PauseCount, PauseHw, PauseDone, PauseFromAcquire |
| SetState(ACQUIRE), AcquireHardwareResources | BeginAcquire, AcqClaim, AcqConfigure, AcqPublish, AcqCheck, AcqSlot, AcqAppend, AcqCount, AcqDone, AcqFailed, LowerToAcquire |
| SetState(STOP), ReleaseHardwareResources | BeginStop, StopLast, StopHw, Release, ReleaseCount, StopReleased, StopDone |
| PnP, power | QueryRemove, CancelRemove, PnpStop, PnpRemove, PnpSurpriseRemoval, Quiesce..., PnpStart, PowerDown, PowerUp |

### CapturePin

What a client is given. A data range stands for a geometry. `table` is the list
of ranges offered, which the aspect policy rewrites; `offer` what an
intersection answered; a pin has its connection's format, the copy of its
header (`info`, in memory of the size `room` of the first), the framing its
buffers are made by, and a buffer. The hardware has one geometry (`config`, `shape`), that
of the pin that acquired first. A dispatch is one step; the interrupt marks the
pins (CompleteMappings), Process of a pin copies, which compares its header
with the hardware's shape and resamples when they differ. `pin[p].last` is the
picture filled last, and whether it fitted its buffer.

| code | actions |
|---|---|
| filter.cpp property handlers, SetAspectPolicy | SetPreferredAspect, SetAllowedAspects |
| intersection handlers, DispatchCreate, DispatchSetFormat, DispatchClose | IntersectHandler, DispatchCreate, DispatchSetFormat, DispatchClose |
| SetState | Acquire, PauseOrAcquire, Run, Pause, Stop |
| Interrupt, CompleteMappings, Process | Interrupt, Process, ProcessPends, QueueBuffer |

Assumed: the framework does not process a pin while one of its dispatches runs.

### DriverBridge

The program's window thread makes all calls, so the module has one call at a
time (`call.pc`), and every call of SendFrame into the driver or the GPU is a
step, between which the other side may change. Four records:

| record | stands for |
|---|---|
| `drv` | what the driver's property set tells of it: state of the hardware, client connected, the stream's geometry, the picture the camera shows, the preferred aspect; `late` is a last frame older than the heartbeat's limit |
| `bridge` | the fields of the object: handle, connection, pending policy, output geometry, textures and the two readback pools |
| `call` | the step SendFrame is at, the path its picture takes, the slot it looks at, why an upload failed |
| `app` | whether the broker's source is connected, and its frame value not the last one sent |

A picture has a size (of two) and a format (of three: the one sent as BGRA, the
one sent as NV12, one that only BGR24 reaches). A copy in a pool is empty,
being drawn, or ready. The camera shows the placeholder, a picture of the
source, or a garbled one, which a BGR24 upload makes that was scaled for
another size and is long enough to be taken (`Area`). How old a picture in the
ring is, is left out. An upload is one step of the driver: what happens inside
is `HwSim`; that it may meet a reader and be dropped is "busy" in `Events`.

| code | actions |
|---|---|
| OnIdle, TrySendBrokerFrameToDriver | PollDriver, NewFrame, SourceChanges, BeginSend |
| SendFrame | KeepPolicy, ApplyPendingPolicy, Connect, Prepare, PrepareNv12, Nv12Fails, Reinitialize |
| QueueReadbackAndMapReady | Prepare..., MapCopy, NoCopyReady |
| UploadMappedFrame, ...FrameExBgra, ...FrameExNv12 | UploadFrameEx, FrameExRefused, UploadBgr24, Bgr24Refused, ReadStatus |
| aspect menu, launch, exit | SelectAspect, Launch, Exit, Crash |
| driver, device, GPU, clock | CameraStarts ... CameraStops, HeartbeatElapses, HeartbeatTimesOut, DeviceLeaves, DeviceArrives, GpuFinishesCopy, GpuCatchesUp, ProbeTimePasses |

Assumptions: a call is shorter than the heartbeat's limit; when the device goes,
every call on a handle to it fails, for ever.

### Broadcast

How a source gets into the picture. Application and broker are one thread
(`pc`), producers are processes of their own, and a process id that nobody holds
may be given to a new process at once. A launch number stands for a process and
for the nonce it was given. A producer goes through the phases of
InitSharedOutputs (manifest, texture, status), one step each, and the broker may
look in between; `section` is the named section, which outlives its process
while the multiplexer has it open. `conn` is what the multiplexer keeps per
process id: whose texture, whether the status was there when it connected, the
picture it copied last. `out` is what each slot shows.

| code | actions |
|---|---|
| producer's InitSharedOutputs, ProcessFrame, capture fallback, end | ShareManifest, ShareTexture, ShareStatus, Publish, FallThrough, EndProcess |
| RenderBrokerFrame (discovery, trust, Pruned, Connection, Composite) | inside ClearPicture and OnIdle |
| SetSourceMode, SetPipSource, LaunchProducer, InformBroker | SetSource, ClearPicture, LaunchProducer, LaunchFails, NoLaunch, InformBroker |
| OnIdle, ShutdownSystem | OnIdle, Shutdown |
| other programs | ForeignProducer |

### Producer

One process of each kind, from its initialization to its end. `reader` and `cb`
are the source reader and its callback, which refer to each other; `mf` is the
thread of Media Foundation in OnReadSample, whose check, ReadSample and return
are separate steps, against the main thread's. A window is captured with one of
three methods. Windows.Graphics.Capture, the default, has a pool of frames
(`pool`) that is made once, with the size the window has then; the picture keeps
that size. PrintWindow and BitBlt have a bitmap (`cache`) and a texture that
follow the window's size and may fail to.

| code | actions |
|---|---|
| InitializeReader, InitializeImage, window and display initialization | InitializeReader, InitializeImage, InitWgc, InitPrintWindow, InitBitBlt, ...Fails |
| AsyncSourceReaderCallback | Answer, OnFlush, OnReadSample, WorkerBegins, WorkerReads |
| ProcessFrame | MainReads, PublishSample, TakeForNothing, RestartFile, PublishImage, PublishWgc, PublishGdi, GdiFails, WgcFails |
| ShutdownProducer | ShutdownReader, Flush, DropReader, ShutdownCapture |

### StatusPage

The sequence lock of Tools.cpp, field by field: BeginWrite, WriteField,
EndWrite, and Die anywhere; a reader's Call, BeginRead, CopyField, EndRead and
GiveUp after its attempts. Fields are written and copied in any order, which
covers the compiler's. `PublishedStatus` is a register that is replaced at once
and read at one moment, or refuses; the map takes half the sequence number for
the status published last.

### Watcher

The worker's loop (`pc`: open, register, wait, look, launch, reset), the service's
main thread and control handler, the driver's event (named for the machine, or
private to a session and known to the driver by registration), and the
applications: started by a user, by the watcher, or closing. `named` is the event
the watcher finds by the name, `shared` that the driver's own is the same one:
the driver closes its handle at once, so that the name goes unless somebody
holds the event, and may fail to make it (`hwsim.cpp:741`). `owed` remembers
that a run of the camera was not answered by a launch yet.

| code | actions |
|---|---|
| NotifyCameraState, driver reload | StreamRuns, StreamStops, DriverReloads |
| RunWatcherLoop, RunWatcherLoopForService | the disjuncts of Worker; WaitFails |
| WatcherServiceMain, WatcherServiceControlHandler | the disjuncts of Service; Control, StartService |
| users, sessions, the installed file | UserLaunches, UserQuits, DriverStartExits, AppEnds, SessionChanges, ExeChanges |

### MicFeed, MicStream, AudioAdapter

`MicFeed`: the application's Start and Stop of the capture (`ui`), the capture
thread, the device that delivers sound or silence or is lost, and the ring, with
its two offsets and its count. A sample frame is the number of the source frame
it was made from. `MicQueue` is a bounded queue that drops its oldest. The driver
is built with the feed or without it (`feed`, of `Builds`): the source defines
`VIRTUACAM_MIC_ENABLE_USERMODE_FEED` as 0 (`VirtuaCamMicBridge.h:3`), then there
is no control device, the bridge never opens, and the ring stays empty. Both
builds are modelled; what the run says of packets and of the queue is about the
one that the source can be built to, and of the one it makes that the
microphone is silent.

`MicStream`: the clock in ticks, `dmaAge` and `dpcAge` the time since the last
position and the last packet, and the carries of the two divisions. SetState(PAUSE)
is a sequence of steps (PauseCancel, PauseFlush, PauseCarry, PausePosition,
PauseDone) against the timer's DPC (DpcEarly, DpcPacket, DpcSignal), which walks
the list of events one at a time; GetReadPacket is two steps.

`AudioAdapter`: reference counts of the adapter object and of the filters by
holder; DriverEntry, AddDevice, StartDevice with one action per call that may
fail, the PnP handler and the port class driver's dispatch after it, and a client's
streams, which have a pointer to the adapter and no reference. It is checked as
the source builds it (`FeedEnabled` FALSE: DriverEntry makes no control device and
no link) and proved for both builds.

Assumed for these: state changes of a stream come one at a time and step by
step, buffers and events change only when it is at most paused; IRPs of one
device come one at a time, STOP and REMOVE when no handle is open; a failed
start is followed by REMOVE; the port class keeps registrations until STOP or
REMOVE.

### Setup

An operation is a program, a sequence of steps (`Program`), each a tool or a
group of registry calls that may fail and that then ends the operation
(`Fails`) or does not (`Ignored`). The machine is two devices, their driver
packages, the service with its pending deletion and its failure actions, the
registry and the application. The wizard may be closed between any two steps.
`hurt` remembers whether a tool or a query of the operation has failed, `unseen`
which queries of an uninstallation's check did, which the check takes for
nothing found. `unposted` says that the message the window waits for will not
come.

## Runs

Each component has one run, `<Module>.cfg`, and the properties there are the ones
that are hard to get right. The modules' `TypeOK` is type documentation; it holds
in every run's instance, and is proved for `HwSim`, `CaptureDevice`, `CapturePin`,
`Broadcast`, `Producer`, `StatusPage`, `MicStream`, `AudioAdapter` and `Setup`.
Where one proof module extends several components, all but one of them have names
of their own: `PageInit`, `PageNext`, `PageSpec` and `PageTypeOK` in `StatusPage`,
`SetupInit` and so on in `Setup` (both beside `Watcher`), `ProducerInit` in
`Producer` (beside `Broadcast`), `StreamInit` in `MicStream` (beside `MicFeed`).

| run | instance and bounds | shows |
|---|---|---|
| HwSim | an uploader, a reader, a processor, a frame, 4 buffers | `NoUseAfterFree`, `NoInterruptAfterStop`, implements FrameMailbox, every wait ends |
| CaptureDevice | 4 pins, 3 sinks, serialized, starts may fail, all events | counts, sinks and request event match the streams; the synthesizer outlives the hardware; running pins are served; the camera goes off; Start only from Stopped |
| CapturePin | 2 pins, 2 aspects, 3 ranges | the picture is the client's and fits; formats agree; a running pin is served |
| DriverBridge | 2 streams of 2 sizes, pools of 3, all events | copies fit, a staged policy is kept, an open camera comes to show a moving source |
| Broadcast | 2 process ids, 2 launches, the main slot and a corner, foreign producers | only what is selected is shown; earlier sources are let go; a live source is shown |
| Producer | all kinds and methods, a file of 2 samples, 2 sizes and the failed one, 3 resizes | reader and callback are let go; pictures in order and whole; files go on; windows are followed by PrintWindow and BitBlt |
| StatusPage | 2 fields, 2 readers, 2 attempts, 3 publications | no torn or old status; implements PublishedStatus |
| Watcher | program and service, 2 changes of logon or file, 4 camera runs, 2 starts | no launch unasked; a signal is answered; a stop ends the service |
| MicFeed | both builds, ring of 3, packets of 2, rates 3:2, 3 source frames | thread and handles match the capture; sound in order with the feed, silence without; implements MicQueue; a stop returns |
| MicStream | 2 ticks to the ms, 2 ms to the s, 3 bytes to the s, 9 ticks, products wrap at 13 | time is conserved; the DPC finds what it uses; packets are delivered whole, once and in order |
| AudioAdapter | the build without the feed, 3 devices, a stream each | who has a pointer finds the adapter alive; all or nothing; nothing is left |
| Setup | 2 operations, an additional node of each kind, a boot, 2 reads of a test frame (8 in the code) | reports are true as far as the wizard could look; a retry heals; the window comes back unless its message is lost |

Why the bounds are enough:

* `HwSim`: the reader has two pins already and the DPC is a third, so that counts
  reach two; four buffers are what a start takes, so every address comes back in
  its role at every start (`OneAllocation`). Several uploaders,
  processors and frames, and any allocation, are what the theorems are for.
* `CaptureDevice`: four pins exceed the table by one, and the third tells a
  compacted table from a truncated one. Pins are interchangeable.
* `DriverBridge`: two sizes tell a picture that is too short from one that is
  long enough; pools have the code's three slots, because a call that gets to
  the bottom of its fallbacks maps two copies, with a third just queued.
* `Broadcast`: two ids and two launches give a slot its second producer under the
  id of the first, or another; the modes are those that launch and that do not.
* `CapturePin`: the larger picture has the shorter header, so that one change of
  format outgrows the framing and the other the header.
* `StatusPage`: two fields can be torn; three publications let a reader begin
  before, in and after one; the theorems cover any number.
* `MicStream`: no rate divides another and the ring of remainders is gone through
  in nine ticks; 13 is small enough for the 32-bit product to wrap.
* `MicFeed`: the ring is no multiple of the packet, so that it wraps in one.
* `AudioAdapter`: a third device comes while a second is refused because of the
  first.
* `Setup`: the second operation begins from anything the first has left.

CHECK_DEADLOCK is off where the system stops: `CaptureDevice` (a removed device
whose pins are closed), `Broadcast` (the application has exited and nobody may
be launched any more), `Producer` (the process has ended), `Setup`, `Watcher`
and `StatusPage` (the bounds are used up).

### Fairness

Weak fairness of threads that can run, everywhere; nothing is assumed of users,
clients, devices or failures, except:

* `HwSim`: nothing else. It is enough because no thread is counted anew once the
  state has changed.
* `DriverBridge`: strong fairness of the beginning of a call, as the loop offers
  each new frame between other things it does; of a GPU that is done with its
  copies between two calls, as calls are a frame's time apart; of an upload that
  is accepted, because a reader holds the buffers for one copy.
  What a property needs of camera, user or source is its premise (`Served`,
  `Moving`, `Undisturbed`).
* `Broadcast`: the idle loop comes by with a second passed, again and again;
  strong fairness of finding the status of a moving source fresh, since it is
  published every 33 ms and counts as fresh for two frame intervals, 66 ms.
* `Producer`: Media Foundation answers what it was asked, and GDI does not fail
  for ever (strictly: the attempt is weakly fair and may fail finitely often).
  Nothing is assumed of Windows.Graphics.Capture.
* `CapturePin`: strong fairness of Process, since mapping a buffer may fail and is
  tried again at each interrupt.
* `Watcher`: a closing application ends.
* `Setup`: every tool has a time limit, and calls of the system return. Nothing is
  assumed of UpdateDriverForPlugAndPlayDevices (`VirtuaCamSetup.cpp:1370`), which
  has no limit and runs what comes with a driver: `WindowComesBack` excepts an
  operation that stays there (`Binding`).

## Proofs

`HwSimProofs` proves, for any finite sets of uploaders, readers and processors,
any buffers, frames and allocations, that `HwSim` satisfies its safety
invariants and implements `FrameMailbox`. The assumptions are those of the
module: finite sets of actors, special values that differ from frames and
buffers, allocations of four different addresses.

None of the invariants is inductive. `IndInv` adds what they rest on:

* the counts are the numbers of threads in their sections (`ReadsCounted`,
  `DpcsCounted`, `UploadsCounted`) and each position says what the thread holds
  (`PositionsConsistent`);
* every buffer that somebody can touch belongs to the object or to a Stop that
  still waits (`Reachable`), and nothing else is allocated, which is why
  freeing what Stop has detached is safe and why nothing leaks;
* a count that Stop has seen at zero stays so, as nobody enters while the state
  is Stopped (`Quiet`): this makes reading three counts one after another sound;
* the uploader that is admitted is alone and its buffer is the staging one
  (`StagingOwned`), reads pin only the other two (`PinsShown`), pointers are
  swapped only while nothing is pinned: so no buffer is written that is read
  (`ContentsWhole`).

There is one lemma per action, then the theorems follow with PTL.

`SharedObjectProofs` proves, for any number of fields, readers, attempts and
publications, that `PageCorrect` holds and that the page implements
`PublishedStatus`. The invariant is inductive: an even number is the number of a
whole page, and while the number is what a reader has begun with, what it has
copied is of that publication. A read that ends is then a read of the abstract
register at that moment; a publication is the abstract one at its last step
(half of an odd number rounds down); all other steps are stutters. The
assumptions: there is a field, and `Nothing` is no number. It proves of
`Watcher`, for any bounds, that nothing is launched unasked (`NoLaunchUnasked`):
the watcher's main thread and its worker take turns, the event's handle is held
around both, and the event is set only when a signal is still owed an answer,
but for the time between a launch and the reset after it.
It proves of `Setup`, for any number of additional nodes, operations, boots and
reads of a test frame, that the wizard's reports are true (`ReportsAreTrue`) and
that a retry heals what an interrupted operation left (`RetryHeals`). `SetupInv`
follows the two programs step by step: what the steps behind an installation
have verified stays as it is until the end (`Installed`), since no later step
undoes it. Of an uninstallation two things are said: as long as no tool and no
query has failed, what the steps behind it remove is gone (`Removed`, `Gone`);
and whatever has failed, a check that lets it pass leaves a driver bound only
where its query failed (`unseen`). As long as no tool has failed no step finds what it would refuse (`Unhurt`): the service is not
marked for deletion once its process was killed, and a device is absent or
started when a node is made for it.

`CaptureDeviceProofs` proves, for any number of pins and sinks, that the counts
of the device are what its pins say, and what rests on that. `Books` is
inductive: the number of running pins, of sinks and of those who hold the
resources are the sizes of sets (`Counted`, `Tracked`, `Holding`, `Holders`)
that each pin enters and leaves at one step of its callback; while a callback
is between its steps the sets say exactly what is still to be counted. This is
proved with callbacks one at a time (`Serialized`); two that interleave lose a
sink. `Service` adds what the hardware was last told and by whom: a pin that
runs is served unless its start failed, its resources were taken (`stale`), or a
callback has yet to do it. It needs `~CallsAsleep` too: a pin that is raised
while the device sleeps starts hardware that waking starts again, that second
start fails, and the hardware runs with a synthesizer it believes failed (TLC
shows the run as soon as the constant is TRUE).

`CapturePinProofs` proves, for any pins, ranges, headers, aspects and compiled
table, that a client gets the picture of its connection (`ClientGetsItsPicture`)
and that formats agree (`FormatsAgree`). `Connected` is inductive pin by pin: an
open pin has the header it accepted last, in memory large enough for it, and a
buffer never larger than the framing its connection was made with. The picture
rests on `CopyImageToStreamHeader` comparing the pin's own header with the
hardware's shape; nothing has to be known of who gave it that shape. That the
table offers exactly what is allowed (`PolicyIsSet`) is about a loop, which the
model has as a recursive function of its rounds: that each round has the result
it should is proved from there being no least one that has not (`LeastNatural`,
`Climb`), and `Filled` adds nothing but repetitions. The assumption `AspectsFit`
is that the table has room for the ranges of all aspects, 30 in 33 places.

`DriverBridgeProofs` proves, for any sizes, streams and length of the pools,
`CopiesFit` and `PolicyReachesDriver`. `Fitting` is inductive: the pool of
either kind, if there is one, has the size of the output (`Sound`), which is
why every change of the output's size must take both pools away; and while a
call copies, uploads or asks why it was refused, the BGRA pool is there in the
output's size, since what it falls back to is copied through it. The policy
rests on the same invariant: a call never has no handle, so that one that does
not answer is a stale one.

`BroadcastProofs` proves, for any ids, launches and slots, that a source that
was replaced is let go (`EarlierSourcesAreLetGo`): the multiplexer's connections
are those of the list it composed last, unless a change of the list has forced
a discovery that is still to come. It proves also that a slot shows only what
is selected there (`ShowsWhatIsSelected`). `Showing` ties four things that the
code keeps in different places: the picture is one of the list composed last,
that list is what was selected when it was composed, or a selection since has
cleared it, and a connection under an id is to the process that was launched
with it, because its nonce was. That an id may be given out again is no harm to
the main slot, whose process handle is held as long as it is selected, and is
what the corners' exception is about.
It proves of `Producer`, for any length of the file, number of samples and sizes
of the window, that the reader is let go (`ReaderLetGo`) and that pictures are
in order and whole (`PicturesAreRight`). There is never more than one read
(`OneRead`): the main thread or the callback is about to ask, or Media
Foundation has it, or it is answered, and unless the callback is shut its
`pending` says whether there is one. Therefore the sample published last, the
one that waits, the one the callback is called with and the one that is read next are in
order (`InOrder`), and nothing is under way when the file is begun again
(`AtEnd`). Only a shutdown shuts the callback, and nothing sets its reader again
(`LetGo`). Of the captured window it needs only that the texture is made again
for the size of the bits (`GdiFramesFit`), whatever has failed before.

`MicrophoneProofs` proves of `MicFeed`, for any rates, any size of ring and packets not larger
than it, any bursts of the device and reads of the stream, that the capture
thread finds its handles and a capture is served (`ThreadMatchesCapture`), and
that the ring implements `MicQueue`. The first rests on `Handled`: a new thread
is made only when there is none, with the signal of the last stop reset, and
handles are closed only after it was waited for. The refinement rests on
`RingSound`, the write position is the read position plus the frames queued,
modulo the size: every position that is added to goes round the ring at most
once (`Around`), so that a frame written is found at the index the queue says,
and the frames before it are not touched. The order of sound (`SoundInOrder`)
rests on `InLine`: what the client has heard, what it reads now, the ring, the
packet under way and the backlog hold, in this order, frames of ever later
times, none twice. Each step takes from the front of one place and puts at the
end of the next, or drops; only resampling repeats a frame, of which `Drawn` says
that the next one drawn is not before it. It also rests on `LoadedSound`: the
ring is zeroed only when it is empty, or when no handle is open. Loading,
unloading and every other step is a clearing or a stutter of the queue. A driver
without the feed never lets the bridge open, so that nothing is ever queued or
heard (`Silent`).

`AudioAdapterProofs` proves, for any devices and streams, the module's three
safety properties and its types. `Kept` is inductive: for each device the
adapter's count is the number of references of StartDevice, the extension, the
port class driver's registration and the topology filter (`RefsExact`), where
StartDevice is says what is there (`StartSound`), a start that has ended left a
whole endpoint or no filter (`EndSound`), and what has not started, or is gone,
has nothing while a stream's device is still registered (`LifeSound`); over all
devices at most one adapter is alive, and `instances` is their number unless
memory was refused (`Counted`).

`MicrophoneProofs` proves of `MicStream`, for any clock, rate, buffer and number of
notifications, the module's three properties and its types. `Inv` is
inductive. Time is conserved because UpdatePosition carries both remainders on
(`Positions`; `Remainder` and `Division` are the facts of arithmetic). The
packets are backed by bytes because both are counted from the same
milliseconds: there is a number of them that the packets do not reach and the
bytes do (`Backed`), which outlives the rounding on either side; a look at the
position counts both up to now, and what a STOP leaves in the packets' carry is
the term `owed`. The DPC is safe because a stream leaves RUN only by way of
PAUSE, which cancels the timer and waits (`TimerPlaced`), before buffers, events
and the stream may go (`Placed`).

Only model-checked: liveness, which is out of the prover's reach (`WaitsEnd`,
`RunningPinIsServed`, `CameraShowsMovingSource`, `LiveSourceIsShown`,
`VideoGoesOn`, `WindowIsFollowed`, `SignalIsAnswered`, `StopEndsTheService`,
`StopReturns`, `WindowComesBack`). Every other property of a run is a theorem.

## Known divergences

What the code does, what a doc or comment of the repository says, and how the
models deal with it. The properties state what holds, with these excepted by
name.

| where | the code | the repository says |
|---|---|---|
| `hwsim.cpp:2488` | The DPC decides under the lock to re-arm its timer and does so after it has let go of it: Stop can return with a timer armed. The late DPC finds the hardware stopped and interrupts nobody (`NoInterruptAfterStop`). | "This will stop issuing interrupts and DPC's" (`hwsim.h:294`) |
| `device.cpp:541` | A cancelled removal starts the hardware, and asks the client for frames, also when pins are only acquired or paused. | "active streaming hardware" (`test-driver-pnp-contract.ps1:75`) |
| `device.cpp:881` | After a rebalance a pin believes that it has resources; when it stops it releases those another has acquired since. Properties of `CaptureDevice` speak of states without `stale` pins where this matters. | "This should only be called by an object which has acquired them." (`device.cpp:864`) |
| `device.cpp:692` | A second acquirer succeeds. | "If the resources are already acquired, this will return an error" |
| `capture.cpp:438` | A format set before RUN keeps the framing of the first: a larger picture is never filled (`Wanting`). | "We only support one frame size" |
| `DriverBridge.cpp:667` | A policy chosen while the driver is gone but its handle open is marked done before it is applied, and lost. | "aspect policy must be staged and deferred when the driver is unavailable" (`test-code-review-20260511.ps1:116`) |
| `App.cpp:1187` | A frame that was sent is not sent again: a camera that is opened again on a source at rest shows the placeholder. | "frames reach Windows camera clients" (`software-project/README.md:25`) |
| `DriverBridge.cpp:652` | A handle that went stale while not connected is never dropped. `Served` leaves it out. | |
| `Process.cpp:754`, `1314` | When WGC fails, ResetSharedOutputs forgets the nonce: the window is captured by PrintWindow or BitBlt and never shown. `Shareable` asks for the nonce. | "falling through to PrintWindow" (`Process.cpp:1313`) |
| `App.cpp:813` | Choosing another display while in that mode is ignored. | `README.md:107-111` |
| `Multiplexer.cpp:190` | A connection made before the status section exists never gets one; a corner whose process crashed may show a later process with the same id (`LeftOver`); a producer that crashed while shown is kept alive by its open manifest, so that an application started by the watcher does not exit. | |
| `Process.cpp:2180`, `1735`; `hwsim.cpp:937` | A signal that comes after the look is wiped by the reset; registering the event clears it. `SignalIsAnswered` is about a watcher that waits. | "Starts VirtuaCam UI on first virtual camera access." (`VirtuaCamSetup.cpp:1464`) |
| `Process.cpp:1727`, `2170` | After three failed launches the watcher never launches again until it is restarted. | the same, and `test-code-review-20260511.ps1:142` |
| `Process.cpp:2380` | ReadSample may be called after the source was shut down, when WM_QUIT meets the callback; a failed read ends a camera for good; an initialization that fails half way leaves reader and callback holding each other (`ReaderLetGo` is about ShutdownProducer). | |
| `VirtuaCamMicBridge.h:3` | The feed is compiled out: DriverEntry makes neither the control device nor its link (`VirtuaCamMicBridge.cpp:259-290`), the application cannot open the bridge, and the microphone hears silence. `MicFeed` has both builds, `AudioAdapter` this one. | "The VirtuaCam app captures the selected Windows audio source through WASAPI and writes those packets to the driver." (`audio-driver-project/README.md:5`); `TEST.md:114` knows the feed as disabled |
| `Process.cpp:919-940`, `1379-1383` | The pool of Windows.Graphics.Capture is made once, with the first size of the window, and the size of a picture is read from its surface: a window that is resized later goes on being shown in that size, and the branch that logs a new one is not taken. `WindowIsFollowed` is about PrintWindow and BitBlt. | "WGC source resized" (`Process.cpp:1384`) |
| `VirtuaCamSetup.cpp:826-830`, `842-858`, `1726-1728` | The check of an uninstallation takes a query that fails or runs out of time for a device that is gone or a service that is not running; the results of the removals are ignored (`1668-1674`). `SuccessMeansDone` promises of a successful uninstallation what its check could see, and all of it only if nothing failed (`unseen`, `hurt`). | "Drivers, service, startup, and registry entries removed; files kept" (`VirtuaCamSetup.cpp:1681`) |
| `VirtuaCamSetup.cpp:2363-2367`, `2391-2395` | A worker that has no memory for its result, or cannot post it, sends the window no message: it stays busy until it is closed. `WindowComesBack` excepts both (`unposted`). | |
| `VirtuaCamSetup.cpp:1581`, `1681` | A second node is created when instance 0000 is there and not started, and uninstalling removes only 0000. | "Drivers, service, startup, and registry entries removed; files kept" |
| `common.cpp:380`, `2181` | A refused allocation leaves the count of adapters raised: no device starts until the driver is loaded again. The failure to install the topology filter is overwritten: the device starts without it. | |
| `minwavertstream.cpp:1278` | A product of 32 bits wraps after some 22 seconds without a question (`wrapped`); the packet counter's carry is not reset at STOP (`owed`). | |

## Not modelled, and what is planned

In modelled components: statistics and the scatter/gather queue of the hardware
(nothing programs it; FillScatterGatherBuffers is dead); creation of the filter
factory and the DMA adapter; time stamps, camera profile and video control of
pins; failures of GPU objects other than the video processor's; the layout and
fading of the picture, grid mode (which nothing sets); pacing and back-off of
producers; the handing over of a status page to a process with the id of its
dead owner; interface properties, mixer registers and power states of the audio
driver; certificates, the preview and two wizards at once. `CaptureDevice` is
checked with callbacks one at a time and without applications that raise pins
out of D0: without the first, sinks are lost (`device.cpp:839` appends without a
lock), without the second SetPower starts hardware that is running
(`device.cpp:650`).

Not modelled at all: image synthesizers (pure conversion); windows, menus and
the routing of audio devices in the application; enumeration, configuration and
logs (calls of the system one after another, no state of their own); property
tables of the audio driver and its topology; probe and scripts, which are tests.

Planned, in this order:

1. `AudioRouting`: selection, restoration and pass-through of audio devices in
   `App.cpp`, composed with `MicFeed`.
2. `CapturePin` with several buffers and time stamps, composed with `HwSim`
   through `FrameMailbox`.
3. The preview of the wizard beside an installation.
