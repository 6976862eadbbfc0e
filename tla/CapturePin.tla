-------------------------- MODULE CapturePin --------------------------
(***************************************************************************)
(* The streams of the capture pins (CCapturePin, driver-project/           *)
(* capture.cpp): how a format is offered, accepted and captured, how the   *)
(* interrupts of the shared hardware (device.cpp) make a pin copy a frame  *)
(* into the buffer of its client (hwsim.cpp), and how the aspect policy    *)
(* set through the filter (filter.cpp) rewrites the list of data ranges.   *)
(*                                                                         *)
(* A data range stands for one picture geometry.  What the pixels are, the *)
(* row stride and the stamps of a frame are left out; so are the races of  *)
(* the state changes, which are module CaptureDevice, and those of the     *)
(* copy with an upload, which are module HwSim: here a dispatch is a step. *)
(* The framework does not process a pin while a dispatch of that pin runs. *)
(* A refused request changes nothing and is left out.                      *)
(***************************************************************************)
EXTENDS Integers, Sequences, SequencesExt

CONSTANTS
  Pin,           \* the capture pins
  DataRange,         \* the data ranges
  SizeOf,        \* bytes of a picture of each range
  Format,        \* what clients ask for: [range, header], header being
                 \* the length of the video header
  AspectOrder,   \* the aspects, in the order of kAspectRanges
  AspectRanges,  \* the ranges of each aspect
  InitialTable,  \* CapturePinDataRanges as it is compiled
  MapMayFail,    \* a buffer may have no system address for a while
  Absent         \* no format, no picture

Aspect == ToSet(AspectOrder)
TableSize == Len(InitialTable)

ASSUME PinConstants ==
  /\ SizeOf \in [DataRange -> Nat \ {0}]
  /\ Format \subseteq [range : DataRange, header : Nat \ {0}]
  /\ AspectOrder \in Seq(Aspect) \ {<<>>}
  /\ AspectRanges \in [Aspect -> Seq(DataRange) \ {<<>>}]
  /\ InitialTable \in Seq(DataRange) /\ Absent \notin DataRange
  /\ MapMayFail \in BOOLEAN

VARIABLES
  preferred, allowed,  \* g_PreferredAspectMode, g_AllowedAspectMask
  table,     \* CapturePinDataRanges
  offer,     \* per client: the format the intersection gave it
  pin,       \* per pin: see PinState
  sinks,     \* m_CaptureSinks
  config,    \* the range of the device's m_VideoInfoHeader
  hw,        \* m_HardwareState of the hardware
  shape,     \* the range its buffers were made for (m_Width, m_Height, ...)
  uploaded   \* m_SetDataAcceptedCount > 0

policyVars == <<preferred, allowed, table>>
deviceVars == <<sinks, config, hw, shape, uploaded>>
vars == <<policyVars, offer, pin, deviceVars>>

(* state: of the framework; format: its ConnectionFormat; info: the copy in*)
(* m_VideoInfoHeader; room: m_VideoInfoHeaderSize; framing: frame size in  *)
(* the allocator framing; buffer: size of the buffer at the leading edge,  *)
(* 0 for none; due: processing was asked for; last: the frame the client   *)
(* got for the buffer before.                                              *)
PinState ==
  [state : {"closed", "stop", "acquire", "pause", "run"},
   format : Format \cup {Absent}, info : Format \cup {Absent},
   room : Nat, framing : Nat, buffer : Nat, due : BOOLEAN,
   last : [range : DataRange, fits : BOOLEAN] \cup {Absent}]

Closed ==
  [state |-> "closed", format |-> Absent, info |-> Absent, room |-> 0,
   framing |-> 0, buffer |-> 0, due |-> FALSE, last |-> Absent]

Init ==
  /\ preferred = AspectOrder[1] /\ allowed = Aspect
  /\ table = InitialTable
  /\ offer = [p \in Pin |-> Absent]
  /\ pin = [p \in Pin |-> Closed]
  /\ sinks = <<>> /\ config = Absent
  /\ hw = "Stopped" /\ shape = Absent /\ uploaded = FALSE

In(p, states) == pin[p].state \in states
Running(p) == In(p, {"run"})

-----------------------------------------------------------------------------
(* The aspect policy.                                                      *)

(* The preferred aspect, or the first that is allowed.                     *)
FirstAllowed(mask) ==
  CHOOSE i \in DOMAIN AspectOrder :
    /\ AspectOrder[i] \in mask
    /\ \A j \in 1 .. i - 1 : AspectOrder[j] \notin mask

PreferredOf(a, mask) ==
  IF a \in mask THEN a ELSE AspectOrder[FirstAllowed(mask)]

(* What is appended at first, and for the n-th entry of kAspectRanges.     *)
Appended(a, mask, n) ==
  LET b == IF n = 0 THEN a ELSE AspectOrder[n]
  IN  IF b \in mask /\ (n > 0 => b # a) THEN AspectRanges[b] ELSE <<>>

(* The ranges of the preferred aspect, then those of the others allowed.   *)
Ordered(a, mask) ==
  LET upTo[n \in 0 .. Len(AspectOrder)] ==
        IF n = 0 THEN Appended(a, mask, 0)
        ELSE upTo[n - 1] \o Appended(a, mask, n)
  IN  upTo[Len(AspectOrder)]

(* The table has room for the ranges of all aspects.                       *)
ASSUME AspectsFit ==
  \A a \in Aspect, mask \in SUBSET Aspect : Len(Ordered(a, mask)) <= TableSize

(* The rest of the table repeats them.                                     *)
Filled(s) == [i \in 1 .. TableSize |-> s[((i - 1) % Len(s)) + 1]]

SetAspectPolicy(a, mask) ==
  /\ preferred' = PreferredOf(a, mask)
  /\ allowed' = mask
  /\ table' = Filled(Ordered(preferred', mask))
  /\ UNCHANGED <<offer, pin, deviceVars>>

SetPreferredAspect == \E a \in Aspect : SetAspectPolicy(a, allowed)

(* An empty mask allows everything.                                        *)
SetAllowedAspects ==
  \E mask \in SUBSET Aspect :
    SetAspectPolicy(preferred, IF mask = {} THEN Aspect ELSE mask)

-----------------------------------------------------------------------------
(* Formats.                                                                *)

InTable(f) == f.range \in ToSet(table)

(* The client of p asks which format the pin has for its range.            *)
IntersectHandler(p) ==
  /\ In(p, {"closed"})
  /\ \E f \in Format : InTable(f) /\ offer' = [offer EXCEPT ![p] = f]
  /\ UNCHANGED <<policyVars, pin, deviceVars>>

(* A header is allocated once; a later one has to fit in it.               *)
CaptureVideoInfoHeader(q, f) ==
  IF q.info = Absent THEN [q EXCEPT !.info = f, !.room = f.header]
  ELSE [q EXCEPT !.info = f]

(* DispatchSetFormat finds the format good, and DispatchCreate keeps it and*)
(* makes the framing of it.                                                *)
DispatchCreate(p) ==
  LET f == offer[p]
      q == [Closed EXCEPT !.state = "stop", !.format = f]
  IN  /\ In(p, {"closed"}) /\ f # Absent /\ InTable(f)
      /\ pin' = [pin EXCEPT
           ![p] = [CaptureVideoInfoHeader(q, f) EXCEPT
                     !.framing = SizeOf[f.range]]]
      /\ offer' = [offer EXCEPT ![p] = Absent]
      /\ UNCHANGED <<policyVars, deviceVars>>

(* Faulty: a longer header is copied over the one that was allocated.      *)
HeaderFitsFaulty(q, f) == TRUE
HeaderFits(q, f) == f.header <= q.room

(* A change of format before the pin runs.  The framing stays.             *)
DispatchSetFormat(p) ==
  /\ In(p, {"stop", "acquire", "pause"})
  /\ \E f \in Format :
       /\ InTable(f) /\ HeaderFits(pin[p], f)
       /\ pin' = [pin EXCEPT
            ![p] = [CaptureVideoInfoHeader(@, f) EXCEPT
                      !.format = f, !.last = Absent]]
  /\ UNCHANGED <<policyVars, offer, deviceVars>>

-----------------------------------------------------------------------------
(* SetState, with what it makes the device and the hardware do.            *)

ToState(p, s) ==
  pin' = [pin EXCEPT ![p].state = s, ![p].due = @ /\ s = "run"]

(* The first pin gives the device its format, later ones only join.        *)
Acquire(p) ==
  /\ In(p, {"stop"})
  /\ ToState(p, "acquire")
  /\ sinks' = Append(sinks, p)
  /\ config' = IF sinks = <<>> THEN pin[p].info.range ELSE config
  /\ UNCHANGED <<policyVars, offer, hw, shape, uploaded>>

(* The moves between ACQUIRE and PAUSE leave the device alone.             *)
PauseOrAcquire(p) ==
  /\ \/ In(p, {"acquire"}) /\ ToState(p, "pause")
     \/ In(p, {"pause"}) /\ ToState(p, "acquire")
  /\ UNCHANGED <<policyVars, offer, deviceVars>>

(* StartPinStream starts the hardware, or resumes it, or finds it running. *)
Run(p) ==
  /\ In(p, {"pause"})
  /\ ToState(p, "run")
  /\ hw' = "Running"
  /\ IF hw = "Stopped" THEN shape' = config /\ uploaded' = FALSE
     ELSE UNCHANGED <<shape, uploaded>>
  /\ UNCHANGED <<policyVars, offer, sinks, config>>

(* PausePinStream: the last pin that runs pauses the hardware.             *)
HwWithout(p) ==
  IF Running(p) /\ \A o \in Pin \ {p} : ~Running(o) THEN "Paused" ELSE hw

Pause(p) ==
  /\ Running(p)
  /\ ToState(p, "pause")
  /\ hw' = HwWithout(p)
  /\ UNCHANGED <<policyVars, offer, sinks, config, shape, uploaded>>

(* The sinks after that of p move up.                                      *)
SinksWithout(p) ==
  IF p \in ToSet(sinks)
  THEN RemoveAt(sinks, CHOOSE i \in DOMAIN sinks : sinks[i] = p) ELSE sinks

ConfigWithout(others) == IF others = <<>> THEN Absent ELSE config

(* SetState(KSSTATE_STOP), and what the pin held is let go; the framework  *)
(* gives the client its buffers back.                                      *)
LeaveDevice(p) ==
  LET others == SinksWithout(p)
      last == p \in ToSet(sinks) /\ others = <<>>
  IN  /\ sinks' = others
      /\ config' = ConfigWithout(others)
      /\ hw' = IF last THEN "Stopped" ELSE HwWithout(p)
      /\ shape' = IF last THEN Absent ELSE shape
      /\ uploaded' = (uploaded /\ ~last)

Stop(p) ==
  /\ In(p, {"acquire"})
  /\ pin' = [pin EXCEPT ![p].state = "stop", ![p].buffer = 0,
                      ![p].last = Absent]
  /\ LeaveDevice(p)
  /\ UNCHANGED <<policyVars, offer>>

DispatchClose(p) ==
  /\ ~In(p, {"closed"})
  /\ pin' = [pin EXCEPT ![p] = Closed]
  /\ LeaveDevice(p)
  /\ UNCHANGED <<policyVars, offer>>

-----------------------------------------------------------------------------
(* Frames.                                                                 *)

(* The client hands a buffer in, as large as the framing says or as large  *)
(* as its own picture.                                                     *)
QueueBuffer(p) ==
  /\ In(p, {"acquire", "pause", "run"}) /\ pin[p].buffer = 0
  /\ \E size \in {pin[p].framing, SizeOf[pin[p].format.range]} :
       pin' = [pin EXCEPT ![p].buffer = size, ![p].last = Absent]
  /\ UNCHANGED <<policyVars, offer, deviceVars>>

(* The application uploads a picture (SetData, SetFrameEx).                *)
Upload ==
  /\ hw = "Running"
  /\ uploaded' = TRUE
  /\ UNCHANGED <<policyVars, offer, pin, sinks, config, hw, shape>>

(* Faulty: the pin that configured the device is the only one told.        *)
InterruptedFaulty == {sinks[1]}
(* Every sink is told that a mapping has completed.                        *)
Interrupted == ToSet(sinks)

(* KsPinAttemptProcessing: the framework will process a pin that runs and  *)
(* has a buffer.                                                           *)
CompleteMappings(q) ==
  [q EXCEPT !.due = @ \/ (q.state = "run" /\ q.buffer > 0)]

Interrupt ==
  /\ hw = "Running" /\ sinks # <<>>
  /\ pin' = [p \in Pin |-> IF p \in Interrupted THEN CompleteMappings(pin[p])
                           ELSE pin[p]]
  /\ UNCHANGED <<policyVars, offer, deviceVars>>

(* Faulty: the frame of the hardware is copied, whatever the pin asked for.*)
SameShapeFaulty(r) == TRUE
(* The hardware's own frame has the geometry of the pin.                   *)
SameShape(r) == shape = r

RoomFor(bytes, extent) == bytes <= extent

(* The uploaded picture is sampled to the geometry of the pin ...          *)
FillResampledFrame(r) == r
(* ... and before there is one a pattern of that geometry is drawn.        *)
FillDirectFrame(r) == r

CopyImageToStreamHeader(r) ==
  IF SameShape(r) THEN shape
  ELSE IF uploaded THEN FillResampledFrame(r) ELSE FillDirectFrame(r)

(* The frame at the leading edge is filled and let go.                     *)
Process(p) ==
  LET q == pin[p]
      image == CopyImageToStreamHeader(q.info.range)
  IN  /\ q.due /\ hw = "Running"
      /\ RoomFor(SizeOf[image], q.buffer)
      /\ pin' = [pin EXCEPT
           ![p].due = FALSE, ![p].buffer = 0,
           ![p].last = [range |-> image, fits |-> SizeOf[image] <= q.buffer]]
      /\ UNCHANGED <<policyVars, offer, deviceVars>>

(* The buffer has no address now, or is too short: it stays at the leading *)
(* edge until the next interrupt.                                          *)
ProcessPends(p) ==
  LET q == pin[p]
  IN  /\ q.due
      /\ \/ MapMayFail
         \/ ~RoomFor(SizeOf[CopyImageToStreamHeader(q.info.range)], q.buffer)
      /\ pin' = [pin EXCEPT ![p].due = FALSE]
      /\ UNCHANGED <<policyVars, offer, deviceVars>>

-----------------------------------------------------------------------------
Next ==
  \/ SetPreferredAspect \/ SetAllowedAspects
  \/ Upload \/ Interrupt
  \/ \E p \in Pin :
       \/ IntersectHandler(p) \/ DispatchCreate(p) \/ DispatchSetFormat(p)
       \/ Acquire(p) \/ PauseOrAcquire(p) \/ Run(p) \/ Pause(p) \/ Stop(p)
       \/ DispatchClose(p)
       \/ QueueBuffer(p) \/ Process(p) \/ ProcessPends(p)

Spec == Init /\ [][Next]_vars

(* The timer of the hardware goes off again and again, and a pin that is   *)
(* processed again and again finds the address of its buffer at last.      *)
FairSpec ==
  /\ Spec /\ WF_vars(Interrupt)
  /\ \A p \in Pin : WF_vars(ProcessPends(p)) /\ SF_vars(Process(p))

-----------------------------------------------------------------------------
TypeOK ==
  /\ preferred \in Aspect /\ allowed \in SUBSET Aspect /\ allowed # {}
  /\ table \in [1 .. TableSize -> DataRange]
  /\ offer \in [Pin -> Format \cup {Absent}]
  /\ pin \in [Pin -> PinState]
  /\ sinks \in Seq(Pin) /\ config \in DataRange \cup {Absent}
  /\ hw \in {"Stopped", "Paused", "Running"}
  /\ shape \in DataRange \cup {Absent} /\ uploaded \in BOOLEAN

(* A client gets the picture its pin is connected for, whole and inside its*)
(* buffer: although another pin gave the hardware its geometry, although   *)
(* its own format changed after the device was configured, although the    *)
(* header it is filled by is a copy.                                       *)
ClientGetsItsPicture ==
  \A p \in Pin : LET q == pin[p] IN
    q.last # Absent => q.last.range = q.format.range /\ q.last.fits

(* The header a pin is filled by is the one that was last accepted, and was*)
(* never written beyond what was allocated for the first.                  *)
HeaderIsTheConnections ==
  \A p \in Pin : LET q == pin[p] IN
    ~In(p, {"closed"}) => q.info = q.format /\ q.info.header <= q.room

(* Once a policy was set the list offers the allowed aspects and no other, *)
(* and begins with the preferred one, which is allowed.                    *)
TableFollowsPolicy ==
  table # InitialTable =>
    /\ ToSet(table) = UNION {ToSet(AspectRanges[a]) : a \in allowed}
    /\ preferred \in allowed /\ table[1] = AspectRanges[preferred][1]

(* What a pin is offered and what it has accepted (the intersection        *)
(* handlers, DispatchSetFormat) is what device and policy stand for.       *)
FormatsAgree == HeaderIsTheConnections /\ TableFollowsPolicy

Wanting(p) == /\ Running(p) /\ pin[p].buffer > 0
              /\ SizeOf[pin[p].info.range] <= pin[p].buffer

(* A pin that runs with a buffer its picture fits in has it filled, whoever*)
(* configured the device and whoever leaves it meanwhile.                  *)
RunningPinIsServed == \A p \in Pin : Wanting(p) ~> ~Wanting(p)

=============================================================================
