------------------------- MODULE AudioAdapterProofs -------------------------
(***************************************************************************)
(* Proofs about AudioAdapter, for any number of devices and streams: the   *)
(* adapter lives as long as somebody has a pointer to it, an endpoint is   *)
(* there whole or not at all, and what is gone has left nothing.           *)
(***************************************************************************)
EXTENDS AudioAdapter, FiniteSetTheorems, TLAPS

(* Between them StartDevice has two references of its own.                 *)
Installing == {"init", "power", "topology", "wave", "connect"}

(* The references that others have to d's adapter.                         *)
Refs(d) == One(common[d]) + One(power[d]) + TopologyRef(held[d])

Nothing(d) ==
  /\ ~common[d] /\ ~power[d] /\ held[d] = NoHolders /\ ~connected[d]

(* StartDevice has its references, in the end unless it got no adapter.    *)
RefsExact(d) ==
  /\ pc[d] \in Installing => adapter[d] = 2 + Refs(d)
  /\ pc[d] = "return" =>
       \/ adapter[d] = 2 + Refs(d)
       \/ adapter[d] = 0 /\ Nothing(d) /\ ~status[d]
  /\ pc[d] \notin Installing \cup {"return"} => adapter[d] = Refs(d)

(* How far StartDevice is says what there is.                              *)
StartSound(d) ==
  /\ pc[d] \in Starting => dev[d] \in {"added", "stopped"} /\ ~common[d]
  /\ pc[d] \in {"init", "power"} => Nothing(d)
  /\ pc[d] = "topology" =>
       power[d] /\ held[d] = NoHolders /\ ~connected[d]
  /\ pc[d] \in {"wave", "connect"} =>
       /\ power[d] /\ ~connected[d]
       /\ \A f \in Filter : held[d][f] # {} => "port" \in held[d][f]
  /\ pc[d] = "wave" => held[d]["wave"] = {}
  /\ pc[d] = "connect" /\ status[d] => held[d]["wave"] # {}

(* The wave filter is there, connected to the topology filter if there is  *)
(* one; or nothing is.                                                     *)
Whole(d) ==
  /\ power[d] /\ "port" \in held[d]["wave"]
  /\ connected[d] <=> "port" \in held[d]["topology"]
NoFilters(d) == held[d] = NoHolders /\ ~connected[d]

(* What a start leaves, and what the PnP handler takes away.               *)
EndSound(d) ==
  /\ pc[d] = "return" => IF status[d] THEN Whole(d) ELSE NoFilters(d)
  /\ dev[d] = "started" /\ pc[d] = "idle" => Whole(d)
  /\ dev[d] = "failed" => NoFilters(d)
  /\ pc[d] \in {"idle", "return"} \cup Irp =>
       \A f \in Filter : "install" \notin held[d][f]
  /\ pc[d] \in {"idle"} \cup Irp /\ ~common[d] =>
       \A f \in Filter : "cache" \notin held[d][f]
  /\ pc[d] \in Irp => ~common[d]

(* A device that has not started, or no longer, has nothing; a stream's    *)
(* device has its power interface registered.                              *)
LifeSound(d) ==
  /\ dev[d] = "absent" => pc[d] = "idle"
  /\ pc[d] \in {"stop", "surprise"} => dev[d] = "started"
  /\ dev[d] \in {"absent", "added", "stopped"}
       /\ pc[d] \in {"idle", "new", "remove"} => Nothing(d)
  /\ dev[d] \in {"started", "surprise"} => power[d]
  /\ streams[d] > 0 =>
       dev[d] \in {"started", "surprise"} /\ pc[d] \in {"idle", "surprise"}

Books(d) == RefsExact(d) /\ StartSound(d) /\ EndSound(d) /\ LifeSound(d)

(* There is one adapter or none, and the counter says so, or memory for    *)
(* one was refused and there will be none.                                 *)
Alive == {d \in Device : adapter[d] > 0}
Counted ==
  \/ Alive = {} /\ ~workItems /\ instances = IF lost THEN 1 ELSE 0
  \/ (\E d \in Device : Alive = {d}) /\ instances = 1 /\ ~lost

DriverSound ==
  /\ driver # "loaded" => \A d \in Device : dev[d] = "absent"
  /\ driver = "unloaded" => owned = {}

Kept == TypeOK /\ (\A d \in Device : Books(d)) /\ Counted /\ DriverSound

-----------------------------------------------------------------------------
(* What a step of one device leaves of the others, and of the counter.     *)

Fields(d) ==
  <<dev[d], pc[d], status[d], adapter[d], common[d], power[d], held[d],
    connected[d], streams[d]>>

(* The books of a device whose fields do not change stay right.            *)
LEMMA OthersKeep ==
  ASSUME NEW e, Books(e), Fields(e)' = Fields(e)
  PROVE  Books(e)'
  BY DEF Fields, Books, RefsExact, StartSound, EndSound, LifeSound, Refs,
         TopologyRef, Nothing, Whole, NoFilters

(* References are counted with natural numbers.                            *)
LEMMA RefsNat ==
  ASSUME TypeOK, NEW d \in Device
  PROVE  /\ Refs(d) \in Nat
         /\ Refs(d) = 0 <=>
              ~common[d] /\ ~power[d] /\ held[d]["topology"] = {}
  BY DEF TypeOK, Refs, One, TopologyRef

(* The counter, when the references to one adapter change and stay some.   *)
LEMMA SameAlive ==
  ASSUME TypeOK, TypeOK', Counted, NEW d \in Device,
         UNCHANGED staticVars,
         \A e \in Device \ {d} : adapter'[e] = adapter[e],
         adapter'[d] > 0 <=> adapter[d] > 0
  PROVE  Counted'
<1>1. Alive' = Alive
  BY DEF Alive
<1>. QED BY <1>1 DEF Counted, staticVars

(* The counter, when one adapter's references become n.                    *)
LEMMA SetRefsCounted ==
  ASSUME TypeOK, Counted, NEW d \in Device, NEW n \in Nat, SetRefs(d, n),
         n > 0 => adapter[d] > 0
  PROVE  Counted' /\ adapter' = [adapter EXCEPT ![d] = n]
         /\ adapter' \in [Device -> Nat]
         /\ instances' \in Nat /\ workItems' \in BOOLEAN /\ lost' \in BOOLEAN
<1>1. /\ adapter' = [adapter EXCEPT ![d] = n] /\ adapter' \in [Device -> Nat]
      /\ adapter'[d] = n /\ \A e \in Device \ {d} : adapter'[e] = adapter[e]
  BY DEF SetRefs, TypeOK
<1>2. lost' = lost /\ lost \in BOOLEAN
  BY DEF SetRefs, TypeOK
<1>3. CASE adapter[d] > 0 /\ n = 0
  <2>1. instances' = instances - 1 /\ workItems' = FALSE
    BY <1>3 DEF SetRefs, InstancesWithout
  <2>2. d \in Alive
    BY <1>3 DEF Alive
  <2>3. Alive = {d} /\ instances = 1 /\ ~lost
    BY <2>2 DEF Counted
  <2>4. Alive' = {}
    BY <1>1, <1>3, <2>3 DEF Alive
  <2>5. Counted'
    BY <1>2, <2>1, <2>3, <2>4 DEF Counted
  <2>6. instances' \in Nat
    BY <2>1, <2>3
  <2>7. workItems' \in BOOLEAN /\ lost' \in BOOLEAN
    BY <1>2, <2>1
  <2>. QED BY <1>1, <2>5, <2>6, <2>7
<1>4. CASE ~(adapter[d] > 0 /\ n = 0)
  <2>1. UNCHANGED <<instances, workItems>>
    BY <1>4 DEF SetRefs
  <2>2. Alive' = Alive
    BY <1>1, <1>4 DEF Alive, TypeOK
  <2>. QED BY <1>1, <1>2, <2>1, <2>2 DEF Counted, TypeOK
<1>. QED BY <1>3, <1>4

(* A step of one device that the driver and its books survive.             *)
LEMMA DeviceStep ==
  ASSUME Kept, NEW d \in Device, TypeOK', Books(d)', Counted',
         \A e \in Device \ {d} : Fields(e)' = Fields(e),
         \/ UNCHANGED <<driver, owned>> /\ dev'[d] = "absent"
         \/ UNCHANGED <<driver, owned>> /\ driver = "loaded"
         \/ UNCHANGED <<driver, owned>> /\ dev[d] # "absent"
  PROVE  Kept'
<1>1. \A e \in Device : Books(e)'
  BY OthersKeep DEF Kept
<1>2. \A e \in Device \ {d} : dev'[e] = dev[e]
  BY DEF Fields
<1>3. DriverSound'
  BY <1>2 DEF Kept, DriverSound
<1>. QED BY <1>1, <1>3 DEF Kept

-----------------------------------------------------------------------------
(* The invariant holds at first and while the driver loads and unloads.    *)

LEMMA InitKept == ASSUME Init PROVE Kept
<1>1. TypeOK
  BY DEF Init, TypeOK, NoHolders, Starting, Irp
<1>2. \A d \in Device : Books(d)
  <2>. SUFFICES ASSUME NEW d \in Device PROVE Books(d)
    OBVIOUS
  <2>1. /\ dev[d] = "absent" /\ pc[d] = "idle" /\ adapter[d] = 0
        /\ streams[d] = 0 /\ Nothing(d)
    BY DEF Init, Nothing
  <2>2. Refs(d) = 0 /\ \A f \in Filter : held[d][f] = {}
    BY <2>1 DEF Refs, TopologyRef, One, Nothing, NoHolders, Filter
  <2>3. RefsExact(d)
    BY <2>1, <2>2 DEF RefsExact, Installing
  <2>4. StartSound(d) /\ EndSound(d)
    BY <2>1, <2>2 DEF StartSound, EndSound, Starting, Irp
  <2>5. LifeSound(d)
    BY <2>1 DEF LifeSound
  <2>. QED BY <2>3, <2>4, <2>5 DEF Books
<1>3. Alive = {}
  BY DEF Init, Alive
<1>4. Counted /\ DriverSound
  BY <1>3 DEF Init, Counted, DriverSound
<1>. QED BY <1>1, <1>2, <1>4 DEF Kept

(* What is freed is everything.                                            *)
LEMMA FreedAll ==
  ASSUME TypeOK
  PROVE  Freed(owned) = {}
<1>1. {Made[i] : i \in DOMAIN Made} \subseteq
        {"path", "ring", "control", "link"}
  <2>1. CASE FeedEnabled
    <3>1. Made = <<"path", "ring", "control", "link">>
      BY <2>1 DEF Made
    <3>. QED BY <3>1
  <2>2. CASE ~FeedEnabled
    <3>1. Made = <<"path", "ring">>
      BY <2>2 DEF Made
    <3>. QED BY <3>1
  <2>. QED BY <2>1, <2>2
<1>. QED
  BY <1>1 DEF TypeOK, Freed, ReleaseRegistryStringBuffer,
              VirtuaCamMicBridgeShutdown

(* DriverEntry and its failure, and the unloading.                         *)
LEMMA DriverKept ==
  ASSUME Kept, \/ DriverEntryStep \/ DriverEntrySucceeds
               \/ DriverEntryFails \/ DriverUnload
  PROVE  Kept'
<1>1. \A d \in Device : Fields(d)' = Fields(d)
  BY DEF DriverEntryStep, DriverEntrySucceeds, DriverEntryFails,
         DriverUnload, Fields, filterVars
<1>2. \A d \in Device : Books(d)'
  BY <1>1, OthersKeep DEF Kept
<1>3. Alive' = Alive
  BY DEF DriverEntryStep, DriverEntrySucceeds, DriverEntryFails,
         DriverUnload, Alive
<1>4. TypeOK'
  <2>1. owned' \subseteq {Made[i] : i \in DOMAIN Made}
    <3>1. CASE DriverEntryStep
      BY <3>1 DEF DriverEntryStep, Kept, TypeOK
    <3>2. CASE DriverEntrySucceeds
      BY <3>2 DEF DriverEntrySucceeds, Kept, TypeOK
    <3>3. CASE DriverEntryFails \/ DriverUnload
      BY <3>3, FreedAll DEF DriverEntryFails, DriverUnload, Kept
    <3>. QED BY <3>1, <3>2, <3>3
  <2>2. /\ driver' \in {"unloaded", "loading", "loaded"}
        /\ instances' \in Nat /\ workItems' \in BOOLEAN /\ lost' \in BOOLEAN
        /\ UNCHANGED <<dev, pc, status, adapter, common, power, filterVars,
                       streams>>
    <3>1. CASE DriverUnload
      BY <3>1 DEF DriverUnload
    <3>2. CASE DriverEntryStep \/ DriverEntrySucceeds \/ DriverEntryFails
      <4>1. UNCHANGED staticVars
        BY <3>2 DEF DriverEntryStep, DriverEntrySucceeds, DriverEntryFails
      <4>. QED BY <3>2, <4>1 DEF DriverEntryStep, DriverEntrySucceeds,
                                 DriverEntryFails, Kept, TypeOK, staticVars
    <3>. QED BY <3>1, <3>2
  <2>. QED BY <2>1, <2>2 DEF Kept, TypeOK, filterVars
<1>5. Counted'
  <2>1. CASE DriverUnload
    <3>1. \A d \in Device : adapter[d] = 0
      BY <2>1, RefsNat DEF DriverUnload, Kept, Books, LifeSound, RefsExact,
                           Nothing, NoHolders, Filter, Installing, Irp
    <3>2. Alive = {}
      BY <3>1 DEF Alive
    <3>. QED BY <1>3, <2>1, <3>2 DEF DriverUnload, Counted
  <2>2. CASE ~DriverUnload
    <3>1. UNCHANGED staticVars
      BY <2>2 DEF DriverEntryStep, DriverEntrySucceeds, DriverEntryFails
    <3>. QED BY <1>3, <3>1 DEF Kept, Counted, staticVars
  <2>. QED BY <2>1, <2>2
<1>6. DriverSound'
  <2>1. CASE DriverEntryStep
    BY <2>1 DEF DriverEntryStep, Kept, DriverSound
  <2>2. CASE DriverEntrySucceeds
    BY <2>2 DEF DriverEntrySucceeds, Kept, DriverSound
  <2>3. CASE DriverEntryFails \/ DriverUnload
    BY <2>3, FreedAll DEF DriverEntryFails, DriverUnload, Kept, DriverSound
  <2>. QED BY <2>1, <2>2, <2>3
<1>. QED BY <1>2, <1>4, <1>5, <1>6 DEF Kept

-----------------------------------------------------------------------------
(* StartDevice.                                                            *)

(* A device is added, and begins to start.                                 *)
LEMMA BeginKept ==
  ASSUME Kept, NEW d \in Device, AddDevice(d) \/ StartDevice(d)
  PROVE  Kept'
<1>1. \A e \in Device \ {d} : Fields(e)' = Fields(e)
  BY DEF AddDevice, StartDevice, Fields, Kept, TypeOK, filterVars
<1>2. /\ UNCHANGED <<driver, owned, staticVars, adapter>>
      /\ \/ driver = "loaded" \/ dev[d] # "absent"
  BY DEF AddDevice, StartDevice, driverVars
<1>3. TypeOK'
  <2>1. CASE AddDevice(d)
    BY <1>2, <2>1 DEF AddDevice, Kept, TypeOK, staticVars, filterVars
  <2>2. CASE StartDevice(d)
    BY <1>2, <2>2
       DEF StartDevice, Kept, TypeOK, staticVars, filterVars, Starting
  <2>. QED BY <2>1, <2>2
<1>4. Books(d)'
  <2>1. /\ dev[d] \in {"absent", "added", "stopped"} /\ pc[d] = "idle"
        /\ Nothing(d) /\ adapter[d] = Refs(d) /\ ~(streams[d] > 0)
    BY DEF AddDevice, StartDevice, Kept, Books, LifeSound, RefsExact,
           Installing
  <2>2. /\ dev'[d] \in {"added", "stopped"} /\ pc'[d] \in {"idle", "new"}
        /\ UNCHANGED <<adapter[d], common[d], power[d], held[d],
                       connected[d], streams[d]>>
    BY DEF AddDevice, StartDevice, Kept, TypeOK, filterVars
  <2>3. Nothing(d)' /\ adapter'[d] = Refs(d)' /\ ~(streams'[d] > 0)
    BY <2>1, <2>2 DEF Nothing, Refs, TopologyRef
  <2>4. \A f \in Filter : held'[d][f] = {}
    BY <2>3 DEF Nothing, NoHolders
  <2>. QED
    BY <2>2, <2>3, <2>4 DEF Books, RefsExact, StartSound, EndSound, LifeSound,
       Nothing, Whole, NoFilters, Installing, Starting, Irp
<1>5. Counted'
  BY <1>2, <1>3, SameAlive DEF Kept
<1>. QED BY <1>1, <1>2, <1>3, <1>4, <1>5, DeviceStep

(* NewAdapterCommon: one adapter, unless there is one or no memory.        *)
LEMMA NewKept ==
  ASSUME Kept, NEW d \in Device, NewAdapterCommon(d)
  PROVE  Kept'
<1>1. \A e \in Device \ {d} : Fields(e)' = Fields(e)
  BY DEF NewAdapterCommon, Goto, Fields, Kept, TypeOK, filterVars
<1>2. /\ UNCHANGED <<driver, owned, workItems, dev, common, power, held,
                     connected, streams>>
      /\ pc[d] = "new"
  BY DEF NewAdapterCommon, driverVars, filterVars
<1>3. /\ dev[d] \in {"added", "stopped"} /\ Nothing(d)
      /\ adapter[d] = Refs(d) /\ Refs(d) = 0 /\ ~(streams[d] > 0)
  <2>1. /\ dev[d] \in {"added", "stopped"} /\ Nothing(d)
        /\ adapter[d] = Refs(d) /\ ~(streams[d] > 0)
    BY <1>2 DEF Kept, Books, StartSound, LifeSound, RefsExact, Installing,
                Starting
  <2>. QED BY <2>1, RefsNat DEF Kept, Nothing, NoHolders, Filter
<1>4. /\ Nothing(d)' /\ Refs(d)' = 0 /\ \A f \in Filter : held'[d][f] = {}
  BY <1>2, <1>3 DEF Nothing, Refs, TopologyRef, NoHolders
<1>5. \/ /\ instances = 1 /\ UNCHANGED <<adapter, instances, lost>>
         /\ Goto(d, "return", FALSE)
      \/ /\ instances = 0 /\ instances' = 1 /\ lost' = TRUE
         /\ UNCHANGED adapter /\ Goto(d, "return", FALSE)
      \/ /\ instances = 0 /\ instances' = 1 /\ UNCHANGED lost
         /\ adapter' = [adapter EXCEPT ![d] = 2] /\ Goto(d, "init", TRUE)
  BY DEF NewAdapterCommon, Kept, Counted
<1>6. TypeOK'
  <2>1. lost' \in BOOLEAN
    BY <1>5 DEF Kept, TypeOK
  <2>2. instances' \in Nat /\ adapter' \in [Device -> Nat]
    <3>1. instances' \in {instances, 1}
      BY <1>5
    <3>2. adapter' \in {adapter, [adapter EXCEPT ![d] = 2]}
      BY <1>5
    <3>. QED BY <3>1, <3>2 DEF Kept, TypeOK
  <2>3. Goto(d, "return", FALSE) \/ Goto(d, "init", TRUE)
    BY <1>5
  <2>4. /\ pc' \in [Device -> {"idle"} \cup Starting \cup Irp]
        /\ status' \in [Device -> BOOLEAN]
    BY <2>3 DEF Goto, Kept, TypeOK, Starting
  <2>. QED BY <1>2, <2>1, <2>2, <2>4 DEF Kept, TypeOK
<1>7. Books(d)'
  <2>1. \/ pc'[d] = "return" /\ ~status'[d] /\ adapter'[d] = 0
        \/ pc'[d] = "init" /\ adapter'[d] = 2
    BY <1>3, <1>5 DEF Goto, Kept, TypeOK
  <2>2. dev'[d] = dev[d] /\ streams'[d] = streams[d]
    BY <1>2
  <2>. QED
    BY <1>3, <1>4, <2>1, <2>2 DEF Books, RefsExact, StartSound, EndSound,
       LifeSound, Nothing, Whole, NoFilters, Installing, Starting, Irp
<1>8. Counted'
  <2>1. CASE UNCHANGED <<adapter, instances, lost>>
    BY <1>2, <1>6, <2>1, SameAlive DEF Kept, staticVars
  <2>2. CASE instances = 0 /\ instances' = 1 /\ lost' = TRUE /\ UNCHANGED adapter
    <3>1. Alive' = Alive
      BY <2>2 DEF Alive
    <3>. QED BY <1>2, <2>2, <3>1 DEF Kept, Counted
  <2>3. CASE /\ instances = 0 /\ instances' = 1 /\ UNCHANGED lost
             /\ adapter' = [adapter EXCEPT ![d] = 2]
    <3>1. Alive = {} /\ ~lost
      BY <2>3 DEF Kept, Counted
    <3>2. Alive' = {d}
      BY <2>3, <3>1 DEF Alive, Kept, TypeOK
    <3>. QED BY <2>3, <3>1, <3>2 DEF Counted
  <2>. QED BY <1>5, <2>1, <2>2, <2>3
<1>. QED BY <1>1, <1>2, <1>3, <1>6, <1>7, <1>8, DeviceStep

(* Init of the adapter; what a failure lets go, it lets go at the return.  *)
LEMMA AdapterInitKept ==
  ASSUME Kept, NEW d \in Device, AdapterInit(d)
  PROVE  Kept'
<1>1. \A e \in Device \ {d} : Fields(e)' = Fields(e)
  BY DEF AdapterInit, Goto, Fields, Kept, TypeOK, filterVars
<1>2. /\ UNCHANGED <<driver, owned, instances, lost, dev, adapter, common,
                     power, held, connected, streams>>
      /\ pc[d] = "init"
  BY DEF AdapterInit, driverVars, filterVars
<1>3. /\ dev[d] \in {"added", "stopped"} /\ Nothing(d)
      /\ adapter[d] = 2 + Refs(d) /\ ~(streams[d] > 0)
  BY <1>2 DEF Kept, Books, StartSound, LifeSound, RefsExact, Installing,
              Starting
<1>4. /\ Nothing(d)' /\ Refs(d)' = Refs(d)
      /\ \A f \in Filter : held'[d][f] = {}
  BY <1>2, <1>3 DEF Nothing, Refs, TopologyRef, NoHolders
<1>5. /\ workItems' \in BOOLEAN
      /\ Goto(d, "power", TRUE) \/ Goto(d, "return", FALSE)
  <2>1. PICK ok \in BOOLEAN :
          /\ InitializeWorkItems(ok)
          /\ Goto(d, IF ok THEN "power" ELSE "return", ok)
    BY DEF AdapterInit
  <2>2. workItems' \in BOOLEAN
    BY <2>1 DEF InitializeWorkItems, Kept, TypeOK
  <2>3. CASE ok = TRUE
    BY <2>1, <2>2, <2>3
  <2>4. CASE ok = FALSE
    BY <2>1, <2>2, <2>4
  <2>. QED BY <2>3, <2>4
<1>6. TypeOK'
  BY <1>2, <1>5 DEF Kept, TypeOK, Goto, Starting
<1>7. Books(d)'
  <2>1. \/ pc'[d] = "return" /\ ~status'[d]
        \/ pc'[d] = "power"
    BY <1>5 DEF Goto, Kept, TypeOK
  <2>2. dev'[d] = dev[d] /\ streams'[d] = streams[d] /\ adapter'[d] = adapter[d]
    BY <1>2
  <2>. QED
    BY <1>3, <1>4, <2>1, <2>2 DEF Books, RefsExact, StartSound, EndSound,
       LifeSound, Nothing, Whole, NoFilters, Installing, Starting, Irp
<1>8. Counted'
  <2>1. d \in Alive
    BY <1>3, RefsNat DEF Alive, Kept
  <2>2. Alive' = Alive
    BY <1>2 DEF Alive
  <2>. QED BY <1>2, <2>1, <2>2 DEF Kept, Counted
<1>. QED BY <1>1, <1>2, <1>3, <1>6, <1>7, <1>8, DeviceStep

(* The registration for power adds the port class driver's reference.      *)
LEMMA PowerKept ==
  ASSUME Kept, NEW d \in Device, RegisterPower(d)
  PROVE  Kept'
<1>1. /\ UNCHANGED <<driver, owned, dev, common, held, connected, streams>>
      /\ pc[d] = "power"
  BY DEF RegisterPower, driverVars, filterVars
<1>2. /\ dev[d] \in {"added", "stopped"} /\ Nothing(d)
      /\ adapter[d] = 2 + Refs(d) /\ ~(streams[d] > 0)
  BY <1>1 DEF Kept, Books, StartSound, LifeSound, RefsExact, Installing,
              Starting
<1>3. CASE /\ power' = [power EXCEPT ![d] = TRUE]
           /\ SetRefs(d, adapter[d] + 1) /\ Goto(d, "topology", TRUE)
  <2>1. adapter[d] \in Nat /\ adapter[d] > 0
    BY <1>2, RefsNat DEF Kept
  <2>2. /\ Counted' /\ adapter' = [adapter EXCEPT ![d] = adapter[d] + 1]
        /\ adapter' \in [Device -> Nat]
        /\ instances' \in Nat /\ workItems' \in BOOLEAN /\ lost' \in BOOLEAN
    BY <1>3, <2>1, SetRefsCounted DEF Kept
  <2>3. TypeOK'
    BY <1>1, <1>3, <2>2 DEF Kept, TypeOK, Goto, Starting
  <2>4. \A e \in Device \ {d} : Fields(e)' = Fields(e)
    BY <1>1, <1>3, <2>2 DEF Goto, Fields, Kept, TypeOK
  <2>5. /\ pc'[d] = "topology" /\ power'[d] /\ adapter'[d] = adapter[d] + 1
        /\ held'[d] = NoHolders /\ ~connected'[d] /\ ~common'[d]
        /\ ~power[d] /\ ~common[d]
    BY <1>1, <1>2, <1>3, <2>2 DEF Goto, Kept, TypeOK, Nothing
  <2>6. adapter'[d] = 2 + Refs(d)'
    BY <1>1, <1>2, <2>1, <2>5 DEF Refs, TopologyRef, One
  <2>7. Books(d)'
    BY <1>1, <1>2, <2>5, <2>6 DEF Books, RefsExact, StartSound, EndSound,
       LifeSound, NoFilters, Installing, Starting, Irp
  <2>. QED BY <1>1, <1>2, <2>2, <2>3, <2>4, <2>7, DeviceStep
<1>4. CASE Goto(d, "return", FALSE) /\ UNCHANGED <<power, adapter, staticVars>>
  <2>1. TypeOK'
    BY <1>1, <1>4 DEF Kept, TypeOK, Goto, Starting, staticVars
  <2>2. \A e \in Device \ {d} : Fields(e)' = Fields(e)
    BY <1>1, <1>4 DEF Goto, Fields, Kept, TypeOK
  <2>3. /\ Nothing(d)' /\ Refs(d)' = Refs(d)
        /\ \A f \in Filter : held'[d][f] = {}
    BY <1>1, <1>2, <1>4 DEF Nothing, Refs, TopologyRef, NoHolders
  <2>4. pc'[d] = "return" /\ ~status'[d]
    BY <1>4 DEF Goto, Kept, TypeOK
  <2>5. Books(d)'
    BY <1>1, <1>2, <1>4, <2>3, <2>4 DEF Books, RefsExact, StartSound,
       EndSound, LifeSound, Nothing, NoFilters, Installing, Starting, Irp
  <2>6. Counted'
    BY <1>4, <2>1, SameAlive DEF Kept
  <2>. QED BY <1>1, <1>2, <2>1, <2>2, <2>5, <2>6, DeviceStep
<1>. QED BY <1>3, <1>4 DEF RegisterPower

(* InstallSubdevice and CacheSubdevice: there is a port or nothing.        *)
LEMMA Installed ==
  ASSUME NEW installed \in BOOLEAN, NEW cached \in BOOLEAN
  PROVE  LET h == CacheSubdevice(InstallSubdevice(installed), cached)
         IN  /\ h \in SUBSET Holder
             /\ IF installed THEN "port" \in h ELSE h = {}
  BY DEF CacheSubdevice, InstallSubdevice, HandedOut, Holder

(* The topology filter's holders keep one more reference between them.     *)
LEMMA TopologyKept ==
  ASSUME Kept, NEW d \in Device, InstallTopology(d)
  PROVE  Kept'
<1>1. /\ UNCHANGED <<driver, owned, dev, common, power, connected, streams>>
      /\ pc[d] = "topology" /\ Goto(d, "wave", TRUE)
  BY DEF InstallTopology, driverVars
<1>2. PICK h \in SUBSET Holder :
        /\ h # {} => "port" \in h
        /\ held' = [held EXCEPT ![d]["topology"] = h]
        /\ SetRefs(d, adapter[d] + One(h # {}))
  <2>1. PICK installed, cached \in BOOLEAN :
          LET h == CacheSubdevice(InstallSubdevice(installed), cached)
          IN /\ held' = [held EXCEPT ![d]["topology"] = h]
             /\ SetRefs(d, adapter[d] + One(h # {}))
    BY DEF InstallTopology
  <2>. QED BY <2>1, Installed
<1>3. /\ dev[d] \in {"added", "stopped"} /\ ~common[d] /\ power[d]
      /\ held[d] = NoHolders /\ ~connected[d]
      /\ adapter[d] = 2 + Refs(d) /\ ~(streams[d] > 0)
  BY <1>1 DEF Kept, Books, StartSound, LifeSound, RefsExact, Installing,
              Starting
<1>4. adapter[d] = 3
  BY <1>3 DEF Refs, TopologyRef, One, NoHolders, Filter
<1>5. /\ Counted' /\ adapter' = [adapter EXCEPT ![d] = 3 + One(h # {})]
      /\ adapter' \in [Device -> Nat]
      /\ instances' \in Nat /\ workItems' \in BOOLEAN /\ lost' \in BOOLEAN
  <2>1. One(h # {}) \in {0, 1}
    BY DEF One
  <2>2. 3 + One(h # {}) \in Nat
    BY <2>1
  <2>. QED BY <1>2, <1>4, <2>2, SetRefsCounted DEF Kept
<1>6. /\ held' \in [Device -> [Filter -> SUBSET Holder]]
      /\ held'[d]["topology"] = h /\ held'[d]["wave"] = {}
      /\ \A e \in Device \ {d} : held'[e] = held[e]
  BY <1>2, <1>3 DEF Kept, TypeOK, NoHolders, Filter
<1>7. TypeOK'
  BY <1>1, <1>5, <1>6 DEF Kept, TypeOK, Goto, Starting
<1>8. \A e \in Device \ {d} : Fields(e)' = Fields(e)
  BY <1>1, <1>5, <1>6 DEF Goto, Fields, Kept, TypeOK
<1>9. Books(d)'
  <2>1. /\ pc'[d] = "wave" /\ adapter'[d] = 3 + One(h # {})
        /\ ~common'[d] /\ power'[d]
    BY <1>1, <1>3, <1>5 DEF Goto, Kept, TypeOK
  <2>2. adapter'[d] = 2 + Refs(d)'
    BY <1>6, <2>1 DEF Refs, TopologyRef, One
  <2>3. \A f \in Filter : held'[d][f] # {} => "port" \in held'[d][f]
    BY <1>2, <1>6 DEF Filter
  <2>. QED BY <1>1, <1>3, <1>6, <2>1, <2>2, <2>3 DEF Books, RefsExact,
       StartSound, EndSound, LifeSound, Installing, Starting, Irp
<1>. QED BY <1>1, <1>3, <1>5, <1>7, <1>8, <1>9, DeviceStep

(* The wave filter holds without a reference.                              *)
LEMMA WaveKept ==
  ASSUME Kept, NEW d \in Device, InstallWave(d)
  PROVE  Kept'
<1>1. /\ UNCHANGED <<driver, owned, staticVars, dev, adapter, common, power,
                     connected, streams>>
      /\ pc[d] = "wave"
  BY DEF InstallWave, driverVars
<1>2. PICK h \in SUBSET Holder, ok \in BOOLEAN :
        /\ IF h = {} THEN ~ok ELSE "port" \in h
        /\ held' = [held EXCEPT ![d]["wave"] = h]
        /\ Goto(d, "connect", ok)
  <2>1. PICK installed, cached \in BOOLEAN :
          /\ held' = [held EXCEPT ![d]["wave"] =
                        CacheSubdevice(InstallSubdevice(installed), cached)]
          /\ Goto(d, "connect", installed /\ cached)
    BY DEF InstallWave
  <2>. QED BY <2>1, Installed
<1>3. /\ dev[d] \in {"added", "stopped"} /\ ~common[d] /\ power[d]
      /\ ~connected[d] /\ adapter[d] = 2 + Refs(d) /\ ~(streams[d] > 0)
      /\ \A f \in Filter : held[d][f] # {} => "port" \in held[d][f]
  BY <1>1 DEF Kept, Books, StartSound, LifeSound, RefsExact, Installing,
              Starting
<1>4. /\ held' \in [Device -> [Filter -> SUBSET Holder]]
      /\ held'[d]["wave"] = h /\ held'[d]["topology"] = held[d]["topology"]
      /\ \A e \in Device \ {d} : held'[e] = held[e]
  BY <1>2 DEF Kept, TypeOK, Filter
<1>5. TypeOK'
  BY <1>1, <1>2, <1>4 DEF Kept, TypeOK, Goto, Starting, staticVars
<1>6. \A e \in Device \ {d} : Fields(e)' = Fields(e)
  BY <1>1, <1>2, <1>4 DEF Goto, Fields, Kept, TypeOK
<1>7. Books(d)'
  <2>1. pc'[d] = "connect" /\ (status'[d] => h # {})
    BY <1>2 DEF Goto, Kept, TypeOK
  <2>2. Refs(d)' = Refs(d)
    BY <1>1, <1>4 DEF Refs, TopologyRef
  <2>3. \A f \in Filter : held'[d][f] # {} => "port" \in held'[d][f]
    BY <1>2, <1>3, <1>4 DEF Filter
  <2>. QED BY <1>1, <1>3, <1>4, <2>1, <2>2, <2>3 DEF Books, RefsExact,
       StartSound, EndSound, LifeSound, Installing, Starting, Irp
<1>8. Counted'
  BY <1>1, <1>5, SameAlive DEF Kept
<1>. QED BY <1>1, <1>3, <1>5, <1>6, <1>7, <1>8, DeviceStep

(* What is left of the holders when the installation has ended.            *)
LEMMA SettledHolders ==
  ASSUME NEW h \in [Filter -> SUBSET Holder]
  PROVE  /\ Settled(h, TRUE) \in [Filter -> SUBSET Holder]
         /\ \A f \in Filter : /\ Settled(h, TRUE)[f] = h[f] \ {"install"}
                              /\ Settled(h, FALSE)[f] = {}
         /\ Settled(h, FALSE) = NoHolders
  BY DEF Settled, Without, RemoveCachedSubdevice, UnregisterSubdevice,
         NoHolders, Holder

(* The connection, and what a failure of any step takes back.              *)
LEMMA ConnectKept ==
  ASSUME Kept, NEW d \in Device, ConnectFilters(d)
  PROVE  Kept'
<1> DEFINE both == \A f \in Filter : held[d][f] # {}
<1>1. /\ UNCHANGED <<driver, owned, dev, common, power, streams>>
      /\ pc[d] = "connect"
  BY DEF ConnectFilters, driverVars
<1>2. PICK ok \in BOOLEAN :
        /\ ~both => ok = status[d]
        /\ connected' = [connected EXCEPT ![d] = both /\ ok]
        /\ Release(d, Settled(held[d], ok), 0)
        /\ Goto(d, "return", ok)
  <2>1. PICK ok \in IF both THEN BOOLEAN ELSE {status[d]} :
          /\ IF both THEN ConnectTopologies(d, ok) ELSE UNCHANGED connected
          /\ Release(d, Settled(held[d], ok), 0)
          /\ Goto(d, "return", ok)
    BY DEF ConnectFilters
  <2>2. ok \in BOOLEAN /\ (~both => ok = status[d])
    BY <2>1 DEF Kept, TypeOK
  <2>3. ~connected[d]
    BY <1>1 DEF Kept, Books, StartSound
  <2>4. connected = [connected EXCEPT ![d] = FALSE]
    BY <2>3 DEF Kept, TypeOK
  <2>5. connected' = [connected EXCEPT ![d] = both /\ ok]
    <3>1. CASE both /\ ok
      BY <2>1, <3>1 DEF ConnectTopologies
    <3>2. CASE both /\ ~ok
      BY <2>1, <3>2 DEF ConnectTopologies, DisconnectTopologies
    <3>3. CASE ~both
      BY <2>1, <2>4, <3>3
    <3>. QED BY <3>1, <3>2, <3>3
  <2>. QED BY <2>1, <2>2, <2>5
<1>3. /\ dev[d] \in {"added", "stopped"} /\ ~common[d] /\ power[d]
      /\ ~connected[d] /\ adapter[d] = 2 + Refs(d) /\ ~(streams[d] > 0)
      /\ \A f \in Filter : held[d][f] # {} => "port" \in held[d][f]
      /\ status[d] => held[d]["wave"] # {}
  BY <1>1 DEF Kept, Books, StartSound, LifeSound, RefsExact, Installing,
              Starting
<1> DEFINE h == Settled(held[d], ok)
<1>4. /\ h \in [Filter -> SUBSET Holder] /\ (~ok => h = NoHolders)
      /\ \A f \in Filter : IF ok THEN h[f] = held[d][f] \ {"install"}
                                 ELSE h[f] = {}
  <2>1. held[d] \in [Filter -> SUBSET Holder]
    BY DEF Kept, TypeOK
  <2>2. CASE ok = TRUE
    BY <2>1, <2>2, SettledHolders
  <2>3. CASE ok = FALSE
    BY <2>1, <2>3, SettledHolders DEF NoHolders
  <2>. QED BY <2>2, <2>3
<1>5. h["topology"] # {} <=> ok /\ held[d]["topology"] # {}
  BY <1>3, <1>4 DEF Filter
<1>. HIDE DEF h
<1>6. held' = [held EXCEPT ![d] = h] /\ held'[d] = h
  BY <1>2 DEF Release, Kept, TypeOK, h
<1> DEFINE n == 3 + One(h["topology"] # {})
<1>7. /\ Counted' /\ adapter' = [adapter EXCEPT ![d] = n]
      /\ adapter' \in [Device -> Nat]
      /\ instances' \in Nat /\ workItems' \in BOOLEAN /\ lost' \in BOOLEAN
  <2>1. adapter[d] = 3 + One(held[d]["topology"] # {})
    BY <1>3 DEF Refs, TopologyRef, One
  <2>2. /\ One(h["topology"] # {}) \in {0, 1}
        /\ One(held[d]["topology"] # {}) \in {0, 1}
    BY DEF One
  <2>3. adapter[d] - 0 - (TopologyRef(held[d]) - TopologyRef(h)) = n
    BY <2>1, <2>2 DEF TopologyRef
  <2>4. SetRefs(d, n)
    BY <1>2, <2>3 DEF Release, h
  <2>5. n \in Nat /\ adapter[d] > 0
    BY <2>1, <2>2
  <2>. HIDE DEF n
  <2>. QED BY <2>4, <2>5, SetRefsCounted DEF Kept
<1>8. TypeOK'
  BY <1>1, <1>2, <1>4, <1>6, <1>7 DEF Kept, TypeOK, Goto, Starting
<1>9. \A e \in Device \ {d} : Fields(e)' = Fields(e)
  BY <1>1, <1>2, <1>6, <1>7 DEF Goto, Fields, Kept, TypeOK
<1>10. Books(d)'
  <2>1. /\ pc'[d] = "return" /\ status'[d] = ok /\ connected'[d] = (both /\ ok)
        /\ adapter'[d] = n /\ ~common'[d] /\ power'[d] /\ dev'[d] = dev[d]
        /\ ~(streams'[d] > 0)
    BY <1>1, <1>2, <1>3, <1>7 DEF Goto, Kept, TypeOK
  <2>2. adapter'[d] = 2 + Refs(d)'
    BY <1>6, <2>1 DEF Refs, TopologyRef, One
  <2>3. ok => "port" \in h["wave"]
    BY <1>2, <1>3, <1>4 DEF Filter
  <2>4. ok => (both <=> "port" \in h["topology"])
    BY <1>2, <1>3, <1>4 DEF Filter
  <2>5. ~ok => NoFilters(d)'
    BY <1>4, <1>6, <2>1 DEF NoFilters
  <2>6. ok => Whole(d)'
    BY <1>6, <2>1, <2>3, <2>4 DEF Whole
  <2>7. \A f \in Filter : "install" \notin held'[d][f]
    BY <1>4, <1>6
  <2>. QED
    BY <1>3, <2>1, <2>2, <2>5, <2>6, <2>7 DEF Books, RefsExact, StartSound,
       EndSound, LifeSound, Installing, Starting, Irp
<1>. QED BY <1>1, <1>3, <1>7, <1>8, <1>9, <1>10, DeviceStep

(* StartDevice returns: its own reference becomes the extension's or goes. *)
LEMMA ReturnKept ==
  ASSUME Kept, NEW d \in Device, StartReturns(d)
  PROVE  Kept'
<1>1. /\ UNCHANGED <<driver, owned, status, power, held, connected, streams>>
      /\ pc[d] = "return"
      /\ pc' = [pc EXCEPT ![d] = "idle"]
      /\ dev' = [dev EXCEPT ![d] = IF status[d] THEN "started" ELSE "failed"]
  BY DEF StartReturns, driverVars, filterVars
<1>2. /\ dev[d] \in {"added", "stopped"} /\ ~common[d] /\ ~(streams[d] > 0)
      /\ IF status[d] THEN Whole(d) ELSE NoFilters(d)
      /\ \A f \in Filter : "install" \notin held[d][f]
      /\ \/ adapter[d] = 2 + Refs(d)
         \/ adapter[d] = 0 /\ Nothing(d) /\ ~status[d]
  BY <1>1 DEF Kept, Books, StartSound, EndSound, LifeSound, RefsExact,
              Starting
<1>3. /\ pc'[d] = "idle" /\ held'[d] = held[d] /\ connected'[d] = connected[d]
      /\ power'[d] = power[d] /\ streams'[d] = streams[d]
      /\ dev'[d] = IF status[d] THEN "started" ELSE "failed"
  BY <1>1 DEF Kept, TypeOK
<1>4. CASE adapter[d] > 0
  <2>1. adapter[d] = 2 + Refs(d) /\ Refs(d) \in Nat /\ Refs(d) + 1 \in Nat
    BY <1>2, <1>4, RefsNat DEF Kept
  <2>2. /\ common' = [common EXCEPT ![d] = TRUE]
        /\ SetRefs(d, Refs(d) + 1)
    BY <1>4, <2>1 DEF StartReturns, ReleasedAtReturn
  <2>3. /\ Counted' /\ adapter' = [adapter EXCEPT ![d] = Refs(d) + 1]
        /\ adapter' \in [Device -> Nat]
        /\ instances' \in Nat /\ workItems' \in BOOLEAN /\ lost' \in BOOLEAN
    BY <1>4, <2>1, <2>2, SetRefsCounted DEF Kept
  <2>4. TypeOK'
    BY <1>1, <2>2, <2>3 DEF Kept, TypeOK
  <2>5. \A e \in Device \ {d} : Fields(e)' = Fields(e)
    BY <1>1, <2>2, <2>3 DEF Fields, Kept, TypeOK
  <2>6. common'[d] /\ adapter'[d] = Refs(d) + 1
    BY <2>2, <2>3 DEF Kept, TypeOK
  <2>7. adapter'[d] = Refs(d)'
    BY <1>2, <1>3, <2>6 DEF Refs, TopologyRef, One
  <2>8. IF status[d] THEN Whole(d)' ELSE NoFilters(d)'
    BY <1>2, <1>3 DEF Whole, NoFilters
  <2>9. Books(d)'
    BY <1>2, <1>3, <2>6, <2>7, <2>8 DEF Books, RefsExact, StartSound,
       EndSound, LifeSound, Whole, Installing, Starting, Irp
  <2>. QED BY <1>1, <1>2, <2>3, <2>4, <2>5, <2>9, DeviceStep
<1>5. CASE ~(adapter[d] > 0)
  <2>1. adapter[d] = 0 /\ Nothing(d) /\ ~status[d] /\ Refs(d) = 0
    BY <1>2, <1>5, RefsNat DEF Kept, Nothing, NoHolders, Filter
  <2>2. UNCHANGED <<common, adapter, staticVars>>
    BY <1>5 DEF StartReturns
  <2>3. TypeOK'
    BY <1>1, <2>2 DEF Kept, TypeOK, staticVars
  <2>4. \A e \in Device \ {d} : Fields(e)' = Fields(e)
    BY <1>1, <2>2 DEF Fields, Kept, TypeOK
  <2>5. /\ ~common'[d] /\ adapter'[d] = Refs(d)'
        /\ \A f \in Filter : held'[d][f] = {}
    BY <1>1, <2>1, <2>2 DEF Refs, TopologyRef, Nothing, NoHolders
  <2>6. NoFilters(d)'
    BY <1>3, <2>1 DEF NoFilters, Nothing
  <2>7. Books(d)'
    BY <1>2, <1>3, <2>1, <2>5, <2>6 DEF Books, RefsExact, StartSound,
       EndSound, LifeSound, Installing, Starting, Irp
  <2>8. Counted'
    BY <2>2, <2>3, SameAlive DEF Kept
  <2>. QED BY <1>1, <1>2, <2>3, <2>4, <2>7, <2>8, DeviceStep
<1>. QED BY <1>4, <1>5

-----------------------------------------------------------------------------
(* PnpHandler, the port class driver, and the clients.                     *)

(* Holders that go take the topology's reference with them, if they were   *)
(* the last.                                                               *)
LEMMA WithoutHolders ==
  ASSUME NEW h \in [Filter -> SUBSET Holder], NEW who \in SUBSET Holder
  PROVE  /\ Without(h, who) \in [Filter -> SUBSET Holder]
         /\ \A f \in Filter : Without(h, who)[f] = h[f] \ who
         /\ h = NoHolders => Without(h, who) = NoHolders
         /\ TopologyRef(h) \in Nat /\ TopologyRef(Without(h, who)) \in Nat
  BY DEF Without, NoHolders, TopologyRef, One

(* The handler of stop, removal and surprise removal, with its Cleanup.    *)
LEMMA HandlerKept ==
  ASSUME Kept, NEW d \in Device, NEW irp \in Irp, PnpHandler(d, irp)
  PROVE  Kept'
<1> DEFINE h == IF common[d] THEN Without(held[d], {"cache"}) ELSE held[d]
           n == One(power[d]) + TopologyRef(h)
<1>1. /\ UNCHANGED <<driver, owned, dev, status, power, connected, streams>>
      /\ pc[d] = "idle" /\ pc' = [pc EXCEPT ![d] = irp]
      /\ common' = [common EXCEPT ![d] = FALSE]
      /\ dev[d] # "absent"
      /\ irp \in {"stop", "surprise"} => dev[d] = "started"
      /\ irp \in {"stop", "remove"} => streams[d] = 0
  BY DEF PnpHandler, MayCome, driverVars, Irp
<1>2. /\ adapter[d] = Refs(d)
      /\ dev[d] = "started" => Whole(d)
      /\ dev[d] = "failed" => NoFilters(d)
      /\ \A f \in Filter : "install" \notin held[d][f]
      /\ ~common[d] => \A f \in Filter : "cache" \notin held[d][f]
      /\ dev[d] \in {"added", "stopped"} => Nothing(d)
      /\ dev[d] \in {"started", "surprise"} => power[d]
      /\ streams[d] > 0 => dev[d] \in {"started", "surprise"}
  BY <1>1 DEF Kept, Books, EndSound, LifeSound, RefsExact, Installing
<1>3. /\ h \in [Filter -> SUBSET Holder]
      /\ \A f \in Filter : h[f] = held[d][f] \ {"cache"}
      /\ held[d] = NoHolders => h = NoHolders
      /\ n \in Nat
  <2>1. held[d] \in [Filter -> SUBSET Holder] /\ {"cache"} \in SUBSET Holder
    BY DEF Kept, TypeOK, Holder
  <2>2. /\ h \in [Filter -> SUBSET Holder]
        /\ \A f \in Filter : h[f] = held[d][f] \ {"cache"}
        /\ held[d] = NoHolders => h = NoHolders
    BY <1>2, <2>1, WithoutHolders
  <2>3. n \in Nat
    BY DEF One, TopologyRef
  <2>. QED BY <2>2, <2>3
<1>4. /\ Counted' /\ adapter' = [adapter EXCEPT ![d] = n]
      /\ adapter' \in [Device -> Nat]
      /\ instances' \in Nat /\ workItems' \in BOOLEAN /\ lost' \in BOOLEAN
      /\ held' = [held EXCEPT ![d] = h]
  <2>1. CASE common[d]
    <3>1. adapter[d] = 1 + One(power[d]) + TopologyRef(held[d])
      BY <1>2, <2>1 DEF Refs, One
    <3>2. /\ One(power[d]) \in Nat /\ TopologyRef(held[d]) \in Nat
          /\ TopologyRef(h) \in Nat
      BY DEF One, TopologyRef
    <3>3. Release(d, h, 1)
      BY <2>1 DEF PnpHandler, EmptySubdeviceCache
    <3>4. adapter[d] - 1 - (TopologyRef(held[d]) - TopologyRef(h)) = n
      BY <3>1, <3>2
    <3>5. SetRefs(d, n) /\ held' = [held EXCEPT ![d] = h]
      BY <3>3, <3>4 DEF Release
    <3>6. adapter[d] > 0
      BY <3>1, <3>2
    <3>. HIDE DEF n
    <3>. QED BY <1>3, <3>5, <3>6, SetRefsCounted DEF Kept
  <2>2. CASE ~common[d]
    <3>1. UNCHANGED <<held, adapter, staticVars>>
      BY <2>2 DEF PnpHandler
    <3>2. n = adapter[d]
      BY <1>2, <2>2 DEF Refs, One, TopologyRef
    <3>3. held' = [held EXCEPT ![d] = h] /\ adapter' = [adapter EXCEPT ![d] = n]
      BY <2>2, <3>1, <3>2 DEF Kept, TypeOK
    <3>4. Counted'
      <4>1. Alive' = Alive
        BY <3>1 DEF Alive
      <4>. QED BY <3>1, <4>1 DEF Kept, Counted, staticVars
    <3>. QED BY <3>1, <3>3, <3>4 DEF Kept, TypeOK, staticVars
  <2>. QED BY <2>1, <2>2
<1>. HIDE DEF h
<1>5. TypeOK'
  BY <1>1, <1>3, <1>4 DEF Kept, TypeOK
<1>6. \A e \in Device \ {d} : Fields(e)' = Fields(e)
  BY <1>1, <1>4 DEF Fields, Kept, TypeOK
<1>7. /\ pc'[d] = irp /\ ~common'[d] /\ held'[d] = h /\ adapter'[d] = n
      /\ dev'[d] = dev[d] /\ power'[d] = power[d]
      /\ connected'[d] = connected[d] /\ streams'[d] = streams[d]
  BY <1>1, <1>4 DEF Kept, TypeOK
<1>8. Books(d)'
  <2>1. adapter'[d] = Refs(d)'
    BY <1>3, <1>7 DEF Refs, One, TopologyRef
  <2>2. dev[d] = "failed" => NoFilters(d)'
    BY <1>2, <1>3, <1>7 DEF NoFilters
  <2>3. dev[d] \in {"added", "stopped"} => Nothing(d)'
    BY <1>2, <1>3, <1>7 DEF Nothing
  <2>4. /\ \A f \in Filter : "install" \notin held'[d][f]
        /\ \A f \in Filter : "cache" \notin held'[d][f]
    BY <1>2, <1>3, <1>7
  <2>5. streams'[d] > 0 => dev[d] = "started" /\ irp = "surprise"
    BY <1>1, <1>2, <1>7 DEF Irp
  <2>. QED
    BY <1>1, <1>2, <1>7, <2>1, <2>2, <2>3, <2>4, <2>5 DEF Books, RefsExact,
       StartSound, EndSound, LifeSound, Installing, Starting, Irp
<1>. QED BY <1>1, <1>4, <1>5, <1>6, <1>8, DeviceStep

(* The port class driver's part of them.                                   *)
LEMMA DispatchKept ==
  ASSUME Kept, NEW d \in Device, PcDispatchIrp(d)
  PROVE  Kept'
<1>1. /\ UNCHANGED <<driver, owned, status, common, streams>>
      /\ pc[d] \in Irp /\ pc' = [pc EXCEPT ![d] = "idle"]
      /\ dev' = [dev EXCEPT ![d] = CASE pc[d] = "stop"     -> "stopped"
                                     [] pc[d] = "surprise" -> "surprise"
                                     [] pc[d] = "remove"   -> "absent"]
  BY DEF PcDispatchIrp, driverVars
<1>2. /\ adapter[d] = Refs(d) /\ ~common[d]
      /\ dev[d] # "absent"
      /\ pc[d] \in {"stop", "surprise"} => dev[d] = "started"
      /\ \A f \in Filter : "install" \notin held[d][f]
      /\ \A f \in Filter : "cache" \notin held[d][f]
      /\ dev[d] \in {"started", "surprise"} => power[d]
      /\ streams[d] > 0 => pc[d] = "surprise"
  BY <1>1 DEF Kept, Books, EndSound, LifeSound, RefsExact, Installing, Irp
<1>3. held[d] \in [Filter -> SUBSET Holder]
  BY DEF Kept, TypeOK
<1>4. /\ pc'[d] = "idle" /\ ~common'[d] /\ streams'[d] = streams[d]
      /\ pc[d] = "stop" => dev'[d] = "stopped"
      /\ pc[d] = "surprise" => dev'[d] = "surprise"
      /\ pc[d] = "remove" => dev'[d] = "absent"
  BY <1>1, <1>2 DEF Kept, TypeOK
<1>5. dev' \in [Device -> {"absent", "added", "started", "failed", "stopped",
                           "surprise"}]
  BY <1>1 DEF Kept, TypeOK, Irp
<1>6. CASE pc[d] = "surprise"
  <2>1. UNCHANGED <<held, connected, power, adapter, staticVars>>
    BY <1>6 DEF PcDispatchIrp
  <2>2. TypeOK'
    BY <1>1, <1>5, <2>1 DEF Kept, TypeOK, staticVars
  <2>3. \A e \in Device \ {d} : Fields(e)' = Fields(e)
    BY <1>1, <2>1 DEF Fields, Kept, TypeOK
  <2>4. adapter'[d] = Refs(d)'
    BY <1>1, <1>2, <2>1 DEF Refs, TopologyRef
  <2>5. Books(d)'
    BY <1>2, <1>4, <1>6, <2>1, <2>4 DEF Books, RefsExact, StartSound,
       EndSound, LifeSound, Installing, Starting, Irp
  <2>6. Counted'
    BY <2>1, <2>2, SameAlive DEF Kept
  <2>. QED BY <1>1, <1>2, <2>2, <2>3, <2>5, <2>6, DeviceStep
<1>7. CASE pc[d] # "surprise"
  <2> DEFINE h == Without(held[d], {"port"})
  <2>1. /\ Release(d, h, One(power[d]))
        /\ connected' = [connected EXCEPT ![d] = FALSE]
        /\ power' = [power EXCEPT ![d] = FALSE]
    BY <1>7 DEF PcDispatchIrp
  <2>2. h = NoHolders
    <3>1. \A f \in Filter : held[d][f] \ {"port"} = {}
      BY <1>2, <1>3 DEF Holder
    <3>. QED BY <3>1 DEF Without, NoHolders
  <2>. HIDE DEF h
  <2>3. SetRefs(d, 0) /\ held' = [held EXCEPT ![d] = NoHolders]
    <3>1. TopologyRef(h) = 0
      BY <2>2 DEF TopologyRef, One, NoHolders, Filter
    <3>2. /\ adapter[d] = One(power[d]) + TopologyRef(held[d])
          /\ One(power[d]) \in Nat /\ TopologyRef(held[d]) \in Nat
      BY <1>2 DEF Refs, TopologyRef, One
    <3>3. adapter[d] - One(power[d]) - (TopologyRef(held[d]) - TopologyRef(h))
            = 0
      BY <3>1, <3>2
    <3>. QED BY <2>1, <2>2, <3>3 DEF Release
  <2>4. /\ Counted' /\ adapter' = [adapter EXCEPT ![d] = 0]
        /\ adapter' \in [Device -> Nat]
        /\ instances' \in Nat /\ workItems' \in BOOLEAN /\ lost' \in BOOLEAN
    BY <2>3, SetRefsCounted DEF Kept
  <2>5. NoHolders \in [Filter -> SUBSET Holder]
    BY DEF NoHolders
  <2>6. TypeOK'
    BY <1>1, <1>5, <2>1, <2>3, <2>4, <2>5 DEF Kept, TypeOK
  <2>7. \A e \in Device \ {d} : Fields(e)' = Fields(e)
    BY <1>1, <2>1, <2>3, <2>4 DEF Fields, Kept, TypeOK
  <2>8. /\ Nothing(d)' /\ adapter'[d] = 0
        /\ \A f \in Filter : held'[d][f] = {}
    BY <1>4, <2>1, <2>3, <2>4 DEF Nothing, NoHolders, Kept, TypeOK
  <2>9. Refs(d)' = 0
    BY <2>8 DEF Nothing, Refs, TopologyRef, One, NoHolders, Filter
  <2>10. dev'[d] \in {"stopped", "absent"} /\ ~(streams'[d] > 0)
    BY <1>1, <1>2, <1>4, <1>7 DEF Irp
  <2>11. Books(d)'
    BY <1>4, <2>8, <2>9, <2>10 DEF Books, RefsExact, StartSound,
       EndSound, LifeSound, Nothing, NoFilters, Installing, Starting, Irp
  <2>. QED BY <1>1, <1>2, <2>4, <2>6, <2>7, <2>11, DeviceStep
<1>. QED BY <1>6, <1>7

(* A stream opens and closes, and changes nothing else.                    *)
LEMMA StreamKept ==
  ASSUME Kept, NEW d \in Device, OpenStream(d) \/ CloseStream(d)
  PROVE  Kept'
<1>1. /\ UNCHANGED <<driver, owned, staticVars, dev, pc, status, adapter,
                     common, power, held, connected>>
      /\ (dev[d] = "started" /\ pc[d] = "idle") \/ streams[d] > 0
  BY DEF OpenStream, CloseStream, driverVars, filterVars
<1>2. /\ dev[d] \in {"started", "surprise"}
      /\ pc[d] \in {"idle", "surprise"}
  BY <1>1 DEF Kept, Books, LifeSound
<1>3. /\ streams' \in [Device -> Nat]
      /\ \A e \in Device \ {d} : streams'[e] = streams[e]
  <2>1. streams[d] \in Nat
    BY DEF Kept, TypeOK
  <2>2. PICK n \in Nat : streams' = [streams EXCEPT ![d] = n]
    <3>1. CASE OpenStream(d)
      <4>1. streams[d] + 1 \in Nat
        BY <2>1
      <4>2. streams' = [streams EXCEPT ![d] = streams[d] + 1]
        BY <3>1 DEF OpenStream
      <4>. QED BY <4>1, <4>2
    <3>2. CASE CloseStream(d)
      <4>1. streams[d] - 1 \in Nat
        BY <2>1, <3>2 DEF CloseStream
      <4>. QED BY <3>2, <4>1 DEF CloseStream
    <3>. QED BY <3>1, <3>2
  <2>. QED BY <2>2 DEF Kept, TypeOK
<1>4. TypeOK'
  BY <1>1, <1>3 DEF Kept, TypeOK, staticVars
<1>5. \A e \in Device \ {d} : Fields(e)' = Fields(e)
  BY <1>1, <1>3 DEF Fields
<1>6. Books(d)'
  BY <1>1, <1>2 DEF Kept, Books, RefsExact, StartSound, EndSound, LifeSound,
     Refs, TopologyRef, Nothing, Whole, NoFilters
<1>7. Counted'
  BY <1>1, <1>4, SameAlive DEF Kept
<1>. QED BY <1>1, <1>2, <1>4, <1>5, <1>6, <1>7, DeviceStep

(* Every step keeps the invariant.                                         *)
LEMMA NextKept == ASSUME Kept, [Next]_vars PROVE Kept'
<1>1. CASE \/ DriverEntryStep \/ DriverEntrySucceeds \/ DriverEntryFails
           \/ DriverUnload
  BY <1>1, DriverKept
<1>2. ASSUME NEW d \in Device,
             \/ AddDevice(d) \/ StartDevice(d)
             \/ NewAdapterCommon(d) \/ AdapterInit(d) \/ RegisterPower(d)
             \/ InstallAllCaptureFilters(d) \/ StartReturns(d)
             \/ \E irp \in Irp : PnpHandler(d, irp)
             \/ PcDispatchIrp(d)
             \/ OpenStream(d) \/ CloseStream(d)
      PROVE  Kept'
  BY <1>2, BeginKept, NewKept, AdapterInitKept, PowerKept, TopologyKept,
     WaveKept, ConnectKept, ReturnKept, HandlerKept, DispatchKept, StreamKept
     DEF InstallAllCaptureFilters
<1>3. CASE UNCHANGED vars
  <2>1. /\ UNCHANGED <<driverVars, staticVars, dev>>
        /\ \A d \in Device : Fields(d)' = Fields(d)
    BY <1>3 DEF vars, Fields, filterVars
  <2>2. TypeOK'
    BY <1>3 DEF vars, Kept, TypeOK, driverVars, staticVars, filterVars
  <2>3. Counted' /\ DriverSound'
    <3>1. Alive' = Alive
      BY <1>3 DEF vars, Alive
    <3>. QED BY <2>1, <3>1 DEF Kept, Counted, DriverSound, driverVars,
                               staticVars
  <2>. QED BY <2>1, <2>2, <2>3, OthersKeep DEF Kept
<1>. QED BY <1>1, <1>2, <1>3 DEF Next

(* The invariant holds in every reachable state.                           *)
LEMMA AlwaysKept == Spec => []Kept
<1>1. Init => Kept
  BY InitKept
<1>2. Kept /\ [Next]_vars => Kept'
  BY NextKept
<1>. QED BY <1>1, <1>2, PTL DEF Spec

-----------------------------------------------------------------------------
(* The theorems.                                                           *)

(* Every variable keeps its type; no reference count goes below zero.      *)
THEOREM TypeCorrect == Spec => []TypeOK
<1>1. Kept => TypeOK
  BY DEF Kept
<1>. QED BY <1>1, AlwaysKept, PTL

(* The device extension, the port class driver, the topology miniport and, *)
(* without a reference, a stream find the adapter alive, there is one at   *)
(* most, and m_AdapterInstances says so (common.cpp:345 to 454).           *)
THEOREM AdapterIsKept == Spec => []AdapterKept
<1>1. ASSUME Kept
      PROVE  AdapterKept
  <2>1. HeldAdapterLives
    <3>. SUFFICES ASSUME NEW d \in Device,
                         \/ common[d] \/ power[d]
                         \/ held[d]["topology"] # {} \/ streams[d] > 0
                  PROVE  adapter[d] > 0
      BY DEF HeldAdapterLives
    <3>1. Refs(d) > 0
      <4>1. streams[d] > 0 => power[d]
        BY <1>1 DEF Kept, Books, LifeSound
      <4>. QED BY <1>1, <4>1, RefsNat DEF Kept
    <3>2. \/ adapter[d] = 2 + Refs(d) \/ adapter[d] = Refs(d)
          \/ adapter[d] = 0 /\ Nothing(d)
      BY <1>1 DEF Kept, Books, RefsExact
    <3>3. Nothing(d) => Refs(d) = 0
      BY <1>1, RefsNat DEF Kept, Nothing, NoHolders, Filter
    <3>4. Refs(d) \in Nat
      BY <1>1, RefsNat DEF Kept
    <3>. QED BY <3>1, <3>2, <3>3, <3>4
  <2>2. AdaptersCounted
    <3>1. CASE Alive = {} /\ ~workItems /\ instances = IF lost THEN 1 ELSE 0
      BY <3>1, FS_EmptySet DEF AdaptersCounted, Alive
    <3>2. CASE (\E d \in Device : Alive = {d}) /\ instances = 1 /\ ~lost
      <4>1. PICK d \in Device : Alive = {d}
        BY <3>2
      <4>2. Cardinality(Alive) = 1 /\ Alive # {}
        BY <4>1, FS_Singleton
      <4>. QED BY <3>2, <4>2 DEF AdaptersCounted, Alive
    <3>. QED BY <1>1, <3>1, <3>2 DEF Kept, Counted
  <2>. QED BY <2>1, <2>2 DEF AdapterKept
<1>. QED BY <1>1, AlwaysKept, PTL

(* A device that started has its filters, connected; one that could not    *)
(* start has left none, whichever call failed (adapter.cpp, StartDevice;   *)
(* common.cpp, InstallEndpointFilters).                                    *)
THEOREM EndpointIsWhole == Spec => []EndpointIsAllOrNothing
<1>1. Kept => EndpointIsAllOrNothing
  BY DEF Kept, Books, EndSound, Whole, NoFilters, EndpointIsAllOrNothing
<1>. QED BY <1>1, AlwaysKept, PTL

(* A device that is gone and a driver that is unloaded have left nothing:  *)
(* cache and adapter do not keep each other alive.                         *)
THEOREM NothingIsLeft == Spec => []GoneLeavesNothing
<1>1. ASSUME Kept
      PROVE  GoneLeavesNothing
  <2>1. ASSUME NEW d \in Device, dev[d] = "absent"
        PROVE  adapter[d] = 0 /\ Nothing(d)
    <3>1. Nothing(d) /\ adapter[d] = Refs(d)
      BY <1>1, <2>1 DEF Kept, Books, LifeSound, RefsExact, Installing
    <3>. QED BY <1>1, <3>1, RefsNat DEF Kept, Nothing, NoHolders, Filter
  <2>2. driver = "unloaded" => owned = {} /\ ~workItems
    <3>1. driver = "unloaded" => Alive = {}
      BY <1>1, <2>1 DEF Kept, DriverSound, Alive
    <3>2. Alive = {} => ~workItems
      BY <1>1 DEF Kept, Counted
    <3>. QED BY <1>1, <3>1, <3>2 DEF Kept, DriverSound
  <2>. QED BY <2>1, <2>2 DEF GoneLeavesNothing, Nothing
<1>. QED BY <1>1, AlwaysKept, PTL

=============================================================================
