-------------------------- MODULE BroadcastProofs --------------------------
(***************************************************************************)
(* Proofs about what is broadcast and who produces it, for any values of   *)
(* the constants: that Broadcast lets go of earlier sources, shows in each *)
(* slot only what is selected there, and keeps its types; and that a       *)
(* Producer publishes samples in order and pictures whole, and lets go of  *)
(* its source reader.                                                      *)
(***************************************************************************)
EXTENDS Broadcast, Producer, TLAPS

(* What is shared with nobody is not kept, unless a discovery is due at    *)
(* once: connections are only made, and are all pruned, in CompositeFrames.*)
Kept ==
  /\ forced \in BOOLEAN
  /\ DOMAIN conn = Pids
  /\ ~forced => \A p \in Pids : Linked(p) => \E s \in Slots : priority[s] = p

(* The invariant holds at first: a discovery is due.                       *)
LEMMA InitKept == ASSUME Init PROVE Kept
  BY DEF Init, Kept

(* Only the list that was composed stays connected.                        *)
LEMMA PrunedToList ==
  ASSUME NEW active, NEW p \in Pids, p \notin active
  PROVE  Pruned(active)[p].texture = 0
  BY DEF Pruned, NoLink

(* A composition leaves connections only to the list it was given.         *)
LEMMA CompositeLinks ==
  ASSUME NEW list, NEW draw, NEW fresh, Composite(list, draw, fresh)
  PROVE  /\ DOMAIN conn' = Pids
         /\ \A p \in Pids : Linked(p)' => \E s \in Slots : list[s] = p
<1> DEFINE active == {list[s] : s \in Slots} \ {NoPid}
           links == Pruned(active)
           hidden == IF fresh = {} THEN {} ELSE Reporting(links) \ fresh
           copied == {p \in active : links[p].newer /\ p \notin hidden}
           after == [p \in Pids |->
                       IF p \in copied
                       THEN [links[p] EXCEPT !.newer = FALSE,
                                             !.picture = links[p].texture]
                       ELSE links[p]]
<1>1. conn' = after
  BY DEF Composite
<1>2. ASSUME NEW p \in Pids, p \notin active
      PROVE  conn'[p].texture = 0
  <2>1. p \notin copied
    BY <1>2
  <2>2. conn'[p] = links[p]
    BY <1>1, <2>1
  <2>. QED BY <1>2, <2>2, PrunedToList
<1>. QED BY <1>1, <1>2 DEF Linked

(* RenderBrokerFrame composes what it then keeps as the list.              *)
LEMMA RenderKept ==
  ASSUME NEW pids, NEW due, NEW refresh, NEW fresh,
         RenderBrokerFrame(pids, due, refresh, fresh)
  PROVE  Kept'
<1> DEFINE streams == IF DiscoveryDue(due) THEN Discovered ELSE cached
           list == [s \in Slots |-> IF Trusted(streams, pids[s]) THEN pids[s]
                                    ELSE NoPid]
<1>1. /\ Composite(list, forced \/ (list = NoList /\ refresh), fresh)
      /\ priority' = pids /\ forced' = FALSE
  BY DEF RenderBrokerFrame
<1>2. /\ DOMAIN conn' = Pids
      /\ \A p \in Pids : Linked(p)' => \E s \in Slots : list[s] = p
  BY <1>1, CompositeLinks
<1>3. \A s \in Slots : list[s] \in Pids => list[s] = pids[s]
  BY BroadcastConstants
<1>. HIDE DEF list
<1>. QED BY <1>1, <1>2, <1>3 DEF Kept, Linked

(* A step that leaves the broker's connections and list alone.             *)
LEMMA OtherKept ==
  ASSUME Kept, DOMAIN conn' = Pids,
         \A p \in Pids : conn'[p].texture = conn[p].texture,
         \/ UNCHANGED <<forced, priority>>
         \/ forced' = TRUE
  PROVE  Kept'
  BY DEF Kept, Linked

(* The producers' steps touch at most what a connection knows of a new     *)
(* picture.                                                                *)
LEMMA ProducersKept ==
  ASSUME Kept, NEW p \in Pids,
         Sharing(p) \/ EndProcess(p) \/ ForeignProducer(p)
  PROVE  Kept'
<1>1. CASE FallThrough(p) \/ ShareTexture(p) \/ ShareStatus(p)
             \/ EndProcess(p) \/ ForeignProducer(p)
  <2>1. UNCHANGED <<forced, priority, conn>>
    BY <1>1 DEF FallThrough, ShareTexture, ShareStatus, EndProcess,
                ForeignProducer, brokerVars
  <2>. QED BY <2>1, OtherKept DEF Kept
<1>2. CASE ShareManifest(p) \/ Publish(p)
  <2>1. UNCHANGED <<forced, priority>>
    BY <1>2 DEF ShareManifest, Publish
  <2>2. \E b \in BOOLEAN : conn' = [conn EXCEPT ![p].newer = b]
    BY <1>2 DEF ShareManifest, Publish
  <2>3. DOMAIN conn' = Pids /\ \A q \in Pids : conn'[q].texture = conn[q].texture
    BY <2>2 DEF Kept
  <2>. QED BY <2>1, <2>3, OtherKept
<1>. QED BY <1>1, <1>2 DEF Sharing

(* The application's steps render, force a discovery, or leave the broker  *)
(* alone.                                                                  *)
LEMMA ApplicationKept ==
  ASSUME Kept,
         \/ \E s \in Slots, want \in Wanted : SetSource(s, want)
         \/ Choosing
         \/ \E due, refresh \in BOOLEAN, fresh \in SUBSET Pids :
              OnIdle(due, refresh, fresh)
         \/ Shutdown
  PROVE  Kept'
<1>1. CASE \E s \in Slots, want \in Wanted : SetSource(s, want)
  <2>1. UNCHANGED <<forced, priority, conn>>
    BY <1>1 DEF SetSource, brokerVars
  <2>. QED BY <2>1, OtherKept DEF Kept
<1>2. CASE LaunchFails \/ NoLaunch
  <2>1. UNCHANGED <<forced, priority, conn>>
    BY <1>2 DEF LaunchFails, NoLaunch, brokerVars
  <2>. QED BY <2>1, OtherKept DEF Kept
<1>3. CASE InformBroker \/ \E p \in Pids : LaunchProducer(p)
  <2>1. forced' = TRUE /\ UNCHANGED conn
    BY <1>3 DEF InformBroker, LaunchProducer
  <2>. QED BY <2>1, OtherKept DEF Kept
<1>4. CASE ClearPicture
  BY <1>4, RenderKept DEF ClearPicture
<1>5. CASE \E due, refresh \in BOOLEAN, fresh \in SUBSET Pids :
             OnIdle(due, refresh, fresh)
  BY <1>5, RenderKept DEF OnIdle
<1>6. CASE Shutdown
  BY <1>6 DEF Shutdown, Kept
<1>. QED BY <1>1, <1>2, <1>3, <1>4, <1>5, <1>6 DEF Choosing

(* Every step preserves the invariant.                                     *)
LEMMA NextKept == ASSUME Kept, [Next]_vars PROVE Kept'
<1>1. CASE Next
  BY <1>1, ProducersKept, ApplicationKept DEF Next
<1>2. CASE UNCHANGED vars
  BY <1>2, OtherKept DEF vars, brokerVars, Kept
<1>. QED BY <1>1, <1>2

(* Connections are only to producers on the list, so that the names of     *)
(* earlier sources are let go (PruneConnections, Multiplexer.cpp).         *)
THEOREM EarlierAreLetGo == Spec => []EarlierSourcesAreLetGo
<1>1. Init => Kept
  BY InitKept
<1>2. Kept /\ [Next]_vars => Kept'
  BY NextKept
<1>3. Kept => EarlierSourcesAreLetGo
  BY DEF Kept, EarlierSourcesAreLetGo
<1>. QED BY <1>1, <1>2, <1>3, PTL DEF Spec
-----------------------------------------------------------------------------
(* What the picture shows.                                                 *)

Choice ==
  [mode : Modes \cup {"Off"}, target : Targets \cup {0},
   pid : Pids \cup {NoPid}]
Lists == [Slots -> Pids \cup {NoPid}]

(* A process has the nonce of its launch or none, its manifest has the     *)
(* same, and a manifest is there as long as somebody maps it.  The private *)
(* texture holds a picture of the texture that is open.                    *)
Processes ==
  /\ proc \in [Pids -> Process] /\ section \in [Pids -> Section]
  /\ conn \in [Pids -> Link]
  /\ \A p \in Pids :
       /\ Alive(p) => proc[p].launch # 0
       /\ proc[p].nonce \in {0, proc[p].launch}
       /\ (section[p].launch # 0) = (Sharer(p) \/ Linked(p))
       /\ Sharer(p) => section[p].nonce = proc[p].nonce
       /\ conn[p].picture \in {0, conn[p].texture}

(* A process that has not shared anything yet is the one of a slot.        *)
Owned ==
  /\ \A p \in Pids :
       proc[p].phase = "starting" => \E s \in Slots : handle[s] = p
  /\ pc \in {"clear", "launch"} => handle[job.slot] = NoPid

(* The types of the other variables.                                       *)
Choices ==
  /\ sel \in [Slots -> Choice] /\ job \in [slot : Slots, want : Choice]
  /\ handle \in Lists /\ priority \in Lists /\ layout \in Lists
Counters ==
  /\ pc \in {"idle", "clear", "launch", "inform", "closing", "gone"}
  /\ inactive \in BOOLEAN /\ forced \in BOOLEAN
  /\ launches \in 0 .. MaxLaunches
  /\ expected \in [Pids -> {0} \cup Launch]
  /\ cached \subseteq [pid : Pids, nonce : {0} \cup Launch]
  /\ state \in {"connected", "searching", "failed"}
  /\ out \in [Slots -> {Default, 0} \cup Launch]

(* The picture is of the list that was composed last ...                   *)
LayoutShown ==
  \A s \in Slots :
    /\ layout[s] = NoPid => out[s] = Default
    /\ pc # "gone" /\ out[s] \in Launch =>
         layout[s] # NoPid /\ conn[layout[s]].texture = out[s]

(* ... and that is the list of what is selected.                           *)
ListSelected ==
  /\ ~forced => \A s \in Slots : layout[s] \in {NoPid, priority[s]}
  /\ pc \in {"idle", "closing"} => \A s \in Slots : priority[s] = sel[s].pid

(* A producer launched for the main slot cannot lose its id to another,    *)
(* and is connected to as itself.                                          *)
MainIsOwn ==
  /\ job.want.mode # "Discovered" => job.want.pid = NoPid
  /\ pc # "gone" => \A s \in Slots :
       sel[s].mode # "Discovered" => sel[s].pid \in {NoPid, handle[s]}
  /\ pc # "gone" /\ sel[Main].mode # "Discovered" /\ sel[Main].pid # NoPid =>
       conn[sel[Main].pid].texture \in {0, expected[sel[Main].pid]}

(* While the main source is changed, nothing is connected and nothing      *)
(* shown in its place.                                                     *)
MainCleared ==
  pc \in {"launch", "inform"} /\ job.slot = Main =>
    /\ out[Main] = Default
    /\ pc = "launch" => \A p \in Pids : ~Linked(p)

Showing ==
  /\ Processes /\ Owned /\ Choices /\ Counters
  /\ LayoutShown /\ ListSelected /\ MainIsOwn /\ MainCleared

(* What the launches are.                                                  *)
LEMMA LaunchIsNat ==
  /\ Launch \subseteq Nat \ {0} /\ Default \notin Launch
  /\ MaxLaunches \in Nat /\ NoPid \notin Pids
  /\ Main \in Slots
  BY BroadcastConstants DEF Launch, Default, Slots

(* Nothing is selected at first.                                           *)
LEMMA InitShowing == ASSUME Init PROVE Showing
<1>1. Processes
  <2>1. \A p \in Pids : NoProcess \in Process /\ NoSection \in Section
                        /\ NoLink \in Link
    BY DEF NoProcess, NoSection, NoLink, Process, Section, Link, Phase
  <2>2. /\ proc \in [Pids -> Process] /\ section \in [Pids -> Section]
        /\ conn \in [Pids -> Link]
    BY <2>1 DEF Init
  <2>3. ASSUME NEW p \in Pids
        PROVE  (section[p].launch # 0) = (Sharer(p) \/ Linked(p))
    <3>1. section[p].launch = 0 /\ ~Sharer(p) /\ ~Linked(p)
      BY DEF Init, Sharer, Linked, NoProcess, NoSection, NoLink
    <3>. QED BY <3>1
  <2>4. ASSUME NEW p \in Pids
        PROVE  /\ ~Alive(p) /\ ~Sharer(p) /\ proc[p].nonce = 0
               /\ conn[p].picture = 0
    BY DEF Init, Alive, Sharer, NoProcess, NoLink
  <2>. QED BY <2>2, <2>3, <2>4 DEF Processes
<1>2. Choices
  <2>1. NoList \in Lists /\ NoSource \in Choice
    BY DEF NoList, Lists, NoSource, Choice
  <2>. QED BY <2>1, LaunchIsNat DEF Init, Choices
<1>3. Counters
  <2>1. /\ launches = 0 /\ 0 \in 0 .. MaxLaunches
        /\ expected = [p \in Pids |-> 0] /\ cached = {}
        /\ out = [s \in Slots |-> Default]
    BY LaunchIsNat DEF Init
  <2>2. /\ pc \in {"idle", "clear", "launch", "inform", "closing", "gone"}
        /\ state \in {"connected", "searching", "failed"}
    BY DEF Init
  <2>3. inactive \in BOOLEAN /\ forced \in BOOLEAN
    BY Zenon DEF Init
  <2>. QED BY <2>1, <2>2, <2>3 DEF Counters
<1>4. LayoutShown /\ ListSelected /\ MainIsOwn /\ MainCleared
  BY LaunchIsNat
  DEF Init, LayoutShown, ListSelected, MainIsOwn, MainCleared, NoList, NoSource
<1>5. Owned
  BY DEF Init, Owned, NoProcess
<1>. QED BY <1>1, <1>2, <1>3, <1>4, <1>5 DEF Showing

(* A connection stays, is let go, or is made to the process that was       *)
(* launched under the id.                                                  *)
LEMMA ConnectionIsExpected ==
  ASSUME Showing, NEW p \in Pids, expected[p] # 0
  PROVE  /\ Connection(p) \in Link
         /\ Connection(p).texture \in {0, conn[p].texture, expected[p]}
         /\ Linked(p) => Connection(p) = conn[p]
         /\ Connection(p).picture \in {0, Connection(p).texture}
         /\ Connection(p).texture # 0 => Sharer(p) \/ Linked(p)
<1>1. /\ conn[p] \in Link /\ proc[p] \in Process /\ section[p] \in Section
      /\ expected[p] \in {0} \cup Launch
  BY DEF Showing, Processes, Counters
<1>2. CASE Linked(p)
  BY <1>1, <1>2 DEF Connection, Showing, Processes
<1>3. CASE /\ ~Linked(p)
           /\ proc[p].phase \in {"shared", "ready"}
           /\ section[p].nonce = expected[p]
  <2>1. Connection(p) =
          [texture |-> proc[p].launch, status |-> proc[p].phase = "ready",
           newer |-> section[p].published, picture |-> 0]
    BY <1>3 DEF Connection
  <2>2. Sharer(p) /\ proc[p].launch = expected[p]
    BY <1>3 DEF Sharer, Showing, Processes
  <2>3. proc[p].launch \in {0} \cup Launch /\ section[p].published \in BOOLEAN
    BY <1>1 DEF Process, Section
  <2>4. Connection(p) \in Link
    BY <2>1, <2>3 DEF Link
  <2>. QED BY <1>3, <2>1, <2>2, <2>4
<1>4. CASE /\ ~Linked(p)
           /\ ~(/\ proc[p].phase \in {"shared", "ready"}
                /\ section[p].nonce = expected[p])
  <2>1. Connection(p) = NoLink
    BY <1>4 DEF Connection
  <2>. QED BY <1>4, <2>1 DEF NoLink, Link
<1>. QED BY <1>2, <1>3, <1>4

(* A composition of producers that are expected.                           *)
LEMMA CompositeShows ==
  ASSUME Showing, NEW list \in Lists, NEW draw \in BOOLEAN, NEW fresh,
         \A s \in Slots : list[s] # NoPid => expected[list[s]] # 0,
         Composite(list, draw, fresh), UNCHANGED proc, pc # "gone"
  PROVE  /\ conn' \in [Pids -> Link]
         /\ \A p \in Pids :
              /\ conn'[p].texture \in {0, conn[p].texture, expected[p]}
              /\ conn'[p].picture \in {0, conn'[p].texture}
         /\ section' \in [Pids -> Section]
         /\ \A p \in Pids :
              /\ Sharer(p) => section'[p] = section[p]
              /\ (section'[p].launch # 0) = (Sharer(p)' \/ Linked(p)')
         /\ layout' = list
         /\ out' \in [Slots -> {Default, 0} \cup Launch]
         /\ \A s \in Slots :
              /\ list[s] = NoPid => out'[s] = Default
              /\ out'[s] \in Launch =>
                   list[s] # NoPid /\ conn'[list[s]].texture = out'[s]
<1> DEFINE active == {list[s] : s \in Slots} \ {NoPid}
           links == Pruned(active)
           hidden == IF fresh = {} THEN {} ELSE Reporting(links) \ fresh
           copied == {p \in active : links[p].newer /\ p \notin hidden}
           after == [p \in Pids |->
                       IF p \in copied
                       THEN [links[p] EXCEPT !.newer = FALSE,
                                             !.picture = links[p].texture]
                       ELSE links[p]]
           Shown(p) == IF p = NoPid \/ after[p].texture = 0 \/ p \in hidden
                       THEN Default ELSE after[p].picture
<1>1. /\ conn' = after /\ layout' = list
      /\ section' = [p \in Pids |-> IF Sharer(p) \/ after[p].texture # 0
                                    THEN section[p] ELSE NoSection]
      /\ out' = IF draw \/ list # layout \/ copied # {}
                THEN [s \in Slots |-> Shown(list[s])] ELSE out
  BY DEF Composite
<1>2. \A p \in active : p \in Pids /\ expected[p] # 0
  BY DEF Lists
<1>3. ASSUME NEW p \in Pids
      PROVE  /\ links[p] \in Link
             /\ links[p].texture \in {0, conn[p].texture, expected[p]}
             /\ links[p].picture \in {0, links[p].texture}
             /\ p \in active /\ Linked(p) => links[p] = conn[p]
             /\ links[p].texture # 0 => Sharer(p) \/ Linked(p)
  <2>1. CASE p \in active
    <3>1. links[p] = Connection(p)
      BY <2>1 DEF Pruned
    <3>. QED BY <1>2, <2>1, <3>1, ConnectionIsExpected
  <2>2. CASE p \notin active
    <3>1. links[p] = NoLink
      BY <2>2 DEF Pruned
    <3>. HIDE DEF active, links
    <3>. QED BY <2>2, <3>1 DEF NoLink, Link
  <2>. QED BY <2>1, <2>2
<1>. HIDE DEF active, links, hidden
<1>4. ASSUME NEW p \in Pids
      PROVE  /\ after[p] \in Link
             /\ after[p].texture = links[p].texture
             /\ after[p].picture \in {0, after[p].texture}
             /\ p \notin copied => after[p] = links[p]
  <2>1. /\ links[p] \in Link /\ links[p].picture \in {0, links[p].texture}
    BY <1>3
  <2>2. after[p] = IF p \in copied
                   THEN [links[p] EXCEPT !.newer = FALSE,
                                         !.picture = links[p].texture]
                   ELSE links[p]
    OBVIOUS
  <2>. HIDE DEF after, copied
  <2>. QED BY <2>1, <2>2 DEF Link
<1>5. conn' \in [Pids -> Link]
  BY <1>1, <1>4
<1>6. \A p \in Pids :
        /\ conn'[p].texture \in {0, conn[p].texture, expected[p]}
        /\ conn'[p].picture \in {0, conn'[p].texture}
  <2>. HIDE DEF after
  <2>. QED BY <1>1, <1>3, <1>4
<1>7. ASSUME NEW p \in Pids
      PROVE  /\ section'[p] \in Section
             /\ Sharer(p) => section'[p] = section[p]
             /\ (section'[p].launch # 0) = (Sharer(p)' \/ Linked(p)')
  <2>1. /\ section[p] \in Section
        /\ (section[p].launch # 0) = (Sharer(p) \/ Linked(p))
    BY DEF Showing, Processes
  <2>2. section'[p] = IF Sharer(p) \/ after[p].texture # 0
                      THEN section[p] ELSE NoSection
    BY <1>1
  <2>3. /\ Sharer(p)' = Sharer(p)
        /\ Linked(p)' = (after[p].texture # 0)
    BY <1>1 DEF Sharer, Linked
  <2>4. after[p].texture # 0 => Sharer(p) \/ Linked(p)
    BY <1>3, <1>4
  <2>. HIDE DEF after
  <2>5. CASE Sharer(p) \/ after[p].texture # 0
    BY <2>1, <2>2, <2>3, <2>4, <2>5
  <2>6. CASE ~(Sharer(p) \/ after[p].texture # 0)
    <3>1. /\ section'[p] = NoSection /\ ~Sharer(p) /\ ~Sharer(p)'
          /\ ~Linked(p)'
      BY <2>2, <2>3, <2>6
    <3>2. NoSection \in Section /\ NoSection.launch = 0
      BY DEF NoSection, Section
    <3>. QED BY <3>1, <3>2
  <2>. QED BY <2>5, <2>6
<1>8. section' \in [Pids -> Section]
  BY <1>1, <1>7
<1>9. ASSUME NEW s \in Slots
      PROVE  /\ list[s] = NoPid => out'[s] = Default
             /\ out'[s] \in {Default, 0} \cup Launch
             /\ out'[s] \in Launch =>
                  list[s] # NoPid /\ conn'[list[s]].texture = out'[s]
  <2>1. list[s] = NoPid \/ (list[s] \in Pids /\ list[s] \in active)
    BY LaunchIsNat DEF Lists, active
  <2>2. CASE draw \/ list # layout \/ copied # {}
    <3>1. out'[s] = Shown(list[s])
      BY <1>1, <2>2
    <3>2. list[s] \in Pids =>
            /\ after[list[s]].picture \in {0} \cup Launch
            /\ after[list[s]].picture \in {0, after[list[s]].texture}
      BY <1>4 DEF Link
    <3>3. \/ out'[s] = Default
          \/ list[s] # NoPid /\ out'[s] = after[list[s]].picture
      <4>. HIDE DEF after
      <4>. QED BY <3>1
    <3>4. list[s] = NoPid => out'[s] = Default
      BY <3>1
    <3>5. list[s] \in Pids => conn'[list[s]].texture = after[list[s]].texture
      BY <1>1
    <3>. HIDE DEF after
    <3>. QED BY <2>1, <3>2, <3>3, <3>4, <3>5, LaunchIsNat
  <2>3. CASE ~(draw \/ list # layout \/ copied # {})
    <3>1. out' = out /\ list = layout /\ copied = {}
      BY <1>1, <2>3
    <3>2. /\ list[s] = NoPid => out[s] = Default
          /\ out[s] \in {Default, 0} \cup Launch
      BY <3>1 DEF Showing, LayoutShown, Counters
    <3>3. ASSUME out[s] \in Launch
          PROVE  list[s] # NoPid /\ conn'[list[s]].texture = out[s]
      <4>1. list[s] # NoPid /\ list[s] \in Pids /\ list[s] \in active
        BY <2>1, <3>2, <3>3, LaunchIsNat
      <4>2. conn[list[s]].texture = out[s]
        BY <3>1, <3>3 DEF Showing, LayoutShown
      <4>3. Linked(list[s])
        BY <3>3, <4>2, LaunchIsNat DEF Linked
      <4>4. conn'[list[s]] = links[list[s]]
        BY <1>1, <1>4, <3>1, <4>1
      <4>5. links[list[s]] = conn[list[s]]
        BY <1>3, <4>1, <4>3
      <4>. QED BY <4>1, <4>2, <4>4, <4>5
    <3>. QED BY <3>1, <3>2, <3>3
  <2>. QED BY <2>2, <2>3
<1>10. out' \in [Slots -> {Default, 0} \cup Launch]
  <2>1. \/ out' = [s \in Slots |-> Shown(list[s])]
        \/ out' = out
    BY <1>1
  <2>2. out \in [Slots -> {Default, 0} \cup Launch]
    BY DEF Showing, Counters
  <2>3. \E F : out' = [s \in Slots |-> F[s]]
    BY <2>1, <2>2
  <2>. QED BY <1>9, <2>3
<1>. QED BY <1>1, <1>5, <1>6, <1>7, <1>8, <1>9, <1>10

(* RenderBrokerFrame composes of its list the producers that are expected. *)
LEMMA RenderShows ==
  ASSUME Showing, pc # "gone", UNCHANGED proc,
         NEW pids \in Lists, NEW due \in BOOLEAN, NEW refresh \in BOOLEAN,
         NEW fresh, RenderBrokerFrame(pids, due, refresh, fresh)
  PROVE  /\ Processes' /\ LayoutShown'
         /\ priority' = pids /\ forced' = FALSE /\ expected' = expected
         /\ layout' \in Lists
         /\ \A s \in Slots : layout'[s] \in {NoPid, pids[s]}
         /\ cached' \subseteq [pid : Pids, nonce : {0} \cup Launch]
         /\ state' \in {"connected", "searching", "failed"}
         /\ out' \in [Slots -> {Default, 0} \cup Launch]
         /\ \A p \in Pids :
              conn'[p].texture \in {0, conn[p].texture, expected[p]}
         /\ pids = NoList => \A p \in Pids : ~Linked(p)'
<1> DEFINE streams == IF DiscoveryDue(due) THEN Discovered ELSE cached
           list == [s \in Slots |-> IF Trusted(streams, pids[s]) THEN pids[s]
                                    ELSE NoPid]
           draw == forced \/ (list = NoList /\ refresh)
<1>1. /\ Composite(list, draw, fresh)
      /\ priority' = pids /\ forced' = FALSE /\ UNCHANGED expected
      /\ cached' = streams
      /\ state' = IF list # NoList THEN "connected"
                  ELSE IF streams # {} THEN "searching" ELSE "failed"
  BY DEF RenderBrokerFrame
<1>2. /\ list \in Lists
      /\ \A s \in Slots : list[s] \in {NoPid, pids[s]}
      /\ \A s \in Slots : list[s] # NoPid => expected[list[s]] # 0
  BY DEF Lists, Trusted
<1>3. streams \subseteq [pid : Pids, nonce : {0} \cup Launch]
  <2>1. Discovered \subseteq [pid : Pids, nonce : {0} \cup Launch]
    <3>1. \A p \in Pids : section[p].nonce \in {0} \cup Launch
      BY DEF Showing, Processes, Section
    <3>. QED BY <3>1 DEF Discovered
  <2>2. cached \subseteq [pid : Pids, nonce : {0} \cup Launch]
    BY DEF Showing, Counters
  <2>. QED BY <2>1, <2>2
<1>4. draw \in BOOLEAN
  BY DEF Showing, Counters
<1>5. pids = NoList => \A s \in Slots : list[s] = NoPid
  BY DEF NoList, Trusted
<1>. HIDE DEF list, streams, draw
<1>6. /\ conn' \in [Pids -> Link]
      /\ \A p \in Pids :
           /\ conn'[p].texture \in {0, conn[p].texture, expected[p]}
           /\ conn'[p].picture \in {0, conn'[p].texture}
      /\ section' \in [Pids -> Section]
      /\ \A p \in Pids :
           /\ Sharer(p) => section'[p] = section[p]
           /\ (section'[p].launch # 0) = (Sharer(p)' \/ Linked(p)')
      /\ layout' = list
      /\ out' \in [Slots -> {Default, 0} \cup Launch]
      /\ \A s \in Slots :
           /\ list[s] = NoPid => out'[s] = Default
           /\ out'[s] \in Launch =>
                list[s] # NoPid /\ conn'[list[s]].texture = out'[s]
  BY <1>1, <1>2, <1>4, CompositeShows
<1>7. \A p \in Pids : Linked(p)' => \E s \in Slots : list[s] = p
  BY <1>1, CompositeLinks
<1>8. Processes'
  <2>1. /\ proc' \in [Pids -> Process]
        /\ \A p \in Pids : Sharer(p)' = Sharer(p)
        /\ \A p \in Pids :
             /\ Alive(p)' => proc'[p].launch # 0
             /\ proc'[p].nonce \in {0, proc'[p].launch}
             /\ Sharer(p)' => section'[p].nonce = proc'[p].nonce
    BY <1>6 DEF Showing, Processes, Alive, Sharer
  <2>. QED BY <1>6, <2>1 DEF Processes
<1>9. LayoutShown'
  BY <1>6 DEF LayoutShown
<1>10. pids = NoList => \A p \in Pids : ~Linked(p)'
  BY <1>5, <1>7, LaunchIsNat
<1>. QED BY <1>1, <1>2, <1>3, <1>6, <1>8, <1>9, <1>10

(* A producer's step moves nobody else's process, and no texture.          *)
LEMMA ProcessesMove ==
  ASSUME Showing, Processes',
         UNCHANGED <<pc, job, sel, handle, inactive, expected, priority,
                     forced, cached, state, layout, out>>,
         launches' \in 0 .. MaxLaunches,
         \A p \in Pids : /\ conn'[p].texture = conn[p].texture
                         /\ proc'[p].phase = "starting" =>
                              proc[p].phase = "starting"
  PROVE  Showing'
<1>1. Choices' /\ Counters'
  BY DEF Showing, Choices, Counters
<1>2. LayoutShown'
  BY DEF Showing, Choices, LayoutShown, Lists
<1>3. ListSelected'
  BY DEF Showing, ListSelected
<1>4. MainIsOwn'
  <2>1. sel[Main].pid \in Pids \cup {NoPid}
    BY LaunchIsNat DEF Showing, Choices, Choice
  <2>. QED BY <2>1 DEF Showing, MainIsOwn
<1>5. MainCleared'
  BY DEF Showing, MainCleared, Linked
<1>6. Owned'
  BY DEF Showing, Owned
<1>. QED BY <1>1, <1>2, <1>3, <1>4, <1>5, <1>6 DEF Showing

(* The producers' steps.                                                   *)
LEMMA ProducersShowing ==
  ASSUME Showing, NEW p \in Pids,
         Sharing(p) \/ EndProcess(p) \/ ForeignProducer(p)
  PROVE  Showing'
<1>1. /\ proc \in [Pids -> Process] /\ section \in [Pids -> Section]
      /\ conn \in [Pids -> Link]
      /\ \A q \in Pids :
           /\ Alive(q) => proc[q].launch # 0
           /\ proc[q].nonce \in {0, proc[q].launch}
           /\ (section[q].launch # 0) = (Sharer(q) \/ Linked(q))
           /\ Sharer(q) => section[q].nonce = proc[q].nonce
           /\ conn[q].picture \in {0, conn[q].texture}
  BY DEF Showing, Processes
<1>2. CASE FallThrough(p)
  <2>1. /\ proc' = [proc EXCEPT ![p].nonce = 0] /\ proc[p].phase = "starting"
        /\ UNCHANGED <<section, conn>>
    BY <1>2 DEF FallThrough, brokerVars
  <2>2. /\ proc' \in [Pids -> Process]
        /\ \A q \in Pids : /\ proc'[q].phase = proc[q].phase
                           /\ proc'[q].launch = proc[q].launch
                           /\ proc'[q].nonce = IF q = p THEN 0
                                               ELSE proc[q].nonce
    BY <1>1, <2>1 DEF Process
  <2>3. \A q \in Pids : /\ Alive(q)' = Alive(q) /\ Sharer(q)' = Sharer(q)
                        /\ Linked(q)' = Linked(q)
    BY <2>1, <2>2 DEF Alive, Sharer, Linked
  <2>4. ~Sharer(p)
    BY <2>1 DEF Sharer
  <2>5. Processes'
    BY <1>1, <2>1, <2>2, <2>3, <2>4 DEF Processes
  <2>. QED
    BY <1>2, <2>1, <2>2, <2>5, ProcessesMove
    DEF FallThrough, appVars, brokerVars, Showing, Counters
<1>3. CASE ShareManifest(p)
  <2>1. /\ proc' = [proc EXCEPT ![p].phase = "named"]
        /\ proc[p].phase = "starting"
        /\ section' = [section EXCEPT ![p] =
             [launch |-> proc[p].launch, nonce |-> proc[p].nonce,
              published |-> FALSE]]
        /\ conn' = [conn EXCEPT ![p].newer = FALSE]
    BY <1>3 DEF ShareManifest
  <2>2. /\ proc' \in [Pids -> Process]
        /\ \A q \in Pids : /\ q # p => proc'[q] = proc[q]
                           /\ proc'[q].launch = proc[q].launch
                           /\ proc'[q].nonce = proc[q].nonce
        /\ proc'[p].phase = "named"
    BY <1>1, <2>1 DEF Process, Phase
  <2>3. /\ conn' \in [Pids -> Link]
        /\ \A q \in Pids : /\ conn'[q].texture = conn[q].texture
                           /\ conn'[q].picture = conn[q].picture
    BY <1>1, <2>1 DEF Link
  <2>4. /\ section' \in [Pids -> Section]
        /\ section'[p].launch = proc[p].launch
        /\ section'[p].nonce = proc[p].nonce
        /\ \A q \in Pids : q # p => section'[q] = section[q]
    BY <1>1, <2>1 DEF Section, Process
  <2>5. /\ Alive(p) /\ Sharer(p)'
        /\ \A q \in Pids : /\ Linked(q)' = Linked(q)
                           /\ q # p => Alive(q)' = Alive(q)
                           /\ q # p => Sharer(q)' = Sharer(q)
    BY <2>1, <2>2, <2>3 DEF Alive, Sharer, Linked
  <2>6. Processes'
    BY <1>1, <2>2, <2>3, <2>4, <2>5 DEF Processes
  <2>. QED
    BY <1>3, <2>2, <2>3, <2>6, ProcessesMove
    DEF ShareManifest, appVars, Showing, Counters
<1>4. CASE ShareTexture(p) \/ ShareStatus(p)
  <2>1. /\ \E phase \in {"shared", "ready"} :
             proc' = [proc EXCEPT ![p].phase = phase]
        /\ proc[p].phase \in {"named", "shared"}
        /\ UNCHANGED <<section, conn>>
    BY <1>4 DEF ShareTexture, ShareStatus, brokerVars
  <2>2. /\ proc' \in [Pids -> Process]
        /\ \A q \in Pids : /\ q # p => proc'[q] = proc[q]
                           /\ proc'[q].launch = proc[q].launch
                           /\ proc'[q].nonce = proc[q].nonce
        /\ proc'[p].phase \in {"shared", "ready"}
    BY <1>1, <2>1 DEF Process, Phase
  <2>3. \A q \in Pids : /\ Alive(q)' = Alive(q) /\ Sharer(q)' = Sharer(q)
                        /\ Linked(q)' = Linked(q)
    BY <2>1, <2>2 DEF Alive, Sharer, Linked
  <2>4. Processes'
    BY <1>1, <2>1, <2>2, <2>3 DEF Processes
  <2>. QED
    BY <1>4, <2>1, <2>2, <2>4, ProcessesMove
    DEF ShareTexture, ShareStatus, appVars, brokerVars, Showing, Counters
<1>5. CASE Publish(p)
  <2>1. /\ section' = [section EXCEPT ![p].published = TRUE]
        /\ \E newer \in BOOLEAN : conn' = [conn EXCEPT ![p].newer = newer]
        /\ UNCHANGED proc
    BY <1>5 DEF Publish
  <2>2. /\ section' \in [Pids -> Section]
        /\ \A q \in Pids : /\ section'[q].launch = section[q].launch
                           /\ section'[q].nonce = section[q].nonce
    BY <1>1, <2>1 DEF Section
  <2>3. /\ conn' \in [Pids -> Link]
        /\ \A q \in Pids : /\ conn'[q].texture = conn[q].texture
                           /\ conn'[q].picture = conn[q].picture
    BY <1>1, <2>1 DEF Link
  <2>4. \A q \in Pids : /\ Alive(q)' = Alive(q) /\ Sharer(q)' = Sharer(q)
                        /\ Linked(q)' = Linked(q)
    BY <2>1, <2>3 DEF Alive, Sharer, Linked
  <2>5. Processes'
    BY <1>1, <2>1, <2>2, <2>3, <2>4 DEF Processes
  <2>. QED
    BY <1>5, <2>1, <2>3, <2>5, ProcessesMove
    DEF Publish, appVars, Showing, Counters
<1>6. CASE EndProcess(p)
  <2>1. /\ proc' = [proc EXCEPT ![p] = NoProcess]
        /\ section' = [section EXCEPT ![p] = Closed(p)]
        /\ UNCHANGED conn
    BY <1>6 DEF EndProcess, brokerVars
  <2>2. /\ proc' \in [Pids -> Process]
        /\ \A q \in Pids : q # p => proc'[q] = proc[q]
        /\ proc'[p].phase = "none" /\ proc'[p].nonce = 0
    BY <1>1, <2>1 DEF Process, Phase, NoProcess
  <2>3. /\ ~Alive(p)' /\ ~Sharer(p)'
        /\ \A q \in Pids : /\ Linked(q)' = Linked(q)
                           /\ q # p => Alive(q)' = Alive(q)
                           /\ q # p => Sharer(q)' = Sharer(q)
    BY <2>1, <2>2 DEF Alive, Sharer, Linked
  <2>4. /\ Closed(p) \in Section
        /\ (Closed(p).launch # 0) = Linked(p)
    <3>1. CASE Linked(p)
      BY <1>1, <3>1 DEF Closed
    <3>2. CASE ~Linked(p)
      <4>1. Closed(p) = NoSection
        BY <3>2 DEF Closed
      <4>2. NoSection \in Section /\ NoSection.launch = 0
        BY DEF NoSection, Section
      <4>. QED BY <3>2, <4>1, <4>2 DEF Linked
    <3>. QED BY <3>1, <3>2
  <2>5. /\ section' \in [Pids -> Section] /\ section'[p] = Closed(p)
        /\ \A q \in Pids : q # p => section'[q] = section[q]
    BY <1>1, <2>1, <2>4
  <2>6. Processes'
    BY <1>1, <2>1, <2>2, <2>3, <2>4, <2>5 DEF Processes
  <2>. QED
    BY <1>6, <2>1, <2>2, <2>6, ProcessesMove
    DEF EndProcess, appVars, brokerVars, Showing, Counters
<1>7. CASE ForeignProducer(p)
  <2>1. /\ launches < MaxLaunches /\ launches' = launches + 1
        /\ proc' = [proc EXCEPT ![p] =
             [phase |-> "ready", launch |-> launches', nonce |-> 0,
              moving |-> FALSE, window |-> FALSE]]
        /\ section' = [section EXCEPT ![p] =
             [launch |-> launches', nonce |-> 0, published |-> TRUE]]
        /\ UNCHANGED conn
    BY <1>7 DEF ForeignProducer, brokerVars
  <2>2. launches' \in Launch /\ launches' \in 0 .. MaxLaunches
        /\ launches' # 0
    BY <2>1, LaunchIsNat DEF Showing, Counters, Launch
  <2>3. /\ proc' \in [Pids -> Process]
        /\ \A q \in Pids : q # p => proc'[q] = proc[q]
        /\ proc'[p].phase = "ready" /\ proc'[p].launch = launches'
        /\ proc'[p].nonce = 0
    BY <1>1, <2>1, <2>2 DEF Process, Phase
  <2>4. /\ section' \in [Pids -> Section]
        /\ \A q \in Pids : q # p => section'[q] = section[q]
        /\ section'[p].launch = launches' /\ section'[p].nonce = 0
    BY <1>1, <2>1, <2>2 DEF Section
  <2>5. /\ Sharer(p)'
        /\ \A q \in Pids : /\ Linked(q)' = Linked(q)
                           /\ q # p => Alive(q)' = Alive(q)
                           /\ q # p => Sharer(q)' = Sharer(q)
    BY <2>1, <2>3 DEF Alive, Sharer, Linked
  <2>6. Processes'
    BY <1>1, <2>1, <2>2, <2>3, <2>4, <2>5 DEF Processes
  <2>. QED
    BY <1>7, <2>1, <2>2, <2>3, <2>6, ProcessesMove
    DEF ForeignProducer, brokerVars
<1>. QED BY <1>2, <1>3, <1>4, <1>5, <1>6, <1>7 DEF Sharing

(* What the user may want.                                                 *)
LEMMA WantedIsChoice ==
  ASSUME NEW want \in Wanted
  PROVE  /\ want \in Choice
         /\ want.mode # "Discovered" => want.pid = NoPid
<1>1. \/ want \in [mode : Modes, target : Targets, pid : {NoPid}]
      \/ /\ "Discovered" \in Modes
         /\ want \in [mode : {"Discovered"}, target : {0}, pid : Pids]
  BY DEF Wanted
<1>. QED BY <1>1 DEF Choice

(* Processes that are killed close their sections.                         *)
LEMMA KilledProcesses ==
  ASSUME Showing, NEW ps, proc' = Killed(ps), section' = Left(ps),
         UNCHANGED conn
  PROVE  /\ Processes'
         /\ \A p \in Pids :
              proc'[p].phase = "starting" =>
                proc[p].phase = "starting" /\ p \notin ps
<1>1. /\ proc' \in [Pids -> Process]
      /\ \A q \in Pids : proc'[q] = IF q \in ps THEN NoProcess ELSE proc[q]
  <2>1. NoProcess \in Process
    BY DEF NoProcess, Process, Phase
  <2>. QED BY <2>1 DEF Killed, Showing, Processes
<1>2. NoSection \in Section /\ NoSection.launch = 0
  BY DEF NoSection, Section
<1>3. /\ section' \in [Pids -> Section]
      /\ \A q \in Pids :
           section'[q] = IF q \in ps /\ ~Linked(q) THEN NoSection
                         ELSE section[q]
  BY <1>2 DEF Left, Closed, Showing, Processes
<1>4. ASSUME NEW q \in Pids
      PROVE  /\ Alive(q)' => proc'[q].launch # 0
             /\ proc'[q].nonce \in {0, proc'[q].launch}
             /\ Sharer(q)' => section'[q].nonce = proc'[q].nonce
             /\ (section'[q].launch # 0) = (Sharer(q)' \/ Linked(q)')
  <2>1. Linked(q)' = Linked(q)
    BY DEF Linked
  <2>2. CASE q \notin ps
    BY <1>1, <1>3, <2>1, <2>2 DEF Showing, Processes, Alive, Sharer
  <2>3. CASE q \in ps
    <3>1. ~Alive(q)' /\ ~Sharer(q)' /\ proc'[q].nonce = 0
      BY <1>1, <2>3 DEF Alive, Sharer, NoProcess
    <3>2. (section'[q].launch # 0) = Linked(q)
      <4>1. CASE Linked(q)
        BY <1>3, <2>3, <4>1 DEF Showing, Processes
      <4>2. CASE ~Linked(q)
        BY <1>2, <1>3, <2>3, <4>2 DEF Linked
      <4>. QED BY <4>1, <4>2
    <3>. QED BY <2>1, <3>1, <3>2
  <2>. QED BY <2>2, <2>3
<1>5. \A p \in Pids : proc'[p].phase = "starting" =>
                       proc[p].phase = "starting" /\ p \notin ps
  BY <1>1 DEF NoProcess
<1>. QED BY <1>1, <1>3, <1>4, <1>5 DEF Showing, Processes

(* Another source is chosen: the slot has none until the next has begun.   *)
LEMMA SetSourceShowing ==
  ASSUME Showing, NEW s \in Slots, NEW want \in Wanted, SetSource(s, want)
  PROVE  Showing'
<1>1. CASE SameMode(s, want)
  <2>1. /\ UNCHANGED <<proc, section, conn>>
        /\ UNCHANGED <<pc, job, sel, handle, inactive, expected, priority,
                       forced, cached, state, layout, out, launches>>
    BY <1>1 DEF SetSource, brokerVars
  <2>2. Processes'
    BY <2>1 DEF Showing, Processes, Alive, Sharer, Linked
  <2>. QED BY <2>1, <2>2, ProcessesMove DEF Showing, Counters
<1>2. CASE ~SameMode(s, want)
  <2>1. /\ pc = "idle" /\ pc' = IF s = Main THEN "clear" ELSE "launch"
        /\ job' = [slot |-> s, want |-> want]
        /\ sel' = [sel EXCEPT ![s] = NoSource]
        /\ handle' = [handle EXCEPT ![s] = NoPid]
        /\ proc' = Killed({handle[s]}) /\ section' = Left({handle[s]})
        /\ UNCHANGED <<inactive, launches, expected, priority, forced, cached,
                       state, layout, conn, out>>
    BY <1>2 DEF SetSource, brokerVars
  <2>2. /\ Processes'
        /\ \A p \in Pids : proc'[p].phase = "starting" =>
             proc[p].phase = "starting" /\ p # handle[s]
    BY <2>1, KilledProcesses
  <2>3. /\ sel \in [Slots -> Choice] /\ handle \in Lists
        /\ want \in Choice /\ (want.mode # "Discovered" => want.pid = NoPid)
        /\ NoSource \in Choice /\ NoSource.pid = NoPid
    BY WantedIsChoice DEF Showing, Choices, NoSource, Choice
  <2>4. /\ sel' \in [Slots -> Choice] /\ handle' \in Lists
        /\ sel'[s].pid = NoPid /\ handle'[s] = NoPid
        /\ \A t \in Slots :
             t # s => sel'[t] = sel[t] /\ handle'[t] = handle[t]
    BY <2>1, <2>3 DEF Lists
  <2>5. job' \in [slot : Slots, want : Choice]
        /\ job'.slot = s /\ job'.want = want
    BY <2>1, <2>3
  <2>6. Choices'
    BY <2>1, <2>4, <2>5 DEF Showing, Choices
  <2>7. Counters'
    BY <2>1 DEF Showing, Counters
  <2>8. LayoutShown'
    BY <2>1 DEF Showing, LayoutShown
  <2>9. ListSelected'
    BY <2>1 DEF Showing, ListSelected
  <2>10. MainIsOwn'
    BY <2>1, <2>3, <2>4, <2>5, LaunchIsNat DEF Showing, MainIsOwn
  <2>11. MainCleared'
    BY <2>1, <2>5 DEF MainCleared
  <2>12. Owned'
    BY <2>2, <2>4, <2>5 DEF Showing, Owned
  <2>. QED
    BY <2>2, <2>6, <2>7, <2>8, <2>9, <2>10, <2>11, <2>12 DEF Showing
<1>. QED BY <1>1, <1>2

(* The generated picture takes the main slot's place.                      *)
LEMMA ClearPictureShowing ==
  ASSUME Showing, ClearPicture
  PROVE  Showing'
<1>. PICK fresh \in SUBSET Pids :
       RenderBrokerFrame(NoList, FALSE, FALSE, fresh)
  BY DEF ClearPicture, ClearedList
<1>1. /\ pc = "clear" /\ pc' = "launch"
      /\ UNCHANGED <<proc, job, sel, handle, inactive, launches>>
  BY DEF ClearPicture
<1>2. NoList \in Lists /\ \A s \in Slots : NoList[s] = NoPid
  BY DEF NoList, Lists
<1>3. /\ Processes' /\ LayoutShown'
      /\ forced' = FALSE /\ expected' = expected
      /\ priority' \in Lists /\ layout' \in Lists
      /\ \A s \in Slots : layout'[s] = NoPid
      /\ cached' \subseteq [pid : Pids, nonce : {0} \cup Launch]
      /\ state' \in {"connected", "searching", "failed"}
      /\ out' \in [Slots -> {Default, 0} \cup Launch]
      /\ \A p \in Pids : ~Linked(p)'
  BY <1>1, <1>2, RenderShows
<1>4. Choices' /\ Counters'
  BY <1>1, <1>3 DEF Showing, Choices, Counters
<1>5. ListSelected'
  BY <1>1, <1>3 DEF ListSelected
<1>6. MainIsOwn'
  <2>1. sel[Main].pid \in Pids \cup {NoPid}
    BY LaunchIsNat DEF Showing, Choices, Choice
  <2>. QED BY <1>1, <1>3, <2>1 DEF Showing, MainIsOwn, Linked
<1>7. MainCleared'
  BY <1>1, <1>3, LaunchIsNat DEF MainCleared, LayoutShown
<1>8. Owned'
  BY <1>1 DEF Showing, Owned
<1>. QED BY <1>3, <1>4, <1>5, <1>6, <1>7, <1>8 DEF Showing

(* A process under an id that nobody has: it is not that of the main slot, *)
(* or nothing is connected.                                                *)
LEMMA LaunchProducerShowing ==
  ASSUME Showing, NEW p \in Pids, LaunchProducer(p)
  PROVE  Showing'
<1>1. /\ pc = "launch" /\ job.want.mode \in Helper /\ pc' = "inform"
      /\ ~Alive(p) /\ \A s \in Slots : handle[s] # p
      /\ launches < MaxLaunches /\ launches' = launches + 1
      /\ handle' = [handle EXCEPT ![job.slot] = p]
      /\ expected' = [expected EXCEPT ![p] = launches']
      /\ sel' = [sel EXCEPT ![job.slot] = [job.want EXCEPT !.pid = p]]
      /\ forced' = TRUE
      /\ UNCHANGED <<section, job, inactive, priority, cached, state, layout,
                     conn, out>>
  BY DEF LaunchProducer, FreePid
<1>2. PICK moving \in BOOLEAN :
        proc' = [proc EXCEPT ![p] =
          [phase |-> "starting", launch |-> launches', nonce |-> launches',
           moving |-> moving, window |-> job.want.mode = "Window"]]
  BY DEF LaunchProducer
<1>3. launches' \in Launch /\ launches' \in 0 .. MaxLaunches /\ launches' # 0
  BY <1>1, LaunchIsNat DEF Showing, Counters, Launch
<1>4. Processes'
  <2>1. /\ proc' \in [Pids -> Process]
        /\ \A q \in Pids : q # p => proc'[q] = proc[q]
        /\ proc'[p].phase = "starting" /\ proc'[p].launch = launches'
        /\ proc'[p].nonce = launches'
    BY <1>2, <1>3 DEF Showing, Processes, Process, Phase
  <2>2. /\ ~Sharer(p) /\ ~Sharer(p)'
        /\ \A q \in Pids : /\ Linked(q)' = Linked(q)
                           /\ q # p => Alive(q)' = Alive(q)
                           /\ Sharer(q)' = Sharer(q)
    BY <1>1, <2>1 DEF Alive, Sharer, Linked
  <2>. QED BY <1>1, <1>3, <2>1, <2>2 DEF Showing, Processes
<1>5. /\ job \in [slot : Slots, want : Choice] /\ job.slot \in Slots
      /\ job.want \in Choice
      /\ sel \in [Slots -> Choice] /\ handle \in Lists
  BY DEF Showing, Choices
<1>6. [job.want EXCEPT !.pid = p] \in Choice
      /\ [job.want EXCEPT !.pid = p].pid = p
  BY <1>5 DEF Choice
<1>7. /\ sel' \in [Slots -> Choice] /\ handle' \in Lists
      /\ sel'[job.slot].pid = p /\ handle'[job.slot] = p
      /\ \A t \in Slots :
           t # job.slot => sel'[t] = sel[t] /\ handle'[t] = handle[t]
  BY <1>1, <1>5, <1>6 DEF Lists
<1>8. Choices' /\ Counters'
  BY <1>1, <1>3, <1>7 DEF Showing, Choices, Counters
<1>9. LayoutShown' /\ ListSelected'
  BY <1>1 DEF Showing, LayoutShown, ListSelected
<1>10. MainIsOwn'
  <2>1. job'.want.mode # "Discovered" => job'.want.pid = NoPid
    BY <1>1 DEF Showing, MainIsOwn
  <2>2. \A s \in Slots :
          sel'[s].mode # "Discovered" => sel'[s].pid \in {NoPid, handle'[s]}
    BY <1>1, <1>5, <1>7 DEF Showing, MainIsOwn
  <2>3. ASSUME sel'[Main].mode # "Discovered", sel'[Main].pid # NoPid
        PROVE  conn'[sel'[Main].pid].texture \in {0, expected'[sel'[Main].pid]}
    <3>1. CASE job.slot = Main
      BY <1>1, <1>7, <3>1 DEF Showing, MainCleared, Linked
    <3>2. CASE job.slot # Main
      <4>1. sel'[Main] = sel[Main] /\ handle[Main] # p
        BY <1>1, <1>7, <3>2, LaunchIsNat
      <4>2. sel[Main].pid = handle[Main]
        BY <1>1, <2>3, <4>1, LaunchIsNat DEF Showing, MainIsOwn
      <4>3. expected'[sel[Main].pid] = expected[sel[Main].pid]
        BY <1>1, <4>1, <4>2 DEF Showing, Counters
      <4>. QED BY <1>1, <2>3, <4>1, <4>3 DEF Showing, MainIsOwn
    <3>. QED BY <3>1, <3>2
  <2>. QED BY <2>1, <2>2, <2>3 DEF MainIsOwn
<1>11. MainCleared'
  BY <1>1 DEF Showing, MainCleared
<1>12. Owned'
  <2>1. \A q \in Pids : q # p => proc'[q] = proc[q]
    BY <1>2 DEF Showing, Processes
  <2>2. handle[job.slot] = NoPid
    BY <1>1 DEF Showing, Owned
  <2>. QED BY <1>1, <1>5, <1>7, <2>1, <2>2, LaunchIsNat DEF Showing, Owned
<1>. QED BY <1>4, <1>8, <1>9, <1>10, <1>11, <1>12 DEF Showing

(* Nothing is launched.                                                    *)
LEMMA NoLaunchShowing ==
  ASSUME Showing, LaunchFails \/ NoLaunch
  PROVE  Showing'
<1>1. /\ pc = "launch" /\ pc' = "inform"
      /\ \/ sel' = [sel EXCEPT ![job.slot] = job.want]
         \/ sel' = [sel EXCEPT ![job.slot] = NoSource]
      /\ UNCHANGED <<proc, section, job, handle, inactive, launches, expected,
                     priority, forced, cached, state, layout, conn, out>>
  BY DEF LaunchFails, NoLaunch, brokerVars
<1>2. Processes'
  BY <1>1 DEF Showing, Processes, Alive, Sharer, Linked
<1>3. /\ sel \in [Slots -> Choice] /\ NoSource \in Choice
      /\ NoSource.pid = NoPid
      /\ job.slot \in Slots /\ job.want \in Choice
      /\ job.want.mode # "Discovered" => job.want.pid = NoPid
  BY DEF Showing, Choices, MainIsOwn, NoSource, Choice
<1>4. /\ sel' \in [Slots -> Choice]
      /\ sel'[job.slot].mode # "Discovered" => sel'[job.slot].pid = NoPid
      /\ \A t \in Slots : t # job.slot => sel'[t] = sel[t]
  BY <1>1, <1>3
<1>5. Choices' /\ Counters'
  BY <1>1, <1>4 DEF Showing, Choices, Counters
<1>6. LayoutShown' /\ ListSelected' /\ MainCleared'
  BY <1>1 DEF Showing, LayoutShown, ListSelected, MainCleared
<1>7. MainIsOwn'
  BY <1>1, <1>4, LaunchIsNat DEF Showing, MainIsOwn
<1>8. Owned'
  BY <1>1 DEF Showing, Owned
<1>. QED BY <1>2, <1>5, <1>6, <1>7, <1>8 DEF Showing

(* The broker is told what is selected, and will discover.                 *)
LEMMA InformBrokerShowing ==
  ASSUME Showing, InformBroker
  PROVE  Showing'
<1>1. /\ pc = "inform" /\ pc' = "idle"
      /\ job' = [slot |-> Main, want |-> NoSource]
      /\ priority' = [s \in Slots |-> sel[s].pid]
      /\ forced' = TRUE
      /\ UNCHANGED <<proc, section, sel, handle, inactive, launches, expected,
                     cached, state, layout, conn, out>>
  BY DEF InformBroker
<1>2. Processes'
  BY <1>1 DEF Showing, Processes, Alive, Sharer, Linked
<1>3. /\ NoSource \in Choice /\ NoSource.pid = NoPid
      /\ \A s \in Slots : sel[s].pid \in Pids \cup {NoPid}
  BY DEF Showing, Choices, NoSource, Choice
<1>4. job' \in [slot : Slots, want : Choice] /\ job'.want.pid = NoPid
  BY <1>1, <1>3, LaunchIsNat
<1>5. priority' \in Lists
  BY <1>1, <1>3 DEF Lists
<1>6. Choices' /\ Counters'
  BY <1>1, <1>4, <1>5 DEF Showing, Choices, Counters
<1>7. LayoutShown' /\ ListSelected' /\ MainCleared'
  BY <1>1 DEF Showing, LayoutShown, ListSelected, MainCleared
<1>8. MainIsOwn'
  BY <1>1, <1>4 DEF Showing, MainIsOwn
<1>9. Owned'
  BY <1>1 DEF Showing, Owned
<1>. QED BY <1>2, <1>6, <1>7, <1>8, <1>9 DEF Showing

(* The broker renders what it was told.                                    *)
LEMMA OnIdleShowing ==
  ASSUME Showing, NEW due \in BOOLEAN, NEW refresh \in BOOLEAN,
         NEW fresh, OnIdle(due, refresh, fresh)
  PROVE  Showing'
<1>1. /\ pc = "idle" /\ pc' \in {"idle", "closing"}
      /\ inactive' \in BOOLEAN
      /\ RenderBrokerFrame(priority, due, refresh, fresh)
      /\ UNCHANGED <<proc, job, sel, handle, launches>>
  BY DEF OnIdle
<1>2. priority \in Lists
  BY DEF Showing, Choices
<1>3. /\ Processes' /\ LayoutShown'
      /\ priority' = priority /\ forced' = FALSE /\ expected' = expected
      /\ layout' \in Lists
      /\ \A s \in Slots : layout'[s] \in {NoPid, priority[s]}
      /\ cached' \subseteq [pid : Pids, nonce : {0} \cup Launch]
      /\ state' \in {"connected", "searching", "failed"}
      /\ out' \in [Slots -> {Default, 0} \cup Launch]
      /\ \A p \in Pids :
           conn'[p].texture \in {0, conn[p].texture, expected[p]}
  BY <1>1, <1>2, RenderShows
<1>4. Choices' /\ Counters'
  BY <1>1, <1>2, <1>3 DEF Showing, Choices, Counters
<1>5. ListSelected' /\ MainCleared'
  BY <1>1, <1>3 DEF Showing, ListSelected, MainCleared
<1>6. MainIsOwn'
  <2>1. sel[Main].pid \in Pids \cup {NoPid}
    BY LaunchIsNat DEF Showing, Choices, Choice
  <2>. QED BY <1>1, <1>3, <2>1 DEF Showing, MainIsOwn
<1>7. Owned'
  BY <1>1 DEF Showing, Owned
<1>. QED BY <1>3, <1>4, <1>5, <1>6, <1>7 DEF Showing

(* The application ends.                                                   *)
LEMMA ShutdownShowing ==
  ASSUME Showing, Shutdown
  PROVE  Showing'
<1> DEFINE mine == {handle[s] : s \in Slots} \cap Pids
<1>1. /\ pc' = "gone" /\ handle' = NoList
      /\ proc' = Killed(mine)
      /\ section' = [p \in Pids |-> IF p \in mine \/ ~Alive(p)
                                    THEN NoSection ELSE section[p]]
      /\ expected' = [p \in Pids |-> 0] /\ forced' = TRUE /\ cached' = {}
      /\ conn' = [p \in Pids |-> NoLink]
      /\ UNCHANGED <<job, sel, inactive, launches, priority, state, layout,
                     out>>
  BY DEF Shutdown
<1>. HIDE DEF mine
<1>2. /\ NoProcess \in Process /\ NoSection \in Section /\ NoLink \in Link
      /\ NoSection.launch = 0 /\ NoLink.texture = 0 /\ NoLink.picture = 0
      /\ NoProcess.phase = "none" /\ NoProcess.nonce = 0
  BY DEF NoProcess, NoSection, NoLink, Process, Section, Link, Phase
<1>3. /\ proc' \in [Pids -> Process] /\ section' \in [Pids -> Section]
      /\ conn' \in [Pids -> Link]
      /\ \A q \in Pids :
           /\ proc'[q] = IF q \in mine THEN NoProcess ELSE proc[q]
           /\ section'[q] = IF q \in mine \/ ~Alive(q) THEN NoSection
                            ELSE section[q]
           /\ conn'[q] = NoLink
  BY <1>1, <1>2 DEF Killed, Showing, Processes
<1>4. \A q \in Pids : proc[q].phase = "starting" => q \in mine
  BY DEF Showing, Owned, mine
<1>5. ASSUME NEW q \in Pids
      PROVE  /\ Alive(q)' => proc'[q].launch # 0
             /\ proc'[q].nonce \in {0, proc'[q].launch}
             /\ Sharer(q)' => section'[q].nonce = proc'[q].nonce
             /\ (section'[q].launch # 0) = (Sharer(q)' \/ Linked(q)')
             /\ conn'[q].picture \in {0, conn'[q].texture}
             /\ proc'[q].phase # "starting"
  <2>1. ~Linked(q)' /\ conn'[q].picture = 0
    BY <1>2, <1>3 DEF Linked
  <2>2. CASE q \in mine \/ ~Alive(q)
    <3>1. /\ section'[q].launch = 0
          /\ proc'[q].phase = "none" /\ ~Alive(q)' /\ ~Sharer(q)'
      BY <1>2, <1>3, <2>2 DEF Alive, Sharer
    <3>2. proc'[q].nonce \in {0, proc'[q].launch}
      BY <1>2, <1>3 DEF Showing, Processes
    <3>. QED BY <2>1, <3>1, <3>2
  <2>3. CASE q \notin mine /\ Alive(q)
    <3>1. proc'[q] = proc[q] /\ section'[q] = section[q]
      BY <1>3, <2>3
    <3>2. /\ proc[q].phase \in {"named", "shared", "ready"}
          /\ proc[q].launch # 0 /\ proc[q].nonce \in {0, proc[q].launch}
          /\ section[q].launch # 0 /\ section[q].nonce = proc[q].nonce
      BY <1>4, <2>3
      DEF Showing, Processes, Process, Phase, Alive, Sharer
    <3>. QED BY <2>1, <3>1, <3>2 DEF Sharer
  <2>. QED BY <2>2, <2>3
<1>6. Processes'
  BY <1>3, <1>5 DEF Processes
<1>7. NoList \in Lists
  BY DEF NoList, Lists
<1>8. Choices' /\ Counters'
  BY <1>1, <1>7 DEF Showing, Choices, Counters
<1>9. LayoutShown' /\ ListSelected' /\ MainCleared'
  BY <1>1 DEF Showing, LayoutShown, ListSelected, MainCleared
<1>10. MainIsOwn'
  BY <1>1 DEF Showing, MainIsOwn
<1>11. Owned'
  BY <1>1, <1>5 DEF Owned
<1>. QED BY <1>6, <1>8, <1>9, <1>10, <1>11 DEF Showing

(* Every step preserves the invariant.                                     *)
LEMMA NextShowing == ASSUME Showing, [Next]_vars PROVE Showing'
<1>1. CASE \E p \in Pids : Sharing(p) \/ EndProcess(p) \/ ForeignProducer(p)
  BY <1>1, ProducersShowing
<1>2. CASE \E s \in Slots, want \in Wanted : SetSource(s, want)
  BY <1>2, SetSourceShowing
<1>3. CASE Choosing
  BY <1>3, ClearPictureShowing, LaunchProducerShowing, NoLaunchShowing,
     InformBrokerShowing DEF Choosing
<1>4. CASE \E due, refresh \in BOOLEAN, fresh \in SUBSET Pids :
             OnIdle(due, refresh, fresh)
  BY <1>4, OnIdleShowing
<1>5. CASE Shutdown
  BY <1>5, ShutdownShowing
<1>6. CASE UNCHANGED vars
  <2>1. /\ UNCHANGED <<proc, section, conn>>
        /\ UNCHANGED <<pc, job, sel, handle, inactive, expected, priority,
                       forced, cached, state, layout, out, launches>>
    BY <1>6 DEF vars, appVars, brokerVars
  <2>2. Processes'
    BY <2>1 DEF Showing, Processes, Alive, Sharer, Linked
  <2>. QED BY <2>1, <2>2, ProcessesMove DEF Showing, Counters
<1>. QED BY <1>1, <1>2, <1>3, <1>4, <1>5, <1>6 DEF Next

(* The invariant holds in every reachable state.                           *)
LEMMA AlwaysShowing == Spec => []Showing
<1>1. Init => Showing
  BY InitShowing
<1>2. Showing /\ [Next]_vars => Showing'
  BY NextShowing
<1>. QED BY <1>1, <1>2, PTL DEF Spec

(* What a slot shows comes from the process that was launched for what is  *)
(* selected there, or from one that had its id before; the main slot, only *)
(* from its own (RenderBrokerFrame, CompositeFrames, SetSourceMode).       *)
THEOREM SelectionIsShown == Spec => []ShowsWhatIsSelected
<1>1. Showing => ShowsWhatIsSelected
  <2>. SUFFICES ASSUME Showing
                PROVE  ShowsWhatIsSelected
    OBVIOUS
  <2>1. ASSUME pc = "idle", ~forced, NEW s \in Slots, out[s] \in Launch
        PROVE  \/ out[s] = Selected(s)
               \/ LeftOver(s) /\ (s # Main \/ sel[s].mode = "Discovered")
    <3>1. /\ layout[s] # NoPid /\ conn[layout[s]].texture = out[s]
          /\ layout[s] = sel[s].pid
      BY <2>1 DEF Showing, LayoutShown, ListSelected
    <3>2. out[s] # 0
      BY <2>1, LaunchIsNat
    <3>3. CASE out[s] = expected[sel[s].pid]
      BY <3>1, <3>3 DEF Selected
    <3>4. CASE out[s] # expected[sel[s].pid]
      <4>1. LeftOver(s)
        BY <3>1, <3>2, <3>4 DEF LeftOver, Selected
      <4>2. s = Main => sel[s].mode = "Discovered"
        BY <2>1, <3>1, <3>2, <3>4 DEF Showing, MainIsOwn
      <4>. QED BY <4>1, <4>2
    <3>. QED BY <3>3, <3>4
  <2>2. pc \in {"launch", "inform"} /\ job.slot = Main => out[Main] = Default
    BY DEF Showing, MainCleared
  <2>. QED BY <2>1, <2>2 DEF ShowsWhatIsSelected
<1>. QED BY <1>1, AlwaysShowing, PTL

(* Every variable of the application, the broker and the producers keeps   *)
(* its type, and a manifest is there as long as a process or the           *)
(* multiplexer maps it.                                                    *)
THEOREM BroadcastTypes == Spec => []TypeOK
<1>1. Showing => TypeOK
  BY DEF Showing, Processes, Choices, Counters, Lists, TypeOK
<1>. QED BY <1>1, AlwaysShowing, PTL

-----------------------------------------------------------------------------
(* A producer process: its reader, the callback and what is uploaded.      *)
MediaTypes ==
  /\ kind \in Kinds /\ main \in MainSteps
  /\ newest \in Sample \cup {None}
  /\ reader \in Reader /\ cb \in Callback /\ mf \in Worker
  /\ ~cb.has => cb.latest.sample = None
CaptureTypes ==
  /\ override \in Overrides \cup {"auto"}
  /\ quit \in BOOLEAN /\ capturing \in BOOLEAN /\ outputs \in BOOLEAN
  /\ frame \in {0, 1}
  /\ shown \in Sample \cup Sizes \cup {None}
  /\ fault \in BOOLEAN
  /\ backend \in {"none", "wgc", "printwindow", "bitblt"}
  /\ wgc \in {"none", "partial", "running"}
  /\ {pool, size, texture, cache} \subseteq Sizes
  /\ uploaded \in Sizes \X Sizes
  /\ window \in Sizes /\ resizes \in 0 .. MaxResizes

(* Only a camera or a file has a reader, and only the others a backend.    *)
Untouched ==
  /\ reader.held = FALSE /\ reader.asked = 0 /\ reader.next = 1
  /\ cb.reader = FALSE /\ cb.pending = FALSE /\ cb.shut = FALSE
  /\ cb.has = FALSE /\ cb.latest.sample = None
  /\ mf.at = "idle" /\ newest = None
ByKind ==
  /\ kind \notin Media \/ main = "start" => Untouched
  /\ main \in {"first", "read", "flush", "drop"} => kind \in Media
  /\ main \in {"printwindow", "bitblt"} \/ backend # "none" =>
       kind \notin Media

(* There is never more than one read: it is about to be asked for by main  *)
(* or by the callback, is with Media Foundation, or is answered.  While the*)
(* callback is not shut, pending says whether there is one.                *)
MainAsks == main \in {"first", "read"}
WorkerAsks == mf.at \in {"read", "called"}
Waiting == reader.asked > 0
OneRead ==
  /\ ~(MainAsks /\ WorkerAsks) /\ ~(MainAsks /\ Waiting)
  /\ ~(WorkerAsks /\ Waiting)
  /\ mf.at = "begin" => ~MainAsks /\ ~Waiting
  /\ ~cb.shut => (cb.pending <=> MainAsks \/ WorkerAsks \/ Waiting)
  /\ cb.shut => ~cb.pending

(* Behind the end of a file no read is under way.                          *)
AtEnd ==
  cb.has /\ cb.latest.ok /\ cb.latest.end /\ ~cb.shut =>
    ~cb.pending /\ mf.at = "idle"

(* What is published, what the callback has, what it is called with and    *)
(* what is read next follow each other.                                    *)
InOrder ==
  /\ newest < reader.next
  /\ cb.latest.sample # None =>
       newest < cb.latest.sample /\ cb.latest.sample < reader.next
  /\ mf.at = "called" /\ mf.got.sample # None =>
       /\ newest < mf.got.sample /\ mf.got.sample < reader.next
       /\ cb.latest.sample # None => cb.latest.sample < mf.got.sample

(* A shutdown takes reader and sample away, and nothing brings them back.  *)
Leaving == main \in {"flush", "drop", "done"}
LetGo ==
  /\ Leaving => ~cb.reader /\ cb.latest.sample = None
  /\ Leaving /\ kind \in Media => cb.shut
  /\ cb.shut => Leaving
  /\ reader.flushing => cb.shut
  /\ main = "done" => ~reader.held

Played == MediaTypes /\ ByKind /\ OneRead /\ AtEnd /\ InOrder /\ LetGo
ProducerInv == Played /\ CaptureTypes /\ UploadFits

LEMMA ProducerInvGives == ProducerInv => ProducerTypeOK /\ ReaderLetGo
<1>1. ProducerInv => ProducerTypeOK
  BY DEF ProducerInv, Played, MediaTypes, CaptureTypes, ProducerTypeOK
<1>2. ASSUME ProducerInv, main = "done", mf.at = "idle"
      PROVE  ~ReaderAlive /\ cb.latest.sample = None
  BY <1>2 DEF ProducerInv, Played, LetGo, Leaving, ReaderAlive
<1>. QED BY <1>1, <1>2 DEF ReaderLetGo

-----------------------------------------------------------------------------
(* What the callback's operations leave in its members.                    *)

LEMMA NoneIsOutcome ==
  /\ NoOutcome \in Outcome /\ Failure \in Outcome
  /\ NoOutcome.sample = None /\ Failure.sample = None /\ Failure.ok = FALSE
  BY DEF NoOutcome, Failure, Outcome

LEMMA SampleNumbers ==
  /\ Sample \subseteq Nat \ {0} /\ 1 \in Sample /\ None = 0 /\ Length \in Nat
  /\ \A n \in 1 .. Length : n \in Sample
  BY ProducerConstants DEF Sample, None

LEMMA Emptied ==
  ASSUME NEW q \in Outcome
  PROVE  /\ [q EXCEPT !.sample = None] \in Outcome
         /\ [q EXCEPT !.sample = None].sample = None
         /\ [q EXCEPT !.sample = None].ok = q.ok
         /\ [q EXCEPT !.sample = None].end = q.end
  BY DEF Outcome

LEMMA TakenIs ==
  ASSUME NEW c \in Callback
  PROVE  LET t == Taken(c) IN
         /\ t \in Callback /\ t.has = FALSE /\ t.latest.sample = None
         /\ t.reader = c.reader /\ t.pending = c.pending /\ t.shut = c.shut
<1>1. c.latest \in Outcome
  BY DEF Callback
<1>2. Taken(c) = [c EXCEPT !.has = FALSE,
                           !.latest = [c.latest EXCEPT !.sample = None]]
  BY DEF Taken
<1>. QED BY <1>1, <1>2, Emptied DEF Callback

LEMMA ShutIs ==
  ASSUME NEW c \in Callback
  PROVE  LET t == Shut(c) IN
         /\ t \in Callback /\ t.has = FALSE /\ t.latest.sample = None
         /\ t.reader = FALSE /\ t.pending = FALSE /\ t.shut = TRUE
<1>1. c.latest \in Outcome
  BY DEF Callback
<1>2. Shut(c) = [c EXCEPT !.shut = TRUE, !.pending = FALSE, !.has = FALSE,
                          !.latest = [c.latest EXCEPT !.sample = None],
                          !.reader = FALSE]
  BY DEF Shut
<1>. QED BY <1>1, <1>2, Emptied DEF Callback

LEMMA ReaderSetIs ==
  ASSUME cb \in Callback
  PROVE  LET t == ReaderSet IN
         /\ t \in Callback /\ t.has = FALSE /\ t.latest.sample = None
         /\ t.reader = TRUE /\ t.pending = FALSE /\ t.shut = FALSE
<1>1. cb.latest \in Outcome
  BY DEF Callback
<1>2. ReaderSet = [cb EXCEPT !.reader = TRUE, !.pending = FALSE,
                             !.shut = FALSE, !.has = FALSE,
                             !.latest = [cb.latest EXCEPT !.sample = None]]
  BY DEF ReaderSet
<1>. QED BY <1>1, <1>2, Emptied DEF Callback

LEMMA BegunIs ==
  ASSUME NEW c \in Callback
  PROVE  LET t == Begun(c) IN
         /\ t \in Callback /\ t.has = c.has /\ t.latest = c.latest
         /\ t.reader = c.reader /\ t.shut = c.shut
         /\ t.pending = (MayBegin(c) \/ c.pending)
<1>1. c.pending \in BOOLEAN /\ MayBegin(c) \in BOOLEAN
  BY DEF Callback, MayBegin
<1>. QED BY <1>1 DEF Begun, Callback

LEMMA RefusedIs ==
  ASSUME NEW c \in Callback
  PROVE  LET t == Refused(c) IN
         /\ t \in Callback /\ t.has = TRUE /\ t.latest = Failure
         /\ t.reader = c.reader /\ t.shut = c.shut /\ t.pending = FALSE
  BY NoneIsOutcome DEF Refused, Callback

LEMMA ReceivedIs ==
  ASSUME NEW c \in Callback, NEW got \in Outcome
  PROVE  LET t == Received(c, got) IN
         /\ t \in Callback /\ t.reader = c.reader /\ t.shut = c.shut
         /\ t.pending = FALSE
         /\ c.shut => t.has = c.has /\ t.latest = c.latest
         /\ ~c.shut => t.has = TRUE /\ t.latest = got
  BY DEF Received, Callback

-----------------------------------------------------------------------------
(* The invariant holds initially, and every step of a camera or a file     *)
(* keeps it.                                                               *)

LEMMA PlayedTypes ==
  ASSUME Played
  PROVE  /\ reader \in Reader /\ cb \in Callback /\ mf \in Worker
         /\ cb.latest \in Outcome /\ mf.got \in Outcome
         /\ newest \in Nat /\ reader.next \in Nat /\ reader.asked \in {0, 1}
         /\ cb.latest.sample \in Nat /\ mf.got.sample \in Nat
         /\ cb.pending \in BOOLEAN /\ cb.shut \in BOOLEAN /\ cb.has \in BOOLEAN
         /\ cb.reader \in BOOLEAN
<1>1. reader \in Reader /\ cb \in Callback /\ mf \in Worker
      /\ newest \in Sample \cup {None}
  BY DEF Played, MediaTypes
<1>2. cb.latest \in Outcome /\ mf.got \in Outcome
  BY <1>1 DEF Callback, Worker
<1>3. cb.latest.sample \in Sample \cup {None}
      /\ mf.got.sample \in Sample \cup {None}
  BY <1>2 DEF Outcome
<1>4. cb.latest.sample \in Nat /\ mf.got.sample \in Nat /\ newest \in Nat
  <2>1. \A n \in Sample \cup {None} : n \in Nat
    BY SampleNumbers
  <2>. QED BY <1>1, <1>3, <2>1
<1>5. reader.next \in Nat /\ reader.asked \in {0, 1}
  BY <1>1 DEF Reader
<1>6. /\ cb.pending \in BOOLEAN /\ cb.shut \in BOOLEAN /\ cb.has \in BOOLEAN
      /\ cb.reader \in BOOLEAN
  BY <1>1 DEF Callback
<1>. QED BY <1>1, <1>2, <1>4, <1>5, <1>6

LEMMA ProducerInitInv == ProducerInit => ProducerInv
<1>. SUFFICES ASSUME ProducerInit PROVE ProducerInv
  OBVIOUS
<1>1. /\ reader = [held |-> FALSE, asked |-> 0, next |-> 1, flushing |-> FALSE]
      /\ cb = [reader |-> FALSE, pending |-> FALSE, shut |-> FALSE,
               has |-> FALSE, latest |-> NoOutcome]
      /\ mf = [at |-> "idle", got |-> NoOutcome]
      /\ main = "start" /\ newest = None /\ backend = "none"
  BY DEF ProducerInit
<1>2. MediaTypes
  BY <1>1, NoneIsOutcome
  DEF ProducerInit, MediaTypes, MainSteps, Reader, Callback, Worker
<1>3. CaptureTypes
  <2>1. override \in Overrides \cup {"auto"}
    BY DEF ProducerInit
  <2>2. /\ None \in Sizes /\ uploaded = <<None, None>>
        /\ resizes = 0 /\ 0 \in 0 .. MaxResizes
    BY ProducerConstants DEF ProducerInit, None
  <2>3. uploaded \in Sizes \X Sizes /\ resizes \in 0 .. MaxResizes
    BY <2>2
  <2>4. {pool, size, texture, cache} \subseteq Sizes /\ shown = None
        /\ window \in Sizes
    BY <2>2 DEF ProducerInit
  <2>5. /\ quit \in BOOLEAN /\ capturing \in BOOLEAN /\ outputs \in BOOLEAN
        /\ fault \in BOOLEAN /\ frame \in {0, 1} /\ wgc = "none"
    BY DEF ProducerInit
  <2>. QED BY <1>1, <2>1, <2>3, <2>4, <2>5 DEF CaptureTypes
<1>4. Untouched
  BY <1>1, NoneIsOutcome DEF Untouched
<1>5. ByKind
  BY <1>1, <1>4 DEF ByKind
<1>6. OneRead /\ AtEnd /\ LetGo
  BY <1>1, <1>4 DEF OneRead, AtEnd, LetGo, MainAsks, WorkerAsks, Waiting,
                    Leaving, Untouched
<1>7. InOrder
  BY <1>1, <1>4 DEF InOrder, Untouched, None
<1>8. UploadFits
  BY DEF ProducerInit, UploadFits
<1>. QED BY <1>2, <1>3, <1>5, <1>6, <1>7, <1>8 DEF ProducerInv, Played

LEMMA AnswerKeeps == Played /\ Answer => Played'
<1>. SUFFICES ASSUME Played, Answer PROVE Played'
  OBVIOUS
<1>1. PICK got \in Outcomes :
        /\ mf' = [at |-> "called", got |-> got]
        /\ reader' = [reader EXCEPT !.asked = @ - 1,
                        !.next = IF got.sample # None THEN @ + 1 ELSE @]
  BY DEF Answer
<1>2. reader.asked = 1 /\ mf.at = "idle" /\ Waiting
  BY PlayedTypes DEF Answer, Waiting
<1>3. kind \in Media /\ main # "start"
  BY <1>2 DEF Played, ByKind, Untouched
<1>4. UNCHANGED <<kind, main, newest, cb, backend>>
  BY DEF Answer, captureVars
<1>5. newest < reader.next
  BY DEF Played, InOrder
<1>6. got \in Outcome /\ got.sample \in {None, reader.next}
  <2>1. reader.next \in Nat \ {0}
    BY <1>5, PlayedTypes
  <2>2. \A n \in Sample \cup {None} : Delivered(n) \in Outcome
                                      /\ Delivered(n).sample = n
    BY DEF Delivered, Outcome
  <2>3. EndOfStream \in Outcome /\ EndOfStream.sample = None
    BY DEF EndOfStream, Outcome
  <2>4. CASE kind = "video"
    <3>1. \/ reader.next <= Length /\ got = Delivered(reader.next)
          \/ got = EndOfStream
          \/ got = Failure
      BY <2>4, <1>1 DEF Outcomes
    <3>2. reader.next <= Length => reader.next \in Sample
      BY <2>1, SampleNumbers
    <3>. QED BY <3>1, <3>2, <2>2, <2>3, NoneIsOutcome
  <2>5. CASE kind # "video"
    <3>1. \/ \E n \in {reader.next} \cap Sample : got = Delivered(n)
          \/ got = NoOutcome
          \/ got = Failure
      BY <2>5, <1>1 DEF Outcomes
    <3>. QED BY <3>1, <2>2, NoneIsOutcome
  <2>. QED BY <2>4, <2>5
<1>7. /\ reader' \in Reader /\ mf' \in Worker
      /\ reader'.asked = 0 /\ reader'.held = reader.held
      /\ reader'.flushing = reader.flushing
      /\ reader'.next = IF got.sample # None THEN reader.next + 1
                                             ELSE reader.next
      /\ mf'.at = "called" /\ mf'.got = got
  <2> DEFINE n == IF got.sample # None THEN reader.next + 1 ELSE reader.next
  <2>1. n \in Nat /\ reader.asked - 1 = 0
    BY <1>2, PlayedTypes
  <2>2. reader' = [reader EXCEPT !.asked = reader.asked - 1, !.next = n]
    BY <1>1
  <2>3. mf' \in Worker /\ mf'.at = "called" /\ mf'.got = got
    BY <1>1, <1>6 DEF Worker
  <2>. HIDE DEF n
  <2>4. /\ reader' \in Reader /\ reader'.asked = 0 /\ reader'.next = n
        /\ reader'.held = reader.held /\ reader'.flushing = reader.flushing
    BY <2>1, <2>2, PlayedTypes DEF Reader
  <2>. QED BY <2>3, <2>4 DEF n
<1>8. MediaTypes'
  BY <1>4, <1>7 DEF Played, MediaTypes
<1>9. ByKind'
  BY <1>3, <1>4 DEF Played, ByKind
<1>10. OneRead'
  BY <1>2, <1>4, <1>7 DEF Played, OneRead, MainAsks, WorkerAsks, Waiting
<1>11. AtEnd'
  BY <1>2, <1>4 DEF Played, OneRead, AtEnd
<1>12. InOrder'
  <2>1. reader.next <= reader'.next
        /\ (got.sample # None => got.sample < reader'.next)
    BY <1>6, <1>7, PlayedTypes
  <2>2. reader'.next \in Nat
    BY <1>7, PlayedTypes
  <2>. QED BY <1>4, <1>5, <1>6, <1>7, <2>1, <2>2, PlayedTypes
           DEF Played, InOrder
<1>13. LetGo'
  BY <1>4, <1>7 DEF Played, LetGo, Leaving
<1>. QED BY <1>8, <1>9, <1>10, <1>11, <1>12, <1>13 DEF Played

LEMMA OnFlushKeeps == Played /\ OnFlush => Played'
<1>. SUFFICES ASSUME Played, OnFlush PROVE Played'
  OBVIOUS
<1>1. /\ reader' = [reader EXCEPT !.flushing = FALSE]
      /\ cb' = [cb EXCEPT !.pending = FALSE, !.has = FALSE,
                  !.latest = [cb.latest EXCEPT !.sample = None]]
      /\ reader.flushing
      /\ UNCHANGED <<kind, main, newest, mf, backend>>
  BY DEF OnFlush, captureVars
<1>2. /\ reader' \in Reader /\ reader'.flushing = FALSE
      /\ reader'.held = reader.held
      /\ reader'.asked = reader.asked /\ reader'.next = reader.next
  BY <1>1, PlayedTypes DEF Reader
<1>3. cb' \in Callback /\ cb'.pending = FALSE /\ cb'.has = FALSE
      /\ cb'.latest.sample = None
      /\ cb'.reader = cb.reader /\ cb'.shut = cb.shut
  BY <1>1, PlayedTypes, Emptied DEF Callback
<1>4. cb.shut /\ Leaving
  BY <1>1 DEF Played, LetGo
<1>5. MediaTypes'
  BY <1>1, <1>2, <1>3 DEF Played, MediaTypes
<1>6. ByKind'
  BY <1>1, <1>4 DEF Played, ByKind, Leaving, Untouched
<1>7. OneRead' /\ AtEnd'
  BY <1>1, <1>2, <1>3, <1>4
  DEF Played, OneRead, AtEnd, MainAsks, WorkerAsks, Waiting
<1>8. InOrder'
  BY <1>1, <1>2, <1>3 DEF Played, InOrder
<1>9. LetGo'
  BY <1>1, <1>2, <1>3, <1>4 DEF Played, LetGo, Leaving
<1>. QED BY <1>5, <1>6, <1>7, <1>8, <1>9 DEF Played

LEMMA OnReadSampleKeeps == Played /\ OnReadSample => Played'
<1>. SUFFICES ASSUME Played, OnReadSample PROVE Played'
  OBVIOUS
<1>1. /\ mf.at = "called"
      /\ cb' = Received(cb, mf.got)
      /\ mf' = [mf EXCEPT !.at =
                  IF ~cb.shut /\ ReadsOn(mf.got) THEN "begin" ELSE "idle"]
      /\ UNCHANGED <<kind, main, newest, reader, backend>>
  BY DEF OnReadSample, captureVars
<1>2. mf' \in Worker /\ mf'.got = mf.got
      /\ mf'.at = IF ~cb.shut /\ ReadsOn(mf.got) THEN "begin" ELSE "idle"
  BY <1>1, PlayedTypes DEF Worker
<1>3. /\ cb' \in Callback /\ cb'.reader = cb.reader /\ cb'.shut = cb.shut
      /\ cb'.pending = FALSE
      /\ cb.shut => cb'.has = cb.has /\ cb'.latest = cb.latest
      /\ ~cb.shut => cb'.has = TRUE /\ cb'.latest = mf.got
  BY <1>1, PlayedTypes, ReceivedIs
<1>4. kind \in Media /\ main # "start"
  BY <1>1 DEF Played, ByKind, Untouched
<1>5. MediaTypes'
  BY <1>1, <1>2, <1>3 DEF Played, MediaTypes
<1>6. ByKind'
  BY <1>1, <1>4 DEF Played, ByKind
<1>7. ~MainAsks /\ ~Waiting
  BY <1>1 DEF Played, OneRead, WorkerAsks
<1>8. OneRead'
  BY <1>1, <1>2, <1>3, <1>7
  DEF OneRead, MainAsks, WorkerAsks, Waiting
<1>9. AtEnd'
  BY <1>2, <1>3 DEF AtEnd, ReadsOn
<1>10. InOrder'
  BY <1>1, <1>2, <1>3 DEF Played, InOrder
<1>11. LetGo'
  BY <1>1, <1>3, <1>4 DEF Played, LetGo, Leaving
<1>. QED BY <1>5, <1>6, <1>8, <1>9, <1>10, <1>11 DEF Played

LEMMA WorkerBeginsKeeps == Played /\ WorkerBegins => Played'
<1>. SUFFICES ASSUME Played, WorkerBegins PROVE Played'
  OBVIOUS
<1>1. /\ mf.at = "begin"
      /\ cb' = Begun(cb)
      /\ mf' = [mf EXCEPT !.at = IF MayBegin(cb) THEN "read" ELSE "idle"]
      /\ UNCHANGED <<kind, main, newest, reader, backend>>
  BY DEF WorkerBegins, captureVars
<1>2. mf' \in Worker /\ mf'.got = mf.got
      /\ mf'.at = IF MayBegin(cb) THEN "read" ELSE "idle"
  BY <1>1, PlayedTypes DEF Worker
<1>3. /\ cb' \in Callback /\ cb'.has = cb.has /\ cb'.latest = cb.latest
      /\ cb'.reader = cb.reader /\ cb'.shut = cb.shut
      /\ cb'.pending = (MayBegin(cb) \/ cb.pending)
  BY <1>1, PlayedTypes, BegunIs
<1>4. kind \in Media /\ main # "start"
  BY <1>1 DEF Played, ByKind, Untouched
<1>5. ~MainAsks /\ ~Waiting
  BY <1>1 DEF Played, OneRead
<1>6. MediaTypes'
  BY <1>1, <1>2, <1>3 DEF Played, MediaTypes
<1>7. ByKind'
  BY <1>1, <1>4 DEF Played, ByKind
<1>8. OneRead'
  <2>1. ~MainAsks' /\ ~Waiting' /\ (WorkerAsks' <=> MayBegin(cb))
    BY <1>1, <1>2, <1>5 DEF MainAsks, Waiting, WorkerAsks
  <2>2. ~cb.shut => ~cb.pending
    BY <1>1, <1>5 DEF Played, OneRead, WorkerAsks
  <2>3. cb.shut => ~cb.pending /\ ~MayBegin(cb)
    BY DEF Played, OneRead, MayBegin
  <2>4. mf'.at # "begin"
    BY <1>2
  <2>. QED BY <1>3, <2>1, <2>2, <2>3, <2>4 DEF OneRead
<1>9. AtEnd'
  BY <1>1, <1>3 DEF Played, AtEnd
<1>10. InOrder'
  BY <1>1, <1>2, <1>3 DEF Played, InOrder
<1>11. LetGo'
  BY <1>1, <1>3 DEF Played, LetGo, Leaving
<1>. QED BY <1>6, <1>7, <1>8, <1>9, <1>10, <1>11 DEF Played

(* Of a read that ReadSample asks for, or that was refused.                *)
LEMMA AskedIs ==
  ASSUME reader \in Reader, reader.asked = 0
  PROVE  LET r == [reader EXCEPT !.asked = @ + 1] IN
         /\ r \in Reader /\ r.asked = 1 /\ r.held = reader.held
         /\ r.next = reader.next /\ r.flushing = reader.flushing
<1>1. [reader EXCEPT !.asked = @ + 1] = [reader EXCEPT !.asked = 1]
  <2>1. reader.asked + 1 = 1
    OBVIOUS
  <2>. QED BY <2>1
<1>. QED BY <1>1 DEF Reader

LEMMA WorkerReadsKeeps == Played /\ WorkerReads => Played'
<1>. SUFFICES ASSUME Played, WorkerReads PROVE Played'
  OBVIOUS
<1>1. /\ mf.at = "read"
      /\ mf' = [mf EXCEPT !.at = "idle"]
      /\ UNCHANGED <<kind, main, newest, backend>>
  BY DEF WorkerReads, captureVars
<1>2. mf' \in Worker /\ mf'.got = mf.got /\ mf'.at = "idle"
  BY <1>1, PlayedTypes DEF Worker
<1>3. /\ kind \in Media /\ main # "start" /\ ~MainAsks /\ reader.asked = 0
      /\ (~cb.shut => cb.pending) /\ (cb.shut => ~cb.pending)
  <2>1. kind \in Media /\ main # "start"
    BY <1>1 DEF Played, ByKind, Untouched
  <2>2. WorkerAsks /\ ~MainAsks /\ ~Waiting
    BY <1>1 DEF Played, OneRead, WorkerAsks
  <2>3. reader.asked = 0
    BY <2>2, PlayedTypes DEF Waiting
  <2>. QED BY <2>1, <2>2, <2>3 DEF Played, OneRead
<1>4. \/ reader' = [reader EXCEPT !.asked = @ + 1] /\ cb' = cb
      \/ cb' = Refused(cb) /\ reader' = reader
  BY DEF WorkerReads, ReadSample
<1>5. CASE reader' = [reader EXCEPT !.asked = @ + 1] /\ cb' = cb
  <2>1. /\ reader' \in Reader /\ reader'.asked = 1
        /\ reader'.held = reader.held
        /\ reader'.next = reader.next /\ reader'.flushing = reader.flushing
    BY <1>3, <1>5, PlayedTypes, AskedIs
  <2>2. MediaTypes' /\ ByKind'
    BY <1>1, <1>2, <1>3, <1>5, <2>1 DEF Played, MediaTypes, ByKind
  <2>3. OneRead'
    BY <1>1, <1>2, <1>3, <1>5, <2>1
    DEF OneRead, MainAsks, WorkerAsks, Waiting
  <2>4. AtEnd' /\ InOrder' /\ LetGo'
    BY <1>1, <1>2, <1>5, <2>1
    DEF Played, AtEnd, InOrder, LetGo, Leaving
  <2>. QED BY <2>2, <2>3, <2>4 DEF Played
<1>6. CASE cb' = Refused(cb) /\ reader' = reader
  <2>1. /\ cb' \in Callback /\ cb'.has = TRUE /\ cb'.latest = Failure
        /\ cb'.reader = cb.reader /\ cb'.shut = cb.shut
        /\ cb'.pending = FALSE
    BY <1>6, PlayedTypes, RefusedIs
  <2>2. MediaTypes' /\ ByKind'
    BY <1>1, <1>2, <1>3, <1>6, <2>1 DEF Played, MediaTypes, ByKind
  <2>3. OneRead'
    BY <1>1, <1>2, <1>3, <1>6, <2>1
    DEF OneRead, MainAsks, WorkerAsks, Waiting
  <2>4. AtEnd' /\ InOrder' /\ LetGo'
    BY <1>1, <1>2, <1>6, <2>1, NoneIsOutcome
    DEF Played, AtEnd, InOrder, LetGo, Leaving
  <2>. QED BY <2>2, <2>3, <2>4 DEF Played
<1>. QED BY <1>4, <1>5, <1>6

LEMMA InitializeReaderKeeps == Played /\ InitializeReader => Played'
<1>. SUFFICES ASSUME Played, InitializeReader PROVE Played'
  OBVIOUS
<1>1. /\ main = "start" /\ kind \in Media /\ main' = "first"
      /\ reader' = [reader EXCEPT !.held = TRUE] /\ cb' = Begun(ReaderSet)
      /\ UNCHANGED <<kind, newest, mf, backend>>
  BY DEF InitializeReader, captureVars
<1>2. Untouched /\ backend = "none"
  BY <1>1 DEF Played, ByKind
<1>3. /\ reader' \in Reader /\ reader'.asked = 0 /\ reader'.next = reader.next
      /\ reader'.flushing = reader.flushing
  BY <1>1, <1>2, PlayedTypes DEF Reader, Untouched
<1>4. /\ ReaderSet \in Callback /\ ReaderSet.has = FALSE
      /\ ReaderSet.latest.sample = None /\ ReaderSet.reader = TRUE
      /\ ReaderSet.pending = FALSE /\ ReaderSet.shut = FALSE
  BY PlayedTypes, ReaderSetIs
<1>5. /\ cb' \in Callback /\ cb'.has = FALSE /\ cb'.latest.sample = None
      /\ cb'.reader = TRUE /\ cb'.shut = FALSE /\ cb'.pending = TRUE
  BY <1>1, <1>4, BegunIs DEF MayBegin
<1>6. MediaTypes'
  BY <1>1, <1>3, <1>5 DEF Played, MediaTypes, MainSteps
<1>7. ByKind'
  BY <1>1, <1>2 DEF ByKind
<1>8. OneRead' /\ AtEnd'
  BY <1>1, <1>2, <1>3, <1>5
  DEF OneRead, AtEnd, MainAsks, WorkerAsks, Waiting, Untouched
<1>9. InOrder'
  BY <1>1, <1>3, <1>5 DEF Played, InOrder
<1>10. LetGo'
  BY <1>1, <1>2, <1>3, <1>5 DEF Played, LetGo, Leaving, Untouched
<1>. QED BY <1>6, <1>7, <1>8, <1>9, <1>10 DEF Played

LEMMA InitializeFailsKeeps == Played /\ InitializeFails => Played'
<1>. SUFFICES ASSUME Played, InitializeFails PROVE Played'
  OBVIOUS
<1>1. /\ main = "start" /\ main' = "failed"
      /\ UNCHANGED <<kind, newest, mf, backend>>
  BY DEF InitializeFails, captureVars
<1>2. Untouched
  BY <1>1 DEF Played, ByKind
<1>3. \/ UNCHANGED <<reader, cb>>
      \/ /\ kind \in Media
         /\ reader' = [reader EXCEPT !.held = TRUE] /\ cb' = ReaderSet
  BY DEF InitializeFails
<1>4. /\ reader' \in Reader /\ reader'.asked = 0 /\ reader'.next = reader.next
      /\ reader'.flushing = reader.flushing
  BY <1>2, <1>3, PlayedTypes DEF Reader, Untouched
<1>5. /\ cb' \in Callback /\ cb'.has = FALSE /\ cb'.latest.sample = None
      /\ cb'.pending = FALSE /\ cb'.shut = FALSE
  BY <1>2, <1>3, PlayedTypes, ReaderSetIs DEF Untouched
<1>6. MediaTypes'
  BY <1>1, <1>4, <1>5 DEF Played, MediaTypes, MainSteps
<1>7. ByKind'
  BY <1>1, <1>2, <1>3 DEF Played, ByKind, Untouched
<1>8. OneRead' /\ AtEnd'
  BY <1>1, <1>2, <1>4, <1>5
  DEF OneRead, AtEnd, MainAsks, WorkerAsks, Waiting, Untouched
<1>9. InOrder'
  BY <1>1, <1>4, <1>5 DEF Played, InOrder
<1>10. LetGo'
  BY <1>1, <1>2, <1>4, <1>5 DEF Played, LetGo, Leaving, Untouched
<1>. QED BY <1>6, <1>7, <1>8, <1>9, <1>10 DEF Played

LEMMA MainReadsKeeps == Played /\ MainReads => Played'
<1>. SUFFICES ASSUME Played, MainReads PROVE Played'
  OBVIOUS
<1>1. UNCHANGED <<kind, newest, mf, backend>> /\ main \in {"first", "read"}
  BY DEF MainReads, captureVars
<1>2. kind \in Media
  BY <1>1 DEF Played, ByKind
<1>3. /\ MainAsks /\ ~WorkerAsks /\ ~Waiting /\ mf.at # "begin"
      /\ ~cb.shut /\ cb.pending
  BY <1>1 DEF Played, OneRead, MainAsks, LetGo, Leaving
<1>4. reader.asked = 0 /\ mf.at \notin {"begin", "read", "called"}
  BY <1>3, PlayedTypes DEF Waiting, WorkerAsks
<1>5. \/ /\ reader' = [reader EXCEPT !.asked = @ + 1] /\ cb' = cb
         /\ main' = "loop"
      \/ cb' = Refused(cb) /\ reader' = reader /\ main' = "loop"
      \/ cb' = Shut(cb) /\ reader' = reader /\ main' = "flush"
  BY DEF MainReads, BeginsShutdown
<1>6. CASE /\ reader' = [reader EXCEPT !.asked = @ + 1] /\ cb' = cb
           /\ main' = "loop"
  <2>1. /\ reader' \in Reader /\ reader'.asked = 1
        /\ reader'.held = reader.held
        /\ reader'.next = reader.next /\ reader'.flushing = reader.flushing
    BY <1>4, <1>6, PlayedTypes, AskedIs
  <2>2. MediaTypes' /\ ByKind'
    BY <1>1, <1>2, <1>6, <2>1 DEF Played, MediaTypes, ByKind, MainSteps
  <2>3. OneRead'
    BY <1>1, <1>3, <1>4, <1>6, <2>1
    DEF OneRead, MainAsks, WorkerAsks, Waiting
  <2>4. AtEnd' /\ InOrder' /\ LetGo'
    BY <1>1, <1>3, <1>6, <2>1 DEF Played, AtEnd, InOrder, LetGo, Leaving
  <2>. QED BY <2>2, <2>3, <2>4 DEF Played
<1>7. CASE cb' = Refused(cb) /\ reader' = reader /\ main' = "loop"
  <2>1. /\ cb' \in Callback /\ cb'.has = TRUE /\ cb'.latest = Failure
        /\ cb'.reader = cb.reader /\ cb'.shut = FALSE
        /\ cb'.pending = FALSE
    BY <1>3, <1>7, PlayedTypes, RefusedIs
  <2>2. MediaTypes' /\ ByKind'
    BY <1>1, <1>2, <1>7, <2>1 DEF Played, MediaTypes, ByKind, MainSteps
  <2>3. OneRead'
    BY <1>1, <1>3, <1>4, <1>7, <2>1
    DEF OneRead, MainAsks, WorkerAsks, Waiting
  <2>4. AtEnd' /\ InOrder' /\ LetGo'
    BY <1>1, <1>3, <1>7, <2>1, NoneIsOutcome
    DEF Played, AtEnd, InOrder, LetGo, Leaving
  <2>. QED BY <2>2, <2>3, <2>4 DEF Played
<1>8. CASE cb' = Shut(cb) /\ reader' = reader /\ main' = "flush"
  <2>1. /\ cb' \in Callback /\ cb'.has = FALSE /\ cb'.latest.sample = None
        /\ cb'.reader = FALSE /\ cb'.pending = FALSE /\ cb'.shut = TRUE
    BY <1>8, PlayedTypes, ShutIs
  <2>2. MediaTypes' /\ ByKind'
    BY <1>1, <1>2, <1>8, <2>1 DEF Played, MediaTypes, ByKind, MainSteps
  <2>3. OneRead'
    BY <1>1, <1>3, <1>4, <1>8, <2>1
    DEF OneRead, MainAsks, WorkerAsks, Waiting
  <2>4. AtEnd' /\ InOrder' /\ LetGo'
    BY <1>1, <1>3, <1>8, <2>1 DEF Played, AtEnd, InOrder, LetGo, Leaving
  <2>. QED BY <2>2, <2>3, <2>4 DEF Played
<1>. QED BY <1>5, <1>6, <1>7, <1>8

(* ProcessFrame takes a sample, and publishes it or not.                   *)
LEMMA TakeKeeps ==
  ASSUME Played, cb.has, cb' = Taken(cb), main = "loop",
         UNCHANGED <<kind, main, reader, mf, backend>>,
         \/ newest' = newest
         \/ cb.latest.sample # None /\ newest' = cb.latest.sample
  PROVE  Played'
<1>1. /\ cb' \in Callback /\ cb'.has = FALSE /\ cb'.latest.sample = None
      /\ cb'.reader = cb.reader /\ cb'.pending = cb.pending
      /\ cb'.shut = cb.shut
  BY PlayedTypes, TakenIs
<1>2. newest' \in Sample \cup {None}
  <2>1. cb.latest.sample \in Sample \cup {None}
    BY PlayedTypes DEF Outcome
  <2>. QED BY <2>1 DEF Played, MediaTypes
<1>3. MediaTypes'
  BY <1>1, <1>2 DEF Played, MediaTypes
<1>4. kind \in Media /\ main # "start"
  BY DEF Played, ByKind, Untouched
<1>5. ByKind'
  BY <1>4 DEF Played, ByKind
<1>6. OneRead' /\ AtEnd'
  BY <1>1 DEF Played, OneRead, AtEnd, MainAsks, WorkerAsks, Waiting
<1>7. InOrder'
  <2>1. CASE newest' = newest
    BY <1>1, <2>1 DEF Played, InOrder
  <2>2. CASE cb.latest.sample # None /\ newest' = cb.latest.sample
    BY <1>1, <2>2 DEF Played, InOrder
  <2>. QED BY <2>1, <2>2
<1>8. LetGo'
  BY <1>1 DEF Played, LetGo, Leaving
<1>. QED BY <1>3, <1>5, <1>6, <1>7, <1>8 DEF Played

LEMMA RestartFileKeeps == Played /\ RestartFile => Played'
<1>. SUFFICES ASSUME Played, RestartFile PROVE Played'
  OBVIOUS
<1>1. /\ main = "loop" /\ cb.has /\ cb.latest.ok /\ cb.latest.end
      /\ UNCHANGED <<kind, mf, backend>>
  BY DEF RestartFile, captureVars
<1>2. \/ /\ reader.asked = 0
         /\ reader' = [reader EXCEPT !.next = 1]
         /\ newest' = None
         /\ cb' = Begun(Taken(cb))
         /\ main' = IF MayBegin(cb) THEN "read" ELSE "loop"
      \/ cb' = Taken(cb) /\ UNCHANGED <<reader, newest, main>>
  BY DEF RestartFile
<1>3. CASE cb' = Taken(cb) /\ UNCHANGED <<reader, newest, main>>
  BY <1>1, <1>3, TakeKeeps
<1>4. CASE /\ reader.asked = 0
           /\ reader' = [reader EXCEPT !.next = 1]
           /\ newest' = None
           /\ cb' = Begun(Taken(cb))
           /\ main' = IF MayBegin(cb) THEN "read" ELSE "loop"
  <2>1. ~cb.shut /\ ~cb.pending /\ mf.at = "idle" /\ kind \in Media
    BY <1>1 DEF Played, LetGo, Leaving, AtEnd, ByKind, Untouched
  <2>2. /\ Taken(cb) \in Callback /\ Taken(cb).has = FALSE
        /\ Taken(cb).latest.sample = None /\ Taken(cb).reader = cb.reader
        /\ Taken(cb).pending = FALSE /\ Taken(cb).shut = FALSE
    BY <2>1, PlayedTypes, TakenIs
  <2>3. /\ cb' \in Callback /\ cb'.has = FALSE /\ cb'.latest.sample = None
        /\ cb'.reader = cb.reader /\ cb'.shut = FALSE
        /\ cb'.pending = MayBegin(cb)
    BY <1>4, <2>1, <2>2, BegunIs, PlayedTypes DEF MayBegin
  <2>4. /\ reader' \in Reader /\ reader'.next = 1 /\ reader'.asked = 0
        /\ reader'.held = reader.held /\ reader'.flushing = reader.flushing
    BY <1>4, PlayedTypes DEF Reader
  <2>5. MediaTypes' /\ ByKind'
    BY <1>1, <1>4, <2>1, <2>3, <2>4
    DEF Played, MediaTypes, ByKind, MainSteps
  <2>6. OneRead' /\ AtEnd'
    <3>1. ~WorkerAsks' /\ ~Waiting' /\ (MainAsks' <=> MayBegin(cb))
          /\ mf'.at # "begin"
      BY <1>1, <1>4, <2>1, <2>4 DEF MainAsks, Waiting, WorkerAsks
    <3>. QED BY <2>3, <3>1 DEF OneRead, AtEnd
  <2>7. InOrder'
    BY <1>1, <1>4, <2>1, <2>3, <2>4 DEF InOrder, None
  <2>8. LetGo'
    BY <1>1, <1>4, <2>1, <2>3, <2>4 DEF Played, LetGo, Leaving
  <2>. QED BY <2>5, <2>6, <2>7, <2>8 DEF Played
<1>. QED BY <1>2, <1>3, <1>4

LEMMA ShutdownReaderKeeps == Played /\ ShutdownReader => Played'
<1>. SUFFICES ASSUME Played, ShutdownReader PROVE Played'
  OBVIOUS
<1>1. /\ main = "loop" /\ kind \in Media
      /\ cb' = Shut(cb) /\ main' = "flush"
      /\ UNCHANGED <<kind, newest, reader, mf, backend>>
  BY DEF ShutdownReader, BeginsShutdown, captureVars
<1>2. /\ cb' \in Callback /\ cb'.has = FALSE /\ cb'.latest.sample = None
      /\ cb'.reader = FALSE /\ cb'.pending = FALSE /\ cb'.shut = TRUE
  BY <1>1, PlayedTypes, ShutIs
<1>3. MediaTypes' /\ ByKind'
  BY <1>1, <1>2 DEF Played, MediaTypes, ByKind, MainSteps
<1>4. OneRead' /\ AtEnd'
  BY <1>1, <1>2 DEF Played, OneRead, AtEnd, MainAsks, WorkerAsks, Waiting
<1>5. InOrder' /\ LetGo'
  BY <1>1, <1>2 DEF Played, InOrder, LetGo, Leaving
<1>. QED BY <1>3, <1>4, <1>5 DEF Played

LEMMA FlushKeeps == Played /\ Flush => Played'
<1>. SUFFICES ASSUME Played, Flush PROVE Played'
  OBVIOUS
<1>1. /\ main = "flush" /\ main' = "drop"
      /\ reader' = [reader EXCEPT !.asked = 0, !.flushing = TRUE]
      /\ UNCHANGED <<kind, newest, cb, mf, backend>>
  BY DEF Flush, captureVars
<1>2. kind \in Media /\ cb.shut
  BY <1>1 DEF Played, ByKind, LetGo, Leaving
<1>3. /\ reader' \in Reader /\ reader'.asked = 0 /\ reader'.held = reader.held
      /\ reader'.next = reader.next
  BY <1>1, PlayedTypes DEF Reader
<1>4. MediaTypes' /\ ByKind'
  BY <1>1, <1>2, <1>3 DEF Played, MediaTypes, ByKind, MainSteps
<1>5. OneRead' /\ AtEnd'
  BY <1>1, <1>2, <1>3 DEF Played, OneRead, AtEnd, MainAsks, WorkerAsks, Waiting
<1>6. InOrder' /\ LetGo'
  BY <1>1, <1>2, <1>3 DEF Played, InOrder, LetGo, Leaving
<1>. QED BY <1>4, <1>5, <1>6 DEF Played

LEMMA DropReaderKeeps == Played /\ DropReader => Played'
<1>. SUFFICES ASSUME Played, DropReader PROVE Played'
  OBVIOUS
<1>1. /\ main = "drop" /\ main' = "done"
      /\ reader' = [reader EXCEPT !.held = FALSE]
      /\ UNCHANGED <<kind, newest, cb, mf, backend>>
  BY DEF DropReader, captureVars
<1>2. kind \in Media /\ cb.shut
  BY <1>1 DEF Played, ByKind, LetGo, Leaving
<1>3. /\ reader' \in Reader /\ reader'.asked = reader.asked
      /\ reader'.held = FALSE /\ reader'.next = reader.next
  BY <1>1, PlayedTypes DEF Reader
<1>4. MediaTypes' /\ ByKind'
  BY <1>1, <1>2, <1>3 DEF Played, MediaTypes, ByKind, MainSteps
<1>5. OneRead' /\ AtEnd'
  BY <1>1, <1>2, <1>3 DEF Played, OneRead, AtEnd, MainAsks, WorkerAsks, Waiting
<1>6. InOrder' /\ LetGo'
  BY <1>1, <1>2, <1>3 DEF Played, InOrder, LetGo, Leaving
<1>. QED BY <1>4, <1>5, <1>6 DEF Played

(* The steps of the others, and of the surroundings.                       *)
LEMMA OthersKeep ==
  ASSUME Played, UNCHANGED <<kind, newest, reader, cb, mf>>,
         main' \in MainSteps \ {"first", "read", "flush", "drop"},
         \/ main' = main /\ (backend' = backend \/ kind \notin Media)
         \/ kind \notin Media
  PROVE  Played'
<1>1. MediaTypes'
  BY DEF Played, MediaTypes
<1>2. CASE kind \notin Media
  <2>1. Untouched /\ Untouched' /\ kind' \notin Media
    BY <1>2 DEF Played, ByKind, Untouched
  <2>2. ByKind'
    BY <2>1 DEF ByKind
  <2>3. OneRead' /\ AtEnd'
    BY <2>1 DEF OneRead, AtEnd, MainAsks, WorkerAsks, Waiting, Untouched
  <2>4. InOrder' /\ LetGo'
    BY <2>1 DEF Played, InOrder, LetGo, Leaving, Untouched
  <2>. QED BY <1>1, <2>2, <2>3, <2>4 DEF Played
<1>3. CASE main' = main /\ backend' = backend
  BY <1>3 DEF Played, MediaTypes, ByKind, Untouched, OneRead, AtEnd, InOrder,
              LetGo, Leaving, MainAsks, WorkerAsks, Waiting
<1>. QED BY <1>2, <1>3

-----------------------------------------------------------------------------
(* What is captured of a window: whatever fails, the bits are uploaded to  *)
(* a texture that was made for the same size.                              *)

GdiState ==
  {s \in [size : Sizes, texture : Sizes, cache : Sizes,
          uploaded : Sizes \X Sizes] : s.uploaded[1] = s.uploaded[2]}

LEMMA EnsuredIs ==
  ASSUME NEW have, NEW w, w # None
  PROVE  /\ Ensured(have, w) \subseteq {w, None}
         /\ Cached(have, w) \subseteq {w, None}
         /\ EnsuredAgain(have, w) \ {None} = {w}
  BY DEF Ensured, Cached, EnsuredAgain

LEMMA GdiFramesFit ==
  ASSUME window \in Sizes, NEW s \in GdiState, NEW f \in GdiFrames(s)
  PROVE  f.left \in GdiState
<1> DEFINE w == window
           sized == [s EXCEPT !.size = w]
           made == IF s.size = w THEN {} ELSE Ensured(s.texture, w)
           textures == IF s.size = w THEN {s.texture} ELSE made \ {None}
           caches == Cached(s.cache, w)
           first == {[sized EXCEPT !.texture = t] : t \in made \cap {None}}
           second == {[sized EXCEPT !.texture = p[1], !.cache = p[2]] :
                        p \in textures \X caches}
           third == {[sized EXCEPT !.texture = None, !.cache = c] :
                       c \in IF None \in textures THEN caches \ {None} ELSE {}}
           again == (UNION {EnsuredAgain(u, w) : u \in textures}) \ {None}
           last == {[sized EXCEPT !.texture = p[1], !.cache = p[2],
                                  !.uploaded = p] :
                      p \in again \X (caches \ {None})}
<1>1. CASE w = 0
  BY <1>1 DEF GdiFrames
<1>2. CASE w # 0
  <2>1. made \subseteq {w, None} /\ caches \subseteq {w, None}
    BY <1>2, EnsuredIs DEF None
  <2>2. None \in Sizes /\ w \in Sizes /\ s.texture \in Sizes
    BY ProducerConstants DEF None, GdiState
  <2>3. textures \subseteq Sizes /\ made \subseteq Sizes
        /\ caches \subseteq Sizes
    BY <2>1, <2>2
  <2>4. \A t, c \in Sizes :
          /\ [sized EXCEPT !.texture = t] \in GdiState
          /\ [sized EXCEPT !.texture = t, !.cache = c] \in GdiState
    BY <2>2 DEF GdiState
  <2>5. [sized EXCEPT !.texture = w, !.cache = w, !.uploaded = <<w, w>>]
          \in GdiState
    BY <2>2 DEF GdiState
  <2>6. f.left \in first \cup second \cup third \cup last
    <3>1. GdiFrames(s) =
            IF w = 0
            THEN {[left |-> s, drawn |-> FALSE]}
            ELSE {[left |-> r, drawn |-> FALSE] :
                    r \in first \cup second \cup third \cup last}
                 \cup {[left |-> r, drawn |-> TRUE] : r \in last}
      BY Zenon DEF GdiFrames
    <3>. HIDE DEF w, first, second, third, last
    <3>. QED BY <1>2, <3>1
  <2>. HIDE DEF w, sized, made, textures, caches, again, first, second, third,
                last
  <2>7. first \subseteq GdiState
    BY <2>3, <2>4 DEF first
  <2>8. second \subseteq GdiState
    <3>1. \A p \in textures \X caches : p[1] \in Sizes /\ p[2] \in Sizes
      BY <2>3
    <3>2. \A p \in textures \X caches :
            [sized EXCEPT !.texture = p[1], !.cache = p[2]] \in GdiState
      BY <2>4, <3>1
    <3>. QED BY <3>2 DEF second
  <2>9. third \subseteq GdiState
    BY <2>2, <2>3, <2>4 DEF third
  <2>10. last \subseteq GdiState
    <3>1. \A u : EnsuredAgain(u, w) \ {None} = {w}
      BY <1>2, EnsuredIs DEF None, w
    <3>2. again \subseteq {w} /\ caches \ {None} \subseteq {w}
      BY <2>1, <3>1 DEF again
    <3>3. \A p \in again \X (caches \ {None}) :
            p = <<w, w>> /\ p[1] = w /\ p[2] = w
      BY <3>2
    <3>. QED BY <2>5, <3>3 DEF last
  <2>. QED BY <2>6, <2>7, <2>8, <2>9, <2>10
<1>. QED BY <1>1, <1>2

Captured == CaptureTypes /\ UploadFits

LEMMA GdiFits ==
  ASSUME Captured
  PROVE  /\ Gdi \in GdiState
         /\ window \in Sizes /\ FirstSize(Gdi) \in GdiState
<1>1. Gdi \in GdiState /\ window \in Sizes
  BY DEF Captured, CaptureTypes, UploadFits, Gdi, GdiState
<1>. QED BY <1>1 DEF FirstSize, GdiState

LEMMA LeavesFit ==
  ASSUME NEW s \in GdiState, Leaves(s)
  PROVE  /\ {size, texture, cache}' \subseteq Sizes
         /\ uploaded' \in Sizes \X Sizes /\ UploadFits'
  BY DEF GdiState, Leaves, UploadFits

(* The steps of the reader leave what is captured alone.                   *)
LEMMA MediaCaptures ==
  ASSUME Captured, UNCHANGED <<override, captureVars, windowVars>>,
         {quit, capturing, outputs, fault}' \subseteq BOOLEAN,
         frame' \in {0, 1}, shown' \in Sample \cup Sizes \cup {None}
  PROVE  Captured'
  BY DEF Captured, CaptureTypes, UploadFits, captureVars, windowVars

LEMMA Pictures ==
  ASSUME Captured, NEW picture \in Sample \cup Sizes, Published(picture)
  PROVE  frame' \in {0, 1} /\ shown' \in Sample \cup Sizes \cup {None}
         /\ frame' # frame
<1>1. frame \in {0, 1} /\ frame' = 1 - frame
  BY DEF Captured, CaptureTypes, Published
<1>2. frame' \in {0, 1} /\ frame' # frame
  BY <1>1
<1>. QED BY <1>2 DEF Published

LEMMA MediaFoundationCaptures ==
  Captured /\ Played /\ MediaFoundation => Captured' /\ frame' = frame
<1>. SUFFICES ASSUME Captured, Played, MediaFoundation
              PROVE  Captured' /\ frame' = frame
  OBVIOUS
<1>1. /\ UNCHANGED <<override, captureVars, windowVars>>
      /\ UNCHANGED <<quit, capturing, outputs, frame, shown>>
  BY DEF MediaFoundation, Answer, OnFlush, OnReadSample, WorkerBegins,
         WorkerReads
<1>2. \/ fault' = fault
      \/ \E b \in BOOLEAN : fault' = (fault \/ b)
      \/ fault' = TRUE
  <2>1. CASE Answer
    <3>1. PICK got \in Outcomes : fault' = (fault \/ ~got.ok)
      BY <2>1 DEF Answer
    <3>2. (~got.ok) \in BOOLEAN
      OBVIOUS
    <3>. QED BY <3>1, <3>2
  <2>2. CASE OnFlush \/ OnReadSample \/ WorkerBegins
    BY <2>2 DEF OnFlush, OnReadSample, WorkerBegins
  <2>3. CASE WorkerReads
    BY <2>3 DEF WorkerReads, ReadSample
  <2>. QED BY <2>1, <2>2, <2>3 DEF MediaFoundation
<1>3. {quit, capturing, outputs, fault}' \subseteq BOOLEAN
  BY <1>1, <1>2 DEF Captured, CaptureTypes
<1>4. frame' \in {0, 1} /\ shown' \in Sample \cup Sizes \cup {None}
  BY <1>1 DEF Captured, CaptureTypes
<1>. QED BY <1>1, <1>3, <1>4, MediaCaptures

LEMMA ReaderStepsCapture ==
  /\ Captured
  /\ \/ InitializeReader \/ InitializeImage \/ InitializeFails \/ MainReads
     \/ ShutdownReader \/ Flush \/ DropReader \/ PostQuit
     \/ TakeForNothing \/ RestartFile
  => Captured' /\ frame' = frame
<1>. SUFFICES ASSUME Captured,
               \/ InitializeReader \/ InitializeImage \/ InitializeFails
               \/ MainReads \/ ShutdownReader \/ Flush \/ DropReader
               \/ PostQuit \/ TakeForNothing \/ RestartFile
              PROVE  Captured' /\ frame' = frame
  OBVIOUS
<1>. USE DEF InitializeReader, InitializeImage, InitializeFails, MainReads,
             ShutdownReader, Flush, DropReader, PostQuit, TakeForNothing,
             RestartFile, BeginsShutdown, mediaVars
<1>1. UNCHANGED <<override, captureVars, windowVars, frame, shown>>
  OBVIOUS
<1>2. quit' = quit \/ quit' = TRUE
  OBVIOUS
<1>3. capturing' = capturing \/ capturing' \in BOOLEAN
  OBVIOUS
<1>4. outputs' = outputs \/ outputs' \in BOOLEAN
  OBVIOUS
<1>5. \/ fault' = fault \/ fault' = TRUE
      \/ fault' = (fault \/ cb.latest.sample # None)
      \/ fault' = (fault \/ reader.asked = 0)
  OBVIOUS
<1>6. fault \in BOOLEAN => fault' \in BOOLEAN
  BY <1>5
<1>7. {quit, capturing, outputs, fault}' \subseteq BOOLEAN
  BY <1>2, <1>3, <1>4, <1>6 DEF Captured, CaptureTypes
<1>8. frame' \in {0, 1} /\ shown' \in Sample \cup Sizes \cup {None}
  BY <1>1 DEF Captured, CaptureTypes
<1>. QED BY <1>1, <1>7, <1>8, MediaCaptures

LEMMA PublishSampleCaptures == Captured /\ Played /\ PublishSample => Captured'
<1>. SUFFICES ASSUME Captured, Played, PublishSample PROVE Captured'
  OBVIOUS
<1>1. /\ UNCHANGED <<override, captureVars, windowVars>>
      /\ UNCHANGED <<quit, capturing, outputs, fault>>
      /\ Published(cb.latest.sample) /\ cb.latest.sample # None
  BY DEF PublishSample
<1>2. cb.latest.sample \in Sample
  BY <1>1, PlayedTypes DEF Outcome
<1>3. frame' \in {0, 1} /\ shown' \in Sample \cup Sizes \cup {None}
  BY <1>1, <1>2, Pictures
<1>4. {quit, capturing, outputs, fault}' \subseteq BOOLEAN
  BY <1>1 DEF Captured, CaptureTypes
<1>. QED BY <1>1, <1>3, <1>4, MediaCaptures

LEMMA PublishImageCaptures == Captured /\ PublishImage => Captured'
<1>. SUFFICES ASSUME Captured, PublishImage PROVE Captured'
  OBVIOUS
<1>1. /\ UNCHANGED <<override, captureVars, windowVars>>
      /\ UNCHANGED <<quit, capturing, outputs, fault>>
      /\ Published(1)
  BY DEF PublishImage, mediaVars
<1>2. frame' \in {0, 1} /\ shown' \in Sample \cup Sizes \cup {None}
  BY <1>1, SampleNumbers, Pictures
<1>3. {quit, capturing, outputs, fault}' \subseteq BOOLEAN
  BY <1>1 DEF Captured, CaptureTypes
<1>. QED BY <1>1, <1>2, <1>3, MediaCaptures

(* The steps that capture, in terms of what they leave.                    *)
LEMMA CaptureKeeps ==
  ASSUME Captured, UNCHANGED <<override, quit, fault>>,
         {capturing, outputs}' \subseteq BOOLEAN,
         frame' \in {0, 1}, shown' \in Sample \cup Sizes \cup {None},
         backend' \in {"none", "wgc", "printwindow", "bitblt"},
         wgc' \in {"none", "partial", "running"},
         pool' \in Sizes, {size, texture, cache}' \subseteq Sizes,
         uploaded' \in Sizes \X Sizes, UploadFits',
         window' \in Sizes, resizes' \in 0 .. MaxResizes
  PROVE  Captured'
  BY DEF Captured, CaptureTypes

LEMMA CapturedIs ==
  ASSUME Captured
  PROVE  /\ {capturing, outputs} \subseteq BOOLEAN
         /\ frame \in {0, 1} /\ shown \in Sample \cup Sizes \cup {None}
         /\ backend \in {"none", "wgc", "printwindow", "bitblt"}
         /\ wgc \in {"none", "partial", "running"}
         /\ pool \in Sizes /\ {size, texture, cache} \subseteq Sizes
         /\ uploaded \in Sizes \X Sizes /\ uploaded[1] = uploaded[2]
         /\ window \in Sizes /\ resizes \in 0 .. MaxResizes
         /\ None \in Sizes
  BY ProducerConstants DEF Captured, CaptureTypes, UploadFits, None

LEMMA WgcStepsCapture ==
  Captured /\ (InitWgc \/ WgcFails \/ ShutdownCapture)
    => Captured' /\ frame' = frame
<1>. SUFFICES ASSUME Captured, InitWgc \/ WgcFails \/ ShutdownCapture
              PROVE  Captured' /\ frame' = frame
  OBVIOUS
<1>. USE DEF InitWgc, WgcFails, ShutdownCapture, OutputsReset, mediaVars,
             windowVars
<1>1. UNCHANGED <<override, quit, fault, frame, shown, uploaded, window,
                  resizes>>
  OBVIOUS
<1>2. backend' = backend \/ backend' \in {"none", "wgc"}
  OBVIOUS
<1>3. wgc' \in {"none", "partial", "running"}
  OBVIOUS
<1>4. /\ size' \in {size, pool', None} /\ texture' \in {texture, None}
      /\ cache' \in {cache, None}
  OBVIOUS
<1>10. pool' \in ItemSizes \cup {None}
  OBVIOUS
<1>11. pool' \in Sizes
  BY <1>10, CapturedIs DEF ItemSizes
<1>5. capturing' = capturing \/ capturing' \in BOOLEAN
  OBVIOUS
<1>6. outputs' \in BOOLEAN
  OBVIOUS
<1>7. {size, texture, cache}' \subseteq Sizes
      /\ {capturing, outputs}' \subseteq BOOLEAN
  BY <1>4, <1>5, <1>6, <1>11, CapturedIs
<1>8. uploaded' \in Sizes \X Sizes /\ UploadFits'
      /\ window' \in Sizes /\ resizes' \in 0 .. MaxResizes
  BY <1>1, CapturedIs DEF UploadFits
<1>9. backend' \in {"none", "wgc", "printwindow", "bitblt"}
      /\ frame' \in {0, 1} /\ shown' \in Sample \cup Sizes \cup {None}
  BY <1>1, <1>2, CapturedIs
<1>. HIDE DEF InitWgc, WgcFails, ShutdownCapture, OutputsReset, mediaVars,
              windowVars
<1>. QED BY <1>1, <1>3, <1>7, <1>8, <1>9, <1>11, CaptureKeeps

LEMMA GdiStepsCapture ==
  Captured /\ (InitPrintWindow \/ InitBitBlt \/ PrintWindowFails)
    => Captured' /\ frame' = frame
<1>. SUFFICES ASSUME Captured,
                     InitPrintWindow \/ InitBitBlt \/ PrintWindowFails
              PROVE  Captured' /\ frame' = frame
  OBVIOUS
<1>1. UNCHANGED <<override, quit, fault, frame, shown, wgc, pool, window,
                  resizes>>
  BY DEF InitPrintWindow, InitBitBlt, PrintWindowFails, mediaVars, windowVars
<1>2. backend' = backend \/ backend' \in {"printwindow", "bitblt"}
  BY DEF InitPrintWindow, InitBitBlt, PrintWindowFails
<1>3. capturing' = capturing \/ capturing' = TRUE
  BY DEF InitPrintWindow, InitBitBlt, PrintWindowFails
<1>4. outputs' \in BOOLEAN
  BY DEF InitPrintWindow, InitBitBlt, PrintWindowFails, OutputsReset
<1>5. {size, texture, cache}' \subseteq Sizes
      /\ uploaded' \in Sizes \X Sizes /\ UploadFits'
  <2>1. CASE InitPrintWindow
    <3>1. PICK f \in GdiFrames(FirstSize(Gdi)) : Leaves(f.left)
      BY <2>1 DEF InitPrintWindow
    <3>2. f.left \in GdiState
      BY GdiFits, GdiFramesFit
    <3>. QED BY <3>1, <3>2, LeavesFit
  <2>2. CASE PrintWindowFails
    <3>1. /\ size' \in {size, None} /\ texture' \in {texture, None}
          /\ cache' \in {cache, None} /\ uploaded' = uploaded
      BY <2>2 DEF PrintWindowFails, OutputsReset
    <3>. QED BY <3>1, CapturedIs DEF UploadFits
  <2>3. CASE InitBitBlt
    <3>1. \/ Leaves(FirstSize(Gdi))
          \/ UNCHANGED <<size, texture, cache, uploaded>>
      BY <2>3 DEF InitBitBlt
    <3>2. FirstSize(Gdi) \in GdiState
      BY GdiFits
    <3>. QED BY <3>1, <3>2, LeavesFit, CapturedIs DEF UploadFits
  <2>. QED BY <2>1, <2>2, <2>3
<1>6. backend' \in {"none", "wgc", "printwindow", "bitblt"}
      /\ frame' \in {0, 1} /\ shown' \in Sample \cup Sizes \cup {None}
      /\ wgc' \in {"none", "partial", "running"} /\ pool' \in Sizes
      /\ window' \in Sizes /\ resizes' \in 0 .. MaxResizes
  BY <1>1, <1>2, CapturedIs
<1>7. {capturing, outputs}' \subseteq BOOLEAN
  BY <1>3, <1>4, CapturedIs
<1>. QED BY <1>1, <1>5, <1>6, <1>7, CaptureKeeps

LEMMA PublishWindowCaptures ==
  Captured /\ (PublishGdi \/ GdiFails \/ PublishWgc)
    => Captured' /\ (frame' # frame => backend # "none")
<1>. SUFFICES ASSUME Captured, PublishGdi \/ GdiFails \/ PublishWgc
              PROVE  Captured' /\ (frame' # frame => backend # "none")
  OBVIOUS
<1>1. UNCHANGED <<override, quit, fault, capturing, outputs, backend, wgc,
                  pool, window, resizes>>
  BY DEF PublishGdi, GdiFails, PublishWgc, mediaVars, windowVars
<1>2. {size, texture, cache}' \subseteq Sizes
      /\ uploaded' \in Sizes \X Sizes /\ UploadFits'
  <2>1. CASE PublishGdi \/ GdiFails
    <3>1. PICK f \in GdiFrames(Gdi) : Leaves(f.left)
      BY <2>1 DEF PublishGdi, GdiFails
    <3>2. f.left \in GdiState
      BY GdiFits, GdiFramesFit
    <3>. QED BY <3>1, <3>2, LeavesFit
  <2>2. CASE PublishWgc
    <3>1. size' = pool /\ UNCHANGED <<texture, cache, uploaded>>
      BY <2>2 DEF PublishWgc
    <3>. QED BY <3>1, CapturedIs DEF UploadFits
  <2>. QED BY <2>1, <2>2
<1>3. \/ Published(window) \/ Published(pool)
      \/ UNCHANGED <<frame, shown>>
  BY DEF PublishGdi, GdiFails, PublishWgc
<1>4. {window, pool} \subseteq Sample \cup Sizes
  BY CapturedIs
<1>5. frame' \in {0, 1} /\ shown' \in Sample \cup Sizes \cup {None}
  BY <1>3, <1>4, Pictures, CapturedIs
<1>6. /\ {capturing, outputs}' \subseteq BOOLEAN
      /\ backend' \in {"none", "wgc", "printwindow", "bitblt"}
      /\ wgc' \in {"none", "partial", "running"} /\ pool' \in Sizes
      /\ window' \in Sizes /\ resizes' \in 0 .. MaxResizes
  BY <1>1, CapturedIs
<1>7. backend # "none"
  BY DEF PublishGdi, GdiFails, PublishWgc
<1>. QED BY <1>1, <1>2, <1>5, <1>6, <1>7, CaptureKeeps

LEMMA ResizeCaptures == Captured /\ Resize => Captured' /\ frame' = frame
<1>. SUFFICES ASSUME Captured, Resize PROVE Captured' /\ frame' = frame
  OBVIOUS
<1>1. /\ UNCHANGED <<override, quit, fault, capturing, outputs, frame, shown>>
      /\ UNCHANGED captureVars
      /\ window' \in Sizes /\ resizes < MaxResizes /\ resizes' = resizes + 1
  BY DEF Resize, mediaVars
<1>2. resizes' \in 0 .. MaxResizes
  BY <1>1, CapturedIs, ProducerConstants
<1>. QED BY <1>1, <1>2 DEF Captured, CaptureTypes, UploadFits, captureVars

-----------------------------------------------------------------------------
(* Together.                                                               *)

LEMMA MediaFoundationKeeps == Played /\ MediaFoundation => Played'
  BY AnswerKeeps, OnFlushKeeps, OnReadSampleKeeps, WorkerBeginsKeeps,
     WorkerReadsKeeps DEF MediaFoundation

LEMMA InitializeKeeps == Played /\ Initialize => Played'
<1>. SUFFICES ASSUME Played, Initialize PROVE Played'
  OBVIOUS
<1>1. CASE InitializeReader \/ InitializeFails
  BY <1>1, InitializeReaderKeeps, InitializeFailsKeeps
<1>2. CASE InitializeImage \/ InitWgc \/ WgcFails \/ InitPrintWindow
           \/ PrintWindowFails \/ InitBitBlt
  <2>. USE <1>2 DEF InitializeImage, InitWgc, WgcFails, InitPrintWindow,
                    PrintWindowFails, InitBitBlt, mediaVars
  <2>1. UNCHANGED <<kind, newest, reader, cb, mf>>
    OBVIOUS
  <2>2. main' \in MainSteps \ {"first", "read", "flush", "drop"}
    BY DEF MainSteps
  <2>3. kind \in {"image", "window", "display"}
        \/ main \in {"printwindow", "bitblt"}
    OBVIOUS
  <2>4. kind \notin Media
    BY <2>3 DEF Played, ByKind, Media
  <2>. QED BY <2>1, <2>2, <2>4, OthersKeep
<1>. QED BY <1>1, <1>2 DEF Initialize

LEMMA ProcessFrameKeeps == Played /\ ProcessFrame => Played'
<1>. SUFFICES ASSUME Played, ProcessFrame PROVE Played'
  OBVIOUS
<1>1. CASE PublishSample \/ TakeForNothing
  BY <1>1, TakeKeeps DEF PublishSample, TakeForNothing, captureVars
<1>2. CASE RestartFile
  BY <1>2, RestartFileKeeps
<1>3. CASE PublishImage \/ PublishGdi \/ GdiFails \/ PublishWgc
  <2>1. UNCHANGED <<kind, main, newest, reader, cb, mf>> /\ main = "loop"
    BY <1>3 DEF PublishImage, PublishGdi, GdiFails, PublishWgc, mediaVars
  <2>2. backend' = backend
    BY <1>3 DEF PublishImage, PublishGdi, GdiFails, PublishWgc, captureVars
  <2>. QED BY <2>1, <2>2, OthersKeep DEF MainSteps
<1>. QED BY <1>1, <1>2, <1>3 DEF ProcessFrame

LEMMA ShutdownKeeps == Played /\ ShutdownProducer => Played'
<1>. SUFFICES ASSUME Played, ShutdownProducer PROVE Played'
  OBVIOUS
<1>1. CASE ShutdownReader \/ Flush \/ DropReader
  BY <1>1, ShutdownReaderKeeps, FlushKeeps, DropReaderKeeps
<1>2. CASE ShutdownCapture
  <2>1. UNCHANGED <<kind, newest, reader, cb, mf>> /\ main' = "done"
        /\ kind \notin Media
    BY <1>2 DEF ShutdownCapture, mediaVars
  <2>. QED BY <2>1, OthersKeep DEF MainSteps
<1>. QED BY <1>1, <1>2 DEF ShutdownProducer

LEMMA SurroundingsKeep ==
  ASSUME Played, UNCHANGED <<kind, main, newest, reader, cb, mf, backend>>
  PROVE  Played'
  BY DEF Played, MediaTypes, ByKind, Untouched, OneRead, AtEnd, InOrder,
         LetGo, Leaving, MainAsks, WorkerAsks, Waiting

LEMMA ProducerInvStep ==
  ProducerInv /\ [ProducerNext]_producerVars => ProducerInv'
<1>. SUFFICES ASSUME Played, Captured, [ProducerNext]_producerVars
              PROVE  Played' /\ Captured'
  BY DEF ProducerInv, Captured
<1>1. CASE MediaFoundation
  BY <1>1, MediaFoundationKeeps, MediaFoundationCaptures
<1>2. CASE Initialize
  BY <1>2, InitializeKeeps, ReaderStepsCapture, WgcStepsCapture,
     GdiStepsCapture DEF Initialize
<1>3. CASE MainReads
  BY <1>3, MainReadsKeeps, ReaderStepsCapture
<1>4. CASE ProcessFrame
  BY <1>4, ProcessFrameKeeps, PublishSampleCaptures, ReaderStepsCapture,
     PublishImageCaptures, PublishWindowCaptures DEF ProcessFrame
<1>5. CASE ShutdownProducer
  BY <1>5, ShutdownKeeps, ReaderStepsCapture, WgcStepsCapture
  DEF ShutdownProducer
<1>6. CASE PostQuit
  <2>1. UNCHANGED <<kind, main, newest, reader, cb, mf, backend>>
    BY <1>6 DEF PostQuit, mediaVars, captureVars
  <2>. QED BY <1>6, <2>1, SurroundingsKeep, ReaderStepsCapture
<1>7. CASE Resize
  <2>1. UNCHANGED <<kind, main, newest, reader, cb, mf, backend>>
    BY <1>7 DEF Resize, mediaVars, captureVars
  <2>. QED BY <1>7, <2>1, SurroundingsKeep, ResizeCaptures
<1>8. CASE UNCHANGED producerVars
  <2>1. UNCHANGED <<kind, main, newest, reader, cb, mf, backend>>
    BY <1>8 DEF producerVars, mediaVars, captureVars
  <2>2. Captured'
    BY <1>8 DEF producerVars, mediaVars, captureVars, windowVars, Captured,
                CaptureTypes, UploadFits
  <2>. QED BY <2>1, <2>2, SurroundingsKeep
<1>. QED BY <1>1, <1>2, <1>3, <1>4, <1>5, <1>6, <1>7, <1>8 DEF ProducerNext

(* The inductive invariant of a producer process.                          *)
THEOREM ProducerInvariant == ProducerSpec => []ProducerInv
<1>1. ProducerInit => ProducerInv
  BY ProducerInitInv
<1>2. ProducerInv /\ [ProducerNext]_producerVars => ProducerInv'
  BY ProducerInvStep
<1>. QED BY <1>1, <1>2, PTL DEF ProducerSpec

(* The state of a producer process is always of its types.                 *)
THEOREM ProducerTypes == ProducerSpec => []ProducerTypeOK
<1>1. ProducerInv => ProducerTypeOK
  BY ProducerInvGives
<1>. QED BY <1>1, ProducerInvariant, PTL

(* AsyncSourceReaderCallback::Shutdown: a producer that has stopped holds  *)
(* neither the source reader nor a sample, whatever was under way.         *)
THEOREM ReaderIsLetGo == ProducerSpec => []ReaderLetGo
<1>1. ProducerInv => ReaderLetGo
  BY ProducerInvGives
<1>. QED BY <1>1, ProducerInvariant, PTL

(* TryTakeLatest and the two EnsureCaptureSourceTexture: no sample is      *)
(* published late or twice, and bits are uploaded to a texture of their    *)
(* size.                                                                   *)
THEOREM PicturesComeRight == ProducerSpec => PicturesAreRight
<1>1. ASSUME Played, Captured, [ProducerNext]_producerVars
      PROVE  ShownInOrder
  <2>. SUFFICES ASSUME frame' # frame, kind \in Media
                PROVE  newest' > newest
    BY DEF ShownInOrder
  <2>1. ~MediaFoundation /\ ~Initialize /\ ~MainReads /\ ~ShutdownProducer
        /\ ~PostQuit /\ ~Resize /\ ~TakeForNothing /\ ~RestartFile
    BY <1>1, MediaFoundationCaptures, ReaderStepsCapture, WgcStepsCapture,
       GdiStepsCapture, ResizeCaptures DEF Initialize, ShutdownProducer
  <2>2. ProcessFrame
    BY <1>1, <2>1 DEF ProducerNext, producerVars
  <2>3. ~PublishGdi /\ ~GdiFails /\ ~PublishWgc
    BY <1>1, PublishWindowCaptures DEF Played, ByKind
  <2>4. ~PublishImage
    BY DEF PublishImage, Media
  <2>5. PublishSample
    BY <2>1, <2>2, <2>3, <2>4 DEF ProcessFrame
  <2>6. newest' = cb.latest.sample /\ cb.latest.sample # None
    BY <2>5 DEF PublishSample
  <2>7. newest < cb.latest.sample
    BY <1>1, <2>6 DEF Played, InOrder
  <2>. QED BY <1>1, <2>6, <2>7, PlayedTypes
<1>2. ASSUME ProducerInv, [ProducerNext]_producerVars
      PROVE  UploadFits' /\ ShownInOrder
  <2>1. UploadFits'
    BY <1>2, ProducerInvStep DEF ProducerInv
  <2>. QED BY <1>1, <1>2, <2>1 DEF ProducerInv, Captured
<1>3. ProducerInv /\ [ProducerNext]_producerVars
        => [UploadFits' /\ ShownInOrder]_producerVars
  BY <1>2
<1>. QED BY <1>3, ProducerInvariant, PTL DEF ProducerSpec, PicturesAreRight
=============================================================================
