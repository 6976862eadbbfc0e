----------------------------- MODULE Broadcast ------------------------------
(***************************************************************************)
(* How a source gets into the broadcast picture: the application (App.cpp) *)
(* launches a producer process per slot, the producer shares its pictures  *)
(* under names made from its process id (Process.cpp, Tools.cpp), and the  *)
(* broker (Broker.cpp, Discovery.cpp, Multiplexer.cpp), a DLL that the     *)
(* application calls, finds them and draws the picture.                    *)
(*                                                                         *)
(* The application and the broker are one thread, the producers are        *)
(* processes of their own.  A process id that no process and no handle of  *)
(* the application holds may be given to a new process.  A launch number   *)
(* stands for a process and for the broker nonce it was given; 0 is no     *)
(* launch, and as a nonce the one of a producer that has none.             *)
(*                                                                         *)
(* Left out: grid mode, which the application never asks for; the four     *)
(* corners are slots like any; sizes, formats and adapters; the fences     *)
(* that order a copy after the drawing it copies.                          *)
(***************************************************************************)
EXTENDS Integers, FiniteSets

CONSTANTS
  Pids,            \* process ids
  NoPid,           \* the process id 0
  Pips,            \* the picture-in-picture slots
  Main,            \* the main slot
  Modes,           \* of SourceMode, what the user chooses among
  Targets,         \* windows, cameras, displays or files
  DriverStart,     \* started with --driver
  DriverActive,    \* whether a camera client has a stream: what may be found
  Foreign,         \* other programs may share pictures, too
  MaxLaunches      \* bound on the processes created

Slots == Pips \cup {Main}
Helper == {"Window", "Camera", "Display", "Image"}  \* launch a process
PipModes == {"Off", "Window", "Camera", "Discovered"}

ASSUME BroadcastConstants ==
  /\ NoPid \notin Pids /\ Main \notin Pips
  /\ Modes \subseteq Helper \cup {"Off", "Discovered"}
  /\ DriverStart \in BOOLEAN /\ DriverActive \subseteq BOOLEAN
  /\ Foreign \in BOOLEAN /\ MaxLaunches \in Nat

VARIABLES
  \* the producers, by process id
  proc,        \* a process: see Process
  section,     \* the named section with its manifest: see Section
  \* the application
  pc,          \* "idle", "clear", "launch", "inform", "gone"
  job,         \* what SetSourceMode or SetPipSource has to do
  sel,         \* g_mainSourceState and the states of the corners
  handle,      \* g_producerProcesses: the process of each slot
  inactive,    \* s_driverInactiveSinceTick is not 0
  launches,    \* processes created so far
  \* the broker
  expected,    \* g_expectedProducers
  priority,    \* g_producerPriorityList
  forced,      \* g_forceDiscovery and g_forceComposite
  cached,      \* g_cachedStreams
  state,       \* g_brokerState
  layout,      \* m_lastCompositePids
  conn,        \* m_producerResources
  out          \* what the picture shows in each slot

appVars == <<pc, job, sel, handle, inactive, launches>>
brokerVars == <<expected, priority, forced, cached, state, layout, conn, out>>
vars == <<proc, section, appVars, brokerVars>>

Launch == 1 .. MaxLaunches
Phase == {"none", "starting", "named", "shared", "ready"}
Process ==
  [phase : Phase, launch : {0} \cup Launch, nonce : {0} \cup Launch,
   moving : BOOLEAN,        \* what it captures changes
   window : BOOLEAN]        \* it captures a window
Section ==
  [launch : {0} \cup Launch, nonce : {0} \cup Launch, published : BOOLEAN]
Link ==
  [texture : {0} \cup Launch,           \* whose texture is open; 0: none is
   status : BOOLEAN,                    \* the status section is mapped
   newer : BOOLEAN,                     \* frameValue is above lastSeenFrame
   picture : {0} \cup Launch]           \* in the private texture

NoProcess == [phase |-> "none", launch |-> 0, nonce |-> 0, moving |-> FALSE,
              window |-> FALSE]
NoSection == [launch |-> 0, nonce |-> 0, published |-> FALSE]
NoLink == [texture |-> 0, status |-> FALSE, newer |-> FALSE, picture |-> 0]
NoSource == [mode |-> "Off", target |-> 0, pid |-> NoPid]
NoList == [s \in Slots |-> NoPid]
Default == -1               \* the generated picture, or no overlay

Linked(p) == conn[p].texture # 0
Alive(p) == proc[p].phase # "none"
Sharer(p) == proc[p].phase \in {"named", "shared", "ready"}  \* has its names

Init ==
  /\ proc = [p \in Pids |-> NoProcess]
  /\ section = [p \in Pids |-> NoSection]
  /\ pc = "idle" /\ job = [slot |-> Main, want |-> NoSource]
  /\ sel = [s \in Slots |-> NoSource]
  /\ handle = NoList /\ inactive = FALSE /\ launches = 0
  /\ expected = [p \in Pids |-> 0] /\ priority = NoList
  /\ forced = TRUE /\ cached = {} /\ state = "searching" /\ layout = NoList
  /\ conn = [p \in Pids |-> NoLink] /\ out = [s \in Slots |-> Default]

-----------------------------------------------------------------------------
(* The producers.                                                          *)

FreePid(p) == ~Alive(p) /\ \A s \in Slots : handle[s] # p

(* A section lives as long as the process or the multiplexer maps it.      *)
Closed(p) == IF Linked(p) THEN section[p] ELSE NoSection

(* InitWgc fails: the capture falls through to PrintWindow and BitBlt, and *)
(* ResetSharedOutputs forgets the nonce on the way.                        *)
FallThrough(p) ==
  /\ proc[p].phase = "starting" /\ proc[p].window
  /\ proc' = [proc EXCEPT ![p].nonce = 0]
  /\ UNCHANGED <<section, appVars, brokerVars>>

(* InitSharedOutputs: the manifest is complete ...                         *)
ShareManifest(p) ==
  /\ proc[p].phase = "starting"
  /\ proc' = [proc EXCEPT ![p].phase = "named"]
  /\ section' = [section EXCEPT ![p] =
       [launch |-> proc[p].launch, nonce |-> proc[p].nonce,
        published |-> FALSE]]
  /\ conn' = [conn EXCEPT ![p].newer = FALSE]
  /\ UNCHANGED <<appVars, expected, priority, forced, cached, state,
                 layout, out>>

(* ... before the texture and the fence have their names ...               *)
ShareTexture(p) ==
  /\ proc[p].phase = "named"
  /\ proc' = [proc EXCEPT ![p].phase = "shared"]
  /\ UNCHANGED <<section, appVars, brokerVars>>

(* ... and the status section is there last.                               *)
ShareStatus(p) ==
  /\ proc[p].phase = "shared"
  /\ proc' = [proc EXCEPT ![p].phase = "ready"]
  /\ UNCHANGED <<section, appVars, brokerVars>>

(* ProcessFrame: the fence, the manifest's frame value, the status.  A     *)
(* connection left from an earlier process with this id has seen other     *)
(* values, which may be above the new one or not.                          *)
Publish(p) ==
  /\ proc[p].phase = "ready"
  /\ section[p].published => proc[p].moving
  /\ section' = [section EXCEPT ![p].published = TRUE]
  /\ \E newer \in BOOLEAN :
       /\ conn[p].texture = proc[p].launch => newer
       /\ ~Linked(p) => ~newer
       /\ conn' = [conn EXCEPT ![p].newer = newer]
  /\ UNCHANGED <<proc, appVars, expected, priority, forced, cached,
                 state, layout, out>>

(* The process fails to initialise, or crashes.                            *)
EndProcess(p) ==
  /\ Alive(p)
  /\ proc' = [proc EXCEPT ![p] = NoProcess]
  /\ section' = [section EXCEPT ![p] = Closed(p)]
  /\ UNCHANGED <<appVars, brokerVars>>

(* A producer of another program, which shares its pictures in its own way.*)
ForeignProducer(p) ==
  /\ Foreign /\ FreePid(p) /\ launches < MaxLaunches
  /\ launches' = launches + 1
  /\ proc' = [proc EXCEPT ![p] =
       [phase |-> "ready", launch |-> launches', nonce |-> 0,
        moving |-> FALSE, window |-> FALSE]]
  /\ section' = [section EXCEPT ![p] =
       [launch |-> launches', nonce |-> 0, published |-> TRUE]]
  /\ UNCHANGED <<pc, job, sel, handle, inactive,
                 brokerVars>>

-----------------------------------------------------------------------------
(* The broker: RenderBrokerFrame.                                          *)

(* DiscoverStreams: the manifests of the producers that are expected, if   *)
(* they have the nonce, and those of every process there is.               *)
Discovered ==
  {[pid |-> p, nonce |-> section[p].nonce] : p \in
    {q \in Pids : /\ section[q].launch # 0
                  /\ \/ Alive(q)
                     \/ expected[q] # 0 /\ section[q].nonce = expected[q]}}

Trusted(streams, p) ==
  p # NoPid /\ expected[p] # 0 /\ [pid |-> p, nonce |-> expected[p]] \in streams

(* UpdateProducerConnection: what is connected stays so; else the texture  *)
(* and the fence are opened, the manifest is read again, the status is     *)
(* mapped if it is there.                                                  *)
Connection(p) ==
  IF Linked(p) THEN conn[p]
  ELSE IF /\ proc[p].phase \in {"shared", "ready"}
          /\ section[p].nonce = expected[p]
  THEN [texture |-> proc[p].launch, status |-> proc[p].phase = "ready",
        newer |-> section[p].published, picture |-> 0]
  ELSE NoLink

(* Faulty: a connection that is not on the list is kept.                   *)
PrunedFaulty(active) ==
  [p \in Pids |-> IF p \in active THEN Connection(p) ELSE conn[p]]
Pruned(active) ==
  [p \in Pids |-> IF p \in active THEN Connection(p) ELSE NoLink]

(* A picture was published according to the status.                        *)
Reporting(links) ==
  {p \in Pids : links[p].status /\ section[p].published}

(* CompositeFrames.  Of those that report, the ones in fresh have done so  *)
(* within two frame intervals; while there are any, the others are         *)
(* neither copied nor drawn.                                               *)
Composite(list, draw, fresh) ==
  LET active == {list[s] : s \in Slots} \ {NoPid}
      links == Pruned(active)
      hidden == IF fresh = {} THEN {} ELSE Reporting(links) \ fresh
      copied == {p \in active : links[p].newer /\ p \notin hidden}
      after == [p \in Pids |->
                  IF p \in copied
                  THEN [links[p] EXCEPT !.newer = FALSE,
                                        !.picture = links[p].texture]
                  ELSE links[p]]
      Shown(p) == IF p = NoPid \/ after[p].texture = 0 \/ p \in hidden
                  THEN Default ELSE after[p].picture
  IN  /\ fresh \subseteq Reporting(links)
      /\ conn' = after
      /\ section' = [p \in Pids |-> IF Sharer(p) \/ after[p].texture # 0
                                    THEN section[p] ELSE NoSection]
      /\ layout' = list
      /\ out' = (IF draw \/ list # layout \/ copied # {}
                 THEN [s \in Slots |-> Shown(list[s])] ELSE out)

(* Faulty: looks only when the list changes.                               *)
DiscoveryDueFaulty(due) == forced
DiscoveryDue(due) == forced \/ due

(* due: a second has passed since the last discovery; refresh: since the   *)
(* last default picture.                                                   *)
RenderBrokerFrame(pids, due, refresh, fresh) ==
  LET streams == IF DiscoveryDue(due) THEN Discovered ELSE cached
      list == [s \in Slots |-> IF Trusted(streams, pids[s]) THEN pids[s]
                               ELSE NoPid]
  IN  /\ cached' = streams
      /\ state' = (IF list # NoList THEN "connected"
                   ELSE IF streams # {} THEN "searching" ELSE "failed")
      /\ Composite(list, forced \/ (list = NoList /\ refresh), fresh)
      /\ priority' = pids
      /\ forced' = FALSE
      /\ UNCHANGED expected

-----------------------------------------------------------------------------
(* The application.                                                        *)

Killed(ps) == [p \in Pids |-> IF p \in ps THEN NoProcess ELSE proc[p]]
Left(ps) == [p \in Pids |-> IF p \in ps THEN Closed(p) ELSE section[p]]

(* TerminateProducer asks the slot's process to quit, waits and terminates *)
(* it.  Choosing the mode a slot already has does nothing, but for windows *)
(* and cameras, and for files, which have SetSourceFileMode.               *)
Again == {"Window", "Camera", "Image"}

SameMode(s, want) == want.mode = sel[s].mode /\ want.mode \notin Again

(* The user chooses a source.                                              *)
SetSource(s, want) ==
  /\ pc = "idle"
  /\ s \in Pips => want.mode \in PipModes
  /\ want.mode = "Discovered" => \A t \in Slots : handle[t] # want.pid
  /\ IF SameMode(s, want)
     THEN UNCHANGED <<pc, job, sel, handle, proc, section>>
     ELSE /\ pc' = (IF s = Main THEN "clear" ELSE "launch")
          /\ job' = [slot |-> s, want |-> want]
          /\ sel' = [sel EXCEPT ![s] = NoSource]
          /\ handle' = [handle EXCEPT ![s] = NoPid]
          /\ proc' = Killed({handle[s]}) /\ section' = Left({handle[s]})
  /\ UNCHANGED <<inactive, launches, brokerVars>>

(* Faulty: the list is left as it was.                                     *)
ClearedListFaulty == priority
ClearedList == NoList

(* ForceDefaultBrokerFrameToDriver, for the main slot only.                *)
ClearPicture ==
  /\ pc = "clear"
  /\ pc' = "launch"
  /\ \E fresh \in SUBSET Pids :
       RenderBrokerFrame(ClearedList, FALSE, FALSE, fresh)
  /\ UNCHANGED <<proc, job, sel, handle, inactive, launches>>

(* LaunchProducer: the process runs before it is registered, but the       *)
(* broker does not.                                                        *)
LaunchProducer(p) ==
  /\ pc = "launch" /\ job.want.mode \in Helper
  /\ FreePid(p) /\ launches < MaxLaunches
  /\ launches' = launches + 1
  /\ \E moving \in BOOLEAN :
       proc' = [proc EXCEPT ![p] =
         [phase |-> "starting", launch |-> launches', nonce |-> launches',
          moving |-> moving, window |-> job.want.mode = "Window"]]
  /\ handle' = [handle EXCEPT ![job.slot] = p]
  /\ expected' = [expected EXCEPT ![p] = launches']
  /\ forced' = TRUE
  /\ sel' = [sel EXCEPT ![job.slot] = [job.want EXCEPT !.pid = p]]
  /\ pc' = "inform"
  /\ UNCHANGED <<section, job, inactive, priority, cached,
                 state, layout, conn, out>>

(* The window is gone, or CreateProcess fails.  A camera stays selected.   *)
LaunchFails ==
  /\ pc = "launch" /\ job.want.mode \in Helper
  /\ sel' = [sel EXCEPT ![job.slot] =
       IF job.want.mode = "Camera" THEN job.want ELSE NoSource]
  /\ pc' = "inform"
  /\ UNCHANGED <<proc, section, job, handle, inactive,
                 launches, brokerVars>>

NoLaunch ==
  /\ pc = "launch" /\ job.want.mode \notin Helper
  /\ sel' = [sel EXCEPT ![job.slot] = job.want]
  /\ pc' = "inform"
  /\ UNCHANGED <<proc, section, job, handle, inactive,
                 launches, brokerVars>>

(* After 200 ms, if there was a launch.                                    *)
InformBroker ==
  /\ pc = "inform"
  /\ pc' = "idle" /\ job' = [slot |-> Main, want |-> NoSource]
  /\ priority' = [s \in Slots |-> sel[s].pid]
  /\ forced' = TRUE
  /\ UNCHANGED <<proc, section, sel, handle, inactive,
                 launches, expected, cached, state, layout, conn, out>>

(* HasLiveProducerProcess                                                  *)
LiveProducer == \E s \in Slots : handle[s] # NoPid /\ Alive(handle[s])

(* OnIdle renders, then looks whether anyone needs the application.  In    *)
(* driver-start mode it ends after five seconds in which nobody does.      *)
OnIdle(due, refresh, fresh) ==
  /\ pc = "idle"
  /\ RenderBrokerFrame(priority, due, refresh, fresh)
  /\ \E driver \in DriverActive :
       LET keepAlive == driver \/ state' = "connected" \/ LiveProducer
       IN  /\ inactive' = (DriverStart /\ ~keepAlive)
           /\ \/ pc' = "idle"
              \/ inactive /\ ~keepAlive /\ pc' = "closing"
  /\ UNCHANGED <<proc, job, sel, handle, launches>>

(* ShutdownSystem: WM_CLOSE, or the user exits.                            *)
Shutdown ==
  /\ pc \in {"idle", "closing"}
  /\ pc' = "gone" /\ handle' = NoList
  /\ LET mine == {handle[s] : s \in Slots} \cap Pids
     IN  /\ proc' = Killed(mine)
         /\ section' = [p \in Pids |-> IF p \in mine \/ ~Alive(p)
                                       THEN NoSection ELSE section[p]]
  /\ expected' = [p \in Pids |-> 0]
  /\ forced' = TRUE /\ cached' = {}
  /\ conn' = [p \in Pids |-> NoLink]
  /\ UNCHANGED <<job, sel, inactive, launches, priority,
                 state, layout, out>>

-----------------------------------------------------------------------------

Sharing(p) ==
  \/ FallThrough(p) \/ ShareManifest(p) \/ ShareTexture(p) \/ ShareStatus(p)
  \/ Publish(p)

Wanted ==
  [mode : Modes, target : Targets, pid : {NoPid}]
    \cup (IF "Discovered" \in Modes
          THEN [mode : {"Discovered"}, target : {0}, pid : Pids] ELSE {})

Choosing ==
  \/ ClearPicture \/ (\E p \in Pids : LaunchProducer(p))
  \/ LaunchFails \/ NoLaunch \/ InformBroker

Next ==
  \/ \E p \in Pids : Sharing(p) \/ EndProcess(p) \/ ForeignProducer(p)
  \/ \E s \in Slots, want \in Wanted : SetSource(s, want)
  \/ Choosing
  \/ \E due, refresh \in BOOLEAN, fresh \in SUBSET Pids :
       OnIdle(due, refresh, fresh)
  \/ Shutdown

Spec == Init /\ [][Next]_vars

(* The threads run; a second passes again and again; a producer whose      *)
(* picture changes publishes in every frame interval, so that the broker   *)
(* finds its status fresh again and again.                                 *)
Fairness ==
  /\ WF_vars(Choosing)
  /\ WF_vars(\E fresh \in SUBSET Pids : OnIdle(TRUE, TRUE, fresh))
  /\ WF_vars(pc = "closing" /\ Shutdown)
  /\ \A p \in Pids :
       /\ WF_vars(Sharing(p))
       /\ SF_vars(\E due \in BOOLEAN, fresh \in SUBSET Pids :
                    p \in fresh /\ proc[p].moving /\ OnIdle(due, FALSE, fresh))

FairSpec == Spec /\ Fairness

-----------------------------------------------------------------------------
(* Properties.                                                             *)

TypeOK ==
  /\ proc \in [Pids -> Process] /\ section \in [Pids -> Section]
  /\ pc \in {"idle", "clear", "launch", "inform", "closing", "gone"}
  /\ {inactive, forced} \subseteq BOOLEAN
  /\ launches \in 0 .. MaxLaunches
  /\ {handle, priority, layout} \subseteq [Slots -> Pids \cup {NoPid}]
  /\ expected \in [Pids -> {0} \cup Launch]
  /\ cached \subseteq [pid : Pids, nonce : {0} \cup Launch]
  /\ state \in {"connected", "searching", "failed"}
  /\ \A p \in Pids :
       (section[p].launch # 0) =
         (Sharer(p) \/ Linked(p))
  /\ conn \in [Pids -> Link] /\ out \in [Slots -> {Default, 0} \cup Launch]

Selected(s) == IF sel[s].pid = NoPid THEN 0 ELSE expected[sel[s].pid]

(* A connection that outlived its process and is taken for the one of a    *)
(* later process with the same id.                                         *)
LeftOver(s) ==
  sel[s].pid # NoPid /\ conn[sel[s].pid].texture \notin {0, Selected(s)}

(* What a slot shows comes from the process that was launched for what the *)
(* user has selected there: not from the source before, not from another   *)
(* program, not from the other slot.  While the main source is changed the *)
(* main picture is the generated one.  Process ids may be reused at once;  *)
(* the main slot is safe from that by the picture that is forced in        *)
(* between, a corner is not (LeftOver).                                    *)
ShowsWhatIsSelected ==
  /\ pc = "idle" /\ ~forced =>
       \A s \in Slots :
         out[s] \in Launch =>
           \/ out[s] = Selected(s)
           \/ LeftOver(s) /\ (s # Main \/ sel[s].mode = "Discovered")
  /\ pc \in {"launch", "inform"} /\ job.slot = Main => out[Main] = Default

(* The broker is connected, and keeps the names of a producer alive, only  *)
(* for producers on the list: those of earlier choices are let go.         *)
EarlierSourcesAreLetGo ==
  pc = "idle" /\ ~forced =>
    \A p \in Pids : Linked(p) => \E s \in Slots : priority[s] = p

(* A producer that was launched for a slot, has kept its nonce, goes on    *)
(* publishing and stays selected is shown there, again and again: however  *)
(* late it shares its picture, whatever the other slot does, although the  *)
(* broker looks for producers only once a second.                          *)
Shareable(s) ==
  LET p == sel[s].pid
  IN  pc = "idle" /\ p # NoPid /\ proc[p].phase = "ready" /\ proc[p].moving
        /\ proc[p].nonce # 0 /\ proc[p].launch = expected[p] /\ ~LeftOver(s)

LiveSourceIsShown ==
  \A s \in Slots : <>[]Shareable(s) => []<>(out[s] = Selected(s))

=============================================================================
