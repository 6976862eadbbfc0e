--------------------------- MODULE Watcher ---------------------------
(***************************************************************************)
(* The watcher of VirtuaCamProcess.exe (RunWatcherLoop, its service twin   *)
(* RunWatcherLoopForService, WatcherServiceMain and the control handler,   *)
(* software-project/src/VirtuaCam/Process.cpp): it waits on the event that *)
(* the driver sets when a camera stream runs, and starts VirtuaCam.exe.    *)
(*                                                                         *)
(* Four parties run at their own pace: the driver, the worker thread of    *)
(* the watcher, the service's main thread with its control handler, and    *)
(* the applications.  The event is manual-reset, the worker resets it only *)
(* after it has looked and launched, and registering it with the driver    *)
(* clears it.  A watcher that an installer starts as a service uses the    *)
(* global event or none; one started by a user falls back to an event of   *)
(* its session, which only a registration makes known to the driver.       *)
(***************************************************************************)
EXTENDS Naturals

CONSTANTS
  MaxChanges,  \* bound on what users do: logons, quits, launches
  MaxRuns,     \* bound on the driver's streams and reloads
  MaxStarts    \* bound on the starts of the service

ASSUME WatcherConstants ==
  MaxChanges \in Nat /\ MaxRuns \in Nat /\ MaxStarts \in Nat

VARIABLES
  service,     \* the watcher is a service, or a program of the session
  \* driver
  camera,      \* a stream runs
  named,       \* the global event is set
  shared,      \* the driver's own event is that one
  registered,  \* the driver holds the handle the watcher registered
  \* worker thread
  pc,
  handle,      \* the event it waits on: "none", "global" or "session"
  private,     \* the session's own event is set
  fails,       \* launchFailCount
  \* service
  main,        \* the thread of WatcherServiceMain
  status,      \* g_serviceStatus.dwCurrentState
  stopEvent,   \* g_serviceStopEvent: "none", "clear", "set"
  ctrl,        \* the control handler
  \* applications and users
  apps,        \* the kinds of VirtuaCam.exe processes that live
  session,     \* somebody is logged on at the console
  exe,         \* VirtuaCam.exe, against path and hash in the registry
  owed,        \* history: a run of the camera no launch has answered
  changes, runs, starts

driverVars == <<camera, named, shared, registered>>
eventVars == <<named, registered, private>>
workerVars == <<pc, handle, fails>>
serviceVars == <<main, status, stopEvent, ctrl>>
bounds == <<changes, runs, starts>>
users == <<apps, session, exe>>
vars == <<service, driverVars, private, workerVars, serviceVars, users, owed,
          bounds>>

App == {"manual", "driver", "closing"}
Exe == {"missing", "changed", "trusted"}

(* A program of the session has no service around it: its thread begins.   *)
Init ==
  /\ service \in BOOLEAN
  /\ camera = FALSE /\ named = FALSE /\ registered = FALSE
  /\ shared \in BOOLEAN
  /\ private = FALSE /\ handle = "none" /\ fails = 0
  /\ pc = IF service THEN "none" ELSE "top"
  /\ main = "none" /\ status = "STOPPED" /\ stopEvent = "none"
  /\ ctrl = "idle"
  /\ apps = {} /\ session \in {TRUE, ~service} /\ exe \in Exe
  /\ owed = FALSE
  /\ changes = 0 /\ runs = 0 /\ starts = 0

-----------------------------------------------------------------------------
(* The driver.  NotifyCameraState sets or clears the registered event and  *)
(* its own, which is the one the watcher finds by its name only if somebody*)
(* held that while the driver loaded or since: the driver closes its handle*)
(* at once, and may fail to make the event.                                *)

Notified(on) ==
  /\ named' = IF shared \/ (registered /\ handle # "session") THEN on ELSE named
  /\ private' = IF registered /\ handle = "session" THEN on ELSE private

StreamRuns ==
  /\ ~camera /\ runs < MaxRuns
  /\ camera' = TRUE /\ runs' = runs + 1 /\ owed' = TRUE
  /\ Notified(TRUE)
  /\ UNCHANGED <<service, shared, registered, workerVars, serviceVars, users,
                 changes, starts>>

StreamStops ==
  /\ camera
  /\ camera' = FALSE
  /\ Notified(FALSE)
  /\ UNCHANGED <<service, shared, registered, workerVars, serviceVars, users,
                 owed, bounds>>

(* A driver that loads clears its event and has none registered.           *)
DriverReloads ==
  /\ ~camera /\ runs < MaxRuns
  /\ runs' = runs + 1
  /\ shared' \in BOOLEAN /\ named' = (named /\ ~shared')
  /\ registered' = FALSE
  /\ UNCHANGED <<service, camera, private, workerVars, serviceVars, users, owed, changes, starts>>

-----------------------------------------------------------------------------
(* The worker thread.                                                      *)

Goto(l) == pc' = l

StopAsked == stopEvent = "set"

(* Faulty: only a worker that waits looks for the stop.                    *)
TopFaulty ==
  /\ pc = "top"
  /\ Goto("open")
  /\ UNCHANGED <<service, driverVars, private, handle, fails, serviceVars,
                 users, owed, bounds>>

Top ==
  /\ pc = "top"
  /\ Goto(IF StopAsked THEN "ended" ELSE "open")
  /\ UNCHANGED <<service, driverVars, private, handle, fails, serviceVars,
                 users, owed, bounds>>

(* The event it waits on from now on; "none": a pause, and the top of the  *)
(* loop again.  A global event that nobody holds is made anew.             *)
Opened(h) ==
  /\ pc = "open"
  /\ handle' = h
  /\ private' = (private /\ h # "session")
  /\ \/ UNCHANGED <<named, shared, registered>>
     \/ /\ h = "global"
        /\ named' = FALSE /\ shared' = FALSE /\ registered' = FALSE
  /\ Goto(IF h = "none" THEN "top" ELSE "register")
  /\ UNCHANGED <<service, camera, fails, serviceVars, users, owed, bounds>>

(* The global event, created or opened; else one of the session, which is  *)
(* created clear.                                                          *)
CreateNamedClientRequestEventHandle ==
  ~service /\ \E h \in {"none", "global", "session"} : Opened(h)

CreateNamedClientRequestEventHandleForService ==
  service /\ \E h \in {"none", "global"} : Opened(h)

(* The driver keeps the event it is given, and clears it.                  *)
RegisterClientRequestEvent ==
  /\ registered' = TRUE
  /\ named' = (named /\ handle # "global")
  /\ private' = (private /\ handle # "session")

(* Without a driver, or when it refuses, the watcher goes on with the event*)
(* unregistered.                                                           *)
CreateRegisteredClientRequestEventHandle ==
  /\ pc = "register"
  /\ RegisterClientRequestEvent \/ UNCHANGED eventVars
  /\ Goto("wait")
  /\ UNCHANGED <<service, camera, shared, handle, fails, serviceVars, users,
                 owed, bounds>>

Signalled ==
  \/ handle = "global" /\ named
  \/ handle = "session" /\ private

(* WaitForMultipleObjects: the stop event comes first.                     *)
WaitEnds ==
  /\ pc = "wait"
  /\ StopAsked \/ Signalled
  /\ Goto(IF StopAsked THEN "ended" ELSE "look")
  /\ handle' = IF StopAsked THEN "none" ELSE handle
  /\ UNCHANGED <<service, driverVars, private, fails, serviceVars, users, owed, bounds>>

(* A failed wait closes the event; the driver keeps the object it was given*)
WaitFails ==
  /\ pc = "wait" /\ ~StopAsked
  /\ handle' = "none" /\ Goto("top")
  /\ registered' = (registered /\ handle = "global")
  /\ UNCHANGED <<service, camera, named, shared, private, fails, serviceVars,
                 users, owed, bounds>>

(* Faulty: a match on the name's beginning also finds the watcher itself.  *)
FoundFaulty == TRUE
Found == apps # {}

(* IsProcessRunning: FALSE also when no snapshot can be taken.             *)
MaxFails == 3

LookFor(found) ==
  /\ pc = "look"
  /\ found => Found
  /\ ~found => (apps = {} \/ changes < MaxChanges)
  /\ changes' = IF ~found /\ apps # {} THEN changes + 1 ELSE changes
  /\ Goto(IF ~found /\ fails < MaxFails THEN "launch" ELSE "reset")
  /\ UNCHANGED <<service, driverVars, private, handle, fails, serviceVars,
                 users, owed, runs, starts>>

Look == \E found \in {FALSE, Found} : LookFor(found)

(* Launched by the shell, or with the token of whoever is at the console.  *)
InActiveSession == session /\ exe # "missing"

(* The service launches what the installer has registered: an executable   *)
(* below the installation directory whose hash is the registered one.      *)
GetTrustedVirtuaCamExePathForService == exe = "trusted"

Launched(ok) ==
  /\ pc = "launch"
  /\ apps' = IF ok THEN apps \cup {"driver"} ELSE apps
  /\ fails' = IF ok THEN 0 ELSE fails + 1
  /\ owed' = FALSE
  /\ Goto("reset")
  /\ UNCHANGED <<service, driverVars, private, handle, serviceVars, session,
                 exe, bounds>>

LaunchVirtuaCamForDriverAccess == ~service /\ Launched(InActiveSession)

MayLaunchFromService ==
  GetTrustedVirtuaCamExePathForService /\ InActiveSession

LaunchVirtuaCamForDriverAccessFromService ==
  service /\ Launched(MayLaunchFromService)

(* Faulty: trusts the event to reset itself.                               *)
ResetFaulty ==
  /\ pc = "reset"
  /\ Goto("wait")
  /\ UNCHANGED <<service, driverVars, private, handle, fails, serviceVars,
                 users, owed, bounds>>

(* ResetEvent, whatever the driver has signalled since the look.           *)
Reset ==
  /\ pc = "reset"
  /\ named' = (named /\ handle # "global")
  /\ private' = (private /\ handle # "session")
  /\ Goto("wait")
  /\ UNCHANGED <<service, camera, shared, registered, handle, fails,
                 serviceVars, users, owed, bounds>>

(* CoInitializeEx begins the worker of a service, or ends it.              *)
WorkerBegins(ok) ==
  /\ pc = "begin"
  /\ Goto(IF ok THEN "top" ELSE "ended")
  /\ UNCHANGED <<service, driverVars, private, handle, fails, serviceVars,
                 users, owed, bounds>>

Worker ==
  \/ Top
  \/ CreateNamedClientRequestEventHandle
  \/ CreateNamedClientRequestEventHandleForService
  \/ CreateRegisteredClientRequestEventHandle
  \/ WaitEnds
  \/ Look
  \/ LaunchVirtuaCamForDriverAccess
  \/ LaunchVirtuaCamForDriverAccessFromService
  \/ Reset
  \/ \E ok \in BOOLEAN : WorkerBegins(ok)

-----------------------------------------------------------------------------
(* WatcherServiceMain and the control handler.                             *)

mainOnly == <<service, driverVars, private, handle, ctrl, users, owed,
              changes, runs>>

StartService ==
  /\ service /\ main = "none" /\ ctrl = "idle" /\ starts < MaxStarts
  /\ starts' = starts + 1
  /\ main' = "begin" /\ status' = "START_PENDING"
  /\ UNCHANGED <<mainOnly, pc, fails, stopEvent>>

(* Either handle may fail to be created; the service is then stopped.      *)
Begin(event, thread) ==
  /\ main = "begin"
  /\ thread => event
  /\ stopEvent' = IF thread THEN "clear" ELSE "none"
  /\ pc' = IF thread THEN "begin" ELSE pc
  /\ fails' = IF thread THEN 0 ELSE fails
  /\ main' = IF thread THEN "running" ELSE "stopped"
  /\ status' = IF thread THEN status ELSE "STOPPED"
  /\ UNCHANGED <<mainOnly, starts>>

Running ==
  /\ main = "running"
  /\ status' = "RUNNING" /\ main' = "waits"
  /\ UNCHANGED <<mainOnly, pc, fails, stopEvent, starts>>

Joined ==
  /\ main = "waits" /\ pc = "ended"
  /\ main' = "joined" /\ pc' = "none" /\ stopEvent' = "none"
  /\ UNCHANGED <<mainOnly, fails, status, starts>>

Stopped ==
  /\ main = "joined"
  /\ main' = "stopped" /\ status' = "STOPPED"
  /\ UNCHANGED <<mainOnly, pc, fails, stopEvent, starts>>

(* The dispatcher returns and the process ends, the handler with it: to    *)
(* the service manager the service is stopped.                             *)
ProcessExits ==
  /\ main = "stopped"
  /\ main' = "none" /\ status' = "STOPPED" /\ ctrl' = "idle"
  /\ registered' = FALSE /\ handle' = "none"
  /\ UNCHANGED <<service, camera, named, shared, private, pc, fails, stopEvent,
                 users, owed, bounds>>

(* A control is accepted while the service says that it runs.              *)
Control ==
  /\ status = "RUNNING" /\ ctrl = "idle"
  /\ ctrl' = "called"
  /\ UNCHANGED <<service, driverVars, private, workerVars, main, status,
                 stopEvent, users, owed, bounds>>

CtrlPending ==
  /\ ctrl = "called"
  /\ ctrl' = "pending" /\ status' = "STOP_PENDING"
  /\ UNCHANGED <<service, driverVars, private, workerVars, main, stopEvent,
                 users, owed, bounds>>

CtrlSignals ==
  /\ ctrl = "pending"
  /\ ctrl' = "idle"
  /\ stopEvent' = IF stopEvent = "none" THEN "none" ELSE "set"
  /\ UNCHANGED <<service, driverVars, private, workerVars, main, status,
                 users, owed, bounds>>

Service ==
  \/ \E event, thread \in BOOLEAN : Begin(event, thread)
  \/ Running \/ Joined \/ Stopped \/ ProcessExits
  \/ CtrlPending \/ CtrlSignals

-----------------------------------------------------------------------------
(* The applications and their users.                                       *)

appsOnly == <<service, driverVars, private, workerVars, serviceVars, owed>>

UserLaunches ==
  /\ InActiveSession /\ "manual" \notin apps /\ changes < MaxChanges
  /\ apps' = apps \cup {"manual"} /\ changes' = changes + 1
  /\ UNCHANGED <<appsOnly, session, exe, runs, starts>>

(* Quit or crash.                                                          *)
UserQuits(a) ==
  /\ a \in apps \ {"closing"} /\ changes < MaxChanges
  /\ apps' = (apps \ {a}) \cup {"closing"} /\ changes' = changes + 1
  /\ UNCHANGED <<appsOnly, session, exe, runs, starts>>

(* OnIdle of an application started with --driver: no stream and no source *)
(* for five seconds.                                                       *)
DriverStartExits ==
  /\ "driver" \in apps /\ ~camera
  /\ apps' = (apps \ {"driver"}) \cup {"closing"}
  /\ UNCHANGED <<appsOnly, session, exe, bounds>>

(* ShutdownSystem is done and the process leaves the list.                 *)
AppEnds ==
  /\ "closing" \in apps
  /\ apps' = apps \ {"closing"}
  /\ UNCHANGED <<appsOnly, session, exe, bounds>>

(* A logon or a logoff; a watcher that is a program lives in its session.  *)
SessionChanges ==
  /\ service /\ changes < MaxChanges
  /\ session' = ~session /\ changes' = changes + 1
  /\ apps' = IF session THEN {} ELSE apps
  /\ UNCHANGED <<appsOnly, exe, runs, starts>>

(* An installation, a removal, a file replaced by hand.                    *)
ExeChanges ==
  /\ changes < MaxChanges
  /\ exe' \in Exe \ {exe} /\ changes' = changes + 1
  /\ UNCHANGED <<appsOnly, apps, session, runs, starts>>

-----------------------------------------------------------------------------

Next ==
  \/ StreamRuns \/ StreamStops \/ DriverReloads
  \/ Worker \/ WaitFails
  \/ StartService \/ Service \/ Control
  \/ UserLaunches \/ (\E a \in App : UserQuits(a))
  \/ DriverStartExits \/ AppEnds \/ SessionChanges \/ ExeChanges

Spec == Init /\ [][Next]_vars

(* The threads of the watcher run and a closing application ends; nobody   *)
(* has to use the camera, and a wait need not fail.                        *)
FairSpec ==
  Spec /\ WF_vars(Worker) /\ WF_vars(Service) /\ WF_vars(AppEnds)

-----------------------------------------------------------------------------

TypeOK ==
  /\ service \in BOOLEAN /\ camera \in BOOLEAN /\ named \in BOOLEAN
  /\ shared \in BOOLEAN /\ registered \in BOOLEAN /\ private \in BOOLEAN
  /\ handle \in {"none", "global", "session"}
  /\ pc \in {"none", "begin", "top", "open", "register", "wait", "look",
             "launch", "reset", "ended"}
  /\ fails \in 0 .. MaxFails
  /\ main \in {"none", "begin", "running", "waits", "joined", "stopped"}
  /\ status \in {"STOPPED", "START_PENDING", "RUNNING", "STOP_PENDING"}
  /\ stopEvent \in {"none", "clear", "set"}
  /\ ctrl \in {"idle", "called", "pending"}
  /\ apps \subseteq App /\ session \in BOOLEAN /\ exe \in Exe
  /\ owed \in BOOLEAN
  /\ changes \in 0 .. MaxChanges /\ runs \in 0 .. MaxRuns
  /\ starts \in 0 .. MaxStarts

(* Every launch answers a run of the camera that no launch has answered    *)
(* before, so that a user who quits the application while the camera is on *)
(* does not get it back (the ResetEvent at the end of the loop).  This is  *)
(* the service's: a program that has waited on the event of its session    *)
(* and then, after a failed wait, on the global one finds the latter still *)
(* set by a run that it has answered.                                      *)
NoLaunchUnasked == service /\ pc = "launch" => owed

(* A watcher can launch: somebody is logged on, and the executable is      *)
(* there, for the service the one that was installed.                      *)
Able == IF service THEN MayLaunchFromService ELSE InActiveSession

(* A signal that finds the watcher waiting gives the camera an application,*)
(* as long as it can launch one, has not failed three times, and neither   *)
(* the camera, the logon, the wait nor the watcher ends meanwhile.         *)
SignalIsAnswered ==
  (pc = "wait" /\ Signalled /\ camera /\ apps = {} /\ Able
     /\ fails < MaxFails)
    ~> (apps # {} \/ ~camera \/ ~Able \/ StopAsked \/ pc = "top")

(* A service that was told to stop stops, wherever its worker is: also one *)
(* that keeps failing to get an event.                                     *)
StopEndsTheService == status = "STOP_PENDING" ~> status = "STOPPED"
=============================================================================
