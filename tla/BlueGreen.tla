------------------------------- MODULE BlueGreen -------------------------------
(***************************************************************************)
(* Deployments of one app: an API handler reads the app's record, the      *)
(* builder builds, and zeroDowntimeSwap starts the new version on the      *)
(* paired port, waits until that port answers, leads the route there and   *)
(* stops the old version, or rolls back.  Other requests for the app       *)
(* (start, stop, restart, delete) come in between; the data plane reloads  *)
(* when it gets to it; the panel may be restarted.                         *)
(*                                                                         *)
(* The supervisor is what RestartPolicy promises of each process, and the  *)
(* map of names: its own interleavings are in Supervisor.  The data plane  *)
(* is its promise to honour a reload signal (DataPlane).                   *)
(***************************************************************************)
EXTENDS RestartPolicy

CONSTANTS
  Callers,      \* API goroutines: a deployment or another request each
  MaxRequests,  \* bound: requests for the app
  MaxReboots    \* bound: restarts of the panel

ASSUME BlueGreenAssumption ==
  /\ Units \subseteq Nat \ {0} /\ 1 \in Units
  /\ MaxRestarts \in Nat /\ MaxReboots \in Nat /\ MaxRequests \in Nat

BasePort == 40000
NoPort == 0       \* no such row in the store, or no such route
NoUnit == 0
Names == {"app", "old"}    \* the canonical name, and the name#old

AltPort(p) == IF p >= 50000 THEN p - 10000 ELSE p + 10000
Ports == {BasePort, BasePort + 10000}

VARIABLES
  port,        \* the PORT each process is told to listen on
  procs,       \* Supervisor.procs
  listener,    \* the process that listens on each port
  appPort,     \* apps.port in the store
  upstream,    \* the port the config of the app's site leads to
  signalled,   \* a reload signal waits in the data plane
  routed,      \* the port the served table leads the app's site to
  mounted,     \* and the port it leads mounts of the app on other sites to
  building,    \* the builder's state of the app is "building"
  at,          \* where each caller stands
  known,       \* the port in the app record it has read
  requests,
  reboots,
  before,      \* history: the process a swap has found under the app's name
  disturbed    \* history: two callers overlapped, or the panel stopped midway

units == <<phase, crashes, told, port, procs, listener>>
rows == <<appPort, upstream>>
plane == <<signalled, routed, mounted>>
work == <<at, known, building, before>>
deployVars == <<phase, crashes, told, port, procs, listener, appPort, upstream,
                signalled, routed, mounted, building, at, known, requests, reboots, before, disturbed>>

Deploying == {"deploy", "building", "rename", "launch", "wait", "route", "signal",
              "port", "stop old", "delete old"}
RollingBack == {"rollback stop", "rollback delete", "rollback rename"}
Requesting == {"start", "stop", "restart", "restart wait", "restart start",
               "remove", "remove app", "remove site", "remove signal"}

\* An app that was created, started and routed.
Init ==
  /\ phase = [u \in Units |-> IF u = 1 THEN "up" ELSE "none"]
  /\ crashes = [u \in Units |-> 0]
  /\ told = [u \in Units |-> FALSE]
  /\ port = [u \in Units |-> BasePort]
  /\ procs = [n \in Names |-> IF n = "app" THEN 1 ELSE NoUnit]
  /\ listener = [p \in Ports |-> IF p = BasePort THEN 1 ELSE NoUnit]
  /\ appPort = BasePort /\ upstream = BasePort
  /\ signalled = FALSE /\ routed = BasePort /\ mounted = BasePort
  /\ building = FALSE
  /\ at = [c \in Callers |-> "idle"]
  /\ known = [c \in Callers |-> NoPort]
  /\ before = [c \in Callers |-> NoUnit]
  /\ requests = 0 /\ reboots = 0 /\ disturbed = FALSE

Alive(u) == phase[u] \in {"starting", "up", "down"}
Fresh(u) == phase[u] = "none" /\ \A v \in Units : v < u => phase[v] # "none"

-----------------------------------------------------------------------------
(* The supervisor's methods.                                               *)

StartUnit(n, p, u) ==
  /\ Fresh(u)
  /\ Created(u)
  /\ port' = [port EXCEPT ![u] = p]
  /\ procs' = [procs EXCEPT ![n] = u]
  /\ UNCHANGED listener

IsRunning(n) == procs[n] # NoUnit /\ phase[procs[n]] = "up"

\* A running process is left alone, whatever its port.
StartMethod(n, p) ==
  \/ IsRunning(n) /\ UNCHANGED units
  \/ ~IsRunning(n) /\ \E u \in Units : StartUnit(n, p, u)

\* Nobody waits for the process to end, and one that is being launched loses
\* the request.
StopMethod(n) ==
  /\ IF procs[n] # NoUnit /\ phase[procs[n]] \in {"up", "down", "over"}
       THEN Told(procs[n])
       ELSE UNCHANGED policyVars
  /\ UNCHANGED <<port, procs, listener>>

DeleteMethod(n) ==
  /\ procs' = [procs EXCEPT ![n] = NoUnit]
  /\ UNCHANGED <<policyVars, port, listener>>

RenameMethod(from, to) ==
  /\ procs' = IF procs[from] = NoUnit THEN procs
              ELSE [procs EXCEPT ![to] = procs[from], ![from] = NoUnit]
  /\ UNCHANGED <<policyVars, port, listener>>

-----------------------------------------------------------------------------
(* The processes.                                                          *)

\* Its process is gone, and the port with it.
Releases(u) ==
  listener' = [p \in Ports |-> IF listener[p] = u THEN NoUnit ELSE listener[p]]

Listens(u) ==
  /\ phase[u] = "up" /\ listener[port[u]] = NoUnit
  /\ listener' = [listener EXCEPT ![port[u]] = u]
  /\ UNCHANGED <<policyVars, port, procs>>

Ends(u) == (StopsAsTold(u) \/ Crashed(u)) /\ Releases(u) /\ UNCHANGED <<port, procs>>

Launches(u) ==
  (ComesUp(u) \/ CannotStart(u) \/ Retried(u)) /\ UNCHANGED <<port, procs, listener>>

ProcessStep(u) ==
  /\ Listens(u) \/ Ends(u) \/ Launches(u)
  /\ UNCHANGED <<rows, plane, work, requests, reboots, disturbed>>

-----------------------------------------------------------------------------
(* Requests: the record of the app is read first and used until the end.   *)

Goto(c, step) ==
  /\ at' = [at EXCEPT ![c] = step]
  /\ known' = IF step = "idle" THEN [known EXCEPT ![c] = NoPort] ELSE known

Asked == {"deploy", "start", "stop", "restart", "remove"}

Request(c, what) ==
  /\ at[c] = "idle" /\ appPort # NoPort
  /\ requests < MaxRequests /\ requests' = requests + 1
  /\ at' = [at EXCEPT ![c] = what]
  /\ known' = [known EXCEPT ![c] = appPort]
  /\ disturbed' = (disturbed \/ \E d \in Callers : at[d] # "idle")
  /\ UNCHANGED <<units, rows, plane, building, before, reboots>>

Same == UNCHANGED <<requests, reboots, disturbed>>

StartApp(c) ==
  /\ at[c] = "start" /\ Goto(c, "idle")
  /\ StartMethod("app", known[c])
  /\ UNCHANGED <<rows, plane, building, before>> /\ Same

StopApp(c) ==
  /\ at[c] = "stop" /\ Goto(c, "idle")
  /\ StopMethod("app")
  /\ UNCHANGED <<rows, plane, building, before>> /\ Same

\* Restart, and the restart that follows a change of the environment: the old
\* process is given five seconds, and then forgotten.
RestartApp(c) ==
  /\ \/ /\ at[c] = "restart" /\ Goto(c, "restart wait")
        /\ StopMethod("app")
     \/ /\ at[c] = "restart wait" /\ Goto(c, "restart start")
        /\ DeleteMethod("app")
     \/ /\ at[c] = "restart start" /\ Goto(c, "idle")
        /\ StartMethod("app", known[c])
  /\ UNCHANGED <<rows, plane, building, before>> /\ Same

\* handleDeleteApp: stop, two deletes, reload.
DeleteApp(c) ==
  /\ \/ /\ at[c] = "remove" /\ Goto(c, "remove app")
        /\ StopMethod("app")
        /\ UNCHANGED <<rows, plane>>
     \/ /\ at[c] = "remove app" /\ Goto(c, "remove site")
        /\ appPort' = NoPort
        /\ UNCHANGED <<units, upstream, plane>>
     \/ /\ at[c] = "remove site" /\ Goto(c, "remove signal")
        /\ upstream' = NoPort
        /\ UNCHANGED <<units, appPort, plane>>
     \/ /\ at[c] = "remove signal" /\ Goto(c, "idle")
        /\ signalled' = TRUE
        /\ UNCHANGED <<units, rows, routed, mounted>>
  /\ UNCHANGED <<building, before>> /\ Same

-----------------------------------------------------------------------------
(* The builder.                                                            *)

\* A Deploy that does not look whether one is building already.
DeployAnyhow(c) ==
  /\ at[c] = "deploy"
  /\ building' = TRUE
  /\ Goto(c, "building")
  /\ UNCHANGED <<units, rows, plane, before>> /\ Same

\* Only one build at a time; but the swap that follows it is not part of it.
Deploy(c) ==
  /\ at[c] = "deploy"
  /\ building' = TRUE
  /\ Goto(c, IF building THEN "idle" ELSE "building")
  /\ UNCHANGED <<units, rows, plane, before>> /\ Same

BuildEnds(c) ==
  /\ at[c] = "building"
  /\ building' = FALSE
  /\ Goto(c, "rename") \/ Goto(c, "idle")
  /\ UNCHANGED <<units, rows, plane, before>> /\ Same

-----------------------------------------------------------------------------
(* zeroDowntimeSwap.                                                       *)

NewPort(c) == AltPort(known[c])

SwapBegins(c) ==
  \/ /\ at[c] = "rename" /\ Goto(c, "launch")
     /\ RenameMethod("app", "old")
     /\ before' = [before EXCEPT ![c] = procs["app"]]
  \/ /\ at[c] = "launch" /\ Goto(c, "wait")
     /\ StartMethod("app", NewPort(c))
     /\ UNCHANGED before

\* Whoever it is that listens on the new port.
Answered(c) == at[c] = "wait" /\ listener[NewPort(c)] # NoUnit /\ Goto(c, "route")

\* 45 seconds are over.
TimedOut(c) == at[c] = "wait" /\ Goto(c, "rollback stop")

WaitOver(c) == (Answered(c) \/ TimedOut(c)) /\ UNCHANGED <<units, before>>

SwapOver(c) == before' = [before EXCEPT ![c] = NoUnit]

\* A rollback that leaves the old version under its other name.
RollbackForgets(c) ==
  \/ at[c] = "rollback stop" /\ Goto(c, "rollback delete") /\ StopMethod("app") /\ UNCHANGED before
  \/ at[c] = "rollback delete" /\ Goto(c, "idle") /\ DeleteMethod("app") /\ SwapOver(c)

Rollback(c) ==
  \/ at[c] = "rollback stop" /\ Goto(c, "rollback delete") /\ StopMethod("app") /\ UNCHANGED before
  \/ at[c] = "rollback delete" /\ Goto(c, "rollback rename") /\ DeleteMethod("app") /\ UNCHANGED before
  \/ at[c] = "rollback rename" /\ Goto(c, "idle") /\ RenameMethod("old", "app") /\ SwapOver(c)

\* SetSiteConfig and SetAppPort are UPDATEs: they do not bring back a row that
\* was deleted.
Updated(row, p) == IF row = NoPort THEN NoPort ELSE p

UpdatedOrInserted(row, p) == p

LeadRouteAnyhow(c) ==
  /\ at[c] = "route" /\ Goto(c, "signal")
  /\ upstream' = UpdatedOrInserted(upstream, NewPort(c))
  /\ UNCHANGED <<appPort, plane>>

LeadRoute(c) ==
  /\ at[c] = "route" /\ Goto(c, "signal")
  /\ upstream' = Updated(upstream, NewPort(c))
  /\ UNCHANGED <<appPort, plane>>

NotifyReload(c) ==
  /\ at[c] = "signal" /\ Goto(c, "port")
  /\ signalled' = TRUE
  /\ UNCHANGED <<rows, routed, mounted>>

SetAppPortForgotten(c) ==
  /\ at[c] = "port" /\ Goto(c, "stop old")
  /\ UNCHANGED <<rows, plane>>

SetAppPort(c) ==
  /\ at[c] = "port" /\ Goto(c, "stop old")
  /\ appPort' = Updated(appPort, NewPort(c))
  /\ UNCHANGED <<upstream, plane>>

RetireOld(c) ==
  \/ at[c] = "stop old" /\ Goto(c, "delete old") /\ StopMethod("old") /\ UNCHANGED before
  \/ at[c] = "delete old" /\ Goto(c, "idle") /\ DeleteMethod("old") /\ SwapOver(c)

Swap(c) ==
  /\ \/ SwapBegins(c) /\ UNCHANGED <<rows, plane>>
     \/ WaitOver(c) /\ UNCHANGED <<rows, plane>>
     \/ (Rollback(c) \/ RetireOld(c)) /\ UNCHANGED <<rows, plane>>
     \/ (LeadRoute(c) \/ NotifyReload(c) \/ SetAppPort(c)) /\ UNCHANGED <<units, before>>
  /\ UNCHANGED building /\ Same

-----------------------------------------------------------------------------
(* The data plane and the panel.                                           *)

Reload ==
  /\ signalled
  /\ signalled' = FALSE
  /\ routed' = upstream
  /\ mounted' = appPort
  /\ UNCHANGED <<units, rows, work, requests, reboots, disturbed>>

\* Rows and signals that belong together and are not both there yet.
Torn == \E c \in Callers : at[c] \in {"signal", "port", "remove site", "remove signal"}

\* The panel and its apps stop; the next panel starts the apps.
Reboot ==
  /\ reboots < MaxReboots
  /\ reboots' = reboots + 1
  /\ LET dead == [u \in Units |-> IF Alive(u) THEN "over" ELSE phase[u]]
     IN  IF appPort = NoPort
           THEN /\ phase' = dead
                /\ procs' = [n \in Names |-> NoUnit]
                /\ UNCHANGED port
           ELSE \E u \in Units :
                  /\ Fresh(u)
                  /\ phase' = [dead EXCEPT ![u] = "starting"]
                  /\ procs' = [n \in Names |-> IF n = "app" THEN u ELSE NoUnit]
                  /\ port' = [port EXCEPT ![u] = appPort]
  /\ listener' = [p \in Ports |-> NoUnit]
  /\ building' = FALSE
  /\ at' = [c \in Callers |-> "idle"]
  /\ known' = [c \in Callers |-> NoPort]
  /\ before' = [c \in Callers |-> NoUnit]
  /\ disturbed' = (disturbed \/ Torn)
  /\ UNCHANGED <<crashes, told, rows, plane, requests>>

-----------------------------------------------------------------------------

CallerStep(c) ==
  \/ StartApp(c) \/ StopApp(c) \/ RestartApp(c) \/ DeleteApp(c)
  \/ Deploy(c) \/ BuildEnds(c) \/ Swap(c)

Next ==
  \/ \E c \in Callers : CallerStep(c) \/ \E what \in Asked : Request(c, what)
  \/ \E u \in Units : ProcessStep(u)
  \/ Reload \/ Reboot

Spec == Init /\ [][Next]_deployVars

-----------------------------------------------------------------------------
(* Properties.                                                             *)

\* Every variable stays in its type.
TypeOK ==
  /\ phase \in [Units -> {"none", "starting", "up", "down", "over"}]
  /\ crashes \in [Units -> 0 .. MaxRestarts + 1]
  /\ told \in [Units -> BOOLEAN]
  /\ port \in [Units -> Ports]
  /\ procs \in [Names -> Units \cup {NoUnit}]
  /\ listener \in [Ports -> Units \cup {NoUnit}]
  /\ {appPort, upstream, routed, mounted} \subseteq Ports \cup {NoPort}
  /\ signalled \in BOOLEAN /\ building \in BOOLEAN /\ disturbed \in BOOLEAN
  /\ at \in [Callers -> Deploying \cup RollingBack \cup Requesting \cup {"idle"}]
  /\ known \in [Callers -> Ports \cup {NoPort}]
  /\ before \in [Callers -> Units \cup {NoUnit}]
  /\ requests \in 0 .. MaxRequests /\ reboots \in 0 .. MaxReboots

Quiet == \A c \in Callers : at[c] = "idle"

\* Two builds never run in the app's directory at once, however many requests
\* and webhooks ask for one.
OneBuild ==
  \A c, d \in Callers : at[c] = "building" /\ at[d] = "building" => c = d

\* Between requests that did not overlap, and after a restart of the panel that
\* did not tear a swap, the stored port, the route and the process under the
\* app's name tell the same story, and no old version is left.
Agreement ==
  Quiet /\ ~disturbed =>
    /\ procs["old"] = NoUnit
    /\ appPort = upstream
    /\ appPort # NoPort /\ procs["app"] # NoUnit => port[procs["app"]] = appPort
    /\ signalled \/ routed = upstream

\* A deployment that does not come up changes nothing: the process under the
\* app's name is the one from before, and the store still leads to its port.
RollbackRestores ==
  [][\A c \in Callers :
       at[c] \in RollingBack /\ at'[c] = "idle" /\ ~disturbed' /\ reboots' = reboots =>
         /\ procs'["app"] = before[c]
         /\ appPort' = known[c] /\ upstream' = known[c]]_deployVars

\* Deleting an app is final, whatever deployments, starts and restarts are under
\* way: once its rows are gone no swap brings one back, and no reload leads
\* anybody to the app again.
Deleted == appPort = NoPort /\ upstream = NoPort

DeletedStaysGone ==
  [][Deleted => Deleted' /\ routed' \in {routed, NoPort}
                         /\ mounted' \in {mounted, NoPort}]_deployVars

\* What server.go says of mounts of the app on other sites: they follow the new
\* port after a swap.
MountsFollow == Quiet /\ ~disturbed /\ ~signalled => mounted = appPort

\* What zeroDowntimeSwap says: traffic is led to the new port, and then the old
\* version is stopped.
NoDowntime ==
  [][\A c \in Callers :
       at[c] = "stop old" /\ at'[c] = "delete old" /\ procs["old"] # NoUnit
         => routed # port[procs["old"]]]_deployVars

===============================================================================
