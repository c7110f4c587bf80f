---------------------------- MODULE BlueGreenProofs ----------------------------
(***************************************************************************)
(* Theorems about deployments, for every number of callers, requests,      *)
(* processes and restarts of the panel.                                    *)
(***************************************************************************)
EXTENDS BlueGreen, TLAPS

USE BlueGreenAssumption

-----------------------------------------------------------------------------
(* One build at a time.  OneBuild is kept because the builder's flag is up  *)
(* for as long as somebody builds.                                          *)

Steps == Deploying \cup RollingBack \cup Requesting \cup {"idle"}

BuilderInv ==
  /\ at \in [Callers -> Steps]
  /\ \A c \in Callers : at[c] = "building" => building
  /\ OneBuild

LEMMA InitBuilder == Init => BuilderInv
BY DEF Init, BuilderInv, OneBuild, Steps

\* A caller that moves on without touching the builder, and not to a build.
LEMMA MovesSafely ==
  ASSUME BuilderInv, NEW c \in Callers, NEW step \in Steps \ {"building"},
         at' = [at EXCEPT ![c] = step], building' = building
  PROVE  BuilderInv'
BY DEF BuilderInv, OneBuild

LEMMA RequestBuilder ==
  ASSUME BuilderInv, NEW c \in Callers, NEW what \in Asked, Request(c, what)
  PROVE  BuilderInv'
<1>1. what \in Steps \ {"building"}
  BY DEF Asked, Steps, Deploying, Requesting
<1> QED
  BY <1>1, MovesSafely DEF Request

LEMMA OtherBuilder ==
  ASSUME BuilderInv, NEW c \in Callers,
         StartApp(c) \/ StopApp(c) \/ RestartApp(c) \/ DeleteApp(c) \/ Swap(c)
  PROVE  BuilderInv'
<1>1. building' = building
  BY DEF StartApp, StopApp, RestartApp, DeleteApp, Swap
<1>2. PICK step \in Steps \ {"building"} : at' = [at EXCEPT ![c] = step]
  <2>1. CASE StartApp(c) \/ StopApp(c) \/ RestartApp(c) \/ DeleteApp(c)
    <3>1. \E step \in {"idle", "restart wait", "restart start", "remove app", "remove site",
                       "remove signal"} : Goto(c, step)
      BY <2>1 DEF StartApp, StopApp, RestartApp, DeleteApp
    <3> QED
      BY <3>1 DEF Goto, Steps, Requesting
  <2>2. CASE Swap(c)
    <3>1. \E step \in {"launch", "wait", "route", "rollback stop", "rollback delete",
                       "rollback rename", "idle", "signal", "port", "stop old", "delete old"} :
            Goto(c, step)
      BY <2>2 DEF Swap, SwapBegins, WaitOver, Answered, TimedOut, Rollback, RetireOld,
                  LeadRoute, NotifyReload, SetAppPort
    <3> QED
      BY <3>1 DEF Goto, Steps, Deploying, RollingBack
  <2> QED
    BY <2>1, <2>2
<1> QED
  BY <1>1, <1>2, MovesSafely

LEMMA DeployBuilder ==
  ASSUME BuilderInv, NEW c \in Callers, Deploy(c)
  PROVE  BuilderInv'
<1>1. building' = TRUE
  BY DEF Deploy
<1>2. CASE building
  <2>1. at' = [at EXCEPT ![c] = "idle"]
    BY <1>2 DEF Deploy, Goto
  <2> QED
    BY <1>1, <2>1 DEF BuilderInv, OneBuild, Steps
<1>3. CASE ~building
  <2>1. at' = [at EXCEPT ![c] = "building"]
    BY <1>3 DEF Deploy, Goto
  <2>2. \A d \in Callers : at[d] # "building"
    BY <1>3 DEF BuilderInv
  <2> QED
    BY <1>1, <2>1, <2>2 DEF BuilderInv, OneBuild, Steps, Deploying
<1> QED
  BY <1>2, <1>3

LEMMA BuildEndsBuilder ==
  ASSUME BuilderInv, NEW c \in Callers, BuildEnds(c)
  PROVE  BuilderInv'
<1>1. PICK step \in {"rename", "idle"} : at' = [at EXCEPT ![c] = step]
  BY DEF BuildEnds, Goto
<1>2. \A d \in Callers : d # c => at[d] # "building"
  BY DEF BuildEnds, BuilderInv, OneBuild
<1> QED
  BY <1>1, <1>2 DEF BuilderInv, OneBuild, Steps, Deploying

LEMMA NextBuilder == BuilderInv /\ [Next]_deployVars => BuilderInv'
<1> SUFFICES ASSUME BuilderInv, [Next]_deployVars PROVE BuilderInv'
  OBVIOUS
<1>1. CASE \E u \in Units : ProcessStep(u)
  BY <1>1 DEF ProcessStep, work, BuilderInv, OneBuild
<1>2. CASE Reload
  BY <1>2 DEF Reload, work, BuilderInv, OneBuild
<1>3. CASE Reboot
  <2>1. at' = [c \in Callers |-> "idle"]
    BY <1>3 DEF Reboot
  <2> QED
    BY <2>1 DEF BuilderInv, OneBuild, Steps
<1>4. CASE UNCHANGED deployVars
  BY <1>4 DEF deployVars, BuilderInv, OneBuild
<1> QED
  BY <1>1, <1>2, <1>3, <1>4, RequestBuilder, OtherBuilder, DeployBuilder, BuildEndsBuilder
     DEF Next, CallerStep

\* Two builds never run in the app's directory at once.
THEOREM OneBuildAlways == Spec => []OneBuild
<1>1. BuilderInv => OneBuild
  BY DEF BuilderInv
<1> QED
  BY <1>1, InitBuilder, NextBuilder, PTL DEF Spec

-----------------------------------------------------------------------------
(* Deletion is final.                                                      *)

StaysGone == Deleted => Deleted' /\ routed' \in {routed, NoPort}
                                 /\ mounted' \in {mounted, NoPort}

LEMMA CallerStaysGone ==
  ASSUME NEW c \in Callers, CallerStep(c)
  PROVE  StaysGone
<1>1. CASE StartApp(c) \/ StopApp(c) \/ RestartApp(c) \/ Deploy(c) \/ BuildEnds(c)
  BY <1>1 DEF StartApp, StopApp, RestartApp, Deploy, BuildEnds, rows, plane, StaysGone, Deleted
<1>2. CASE DeleteApp(c)
  BY <1>2 DEF DeleteApp, rows, plane, StaysGone, Deleted
<1>3. CASE Swap(c)
  <2>1. UNCHANGED <<routed, mounted>>
    BY <1>3 DEF Swap, LeadRoute, NotifyReload, SetAppPort, plane
  <2>2. appPort' = appPort \/ appPort' = Updated(appPort, NewPort(c))
    BY <1>3 DEF Swap, LeadRoute, NotifyReload, SetAppPort, rows
  <2>3. upstream' = upstream \/ upstream' = Updated(upstream, NewPort(c))
    BY <1>3 DEF Swap, LeadRoute, NotifyReload, SetAppPort, rows
  <2> QED
    BY <2>1, <2>2, <2>3 DEF Updated, StaysGone, Deleted
<1> QED
  BY <1>1, <1>2, <1>3 DEF CallerStep

\* Once both rows of an app are gone, no request, swap, reload or restart of
\* the panel brings one back or leads anybody to the app again.
THEOREM DeletionIsFinal == Spec => DeletedStaysGone
<1>1. [Next]_deployVars => [StaysGone]_deployVars
  <2> SUFFICES ASSUME Next PROVE StaysGone
    OBVIOUS
  <2>1. ASSUME NEW c \in Callers, NEW what \in Asked, Request(c, what) PROVE StaysGone
    BY <2>1 DEF Request, rows, plane, StaysGone, Deleted
  <2>2. ASSUME NEW u \in Units, ProcessStep(u) PROVE StaysGone
    BY <2>2 DEF ProcessStep, rows, plane, StaysGone, Deleted
  <2>3. CASE Reload
    BY <2>3 DEF Reload, rows, StaysGone, Deleted
  <2>4. CASE Reboot
    BY <2>4 DEF Reboot, rows, plane, StaysGone, Deleted
  <2> QED
    BY <2>1, <2>2, <2>3, <2>4, CallerStaysGone DEF Next
<1> QED
  BY <1>1, PTL DEF Spec, DeletedStaysGone, StaysGone

-----------------------------------------------------------------------------
(* Types.  A process that may still crash is within its budget, the map     *)
(* names only processes that exist, and a busy caller has read a port.      *)

PolicyTypes ==
  /\ phase \in [Units -> {"none", "starting", "up", "down", "over"}]
  /\ crashes \in [Units -> 0 .. MaxRestarts + 1]
  /\ told \in [Units -> BOOLEAN]
  /\ \A u \in Units : phase[u] # "over" => crashes[u] <= MaxRestarts

UnitTypes ==
  /\ PolicyTypes
  /\ port \in [Units -> Ports]
  /\ procs \in [Names -> Units \cup {NoUnit}]
  /\ listener \in [Ports -> Units \cup {NoUnit}]
  /\ \A n \in Names : procs[n] # NoUnit => phase[procs[n]] # "none"

RowTypes ==
  /\ appPort \in Ports \cup {NoPort} /\ upstream \in Ports \cup {NoPort}
  /\ routed \in Ports \cup {NoPort} /\ mounted \in Ports \cup {NoPort}
  /\ signalled \in BOOLEAN

WorkTypes ==
  /\ at \in [Callers -> Steps]
  /\ known \in [Callers -> Ports \cup {NoPort}]
  /\ before \in [Callers -> Units \cup {NoUnit}]
  /\ building \in BOOLEAN
  /\ \A c \in Callers : at[c] # "idle" => known[c] \in Ports

CounterTypes ==
  requests \in 0 .. MaxRequests /\ reboots \in 0 .. MaxReboots /\ disturbed \in BOOLEAN

Typed == UnitTypes /\ RowTypes /\ WorkTypes /\ CounterTypes

LEMMA TypedIsTypeOK == Typed => TypeOK
BY DEF Typed, UnitTypes, PolicyTypes, RowTypes, WorkTypes, CounterTypes, TypeOK, Steps

LEMMA PortFacts ==
  /\ NoPort \notin Ports /\ BasePort \in Ports
  /\ \A p \in Ports : AltPort(p) \in Ports
BY DEF Ports, BasePort, NoPort, AltPort

LEMMA UnitFacts == 1 \in Units /\ NoUnit \notin Units
BY DEF NoUnit

LEMMA InitTyped == Init => Typed
<1> SUFFICES ASSUME Init PROVE Typed
  OBVIOUS
<1>1. PolicyTypes
  BY DEF Init, PolicyTypes
<1>2. UnitTypes
  BY <1>1, UnitFacts, PortFacts DEF Init, UnitTypes, Names
<1>3. RowTypes
  BY PortFacts DEF Init, RowTypes
<1>4. WorkTypes
  BY DEF Init, WorkTypes, Steps
<1>5. CounterTypes
  <2>1. requests = 0 /\ reboots = 0
    BY DEF Init
  <2>2. requests \in 0 .. MaxRequests /\ reboots \in 0 .. MaxReboots
    BY <2>1
  <2>3. disturbed \in BOOLEAN
    BY DEF Init
  <2> QED
    BY <2>2, <2>3 DEF CounterTypes
<1> QED
  BY <1>2, <1>3, <1>4, <1>5 DEF Typed

\* No step of a process undoes its creation.
StaysCreated == \A v \in Units : phase[v] # "none" => phase'[v] # "none"

LEMMA MoveTypes ==
  ASSUME PolicyTypes, NEW u \in Units, NEW from, NEW to \in {"starting", "up", "down", "over"},
         Move(u, from, to), from # "over", crashes' = crashes, told' \in [Units -> BOOLEAN]
  PROVE  PolicyTypes' /\ StaysCreated
<1>1. phase' = [phase EXCEPT ![u] = to] /\ phase[u] # "over"
  BY DEF Move
<1>2. \A v \in Units : phase'[v] = IF v = u THEN to ELSE phase[v]
  BY <1>1 DEF PolicyTypes
<1>3. phase' \in [Units -> {"none", "starting", "up", "down", "over"}]
  BY <1>1 DEF PolicyTypes
<1> QED
  BY <1>1, <1>2, <1>3 DEF PolicyTypes, StaysCreated

LEMMA CrashTypes ==
  ASSUME PolicyTypes, NEW u \in Units, Crashed(u)
  PROVE  PolicyTypes' /\ StaysCreated
<1>1. PICK k \in {1, crashes[u] + 1} :
        /\ crashes' = [crashes EXCEPT ![u] = k]
        /\ Move(u, "up", IF k > MaxRestarts THEN "over" ELSE "down")
  BY DEF Crashed
<1>2. crashes[u] \in Nat /\ crashes[u] <= MaxRestarts
  BY <1>1 DEF Move, PolicyTypes
<1>3. k \in 0 .. MaxRestarts + 1
  BY <1>1, <1>2
<1>4. PICK to \in {"over", "down"} :
        phase' = [phase EXCEPT ![u] = to] /\ (to # "over" => k <= MaxRestarts)
  <2>1. CASE k > MaxRestarts
    BY <1>1, <2>1 DEF Move
  <2>2. CASE ~(k > MaxRestarts)
    <3>1. phase' = [phase EXCEPT ![u] = "down"]
      BY <1>1, <2>2 DEF Move
    <3>2. k <= MaxRestarts
      BY <1>3, <2>2
    <3> QED
      BY <3>1, <3>2
  <2> QED
    BY <2>1, <2>2
<1>5. crashes' \in [Units -> 0 .. MaxRestarts + 1]
  BY <1>1, <1>3 DEF PolicyTypes
<1>6. phase' \in [Units -> {"none", "starting", "up", "down", "over"}] /\ told' = told
  BY <1>4 DEF PolicyTypes, Crashed
<1>7. \A v \in Units : v # u => phase'[v] = phase[v] /\ crashes'[v] = crashes[v]
  BY <1>1, <1>4 DEF PolicyTypes
<1>8. phase'[u] = to /\ crashes'[u] = k
  BY <1>1, <1>4 DEF PolicyTypes
<1>9. StaysCreated
  BY <1>4, <1>7, <1>8 DEF StaysCreated
<1>10. \A v \in Units : phase'[v] # "over" => crashes'[v] <= MaxRestarts
  BY <1>4, <1>7, <1>8 DEF PolicyTypes
<1> QED
  BY <1>5, <1>6, <1>9, <1>10 DEF PolicyTypes

\* The methods of the supervisor.
LEMMA UnitsStay ==
  ASSUME UnitTypes, UNCHANGED units
  PROVE  UnitTypes'
BY DEF units, UnitTypes, PolicyTypes

LEMMA StartUnitTypes ==
  ASSUME UnitTypes, NEW n \in Names, NEW p \in Ports, NEW u \in Units, StartUnit(n, p, u)
  PROVE  UnitTypes'
<1>1. phase[u] = "none" /\ Move(u, "none", "starting") /\ crashes' = crashes /\ told' = told
  BY DEF StartUnit, Fresh, Created
<1>2. PolicyTypes' /\ StaysCreated
  BY <1>1, MoveTypes DEF UnitTypes, PolicyTypes
<1>3. phase'[u] = "starting"
  BY <1>1 DEF Move, UnitTypes, PolicyTypes
<1>4. /\ port' = [port EXCEPT ![u] = p] /\ procs' = [procs EXCEPT ![n] = u]
      /\ listener' = listener
  BY DEF StartUnit
<1>5. \A m \in Names : procs'[m] # NoUnit => phase'[procs'[m]] # "none"
  BY <1>2, <1>3, <1>4 DEF UnitTypes, StaysCreated
<1> QED
  BY <1>2, <1>4, <1>5 DEF UnitTypes

LEMMA StartMethodTypes ==
  ASSUME UnitTypes, NEW n \in Names, NEW p \in Ports, StartMethod(n, p)
  PROVE  UnitTypes'
BY StartUnitTypes, UnitsStay DEF StartMethod

LEMMA StopMethodTypes ==
  ASSUME UnitTypes, NEW n \in Names, StopMethod(n)
  PROVE  UnitTypes' /\ procs' = procs /\ port' = port
<1>1. procs' = procs /\ port' = port /\ listener' = listener
  BY DEF StopMethod
<1>2. phase' = phase /\ crashes' = crashes
  BY DEF StopMethod, Told, policyVars
<1>3. told' \in [Units -> BOOLEAN]
  BY DEF StopMethod, Told, policyVars, UnitTypes, PolicyTypes
<1> QED
  BY <1>1, <1>2, <1>3 DEF UnitTypes, PolicyTypes

LEMMA DeleteMethodTypes ==
  ASSUME UnitTypes, NEW n \in Names, DeleteMethod(n)
  PROVE  UnitTypes'
BY DEF DeleteMethod, policyVars, UnitTypes, PolicyTypes

LEMMA RenameMethodTypes ==
  ASSUME UnitTypes, NEW m \in Names, NEW n \in Names, m # n, RenameMethod(m, n)
  PROVE  UnitTypes'
BY DEF RenameMethod, policyVars, UnitTypes, PolicyTypes

LEMMA ProcessTypes ==
  ASSUME UnitTypes, NEW u \in Units, Listens(u) \/ Ends(u) \/ Launches(u)
  PROVE  UnitTypes'
<1>1. CASE Listens(u)
  BY <1>1 DEF Listens, policyVars, UnitTypes, PolicyTypes
<1>2. ASSUME PolicyTypes', StaysCreated, procs' = procs, port' = port,
             listener' \in [Ports -> Units \cup {NoUnit}]
      PROVE  UnitTypes'
  BY <1>2 DEF UnitTypes, StaysCreated
<1>3. CASE Ends(u)
  <2>1. procs' = procs /\ port' = port /\ listener' \in [Ports -> Units \cup {NoUnit}]
    BY <1>3 DEF Ends, Releases, UnitTypes
  <2>2. CASE StopsAsTold(u)
    <3>1. crashes' = crashes /\ told' = told /\ (Move(u, "up", "over") \/ Move(u, "down", "over"))
      BY <2>2 DEF StopsAsTold
    <3>2. PolicyTypes' /\ StaysCreated
      BY <3>1, MoveTypes DEF UnitTypes, PolicyTypes
    <3> QED
      BY <1>2, <2>1, <3>2
  <2>3. CASE Crashed(u)
    <3>1. PolicyTypes' /\ StaysCreated
      BY <2>3, CrashTypes DEF UnitTypes
    <3> QED
      BY <1>2, <2>1, <3>1
  <2> QED
    BY <1>3, <2>2, <2>3 DEF Ends
<1>4. CASE Launches(u)
  <2>1. procs' = procs /\ port' = port /\ listener' = listener
    BY <1>4 DEF Launches
  <2>2. crashes' = crashes /\ told' \in [Units -> BOOLEAN]
    BY <1>4 DEF Launches, ComesUp, CannotStart, Retried, UnitTypes, PolicyTypes
  <2>3. Move(u, "starting", "up") \/ Move(u, "starting", "over") \/ Move(u, "down", "starting")
    BY <1>4 DEF Launches, ComesUp, CannotStart, Retried
  <2>4. PolicyTypes' /\ StaysCreated
    BY <2>2, <2>3, MoveTypes DEF UnitTypes
  <2> QED
    BY <1>2, <2>1, <2>4 DEF UnitTypes
<1> QED
  BY <1>1, <1>3, <1>4

\* How a caller moves.
LEMMA GotoTypes ==
  ASSUME WorkTypes, NEW c \in Callers, at[c] # "idle", NEW step \in Steps, Goto(c, step),
         before' \in [Callers -> Units \cup {NoUnit}], building' \in BOOLEAN
  PROVE  WorkTypes'
<1>1. at' = [at EXCEPT ![c] = step]
  BY DEF Goto
<1>2. CASE step = "idle"
  BY <1>1, <1>2 DEF Goto, WorkTypes
<1>3. CASE step # "idle"
  BY <1>1, <1>3 DEF Goto, WorkTypes
<1> QED
  BY <1>2, <1>3

LEMMA RequestTyped ==
  ASSUME Typed, NEW c \in Callers, NEW what \in Asked, Request(c, what)
  PROVE  Typed'
<1>1. UnitTypes'
  BY UnitsStay DEF Typed, Request
<1>2. RowTypes'
  BY DEF Typed, RowTypes, Request, rows, plane
<1>3. what \in Steps
  BY DEF Asked, Steps, Deploying, Requesting
<1>4. WorkTypes'
  BY <1>3 DEF Typed, WorkTypes, RowTypes, Request
<1>5. disturbed' \in BOOLEAN /\ reboots' = reboots
  BY DEF Typed, CounterTypes, Request
<1>6. requests' \in 0 .. MaxRequests
  <2>1. requests < MaxRequests /\ requests' = requests + 1 /\ requests \in 0 .. MaxRequests
    BY DEF Typed, CounterTypes, Request
  <2> QED
    BY <2>1
<1> QED
  BY <1>1, <1>2, <1>4, <1>5, <1>6 DEF Typed, CounterTypes

\* A step of a caller is a method of the supervisor, a change of the rows or a
\* signal, and a move.
LEMMA CallerTyped ==
  ASSUME Typed, NEW c \in Callers, CallerStep(c)
  PROVE  Typed'
<1>1. at[c] # "idle"
  BY DEF CallerStep, StartApp, StopApp, RestartApp, DeleteApp, Deploy, BuildEnds, Swap, SwapBegins,
         WaitOver, Answered, TimedOut, Rollback, RetireOld, LeadRoute, NotifyReload, SetAppPort
<1>2. known[c] \in Ports /\ NewPort(c) \in Ports
  BY <1>1, PortFacts DEF Typed, WorkTypes, NewPort
<1>3. "app" \in Names /\ "old" \in Names
  BY DEF Names
<1>4. UnitTypes'
  <2>1. \/ UNCHANGED units \/ \E p \in Ports : StartMethod("app", p)
        \/ StopMethod("app") \/ DeleteMethod("app") \/ RenameMethod("app", "old")
        \/ StopMethod("old") \/ DeleteMethod("old") \/ RenameMethod("old", "app")
    BY <1>2 DEF CallerStep, StartApp, StopApp, RestartApp, DeleteApp, Deploy, BuildEnds, Swap,
                SwapBegins, WaitOver, Rollback, RetireOld
  <2> QED
    BY <1>3, <2>1, UnitsStay, StartMethodTypes, StopMethodTypes, DeleteMethodTypes,
       RenameMethodTypes DEF Typed
<1>5. RowTypes'
  <2>1. Updated(upstream, NewPort(c)) \in Ports \cup {NoPort}
        /\ Updated(appPort, NewPort(c)) \in Ports \cup {NoPort}
    BY <1>2 DEF Updated
  <2>2. routed' = routed /\ mounted' = mounted /\ signalled' \in {signalled, TRUE}
    BY DEF CallerStep, StartApp, StopApp, RestartApp, DeleteApp, Deploy, BuildEnds, Swap, LeadRoute,
           NotifyReload, SetAppPort, plane
  <2>3. /\ appPort' \in {appPort, NoPort, Updated(appPort, NewPort(c))}
        /\ upstream' \in {upstream, NoPort, Updated(upstream, NewPort(c))}
    BY DEF CallerStep, StartApp, StopApp, RestartApp, DeleteApp, Deploy, BuildEnds, Swap, LeadRoute,
           NotifyReload, SetAppPort, rows
  <2>4. signalled' \in BOOLEAN
    BY <2>2 DEF Typed, RowTypes
  <2> QED
    BY <2>1, <2>2, <2>3, <2>4 DEF Typed, RowTypes
<1>6. \E step \in Steps : Goto(c, step)
  BY DEF CallerStep, StartApp, StopApp, RestartApp, DeleteApp, Deploy, BuildEnds, Swap, SwapBegins,
         WaitOver, Answered, TimedOut, Rollback, RetireOld, LeadRoute, NotifyReload, SetAppPort,
         Steps, Deploying, RollingBack, Requesting
<1>7. before' \in [Callers -> Units \cup {NoUnit}]
  <2>1. procs["app"] \in Units \cup {NoUnit}
    BY <1>3 DEF Typed, UnitTypes
  <2>2. \/ before' = before \/ before' = [before EXCEPT ![c] = procs["app"]]
        \/ before' = [before EXCEPT ![c] = NoUnit]
    BY DEF CallerStep, StartApp, StopApp, RestartApp, DeleteApp, Deploy, BuildEnds, Swap, SwapBegins,
           WaitOver, Rollback, RetireOld, SwapOver
  <2> QED
    BY <2>1, <2>2 DEF Typed, WorkTypes
<1>8. building' \in BOOLEAN
  BY DEF CallerStep, StartApp, StopApp, RestartApp, DeleteApp, Deploy, BuildEnds, Swap, Typed,
         WorkTypes
<1>9. WorkTypes'
  BY <1>1, <1>6, <1>7, <1>8, GotoTypes DEF Typed
<1>10. UNCHANGED <<requests, reboots, disturbed>>
  BY DEF CallerStep, StartApp, StopApp, RestartApp, DeleteApp, Deploy, BuildEnds, Swap, Same
<1> QED
  BY <1>4, <1>5, <1>9, <1>10 DEF Typed, CounterTypes


LEMMA RebootRest ==
  ASSUME Typed, Reboot
  PROVE  RowTypes' /\ WorkTypes' /\ CounterTypes'
<1>1. RowTypes'
  BY DEF Typed, RowTypes, Reboot, rows, plane
<1>2. WorkTypes'
  BY DEF WorkTypes, Reboot, Steps
<1>3. disturbed' \in BOOLEAN /\ requests' = requests
  BY DEF Typed, CounterTypes, Reboot
<1>4. reboots' \in 0 .. MaxReboots
  <2>1. reboots < MaxReboots /\ reboots' = reboots + 1 /\ reboots \in 0 .. MaxReboots
    BY DEF Typed, CounterTypes, Reboot
  <2> QED
    BY <2>1
<1> QED
  BY <1>1, <1>2, <1>3, <1>4 DEF Typed, CounterTypes

LEMMA RebootUnits ==
  ASSUME Typed, Reboot
  PROVE  UnitTypes'
<1> DEFINE dead == [u \in Units |-> IF Alive(u) THEN "over" ELSE phase[u]]
<1>1. crashes' = crashes /\ told' = told /\ listener' = [p \in Ports |-> NoUnit]
  BY DEF Reboot
<1>2. /\ dead \in [Units -> {"none", "starting", "up", "down", "over"}]
      /\ \A u \in Units : dead[u] # "over" => phase[u] # "over"
  BY DEF Typed, UnitTypes, PolicyTypes, Alive
<1>3. CASE appPort = NoPort
  <2>1. phase' = dead /\ procs' = [n \in Names |-> NoUnit] /\ port' = port
    BY <1>3 DEF Reboot
  <2> QED
    BY <1>1, <1>2, <2>1 DEF Typed, UnitTypes, PolicyTypes
<1>4. CASE appPort # NoPort
  <2>1. PICK u \in Units :
          /\ Fresh(u) /\ phase' = [dead EXCEPT ![u] = "starting"]
          /\ procs' = [n \in Names |-> IF n = "app" THEN u ELSE NoUnit]
          /\ port' = [port EXCEPT ![u] = appPort]
    BY <1>4 DEF Reboot
  <2>2. phase[u] = "none" /\ phase'[u] = "starting"
    BY <1>2, <2>1 DEF Fresh
  <2>3. phase' \in [Units -> {"none", "starting", "up", "down", "over"}]
    BY <1>2, <2>1
  <2>4. \A v \in Units : phase'[v] # "over" => phase[v] # "over"
    BY <1>2, <2>1, <2>2
  <2>5. PolicyTypes'
    BY <1>1, <2>3, <2>4 DEF Typed, UnitTypes, PolicyTypes
  <2>6. appPort \in Ports
    BY <1>4 DEF Typed, RowTypes
  <2>7. port' \in [Units -> Ports]
    BY <2>1, <2>6 DEF Typed, UnitTypes
  <2>8. procs' \in [Names -> Units \cup {NoUnit}]
        /\ \A n \in Names : procs'[n] # NoUnit => procs'[n] = u
    BY <2>1
  <2> QED
    BY <1>1, <2>2, <2>5, <2>7, <2>8 DEF UnitTypes
<1> QED
  BY <1>3, <1>4

LEMMA StepTyped ==
  ASSUME Typed, [Next]_deployVars
  PROVE  Typed'
<1>1. ASSUME NEW u \in Units, ProcessStep(u) PROVE Typed'
  <2>1. UnitTypes'
    BY <1>1, ProcessTypes DEF ProcessStep, Typed
  <2> QED
    BY <1>1, <2>1 DEF ProcessStep, rows, plane, work, Typed, RowTypes, WorkTypes, CounterTypes
<1>2. CASE Reload
  <2>1. UnitTypes'
    BY <1>2, UnitsStay DEF Reload, Typed
  <2> QED
    BY <1>2, <2>1 DEF Reload, rows, work, Typed, RowTypes, WorkTypes, CounterTypes
<1>3. CASE Reboot
  BY <1>3, RebootRest, RebootUnits DEF Typed
<1>4. CASE UNCHANGED deployVars
  <2>1. UnitTypes'
    BY <1>4, UnitsStay DEF deployVars, units, Typed
  <2> QED
    BY <1>4, <2>1 DEF deployVars, Typed, RowTypes, WorkTypes, CounterTypes
<1> QED
  BY <1>1, <1>2, <1>3, <1>4, CallerTyped, RequestTyped DEF Next

LEMMA TypedHolds == Spec => []Typed
<1> QED
  BY InitTyped, StepTyped, PTL DEF Spec

\* Every variable stays in its type: in particular nobody is started on a port
\* that was not read from a row, and no budget is overdrawn.
THEOREM TypeCorrect == Spec => []TypeOK
<1> QED
  BY TypedHolds, TypedIsTypeOK, PTL

-----------------------------------------------------------------------------
(* What the stored port, the route and the two names say at each step of a  *)
(* request that nobody disturbs.                                            *)

Served == signalled \/ routed = upstream

Settled(p) == appPort = p /\ upstream = p /\ Served

Agreed ==
  /\ procs["old"] = NoUnit /\ appPort = upstream /\ Served
  /\ appPort # NoPort /\ procs["app"] # NoUnit => port[procs["app"]] = appPort

\* The new version runs under the app's name,
NewIsUp(c) == procs["app"] # NoUnit /\ port[procs["app"]] = NewPort(c)

\* and the version from before, if there was one, under the other.
OldIsKept(c) == procs["old"] = before[c] /\ (before[c] # NoUnit => port[before[c]] = known[c])

Unswapped == {"deploy", "building", "rename", "start", "stop", "restart", "restart wait",
              "restart start", "remove", "remove app"}
Swapping == {"launch", "wait", "route", "rollback stop", "rollback delete", "rollback rename"}

Tale(c) ==
  /\ at[c] \in Unswapped => Agreed /\ appPort = known[c]
  /\ at[c] \in Swapping => Settled(known[c]) /\ OldIsKept(c)
  /\ at[c] \in {"launch", "rollback rename"} => procs["app"] = NoUnit
  /\ at[c] \in {"wait", "route", "signal", "port", "stop old", "delete old"} => NewIsUp(c)
  /\ at[c] \in {"signal", "port"} => appPort = known[c] /\ upstream = NewPort(c)
  /\ at[c] = "port" => Served
  /\ at[c] \in {"stop old", "delete old"} => Settled(NewPort(c))
  /\ at[c] \in {"remove site", "remove signal"} => appPort = NoPort /\ procs["old"] = NoUnit
  /\ at[c] = "remove site" => Served
  /\ at[c] = "remove signal" => upstream = NoPort

Alone == \A c, d \in Callers : at[c] # "idle" /\ at[d] # "idle" => c = d

StoryInv ==
  ~disturbed => Alone /\ (Quiet => Agreed) /\ \A c \in Callers : at[c] # "idle" => Tale(c)

LEMMA InitStory == Init => StoryInv
<1> SUFFICES ASSUME Init PROVE StoryInv
  OBVIOUS
<1>1. /\ \A c \in Callers : at[c] = "idle"
      /\ appPort = BasePort /\ upstream = BasePort /\ routed = BasePort
  BY DEF Init
<1>2. procs["old"] = NoUnit /\ procs["app"] = 1 /\ port[1] = BasePort
  BY UnitFacts DEF Init, Names
<1> QED
  BY <1>1, <1>2 DEF StoryInv, Alone, Agreed, Served

\* The steps that only the caller's own tale matters for.
CallerFrame(c) ==
  /\ at[c] # "idle" /\ disturbed' = disturbed
  /\ \A d \in Callers \ {c} : at'[d] = at[d]

LEMMA StoryFromTale ==
  ASSUME StoryInv, NEW c \in Callers, CallerFrame(c),
         ~disturbed /\ Tale(c) => IF at'[c] = "idle" THEN Agreed' ELSE Tale(c)'
  PROVE  StoryInv'
<1> SUFFICES ASSUME ~disturbed
             PROVE  Alone' /\ (Quiet' => Agreed') /\ \A d \in Callers : at'[d] # "idle" => Tale(d)'
  BY DEF StoryInv, CallerFrame
<1>1. Tale(c) /\ \A d \in Callers \ {c} : at'[d] = "idle"
  BY DEF StoryInv, Alone, CallerFrame
<1>2. IF at'[c] = "idle" THEN Agreed' ELSE Tale(c)'
  BY <1>1
<1>3. Alone'
  BY <1>1 DEF Alone
<1>4. Quiet' => at'[c] = "idle"
  BY DEF Quiet
<1> QED
  BY <1>1, <1>2, <1>3, <1>4

LEMMA GotoMoved ==
  ASSUME Typed, NEW c \in Callers, at[c] # "idle", NEW step \in Steps, Goto(c, step)
  PROVE  /\ at'[c] = step /\ (step # "idle" => known'[c] = known[c])
         /\ \A d \in Callers \ {c} : at'[d] = at[d]
BY DEF Typed, WorkTypes, Goto

\* What the methods of the supervisor do to the map of names.
LEMMA StartMethodMap ==
  ASSUME Typed, NEW p \in Ports, StartMethod("app", p)
  PROVE  /\ procs'["old"] = procs["old"] /\ procs'["app"] # NoUnit
         /\ \/ procs' = procs /\ port' = port
            \/ port'[procs'["app"]] = p
         /\ procs["app"] = NoUnit => port'[procs'["app"]] = p
         /\ procs["old"] # NoUnit => port'[procs["old"]] = port[procs["old"]]
<1>1. "app" \in Names /\ "old" \in Names
  BY DEF Names
<1>2. CASE IsRunning("app") /\ UNCHANGED units
  BY <1>2 DEF units, IsRunning
<1>3. CASE \E u \in Units : StartUnit("app", p, u)
  <2>1. PICK u \in Units : StartUnit("app", p, u)
    BY <1>3
  <2>2. /\ phase[u] = "none" /\ port' = [port EXCEPT ![u] = p]
        /\ procs' = [procs EXCEPT !["app"] = u]
    BY <2>1 DEF StartUnit, Fresh
  <2>3. procs'["app"] = u /\ procs'["old"] = procs["old"] /\ u # NoUnit /\ port'[u] = p
    BY <1>1, <2>2, UnitFacts DEF Typed, UnitTypes
  <2>4. procs["old"] # NoUnit => procs["old"] \in Units /\ procs["old"] # u
    BY <1>1, <2>2 DEF Typed, UnitTypes
  <2> QED
    BY <2>2, <2>3, <2>4 DEF Typed, UnitTypes
<1> QED
  BY <1>2, <1>3 DEF StartMethod

LEMMA DeleteMethodMap ==
  ASSUME Typed, NEW n \in Names, DeleteMethod(n)
  PROVE  port' = port /\ procs'[n] = NoUnit /\ \A m \in Names \ {n} : procs'[m] = procs[m]
BY DEF DeleteMethod, Typed, UnitTypes

LEMMA RenameMethodMap ==
  ASSUME Typed, NEW m \in Names, NEW n \in Names, m # n, procs[n] = NoUnit, RenameMethod(m, n)
  PROVE  port' = port /\ procs'[n] = procs[m] /\ procs'[m] = NoUnit
BY DEF RenameMethod, Typed, UnitTypes

LEMMA StopMethodMap ==
  ASSUME Typed, NEW n \in Names, StopMethod(n)
  PROVE  port' = port /\ procs' = procs
BY DEF StopMethod

LEMMA RowsStayServed ==
  ASSUME UNCHANGED <<rows, plane>>
  PROVE  appPort' = appPort /\ upstream' = upstream /\ signalled' = signalled /\ routed' = routed
         /\ (Served' <=> Served)
BY DEF rows, plane, Served

TaleGoesOn(c) == Tale(c) => IF at'[c] = "idle" THEN Agreed' ELSE Tale(c)'

LEMMA RequestsGoOn ==
  ASSUME Typed, NEW c \in Callers, StartApp(c) \/ StopApp(c) \/ RestartApp(c)
  PROVE  CallerFrame(c) /\ TaleGoesOn(c)
<1>1. at[c] \in {"start", "stop", "restart", "restart wait", "restart start"}
  BY DEF StartApp, StopApp, RestartApp
<1>2. at[c] # "idle" /\ known[c] \in Ports
  BY <1>1 DEF Typed, WorkTypes
<1>3. PICK step \in {"idle", "restart wait", "restart start"} : Goto(c, step)
  BY DEF StartApp, StopApp, RestartApp
<1>4. step \in Steps
  BY DEF Steps, Requesting
<1>5. /\ at'[c] = step /\ (step # "idle" => known'[c] = known[c])
      /\ \A d \in Callers \ {c} : at'[d] = at[d]
  BY <1>2, <1>3, <1>4, GotoMoved
<1>6. UNCHANGED <<rows, plane>> /\ disturbed' = disturbed
  BY DEF StartApp, StopApp, RestartApp, Same
<1>7. StartMethod("app", known[c]) \/ StopMethod("app") \/ DeleteMethod("app")
  BY DEF StartApp, StopApp, RestartApp
<1>8. "app" \in Names /\ "old" \in Names \ {"app"}
  BY DEF Names
<1>9. Agreed /\ appPort = known[c] => Agreed' /\ appPort' = known[c]
  <2>1. CASE StartMethod("app", known[c])
    BY <1>2, <1>6, <2>1, StartMethodMap, RowsStayServed DEF Agreed
  <2>2. CASE StopMethod("app")
    BY <1>6, <1>8, <2>2, StopMethodMap, RowsStayServed DEF Agreed
  <2>3. CASE DeleteMethod("app")
    BY <1>6, <1>8, <2>3, DeleteMethodMap, RowsStayServed DEF Agreed
  <2> QED
    BY <1>7, <2>1, <2>2, <2>3
<1>10. Tale(c) => Agreed /\ appPort = known[c]
  BY <1>1 DEF Tale, Unswapped
<1>11. CASE step = "idle"
  BY <1>2, <1>5, <1>6, <1>9, <1>10, <1>11 DEF CallerFrame, TaleGoesOn
<1>12. CASE step \in {"restart wait", "restart start"}
  <2>1. Agreed' /\ appPort' = known[c] => Tale(c)'
    BY <1>5, <1>12 DEF Tale, Unswapped, Swapping
  <2> QED
    BY <1>2, <1>5, <1>6, <1>9, <1>10, <1>12, <2>1 DEF CallerFrame, TaleGoesOn
<1> QED
  BY <1>11, <1>12

LEMMA DeletionGoesOn ==
  ASSUME Typed, NEW c \in Callers, DeleteApp(c)
  PROVE  CallerFrame(c) /\ TaleGoesOn(c)
<1>1. at[c] # "idle" /\ disturbed' = disturbed
  BY DEF DeleteApp, Same
<1>2. \A step \in {"idle", "remove app", "remove site", "remove signal"} : step \in Steps
  BY DEF Steps, Requesting
<1>3. "app" \in Names
  BY DEF Names
<1>4. CASE at[c] = "remove"
  <2>1. Goto(c, "remove app") /\ StopMethod("app") /\ UNCHANGED <<rows, plane>>
    BY <1>4 DEF DeleteApp
  <2>2. /\ at'[c] = "remove app" /\ known'[c] = known[c]
        /\ \A d \in Callers \ {c} : at'[d] = at[d]
    BY <1>1, <1>2, <2>1, GotoMoved
  <2>3. Agreed /\ appPort = known[c] => Agreed' /\ appPort' = known'[c]
    BY <1>3, <2>1, <2>2, StopMethodMap, RowsStayServed DEF Agreed
  <2>4. Tale(c) => Tale(c)'
    BY <1>4, <2>2, <2>3 DEF Tale, Unswapped, Swapping
  <2> QED
    BY <1>1, <2>2, <2>4 DEF CallerFrame, TaleGoesOn
<1>5. CASE at[c] = "remove app"
  <2>1. Goto(c, "remove site") /\ appPort' = NoPort /\ UNCHANGED <<units, upstream, plane>>
    BY <1>5 DEF DeleteApp
  <2>2. at'[c] = "remove site" /\ \A d \in Callers \ {c} : at'[d] = at[d]
    BY <1>1, <1>2, <2>1, GotoMoved
  <2>3. Tale(c) => Tale(c)'
    BY <1>5, <2>1, <2>2 DEF Tale, Unswapped, Swapping, Agreed, Served, units, plane
  <2> QED
    BY <1>1, <2>2, <2>3 DEF CallerFrame, TaleGoesOn
<1>6. CASE at[c] = "remove site"
  <2>1. Goto(c, "remove signal") /\ upstream' = NoPort /\ UNCHANGED <<units, appPort, plane>>
    BY <1>6 DEF DeleteApp
  <2>2. at'[c] = "remove signal" /\ \A d \in Callers \ {c} : at'[d] = at[d]
    BY <1>1, <1>2, <2>1, GotoMoved
  <2>3. Tale(c) => Tale(c)'
    BY <1>6, <2>1, <2>2 DEF Tale, Unswapped, Swapping, units
  <2> QED
    BY <1>1, <2>2, <2>3 DEF CallerFrame, TaleGoesOn
<1>7. CASE at[c] = "remove signal"
  <2>1. Goto(c, "idle") /\ signalled' = TRUE /\ UNCHANGED <<units, rows, routed, mounted>>
    BY <1>7 DEF DeleteApp
  <2>2. at'[c] = "idle" /\ \A d \in Callers \ {c} : at'[d] = at[d]
    BY <1>1, <1>2, <2>1, GotoMoved
  <2>3. Tale(c) => Agreed'
    BY <1>7, <2>1 DEF Tale, Agreed, Served, units, rows
  <2> QED
    BY <1>1, <2>2, <2>3 DEF CallerFrame, TaleGoesOn
<1> QED
  BY <1>4, <1>5, <1>6, <1>7 DEF DeleteApp

LEMMA BuildGoesOn ==
  ASSUME Typed, NEW c \in Callers, Deploy(c) \/ BuildEnds(c)
  PROVE  CallerFrame(c) /\ TaleGoesOn(c)
<1>1. at[c] \in {"deploy", "building"} /\ at[c] # "idle"
  BY DEF Deploy, BuildEnds
<1>2. PICK step \in {"idle", "building", "rename"} : Goto(c, step)
  BY DEF Deploy, BuildEnds
<1>3. step \in Steps
  BY DEF Steps, Deploying
<1>4. /\ at'[c] = step /\ (step # "idle" => known'[c] = known[c])
      /\ \A d \in Callers \ {c} : at'[d] = at[d]
  BY <1>1, <1>2, <1>3, GotoMoved
<1>5. UNCHANGED <<units, rows, plane>> /\ disturbed' = disturbed
  BY DEF Deploy, BuildEnds, Same
<1>6. Tale(c) => Agreed' /\ appPort' = known[c]
  BY <1>1, <1>5, RowsStayServed DEF Tale, Unswapped, Agreed, units
<1>7. CASE step = "idle"
  BY <1>1, <1>4, <1>5, <1>6, <1>7 DEF CallerFrame, TaleGoesOn
<1>8. CASE step # "idle"
  <2>1. Agreed' /\ appPort' = known[c] => Tale(c)'
    BY <1>4, <1>8 DEF Tale, Unswapped, Swapping
  <2> QED
    BY <1>1, <1>4, <1>5, <1>6, <1>8, <2>1 DEF CallerFrame, TaleGoesOn
<1> QED
  BY <1>7, <1>8

LEMMA SwapStepsAreSteps ==
  \A step \in {"launch", "wait", "route", "rollback stop", "rollback delete", "rollback rename",
               "signal", "port", "stop old", "delete old", "idle"} : step \in Steps
BY DEF Steps, Deploying, RollingBack

LEMMA SwapBeginsGoesOn ==
  ASSUME Typed, NEW c \in Callers, SwapBegins(c), UNCHANGED <<rows, plane>>, Same
  PROVE  CallerFrame(c) /\ TaleGoesOn(c)
<1>1. at[c] # "idle" /\ disturbed' = disturbed /\ "app" \in Names /\ "old" \in Names
  BY DEF SwapBegins, Same, Names
<1>2. CASE at[c] = "rename"
  <2>1. /\ Goto(c, "launch") /\ RenameMethod("app", "old")
        /\ before' = [before EXCEPT ![c] = procs["app"]]
    BY <1>2 DEF SwapBegins
  <2>2. /\ at'[c] = "launch" /\ known'[c] = known[c]
        /\ \A d \in Callers \ {c} : at'[d] = at[d]
    BY <1>1, <2>1, GotoMoved, SwapStepsAreSteps
  <2>3. before'[c] = procs["app"]
    BY <2>1 DEF Typed, WorkTypes
  <2>4. ASSUME Tale(c) PROVE Tale(c)'
    <3>1. Agreed /\ appPort = known[c] /\ known[c] # NoPort
      BY <1>1, <1>2, <2>4, PortFacts DEF Tale, Unswapped, Typed, WorkTypes
    <3>2. port' = port /\ procs'["old"] = procs["app"] /\ procs'["app"] = NoUnit
      BY <1>1, <2>1, <3>1, RenameMethodMap DEF Agreed
    <3>3. Settled(known[c])' /\ OldIsKept(c)'
      BY <2>2, <2>3, <3>1, <3>2, RowsStayServed DEF Settled, OldIsKept, Agreed
    <3> QED
      BY <2>2, <3>2, <3>3 DEF Tale, Unswapped, Swapping
  <2> QED
    BY <1>1, <2>2, <2>4 DEF CallerFrame, TaleGoesOn
<1>3. CASE at[c] = "launch"
  <2>1. Goto(c, "wait") /\ StartMethod("app", NewPort(c)) /\ before' = before
    BY <1>3 DEF SwapBegins
  <2>2. /\ at'[c] = "wait" /\ known'[c] = known[c]
        /\ \A d \in Callers \ {c} : at'[d] = at[d]
    BY <1>1, <2>1, GotoMoved, SwapStepsAreSteps
  <2>3. NewPort(c) \in Ports /\ NewPort(c)' = NewPort(c)
    BY <1>1, <2>2, PortFacts DEF NewPort, Typed, WorkTypes
  <2>4. ASSUME Tale(c) PROVE Tale(c)'
    <3>1. Settled(known[c]) /\ OldIsKept(c) /\ procs["app"] = NoUnit
      BY <1>3, <2>4 DEF Tale, Swapping
    <3>2. /\ procs'["old"] = procs["old"] /\ procs'["app"] # NoUnit
          /\ port'[procs'["app"]] = NewPort(c)
          /\ procs["old"] # NoUnit => port'[procs["old"]] = port[procs["old"]]
      BY <2>1, <2>3, <3>1, StartMethodMap
    <3>3. Settled(known[c])' /\ OldIsKept(c)'
      BY <2>1, <2>2, <3>1, <3>2, RowsStayServed DEF Settled, OldIsKept
    <3>4. NewIsUp(c)'
      BY <2>3, <3>2 DEF NewIsUp
    <3> QED
      BY <2>2, <3>3, <3>4 DEF Tale, Unswapped, Swapping
  <2> QED
    BY <1>1, <2>2, <2>4 DEF CallerFrame, TaleGoesOn
<1> QED
  BY <1>2, <1>3 DEF SwapBegins

LEMMA WaitGoesOn ==
  ASSUME Typed, NEW c \in Callers, WaitOver(c), UNCHANGED <<rows, plane>>, Same
  PROVE  CallerFrame(c) /\ TaleGoesOn(c)
<1>1. at[c] = "wait" /\ disturbed' = disturbed /\ before' = before /\ procs' = procs /\ port' = port
  BY DEF WaitOver, Answered, TimedOut, Same, units
<1>2. PICK step \in {"route", "rollback stop"} : Goto(c, step)
  BY DEF WaitOver, Answered, TimedOut
<1>3. /\ at'[c] = step /\ known'[c] = known[c] /\ \A d \in Callers \ {c} : at'[d] = at[d]
  BY <1>1, <1>2, GotoMoved, SwapStepsAreSteps
<1>4. NewPort(c)' = NewPort(c)
  BY <1>3 DEF NewPort
<1>5. ASSUME Tale(c) PROVE Tale(c)'
  <2>1. Settled(known[c]) /\ OldIsKept(c) /\ NewIsUp(c)
    BY <1>1, <1>5 DEF Tale, Swapping
  <2>2. Settled(known[c])' /\ OldIsKept(c)' /\ NewIsUp(c)'
    BY <1>1, <1>3, <1>4, <2>1, RowsStayServed DEF Settled, OldIsKept, NewIsUp
  <2> QED
    BY <1>3, <2>2 DEF Tale, Unswapped, Swapping
<1> QED
  BY <1>1, <1>3, <1>5 DEF CallerFrame, TaleGoesOn

LEMMA RollbackGoesOn ==
  ASSUME Typed, NEW c \in Callers, Rollback(c), UNCHANGED <<rows, plane>>, Same
  PROVE  CallerFrame(c) /\ TaleGoesOn(c)
<1>1. at[c] # "idle" /\ disturbed' = disturbed /\ "app" \in Names /\ "old" \in Names
  BY DEF Rollback, Same, Names
<1>2. CASE at[c] \in {"rollback stop", "rollback delete"}
  <2>1. PICK step \in {"rollback delete", "rollback rename"} :
          /\ Goto(c, step) /\ before' = before
          /\ (StopMethod("app") /\ step = "rollback delete") \/ DeleteMethod("app")
    BY <1>2 DEF Rollback
  <2>2. /\ at'[c] = step /\ known'[c] = known[c] /\ \A d \in Callers \ {c} : at'[d] = at[d]
    BY <1>1, <2>1, GotoMoved, SwapStepsAreSteps
  <2>3. /\ port' = port /\ procs'["old"] = procs["old"]
        /\ step = "rollback rename" => procs'["app"] = NoUnit
    <3>1. CASE StopMethod("app") /\ step = "rollback delete"
      BY <1>1, <3>1, StopMethodMap
    <3>2. CASE DeleteMethod("app")
      BY <1>1, <3>2, DeleteMethodMap
    <3> QED
      BY <2>1, <3>1, <3>2
  <2>4. ASSUME Tale(c) PROVE Tale(c)'
    <3>1. Settled(known[c]) /\ OldIsKept(c)
      BY <1>2, <2>4 DEF Tale, Swapping
    <3>2. Settled(known[c])' /\ OldIsKept(c)'
      BY <2>1, <2>2, <2>3, <3>1, RowsStayServed DEF Settled, OldIsKept
    <3> QED
      BY <2>2, <2>3, <3>2 DEF Tale, Unswapped, Swapping
  <2> QED
    BY <1>1, <2>2, <2>4 DEF CallerFrame, TaleGoesOn
<1>3. CASE at[c] = "rollback rename"
  <2>1. Goto(c, "idle") /\ RenameMethod("old", "app")
    BY <1>3 DEF Rollback
  <2>2. at'[c] = "idle" /\ \A d \in Callers \ {c} : at'[d] = at[d]
    BY <1>1, <2>1, GotoMoved, SwapStepsAreSteps
  <2>3. ASSUME Tale(c) PROVE Agreed'
    <3>1. Settled(known[c]) /\ OldIsKept(c) /\ procs["app"] = NoUnit
      BY <1>3, <2>3 DEF Tale, Swapping
    <3>2. port' = port /\ procs'["app"] = procs["old"] /\ procs'["old"] = NoUnit
      BY <1>1, <2>1, <3>1, RenameMethodMap
    <3> QED
      BY <3>1, <3>2, RowsStayServed DEF Settled, OldIsKept, Agreed
  <2> QED
    BY <1>1, <2>2, <2>3 DEF CallerFrame, TaleGoesOn
<1> QED
  BY <1>2, <1>3 DEF Rollback

LEMMA RetireGoesOn ==
  ASSUME Typed, NEW c \in Callers, RetireOld(c), UNCHANGED <<rows, plane>>, Same
  PROVE  CallerFrame(c) /\ TaleGoesOn(c)
<1>1. at[c] # "idle" /\ disturbed' = disturbed /\ "app" \in Names \ {"old"} /\ "old" \in Names
  BY DEF RetireOld, Same, Names
<1>2. CASE at[c] = "stop old"
  <2>1. Goto(c, "delete old") /\ StopMethod("old")
    BY <1>2 DEF RetireOld
  <2>2. /\ at'[c] = "delete old" /\ known'[c] = known[c]
        /\ \A d \in Callers \ {c} : at'[d] = at[d]
    BY <1>1, <2>1, GotoMoved, SwapStepsAreSteps
  <2>3. procs' = procs /\ port' = port /\ NewPort(c)' = NewPort(c)
    BY <1>1, <2>1, <2>2, StopMethodMap DEF NewPort
  <2>4. ASSUME Tale(c) PROVE Tale(c)'
    <3>1. Settled(NewPort(c)) /\ NewIsUp(c)
      BY <1>2, <2>4 DEF Tale
    <3>2. Settled(NewPort(c))' /\ NewIsUp(c)'
      BY <2>3, <3>1, RowsStayServed DEF Settled, NewIsUp
    <3> QED
      BY <2>2, <3>2 DEF Tale, Unswapped, Swapping
  <2> QED
    BY <1>1, <2>2, <2>4 DEF CallerFrame, TaleGoesOn
<1>3. CASE at[c] = "delete old"
  <2>1. Goto(c, "idle") /\ DeleteMethod("old")
    BY <1>3 DEF RetireOld
  <2>2. at'[c] = "idle" /\ \A d \in Callers \ {c} : at'[d] = at[d]
    BY <1>1, <2>1, GotoMoved, SwapStepsAreSteps
  <2>3. ASSUME Tale(c) PROVE Agreed'
    <3>1. Settled(NewPort(c)) /\ NewIsUp(c)
      BY <1>3, <2>3 DEF Tale
    <3>2. port' = port /\ procs'["app"] = procs["app"] /\ procs'["old"] = NoUnit
      BY <1>1, <2>1, DeleteMethodMap
    <3> QED
      BY <3>1, <3>2, RowsStayServed DEF Settled, NewIsUp, Agreed
  <2> QED
    BY <1>1, <2>2, <2>3 DEF CallerFrame, TaleGoesOn
<1> QED
  BY <1>2, <1>3 DEF RetireOld

LEMMA RouteGoesOn ==
  ASSUME Typed, NEW c \in Callers, LeadRoute(c) \/ NotifyReload(c) \/ SetAppPort(c),
         UNCHANGED <<units, before>>, Same
  PROVE  CallerFrame(c) /\ TaleGoesOn(c)
<1>1. at[c] # "idle" /\ disturbed' = disturbed /\ procs' = procs /\ port' = port
  BY DEF LeadRoute, NotifyReload, SetAppPort, Same, units
<1>2. known[c] \in Ports /\ known[c] # NoPort
  BY <1>1, PortFacts DEF Typed, WorkTypes
<1>3. PICK step \in {"signal", "port", "stop old"} :
        /\ Goto(c, step)
        /\ step = "signal" => LeadRoute(c)
        /\ step = "port" => NotifyReload(c)
        /\ step = "stop old" => SetAppPort(c)
  BY DEF LeadRoute, NotifyReload, SetAppPort
<1>4. /\ at'[c] = step /\ known'[c] = known[c] /\ \A d \in Callers \ {c} : at'[d] = at[d]
  BY <1>1, <1>3, GotoMoved, SwapStepsAreSteps
<1>5. NewPort(c)' = NewPort(c)
  BY <1>4 DEF NewPort
<1>6. NewIsUp(c) => NewIsUp(c)'
  BY <1>1, <1>5 DEF NewIsUp
<1>7. CASE step = "signal"
  <2>1. /\ at[c] = "route" /\ upstream' = Updated(upstream, NewPort(c)) /\ appPort' = appPort
    BY <1>3, <1>7 DEF LeadRoute
  <2>2. ASSUME Tale(c) PROVE Tale(c)'
    <3>1. Settled(known[c]) /\ NewIsUp(c)
      BY <2>1, <2>2 DEF Tale, Swapping
    <3>2. upstream' = NewPort(c) /\ appPort' = known[c]
      BY <1>2, <2>1, <3>1 DEF Settled, Updated
    <3> QED
      BY <1>4, <1>5, <1>6, <1>7, <3>1, <3>2 DEF Tale, Unswapped, Swapping
  <2> QED
    BY <1>1, <1>4, <1>7, <2>2 DEF CallerFrame, TaleGoesOn
<1>8. CASE step = "port"
  <2>1. at[c] = "signal" /\ signalled' = TRUE /\ UNCHANGED rows
    BY <1>3, <1>8 DEF NotifyReload
  <2>2. ASSUME Tale(c) PROVE Tale(c)'
    <3>1. NewIsUp(c) /\ appPort = known[c] /\ upstream = NewPort(c)
      BY <2>1, <2>2 DEF Tale
    <3>2. Served' /\ appPort' = known[c] /\ upstream' = NewPort(c)
      BY <2>1, <3>1 DEF Served, rows
    <3> QED
      BY <1>4, <1>5, <1>6, <1>8, <3>1, <3>2 DEF Tale, Unswapped, Swapping
  <2> QED
    BY <1>1, <1>4, <1>8, <2>2 DEF CallerFrame, TaleGoesOn
<1>9. CASE step = "stop old"
  <2>1. /\ at[c] = "port" /\ appPort' = Updated(appPort, NewPort(c)) /\ upstream' = upstream
        /\ UNCHANGED plane
    BY <1>3, <1>9 DEF SetAppPort
  <2>2. ASSUME Tale(c) PROVE Tale(c)'
    <3>1. NewIsUp(c) /\ appPort = known[c] /\ upstream = NewPort(c) /\ Served
      BY <2>1, <2>2 DEF Tale
    <3>2. appPort' = NewPort(c) /\ upstream' = NewPort(c) /\ Served'
      BY <1>2, <2>1, <3>1 DEF Updated, Served, plane
    <3>3. Settled(NewPort(c))'
      BY <1>5, <3>2 DEF Settled
    <3> QED
      BY <1>4, <1>6, <1>9, <3>1, <3>3 DEF Tale, Unswapped, Swapping
  <2> QED
    BY <1>1, <1>4, <1>9, <2>2 DEF CallerFrame, TaleGoesOn
<1> QED
  BY <1>7, <1>8, <1>9

LEMMA CallerFrames ==
  ASSUME Typed, NEW c \in Callers, CallerStep(c)
  PROVE  CallerFrame(c)
BY SwapBeginsGoesOn, WaitGoesOn, RollbackGoesOn, RetireGoesOn, RouteGoesOn, RequestsGoOn,
   DeletionGoesOn, BuildGoesOn DEF CallerStep, Swap

LEMMA CallerStory ==
  ASSUME Typed, StoryInv, NEW c \in Callers, CallerStep(c)
  PROVE  StoryInv'
<1>1. CASE Swap(c)
  BY <1>1, SwapBeginsGoesOn, WaitGoesOn, RollbackGoesOn, RetireGoesOn, RouteGoesOn, StoryFromTale
     DEF Swap, TaleGoesOn
<1>2. CASE StartApp(c) \/ StopApp(c) \/ RestartApp(c) \/ DeleteApp(c) \/ Deploy(c) \/ BuildEnds(c)
  BY <1>2, RequestsGoOn, DeletionGoesOn, BuildGoesOn, StoryFromTale DEF TaleGoesOn
<1> QED
  BY <1>1, <1>2 DEF CallerStep

\* Steps of the others change nothing that a tale is about.
LEMMA FrameStory ==
  ASSUME StoryInv, UNCHANGED <<port, procs, appPort, upstream, at, known, before, disturbed>>,
         Served => Served'
  PROVE  StoryInv'
<1>1. Agreed => Agreed'
  BY DEF Agreed
<1>2. ASSUME NEW c \in Callers, Tale(c) PROVE Tale(c)'
  <2>1. NewPort(c)' = NewPort(c)
    BY DEF NewPort
  <2>2. (OldIsKept(c) => OldIsKept(c)') /\ (NewIsUp(c) => NewIsUp(c)')
    BY <2>1 DEF OldIsKept, NewIsUp
  <2>3. (Settled(known[c]) => Settled(known[c])') /\ (Settled(NewPort(c)) => Settled(NewPort(c))')
    BY <2>1 DEF Settled
  <2> QED
    BY <1>1, <1>2, <2>1, <2>2, <2>3 DEF Tale
<1> QED
  BY <1>1, <1>2 DEF StoryInv, Alone, Quiet

LEMMA RequestStory ==
  ASSUME Typed, StoryInv, NEW c \in Callers, NEW what \in Asked, Request(c, what)
  PROVE  StoryInv'
<1> SUFFICES ASSUME ~disturbed'
             PROVE  Alone' /\ (Quiet' => Agreed') /\ \A d \in Callers : at'[d] # "idle" => Tale(d)'
  BY DEF StoryInv
<1>1. ~disturbed /\ \A d \in Callers : at[d] = "idle"
  BY DEF Request
<1>2. Agreed
  BY <1>1 DEF StoryInv, Quiet
<1>3. at'[c] = what /\ known'[c] = appPort /\ \A d \in Callers \ {c} : at'[d] = "idle"
  BY <1>1 DEF Request, Typed, WorkTypes
<1>4. Agreed' /\ appPort' = appPort
  BY <1>2, RowsStayServed DEF Request, Agreed, units, rows
<1>5. what \in Unswapped /\ what # "idle"
  BY DEF Asked, Unswapped
<1>6. Tale(c)'
  BY <1>3, <1>4 DEF Tale, Asked, Unswapped, Swapping
<1> QED
  BY <1>3, <1>5, <1>6 DEF Alone, Quiet

LEMMA RebootStory ==
  ASSUME Typed, StoryInv, Reboot
  PROVE  StoryInv'
<1> SUFFICES ASSUME ~disturbed'
             PROVE  Alone' /\ (Quiet' => Agreed') /\ \A d \in Callers : at'[d] # "idle" => Tale(d)'
  BY DEF StoryInv
<1>1. ~disturbed /\ ~Torn /\ \A d \in Callers : at'[d] = "idle"
  BY DEF Reboot
<1>2. appPort = upstream /\ Served
  <2>1. CASE Quiet
    BY <1>1, <2>1 DEF StoryInv, Agreed
  <2>2. CASE ~Quiet
    <3>1. PICK c \in Callers : at[c] # "idle"
      BY <2>2 DEF Quiet
    <3>2. Tale(c) /\ at[c] \in Steps /\ at[c] \notin {"signal", "port", "remove site", "remove signal"}
      BY <1>1, <3>1 DEF StoryInv, Torn, Typed, WorkTypes
    <3>3. at[c] \in Unswapped \cup Swapping \cup {"stop old", "delete old"}
      BY <3>1, <3>2 DEF Steps, Deploying, RollingBack, Requesting, Unswapped, Swapping
    <3> QED
      BY <3>2, <3>3 DEF Tale, Agreed, Settled
  <2> QED
    BY <2>1, <2>2
<1>3. appPort' = appPort /\ upstream' = upstream /\ Served'
  BY <1>2, RowsStayServed DEF Reboot
<1>4. /\ procs'["old"] = NoUnit
      /\ appPort # NoPort /\ procs'["app"] # NoUnit => port'[procs'["app"]] = appPort
  <2>1. CASE appPort = NoPort
    BY <2>1 DEF Reboot, Names
  <2>2. CASE appPort # NoPort
    <3>1. PICK u \in Units :
            /\ procs' = [n \in Names |-> IF n = "app" THEN u ELSE NoUnit]
            /\ port' = [port EXCEPT ![u] = appPort]
      BY <2>2 DEF Reboot
    <3> QED
      BY <3>1 DEF Names, Typed, UnitTypes
  <2> QED
    BY <2>1, <2>2
<1> QED
  BY <1>1, <1>2, <1>3, <1>4 DEF Alone, Agreed

LEMMA StepStory ==
  ASSUME Typed, StoryInv, [Next]_deployVars
  PROVE  StoryInv'
<1>1. ASSUME NEW u \in Units, ProcessStep(u) PROVE StoryInv'
  BY <1>1, FrameStory, RowsStayServed
     DEF ProcessStep, Listens, Ends, Launches, rows, work
<1>2. CASE Reload
  <2>1. Served'
    BY <1>2 DEF Reload, Served, rows
  <2> QED
    BY <1>2, <2>1, FrameStory DEF Reload, units, rows, work
<1>3. CASE UNCHANGED deployVars
  BY <1>3, FrameStory DEF deployVars, Served
<1> QED
  BY <1>1, <1>2, <1>3, CallerStory, RequestStory, RebootStory DEF Next

LEMMA StoryHolds == Spec => [](Typed /\ StoryInv)
<1>1. Init => Typed /\ StoryInv
  BY InitTyped, InitStory
<1>2. Typed /\ StoryInv /\ [Next]_deployVars => (Typed /\ StoryInv)'
  BY StepTyped, StepStory
<1> QED
  BY <1>1, <1>2, PTL DEF Spec

\* Between requests that did not overlap, the stored port, the route and the
\* process under the app's name tell the same story and no old version is left:
\* whichever way the deployments before went, and wherever the panel was
\* restarted except between the writes of a swap or a deletion.
THEOREM AgreementAlways == Spec => []Agreement
<1>1. Typed /\ StoryInv => Agreement
  BY DEF StoryInv, Agreement, Agreed, Served
<1> QED
  BY <1>1, StoryHolds, PTL

Restores ==
  \A c \in Callers :
    at[c] \in RollingBack /\ at'[c] = "idle" /\ ~disturbed' /\ reboots' = reboots =>
      /\ procs'["app"] = before[c]
      /\ appPort' = known[c] /\ upstream' = known[c]

\* The last step of a rollback, by the caller whose rollback it is.
LEMMA RollbackEnds ==
  ASSUME Typed, StoryInv, NEW c \in Callers, Swap(c), at[c] \in RollingBack,
         at'[c] = "idle", ~disturbed
  PROVE  procs'["app"] = before[c] /\ appPort' = known[c] /\ upstream' = known[c]
<1>1. Rollback(c) /\ UNCHANGED <<rows, plane>>
  BY DEF Swap, SwapBegins, WaitOver, Answered, TimedOut, RetireOld, LeadRoute, NotifyReload,
         SetAppPort, RollingBack
<1>2. at[c] # "idle"
  BY DEF RollingBack
<1>3. at[c] = "rollback rename" /\ RenameMethod("old", "app")
  <2>1. ASSUME NEW step \in {"rollback delete", "rollback rename"}, Goto(c, step) PROVE FALSE
    BY <1>2, <2>1, GotoMoved, SwapStepsAreSteps
  <2> QED
    BY <1>1, <2>1 DEF Rollback
<1>4. Tale(c)
  BY <1>2 DEF StoryInv
<1>5. Settled(known[c]) /\ OldIsKept(c) /\ procs["app"] = NoUnit
  BY <1>3, <1>4 DEF Tale, Swapping
<1>6. procs'["app"] = procs["old"]
  BY <1>3, <1>5, RenameMethodMap DEF Names
<1> QED
  BY <1>1, <1>5, <1>6, RowsStayServed DEF Settled, OldIsKept

LEMMA StepRestores ==
  ASSUME Typed, StoryInv, [Next]_deployVars
  PROVE  Restores
<1> SUFFICES ASSUME NEW c \in Callers, at[c] \in RollingBack, at'[c] = "idle", ~disturbed',
                    reboots' = reboots
             PROVE  procs'["app"] = before[c] /\ appPort' = known[c] /\ upstream' = known[c]
  BY DEF Restores
<1>1. at[c] # "idle"
  BY DEF RollingBack
<1>2. at' # at
  BY <1>1
<1>3. ~Reboot
  BY DEF Reboot, Typed, CounterTypes
<1>4. PICK d \in Callers : CallerStep(d) \/ \E what \in Asked : Request(d, what)
  BY <1>2, <1>3 DEF Next, ProcessStep, Reload, work, deployVars
<1>5. ASSUME NEW what \in Asked, Request(d, what) PROVE FALSE
  BY <1>1, <1>5 DEF Request, Typed, WorkTypes, Asked
<1>6. CallerFrame(d)
  BY <1>4, <1>5, CallerFrames
<1>7. d = c
  BY <1>1, <1>6 DEF CallerFrame
<1>8. Swap(c)
  BY <1>4, <1>5, <1>7 DEF CallerStep, StartApp, StopApp, RestartApp, DeleteApp, Deploy, BuildEnds,
                          RollingBack
<1> QED
  BY <1>6, <1>7, <1>8, RollbackEnds DEF CallerFrame

\* A deployment that does not come up changes nothing: the version from before
\* is back under the app's name and the rows still lead to its port.
THEOREM RollbackAlwaysRestores == Spec => RollbackRestores
<1>1. Typed /\ StoryInv /\ [Next]_deployVars => [Restores]_deployVars
  BY StepRestores
<1> QED
  BY <1>1, StoryHolds, PTL DEF Spec, RollbackRestores, Restores

===============================================================================
