------------------------------- MODULE DataPlane -------------------------------
(***************************************************************************)
(* Hot reload of the data plane (lamund serve): API handlers commit to the *)
(* SQLite store and send SIGHUP to the pid in the pidfile; the data plane  *)
(* answers by building a route table and a DNS snapshot from the store and *)
(* swapping them in.  Neither build is a transaction: BuildTable and       *)
(* AllDNSData are three queries each, between which other processes        *)
(* commit.  ACME DNS-01 solvers reload the DNS snapshot concurrently.      *)
(*                                                                         *)
(* What is stored is abstracted to one version number per part of the      *)
(* store; a table is the versions it was built from.                       *)
(***************************************************************************)
EXTENDS Naturals, Sequences

CONSTANTS
  Handlers,      \* API goroutines that change the store
  Solvers,       \* goroutines that solve an ACME DNS-01 challenge
  Touched,       \* the parts the handlers change
  MaxVersion,    \* bound: versions of a part
  MaxRecords,    \* bound: versions of the DNS records
  MaxBoots,      \* bound: starts of the data plane
  ReadsFail      \* BOOLEAN: a query or a file write can return an error

\* The order of BuildTable's queries and of AllDNSData's, and a BuildTable that
\* resolves the apps first.
RouteOrderAppsFirst == <<"apps", "sites", "aliases">>
RouteOrder == <<"sites", "aliases", "apps">>
ZoneOrder == <<"zones", "records", "settings">>

RouteParts == {"sites", "aliases", "apps"}
ZoneParts == {"zones", "records", "settings"}
Parts == RouteParts \cup ZoneParts

ASSUME DataPlaneAssumption ==
  /\ Touched \subseteq Parts
  /\ MaxVersion \in Nat \ {0} /\ MaxRecords \in Nat \ {0}
  /\ MaxBoots \in Nat \ {0}
  /\ ReadsFail \in BOOLEAN
  /\ "main" \notin Solvers

\* Goroutines of the data plane that read the store: the main goroutine, later
\* the one that waits for SIGHUP (they never run at once), and the solvers.
Readers == {"main"} \cup Solvers

Lost == 0     \* a part whose query failed: an empty map stands for it
NoVersions == [k \in Parts |-> Lost]
NoPid == 0

VARIABLES
  db,         \* the version of each part of the store
  needs,      \* the version of the apps each version of the sites mounts
  at,         \* where each handler stands: "idle", "notify" or "kill"
  sent,       \* the pid it has read from the pidfile
  pidfile,    \* the pid in the pidfile: pids number the starts
  boots,      \* the pid of the latest data plane
  plane,      \* where its main, then its SIGHUP goroutine stands
  hup,        \* a SIGHUP waits in the channel, whose capacity is one
  solver,     \* where each solver stands
  asked,      \* the version of the records that has a solver's TXT record
  done,       \* how many queries the build of each reader has made
  build,      \* and the versions it has read
  table,      \* the route table that is served
  snapshot,   \* the DNS snapshot that is served
  owed        \* history: the versions a delivered SIGHUP has promised to serve

store == <<db, needs>>
callers == <<at, sent>>
solvers == <<solver, asked>>
builds == <<done, build>>
served == <<table, snapshot>>
planeVars == <<db, needs, at, sent, pidfile, boots, plane, hup, solver, asked,
               done, build, table, snapshot, owed>>

Limit(k) == IF k = "records" THEN MaxRecords ELSE MaxVersion
Booting == {"boot routes", "boot zones", "pidfile", "install"}
Serving == {"idle", "routes", "zones"}
Solving == {"idle", "appended", "presented", "deleted"}

Init ==
  /\ db = [k \in Parts |-> 1]
  /\ needs = [v \in 0 .. MaxVersion |-> IF v = 1 THEN 1 ELSE 0]
  /\ at = [h \in Handlers |-> "idle"]
  /\ sent = [h \in Handlers |-> NoPid]
  /\ pidfile = NoPid
  /\ boots = 0
  /\ plane = "down"
  /\ hup = FALSE
  /\ solver = [s \in Solvers |-> "idle"]
  /\ asked = [s \in Solvers |-> 0]
  /\ done = [r \in Readers |-> 0]
  /\ build = [r \in Readers |-> NoVersions]
  /\ table = [k \in RouteParts |-> Lost]
  /\ snapshot = [k \in ZoneParts |-> Lost]
  /\ owed = [k \in Parts |-> 0]

Up == plane # "down"

-----------------------------------------------------------------------------
(* API handlers: commit, then notifyReload.                                *)

\* A handler may commit several times before it notifies (handleCreateApp: the
\* app, then its site); a version of the sites mounts apps that exist already.
Commit(h, k) ==
  /\ at[h] \in {"idle", "notify"}
  /\ k \in Touched /\ db[k] < Limit(k)
  /\ db' = [db EXCEPT ![k] = db[k] + 1]
  /\ needs' = IF k = "sites" THEN [needs EXCEPT ![db[k] + 1] = db["apps"]] ELSE needs
  /\ at' = [at EXCEPT ![h] = "notify"]
  /\ UNCHANGED <<sent, pidfile, boots, plane, hup, solvers, builds, served, owed>>

\* reloadSignaler reads the pidfile; without one there is nobody to signal.
ReadPidfile(h) ==
  /\ at[h] = "notify"
  /\ sent' = [sent EXCEPT ![h] = pidfile]
  /\ at' = [at EXCEPT ![h] = IF pidfile = NoPid THEN "idle" ELSE "kill"]
  /\ UNCHANGED <<store, pidfile, boots, plane, hup, solvers, builds, served, owed>>

\* The data plane is gone, with all its goroutines.
PlaneGone ==
  /\ plane' = "down"
  /\ hup' = FALSE
  /\ solver' = [s \in Solvers |-> "idle"]
  /\ asked' = [s \in Solvers |-> 0]
  /\ done' = [r \in Readers |-> 0]
  /\ build' = [r \in Readers |-> NoVersions]
  /\ table' = [k \in RouteParts |-> Lost]
  /\ snapshot' = [k \in ZoneParts |-> Lost]
  /\ owed' = [k \in Parts |-> 0]
  /\ UNCHANGED <<store, boots>>

\* kill(pid, SIGHUP).  A data plane that has not called signal.Notify yet dies
\* of it; one that has finds it in the channel, unless one waits there already.
SendHup(h) ==
  /\ at[h] = "kill"
  /\ at' = [at EXCEPT ![h] = "idle"]
  /\ \/ /\ plane \in Serving /\ sent[h] = boots
        /\ hup' = TRUE
        /\ owed' = db
        /\ UNCHANGED <<store, boots, plane, solvers, builds, served>>
     \/ /\ plane \in Booting /\ sent[h] = boots
        /\ PlaneGone
     \/ /\ ~Up \/ sent[h] # boots
        /\ UNCHANGED <<store, boots, plane, hup, solvers, builds, served, owed>>
  /\ UNCHANGED <<sent, pidfile>>

-----------------------------------------------------------------------------
(* The store is read one query at a time.                                  *)

\* The query for part k succeeds, as the next of the build of reader r.
ReadPart(r, order, k) ==
  /\ done[r] < Len(order) /\ k = order[done[r] + 1]
  /\ build' = [build EXCEPT ![r] = [build[r] EXCEPT ![k] = db[k]]]
  /\ done' = [done EXCEPT ![r] = done[r] + 1]

\* It fails and the build goes on with an empty map.
LosePart(r, order, k) ==
  /\ ReadsFail
  /\ done[r] < Len(order) /\ k = order[done[r] + 1]
  /\ build' = [build EXCEPT ![r] = [build[r] EXCEPT ![k] = Lost]]
  /\ done' = [done EXCEPT ![r] = done[r] + 1]

Built(r, order) == done[r] = Len(order)

\* The next build of r starts afresh.
Afresh(r) ==
  /\ done' = [done EXCEPT ![r] = 0]
  /\ build' = [build EXCEPT ![r] = NoVersions]

\* It fails and the build is given up.
ReadFails(r, order) ==
  /\ ReadsFail
  /\ done[r] < Len(order)
  /\ Afresh(r)

\* A part the build has lost is not promised any more.
Forgives(versions) ==
  owed' = [k \in Parts |-> IF k \in DOMAIN versions /\ versions[k] = Lost
                           THEN 0 ELSE owed[k]]

-----------------------------------------------------------------------------
(* cmdServe and the goroutine of installReload.                            *)

BootPlane ==
  /\ plane = "down" /\ boots < MaxBoots
  /\ plane' = "boot routes"
  /\ boots' = boots + 1
  /\ UNCHANGED <<store, callers, pidfile, hup, solvers, builds, served, owed>>

\* for range hup: the signal leaves the channel before the store is read.
TakeHup ==
  /\ plane = "idle" /\ hup
  /\ hup' = FALSE
  /\ plane' = "routes"
  /\ UNCHANGED <<store, callers, pidfile, boots, solvers, builds, served, owed>>

BuildingRoutes == plane \in {"boot routes", "routes"}
BuildingZones == plane \in {"boot zones", "zones"}

\* A ListSites error that BuildTable treats like the two others.
QueryRoutesAnyhow ==
  /\ BuildingRoutes
  /\ \E k \in RouteParts :
       ReadPart("main", RouteOrder, k) \/ LosePart("main", RouteOrder, k)
  /\ UNCHANGED <<store, callers, pidfile, boots, plane, hup, solvers, served, owed>>

\* A query of BuildTable: only a ListSites error gives the build up.
QueryRoutes ==
  /\ BuildingRoutes
  /\ \E k \in RouteParts :
       ReadPart("main", RouteOrder, k) \/ (k # "sites" /\ LosePart("main", RouteOrder, k))
  /\ UNCHANGED <<store, callers, pidfile, boots, plane, hup, solvers, served, owed>>

\* ListSites fails: a booting data plane exits, a running one keeps its table
\* and skips the DNS reload too.
RoutesFail ==
  /\ BuildingRoutes /\ done["main"] = 0 /\ ReadsFail
  /\ \/ /\ plane = "boot routes"
        /\ PlaneGone
     \/ /\ plane = "routes"
        /\ plane' = "idle"
        /\ owed' = [k \in Parts |-> 0]
        /\ UNCHANGED <<store, boots, hup, solvers, builds, served>>
  /\ UNCHANGED <<callers, pidfile>>

\* r.tbl.Store
SwapRoutes ==
  /\ BuildingRoutes /\ Built("main", RouteOrder)
  /\ table' = [k \in RouteParts |-> build["main"][k]]
  /\ Afresh("main")
  /\ Forgives(table')
  /\ plane' = IF plane = "boot routes" THEN "boot zones" ELSE "zones"
  /\ UNCHANGED <<store, callers, pidfile, boots, hup, solvers, snapshot>>

QueryZones ==
  /\ BuildingZones
  /\ \E k \in ZoneParts : ReadPart("main", ZoneOrder, k)
  /\ UNCHANGED <<store, callers, pidfile, boots, plane, hup, solvers, served, owed>>

AfterZones == plane' = IF plane = "boot zones" THEN "pidfile" ELSE "idle"

\* A reload that drains the channel when it is over.
SwapZonesDrains ==
  /\ BuildingZones /\ Built("main", ZoneOrder)
  /\ snapshot' = [k \in ZoneParts |-> build["main"][k]]
  /\ Afresh("main")
  /\ AfterZones
  /\ hup' = FALSE
  /\ UNCHANGED <<store, callers, pidfile, boots, solvers, table, owed>>

\* z.Swap.  At boot nothing is served before; otherwise the old one goes.
SwapZones ==
  /\ BuildingZones /\ Built("main", ZoneOrder)
  /\ snapshot' = [k \in ZoneParts |-> build["main"][k]]
  /\ Afresh("main")
  /\ AfterZones
  /\ UNCHANGED <<store, callers, pidfile, boots, hup, solvers, table, owed>>

\* AllDNSData fails: no zones at boot, the old ones otherwise.
ZonesFail ==
  /\ BuildingZones /\ ReadFails("main", ZoneOrder)
  /\ snapshot' = IF plane = "boot zones" THEN [k \in ZoneParts |-> Lost] ELSE snapshot
  /\ owed' = [k \in Parts |-> IF k \in ZoneParts THEN 0 ELSE owed[k]]
  /\ AfterZones
  /\ UNCHANGED <<store, callers, pidfile, boots, hup, solvers, table>>

\* The pidfile names the new process before signal.Notify has been called.
WritePidfile ==
  /\ plane = "pidfile"
  /\ pidfile' = boots \/ (ReadsFail /\ pidfile' = pidfile)
  /\ plane' = "install"
  /\ UNCHANGED <<store, callers, boots, hup, solvers, builds, served, owed>>

InstallHandler ==
  /\ plane = "install"
  /\ plane' = "idle"
  /\ UNCHANGED <<store, callers, pidfile, boots, hup, solvers, builds, served, owed>>

\* Killed, or log.Fatal: the pidfile stays.
Crash ==
  /\ Up
  /\ PlaneGone
  /\ UNCHANGED <<callers, pidfile>>

\* SIGTERM: main returns and its deferred calls remove the pidfile it wrote.
Shutdown ==
  /\ plane \in Serving
  /\ PlaneGone
  /\ pidfile' = IF pidfile = boots THEN NoPid ELSE pidfile
  /\ UNCHANGED callers

-----------------------------------------------------------------------------
(* ACMEProvider, called by certmagic in goroutines of the data plane.      *)

\* AppendRecords adds the TXT record, DeleteRecords removes it.
ChangeTXT(s) ==
  /\ plane \in Serving
  /\ solver[s] \in {"idle", "presented"} /\ db["records"] < MaxRecords
  /\ db' = [db EXCEPT !["records"] = db["records"] + 1]
  /\ asked' = [asked EXCEPT ![s] = db["records"] + 1]
  /\ solver' = [solver EXCEPT ![s] = IF solver[s] = "idle" THEN "appended" ELSE "deleted"]
  /\ UNCHANGED <<needs, callers, pidfile, boots, plane, hup, builds, served, owed>>

\* The TXT record is there already, or gone already: nothing is reloaded.
TXTAlready(s) ==
  /\ plane \in Serving
  /\ solver[s] \in {"idle", "presented"}
  /\ asked' = [asked EXCEPT ![s] = 0]
  /\ solver' = [solver EXCEPT ![s] = IF solver[s] = "idle" THEN "presented" ELSE "idle"]
  /\ UNCHANGED <<store, callers, pidfile, boots, plane, hup, builds, served, owed>>

Reloading(s) == solver[s] \in {"appended", "deleted"}
Reloaded(s) ==
  solver' = [solver EXCEPT ![s] = IF solver[s] = "appended" THEN "presented" ELSE "idle"]

\* Each reloads the zones before it returns.
SolverQuery(s) ==
  /\ Reloading(s)
  /\ \E k \in ZoneParts : ReadPart(s, ZoneOrder, k)
  /\ UNCHANGED <<store, callers, pidfile, boots, plane, hup, solvers, served, owed>>

SolverSwap(s) ==
  /\ Reloading(s) /\ Built(s, ZoneOrder)
  /\ snapshot' = [k \in ZoneParts |-> build[s][k]]
  /\ Afresh(s)
  /\ Reloaded(s)
  /\ UNCHANGED <<store, callers, pidfile, boots, plane, hup, asked, table, owed>>

\* The error of that reload is dropped.
SolverFails(s) ==
  /\ Reloading(s) /\ ReadFails(s, ZoneOrder)
  /\ Reloaded(s)
  /\ UNCHANGED <<store, callers, pidfile, boots, plane, hup, asked, served, owed>>

-----------------------------------------------------------------------------

PlaneStep ==
  \/ TakeHup \/ QueryRoutes \/ RoutesFail \/ SwapRoutes
  \/ QueryZones \/ SwapZones \/ ZonesFail \/ WritePidfile \/ InstallHandler

SolverStep(s) == SolverQuery(s) \/ SolverSwap(s) \/ SolverFails(s)

Next ==
  \/ \E h \in Handlers : ReadPidfile(h) \/ SendHup(h) \/ \E k \in Parts : Commit(h, k)
  \/ PlaneStep
  \/ \E s \in Solvers : ChangeTXT(s) \/ TXTAlready(s) \/ SolverStep(s)
  \/ BootPlane \/ Crash \/ Shutdown

\* The goroutines of the data plane run when they can; nobody has to change
\* the store, and nothing restarts a data plane that has stopped.
Fairness == WF_planeVars(PlaneStep) /\ \A s \in Solvers : WF_planeVars(SolverStep(s))

Spec == Init /\ [][Next]_planeVars
FairSpec == Spec /\ Fairness

-----------------------------------------------------------------------------
(* Properties.                                                             *)

\* Every variable stays in its type.
TypeOK ==
  /\ db \in [Parts -> Nat] /\ \A k \in Parts : db[k] \in 1 .. Limit(k)
  /\ needs \in [0 .. MaxVersion -> Nat]
  /\ at \in [Handlers -> {"idle", "notify", "kill"}]
  /\ sent \in [Handlers -> 0 .. MaxBoots]
  /\ pidfile \in 0 .. MaxBoots /\ boots \in 0 .. MaxBoots
  /\ plane \in Booting \cup Serving \cup {"down"}
  /\ hup \in BOOLEAN
  /\ solver \in [Solvers -> Solving]
  /\ asked \in [Solvers -> Nat]
  /\ done \in [Readers -> 0 .. 3]
  /\ build \in [Readers -> [Parts -> Nat]]
  /\ table \in [RouteParts -> Nat]
  /\ snapshot \in [ZoneParts -> Nat]
  /\ owed \in [Parts -> Nat]

\* A torn read does no harm: although the three queries of BuildTable see three
\* states of the store, the apps of a served table are never older than its
\* sites, which therefore find every app they mount that has not been deleted
\* since: apps are created before the sites that mount them and read after.
AppsResolve ==
  Up /\ table["apps"] # Lost => table["apps"] >= needs[table["sites"]]

\* While one data plane runs, its route table never goes back to an older
\* store, and no error empties the list of sites.
TableMovesOn ==
  [][plane \notin {"down", "boot routes"} /\ plane' # "down" =>
       /\ table'["sites"] >= table["sites"]
       /\ \A k \in RouteParts : table'[k] >= table[k] \/ table'[k] = Lost]_planeVars

\* A SIGHUP that reached the handler is honoured, even one that arrived during
\* a reload or found another in the channel: in the end the table is at least
\* as new as the store was then, unless the data plane dies or a query fails.
ChangesLand ==
  \A k \in RouteParts : owed[k] > table[k] ~> owed[k] <= table[k]

\* No signal is lost between the channel, the reload that takes it and the next one: a
\* data plane that waits for a signal serves every change whose signal reached it,
\* but for what a failed query has lost.
PromisesKept ==
  plane = "idle" /\ ~hup => \A k \in RouteParts : owed[k] <= table[k]

\* A data plane as a follower of the store: it rests when no signal waits and no reload is
\* under way.
MoodOf ==
  CASE plane = "down" -> "off"
    [] plane \in Booting -> "starting"
    [] plane = "idle" /\ ~hup -> "resting"
    [] OTHER -> "busy"

Routes == INSTANCE Follower WITH
  Items <- RouteParts,
  Vital <- {"sites"},
  stored <- [k \in RouteParts |-> db[k]],
  shown <- table,
  due <- [k \in RouteParts |-> owed[k]],
  mood <- MoodOf

\* However SIGHUPs, queries, their errors, commits and restarts interleave, all that can be
\* seen of the route table is what Follower allows: one swap at a time, each part moving on
\* towards the store, the sites never lost, and no rest before every change whose signal
\* has arrived is served; a failed ListSites takes the promises back and nothing else.
FollowsStore == Routes!FollowerSpec

\* What acmeprovider.go says: once AppendRecords has returned, the name server
\* serves the TXT record of the challenge.
ChallengeServed ==
  \A s \in Solvers : solver[s] = "presented" => snapshot["records"] >= asked[s]

-----------------------------------------------------------------------------
(* The inductive invariant of the route table.                             *)

\* What the sites mount exists; what is served was once stored.
StoreInv ==
  /\ \A v \in 0 .. db["sites"] : needs[v] <= db["apps"]
  /\ \A k \in RouteParts : table[k] <= db[k]
  /\ table["apps"] # Lost => table["apps"] >= needs[table["sites"]]

\* What a build of the route table has read, query by query.
SitesRead ==
  /\ build["main"]["sites"] <= db["sites"]
  /\ build["main"]["sites"] >= table["sites"]
AliasesRead ==
  /\ build["main"]["aliases"] <= db["aliases"]
  /\ build["main"]["aliases"] = Lost \/ build["main"]["aliases"] >= table["aliases"]
AppsRead ==
  /\ build["main"]["apps"] <= db["apps"]
  /\ \/ build["main"]["apps"] = Lost
     \/ /\ build["main"]["apps"] >= table["apps"]
        /\ build["main"]["apps"] >= needs[build["main"]["sites"]]

BuildInv ==
  /\ BuildingRoutes \/ BuildingZones \/ done["main"] = 0
  /\ BuildingRoutes /\ done["main"] \in {1, 2, 3} => SitesRead
  /\ BuildingRoutes /\ done["main"] \in {2, 3} => AliasesRead
  /\ BuildingRoutes /\ done["main"] = 3 => AppsRead

SafeInv == StoreInv /\ BuildInv

-----------------------------------------------------------------------------
(* The inductive invariant of the promises.                                *)

\* The build under way has part k still to read, has read it since it was promised, or
\* has lost it.
Unread(k) == \A i \in 1 .. done["main"] : RouteOrder[i] # k
Coming(k) ==
  plane = "routes" /\ (Unread(k) \/ build["main"][k] >= owed[k] \/ build["main"][k] = Lost)

\* Nothing is promised but by a data plane that serves, nor before it is stored; and a
\* promise is kept, or a signal waits, or the reload that takes it is under way.
OwedInv ==
  /\ \A k \in RouteParts : owed[k] <= db[k]
  /\ plane \notin Serving => \A k \in RouteParts : owed[k] = 0
  /\ ~hup => \A k \in RouteParts : owed[k] <= table[k] \/ Coming(k)

===============================================================================
