-------------------------------- MODULE Registry --------------------------------
(***************************************************************************)
(* Who has which domain, and which port: the tables sites, site_domains    *)
(* and apps, and the API handlers that fill and empty them.  SQLite makes  *)
(* each statement atomic and keeps a domain unique within each table, but  *)
(* no constraint spans two tables, quotas are checked by counting, and a   *)
(* handler is several statements without a transaction: quota, alias and   *)
(* port are read by one of them and used by a later one.                   *)
(*                                                                         *)
(* Owners are users: a team that owns a site is not told apart from the    *)
(* user who made it.                                                       *)
(***************************************************************************)
EXTENDS Naturals, FiniteSets

CONSTANTS
  Domains,
  Users,         \* who sends requests
  Admins,        \* the superadmins among them
  Callers,       \* API goroutines
  MaxSites,      \* quota: sites of a user
  MaxApps,       \* quota: apps of a user
  MaxRequests,   \* bound: requests in all
  MaxReboots,    \* bound: restarts of the panel
  NoDomain,
  NoUser

ASSUME RegistryAssumption ==
  /\ Admins \subseteq Users /\ NoUser \notin Users
  /\ NoDomain \notin Domains
  /\ IsFiniteSet(Domains) /\ IsFiniteSet(Callers) /\ Callers # {}
  /\ MaxSites \in Nat \ {0} /\ MaxApps \in Nat \ {0}
  /\ MaxRequests \in Nat /\ MaxReboots \in Nat

NoRow == 0       \* no such row: ids and ports are positive
PortBase == 40000
Ports == {p \in Nat : p >= PortBase}

VARIABLES
  site,        \* sites: the id of the row of each domain,
  owner,       \*   its user_id,
  leads,       \*   and the port its config leads to, none for a static site
  alias,       \* site_domains: the site_id of the row of each domain
  appPort,     \* apps: the port of the row of each domain
  appOwner,    \*   and its user_id
  lastId,      \* AUTOINCREMENT: ids of sites are not used again
  at,          \* where each caller stands,
  by,          \*   for whom,
  dom,         \*   with which domain in the path or the body,
  other,       \*   with which alias,
  known,       \*   and with what it has read: the id of a site, or a port
  requests,
  reboots,
  troubled     \* history: the domains whose requests got into each other's way

siteTable == <<site, owner, leads, lastId>>
appTable == <<appPort, appOwner>>
work == <<at, by, dom, other, known>>
registryVars == <<site, owner, leads, alias, appPort, appOwner, lastId, at, by, dom,
                  other, known, requests, reboots, troubled>>

Creating == {"site quota", "site check", "site insert", "app quota", "app port",
             "app insert", "app check", "app site", "app undo"}
Removing == {"remove site", "remove site row", "remove app", "remove app row",
             "remove app site"}
Aliasing == {"alias", "alias check", "alias insert", "unalias", "unalias row"}
Deploying == {"deploy", "deploy route", "deploy port"}
HasPort == {"app insert", "app check", "app site", "deploy route", "deploy port"}
Asked == {"site quota", "app quota", "remove site", "remove app", "alias", "unalias", "deploy"}

Init ==
  /\ site = [d \in Domains |-> NoRow]
  /\ owner = [d \in Domains |-> NoUser]
  /\ leads = [d \in Domains |-> NoRow]
  /\ alias = [d \in Domains |-> NoRow]
  /\ appPort = [d \in Domains |-> NoRow]
  /\ appOwner = [d \in Domains |-> NoUser]
  /\ lastId = 0
  /\ at = [c \in Callers |-> "idle"]
  /\ by = [c \in Callers |-> NoUser]
  /\ dom = [c \in Callers |-> NoDomain]
  /\ other = [c \in Callers |-> NoDomain]
  /\ known = [c \in Callers |-> NoRow]
  /\ requests = 0 /\ reboots = 0 /\ troubled = {}

-----------------------------------------------------------------------------
(* Requests.                                                               *)

Names(c) == {dom[c], other[c]} \ {NoDomain}

\* A request that names a domain another one is busy with: no promise is made
\* about any domain of the two.
Rivals(c, names) == {r \in Callers \ {c} : at[r] # "idle" /\ Names(r) \cap names # {}}
Trouble(c, names) ==
  IF Rivals(c, names) = {} THEN {}
  ELSE names \cup UNION {Names(r) : r \in Rivals(c, names)}

Request(c, u, what, d, e) ==
  /\ at[c] = "idle"
  /\ requests < MaxRequests /\ requests' = requests + 1
  /\ IF what \in {"alias", "unalias"} THEN e \in Domains \ {d} ELSE e = NoDomain
  /\ at' = [at EXCEPT ![c] = what]
  /\ by' = [by EXCEPT ![c] = u]
  /\ dom' = [dom EXCEPT ![c] = d]
  /\ other' = [other EXCEPT ![c] = e]
  /\ troubled' = troubled \cup Trouble(c, {d, e} \ {NoDomain})
  /\ UNCHANGED <<siteTable, alias, appTable, known, reboots>>

Goto(c, step) ==
  /\ at' = [at EXCEPT ![c] = step]
  /\ UNCHANGED <<by, dom, other, known, requests, reboots, troubled>>

GotoWith(c, step, value) ==
  /\ at' = [at EXCEPT ![c] = step]
  /\ known' = [known EXCEPT ![c] = value]
  /\ UNCHANGED <<by, dom, other, requests, reboots, troubled>>

\* The handler answers, for better or for worse.
Answers(c) ==
  /\ at' = [at EXCEPT ![c] = "idle"]
  /\ by' = [by EXCEPT ![c] = NoUser]
  /\ dom' = [dom EXCEPT ![c] = NoDomain]
  /\ other' = [other EXCEPT ![c] = NoDomain]
  /\ known' = [known EXCEPT ![c] = NoRow]
  /\ UNCHANGED <<requests, reboots>>

AnswersInPeace(c) == Answers(c) /\ UNCHANGED troubled

\* ownedSite and ownedApp: 404 for anybody else.
MayAccess(u, who) == u \in Admins \/ u = who

-----------------------------------------------------------------------------
(* Sites.                                                                  *)

SitesOf(u) == {d \in Domains : site[d] # NoRow /\ owner[d] = u}
AppsOf(u) == {d \in Domains : appPort[d] # NoRow /\ appOwner[d] = u}

CanCreateSite(u) == u \in Admins \/ Cardinality(SitesOf(u)) < MaxSites

\* The row that CreateSite inserts, unless the domain has one.
InsertSite(d, u, port) ==
  /\ lastId' = lastId + 1
  /\ site' = [site EXCEPT ![d] = lastId + 1]
  /\ owner' = [owner EXCEPT ![d] = u]
  /\ leads' = [leads EXCEPT ![d] = port]

\* A CreateSite that does not look at the aliases.
CreateSiteAnyhow(c) ==
  \/ /\ at[c] = "site quota"
     /\ \/ CanCreateSite(by[c]) /\ Goto(c, "site insert")
        \/ ~CanCreateSite(by[c]) /\ AnswersInPeace(c)
     /\ UNCHANGED <<siteTable, alias, appTable>>
  \/ /\ at[c] = "site insert" /\ AnswersInPeace(c)
     /\ IF site[dom[c]] = NoRow THEN InsertSite(dom[c], by[c], NoRow) ELSE UNCHANGED siteTable
     /\ UNCHANGED <<alias, appTable>>

\* handleCreateSite: the quota, then CreateSite, which looks for an alias and
\* then inserts.
CreateSite(c) ==
  \/ /\ at[c] = "site quota"
     /\ \/ CanCreateSite(by[c]) /\ Goto(c, "site check")
        \/ ~CanCreateSite(by[c]) /\ AnswersInPeace(c)
     /\ UNCHANGED <<siteTable, alias, appTable>>
  \/ /\ at[c] = "site check"
     /\ \/ alias[dom[c]] = NoRow /\ Goto(c, "site insert")
        \/ alias[dom[c]] # NoRow /\ AnswersInPeace(c)
     /\ UNCHANGED <<siteTable, alias, appTable>>
  \/ /\ at[c] = "site insert" /\ AnswersInPeace(c)
     /\ IF site[dom[c]] = NoRow THEN InsertSite(dom[c], by[c], NoRow) ELSE UNCHANGED siteTable
     /\ UNCHANGED <<alias, appTable>>

\* A DeleteSite that leaves the aliases to a cascade that SQLite does not run.
DeleteSiteRowOnly(d) ==
  /\ site' = [site EXCEPT ![d] = NoRow]
  /\ owner' = [owner EXCEPT ![d] = NoUser]
  /\ leads' = [leads EXCEPT ![d] = NoRow]
  /\ UNCHANGED <<alias, lastId>>

\* DeleteSite, a transaction: the aliases of the domain's site, and its row.
DeleteSiteRow(d) ==
  /\ site' = [site EXCEPT ![d] = NoRow]
  /\ owner' = [owner EXCEPT ![d] = NoUser]
  /\ leads' = [leads EXCEPT ![d] = NoRow]
  /\ alias' = [e \in Domains |-> IF site[d] # NoRow /\ alias[e] = site[d] THEN NoRow ELSE alias[e]]
  /\ UNCHANGED lastId

\* handleDeleteSite does not ask whether the site is that of an app, which
\* then has none.
DeleteSite(c) ==
  \/ /\ at[c] = "remove site"
     /\ \/ site[dom[c]] # NoRow /\ MayAccess(by[c], owner[dom[c]]) /\ Goto(c, "remove site row")
        \/ site[dom[c]] = NoRow /\ AnswersInPeace(c)
        \/ ~MayAccess(by[c], owner[dom[c]]) /\ AnswersInPeace(c)
     /\ UNCHANGED <<siteTable, alias, appTable>>
  \/ /\ at[c] = "remove site row" /\ Answers(c)
     /\ DeleteSiteRow(dom[c])
     /\ troubled' = IF appPort[dom[c]] # NoRow THEN troubled \cup {dom[c]} ELSE troubled
     /\ UNCHANGED appTable

-----------------------------------------------------------------------------
(* Aliases: the id of the site is read by ownedSite.                       *)

ReadSite(c, step) ==
  /\ \/ /\ site[dom[c]] # NoRow /\ MayAccess(by[c], owner[dom[c]])
        /\ GotoWith(c, step, site[dom[c]])
     \/ site[dom[c]] = NoRow /\ AnswersInPeace(c)
     \/ ~MayAccess(by[c], owner[dom[c]]) /\ AnswersInPeace(c)
  /\ UNCHANGED <<siteTable, alias, appTable>>

AddSiteDomain(c) ==
  \/ at[c] = "alias" /\ ReadSite(c, "alias check")
  \/ /\ at[c] = "alias check"
     /\ LET free == site[other[c]] = NoRow /\ alias[other[c]] = NoRow
        IN  (free /\ Goto(c, "alias insert")) \/ (~free /\ AnswersInPeace(c))
     /\ UNCHANGED <<siteTable, alias, appTable>>
  \/ /\ at[c] = "alias insert" /\ AnswersInPeace(c)
     /\ alias' = IF alias[other[c]] = NoRow THEN [alias EXCEPT ![other[c]] = known[c]] ELSE alias
     /\ UNCHANGED <<siteTable, appTable>>

DeleteSiteDomain(c) ==
  \/ at[c] = "unalias" /\ ReadSite(c, "unalias row")
  \/ /\ at[c] = "unalias row" /\ AnswersInPeace(c)
     /\ alias' = IF alias[other[c]] = known[c] THEN [alias EXCEPT ![other[c]] = NoRow] ELSE alias
     /\ UNCHANGED <<siteTable, appTable>>

-----------------------------------------------------------------------------
(* Apps.                                                                   *)

\* A quota that is full when it is exceeded.
CanCreateAppLate(u) == u \in Admins \/ Cardinality(AppsOf(u)) <= MaxApps

CanCreateApp(u) == u \in Admins \/ Cardinality(AppsOf(u)) < MaxApps

UsedPorts == {appPort[d] : d \in Domains} \ {NoRow}

\* COALESCE(MAX(port), portBase-1): the only element of this set.
MaxPort ==
  IF UsedPorts = {} THEN {PortBase - 1} ELSE {p \in UsedPorts : \A q \in UsedPorts : q <= p}

\* handleCreateApp: the quota; CreateApp, which reads the highest port and
\* inserts; CreateSite; and DeleteApp when there can be no site.
CreateAppRow(c) ==
  \/ /\ at[c] = "app quota"
     /\ \/ CanCreateApp(by[c]) /\ Goto(c, "app port")
        \/ ~CanCreateApp(by[c]) /\ AnswersInPeace(c)
     /\ UNCHANGED appTable
  \/ /\ at[c] = "app port" /\ \E p \in MaxPort : GotoWith(c, "app insert", p + 1)
     /\ UNCHANGED appTable
  \/ /\ at[c] = "app insert"
     /\ \/ /\ appPort[dom[c]] = NoRow
           /\ appPort' = [appPort EXCEPT ![dom[c]] = known[c]]
           /\ appOwner' = [appOwner EXCEPT ![dom[c]] = by[c]]
           /\ Goto(c, "app check")
        \/ /\ appPort[dom[c]] # NoRow /\ AnswersInPeace(c)
           /\ UNCHANGED appTable

DeleteAppRow(d) ==
  /\ appPort' = [appPort EXCEPT ![d] = NoRow]
  /\ appOwner' = [appOwner EXCEPT ![d] = NoUser]

\* A rollback that is forgotten.
CreateAppSiteAnyhow(c) ==
  \/ /\ at[c] = "app check"
     /\ Goto(c, IF alias[dom[c]] = NoRow THEN "app site" ELSE "app undo")
     /\ UNCHANGED <<siteTable, appTable>>
  \/ /\ at[c] \in {"app site", "app undo"} /\ AnswersInPeace(c)
     /\ IF at[c] = "app site" /\ site[dom[c]] = NoRow
          THEN InsertSite(dom[c], by[c], known[c]) ELSE UNCHANGED siteTable
     /\ UNCHANGED appTable

\* The second half: the app's site, or no app.
CreateAppSite(c) ==
  \/ /\ at[c] = "app check"
     /\ Goto(c, IF alias[dom[c]] = NoRow THEN "app site" ELSE "app undo")
     /\ UNCHANGED <<siteTable, appTable>>
  \/ /\ at[c] = "app site" /\ site[dom[c]] = NoRow
     /\ InsertSite(dom[c], by[c], known[c]) /\ AnswersInPeace(c)
     /\ UNCHANGED appTable
  \/ /\ at[c] = "app site" /\ site[dom[c]] # NoRow /\ Goto(c, "app undo")
     /\ UNCHANGED <<siteTable, appTable>>
  \/ /\ at[c] = "app undo" /\ AnswersInPeace(c)
     /\ DeleteAppRow(dom[c])
     /\ UNCHANGED siteTable

CreateApp(c) ==
  /\ \/ CreateAppRow(c) /\ UNCHANGED siteTable
     \/ CreateAppSite(c)
  /\ UNCHANGED alias

\* ownedApp: the record of the app is read once.
ReadApp(c, step) ==
  /\ \/ /\ appPort[dom[c]] # NoRow /\ MayAccess(by[c], appOwner[dom[c]])
        /\ GotoWith(c, step, appPort[dom[c]])
     \/ appPort[dom[c]] = NoRow /\ AnswersInPeace(c)
     \/ ~MayAccess(by[c], appOwner[dom[c]]) /\ AnswersInPeace(c)
  /\ UNCHANGED <<siteTable, alias, appTable>>

\* handleDeleteApp: two deletes by domain; the second takes whatever site the
\* domain has by then.
DeleteApp(c) ==
  \/ at[c] = "remove app" /\ ReadApp(c, "remove app row")
  \/ /\ at[c] = "remove app row" /\ Goto(c, "remove app site")
     /\ DeleteAppRow(dom[c])
     /\ UNCHANGED <<siteTable, alias>>
  \/ /\ at[c] = "remove app site" /\ AnswersInPeace(c)
     /\ DeleteSiteRow(dom[c])
     /\ UNCHANGED appTable

AltPort(p) == IF p >= 50000 THEN p - 10000 ELSE p + 10000

\* zeroDowntimeSwap as the store sees it (BlueGreen has the rest): nothing, or
\* an UPDATE of the site and an UPDATE of the app.
Deploy(c) ==
  \/ at[c] = "deploy" /\ ReadApp(c, "deploy route")
  \/ /\ at[c] = "deploy route" /\ AnswersInPeace(c)
     /\ UNCHANGED <<siteTable, alias, appTable>>
  \/ /\ at[c] = "deploy route" /\ Goto(c, "deploy port")
     /\ leads' = [leads EXCEPT ![dom[c]] =
                    IF site[dom[c]] = NoRow THEN NoRow ELSE AltPort(known[c])]
     /\ UNCHANGED <<site, owner, lastId, alias, appTable>>
  \/ /\ at[c] = "deploy port" /\ AnswersInPeace(c)
     /\ appPort' = [appPort EXCEPT ![dom[c]] =
                      IF appPort[dom[c]] = NoRow THEN NoRow ELSE AltPort(known[c])]
     /\ UNCHANGED <<siteTable, alias, appOwner>>

-----------------------------------------------------------------------------

\* The panel is restarted in the middle of whatever it was doing.
Reboot ==
  /\ reboots < MaxReboots
  /\ reboots' = reboots + 1
  /\ at' = [c \in Callers |-> "idle"]
  /\ by' = [c \in Callers |-> NoUser]
  /\ dom' = [c \in Callers |-> NoDomain]
  /\ other' = [c \in Callers |-> NoDomain]
  /\ known' = [c \in Callers |-> NoRow]
  /\ troubled' = troubled \cup UNION {Names(c) : c \in Callers}
  /\ UNCHANGED <<siteTable, alias, appTable, requests>>

CallerStep(c) ==
  \/ CreateSite(c) \/ DeleteSite(c) \/ AddSiteDomain(c) \/ DeleteSiteDomain(c)
  \/ CreateApp(c) \/ DeleteApp(c) \/ Deploy(c)

Ask(c) ==
  \E u \in Users, what \in Asked, d \in Domains, e \in Domains \cup {NoDomain} :
    Request(c, u, what, d, e)

Next == (\E c \in Callers : Ask(c) \/ CallerStep(c)) \/ Reboot

Spec == Init /\ [][Next]_registryVars

-----------------------------------------------------------------------------
(* Properties.                                                             *)

\* Every variable stays in its type; an app has a port of the range, a busy
\* caller has its arguments, and what it has read is the id of a site or a port.
TypeOK ==
  /\ site \in [Domains -> Nat] /\ alias \in [Domains -> Nat] /\ lastId \in Nat
  /\ leads \in [Domains -> Ports \cup {NoRow}] /\ appPort \in [Domains -> Ports \cup {NoRow}]
  /\ owner \in [Domains -> Users \cup {NoUser}]
  /\ appOwner \in [Domains -> Users \cup {NoUser}]
  /\ at \in [Callers -> Creating \cup Removing \cup Aliasing \cup Deploying \cup {"idle"}]
  /\ by \in [Callers -> Users \cup {NoUser}]
  /\ dom \in [Callers -> Domains \cup {NoDomain}]
  /\ other \in [Callers -> Domains \cup {NoDomain}]
  /\ known \in [Callers -> Nat]
  /\ requests \in 0 .. MaxRequests /\ reboots \in 0 .. MaxReboots
  /\ troubled \subseteq Domains
  /\ \A c \in Callers :
       /\ at[c] # "idle" => dom[c] \in Domains /\ by[c] \in Users
       /\ at[c] \in Aliasing => other[c] \in Domains
       /\ at[c] \in HasPort => known[c] \in Ports

\* A domain is the main domain of a site or an alias of one, never both, or
\* the last one to be entered in the route table would win: unless two
\* requests for that domain were under way at once, which the two UNIQUE
\* constraints cannot see.
DomainLeadsOnce ==
  \A d \in Domains \ troubled : site[d] = NoRow \/ alias[d] = NoRow

\* An alias belongs to a site that exists: deleting a site takes its aliases
\* along, although no foreign key is enforced.
AliasHasSite ==
  \A d \in Domains \ troubled :
    alias[d] # NoRow => \E e \in Domains : site[e] = alias[d]

\* An app is whole when nobody is working on it: it has a site, of the same
\* owner, and the site leads to the app's port, whatever its creation, its
\* deployments and the requests for other domains have met with.
Idle(d) == \A c \in Callers : at[c] # "idle" => d \notin Names(c)

WholeApps ==
  \A d \in Domains \ troubled :
    Idle(d) /\ appPort[d] # NoRow =>
      site[d] # NoRow /\ leads[d] = appPort[d] /\ owner[d] = appOwner[d]

\* Quotas are counted and not reserved, so requests at once can exceed them,
\* but by no more than there were requests at once: never more apps than the
\* quota and one for each goroutine but one.
QuotaBound ==
  \A u \in Users \ Admins : Cardinality(AppsOf(u)) < MaxApps + Cardinality(Callers)

\* What apps.go says of altPort: the paired port of an app is its own, to start
\* the new version on.  So it is no other app's port.
PairedPortIsFree ==
  \A d, e \in Domains :
    d # e /\ appPort[d] # NoRow /\ appPort[e] # NoRow => appPort[e] # AltPort(appPort[d])

===============================================================================
