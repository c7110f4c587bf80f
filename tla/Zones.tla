--------------------------------- MODULE Zones ---------------------------------
(***************************************************************************)
(* The authoritative name server: zones and records in the store, the      *)
(* handlers, the command line and the ACME solver that change them, the    *)
(* snapshots the data plane builds from three queries without a            *)
(* transaction, and the answers it gives from the snapshot it has.         *)
(*                                                                         *)
(* A domain is the sequence of its labels.  A record's name is the         *)
(* sequence of labels before the apex: "@" is the empty one, "*" is the    *)
(* label Star.  Case and the trailing dot are gone by then.                *)
(***************************************************************************)
EXTENDS Naturals, Sequences, FiniteSets

CONSTANTS
  Domains,        \* domains that may become zones
  Hosts,          \* domains of sites and apps, for which records are provisioned
  Forms,          \* [name, type, value]: what validateDNSRecord lets through
  Challenges,     \* the TXT records of the ACME solver
  Addresses,      \* [type, value]: the A and AAAA records of PublicIP
  Settings,       \* values of dns_settings: the set of name servers configured
  Star,           \* the label "*"
  Queries,        \* names that are asked for
  Callers,        \* goroutines of the panel, of the command line and of solvers
  Plane,          \* the goroutine of the data plane that takes SIGHUP
  MaxRequests     \* bound: calls in all

NameServers == UNION Settings

ASSUME ZonesAssumption ==
  /\ Domains \subseteq Seq(STRING) /\ Hosts \subseteq Seq(STRING)
  /\ Challenges \subseteq Forms /\ \A f \in Challenges : f.type # "NS"
  /\ \A f \in Forms : f.type = "CNAME" => f.name # <<>>
  /\ \A ns \in Settings : IsFiniteSet(ns)
  /\ Settings # {} /\ Plane \notin Callers
  /\ MaxRequests \in Nat

\* Names are sequences of labels, a zone has at least one, and no record is of the
\* type that asks for all.
ASSUME NamesAssumption ==
  /\ <<>> \notin Domains /\ Queries \subseteq Seq(STRING) /\ Star \in STRING
  /\ \A f \in Forms : f.name \in Seq(STRING) /\ f.type # "ANY"
  /\ \A a \in Addresses : a.type # "ANY"

NoRow == 0

VARIABLES
  zone,          \* dns_zones: the id of the row of each domain,
  serial,        \*   and its serial
  recs,          \* dns_records: the rows
  settings,      \* dns_settings
  lastZone,      \* AUTOINCREMENT of both tables
  lastRec,
  at, job,       \* the callers: where they stand and what they know
  pending,       \* a SIGHUP waits for the data plane
  phase, draft,  \* builds of a snapshot: what is read next, what has been read
  served,        \* the snapshot that queries are answered from
  requests,
  strained,      \* history: zones with deletions that overlapped, or by hand
  raced          \* history: the last build began while another was under way

tables == <<zone, serial, recs, settings, lastZone, lastRec>>
serving == <<phase, draft, served, raced>>
zonesVars == <<zone, serial, recs, settings, lastZone, lastRec, at, job, pending,
               phase, draft, served, requests, strained, raced>>

Rows(rows, id) == {r \in rows : r.zone = id}
ApexNS(rows, id) == {r \in Rows(rows, id) : r.type = "NS" /\ r.name = <<>>}

NoForm == [name |-> <<>>, type |-> "none", value |-> "none"]
NoJob == [zid |-> NoRow, dom |-> <<>>, form |-> NoForm, rid |-> NoRow, ns |-> {},
          left |-> {}, added |-> FALSE, solver |-> FALSE]

\* CreateDNSZoneWithSettings: the apex NS records of a new zone, numbered on.
Bootstrap(id, names, last) ==
  LET number == CHOOSE f \in [names -> 1 .. Cardinality(names)] :
                  \A m, n \in names : m # n => f[m] # f[n]
  IN  {[id |-> last + number[n], zone |-> id, name |-> <<>>, type |-> "NS", value |-> n] :
         n \in names}

Snapshot == [ids |-> zone, serials |-> serial, rows |-> recs, ns |-> settings]
NoDraft == [ids |-> [d \in Domains |-> NoRow], serials |-> [d \in Domains |-> 0],
            rows |-> {}, ns |-> {}]

\* The data plane has started on a store with at most one zone.
Init ==
  /\ settings \in Settings
  /\ \E d \in Domains, there \in BOOLEAN :
       /\ zone = [e \in Domains |-> IF there /\ e = d THEN 1 ELSE NoRow]
       /\ serial = [e \in Domains |-> IF there /\ e = d THEN 1 ELSE 0]
       /\ recs = IF there THEN Bootstrap(1, settings, 0) ELSE {}
       /\ lastZone = (IF there THEN 1 ELSE 0)
  /\ lastRec = Cardinality(recs)
  /\ at = [c \in Callers |-> "idle"] /\ job = [c \in Callers |-> NoJob]
  /\ pending = FALSE
  /\ phase = [b \in Callers \cup {Plane} |-> "idle"]
  /\ draft = [b \in Callers \cup {Plane} |-> NoDraft]
  /\ served = Snapshot
  /\ requests = 0 /\ strained = {} /\ raced = FALSE

-----------------------------------------------------------------------------
(* Names.                                                                  *)

\* domain = apex, or HasSuffix(domain, "." + apex)
Within(q, apex) ==
  Len(apex) <= Len(q) /\ SubSeq(q, Len(q) - Len(apex) + 1, Len(q)) = apex

\* strings.TrimSuffix(domain, "." + apex)
Label(q, apex) == SubSeq(q, 1, Len(q) - Len(apex))

Apexes(q) == {d \in Domains : zone[d] # NoRow /\ Within(q, d)}

\* FindDNSZoneForDomain: the zone of the longest apex, if there is one.
ZoneFor(q) == {d \in Apexes(q) : \A e \in Apexes(q) : Len(e) <= Len(d)}

-----------------------------------------------------------------------------
(* Calls.  The first read of each belongs to its beginning.                *)

Begin(c, step, j) ==
  /\ at[c] = "idle"
  /\ requests < MaxRequests /\ requests' = requests + 1
  /\ at' = [at EXCEPT ![c] = step]
  /\ job' = [job EXCEPT ![c] = j]
  /\ UNCHANGED <<tables, pending, serving>>

Goto(c, step) ==
  /\ at' = [at EXCEPT ![c] = step]
  /\ UNCHANGED <<job, pending, serving, requests, strained>>

Answers(c) ==
  /\ at' = [at EXCEPT ![c] = "idle"]
  /\ job' = [job EXCEPT ![c] = NoJob]
  /\ UNCHANGED <<pending, serving, requests, strained>>

\* CreateDNSZone reads the settings first.
AskCreateZone(c, d) ==
  Begin(c, "insert", [NoJob EXCEPT !.dom = d, !.ns = settings]) /\ UNCHANGED strained

\* ownedZone, mustZone: the row of the zone, read once.
Owned(d, step, c, j) ==
  zone[d] # NoRow /\ Begin(c, step, [j EXCEPT !.dom = d, !.zid = zone[d]])

AskDeleteZone(c, d) == Owned(d, "drop", c, NoJob) /\ UNCHANGED strained
AskAdd(c, d, f) == Owned(d, "add", c, [NoJob EXCEPT !.form = f]) /\ UNCHANGED strained

AskPatch(c, d, id, f) ==
  Owned(d, "find", c, [NoJob EXCEPT !.rid = id, !.form = f]) /\ UNCHANGED strained

AskDelete(c, d, id) ==
  /\ Owned(d, "count", c, [NoJob EXCEPT !.rid = id])
  /\ strained' = IF \E o \in Callers : at[o] \in {"count", "remove"} /\ job[o].zid = zone[d]
                   THEN strained \cup {zone[d]} ELSE strained

\* lamund dns rm: without the look at the name servers.
AskRemoveByHand(c, d, id) ==
  /\ Owned(d, "remove", c, [NoJob EXCEPT !.rid = id])
  /\ strained' = strained \cup {zone[d]}

AskPutSettings(c, ns) ==
  Begin(c, "put", [NoJob EXCEPT !.ns = ns]) /\ UNCHANGED strained

\* autoProvisionDNS, for the domain of a new site or app.
AskProvision(c, h) ==
  \E d \in ZoneFor(h) :
    Owned(d, "look", c, [NoJob EXCEPT !.left =
      {[name |-> Label(h, d), type |-> a.type, value |-> a.value] : a \in Addresses}])
      /\ UNCHANGED strained

\* AppendRecords and DeleteRecords of the ACME solver.
AskAppend(c, d, f) ==
  Owned(d, "look", c, [NoJob EXCEPT !.left = {f}, !.solver = TRUE]) /\ UNCHANGED strained
AskCleanUp(c, d, f) ==
  Owned(d, "cleanup", c, [NoJob EXCEPT !.form = f, !.solver = TRUE]) /\ UNCHANGED strained

Ask(c) ==
  \/ \E d \in Domains : AskCreateZone(c, d) \/ AskDeleteZone(c, d)
  \/ \E d \in Domains, f \in Forms \ Challenges : AskAdd(c, d, f)
  \/ \E d \in Domains, r \in recs, f \in Forms :
       f.type = r.type /\ f.name = r.name /\ AskPatch(c, d, r.id, f)
  \/ \E d \in Domains, r \in recs : AskDelete(c, d, r.id) \/ AskRemoveByHand(c, d, r.id)
  \/ \E ns \in Settings : AskPutSettings(c, ns)
  \/ \E h \in Hosts : AskProvision(c, h)
  \/ \E d \in Domains, f \in Challenges : AskAppend(c, d, f) \/ AskCleanUp(c, d, f)

-----------------------------------------------------------------------------
(* Transactions of the store.                                              *)

\* bumpSerial: of the zone with this id, if it still is there.
BumpSerial(id) ==
  serial' = [d \in Domains |-> IF zone[d] = id THEN serial[d] + 1 ELSE serial[d]]

InsertZone(c) ==
  LET d == job[c].dom IN
  /\ at[c] = "insert"
  /\ \/ /\ zone[d] = NoRow
        /\ zone' = [zone EXCEPT ![d] = lastZone + 1]
        /\ serial' = [serial EXCEPT ![d] = 1]
        /\ recs' = recs \cup Bootstrap(lastZone + 1, job[c].ns, lastRec)
        /\ lastZone' = lastZone + 1
        /\ lastRec' = lastRec + Cardinality(job[c].ns)
        /\ Goto(c, "tell") /\ UNCHANGED settings
     \/ zone[d] # NoRow /\ Answers(c) /\ UNCHANGED tables

\* DeleteDNSZone goes by the domain: the records, then the row.
DeleteZone(c) ==
  LET d == job[c].dom IN
  /\ at[c] = "drop"
  /\ \/ /\ zone[d] # NoRow
        /\ recs' = recs \ Rows(recs, zone[d])
        /\ zone' = [zone EXCEPT ![d] = NoRow]
        /\ serial' = [serial EXCEPT ![d] = 0]
        /\ Goto(c, "tell") /\ UNCHANGED <<settings, lastZone, lastRec>>
     \/ zone[d] = NoRow /\ Answers(c) /\ UNCHANGED tables

\* AddDNSRecord does not ask whether the zone still is there.
Insert(id, f) ==
  /\ recs' = recs \cup
       {[id |-> lastRec + 1, zone |-> id, name |-> f.name, type |-> f.type, value |-> f.value]}
  /\ lastRec' = lastRec + 1
  /\ BumpSerial(id)
  /\ UNCHANGED <<zone, settings, lastZone>>

AddRecord(c) == at[c] = "add" /\ Insert(job[c].zid, job[c].form) /\ Goto(c, "tell")

Target(c) == {r \in recs : r.id = job[c].rid /\ r.zone = job[c].zid}

PatchRecord(c) ==
  \/ /\ at[c] = "find" /\ UNCHANGED tables
     /\ IF Target(c) = {} THEN Answers(c) ELSE Goto(c, "update")
  \/ /\ at[c] = "update" /\ Target(c) # {} /\ Goto(c, "tell")
     /\ recs' = (recs \ Target(c)) \cup {[r EXCEPT !.value = job[c].form.value] : r \in Target(c)}
     /\ BumpSerial(job[c].zid)
     /\ UNCHANGED <<zone, settings, lastZone, lastRec>>
  \/ at[c] = "update" /\ Target(c) = {} /\ Answers(c) /\ UNCHANGED tables

\* A count of the name servers that takes in the one to be deleted.
LastOfAll(c) ==
  /\ Target(c) \cap ApexNS(recs, job[c].zid) # {}
  /\ ApexNS(recs, job[c].zid) = {}

LastNameServer(c) ==
  /\ Target(c) \cap ApexNS(recs, job[c].zid) # {}
  /\ ApexNS(recs, job[c].zid) \ Target(c) = {}

DeleteRecord(c) ==
  \/ /\ at[c] = "count" /\ UNCHANGED tables
     /\ IF LastNameServer(c) THEN Answers(c) ELSE Goto(c, "remove")
  \/ /\ at[c] = "remove" /\ Target(c) # {} /\ Goto(c, "tell")
     /\ recs' = recs \ Target(c)
     /\ BumpSerial(job[c].zid)
     /\ UNCHANGED <<zone, settings, lastZone, lastRec>>
  \/ at[c] = "remove" /\ Target(c) = {} /\ Answers(c) /\ UNCHANGED tables

\* handlePutDNSSettings: zones that exist keep their records and serials.
PutSettings(c) ==
  /\ at[c] = "put" /\ Goto(c, "tell")
  /\ settings' = job[c].ns
  /\ UNCHANGED <<zone, serial, recs, lastZone, lastRec>>

Same(id, f) ==
  {r \in recs : r.zone = id /\ r.name = f.name /\ r.type = f.type /\ r.value = f.value}

\* Done with all addresses, or with the challenge: a reload if anything changed.
Conclude(c, changed) ==
  IF ~changed THEN Answers(c) ELSE Goto(c, IF job[c].solver THEN "reload" ELSE "tell")

\* AddDNSRecordIfAbsent, for one address after another: a SELECT, then AddDNSRecord.
AddIfAbsent(c) ==
  \/ at[c] = "look" /\ job[c].left = {} /\ Conclude(c, job[c].added) /\ UNCHANGED tables
  \/ /\ at[c] = "look" /\ UNCHANGED <<tables, pending, serving, requests, strained>>
     /\ \E f \in job[c].left :
          /\ job' = [job EXCEPT ![c] = [job[c] EXCEPT !.left = job[c].left \ {f}, !.form = f]]
          /\ at' = [at EXCEPT ![c] = IF Same(job[c].zid, f) = {} THEN "append" ELSE "look"]
  \/ /\ at[c] = "append" /\ Insert(job[c].zid, job[c].form)
     /\ job' = [job EXCEPT ![c] = [job[c] EXCEPT !.added = TRUE]]
     /\ at' = [at EXCEPT ![c] = "look"]
     /\ UNCHANGED <<pending, serving, requests, strained>>

\* DeleteDNSRecordsMatching
CleanUp(c) ==
  LET gone == Same(job[c].zid, job[c].form) IN
  /\ at[c] = "cleanup" /\ Conclude(c, gone # {})
  /\ recs' = recs \ gone
  /\ IF gone = {} THEN UNCHANGED serial ELSE BumpSerial(job[c].zid)
  /\ UNCHANGED <<zone, settings, lastZone, lastRec>>

\* notifyReload
Tell(c) ==
  /\ at[c] = "tell"
  /\ pending' = TRUE
  /\ at' = [at EXCEPT ![c] = "idle"]
  /\ job' = [job EXCEPT ![c] = NoJob]
  /\ UNCHANGED <<tables, serving, requests, strained>>

CallerStep(c) ==
  \/ InsertZone(c) \/ DeleteZone(c) \/ AddRecord(c) \/ PatchRecord(c) \/ DeleteRecord(c)
  \/ PutSettings(c) \/ AddIfAbsent(c) \/ CleanUp(c) \/ Tell(c)

-----------------------------------------------------------------------------
(* The data plane builds a snapshot: the zones, the records, the settings, *)
(* and the swap.  A solver does so itself, beside the SIGHUP goroutine.    *)

Builders == Callers \cup {Plane}

Building(b) == phase[b] # "idle"

BeginBuild(b) ==
  /\ ~Building(b)
  /\ \/ b = Plane /\ pending /\ pending' = FALSE
     \/ b # Plane /\ at[b] = "reload" /\ UNCHANGED pending
  /\ phase' = [phase EXCEPT ![b] = "records"]
  /\ draft' = [draft EXCEPT ![b] = [NoDraft EXCEPT !.ids = zone, !.serials = serial]]
  /\ raced' = \E o \in Builders : Building(o)
  /\ UNCHANGED <<tables, at, job, served, requests, strained>>

Read(b, from, to, snapshot) ==
  /\ phase[b] = from
  /\ phase' = [phase EXCEPT ![b] = to]
  /\ draft' = [draft EXCEPT ![b] = snapshot]
  /\ UNCHANGED <<tables, at, job, pending, served, requests, strained, raced>>

\* AllDNSData with the records read before the zones.
ReadRecordsFirst(b) ==
  \/ Read(b, "records", "settings", [draft[b] EXCEPT !.rows = recs])
  \/ Read(b, "settings", "swap", [draft[b] EXCEPT !.ids = zone, !.serials = serial, !.ns = settings])

AllDNSData(b) ==
  \/ Read(b, "records", "settings", [draft[b] EXCEPT !.rows = recs])
  \/ Read(b, "settings", "swap", [draft[b] EXCEPT !.ns = settings])

Swap(b) ==
  /\ phase[b] = "swap"
  /\ served' = draft[b]
  /\ phase' = [phase EXCEPT ![b] = "idle"]
  /\ draft' = [draft EXCEPT ![b] = NoDraft]
  /\ IF b = Plane THEN UNCHANGED <<at, job>>
     ELSE at' = [at EXCEPT ![b] = "idle"] /\ job' = [job EXCEPT ![b] = NoJob]
  /\ UNCHANGED <<tables, pending, requests, strained, raced>>

Next ==
  \/ \E c \in Callers : Ask(c) \/ CallerStep(c)
  \/ \E b \in Builders : BeginBuild(b) \/ AllDNSData(b) \/ Swap(b)

Spec == Init /\ [][Next]_zonesVars

-----------------------------------------------------------------------------
(* Answers.                                                                *)

Served(d) == d \in Domains /\ served.ids[d] # NoRow

\* Zones.Find: labels are stripped from the front until a zone is left.
Find(q) ==
  LET hit == {i \in 1 .. Len(q) : Served(SubSeq(q, i, Len(q)))}
  IN  IF hit = {} THEN <<>>
      ELSE SubSeq(q, CHOOSE i \in hit : \A k \in hit : i <= k, Len(q))

\* BuildSnapshot's index: the records of a zone at one owner name.
At(d, owner) == {r \in Rows(served.rows, served.ids[d]) : r.name \o d = owner}

\* A wildcard that also covers for types the name itself does not have.
MatchEagerly(d, q, t) ==
  LET exact == {r.value : r \in {s \in At(d, q) : s.type = t}}
      wild == {r.value : r \in {s \in At(d, <<Star>> \o d) : s.type = t}}
  IN  [known |-> At(d, q) \cup At(d, <<Star>> \o d) # {},
       values |-> IF exact # {} THEN exact ELSE wild]

\* Zone.Match: the name itself, and only if it has no record at all the wildcard.
Match(d, q, t) ==
  LET rows == IF At(d, q) # {} THEN At(d, q) ELSE At(d, <<Star>> \o d)
  IN  [known |-> rows # {}, values |-> {r.value : r \in {s \in rows : s.type = t}}]

Reply(rcode, type, values) == [rcode |-> rcode, type |-> type, values |-> values]

ServeDNS(q, t) ==
  LET d == Find(q)
      found == Match(d, q, t)
      alias == Match(d, q, "CNAME")
  IN  IF d = <<>> THEN Reply("refused", t, {})
      ELSE IF t = "ANY" THEN Reply("ok", "HINFO", {})
      ELSE IF q = d /\ t = "SOA" THEN Reply("ok", "SOA", {<<served.serials[d], served.ns>>})
      ELSE IF found.values # {} THEN Reply("ok", t, found.values)
      ELSE IF alias.values # {} THEN Reply("ok", "CNAME", alias.values)
      ELSE Reply(IF found.known THEN "ok" ELSE "nxdomain", t, {})

-----------------------------------------------------------------------------
(* Properties.                                                             *)

RecordTypes == {f.type : f \in Forms} \cup {a.type : a \in Addresses} \cup {"NS"}

\* Every variable stays in its type, rows have different ids below the counter,
\* and a solver builds only when it has changed something.
TypeOK ==
  /\ zone \in [Domains -> 0 .. lastZone] /\ serial \in [Domains -> Nat]
  /\ \A d, e \in Domains : zone[d] = zone[e] /\ zone[d] # NoRow => d = e
  /\ \A r \in recs : r.id \in 1 .. lastRec /\ r.zone \in 1 .. lastZone /\ r.type \in RecordTypes
  /\ \A r, s \in recs : r.id = s.id => r = s
  /\ settings \in Settings /\ pending \in BOOLEAN /\ raced \in BOOLEAN
  /\ requests \in 0 .. MaxRequests /\ strained \subseteq 1 .. lastZone
  /\ \A c \in Callers : Building(c) => at[c] = "reload"

\* A serial is a promise to whoever compares it: a zone that is served under the
\* serial the store has now is served with the records the store has now, however
\* commits fall between the queries of however many builds, and whichever of them
\* is swapped in last.  It rests on every change of a record raising the serial in
\* its own transaction, and on the zones being read before the records.
SerialTellsContent ==
  \A d \in Domains :
    Served(d) /\ served.ids[d] = zone[d] /\ served.serials[d] = serial[d] =>
      Rows(served.rows, zone[d]) = Rows(recs, zone[d])

\* Nobody works on the store, no signal waits, no build is under way, and the
\* last one had the snapshot to itself.
Quiet ==
  /\ ~pending /\ ~raced
  /\ \A c \in Callers : at[c] = "idle"
  /\ \A b \in Builders : ~Building(b)

\* What the store says of a name: the zone is the one that provisioning looks up,
\* and a record belongs to a name if its label under that zone is the name.
StoredReply(q, t) ==
  LET d == CHOOSE e \in ZoneFor(q) : TRUE
      named(n) == {r \in Rows(recs, zone[d]) : r.name = n}
      rows == IF named(Label(q, d)) # {} THEN named(Label(q, d)) ELSE named(<<Star>>)
      ofType(type) == {r.value : r \in {s \in rows : s.type = type}}
  IN  IF ZoneFor(q) = {} THEN Reply("refused", t, {})
      ELSE IF q = d /\ t = "SOA" THEN Reply("ok", "SOA", {<<serial[d], settings>>})
      ELSE IF ofType(t) # {} THEN Reply("ok", t, ofType(t))
      ELSE IF ofType("CNAME") # {} THEN Reply("ok", "CNAME", ofType("CNAME"))
      ELSE Reply(IF rows = {} THEN "nxdomain" ELSE "ok", t, {})

\* Once all is quiet, every query is answered as the store has it: every change
\* was signalled after its commit, every build began after the last one, and the
\* data plane's search from the front of the name finds the zone and the record
\* that the panel's search for the longest suffix wrote.
AnswersAsStored ==
  Quiet => \A q \in Queries, t \in RecordTypes \cup {"SOA"} : ServeDNS(q, t) = StoredReply(q, t)

\* A zone that has a name server keeps one, whatever is patched, provisioned and
\* deleted, as long as deletions of its records do not overlap and nobody uses the
\* command line, which does not look.
KeepsNameServer ==
  [][\A d \in Domains :
       zone[d] # NoRow /\ zone'[d] = zone[d] /\ zone[d] \notin strained' =>
         (ApexNS(recs, zone[d]) # {} => ApexNS(recs, zone[d])' # {})]_zonesVars

===============================================================================
