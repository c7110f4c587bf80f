----------------------------- MODULE RegistryProofs -----------------------------
(***************************************************************************)
(* Theorems about the registry, for every set of domains, users and        *)
(* goroutines and every number of requests and restarts.                   *)
(***************************************************************************)
EXTENDS Registry, FiniteSetTheorems, TLAPS

USE RegistryAssumption

-----------------------------------------------------------------------------
(* The inductive invariant.  Whoever is about to insert a row has looked at *)
(* the other table, and nobody has touched what it saw since: a request     *)
(* that could have is one that names the same domain, and then the domain   *)
(* is among the troubled ones.                                              *)

\* Two requests for the same domain are noticed.
OverlapNoticed ==
  \A c, r \in Callers :
    c # r /\ at[c] # "idle" /\ at[r] # "idle" /\ Names(c) \cap Names(r) # {} =>
      Names(c) \cup Names(r) \subseteq troubled

\* A site is about to be inserted where there is no alias.
NoAliasYet ==
  \A c \in Callers :
    at[c] \in {"site insert", "app site"} /\ dom[c] \notin troubled => alias[dom[c]] = NoRow

\* An alias is about to be inserted where there is no site.
NoSiteYet ==
  \A c \in Callers :
    at[c] = "alias insert" /\ other[c] \notin troubled => site[other[c]] = NoRow

\* The site that an alias is for is still the one that was read.
SameSite ==
  \A c \in Callers :
    at[c] \in {"alias check", "alias insert"} /\ other[c] \notin troubled =>
      known[c] # NoRow /\ site[dom[c]] = known[c]

RegistryInv ==
  TypeOK /\ OverlapNoticed /\ NoAliasYet /\ NoSiteYet /\ SameSite
  /\ DomainLeadsOnce /\ AliasHasSite

-----------------------------------------------------------------------------
(* Types.                                                                  *)

TableTypes ==
  /\ site \in [Domains -> Nat] /\ alias \in [Domains -> Nat] /\ lastId \in Nat
  /\ leads \in [Domains -> Ports \cup {NoRow}] /\ appPort \in [Domains -> Ports \cup {NoRow}]
  /\ owner \in [Domains -> Users \cup {NoUser}]
  /\ appOwner \in [Domains -> Users \cup {NoUser}]

Steps == Creating \cup Removing \cup Aliasing \cup Deploying \cup {"idle"}

\* What is known of a caller that stands at a step.
Fits(step, u, d, e, value) ==
  /\ step # "idle" => d \in Domains /\ u \in Users
  /\ step \in Aliasing => e \in Domains
  /\ step \in HasPort => value \in Ports

CallerTypes ==
  /\ at \in [Callers -> Steps]
  /\ by \in [Callers -> Users \cup {NoUser}]
  /\ dom \in [Callers -> Domains \cup {NoDomain}]
  /\ other \in [Callers -> Domains \cup {NoDomain}]
  /\ known \in [Callers -> Nat]
  /\ \A c \in Callers : Fits(at[c], by[c], dom[c], other[c], known[c])

CounterTypes ==
  requests \in 0 .. MaxRequests /\ reboots \in 0 .. MaxReboots /\ troubled \subseteq Domains

LEMMA TypesSplit == TypeOK <=> TableTypes /\ CallerTypes /\ CounterTypes
BY DEF TypeOK, TableTypes, CallerTypes, CounterTypes, Fits, Steps

LEMMA TypesSplitPrimed == TypeOK' <=> TableTypes' /\ CallerTypes' /\ CounterTypes'
BY DEF TypeOK, TableTypes, CallerTypes, CounterTypes, Fits, Steps

LEMMA PortsAreNat == Ports \subseteq Nat /\ NoRow \in Nat /\ NoRow \notin Ports
BY DEF Ports, NoRow, PortBase

LEMMA InitTypes == Init => TypeOK
BY DEF Init, TypeOK, NoRow, Aliasing, HasPort

\* How a caller moves.
LEMMA GotoTypes ==
  ASSUME CallerTypes, CounterTypes, NEW c \in Callers, at[c] # "idle", NEW step \in Steps,
         Goto(c, step), Fits(step, by[c], dom[c], other[c], known[c])
  PROVE  CallerTypes' /\ CounterTypes'
BY DEF CallerTypes, CounterTypes, Goto

LEMMA GotoWithTypes ==
  ASSUME CallerTypes, CounterTypes, NEW c \in Callers, at[c] # "idle", NEW step \in Steps,
         NEW value \in Nat,
         GotoWith(c, step, value), Fits(step, by[c], dom[c], other[c], value)
  PROVE  CallerTypes' /\ CounterTypes'
BY DEF CallerTypes, CounterTypes, GotoWith

LEMMA AnswersTypes ==
  ASSUME CallerTypes, CounterTypes, NEW c \in Callers, Answers(c), troubled' \subseteq Domains
  PROVE  CallerTypes' /\ CounterTypes'
<1>1. Fits("idle", NoUser, NoDomain, NoDomain, NoRow)
  BY DEF Fits, Aliasing, HasPort
<1>2. "idle" \in Steps /\ NoRow \in Nat
  BY PortsAreNat DEF Steps
<1> QED
  BY <1>1, <1>2 DEF CallerTypes, CounterTypes, Answers

LEMMA PeaceTypes ==
  ASSUME CallerTypes, CounterTypes, NEW c \in Callers, AnswersInPeace(c)
  PROVE  CallerTypes' /\ CounterTypes'
BY AnswersTypes DEF AnswersInPeace, CounterTypes

\* How a table changes.
LEMMA TablesStayTyped ==
  ASSUME TableTypes, UNCHANGED <<siteTable, alias, appTable>>
  PROVE  TableTypes'
BY DEF TableTypes, siteTable, appTable

LEMMA InsertSiteTypes ==
  ASSUME TableTypes, NEW d \in Domains, NEW u \in Users, NEW port \in Ports \cup {NoRow},
         InsertSite(d, u, port), UNCHANGED <<alias, appTable>>
  PROVE  TableTypes'
BY DEF TableTypes, InsertSite, appTable

LEMMA DeleteSiteRowTypes ==
  ASSUME TableTypes, NEW d \in Domains, DeleteSiteRow(d), UNCHANGED appTable
  PROVE  TableTypes'
<1>1. alias' \in [Domains -> Nat]
  BY PortsAreNat DEF TableTypes, DeleteSiteRow
<1>2. site' \in [Domains -> Nat] /\ leads' \in [Domains -> Ports \cup {NoRow}]
  BY PortsAreNat DEF TableTypes, DeleteSiteRow
<1> QED
  BY <1>1, <1>2 DEF TableTypes, DeleteSiteRow, appTable

LEMMA DeleteAppRowTypes ==
  ASSUME TableTypes, NEW d \in Domains, DeleteAppRow(d), UNCHANGED <<siteTable, alias>>
  PROVE  TableTypes'
BY DEF TableTypes, DeleteAppRow, siteTable

LEMMA AltPortTypes ==
  ASSUME NEW p \in Ports
  PROVE  AltPort(p) \in Ports
BY DEF AltPort, Ports, PortBase

LEMMA NextPortTypes ==
  ASSUME TableTypes, NEW p \in MaxPort
  PROVE  p + 1 \in Ports /\ p + 1 \in Nat
<1>1. UsedPorts \subseteq Ports
  BY DEF UsedPorts, TableTypes
<1>2. p \in Ports \cup {PortBase - 1}
  BY <1>1 DEF MaxPort
<1> QED
  BY <1>2 DEF Ports, PortBase

\* The steps, one action after the other.
LEMMA RequestTypes ==
  ASSUME TypeOK, NEW c \in Callers, Ask(c)
  PROVE  TypeOK'
<1>1. TableTypes /\ CallerTypes /\ CounterTypes
  BY TypesSplit
<1>2. PICK u \in Users, what \in Asked, d \in Domains, e \in Domains \cup {NoDomain} :
        Request(c, u, what, d, e)
  BY DEF Ask
<1>3. TableTypes'
  BY <1>1, <1>2, TablesStayTyped DEF Request
<1>4. what \in Steps
  BY DEF Asked, Steps, Creating, Removing, Aliasing, Deploying
<1>5. Fits(what, u, d, e, known[c])
  BY <1>2 DEF Request, Fits, Asked, Aliasing, HasPort
<1>6. CallerTypes'
  BY <1>1, <1>2, <1>4, <1>5 DEF CallerTypes, Request
<1>7. Trouble(c, {d, e} \ {NoDomain}) \subseteq Domains
  BY <1>1, <1>2 DEF Trouble, Rivals, Names, CallerTypes
<1>8. CounterTypes'
  <2>1. /\ requests < MaxRequests /\ requests' = requests + 1 /\ reboots' = reboots
        /\ troubled' = troubled \cup Trouble(c, {d, e} \ {NoDomain})
    BY <1>2 DEF Request
  <2>2. requests' \in 0 .. MaxRequests
    BY <1>1, <2>1 DEF CounterTypes
  <2> QED
    BY <1>1, <1>7, <2>1, <2>2 DEF CounterTypes
<1> QED
  BY <1>3, <1>6, <1>8, TypesSplitPrimed

LEMMA CreateSiteTypes ==
  ASSUME TypeOK, NEW c \in Callers, CreateSite(c)
  PROVE  TypeOK'
<1>1. TableTypes /\ CallerTypes /\ CounterTypes
  BY TypesSplit
<1>2. at[c] # "idle" /\ dom[c] \in Domains /\ by[c] \in Users
  BY <1>1 DEF CreateSite, CallerTypes, Fits
<1>3. TableTypes'
  <2>1. CASE at[c] = "site insert" /\ site[dom[c]] = NoRow
    BY <1>1, <1>2, <2>1, InsertSiteTypes DEF CreateSite
  <2>2. CASE UNCHANGED <<siteTable, alias, appTable>>
    BY <1>1, <2>2, TablesStayTyped
  <2> QED
    BY <2>1, <2>2 DEF CreateSite
<1>4. CallerTypes' /\ CounterTypes'
  <2>1. \A step \in {"site check", "site insert"} :
          step \in Steps /\ Fits(step, by[c], dom[c], other[c], known[c])
    BY <1>2 DEF Steps, Creating, Fits, Aliasing, HasPort
  <2>2. \/ Goto(c, "site check") \/ Goto(c, "site insert") \/ AnswersInPeace(c)
    BY DEF CreateSite
  <2> QED
    BY <1>1, <1>2, <2>1, <2>2, GotoTypes, PeaceTypes
<1> QED
  BY <1>3, <1>4, TypesSplitPrimed

LEMMA DeleteSiteTypes ==
  ASSUME TypeOK, NEW c \in Callers, DeleteSite(c)
  PROVE  TypeOK'
<1>1. TableTypes /\ CallerTypes /\ CounterTypes
  BY TypesSplit
<1>2. at[c] # "idle" /\ dom[c] \in Domains /\ by[c] \in Users
  BY <1>1 DEF DeleteSite, CallerTypes, Fits
<1>3. TableTypes'
  BY <1>1, <1>2, TablesStayTyped, DeleteSiteRowTypes DEF DeleteSite
<1>4. CallerTypes' /\ CounterTypes'
  <2>1. CASE at[c] = "remove site row"
    <3>1. Answers(c) /\ troubled' \subseteq Domains
      BY <1>1, <1>2, <2>1 DEF DeleteSite, CounterTypes
    <3> QED
      BY <1>1, <3>1, AnswersTypes
  <2>2. CASE at[c] # "remove site row"
    <3>1. "remove site row" \in Steps /\ Fits("remove site row", by[c], dom[c], other[c], known[c])
      BY <1>2 DEF Steps, Removing, Fits, Aliasing, HasPort
    <3>2. Goto(c, "remove site row") \/ AnswersInPeace(c)
      BY <2>2 DEF DeleteSite
    <3> QED
      BY <1>1, <1>2, <3>1, <3>2, GotoTypes, PeaceTypes
  <2> QED
    BY <2>1, <2>2
<1> QED
  BY <1>3, <1>4, TypesSplitPrimed

LEMMA ReadSiteTypes ==
  ASSUME TypeOK, NEW c \in Callers, at[c] \in Aliasing,
         NEW step \in {"alias check", "unalias row"}, ReadSite(c, step)
  PROVE  TypeOK'
<1>1. TableTypes /\ CallerTypes /\ CounterTypes
  BY TypesSplit
<1>2. at[c] # "idle" /\ dom[c] \in Domains /\ by[c] \in Users /\ other[c] \in Domains
  BY <1>1 DEF CallerTypes, Fits, Aliasing
<1>3. TableTypes'
  BY <1>1, TablesStayTyped DEF ReadSite
<1>4. step \in Steps /\ site[dom[c]] \in Nat
  BY <1>1, <1>2 DEF Steps, Aliasing, TableTypes
<1>5. Fits(step, by[c], dom[c], other[c], site[dom[c]])
  BY <1>2 DEF Fits, HasPort
<1>6. GotoWith(c, step, site[dom[c]]) \/ AnswersInPeace(c)
  BY DEF ReadSite
<1>7. CallerTypes' /\ CounterTypes'
  BY <1>1, <1>2, <1>4, <1>5, <1>6, GotoWithTypes, PeaceTypes
<1> QED
  BY <1>3, <1>7, TypesSplitPrimed

LEMMA AddSiteDomainTypes ==
  ASSUME TypeOK, NEW c \in Callers, AddSiteDomain(c)
  PROVE  TypeOK'
<1>1. TableTypes /\ CallerTypes /\ CounterTypes
  BY TypesSplit
<1>2. at[c] \in Aliasing
  BY DEF AddSiteDomain, Aliasing
<1>3. at[c] # "idle" /\ dom[c] \in Domains /\ by[c] \in Users /\ other[c] \in Domains
  BY <1>1, <1>2 DEF CallerTypes, Fits, Aliasing
<1>4. CASE at[c] = "alias"
  BY <1>2, <1>4, ReadSiteTypes DEF AddSiteDomain
<1>5. CASE at[c] = "alias check"
  <2>1. TableTypes'
    BY <1>1, <1>5, TablesStayTyped DEF AddSiteDomain
  <2>2. "alias insert" \in Steps /\ Fits("alias insert", by[c], dom[c], other[c], known[c])
    BY <1>3 DEF Steps, Aliasing, Fits, HasPort
  <2>3. Goto(c, "alias insert") \/ AnswersInPeace(c)
    BY <1>5 DEF AddSiteDomain
  <2>4. CallerTypes' /\ CounterTypes'
    BY <1>1, <1>3, <2>2, <2>3, GotoTypes, PeaceTypes
  <2> QED
    BY <2>1, <2>4, TypesSplitPrimed
<1>6. CASE at[c] = "alias insert"
  <2>1. AnswersInPeace(c) /\ UNCHANGED <<siteTable, appTable>>
    BY <1>6 DEF AddSiteDomain
  <2>2. known[c] \in Nat
    BY <1>1 DEF CallerTypes
  <2>3. alias' \in [Domains -> Nat]
    <3>1. alias' = [alias EXCEPT ![other[c]] = known[c]] \/ alias' = alias
      BY <1>6 DEF AddSiteDomain
    <3>2. alias \in [Domains -> Nat]
      BY <1>1 DEF TableTypes
    <3> QED
      BY <2>2, <3>1, <3>2
  <2>4. TableTypes'
    BY <1>1, <2>1, <2>3 DEF TableTypes, siteTable, appTable
  <2> QED
    BY <1>1, <2>1, <2>4, PeaceTypes, TypesSplitPrimed
<1> QED
  BY <1>4, <1>5, <1>6 DEF AddSiteDomain

LEMMA DeleteSiteDomainTypes ==
  ASSUME TypeOK, NEW c \in Callers, DeleteSiteDomain(c)
  PROVE  TypeOK'
<1>1. TableTypes /\ CallerTypes /\ CounterTypes
  BY TypesSplit
<1>2. CASE at[c] = "unalias"
  BY <1>2, ReadSiteTypes DEF DeleteSiteDomain, Aliasing
<1>3. CASE at[c] = "unalias row"
  <2>1. AnswersInPeace(c) /\ UNCHANGED <<siteTable, appTable>>
    BY <1>3 DEF DeleteSiteDomain
  <2>2. alias' \in [Domains -> Nat]
    BY <1>1, <1>3, PortsAreNat DEF DeleteSiteDomain, TableTypes
  <2>3. TableTypes'
    BY <1>1, <2>1, <2>2 DEF TableTypes, siteTable, appTable
  <2> QED
    BY <1>1, <2>1, <2>3, PeaceTypes, TypesSplitPrimed
<1> QED
  BY <1>2, <1>3 DEF DeleteSiteDomain

LEMMA CreateAppTypes ==
  ASSUME TypeOK, NEW c \in Callers, CreateApp(c)
  PROVE  TypeOK'
<1>1. TableTypes /\ CallerTypes /\ CounterTypes
  BY TypesSplit
<1>2. at[c] # "idle" /\ dom[c] \in Domains /\ by[c] \in Users
  BY <1>1 DEF CreateApp, CreateAppRow, CreateAppSite, CallerTypes, Fits
<1>3. at[c] \in HasPort => known[c] \in Ports
  BY <1>1 DEF CallerTypes, Fits
<1>4. CASE at[c] = "app quota"
  <2>1. TableTypes'
    BY <1>1, <1>4, TablesStayTyped DEF CreateApp, CreateAppRow, CreateAppSite
  <2>2. "app port" \in Steps /\ Fits("app port", by[c], dom[c], other[c], known[c])
    BY <1>2 DEF Steps, Creating, Fits, Aliasing, HasPort
  <2>3. Goto(c, "app port") \/ AnswersInPeace(c)
    BY <1>4 DEF CreateApp, CreateAppRow, CreateAppSite
  <2> QED
    BY <1>1, <1>2, <2>1, <2>2, <2>3, GotoTypes, PeaceTypes, TypesSplitPrimed
<1>5. CASE at[c] = "app port"
  <2>1. TableTypes'
    BY <1>1, <1>5, TablesStayTyped DEF CreateApp, CreateAppRow, CreateAppSite
  <2>2. PICK p \in MaxPort : GotoWith(c, "app insert", p + 1)
    BY <1>5 DEF CreateApp, CreateAppRow, CreateAppSite
  <2>3. p + 1 \in Ports /\ p + 1 \in Nat
    BY <1>1, NextPortTypes
  <2>4. "app insert" \in Steps /\ Fits("app insert", by[c], dom[c], other[c], p + 1)
    BY <1>2, <2>3 DEF Steps, Creating, Fits, Aliasing
  <2> QED
    BY <1>1, <1>2, <2>1, <2>2, <2>3, <2>4, GotoWithTypes, TypesSplitPrimed
<1>6. CASE at[c] = "app insert"
  <2>1. CASE appPort[dom[c]] = NoRow
    <3>1. appPort' = [appPort EXCEPT ![dom[c]] = known[c]] /\ appOwner' = [appOwner EXCEPT ![dom[c]] = by[c]]
          /\ Goto(c, "app check") /\ UNCHANGED <<siteTable, alias>>
      BY <1>6, <2>1 DEF CreateApp, CreateAppRow, CreateAppSite
    <3>2. known[c] \in Ports
      BY <1>3, <1>6 DEF HasPort
    <3>3. TableTypes'
      BY <1>1, <1>2, <3>1, <3>2 DEF TableTypes, siteTable
    <3>4. "app check" \in Steps /\ Fits("app check", by[c], dom[c], other[c], known[c])
      BY <1>2, <3>2 DEF Steps, Creating, Fits, Aliasing
    <3> QED
      BY <1>1, <1>2, <3>1, <3>3, <3>4, GotoTypes, TypesSplitPrimed
  <2>2. CASE appPort[dom[c]] # NoRow
    <3>1. AnswersInPeace(c) /\ UNCHANGED <<siteTable, alias, appTable>>
      BY <1>6, <2>2 DEF CreateApp, CreateAppRow, CreateAppSite
    <3> QED
      BY <1>1, <3>1, PeaceTypes, TablesStayTyped, TypesSplitPrimed
  <2> QED
    BY <2>1, <2>2
<1>7. CASE at[c] = "app check"
  <2>1. TableTypes'
    BY <1>1, <1>7, TablesStayTyped DEF CreateApp, CreateAppRow, CreateAppSite
  <2>2. \A step \in {"app site", "app undo"} :
          step \in Steps /\ Fits(step, by[c], dom[c], other[c], known[c])
    BY <1>2, <1>3, <1>7 DEF Steps, Creating, Fits, Aliasing, HasPort
  <2>3. Goto(c, "app site") \/ Goto(c, "app undo")
    BY <1>7 DEF CreateApp, CreateAppRow, CreateAppSite
  <2> QED
    BY <1>1, <1>2, <2>1, <2>2, <2>3, GotoTypes, TypesSplitPrimed
<1>8. CASE at[c] = "app site"
  <2>1. CASE site[dom[c]] = NoRow
    <3>1. InsertSite(dom[c], by[c], known[c]) /\ AnswersInPeace(c) /\ UNCHANGED <<alias, appTable>>
      BY <1>8, <2>1 DEF CreateApp, CreateAppRow, CreateAppSite
    <3>2. known[c] \in Ports
      BY <1>3, <1>8 DEF HasPort
    <3> QED
      BY <1>1, <1>2, <3>1, <3>2, InsertSiteTypes, PeaceTypes, TypesSplitPrimed
  <2>2. CASE site[dom[c]] # NoRow
    <3>1. Goto(c, "app undo") /\ UNCHANGED <<siteTable, alias, appTable>>
      BY <1>8, <2>2 DEF CreateApp, CreateAppRow, CreateAppSite
    <3>2. "app undo" \in Steps /\ Fits("app undo", by[c], dom[c], other[c], known[c])
      BY <1>2 DEF Steps, Creating, Fits, Aliasing, HasPort
    <3> QED
      BY <1>1, <1>2, <3>1, <3>2, GotoTypes, TablesStayTyped, TypesSplitPrimed
  <2> QED
    BY <2>1, <2>2
<1>9. CASE at[c] = "app undo"
  <2>1. DeleteAppRow(dom[c]) /\ AnswersInPeace(c) /\ UNCHANGED <<siteTable, alias>>
    BY <1>9 DEF CreateApp, CreateAppRow, CreateAppSite
  <2> QED
    BY <1>1, <1>2, <2>1, DeleteAppRowTypes, PeaceTypes, TypesSplitPrimed
<1> QED
  BY <1>4, <1>5, <1>6, <1>7, <1>8, <1>9 DEF CreateApp, CreateAppRow, CreateAppSite

LEMMA ReadAppTypes ==
  ASSUME TypeOK, NEW c \in Callers, at[c] # "idle",
         NEW step \in {"remove app row", "deploy route"}, ReadApp(c, step)
  PROVE  TypeOK'
<1>1. TableTypes /\ CallerTypes /\ CounterTypes
  BY TypesSplit
<1>2. dom[c] \in Domains /\ by[c] \in Users
  BY <1>1 DEF CallerTypes, Fits
<1>3. TableTypes'
  BY <1>1, TablesStayTyped DEF ReadApp
<1>4. CASE appPort[dom[c]] # NoRow /\ GotoWith(c, step, appPort[dom[c]])
  <2>1. appPort[dom[c]] \in Ports /\ appPort[dom[c]] \in Nat
    BY <1>1, <1>2, <1>4, PortsAreNat DEF TableTypes
  <2>2. step \in Steps /\ Fits(step, by[c], dom[c], other[c], appPort[dom[c]])
    BY <1>2, <2>1 DEF Steps, Removing, Deploying, Fits, Aliasing
  <2> QED
    BY <1>1, <1>3, <1>4, <2>1, <2>2, GotoWithTypes, TypesSplitPrimed
<1>5. CASE AnswersInPeace(c)
  BY <1>1, <1>3, <1>5, PeaceTypes, TypesSplitPrimed
<1> QED
  BY <1>4, <1>5 DEF ReadApp

LEMMA DeleteAppTypes ==
  ASSUME TypeOK, NEW c \in Callers, DeleteApp(c)
  PROVE  TypeOK'
<1>1. TableTypes /\ CallerTypes /\ CounterTypes
  BY TypesSplit
<1>2. at[c] # "idle" /\ dom[c] \in Domains /\ by[c] \in Users
  BY <1>1 DEF DeleteApp, CallerTypes, Fits
<1>3. CASE at[c] = "remove app"
  BY <1>2, <1>3, ReadAppTypes DEF DeleteApp
<1>4. CASE at[c] = "remove app row"
  <2>1. DeleteAppRow(dom[c]) /\ Goto(c, "remove app site") /\ UNCHANGED <<siteTable, alias>>
    BY <1>4 DEF DeleteApp
  <2>2. "remove app site" \in Steps /\ Fits("remove app site", by[c], dom[c], other[c], known[c])
    BY <1>2 DEF Steps, Removing, Fits, Aliasing, HasPort
  <2> QED
    BY <1>1, <1>2, <2>1, <2>2, DeleteAppRowTypes, GotoTypes, TypesSplitPrimed
<1>5. CASE at[c] = "remove app site"
  <2>1. DeleteSiteRow(dom[c]) /\ AnswersInPeace(c) /\ UNCHANGED appTable
    BY <1>5 DEF DeleteApp
  <2> QED
    BY <1>1, <1>2, <2>1, DeleteSiteRowTypes, PeaceTypes, TypesSplitPrimed
<1> QED
  BY <1>3, <1>4, <1>5 DEF DeleteApp

LEMMA DeployTypes ==
  ASSUME TypeOK, NEW c \in Callers, Deploy(c)
  PROVE  TypeOK'
<1>1. TableTypes /\ CallerTypes /\ CounterTypes
  BY TypesSplit
<1>2. at[c] # "idle" /\ dom[c] \in Domains /\ by[c] \in Users
  BY <1>1 DEF Deploy, CallerTypes, Fits
<1>3. CASE at[c] = "deploy"
  BY <1>2, <1>3, ReadAppTypes DEF Deploy
<1>4. ASSUME at[c] \in {"deploy route", "deploy port"} PROVE AltPort(known[c]) \in Ports
  <2>1. known[c] \in Ports
    BY <1>1, <1>4 DEF CallerTypes, Fits, HasPort
  <2> QED
    BY <2>1, AltPortTypes
<1>5. CASE AnswersInPeace(c) /\ UNCHANGED <<siteTable, alias, appTable>>
  BY <1>1, <1>5, PeaceTypes, TablesStayTyped, TypesSplitPrimed
<1>6. CASE /\ at[c] = "deploy route" /\ Goto(c, "deploy port")
           /\ leads' = [leads EXCEPT ![dom[c]] =
                          IF site[dom[c]] = NoRow THEN NoRow ELSE AltPort(known[c])]
           /\ UNCHANGED <<site, owner, lastId, alias, appTable>>
  <2>1. TableTypes'
    BY <1>1, <1>2, <1>4, <1>6 DEF TableTypes, appTable
  <2>2. "deploy port" \in Steps /\ Fits("deploy port", by[c], dom[c], other[c], known[c])
    BY <1>1, <1>2, <1>6 DEF Steps, Deploying, CallerTypes, Fits, Aliasing, HasPort
  <2> QED
    BY <1>1, <1>2, <1>6, <2>1, <2>2, GotoTypes, TypesSplitPrimed
<1>7. CASE at[c] = "deploy port"
  <2>1. AnswersInPeace(c) /\ UNCHANGED <<siteTable, alias, appOwner>>
        /\ appPort' = [appPort EXCEPT ![dom[c]] =
                          IF appPort[dom[c]] = NoRow THEN NoRow ELSE AltPort(known[c])]
    BY <1>7 DEF Deploy
  <2>2. TableTypes'
    BY <1>1, <1>2, <1>4, <1>7, <2>1 DEF TableTypes, siteTable
  <2> QED
    BY <1>1, <2>1, <2>2, PeaceTypes, TypesSplitPrimed
<1> QED
  BY <1>3, <1>5, <1>6, <1>7 DEF Deploy

LEMMA RebootTypes ==
  ASSUME TypeOK, Reboot
  PROVE  TypeOK'
<1>1. TableTypes /\ CallerTypes /\ CounterTypes
  BY TypesSplit
<1>2. TableTypes'
  BY <1>1, TablesStayTyped DEF Reboot
<1>3. Fits("idle", NoUser, NoDomain, NoDomain, NoRow)
  BY DEF Fits, Aliasing, HasPort
<1>4. CallerTypes'
  BY <1>1, <1>3, PortsAreNat DEF Reboot, CallerTypes, Steps
<1>5. troubled' \subseteq Domains /\ requests' = requests
  BY <1>1 DEF Reboot, CounterTypes, CallerTypes, Names
<1>6. reboots' \in 0 .. MaxReboots
  BY <1>1 DEF Reboot, CounterTypes
<1>7. CounterTypes'
  BY <1>1, <1>5, <1>6 DEF CounterTypes
<1> QED
  BY <1>2, <1>4, <1>7, TypesSplitPrimed

LEMMA StepTypes ==
  ASSUME TypeOK, [Next]_registryVars
  PROVE  TypeOK'
<1>1. CASE UNCHANGED registryVars
  BY <1>1 DEF registryVars, TypeOK
<1>2. ASSUME NEW c \in Callers, Ask(c) PROVE TypeOK'
  BY <1>2, RequestTypes
<1>3. ASSUME NEW c \in Callers, CallerStep(c) PROVE TypeOK'
  BY <1>3, CreateSiteTypes, DeleteSiteTypes, AddSiteDomainTypes, DeleteSiteDomainTypes,
     CreateAppTypes, DeleteAppTypes, DeployTypes DEF CallerStep
<1> QED
  BY <1>1, <1>2, <1>3, RebootTypes DEF Next

\* Every variable stays in its type: an app has a port of the range and a busy
\* handler has its arguments, whoever else is at work.
THEOREM TypeCorrect == Spec => []TypeOK
<1> QED
  BY InitTypes, StepTypes, PTL DEF Spec

-----------------------------------------------------------------------------
(* What a step of a handler does to the two tables, and where it leads: all *)
(* that the inductive invariant needs to know of it.                        *)

Inserting == {"site insert", "app site"}

\* Only the domain in the request gets or loses a site; a site that goes takes
\* its aliases along; only an insertion makes a row, of what was read.
TableEffects(c) ==
  /\ \A d \in Domains : site'[d] # site[d] => d = dom[c]
  /\ \A d \in Domains : site[d] = NoRow /\ site'[d] # NoRow => at[c] \in Inserting
  /\ \A d, e \in Domains :
       site[e] # NoRow /\ site'[e] # site[e] => alias'[d] # site[e]
  /\ \A d \in Domains :
       alias'[d] # NoRow /\ alias'[d] # alias[d] =>
         alias[d] = NoRow /\ d = other[c] /\ at[c] = "alias insert" /\ alias'[d] = known[c]
  /\ at[c] = "alias insert" => site' = site

\* The others stay where they are, and the caller comes to an insertion from
\* the look at the other table.
MoveEffects(c) ==
  /\ at[c] # "idle"
  /\ \A r \in Callers \ {c} :
       at'[r] = at[r] /\ dom'[r] = dom[r] /\ other'[r] = other[r] /\ known'[r] = known[r]
  /\ at'[c] # "idle" => dom'[c] = dom[c] /\ other'[c] = other[c]
  /\ troubled \subseteq troubled'
  /\ at'[c] \in Inserting => alias[dom[c]] = NoRow /\ alias' = alias
  /\ at'[c] = "alias insert" =>
       at[c] = "alias check" /\ site[other[c]] = NoRow /\ site' = site /\ known'[c] = known[c]
  /\ at'[c] = "alias check" =>
       site' = site /\ known'[c] = site[dom[c]] /\ known'[c] # NoRow

LEMMA TablesStayEffects ==
  ASSUME NEW c \in Callers, site' = site, alias' = alias
  PROVE  TableEffects(c)
BY DEF TableEffects

LEMMA InsertSiteEffects ==
  ASSUME TypeOK, NEW c \in Callers, at[c] \in Inserting, dom[c] \in Domains,
         site[dom[c]] = NoRow, NEW port, InsertSite(dom[c], by[c], port), alias' = alias
  PROVE  TableEffects(c)
BY DEF TableEffects, TypeOK, InsertSite, Inserting

LEMMA DeleteSiteRowEffects ==
  ASSUME TypeOK, NEW c \in Callers, at[c] # "alias insert", dom[c] \in Domains,
         DeleteSiteRow(dom[c])
  PROVE  TableEffects(c)
<1>1. site' = [site EXCEPT ![dom[c]] = NoRow]
  BY DEF DeleteSiteRow
<1>2. \A e \in Domains : e # dom[c] => site'[e] = site[e]
  BY <1>1 DEF TypeOK
<1>3. site'[dom[c]] = NoRow
  BY <1>1 DEF TypeOK
<1>4. \A e \in Domains : alias'[e] = alias[e] \/ alias'[e] = NoRow
  BY DEF DeleteSiteRow
<1>5. \A d \in Domains : site[dom[c]] # NoRow => alias'[d] # site[dom[c]]
  BY DEF DeleteSiteRow
<1> QED
  BY <1>2, <1>3, <1>4, <1>5 DEF TableEffects

\* Where a caller goes that is not about to insert anything.
Plain == Steps \ {"site insert", "app site", "alias check", "alias insert"}

LEMMA GotoMoves ==
  ASSUME TypeOK, NEW c \in Callers, at[c] # "idle", NEW step \in Steps,
         Goto(c, step) \/ \E value \in Nat : GotoWith(c, step, value)
  PROVE  /\ at'[c] = step
         /\ \A r \in Callers \ {c} :
              at'[r] = at[r] /\ dom'[r] = dom[r] /\ other'[r] = other[r] /\ known'[r] = known[r]
         /\ dom'[c] = dom[c] /\ other'[c] = other[c] /\ troubled' = troubled
BY DEF TypeOK, Goto, GotoWith

LEMMA PlainMoves ==
  ASSUME TypeOK, NEW c \in Callers, at[c] # "idle", NEW step \in Plain,
         Goto(c, step) \/ \E value \in Nat : GotoWith(c, step, value)
  PROVE  MoveEffects(c)
<1>1. step \in Steps
  BY DEF Plain
<1>2. step \notin Inserting /\ step # "alias insert" /\ step # "alias check"
  BY DEF Plain, Inserting
<1> QED
  BY <1>1, <1>2, GotoMoves DEF MoveEffects

LEMMA AnswersMoves ==
  ASSUME TypeOK, NEW c \in Callers, at[c] # "idle", Answers(c), troubled \subseteq troubled'
  PROVE  MoveEffects(c)
<1>1. at'[c] = "idle"
  BY DEF TypeOK, Answers
<1>2. \A r \in Callers \ {c} :
        at'[r] = at[r] /\ dom'[r] = dom[r] /\ other'[r] = other[r] /\ known'[r] = known[r]
  BY DEF TypeOK, Answers
<1>3. at'[c] \notin Inserting /\ at'[c] # "alias insert" /\ at'[c] # "alias check"
  BY <1>1 DEF Inserting
<1> QED
  BY <1>1, <1>2, <1>3 DEF MoveEffects

LEMMA PeaceMoves ==
  ASSUME TypeOK, NEW c \in Callers, at[c] # "idle", AnswersInPeace(c)
  PROVE  MoveEffects(c)
BY AnswersMoves DEF AnswersInPeace

\* A busy caller has a domain.
LEMMA BusyHasDomain ==
  ASSUME TypeOK, NEW c \in Callers, at[c] # "idle"
  PROVE  dom[c] \in Domains
BY DEF TypeOK

LEMMA CreateSiteEffects ==
  ASSUME TypeOK, NEW c \in Callers, CreateSite(c)
  PROVE  TableEffects(c) /\ MoveEffects(c)
<1>1. at[c] # "idle" /\ dom[c] \in Domains
  BY BusyHasDomain DEF CreateSite
<1>2. CASE at[c] = "site quota"
  <2>1. site' = site /\ alias' = alias /\ (Goto(c, "site check") \/ AnswersInPeace(c))
    BY <1>2 DEF CreateSite, siteTable
  <2>2. "site check" \in Plain
    BY DEF Plain, Steps, Creating
  <2> QED
    BY <1>1, <2>1, <2>2, TablesStayEffects, PlainMoves, PeaceMoves
<1>3. CASE at[c] = "site check" /\ alias[dom[c]] = NoRow
  <2>1. site' = site /\ alias' = alias /\ Goto(c, "site insert")
    BY <1>3 DEF CreateSite, siteTable
  <2>2. "site insert" \in Steps
    BY DEF Steps, Creating
  <2>3. MoveEffects(c)
    BY <1>1, <1>3, <2>1, <2>2, GotoMoves DEF MoveEffects
  <2> QED
    BY <2>1, <2>3, TablesStayEffects
<1>4. CASE at[c] = "site check" /\ alias[dom[c]] # NoRow
  <2>1. site' = site /\ alias' = alias /\ AnswersInPeace(c)
    BY <1>4 DEF CreateSite, siteTable
  <2> QED
    BY <1>1, <2>1, TablesStayEffects, PeaceMoves
<1>5. CASE at[c] = "site insert"
  <2>1. AnswersInPeace(c) /\ alias' = alias
    BY <1>5 DEF CreateSite
  <2>2. (site[dom[c]] = NoRow /\ InsertSite(dom[c], by[c], NoRow)) \/ site' = site
    BY <1>5 DEF CreateSite, siteTable
  <2> QED
    BY <1>1, <1>5, <2>1, <2>2, InsertSiteEffects, TablesStayEffects, PeaceMoves DEF Inserting
<1> QED
  BY <1>2, <1>3, <1>4, <1>5 DEF CreateSite

LEMMA DeleteSiteEffects ==
  ASSUME TypeOK, NEW c \in Callers, DeleteSite(c)
  PROVE  TableEffects(c) /\ MoveEffects(c)
<1>1. at[c] # "idle" /\ dom[c] \in Domains
  BY BusyHasDomain DEF DeleteSite
<1>2. CASE at[c] = "remove site"
  <2>1. site' = site /\ alias' = alias /\ (Goto(c, "remove site row") \/ AnswersInPeace(c))
    BY <1>2 DEF DeleteSite, siteTable
  <2>2. "remove site row" \in Plain
    BY DEF Plain, Steps, Removing
  <2> QED
    BY <1>1, <2>1, <2>2, TablesStayEffects, PlainMoves, PeaceMoves
<1>3. CASE at[c] = "remove site row"
  <2>1. DeleteSiteRow(dom[c]) /\ Answers(c) /\ troubled \subseteq troubled'
    BY <1>3 DEF DeleteSite
  <2> QED
    BY <1>1, <1>3, <2>1, DeleteSiteRowEffects, AnswersMoves
<1> QED
  BY <1>2, <1>3 DEF DeleteSite

LEMMA AddSiteDomainEffects ==
  ASSUME TypeOK, NEW c \in Callers, AddSiteDomain(c)
  PROVE  TableEffects(c) /\ MoveEffects(c)
<1>1. at[c] # "idle" /\ dom[c] \in Domains
  BY BusyHasDomain DEF AddSiteDomain
<1>2. CASE at[c] = "alias"
  <2>1. site' = site /\ alias' = alias
    BY <1>2 DEF AddSiteDomain, ReadSite, siteTable
  <2>2. CASE site[dom[c]] # NoRow /\ GotoWith(c, "alias check", site[dom[c]])
    <3>1. site[dom[c]] \in Nat /\ "alias check" \in Steps
      BY <1>1 DEF TypeOK, Steps, Aliasing
    <3>2. known'[c] = site[dom[c]]
      BY <2>2 DEF GotoWith, TypeOK
    <3>3. MoveEffects(c)
      BY <1>1, <2>1, <2>2, <3>1, <3>2, GotoMoves DEF MoveEffects, Inserting
    <3> QED
      BY <2>1, <3>3, TablesStayEffects
  <2>3. CASE AnswersInPeace(c)
    BY <1>1, <2>1, <2>3, TablesStayEffects, PeaceMoves
  <2> QED
    BY <1>2, <2>2, <2>3 DEF AddSiteDomain, ReadSite
<1>3. CASE at[c] = "alias check"
  <2>1. site' = site /\ alias' = alias
    BY <1>3 DEF AddSiteDomain, siteTable
  <2>2. CASE site[other[c]] = NoRow /\ Goto(c, "alias insert")
    <3>1. "alias insert" \in Steps
      BY DEF Steps, Aliasing
    <3>2. known'[c] = known[c]
      BY <2>2 DEF Goto
    <3>3. MoveEffects(c)
      BY <1>1, <1>3, <2>1, <2>2, <3>1, <3>2, GotoMoves DEF MoveEffects, Inserting
    <3> QED
      BY <2>1, <3>3, TablesStayEffects
  <2>3. CASE AnswersInPeace(c)
    BY <1>1, <2>1, <2>3, TablesStayEffects, PeaceMoves
  <2> QED
    BY <1>3, <2>2, <2>3 DEF AddSiteDomain
<1>4. CASE at[c] = "alias insert"
  <2>1. AnswersInPeace(c) /\ site' = site
    BY <1>4 DEF AddSiteDomain, siteTable
  <2>2. \A d \in Domains : alias'[d] # alias[d] =>
          alias[d] = NoRow /\ d = other[c] /\ alias'[d] = known[c]
    BY <1>4 DEF AddSiteDomain, TypeOK
  <2>3. TableEffects(c)
    BY <1>4, <2>1, <2>2 DEF TableEffects
  <2> QED
    BY <1>1, <2>1, <2>3, PeaceMoves
<1> QED
  BY <1>2, <1>3, <1>4 DEF AddSiteDomain

LEMMA DeleteSiteDomainEffects ==
  ASSUME TypeOK, NEW c \in Callers, DeleteSiteDomain(c)
  PROVE  TableEffects(c) /\ MoveEffects(c)
<1>1. at[c] # "idle" /\ dom[c] \in Domains
  BY BusyHasDomain DEF DeleteSiteDomain
<1>2. CASE at[c] = "unalias"
  <2>1. site' = site /\ alias' = alias
    BY <1>2 DEF DeleteSiteDomain, ReadSite, siteTable
  <2>2. "unalias row" \in Plain /\ site[dom[c]] \in Nat
    BY <1>1 DEF Plain, Steps, Aliasing, TypeOK
  <2>3. GotoWith(c, "unalias row", site[dom[c]]) \/ AnswersInPeace(c)
    BY <1>2 DEF DeleteSiteDomain, ReadSite
  <2> QED
    BY <1>1, <2>1, <2>2, <2>3, TablesStayEffects, PlainMoves, PeaceMoves
<1>3. CASE at[c] = "unalias row"
  <2>1. AnswersInPeace(c) /\ site' = site
    BY <1>3 DEF DeleteSiteDomain, siteTable
  <2>2. \A d \in Domains : alias'[d] = alias[d] \/ alias'[d] = NoRow
    BY <1>3 DEF DeleteSiteDomain, TypeOK
  <2>3. TableEffects(c)
    BY <1>3, <2>1, <2>2 DEF TableEffects
  <2> QED
    BY <1>1, <2>1, <2>3, PeaceMoves
<1> QED
  BY <1>2, <1>3 DEF DeleteSiteDomain

LEMMA CreateAppEffects ==
  ASSUME TypeOK, NEW c \in Callers, CreateApp(c)
  PROVE  TableEffects(c) /\ MoveEffects(c)
<1>1. at[c] # "idle" /\ dom[c] \in Domains
  BY BusyHasDomain DEF CreateApp, CreateAppRow, CreateAppSite
<1>2. {"app port", "app insert", "app check", "app undo"} \subseteq Plain
  BY DEF Plain, Steps, Creating
<1>3. CASE at[c] \in {"app quota", "app port", "app insert"}
  <2>1. site' = site /\ alias' = alias
    BY <1>3 DEF CreateApp, CreateAppRow, CreateAppSite, siteTable
  <2>2. CreateAppRow(c)
    BY <1>3 DEF CreateApp, CreateAppSite
  <2>3. \A p \in MaxPort : p + 1 \in Nat
    BY NextPortTypes, TypesSplit
  <2>4. \/ Goto(c, "app port") \/ Goto(c, "app check") \/ AnswersInPeace(c)
        \/ \E value \in Nat : GotoWith(c, "app insert", value)
    BY <2>2, <2>3 DEF CreateAppRow
  <2> QED
    BY <1>1, <1>2, <2>1, <2>4, TablesStayEffects, PlainMoves, PeaceMoves
<1>4. CASE at[c] = "app check"
  <2>1. site' = site /\ alias' = alias
    BY <1>4 DEF CreateApp, CreateAppRow, CreateAppSite, siteTable
  <2>2. CASE alias[dom[c]] = NoRow
    <3>1. Goto(c, "app site") /\ "app site" \in Steps
      BY <1>4, <2>2 DEF CreateApp, CreateAppRow, CreateAppSite, Steps, Creating
    <3>2. MoveEffects(c)
      BY <1>1, <2>1, <2>2, <3>1, GotoMoves DEF MoveEffects
    <3> QED
      BY <2>1, <3>2, TablesStayEffects
  <2>3. CASE alias[dom[c]] # NoRow
    <3>1. Goto(c, "app undo")
      BY <1>4, <2>3 DEF CreateApp, CreateAppRow, CreateAppSite
    <3> QED
      BY <1>1, <1>2, <2>1, <3>1, TablesStayEffects, PlainMoves
  <2> QED
    BY <2>2, <2>3
<1>5. CASE at[c] = "app site" /\ site[dom[c]] = NoRow
  <2>1. InsertSite(dom[c], by[c], known[c]) /\ AnswersInPeace(c) /\ alias' = alias
    BY <1>5 DEF CreateApp, CreateAppRow, CreateAppSite
  <2> QED
    BY <1>1, <1>5, <2>1, InsertSiteEffects, PeaceMoves DEF Inserting
<1>6. CASE at[c] = "app site" /\ site[dom[c]] # NoRow
  <2>1. Goto(c, "app undo") /\ site' = site /\ alias' = alias
    BY <1>6 DEF CreateApp, CreateAppRow, CreateAppSite, siteTable
  <2> QED
    BY <1>1, <1>2, <2>1, TablesStayEffects, PlainMoves
<1>7. CASE at[c] = "app undo"
  <2>1. AnswersInPeace(c) /\ site' = site /\ alias' = alias
    BY <1>7 DEF CreateApp, CreateAppRow, CreateAppSite, siteTable
  <2> QED
    BY <1>1, <2>1, TablesStayEffects, PeaceMoves
<1> QED
  BY <1>3, <1>4, <1>5, <1>6, <1>7 DEF CreateApp, CreateAppRow, CreateAppSite

LEMMA ReadAppEffects ==
  ASSUME TypeOK, NEW c \in Callers, at[c] # "idle",
         NEW step \in {"remove app row", "deploy route"}, ReadApp(c, step)
  PROVE  TableEffects(c) /\ MoveEffects(c)
<1>1. site' = site /\ alias' = alias
  BY DEF ReadApp, siteTable
<1>2. step \in Plain /\ appPort[dom[c]] \in Nat
  <2>1. step \in Plain
    BY DEF Plain, Steps, Removing, Deploying
  <2>2. dom[c] \in Domains /\ appPort \in [Domains -> Ports \cup {NoRow}]
    BY BusyHasDomain DEF TypeOK
  <2> QED
    BY <2>1, <2>2, PortsAreNat
<1>3. GotoWith(c, step, appPort[dom[c]]) \/ AnswersInPeace(c)
  BY DEF ReadApp
<1> QED
  BY <1>1, <1>2, <1>3, TablesStayEffects, PlainMoves, PeaceMoves

LEMMA DeleteAppEffects ==
  ASSUME TypeOK, NEW c \in Callers, DeleteApp(c)
  PROVE  TableEffects(c) /\ MoveEffects(c)
<1>1. at[c] # "idle" /\ dom[c] \in Domains
  BY BusyHasDomain DEF DeleteApp
<1>2. CASE at[c] = "remove app"
  BY <1>1, <1>2, ReadAppEffects DEF DeleteApp
<1>3. CASE at[c] = "remove app row"
  <2>1. Goto(c, "remove app site") /\ site' = site /\ alias' = alias
    BY <1>3 DEF DeleteApp, siteTable
  <2>2. "remove app site" \in Plain
    BY DEF Plain, Steps, Removing
  <2> QED
    BY <1>1, <2>1, <2>2, TablesStayEffects, PlainMoves
<1>4. CASE at[c] = "remove app site"
  <2>1. DeleteSiteRow(dom[c]) /\ AnswersInPeace(c)
    BY <1>4 DEF DeleteApp
  <2> QED
    BY <1>1, <1>4, <2>1, DeleteSiteRowEffects, PeaceMoves
<1> QED
  BY <1>2, <1>3, <1>4 DEF DeleteApp

LEMMA DeployEffects ==
  ASSUME TypeOK, NEW c \in Callers, Deploy(c)
  PROVE  TableEffects(c) /\ MoveEffects(c)
<1>1. at[c] # "idle"
  BY DEF Deploy
<1>2. CASE at[c] = "deploy"
  BY <1>1, <1>2, ReadAppEffects DEF Deploy
<1>3. CASE at[c] \in {"deploy route", "deploy port"}
  <2>1. site' = site /\ alias' = alias
    BY <1>3 DEF Deploy, siteTable
  <2>2. "deploy port" \in Plain
    BY DEF Plain, Steps, Deploying
  <2>3. Goto(c, "deploy port") \/ AnswersInPeace(c)
    BY <1>3 DEF Deploy
  <2> QED
    BY <1>1, <2>1, <2>2, <2>3, TablesStayEffects, PlainMoves, PeaceMoves
<1> QED
  BY <1>2, <1>3 DEF Deploy

LEMMA CallerEffects ==
  ASSUME TypeOK, NEW c \in Callers, CallerStep(c)
  PROVE  TableEffects(c) /\ MoveEffects(c)
BY CreateSiteEffects, DeleteSiteEffects, AddSiteDomainEffects, DeleteSiteDomainEffects,
   CreateAppEffects, DeleteAppEffects, DeployEffects DEF CallerStep

-----------------------------------------------------------------------------
(* The parts of the invariant, for a step of a handler.                    *)

\* Two handlers that are busy with the same domain: it is troubled.
LEMMA SharedDomain ==
  ASSUME RegistryInv, NEW c \in Callers, NEW r \in Callers, c # r,
         at[c] # "idle", at[r] # "idle", NEW d \in Domains, d \in Names(c), d \in Names(r)
  PROVE  Names(r) \subseteq troubled /\ d \in troubled
BY DEF RegistryInv, OverlapNoticed

LEMMA OverlapStep ==
  ASSUME RegistryInv, NEW c \in Callers, MoveEffects(c)
  PROVE  OverlapNoticed'
<1> SUFFICES ASSUME NEW a \in Callers, NEW b \in Callers, a # b,
                    at'[a] # "idle", at'[b] # "idle", Names(a)' \cap Names(b)' # {}
             PROVE  Names(a)' \cup Names(b)' \subseteq troubled'
  BY DEF OverlapNoticed
<1>1. \A r \in Callers : at'[r] # "idle" => at[r] # "idle" /\ Names(r)' = Names(r)
  BY DEF MoveEffects, Names
<1>2. troubled \subseteq troubled'
  BY DEF MoveEffects
<1> QED
  BY <1>1, <1>2 DEF RegistryInv, OverlapNoticed

LEMMA NoAliasStep ==
  ASSUME RegistryInv, NEW c \in Callers, TableEffects(c), MoveEffects(c)
  PROVE  NoAliasYet'
<1> SUFFICES ASSUME NEW r \in Callers, at'[r] \in Inserting, dom'[r] \notin troubled'
             PROVE  alias'[dom'[r]] = NoRow
  BY DEF NoAliasYet, Inserting
<1>1. CASE r = c
  <2>1. dom'[c] = dom[c] /\ alias' = alias /\ alias[dom[c]] = NoRow
    BY <1>1 DEF MoveEffects, Inserting
  <2> QED
    BY <1>1, <2>1
<1>2. CASE r # c
  <2>1. at[r] \in Inserting /\ dom'[r] = dom[r] /\ dom[r] \notin troubled /\ at[c] # "idle"
    BY <1>2 DEF MoveEffects
  <2>2. at[r] # "idle" /\ dom[r] \in Domains /\ dom[r] # NoDomain
    BY <2>1, BusyHasDomain DEF RegistryInv, Inserting
  <2>3. alias[dom[r]] = NoRow
    BY <2>1 DEF RegistryInv, NoAliasYet, Inserting
  <2>4. dom[r] # other[c]
    BY <1>2, <2>1, <2>2, SharedDomain DEF Names
  <2> QED
    BY <2>1, <2>2, <2>3, <2>4 DEF TableEffects
<1> QED
  BY <1>1, <1>2

LEMMA NoSiteStep ==
  ASSUME RegistryInv, NEW c \in Callers, TableEffects(c), MoveEffects(c)
  PROVE  NoSiteYet'
<1> SUFFICES ASSUME NEW r \in Callers, at'[r] = "alias insert", other'[r] \notin troubled'
             PROVE  site'[other'[r]] = NoRow
  BY DEF NoSiteYet
<1>1. CASE r = c
  <2>1. other'[c] = other[c] /\ site' = site /\ site[other[c]] = NoRow
    BY <1>1 DEF MoveEffects
  <2> QED
    BY <1>1, <2>1
<1>2. CASE r # c
  <2>1. at[r] = "alias insert" /\ other'[r] = other[r] /\ other[r] \notin troubled /\ at[c] # "idle"
    BY <1>2 DEF MoveEffects
  <2>2. other[r] \in Domains /\ other[r] # NoDomain
    BY <2>1 DEF RegistryInv, TypeOK, Aliasing
  <2>3. site[other[r]] = NoRow
    BY <2>1 DEF RegistryInv, NoSiteYet
  <2>4. other[r] # dom[c]
    BY <1>2, <2>1, <2>2, SharedDomain DEF Names
  <2> QED
    BY <2>1, <2>2, <2>3, <2>4 DEF TableEffects
<1> QED
  BY <1>1, <1>2

LEMMA SameSiteStep ==
  ASSUME RegistryInv, NEW c \in Callers, TableEffects(c), MoveEffects(c)
  PROVE  SameSite'
<1> SUFFICES ASSUME NEW r \in Callers, at'[r] \in {"alias check", "alias insert"},
                    other'[r] \notin troubled'
             PROVE  known'[r] # NoRow /\ site'[dom'[r]] = known'[r]
  BY DEF SameSite
<1>1. CASE r = c /\ at'[c] = "alias check"
  <2>1. dom'[c] = dom[c] /\ site' = site /\ known'[c] = site[dom[c]] /\ known'[c] # NoRow
    BY <1>1 DEF MoveEffects
  <2> QED
    BY <1>1, <2>1
<1>2. CASE r = c /\ at'[c] = "alias insert"
  <2>1. /\ dom'[c] = dom[c] /\ other'[c] = other[c] /\ site' = site /\ known'[c] = known[c]
        /\ at[c] = "alias check" /\ troubled \subseteq troubled'
    BY <1>2 DEF MoveEffects
  <2>2. known[c] # NoRow /\ site[dom[c]] = known[c]
    BY <1>2, <2>1 DEF RegistryInv, SameSite
  <2> QED
    BY <1>2, <2>1, <2>2
<1>3. CASE r # c
  <2>1. /\ at[r] \in {"alias check", "alias insert"} /\ at[c] # "idle"
        /\ other'[r] = other[r] /\ dom'[r] = dom[r] /\ known'[r] = known[r]
        /\ other[r] \notin troubled
    BY <1>3 DEF MoveEffects
  <2>2. at[r] # "idle" /\ dom[r] \in Domains /\ other[r] \in Domains
    BY <2>1 DEF RegistryInv, TypeOK, Aliasing
  <2>3. dom[r] # NoDomain /\ other[r] # NoDomain
    BY <2>2
  <2>4. known[r] # NoRow /\ site[dom[r]] = known[r]
    BY <2>1 DEF RegistryInv, SameSite
  <2>5. dom[r] # dom[c]
    BY <1>3, <2>1, <2>2, <2>3, SharedDomain DEF Names
  <2> QED
    BY <2>1, <2>2, <2>4, <2>5 DEF TableEffects
<1> QED
  BY <1>1, <1>2, <1>3

LEMMA LeadsOnceStep ==
  ASSUME RegistryInv, NEW c \in Callers, TableEffects(c), MoveEffects(c)
  PROVE  DomainLeadsOnce'
<1> SUFFICES ASSUME NEW d \in Domains, d \notin troubled',
                    site'[d] # NoRow, alias'[d] # NoRow
             PROVE  FALSE
  BY DEF DomainLeadsOnce
<1>1. d \notin troubled
  BY DEF MoveEffects
<1>2. site[d] = NoRow \/ alias[d] = NoRow
  BY <1>1 DEF RegistryInv, DomainLeadsOnce
<1>3. CASE site[d] = NoRow
  <2>1. d = dom[c] /\ at[c] \in Inserting
    BY <1>3 DEF TableEffects
  <2>2. alias[d] = NoRow
    BY <1>1, <2>1 DEF RegistryInv, NoAliasYet, Inserting
  <2>3. at[c] = "alias insert"
    BY <2>2 DEF TableEffects
  <2> QED
    BY <2>1, <2>3 DEF Inserting
<1>4. CASE alias[d] = NoRow /\ site[d] # NoRow
  <2>1. d = other[c] /\ at[c] = "alias insert"
    BY <1>4 DEF TableEffects
  <2> QED
    BY <1>1, <1>4, <2>1 DEF RegistryInv, NoSiteYet
<1> QED
  BY <1>2, <1>3, <1>4

LEMMA HasSiteStep ==
  ASSUME RegistryInv, NEW c \in Callers, TableEffects(c), MoveEffects(c)
  PROVE  AliasHasSite'
<1> SUFFICES ASSUME NEW d \in Domains, d \notin troubled', alias'[d] # NoRow
             PROVE  \E e \in Domains : site'[e] = alias'[d]
  BY DEF AliasHasSite
<1>1. d \notin troubled
  BY DEF MoveEffects
<1>2. CASE alias'[d] # alias[d]
  <2>1. d = other[c] /\ at[c] = "alias insert" /\ alias'[d] = known[c] /\ site' = site
    BY <1>2 DEF TableEffects
  <2>2. dom[c] \in Domains
    BY <2>1, BusyHasDomain DEF RegistryInv
  <2>3. site[dom[c]] = known[c]
    BY <1>1, <2>1 DEF RegistryInv, SameSite
  <2> QED
    BY <2>1, <2>2, <2>3
<1>3. CASE alias'[d] = alias[d]
  <2>1. PICK e \in Domains : site[e] = alias[d]
    BY <1>1, <1>3 DEF RegistryInv, AliasHasSite
  <2>2. site'[e] = site[e]
    BY <1>3, <2>1 DEF TableEffects
  <2> QED
    BY <1>3, <2>1, <2>2
<1> QED
  BY <1>2, <1>3

-----------------------------------------------------------------------------

LEMMA InitInv == Init => RegistryInv
<1> SUFFICES ASSUME Init PROVE RegistryInv
  OBVIOUS
<1>1. TypeOK
  BY InitTypes
<1>2. OverlapNoticed /\ NoAliasYet /\ NoSiteYet /\ SameSite
  BY DEF Init, OverlapNoticed, NoAliasYet, NoSiteYet, SameSite
<1>3. DomainLeadsOnce /\ AliasHasSite
  BY DEF Init, DomainLeadsOnce, AliasHasSite
<1> QED
  BY <1>1, <1>2, <1>3 DEF RegistryInv

LEMMA CallerInv ==
  ASSUME RegistryInv, NEW c \in Callers, CallerStep(c)
  PROVE  RegistryInv'
<1>1. TypeOK
  BY DEF RegistryInv
<1>2. TypeOK'
  BY <1>1, StepTypes DEF Next
<1>3. TableEffects(c) /\ MoveEffects(c)
  BY <1>1, CallerEffects
<1> QED
  BY <1>2, <1>3, OverlapStep, NoAliasStep, NoSiteStep, SameSiteStep, LeadsOnceStep, HasSiteStep
     DEF RegistryInv

\* A request that arrives is where overlaps are noticed.
LEMMA RequestInv ==
  ASSUME RegistryInv, NEW c \in Callers, Ask(c)
  PROVE  RegistryInv'
<1>1. TypeOK /\ TypeOK'
  BY StepTypes DEF RegistryInv, Next
<1>2. PICK u \in Users, what \in Asked, d \in Domains, e \in Domains \cup {NoDomain} :
        Request(c, u, what, d, e)
  BY DEF Ask
<1>3. /\ at'[c] = what /\ at[c] = "idle" /\ dom'[c] = d /\ other'[c] = e
      /\ \A r \in Callers \ {c} :
           at'[r] = at[r] /\ dom'[r] = dom[r] /\ other'[r] = other[r]
      /\ known' = known /\ site' = site /\ alias' = alias
      /\ troubled' = troubled \cup Trouble(c, {d, e} \ {NoDomain})
  BY <1>1, <1>2 DEF Request, TypeOK, siteTable
<1>4. what \notin Inserting /\ what \notin {"alias check", "alias insert"}
  BY DEF Asked, Inserting
<1>5. Names(c)' = {d, e} \ {NoDomain} /\ \A r \in Callers \ {c} : Names(r)' = Names(r)
  BY <1>3 DEF Names
<1>6. \A r \in Callers \ {c} :
        at[r] # "idle" /\ Names(r) \cap Names(c)' # {} =>
          Names(r) \cup Names(c)' \subseteq troubled'
  <2> SUFFICES ASSUME NEW r \in Callers \ {c}, at[r] # "idle", Names(r) \cap Names(c)' # {}
               PROVE  Names(r) \cup Names(c)' \subseteq troubled'
    OBVIOUS
  <2>1. r \in Rivals(c, Names(c)')
    BY DEF Rivals
  <2>2. Names(r) \cup Names(c)' \subseteq Trouble(c, Names(c)')
    BY <2>1 DEF Trouble
  <2> QED
    BY <1>3, <1>5, <2>2
<1>7. OverlapNoticed'
  <2> SUFFICES ASSUME NEW a \in Callers, NEW b \in Callers, a # b,
                      at'[a] # "idle", at'[b] # "idle", Names(a)' \cap Names(b)' # {}
               PROVE  Names(a)' \cup Names(b)' \subseteq troubled'
    BY DEF OverlapNoticed
  <2>1. CASE a # c /\ b # c
    <3>1. at[a] # "idle" /\ at[b] # "idle" /\ Names(a)' = Names(a) /\ Names(b)' = Names(b)
      BY <1>3, <1>5, <2>1
    <3>2. Names(a) \cup Names(b) \subseteq troubled
      BY <3>1 DEF RegistryInv, OverlapNoticed
    <3> QED
      BY <1>3, <3>1, <3>2
  <2>2. CASE a = c
    BY <1>3, <1>5, <1>6, <2>2
  <2>3. CASE b = c
    BY <1>3, <1>5, <1>6, <2>3
  <2> QED
    BY <2>1, <2>2, <2>3
<1>8. NoAliasYet' /\ NoSiteYet' /\ SameSite'
  <2>1. \A r \in Callers :
          at'[r] \in Inserting \cup {"alias check", "alias insert"} => r # c
    BY <1>3, <1>4
  <2>2. NoAliasYet'
    BY <1>3, <2>1 DEF RegistryInv, NoAliasYet, Inserting
  <2>3. NoSiteYet'
    BY <1>3, <2>1 DEF RegistryInv, NoSiteYet
  <2>4. SameSite'
    BY <1>3, <2>1 DEF RegistryInv, SameSite
  <2> QED
    BY <2>2, <2>3, <2>4
<1>9. DomainLeadsOnce' /\ AliasHasSite'
  BY <1>3 DEF RegistryInv, DomainLeadsOnce, AliasHasSite
<1> QED
  BY <1>1, <1>7, <1>8, <1>9 DEF RegistryInv

LEMMA RebootInv ==
  ASSUME RegistryInv, Reboot
  PROVE  RegistryInv'
<1>1. TypeOK'
  BY StepTypes DEF RegistryInv, Next
<1>2. /\ \A r \in Callers : at'[r] = "idle"
      /\ site' = site /\ alias' = alias /\ troubled \subseteq troubled'
  BY DEF Reboot, siteTable
<1>3. OverlapNoticed' /\ NoAliasYet' /\ NoSiteYet' /\ SameSite'
  BY <1>2 DEF OverlapNoticed, NoAliasYet, NoSiteYet, SameSite
<1>4. DomainLeadsOnce' /\ AliasHasSite'
  BY <1>2 DEF RegistryInv, DomainLeadsOnce, AliasHasSite
<1> QED
  BY <1>1, <1>3, <1>4 DEF RegistryInv

LEMMA StutterInv ==
  ASSUME RegistryInv, UNCHANGED registryVars
  PROVE  RegistryInv'
<1>1. TypeOK'
  BY StepTypes DEF RegistryInv
<1> QED
  BY <1>1 DEF RegistryInv, registryVars, OverlapNoticed, NoAliasYet, NoSiteYet, SameSite,
              DomainLeadsOnce, AliasHasSite, Names

LEMMA StepInv ==
  ASSUME RegistryInv, [Next]_registryVars
  PROVE  RegistryInv'
BY CallerInv, RequestInv, RebootInv, StutterInv DEF Next

THEOREM InvHolds == Spec => []RegistryInv
<1> QED
  BY InitInv, StepInv, PTL DEF Spec

\* No domain is both the main domain of a site and an alias: the two looks that
\* CreateSite and AddSiteDomain take at each other's table are enough, as long
\* as no two requests for the domain overlap.
THEOREM LeadsOnce == Spec => []DomainLeadsOnce
<1>1. RegistryInv => DomainLeadsOnce
  BY DEF RegistryInv
<1> QED
  BY <1>1, InvHolds, PTL

\* Every alias belongs to a site that exists: DeleteSite takes the aliases
\* along, and no alias is inserted for a site that went in between.
THEOREM NoStrayAlias == Spec => []AliasHasSite
<1>1. RegistryInv => AliasHasSite
  BY DEF RegistryInv
<1> QED
  BY <1>1, InvHolds, PTL

-----------------------------------------------------------------------------
(* Quotas.  Whoever was counted in and has not inserted yet holds a place:  *)
(* apps and places together stay below the quota and the goroutines.        *)

CountedIn == {"app port", "app insert"}
Places(u) == {c \in Callers : by[c] = u /\ at[c] \in CountedIn}

Bounded(u) == Cardinality(AppsOf(u)) + Cardinality(Places(u)) < MaxApps + Cardinality(Callers)
PlacesBound == \A u \in Users \ Admins : Bounded(u)

LEMMA AppsAndPlacesAreFinite ==
  ASSUME NEW u
  PROVE  /\ IsFiniteSet(AppsOf(u)) /\ Cardinality(AppsOf(u)) \in Nat
         /\ IsFiniteSet(Places(u)) /\ Cardinality(Places(u)) \in Nat
         /\ IsFiniteSet(AppsOf(u)') /\ Cardinality(AppsOf(u)') \in Nat
         /\ IsFiniteSet(Places(u)') /\ Cardinality(Places(u)') \in Nat
         /\ Cardinality(Places(u)') <= Cardinality(Callers)
         /\ Cardinality(Callers) \in Nat
<1>1. AppsOf(u) \in SUBSET Domains /\ AppsOf(u)' \in SUBSET Domains
  BY DEF AppsOf
<1>2. Places(u) \in SUBSET Callers /\ Places(u)' \in SUBSET Callers
  BY DEF Places
<1>3. IsFiniteSet(AppsOf(u)) /\ IsFiniteSet(AppsOf(u)')
  BY <1>1, FS_Subset
<1>4. IsFiniteSet(Places(u)) /\ IsFiniteSet(Places(u)') /\ Cardinality(Places(u)') <= Cardinality(Callers)
  BY <1>2, FS_Subset
<1> QED
  BY <1>3, <1>4, FS_CardinalityType

LEMMA NoMoreIsBounded ==
  ASSUME NEW u, Bounded(u), AppsOf(u)' \subseteq AppsOf(u), Places(u)' \subseteq Places(u)
  PROVE  Bounded(u)'
<1>1. Cardinality(AppsOf(u)') <= Cardinality(AppsOf(u)) /\ Cardinality(Places(u)') <= Cardinality(Places(u))
  BY AppsAndPlacesAreFinite, FS_Subset
<1> QED
  BY <1>1, AppsAndPlacesAreFinite DEF Bounded

LEMMA CountedInIsBounded ==
  ASSUME NEW u, AppsOf(u)' = AppsOf(u), Cardinality(AppsOf(u)) < MaxApps
  PROVE  Bounded(u)'
<1>1. Cardinality(AppsOf(u)') < MaxApps
  OBVIOUS
<1> QED
  BY <1>1, AppsAndPlacesAreFinite DEF Bounded

LEMMA PlaceTakenIsBounded ==
  ASSUME NEW u, Bounded(u), NEW d, NEW c \in Places(u),
         AppsOf(u)' \subseteq AppsOf(u) \cup {d}, Places(u)' = Places(u) \ {c}
  PROVE  Bounded(u)'
<1>1. IsFiniteSet(AppsOf(u)) /\ Cardinality(AppsOf(u)) \in Nat
  BY AppsAndPlacesAreFinite
<1>2. /\ IsFiniteSet(AppsOf(u) \cup {d})
      /\ Cardinality(AppsOf(u) \cup {d}) <= Cardinality(AppsOf(u)) + 1
  <2>1. /\ IsFiniteSet(AppsOf(u) \cup {d})
        /\ Cardinality(AppsOf(u) \cup {d}) =
             IF d \in AppsOf(u) THEN Cardinality(AppsOf(u)) ELSE Cardinality(AppsOf(u)) + 1
    BY <1>1, FS_AddElement, Zenon
  <2> QED
    BY <1>1, <2>1
<1>3. Cardinality(AppsOf(u)') <= Cardinality(AppsOf(u) \cup {d})
  BY <1>2, FS_Subset
<1>4. Cardinality(AppsOf(u) \cup {d}) \in Nat
  BY <1>2, FS_CardinalityType
<1>5. Cardinality(Places(u)') = Cardinality(Places(u)) - 1
  <2>1. Cardinality(Places(u) \ {c}) =
          IF c \in Places(u) THEN Cardinality(Places(u)) - 1 ELSE Cardinality(Places(u))
    BY AppsAndPlacesAreFinite, FS_RemoveElement, Zenon
  <2> QED
    BY <2>1
<1> QED
  BY <1>1, <1>2, <1>3, <1>4, <1>5, AppsAndPlacesAreFinite DEF Bounded

\* A step that makes no app and counts nobody in.
NoMoreApps ==
  /\ \A d \in Domains : appPort'[d] # NoRow => appPort[d] # NoRow /\ appOwner'[d] = appOwner[d]
  /\ \A r \in Callers : at'[r] \in CountedIn => at[r] \in CountedIn /\ by'[r] = by[r]

LEMMA NoMoreKeeps ==
  ASSUME PlacesBound, NoMoreApps
  PROVE  PlacesBound'
<1> SUFFICES ASSUME NEW u \in Users \ Admins
             PROVE  Bounded(u)'
  BY DEF PlacesBound
<1>1. AppsOf(u)' \subseteq AppsOf(u) /\ Places(u)' \subseteq Places(u)
  BY DEF NoMoreApps, AppsOf, Places
<1> QED
  BY <1>1, NoMoreIsBounded DEF PlacesBound

\* The step that is counted in.
LEMMA CountedInKeeps ==
  ASSUME TypeOK, PlacesBound, NEW c \in Callers, CanCreateApp(by[c]),
         Goto(c, "app port"), UNCHANGED appTable
  PROVE  PlacesBound'
<1> SUFFICES ASSUME NEW u \in Users \ Admins
             PROVE  Bounded(u)'
  BY DEF PlacesBound
<1>1. AppsOf(u)' = AppsOf(u)
  BY DEF AppsOf, appTable
<1>2. CASE by[c] = u
  <2>1. Cardinality(AppsOf(u)) < MaxApps
    BY <1>2 DEF CanCreateApp
  <2> QED
    BY <1>1, <2>1, CountedInIsBounded
<1>3. CASE by[c] # u
  <2>1. Places(u)' = Places(u)
    BY <1>3 DEF Places, Goto, TypeOK
  <2> QED
    BY <1>1, <2>1, NoMoreIsBounded DEF PlacesBound
<1> QED
  BY <1>2, <1>3

\* The step that takes the place.
LEMMA PlaceTakenKeeps ==
  ASSUME TypeOK, PlacesBound, NEW c \in Callers, at[c] = "app insert", dom[c] \in Domains,
         appPort' = [appPort EXCEPT ![dom[c]] = known[c]],
         appOwner' = [appOwner EXCEPT ![dom[c]] = by[c]],
         Goto(c, "app check")
  PROVE  PlacesBound'
<1> SUFFICES ASSUME NEW u \in Users \ Admins
             PROVE  Bounded(u)'
  BY DEF PlacesBound
<1>1. Places(u)' = Places(u) \ {c}
  BY DEF Places, Goto, TypeOK, CountedIn
<1>2. Bounded(u)
  BY DEF PlacesBound
<1>3. CASE by[c] = u
  <2>1. AppsOf(u)' \subseteq AppsOf(u) \cup {dom[c]}
    BY DEF AppsOf, TypeOK
  <2>2. c \in Places(u)
    BY <1>3 DEF Places, CountedIn
  <2> QED
    BY <1>1, <1>2, <2>1, <2>2, PlaceTakenIsBounded
<1>4. CASE by[c] # u
  <2>1. AppsOf(u)' \subseteq AppsOf(u)
    BY <1>4 DEF AppsOf, TypeOK
  <2> QED
    BY <1>1, <1>2, <2>1, NoMoreIsBounded
<1> QED
  BY <1>3, <1>4

\* The steps that make none.
LEMMA MovesNoMore ==
  ASSUME TypeOK, NEW c \in Callers, NEW step \in Steps, step \notin CountedIn \/ at[c] \in CountedIn,
         Goto(c, step) \/ (\E value \in Nat : GotoWith(c, step, value)) \/ Answers(c),
         \A d \in Domains : appPort'[d] # NoRow => appPort[d] # NoRow /\ appOwner'[d] = appOwner[d]
  PROVE  NoMoreApps
<1>1. "idle" \notin CountedIn
  BY DEF CountedIn
<1>2. \A r \in Callers : r # c => at'[r] = at[r] /\ by'[r] = by[r]
  BY DEF Goto, GotoWith, Answers, TypeOK
<1>3. at'[c] = "idle" \/ (at'[c] = step /\ by'[c] = by[c])
  BY DEF Goto, GotoWith, Answers, TypeOK
<1> QED
  BY <1>1, <1>2, <1>3 DEF NoMoreApps

LEMMA SiteStepsNoMore ==
  ASSUME TypeOK, NEW c \in Callers,
         CreateSite(c) \/ DeleteSite(c) \/ AddSiteDomain(c) \/ DeleteSiteDomain(c)
  PROVE  NoMoreApps
<1>1. \A d \in Domains : appPort'[d] = appPort[d] /\ appOwner'[d] = appOwner[d]
  BY DEF CreateSite, DeleteSite, AddSiteDomain, DeleteSiteDomain, ReadSite, appTable
<1>2. TypeOK'
  BY StepTypes DEF Next, CallerStep
<1>3. \E step \in Steps \ CountedIn :
        Goto(c, step) \/ (\E value \in Nat : GotoWith(c, step, value)) \/ Answers(c)
  <2>1. \A step \in {"site check", "site insert", "remove site row", "alias check", "alias insert",
                     "unalias row"} : step \in Steps \ CountedIn
    BY DEF Steps, CountedIn, Creating, Removing, Aliasing
  <2>2. at[c] # "idle" => site[dom[c]] \in Nat
    BY BusyHasDomain DEF TypeOK
  <2>3. CASE CreateSite(c)
    BY <2>1, <2>3 DEF CreateSite, AnswersInPeace
  <2>4. CASE DeleteSite(c)
    BY <2>1, <2>4 DEF DeleteSite, AnswersInPeace
  <2>5. CASE AddSiteDomain(c)
    BY <2>1, <2>2, <2>5 DEF AddSiteDomain, ReadSite, AnswersInPeace
  <2>6. CASE DeleteSiteDomain(c)
    BY <2>1, <2>2, <2>6 DEF DeleteSiteDomain, ReadSite, AnswersInPeace
  <2> QED
    BY <2>3, <2>4, <2>5, <2>6
<1> QED
  BY <1>1, <1>3, MovesNoMore

LEMMA DeleteAppNoMore ==
  ASSUME TypeOK, NEW c \in Callers, DeleteApp(c)
  PROVE  NoMoreApps
<1>1. \A step \in {"remove app row", "remove app site"} : step \in Steps \ CountedIn
  BY DEF Steps, CountedIn, Removing
<1>2. dom[c] \in Domains /\ appPort[dom[c]] \in Nat
  BY BusyHasDomain, PortsAreNat DEF DeleteApp, TypeOK
<1>3. \A d \in Domains : appPort'[d] # NoRow => appPort[d] # NoRow /\ appOwner'[d] = appOwner[d]
  BY <1>2 DEF DeleteApp, ReadApp, DeleteAppRow, appTable, TypeOK
<1>4. \E step \in Steps \ CountedIn :
        Goto(c, step) \/ (\E value \in Nat : GotoWith(c, step, value)) \/ Answers(c)
  BY <1>1, <1>2 DEF DeleteApp, ReadApp, AnswersInPeace
<1> QED
  BY <1>3, <1>4, MovesNoMore

LEMMA DeployNoMore ==
  ASSUME TypeOK, NEW c \in Callers, Deploy(c)
  PROVE  NoMoreApps
<1>1. \A step \in {"deploy route", "deploy port"} : step \in Steps \ CountedIn
  BY DEF Steps, CountedIn, Deploying
<1>2. dom[c] \in Domains /\ appPort[dom[c]] \in Nat
  BY BusyHasDomain, PortsAreNat DEF Deploy, TypeOK
<1>3. \A d \in Domains : appPort'[d] # NoRow => appPort[d] # NoRow /\ appOwner'[d] = appOwner[d]
  BY <1>2 DEF Deploy, ReadApp, appTable, TypeOK
<1>4. \E step \in Steps \ CountedIn :
        Goto(c, step) \/ (\E value \in Nat : GotoWith(c, step, value)) \/ Answers(c)
  BY <1>1, <1>2 DEF Deploy, ReadApp, AnswersInPeace
<1> QED
  BY <1>3, <1>4, MovesNoMore

LEMMA CreateAppPlaces ==
  ASSUME TypeOK, PlacesBound, NEW c \in Callers, CreateApp(c)
  PROVE  PlacesBound'
<1>1. dom[c] \in Domains
  BY BusyHasDomain DEF CreateApp, CreateAppRow, CreateAppSite
<1>2. CASE at[c] = "app quota" /\ CanCreateApp(by[c])
  <2>1. Goto(c, "app port") /\ UNCHANGED appTable
    BY <1>2 DEF CreateApp, CreateAppRow, CreateAppSite
  <2> QED
    BY <1>2, <2>1, CountedInKeeps
<1>3. CASE at[c] = "app insert" /\ appPort[dom[c]] = NoRow
  <2>1. /\ appPort' = [appPort EXCEPT ![dom[c]] = known[c]]
        /\ appOwner' = [appOwner EXCEPT ![dom[c]] = by[c]]
        /\ Goto(c, "app check")
    BY <1>3 DEF CreateApp, CreateAppRow, CreateAppSite
  <2> QED
    BY <1>1, <1>3, <2>1, PlaceTakenKeeps
<1>4. CASE at[c] = "app port"
  <2>1. PICK p \in MaxPort : GotoWith(c, "app insert", p + 1)
    BY <1>4 DEF CreateApp, CreateAppRow, CreateAppSite
  <2>2. p + 1 \in Nat /\ "app insert" \in Steps /\ at[c] \in CountedIn
    BY <1>4, NextPortTypes, TypesSplit DEF CountedIn, Steps, Creating
  <2>3. UNCHANGED appTable
    BY <1>4 DEF CreateApp, CreateAppRow, CreateAppSite
  <2>4. NoMoreApps
    BY <2>1, <2>2, <2>3, MovesNoMore DEF appTable
  <2> QED
    BY <2>4, NoMoreKeeps
<1>5. CASE \/ at[c] = "app quota" /\ ~CanCreateApp(by[c])
           \/ at[c] = "app insert" /\ appPort[dom[c]] # NoRow
           \/ at[c] \in {"app check", "app site", "app undo"}
  <2>1. \A step \in {"app site", "app undo"} : step \in Steps \ CountedIn
    BY DEF Steps, CountedIn, Creating
  <2>2. \A d \in Domains : appPort'[d] # NoRow => appPort[d] # NoRow /\ appOwner'[d] = appOwner[d]
    BY <1>1, <1>5 DEF CreateApp, CreateAppRow, CreateAppSite, DeleteAppRow, appTable, TypeOK
  <2>3. \E step \in Steps \ CountedIn : Goto(c, step) \/ Answers(c)
    BY <1>5, <2>1 DEF CreateApp, CreateAppRow, CreateAppSite, AnswersInPeace
  <2>4. NoMoreApps
    BY <2>2, <2>3, MovesNoMore
  <2> QED
    BY <2>4, NoMoreKeeps
<1> QED
  BY <1>2, <1>3, <1>4, <1>5 DEF CreateApp, CreateAppRow, CreateAppSite

LEMMA OthersNoMore ==
  ASSUME TypeOK, (\E c \in Callers : Ask(c)) \/ Reboot \/ UNCHANGED registryVars
  PROVE  NoMoreApps
<1>1. CASE \E c \in Callers : Ask(c)
  <2>1. PICK c \in Callers : Ask(c)
    BY <1>1
  <2>2. PICK u \in Users, what \in Asked, d \in Domains, e \in Domains \cup {NoDomain} :
          Request(c, u, what, d, e)
    BY <2>1 DEF Ask
  <2>3. what \notin CountedIn
    BY DEF Asked, CountedIn
  <2> QED
    BY <2>2, <2>3 DEF Request, NoMoreApps, appTable, TypeOK
<1>2. CASE Reboot
  BY <1>2 DEF Reboot, NoMoreApps, appTable, CountedIn
<1>3. CASE UNCHANGED registryVars
  BY <1>3 DEF registryVars, NoMoreApps
<1> QED
  BY <1>1, <1>2, <1>3

LEMMA PlacesStep ==
  ASSUME TypeOK, PlacesBound, [Next]_registryVars
  PROVE  PlacesBound'
<1>1. ASSUME NEW c \in Callers, CallerStep(c) PROVE PlacesBound'
  BY <1>1, SiteStepsNoMore, DeleteAppNoMore, DeployNoMore, CreateAppPlaces, NoMoreKeeps DEF CallerStep
<1>2. CASE (\E c \in Callers : Ask(c)) \/ Reboot \/ UNCHANGED registryVars
  BY <1>2, OthersNoMore, NoMoreKeeps
<1> QED
  BY <1>1, <1>2 DEF Next

LEMMA InitPlaces == Init => PlacesBound
<1> SUFFICES ASSUME Init, NEW u \in Users \ Admins
             PROVE  Bounded(u)
  BY DEF PlacesBound
<1>1. AppsOf(u) = {} /\ Places(u) = {}
  BY DEF Init, AppsOf, Places, CountedIn
<1>2. Cardinality(Callers) \in Nat
  BY AppsAndPlacesAreFinite
<1> QED
  BY <1>1, <1>2, FS_EmptySet DEF Bounded

\* A quota that is counted and not reserved is exceeded by at most the number
\* of goroutines less one: a user has never more apps than that, whatever
\* requests run at once and wherever the panel is restarted.
THEOREM QuotaExceededByCallers == Spec => []QuotaBound
<1>1. TypeOK /\ PlacesBound /\ [Next]_registryVars => PlacesBound'
  BY PlacesStep
<1>2. PlacesBound => QuotaBound
  <2> SUFFICES ASSUME PlacesBound, NEW u \in Users \ Admins
               PROVE  Cardinality(AppsOf(u)) < MaxApps + Cardinality(Callers)
    BY DEF QuotaBound
  <2>1. Bounded(u)
    BY DEF PlacesBound
  <2> QED
    BY <2>1, AppsAndPlacesAreFinite DEF Bounded
<1> QED
  BY <1>1, <1>2, InitPlaces, TypeCorrect, PTL DEF Spec

-----------------------------------------------------------------------------
(* Whole apps.  Whatever a request leaves unfinished, its handler stands at *)
(* a step that finishes it, and knows of the app's row what it needs to.    *)

Unfinished == {"app check", "app site", "app undo", "deploy port"}

Whole(d) ==
  appPort[d] # NoRow => site[d] # NoRow /\ leads[d] = appPort[d] /\ owner[d] = appOwner[d]

\* What a handler has read is still so.
Knows(c) ==
  /\ at[c] \in {"app check", "app site"} => appPort[dom[c]] = known[c] /\ appOwner[dom[c]] = by[c]
  /\ at[c] = "deploy route" => appPort[dom[c]] = known[c]
  /\ at[c] = "deploy port" =>
       /\ appPort[dom[c]] # NoRow /\ site[dom[c]] # NoRow
       /\ leads[dom[c]] = AltPort(known[c]) /\ owner[dom[c]] = appOwner[dom[c]]
  /\ at[c] = "remove app site" => appPort[dom[c]] = NoRow

WholeInv ==
  /\ \A d \in Domains \ troubled :
       Whole(d) \/ \E c \in Callers : dom[c] = d /\ at[c] \in Unfinished
  /\ \A c \in Callers : at[c] # "idle" /\ dom[c] \notin troubled => Knows(c)

\* A step leaves the rows of every other domain alone, and its own domain whole
\* or in the hands of the caller.
RowsKept(c) ==
  \A d \in Domains \ {dom[c]} :
    /\ site'[d] = site[d] /\ owner'[d] = owner[d] /\ leads'[d] = leads[d]
    /\ appPort'[d] = appPort[d] /\ appOwner'[d] = appOwner[d]

OwnBefore(c) == (Whole(dom[c]) \/ at[c] \in Unfinished) /\ Knows(c)

OwnAfter(c) ==
  /\ at'[c] \in Unfinished \/ \A d \in Domains : d = dom[c] /\ d \notin troubled' => Whole(d)'
  /\ at'[c] # "idle" => Knows(c)'

CallerMoved(c) ==
  /\ at[c] # "idle" /\ dom[c] \in Domains
  /\ \A r \in Callers \ {c} :
       at'[r] = at[r] /\ by'[r] = by[r] /\ dom'[r] = dom[r] /\ known'[r] = known[r]
  /\ at'[c] # "idle" => dom'[c] = dom[c]
  /\ troubled \subseteq troubled'

LEMMA UnfinishedIsBusy == "idle" \notin Unfinished
BY DEF Unfinished

LEMMA WholeFromOwn ==
  ASSUME RegistryInv, WholeInv, NEW c \in Callers, CallerMoved(c), RowsKept(c),
         dom[c] \notin troubled /\ OwnBefore(c) => OwnAfter(c)
  PROVE  WholeInv'
<1>1. dom[c] \in Domains /\ at[c] # "idle" /\ troubled \subseteq troubled'
  BY DEF CallerMoved
<1>2. ASSUME NEW r \in Callers, r # c, at[r] # "idle", dom[r] \in Domains, dom[r] \notin troubled
      PROVE  dom[r] # dom[c]
  BY <1>1, <1>2, SharedDomain DEF Names
<1>3. ASSUME dom[c] \notin troubled PROVE OwnBefore(c)
  <2>1. Knows(c)
    BY <1>1, <1>3 DEF WholeInv
  <2>2. Whole(dom[c]) \/ \E r \in Callers : dom[r] = dom[c] /\ at[r] \in Unfinished
    BY <1>1, <1>3 DEF WholeInv
  <2> QED
    BY <1>1, <1>2, <1>3, <2>1, <2>2, UnfinishedIsBusy DEF OwnBefore
<1>4. ASSUME NEW d \in Domains, d \notin troubled'
      PROVE  Whole(d)' \/ \E r \in Callers : dom'[r] = d /\ at'[r] \in Unfinished
  <2>1. d \notin troubled
    BY <1>1, <1>4
  <2>2. CASE d = dom[c]
    <3>1. OwnAfter(c)
      BY <1>3, <2>1, <2>2
    <3>2. CASE at'[c] \in Unfinished
      BY <2>2, <3>2, UnfinishedIsBusy DEF CallerMoved
    <3> QED
      BY <1>4, <2>2, <3>1, <3>2 DEF OwnAfter
  <2>3. CASE d # dom[c]
    <3>1. Whole(d)' <=> Whole(d)
      BY <2>3 DEF RowsKept, Whole
    <3>2. ASSUME NEW r \in Callers, dom[r] = d, at[r] \in Unfinished
          PROVE  dom'[r] = d /\ at'[r] \in Unfinished
      BY <2>3, <3>2 DEF CallerMoved
    <3> QED
      BY <2>1, <3>1, <3>2 DEF WholeInv
  <2> QED
    BY <2>2, <2>3
<1>5. ASSUME NEW r \in Callers, at'[r] # "idle", dom'[r] \notin troubled'
      PROVE  Knows(r)'
  <2>1. CASE r = c
    BY <1>1, <1>3, <1>5, <2>1 DEF OwnAfter, CallerMoved
  <2>2. CASE r # c
    <3>1. /\ at'[r] = at[r] /\ by'[r] = by[r] /\ dom'[r] = dom[r] /\ known'[r] = known[r]
          /\ dom[r] \notin troubled
      BY <1>1, <1>5, <2>2 DEF CallerMoved
    <3>2. dom[r] \in Domains
      BY <1>5, <3>1, BusyHasDomain DEF RegistryInv
    <3>3. dom[r] # dom[c]
      BY <1>2, <1>5, <2>2, <3>1, <3>2
    <3>4. Knows(r)
      BY <1>5, <3>1 DEF WholeInv
    <3>5. /\ site'[dom[r]] = site[dom[r]] /\ owner'[dom[r]] = owner[dom[r]]
          /\ leads'[dom[r]] = leads[dom[r]] /\ appPort'[dom[r]] = appPort[dom[r]]
          /\ appOwner'[dom[r]] = appOwner[dom[r]]
      BY <3>2, <3>3 DEF RowsKept
    <3> QED
      BY <3>1, <3>4, <3>5 DEF Knows
  <2> QED
    BY <2>1, <2>2
<1> QED
  BY <1>4, <1>5 DEF WholeInv

\* How a caller moves.
LEMMA GotoMoved ==
  ASSUME TypeOK, NEW c \in Callers, at[c] # "idle", NEW step \in Steps, Goto(c, step)
  PROVE  /\ CallerMoved(c) /\ troubled' = troubled
         /\ at'[c] = step /\ by'[c] = by[c] /\ dom'[c] = dom[c] /\ known'[c] = known[c]
BY DEF TypeOK, Goto, CallerMoved

LEMMA GotoWithMoved ==
  ASSUME TypeOK, NEW c \in Callers, at[c] # "idle", NEW step \in Steps, NEW value \in Nat,
         GotoWith(c, step, value)
  PROVE  /\ CallerMoved(c) /\ troubled' = troubled
         /\ at'[c] = step /\ by'[c] = by[c] /\ dom'[c] = dom[c] /\ known'[c] = value
BY DEF TypeOK, GotoWith, CallerMoved

LEMMA AnswersMoved ==
  ASSUME TypeOK, NEW c \in Callers, at[c] # "idle", Answers(c), troubled \subseteq troubled'
  PROVE  CallerMoved(c) /\ at'[c] = "idle"
BY DEF TypeOK, Answers, CallerMoved

\* A step that touches no row, and leads to no step that must know something.
LEMMA RowsStay ==
  ASSUME NEW c \in Callers, UNCHANGED <<siteTable, appTable>>
  PROVE  RowsKept(c) /\ \A d \in Domains : Whole(d)' <=> Whole(d)
BY DEF RowsKept, Whole, siteTable, appTable

Ignorant == Steps \ (Unfinished \cup {"deploy route", "remove app site"})

LEMMA IgnorantKnows ==
  ASSUME NEW c \in Callers, at'[c] \in Ignorant
  PROVE  Knows(c)'
BY DEF Ignorant, Unfinished, Knows

LEMMA QuietOwn ==
  ASSUME TypeOK, NEW c \in Callers, at[c] # "idle", UNCHANGED <<siteTable, appTable>>,
         AnswersInPeace(c) \/ \E step \in Ignorant :
           Goto(c, step) \/ \E value \in Nat : GotoWith(c, step, value),
         at[c] \notin Unfinished
  PROVE  CallerMoved(c) /\ RowsKept(c) /\ (OwnBefore(c) => OwnAfter(c))
<1>1. CallerMoved(c) /\ at'[c] \in Ignorant \cup {"idle"}
  BY GotoMoved, GotoWithMoved, AnswersMoved DEF AnswersInPeace, Ignorant
<1>2. at'[c] # "idle" => Knows(c)'
  BY <1>1, IgnorantKnows
<1>3. OwnBefore(c) => \A d \in Domains : d = dom[c] => Whole(d)'
  BY RowsStay DEF OwnBefore
<1> QED
  BY <1>1, <1>2, <1>3, RowsStay DEF OwnAfter

LEMMA CreateSiteOwn ==
  ASSUME TypeOK, NEW c \in Callers, CreateSite(c)
  PROVE  CallerMoved(c) /\ RowsKept(c) /\ (OwnBefore(c) => OwnAfter(c))
<1>1. at[c] # "idle" /\ dom[c] \in Domains /\ at[c] \notin Unfinished
  BY BusyHasDomain DEF CreateSite, Unfinished
<1>2. CASE at[c] = "site insert" /\ site[dom[c]] = NoRow
  <2>1. InsertSite(dom[c], by[c], NoRow) /\ AnswersInPeace(c) /\ UNCHANGED appTable
    BY <1>2 DEF CreateSite
  <2>2. CallerMoved(c) /\ at'[c] = "idle"
    BY <1>1, <2>1, AnswersMoved DEF AnswersInPeace
  <2>3. RowsKept(c)
    BY <1>1, <2>1 DEF InsertSite, RowsKept, appTable, TypeOK
  <2>4. OwnBefore(c) => appPort[dom[c]] = NoRow
    BY <1>1, <1>2 DEF OwnBefore, Whole
  <2>5. OwnBefore(c) => \A d \in Domains : d = dom[c] => Whole(d)'
    BY <2>1, <2>4 DEF Whole, appTable
  <2> QED
    BY <2>2, <2>3, <2>5 DEF OwnAfter
<1>3. CASE at[c] # "site insert" \/ site[dom[c]] # NoRow
  <2>1. UNCHANGED <<siteTable, appTable>>
    BY <1>3 DEF CreateSite
  <2>2. "site check" \in Ignorant /\ "site insert" \in Ignorant
    BY DEF Ignorant, Steps, Creating, Unfinished
  <2>3. AnswersInPeace(c) \/ Goto(c, "site check") \/ Goto(c, "site insert")
    BY DEF CreateSite
  <2> QED
    BY <1>1, <2>1, <2>2, <2>3, QuietOwn
<1> QED
  BY <1>2, <1>3

LEMMA DeleteSiteRowRows ==
  ASSUME TypeOK, NEW c \in Callers, dom[c] \in Domains, DeleteSiteRow(dom[c]), UNCHANGED appTable
  PROVE  RowsKept(c) /\ (appPort[dom[c]] = NoRow => \A d \in Domains : d = dom[c] => Whole(d)')
<1>1. /\ site' = [site EXCEPT ![dom[c]] = NoRow] /\ owner' = [owner EXCEPT ![dom[c]] = NoUser]
      /\ leads' = [leads EXCEPT ![dom[c]] = NoRow]
  BY DEF DeleteSiteRow
<1>2. RowsKept(c)
  BY <1>1 DEF RowsKept, appTable, TypeOK
<1>3. appPort[dom[c]] = NoRow => \A d \in Domains : d = dom[c] => Whole(d)'
  BY DEF Whole, appTable
<1> QED
  BY <1>2, <1>3

\* Deleting the site of an app is trouble.
LEMMA DeleteSiteOwn ==
  ASSUME TypeOK, NEW c \in Callers, DeleteSite(c)
  PROVE  CallerMoved(c) /\ RowsKept(c) /\ (OwnBefore(c) => OwnAfter(c))
<1>1. at[c] # "idle" /\ dom[c] \in Domains /\ at[c] \notin Unfinished
  BY BusyHasDomain DEF DeleteSite, Unfinished
<1>2. CASE at[c] = "remove site"
  <2>1. UNCHANGED <<siteTable, appTable>> /\ (Goto(c, "remove site row") \/ AnswersInPeace(c))
    BY <1>2 DEF DeleteSite
  <2>2. "remove site row" \in Ignorant
    BY DEF Ignorant, Steps, Removing, Unfinished
  <2> QED
    BY <1>1, <2>1, <2>2, QuietOwn
<1>3. CASE at[c] = "remove site row"
  <2>1. /\ DeleteSiteRow(dom[c]) /\ Answers(c) /\ UNCHANGED appTable
        /\ troubled' = IF appPort[dom[c]] # NoRow THEN troubled \cup {dom[c]} ELSE troubled
    BY <1>3 DEF DeleteSite
  <2>2. CallerMoved(c) /\ at'[c] = "idle"
    BY <1>1, <2>1, AnswersMoved
  <2>3. RowsKept(c) /\ (appPort[dom[c]] = NoRow => \A d \in Domains : d = dom[c] => Whole(d)')
    BY <1>1, <2>1, DeleteSiteRowRows
  <2>4. appPort[dom[c]] # NoRow => dom[c] \in troubled'
    BY <2>1
  <2> QED
    BY <2>2, <2>3, <2>4 DEF OwnAfter
<1> QED
  BY <1>2, <1>3 DEF DeleteSite

LEMMA AliasesOwn ==
  ASSUME TypeOK, NEW c \in Callers, AddSiteDomain(c) \/ DeleteSiteDomain(c)
  PROVE  CallerMoved(c) /\ RowsKept(c) /\ (OwnBefore(c) => OwnAfter(c))
<1>1. at[c] # "idle" /\ at[c] \notin Unfinished /\ UNCHANGED <<siteTable, appTable>>
  BY DEF AddSiteDomain, DeleteSiteDomain, ReadSite, Unfinished
<1>2. site[dom[c]] \in Nat
  BY <1>1, BusyHasDomain DEF TypeOK
<1>3. \A step \in {"alias check", "alias insert", "unalias row"} : step \in Ignorant
  BY DEF Ignorant, Steps, Aliasing, Unfinished
<1>4. AnswersInPeace(c) \/ \E step \in Ignorant :
        Goto(c, step) \/ \E value \in Nat : GotoWith(c, step, value)
  BY <1>2, <1>3 DEF AddSiteDomain, DeleteSiteDomain, ReadSite
<1> QED
  BY <1>1, <1>4, QuietOwn

LEMMA CreateAppOwn ==
  ASSUME TypeOK, NEW c \in Callers, CreateApp(c)
  PROVE  CallerMoved(c) /\ RowsKept(c) /\ (OwnBefore(c) => OwnAfter(c))
<1>1. at[c] # "idle" /\ dom[c] \in Domains
  BY BusyHasDomain DEF CreateApp, CreateAppRow, CreateAppSite
<1>2. \A step \in {"app port", "app insert"} : step \in Ignorant
  BY DEF Ignorant, Steps, Creating, Unfinished
<1>3. \A step \in {"app check", "app site", "app undo"} : step \in Steps /\ step \in Unfinished
  BY DEF Steps, Creating, Unfinished
<1>4. CASE at[c] = "app quota"
  <2>1. UNCHANGED <<siteTable, appTable>> /\ (Goto(c, "app port") \/ AnswersInPeace(c))
    BY <1>4 DEF CreateApp, CreateAppRow, CreateAppSite
  <2>2. at[c] \notin Unfinished
    BY <1>4 DEF Unfinished
  <2> QED
    BY <1>1, <1>2, <2>1, <2>2, QuietOwn
<1>5. CASE at[c] = "app port"
  <2>1. PICK p \in MaxPort : GotoWith(c, "app insert", p + 1)
    BY <1>5 DEF CreateApp, CreateAppRow, CreateAppSite
  <2>2. p + 1 \in Nat
    BY NextPortTypes, TypesSplit
  <2>3. UNCHANGED <<siteTable, appTable>>
    BY <1>5 DEF CreateApp, CreateAppRow, CreateAppSite
  <2>4. at[c] \notin Unfinished
    BY <1>5 DEF Unfinished
  <2> QED
    BY <1>1, <1>2, <2>1, <2>2, <2>3, <2>4, QuietOwn
<1>6. CASE at[c] = "app insert" /\ appPort[dom[c]] # NoRow
  <2>1. UNCHANGED <<siteTable, appTable>> /\ AnswersInPeace(c)
    BY <1>6 DEF CreateApp, CreateAppRow, CreateAppSite
  <2>2. at[c] \notin Unfinished
    BY <1>6 DEF Unfinished
  <2> QED
    BY <1>1, <2>1, <2>2, QuietOwn
<1>7. CASE at[c] = "app insert" /\ appPort[dom[c]] = NoRow
  <2>1. /\ appPort' = [appPort EXCEPT ![dom[c]] = known[c]]
        /\ appOwner' = [appOwner EXCEPT ![dom[c]] = by[c]]
        /\ Goto(c, "app check") /\ UNCHANGED siteTable
    BY <1>7 DEF CreateApp, CreateAppRow, CreateAppSite
  <2>2. CallerMoved(c) /\ at'[c] = "app check" /\ dom'[c] = dom[c] /\ known'[c] = known[c] /\ by'[c] = by[c]
    BY <1>1, <1>3, <2>1, GotoMoved
  <2>3. appPort'[dom[c]] = known[c] /\ appOwner'[dom[c]] = by[c] /\ RowsKept(c)
    BY <1>1, <2>1 DEF RowsKept, siteTable, TypeOK
  <2>4. Knows(c)'
    BY <2>2, <2>3 DEF Knows
  <2> QED
    BY <1>3, <2>2, <2>3, <2>4 DEF OwnAfter
<1>8. CASE at[c] = "app check" \/ (at[c] = "app site" /\ site[dom[c]] # NoRow)
  <2>1. PICK step \in {"app site", "app undo"} :
          Goto(c, step) /\ (step = "app site" => at[c] = "app check")
    BY <1>8 DEF CreateApp, CreateAppRow, CreateAppSite
  <2>2. UNCHANGED <<siteTable, appTable>>
    BY <1>8 DEF CreateApp, CreateAppRow, CreateAppSite
  <2>3. CallerMoved(c) /\ at'[c] = step /\ dom'[c] = dom[c] /\ known'[c] = known[c] /\ by'[c] = by[c]
    BY <1>1, <1>3, <2>1, GotoMoved
  <2>4. Knows(c) => Knows(c)'
    BY <2>1, <2>2, <2>3 DEF Knows, appTable
  <2> QED
    BY <1>3, <2>2, <2>3, <2>4, RowsStay DEF OwnAfter, OwnBefore
<1>9. CASE at[c] = "app site" /\ site[dom[c]] = NoRow
  <2>1. InsertSite(dom[c], by[c], known[c]) /\ AnswersInPeace(c) /\ UNCHANGED appTable
    BY <1>9 DEF CreateApp, CreateAppRow, CreateAppSite
  <2>2. CallerMoved(c) /\ at'[c] = "idle"
    BY <1>1, <2>1, AnswersMoved DEF AnswersInPeace
  <2>3. site'[dom[c]] = lastId + 1 /\ owner'[dom[c]] = by[c] /\ leads'[dom[c]] = known[c] /\ RowsKept(c)
    BY <1>1, <2>1 DEF InsertSite, RowsKept, appTable, TypeOK
  <2>4. lastId + 1 # NoRow
    BY DEF TypeOK, NoRow
  <2>5. Knows(c) => appPort'[dom[c]] = known[c] /\ appOwner'[dom[c]] = by[c]
    BY <1>9, <2>1 DEF Knows, appTable
  <2>6. OwnBefore(c) => \A d \in Domains : d = dom[c] => Whole(d)'
    BY <2>3, <2>4, <2>5 DEF Whole, OwnBefore
  <2> QED
    BY <2>2, <2>3, <2>6 DEF OwnAfter
<1>10. CASE at[c] = "app undo"
  <2>1. DeleteAppRow(dom[c]) /\ AnswersInPeace(c) /\ UNCHANGED siteTable
    BY <1>10 DEF CreateApp, CreateAppRow, CreateAppSite
  <2>2. CallerMoved(c) /\ at'[c] = "idle"
    BY <1>1, <2>1, AnswersMoved DEF AnswersInPeace
  <2>3. appPort'[dom[c]] = NoRow /\ RowsKept(c)
    BY <1>1, <2>1 DEF DeleteAppRow, RowsKept, siteTable, TypeOK
  <2>4. \A d \in Domains : d = dom[c] => Whole(d)'
    BY <2>3 DEF Whole
  <2> QED
    BY <2>2, <2>3, <2>4 DEF OwnAfter
<1> QED
  BY <1>4, <1>5, <1>6, <1>7, <1>8, <1>9, <1>10 DEF CreateApp, CreateAppRow, CreateAppSite

LEMMA DeleteAppOwn ==
  ASSUME TypeOK, NEW c \in Callers, DeleteApp(c)
  PROVE  CallerMoved(c) /\ RowsKept(c) /\ (OwnBefore(c) => OwnAfter(c))
<1>1. at[c] # "idle" /\ dom[c] \in Domains /\ at[c] \notin Unfinished
  BY BusyHasDomain DEF DeleteApp, Unfinished
<1>2. CASE at[c] = "remove app"
  <2>1. UNCHANGED <<siteTable, appTable>>
    BY <1>2 DEF DeleteApp, ReadApp
  <2>2. "remove app row" \in Ignorant /\ appPort[dom[c]] \in Nat
    <3>1. "remove app row" \in Ignorant
      BY DEF Ignorant, Steps, Removing, Unfinished
    <3>2. appPort[dom[c]] \in Ports \cup {NoRow}
      BY <1>1 DEF TypeOK
    <3> QED
      BY <3>1, <3>2, PortsAreNat
  <2>3. GotoWith(c, "remove app row", appPort[dom[c]]) \/ AnswersInPeace(c)
    BY <1>2 DEF DeleteApp, ReadApp
  <2> QED
    BY <1>1, <2>1, <2>2, <2>3, QuietOwn
<1>3. CASE at[c] = "remove app row"
  <2>1. Goto(c, "remove app site") /\ DeleteAppRow(dom[c]) /\ UNCHANGED siteTable
    BY <1>3 DEF DeleteApp
  <2>2. "remove app site" \in Steps
    BY DEF Steps, Removing
  <2>3. CallerMoved(c) /\ at'[c] = "remove app site" /\ dom'[c] = dom[c]
    BY <1>1, <2>1, <2>2, GotoMoved
  <2>4. appPort'[dom[c]] = NoRow /\ RowsKept(c)
    BY <1>1, <2>1 DEF DeleteAppRow, RowsKept, siteTable, TypeOK
  <2>5. Knows(c)' /\ \A d \in Domains : d = dom[c] => Whole(d)'
    BY <2>3, <2>4 DEF Knows, Whole
  <2> QED
    BY <2>3, <2>4, <2>5 DEF OwnAfter
<1>4. CASE at[c] = "remove app site"
  <2>1. DeleteSiteRow(dom[c]) /\ AnswersInPeace(c) /\ UNCHANGED appTable
    BY <1>4 DEF DeleteApp
  <2>2. CallerMoved(c) /\ at'[c] = "idle"
    BY <1>1, <2>1, AnswersMoved DEF AnswersInPeace
  <2>3. RowsKept(c) /\ (appPort[dom[c]] = NoRow => \A d \in Domains : d = dom[c] => Whole(d)')
    BY <1>1, <2>1, DeleteSiteRowRows
  <2>4. OwnBefore(c) => appPort[dom[c]] = NoRow
    BY <1>4 DEF OwnBefore, Knows
  <2> QED
    BY <2>2, <2>3, <2>4 DEF OwnAfter
<1> QED
  BY <1>2, <1>3, <1>4 DEF DeleteApp

LEMMA DeployOwn ==
  ASSUME TypeOK, NEW c \in Callers, Deploy(c)
  PROVE  CallerMoved(c) /\ RowsKept(c) /\ (OwnBefore(c) => OwnAfter(c))
<1>1. at[c] # "idle" /\ dom[c] \in Domains
  BY BusyHasDomain DEF Deploy
<1>2. \A step \in {"deploy route", "deploy port"} : step \in Steps
  BY DEF Steps, Deploying
<1>3. appPort[dom[c]] \in Ports \cup {NoRow}
  BY <1>1 DEF TypeOK
<1>4. CASE at[c] = "deploy"
  <2>1. UNCHANGED <<siteTable, appTable>>
    BY <1>4 DEF Deploy, ReadApp
  <2>2. OwnBefore(c) => \A d \in Domains : d = dom[c] => Whole(d)'
    BY <1>4, <2>1, RowsStay DEF OwnBefore, Unfinished
  <2>3. CASE AnswersInPeace(c)
    BY <1>1, <2>1, <2>2, <2>3, AnswersMoved, RowsStay DEF AnswersInPeace, OwnAfter
  <2>4. CASE GotoWith(c, "deploy route", appPort[dom[c]])
    <3>1. CallerMoved(c) /\ at'[c] = "deploy route" /\ dom'[c] = dom[c] /\ known'[c] = appPort[dom[c]]
      <4>1. appPort[dom[c]] \in Nat /\ "deploy route" \in Steps
        BY <1>2, <1>3, PortsAreNat
      <4>2. PICK value \in Nat : value = appPort[dom[c]]
        BY <4>1
      <4>3. PICK step \in Steps : step = "deploy route"
        BY <4>1
      <4>4. GotoWith(c, step, value)
        BY <2>4, <4>2, <4>3
      <4>5. CallerMoved(c) /\ at'[c] = step /\ dom'[c] = dom[c] /\ known'[c] = value
        BY <1>1, <4>4, GotoWithMoved
      <4> QED
        BY <4>2, <4>3, <4>5
    <3>2. Knows(c)'
      BY <2>1, <3>1 DEF Knows, appTable
    <3> QED
      BY <2>1, <2>2, <3>1, <3>2, RowsStay DEF OwnAfter
  <2> QED
    BY <1>4, <2>3, <2>4 DEF Deploy, ReadApp
<1>5. CASE at[c] = "deploy route" /\ AnswersInPeace(c)
  <2>1. UNCHANGED <<siteTable, appTable>>
    BY <1>1, <1>5, AnswersMoved, GotoMoved, <1>2 DEF Deploy, AnswersInPeace
  <2>2. at[c] \notin Unfinished
    BY <1>5 DEF Unfinished
  <2> QED
    BY <1>1, <1>5, <2>1, <2>2, QuietOwn
<1>6. CASE at[c] = "deploy route" /\ Goto(c, "deploy port")
  <2>1. CallerMoved(c) /\ at'[c] = "deploy port" /\ dom'[c] = dom[c] /\ known'[c] = known[c]
    BY <1>1, <1>2, <1>6, GotoMoved
  <2>2. /\ leads' = [leads EXCEPT ![dom[c]] =
                       IF site[dom[c]] = NoRow THEN NoRow ELSE AltPort(known[c])]
        /\ UNCHANGED <<site, owner, appTable>>
    BY <1>6, <2>1, AnswersMoved DEF Deploy, AnswersInPeace
  <2>3. RowsKept(c)
    BY <1>1, <2>2 DEF RowsKept, appTable, TypeOK
  <2>4. OwnBefore(c) => appPort[dom[c]] = known[c] /\ known[c] # NoRow /\ Whole(dom[c])
    BY <1>6, PortsAreNat DEF OwnBefore, Knows, Unfinished, TypeOK, HasPort
  <2>5. OwnBefore(c) => site[dom[c]] # NoRow /\ owner[dom[c]] = appOwner[dom[c]]
    BY <2>4 DEF Whole
  <2>6. OwnBefore(c) => leads'[dom[c]] = AltPort(known[c])
    BY <1>1, <2>2, <2>5 DEF TypeOK
  <2>7. OwnBefore(c) => Knows(c)'
    BY <2>1, <2>2, <2>4, <2>5, <2>6 DEF Knows, appTable
  <2>8. "deploy port" \in Unfinished
    BY DEF Unfinished
  <2> QED
    BY <2>1, <2>3, <2>7, <2>8 DEF OwnAfter
<1>7. CASE at[c] = "deploy port"
  <2>1. /\ AnswersInPeace(c) /\ UNCHANGED <<siteTable, appOwner>>
        /\ appPort' = [appPort EXCEPT ![dom[c]] =
                         IF appPort[dom[c]] = NoRow THEN NoRow ELSE AltPort(known[c])]
    BY <1>7 DEF Deploy
  <2>2. CallerMoved(c) /\ at'[c] = "idle"
    BY <1>1, <2>1, AnswersMoved DEF AnswersInPeace
  <2>3. RowsKept(c)
    BY <1>1, <2>1 DEF RowsKept, siteTable, TypeOK
  <2>4. OwnBefore(c) => appPort'[dom[c]] = AltPort(known[c])
    BY <1>1, <1>7, <2>1 DEF OwnBefore, Knows, TypeOK
  <2>5. OwnBefore(c) => \A d \in Domains : d = dom[c] => Whole(d)'
    BY <1>7, <2>1, <2>4 DEF OwnBefore, Knows, Whole, siteTable
  <2> QED
    BY <2>2, <2>3, <2>5 DEF OwnAfter
<1> QED
  BY <1>4, <1>5, <1>6, <1>7 DEF Deploy

LEMMA WholeStep ==
  ASSUME RegistryInv, WholeInv, [Next]_registryVars
  PROVE  WholeInv'
<1>1. TypeOK
  BY DEF RegistryInv
<1>2. ASSUME NEW c \in Callers, CallerStep(c) PROVE WholeInv'
  <2>1. CallerMoved(c) /\ RowsKept(c) /\ (OwnBefore(c) => OwnAfter(c))
    BY <1>1, <1>2, CreateSiteOwn, DeleteSiteOwn, AliasesOwn, CreateAppOwn, DeleteAppOwn, DeployOwn
       DEF CallerStep
  <2> QED
    BY <2>1, WholeFromOwn
<1>3. ASSUME NEW c \in Callers, Ask(c) PROVE WholeInv'
  <2>1. PICK u \in Users, what \in Asked, d \in Domains, e \in Domains \cup {NoDomain} :
          Request(c, u, what, d, e)
    BY <1>3 DEF Ask
  <2>2. /\ at[c] = "idle" /\ at'[c] = what /\ troubled \subseteq troubled'
        /\ \A r \in Callers \ {c} : at'[r] = at[r] /\ by'[r] = by[r] /\ dom'[r] = dom[r]
        /\ known' = known /\ UNCHANGED <<siteTable, appTable>>
    BY <1>1, <2>1 DEF Request, TypeOK
  <2>3. what \in Ignorant
    BY DEF Asked, Ignorant, Steps, Creating, Removing, Aliasing, Deploying, Unfinished
  <2>4. Knows(c)'
    BY <2>2, <2>3, IgnorantKnows
  <2>5. \A r \in Callers \ {c} : Knows(r) => Knows(r)'
    BY <2>2 DEF Knows, siteTable, appTable
  <2>6. \A x \in Domains : Whole(x)' <=> Whole(x)
    BY <2>2 DEF Whole, siteTable, appTable
  <2> QED
    BY <2>2, <2>4, <2>5, <2>6, UnfinishedIsBusy DEF WholeInv
<1>4. ASSUME Reboot PROVE WholeInv'
  <2>1. /\ UNCHANGED <<siteTable, appTable>> /\ \A c \in Callers : at'[c] = "idle"
        /\ troubled' = troubled \cup UNION {Names(c) : c \in Callers}
    BY <1>4 DEF Reboot
  <2>2. ASSUME NEW d \in Domains, d \notin troubled' PROVE Whole(d)'
    <3>1. \A c \in Callers : dom[c] # d
      BY <2>1, <2>2 DEF Names
    <3>2. Whole(d)
      BY <2>1, <2>2, <3>1 DEF WholeInv
    <3> QED
      BY <2>1, <3>2 DEF Whole, siteTable, appTable
  <2> QED
    BY <2>1, <2>2 DEF WholeInv
<1>5. ASSUME UNCHANGED registryVars PROVE WholeInv'
  <2>1. \A d \in Domains : Whole(d)' <=> Whole(d)
    BY <1>5 DEF registryVars, Whole
  <2>2. \A c \in Callers : Knows(c)' <=> Knows(c)
    BY <1>5 DEF registryVars, Knows
  <2> QED
    BY <1>5, <2>1, <2>2 DEF registryVars, WholeInv
<1> QED
  BY <1>2, <1>3, <1>4, <1>5 DEF Next

LEMMA InitWhole == Init => WholeInv
BY DEF Init, WholeInv, Whole, Knows

\* An app nobody is working on is whole: it has a site of its owner that leads
\* to its port, whatever its creation, its deployments and the requests for
\* other domains met with; the panel may be restarted in between.
THEOREM AppsStayWhole == Spec => []WholeApps
<1>1. RegistryInv /\ WholeInv /\ [Next]_registryVars => WholeInv'
  BY WholeStep
<1>2. RegistryInv /\ WholeInv => WholeApps
  <2> SUFFICES ASSUME RegistryInv, WholeInv, NEW d \in Domains \ troubled, Idle(d), appPort[d] # NoRow
               PROVE  site[d] # NoRow /\ leads[d] = appPort[d] /\ owner[d] = appOwner[d]
    BY DEF WholeApps
  <2>1. ASSUME NEW c \in Callers, dom[c] = d, at[c] \in Unfinished PROVE FALSE
    BY <2>1, UnfinishedIsBusy DEF Idle, Names
  <2> QED
    BY <2>1 DEF WholeInv, Whole
<1> QED
  BY <1>1, <1>2, InitWhole, InvHolds, PTL DEF Spec

==============================================================================
