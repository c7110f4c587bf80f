---------------------------- MODULE DataPlaneProofs ----------------------------
(***************************************************************************)
(* Theorems about the data plane: how a site answers, for every set of     *)
(* callers, configs, paths and visitors, and hot reload, for every set of  *)
(* handlers and solvers and every number of changes and restarts.          *)
(*                                                                         *)
(* The first half is about Serving.  StoredInv says who owes a signal; the *)
(* other invariants, what goroutines may hold of a table that has been     *)
(* replaced, and what its caches may hold.                                 *)
(*                                                                         *)
(* The second half is about DataPlane.  AppsResolve speaks of the served   *)
(* table; it is kept because of what is true of a build under way.         *)
(* BuildInv says, query by query, how the versions read so far compare     *)
(* with the store and with the served table.                               *)
(***************************************************************************)
EXTENDS DataPlane, Serving, FiniteSetTheorems, TLAPS

-----------------------------------------------------------------------------
(* How a site answers: what is invariant.                                  *)

\* Whoever changed the row, or the port, and has not said so yet.
Owing(c) == doing[c] = "tell" \/ (doing[c] = "set type" /\ job[c].status # "")

StoredInv ==
  /\ \A c \in Callers : doing[c] = "set status" => job[c].status # ""
  /\ ~told /\ ~halfway /\ (\A c \in Callers : ~Owing(c)) =>
       /\ read = <<>> => routing.of = site
       /\ read # <<>> => read = <<row>>

\* Tables have a number each, and the one that is served has the last.
TableInv ==
  /\ now \in Nat /\ routing.gen \in Nat /\ routing.since \in Nat /\ routing.since <= now
  /\ \A c \in Callers : Visited(c) =>
       /\ job[c].table.gen \in Nat /\ job[c].table.gen <= routing.gen
       /\ job[c].table.gen = routing.gen => job[c].table = routing
       /\ job[c].table.since \in Nat /\ job[c].table.since <= now
  /\ \A c, d \in Callers :
       Visited(c) /\ Visited(d) /\ job[c].table.gen = job[d].table.gen =>
         job[c].table = job[d].table

\* An answer for everybody, made by a route of a table while that was in use.
Made(t, route, a) ==
  /\ a.own = FALSE /\ a.made \in Nat /\ a.made >= t.since
  /\ a.of = [to |-> t.routes[route].to, port |-> t.of[2]]

Everybodys(q) == q.get = TRUE /\ q.personal = FALSE

JobFits(c) ==
  /\ doing[c] \in {"look", "fetch"} => job[c].q.path \in Paths
  /\ doing[c] = "look" => Everybodys(job[c].q)
  /\ doing[c] = "fetch" => (job[c].keep = FALSE \/ Everybodys(job[c].q))
  /\ doing[c] \in {"store", "answered"} =>
       Everybodys(job[c].q) /\ Made(job[c].table, job[c].route, job[c].answer)
  /\ doing[c] = "answered" => job[c].looked \in Nat /\ job[c].looked <= now

JobInv == \A c \in Callers : JobFits(c)

Bucket(g, r) == {e \in entries : e.gen = g /\ e.route = r}

EntryInv ==
  /\ IsFiniteSet(entries)
  /\ \A e \in entries : e.gen \in Nat /\ e.gen <= routing.gen /\ e.expires \in Nat
  /\ \A e \in entries : e.gen = routing.gen => Made(routing, e.route, e.answer)
  /\ \A e \in entries, c \in Callers : Visited(c) /\ e.gen = job[c].table.gen =>
       Made(job[c].table, e.route, e.answer)
  /\ \A e, f \in entries :
       e.gen = f.gen /\ e.route = f.route /\ e.variant = f.variant /\ e.path = f.path => e = f
  /\ \A e \in entries : Cardinality(Bucket(e.gen, e.route)) <= MaxEntries

\* What was found was not over.
FoundInv ==
  \A c \in Callers, e \in entries :
    doing[c] = "answered" /\ SameKey(e, job[c]) /\ e.answer = job[c].answer =>
      job[c].looked <= e.expires

VisitInv == TableInv /\ JobInv /\ EntryInv /\ FoundInv


-----------------------------------------------------------------------------
(* Static files.                                                           *)

LEMMA IndexOf ==
  ASSUME NEW S, NEW n \in Seq(S), Index \in S
  PROVE  /\ IsStrictPrefix(n, Append(n, Index))
         /\ Append(n, Index) # <<>> /\ Last(Append(n, Index)) = Index
<1>1. /\ Len(Append(n, Index)) = Len(n) + 1 /\ Append(n, Index) \in Seq(S)
      /\ \A i \in 1 .. Len(n) : Append(n, Index)[i] = n[i]
      /\ Append(n, Index)[Len(n) + 1] = Index
  OBVIOUS
<1>2. SubSeq(n, 1, Len(n)) = SubSeq(Append(n, Index), 1, Len(n))
  BY <1>1
<1>3. IsPrefix(n, Append(n, Index)) /\ n # Append(n, Index)
  BY <1>1, <1>2 DEF IsPrefix
<1> QED
  BY <1>1, <1>3 DEF IsStrictPrefix, Last

\* A path is answered with its file or its index, else with the page of an application
\* where it names nothing, else with what there is for what is missing.
LEMMA AnswersForAll ==
  ASSUME NEW path \in Paths
  PROVE  AnswersFor(path)
<1> SUFFICES ASSUME NEW tree \in SUBSET Files, NEW spa \in BOOLEAN
    PROVE  LET wanted == IF path = <<>> THEN <<Index>> ELSE path
               named == {wanted, Append(wanted, Index)} \cap tree
               answer == ServeFile(tree, spa, path)
               page == spa /\ <<Index>> \in tree /\ Last(wanted) \in Bare
                         /\ ~\E f \in tree : wanted # f /\ IsPrefix(wanted, f)
           IN /\ named # {} => answer[1] = 200 /\ answer[2] \in named
              /\ named = {} /\ page => answer = <<200, <<Index>>>>
              /\ named = {} /\ ~page => answer[1] = 404 /\ answer[2] \in {<<>>, <<"404.html">>}
  BY DEF AnswersFor
<1> DEFINE S == STRING \cup {Index}
<1>0. path \in Seq(S) /\ Index \notin Bare /\ Index \in S
  BY ServingAssumption
<1>1. PICK n : n = IF path = <<>> THEN <<Index>> ELSE path
  OBVIOUS
<1>2. n \in Seq(S) /\ n # <<>>
  <2>1. <<Index>> \in Seq(S) /\ <<Index>> # <<>>
    BY <1>0
  <2> QED
    BY <1>0, <1>1, <2>1
<1>3. PICK x : x = Append(n, Index)
  OBVIOUS
<1>4. IsStrictPrefix(n, x) /\ x # <<>> /\ Last(x) = Index
  BY <1>2, <1>3, IndexOf
<1>5. PICK answer : answer = ServeFile(tree, spa, path)
  OBVIOUS
<1>6. answer = IF n \in tree THEN <<200, n>>
               ELSE IF ~IsDir(tree, n) THEN NotFound(tree, spa, n)
               ELSE IF x \in tree THEN <<200, x>>
               ELSE NotFound(tree, spa, x)
  BY <1>1, <1>3, <1>5 DEF ServeFile, IsFile
<1>7. IsDir(tree, n) <=> \E f \in tree : n # f /\ IsPrefix(n, f)
  BY DEF IsDir, IsStrictPrefix
<1>8. x \in tree => IsDir(tree, n)
  BY <1>4 DEF IsDir
<1>9. ASSUME NEW m, ~(spa /\ BareName(m) /\ <<Index>> \in tree),
             answer = NotFound(tree, spa, m)
      PROVE  answer[1] = 404 /\ answer[2] \in {<<>>, <<"404.html">>}
  <2>1. answer = <<404, <<"404.html">>>> \/ answer = <<404, <<>>>>
    BY <1>9 DEF NotFound, IsFile
  <2> QED
    BY <2>1
<1>10. ASSUME NEW m, spa /\ BareName(m) /\ <<Index>> \in tree, answer = NotFound(tree, spa, m)
       PROVE  answer = <<200, <<Index>>>>
  BY <1>10 DEF NotFound, IsFile
<1>11. ~BareName(x)
  BY <1>0, <1>4 DEF BareName
<1> DEFINE named == {n, x} \cap tree
           page == spa /\ <<Index>> \in tree /\ Last(n) \in Bare
                     /\ ~\E f \in tree : n # f /\ IsPrefix(n, f)
<1>12. ASSUME named # {} PROVE answer[1] = 200 /\ answer[2] \in named
  <2>1. (answer = <<200, n>> /\ n \in tree) \/ (answer = <<200, x>> /\ x \in tree)
    BY <1>6, <1>8, <1>12, Zenon
  <2> QED
    BY <2>1
<1>13. ASSUME named = {}, page PROVE answer = <<200, <<Index>>>>
  <2>1. answer = NotFound(tree, spa, n) /\ BareName(n)
    BY <1>2, <1>6, <1>7, <1>13 DEF BareName
  <2> QED
    BY <1>10, <1>13, <2>1
<1>14. ASSUME named = {}, ~page
       PROVE  answer[1] = 404 /\ answer[2] \in {<<>>, <<"404.html">>}
  <2>1. CASE IsDir(tree, n)
    <3>1. answer = NotFound(tree, spa, x)
      BY <1>6, <1>14, <2>1
    <3> QED
      BY <1>9, <1>11, <3>1
  <2>2. CASE ~IsDir(tree, n)
    <3>1. answer = NotFound(tree, spa, n)
      BY <1>6, <1>14, <2>2
    <3>2. ~(spa /\ BareName(n) /\ <<Index>> \in tree)
      BY <1>7, <1>14, <2>2 DEF BareName
    <3> QED
      BY <1>9, <3>1, <3>2
  <2> QED
    BY <2>1, <2>2
<1> QED
  BY <1>1, <1>3, <1>5, <1>12, <1>13, <1>14

-----------------------------------------------------------------------------
(* How goroutines move.                                                    *)

Placed == DOMAIN doing = Callers /\ DOMAIN job = Callers

Others(c) == \A o \in Callers : o # c => doing'[o] = doing[o] /\ job'[o] = job[o]

LEMMA Puts ==
  ASSUME Placed, NEW c \in Callers, NEW s, NEW j,
         doing' = [doing EXCEPT ![c] = s], job' = [job EXCEPT ![c] = j]
  PROVE  Placed' /\ doing'[c] = s /\ job'[c] = j /\ Others(c)
  BY DEF Placed, Others

LEMMA Gotos ==
  ASSUME Placed, NEW c \in Callers, NEW s, Goto(c, s)
  PROVE  Placed' /\ doing'[c] = s /\ (s # "idle" => job'[c] = job[c]) /\ Others(c)
  BY DEF Placed, Others, Goto

\* The steps of the panel.
PanelStep(c) ==
  \/ AskPut(c) \/ SetSiteConfig(c)
  \/ AskPatch(c) \/ SetSiteStatus(c) \/ SetSiteType(c)
  \/ AskApp(c) \/ SetAppPort(c) \/ Tell(c)

LEMMA PanelMoves ==
  ASSUME Placed, NEW c \in Callers, PanelStep(c)
  PROVE  /\ Placed' /\ Others(c) /\ ~Visited(c)'
         /\ UNCHANGED <<routing, entries, now, read>>
<1>1. ASSUME NEW s, NEW j, Change(c, s, j),
             s \in {"set config", "set status", "set type", "set port"}
      PROVE  /\ Placed' /\ Others(c) /\ ~Visited(c)'
             /\ UNCHANGED <<routing, entries, now, read>>
  <2>1. Placed' /\ doing'[c] = s /\ Others(c)
    BY <1>1, Puts DEF Change
  <2> QED
    BY <1>1, <2>1 DEF Change, Visited
<1>2. ASSUME NEW s \in {"idle", "tell", "set type"}, Goto(c, s),
             UNCHANGED <<routing, entries, now, read>>
      PROVE  /\ Placed' /\ Others(c) /\ ~Visited(c)'
             /\ UNCHANGED <<routing, entries, now, read>>
  <2>1. Placed' /\ doing'[c] = s /\ Others(c)
    BY <1>2, Gotos
  <2> QED
    BY <1>2, <2>1 DEF Visited
<1>3. CASE AskPut(c) \/ AskPatch(c) \/ AskApp(c)
  <2>1. \E s \in {"set config", "set status", "set type", "set port"} : \E j : Change(c, s, j)
    BY <1>3 DEF AskPut, AskPatch, AskApp
  <2> QED
    BY <1>1, <2>1
<1>4. CASE SetSiteConfig(c) \/ SetSiteStatus(c) \/ SetSiteType(c) \/ SetAppPort(c) \/ Tell(c)
  <2>1. /\ \E s \in {"idle", "tell", "set type"} : Goto(c, s)
        /\ UNCHANGED <<routing, entries, now, read>>
    BY <1>4 DEF SetSiteConfig, SetSiteStatus, SetSiteType, SetAppPort, Tell
  <2> QED
    BY <1>2, <2>1
<1> QED
  BY <1>3, <1>4 DEF PanelStep

\* The steps of a request, by what becomes of it.
RequestStep(c) == Arrive(c) \/ Look(c) \/ Fetch(c) \/ Keep(c) \/ Done(c)

LEMMA RequestMoves ==
  ASSUME Placed, NEW c \in Callers, RequestStep(c)
  PROVE  /\ Placed' /\ Others(c) /\ UNCHANGED <<site, told, read, halfway, routing, now>>
         /\ doing[c] \in {"idle", "look", "fetch", "store", "answered"}
         /\ doing'[c] \in {"idle", "look", "fetch", "store", "answered"}
<1> DEFINE Stages == {"idle", "look", "fetch", "store", "answered"}
<1>1. /\ UNCHANGED <<site, told, read, halfway, routing, now>>
      /\ doing[c] \in Stages
  BY DEF RequestStep, Arrive, Look, Fetch, Keep, Done
<1>2. CASE Goto(c, "idle")
  <2>1. Placed' /\ doing'[c] = "idle" /\ Others(c)
    BY <1>2, Gotos
  <2> QED
    BY <1>1, <2>1
<1>3. ASSUME NEW s \in Stages, NEW j,
             doing' = [doing EXCEPT ![c] = s], job' = [job EXCEPT ![c] = j]
      PROVE  /\ Placed' /\ Others(c) /\ UNCHANGED <<site, told, read, halfway, routing, now>>
             /\ doing[c] \in Stages /\ doing'[c] \in Stages
  <2>1. Placed' /\ doing'[c] = s /\ Others(c)
    BY <1>3, Puts
  <2> QED
    BY <1>1, <2>1
<1>4. CASE Arrive(c)
  <2>1. \E s \in {"look", "fetch"} : \E j :
          doing' = [doing EXCEPT ![c] = s] /\ job' = [job EXCEPT ![c] = j]
    BY <1>4 DEF Arrive
  <2> QED
    BY <1>3, <2>1
<1>5. CASE Look(c)
  <2>1. CASE job' = job /\ doing' = [doing EXCEPT ![c] = "fetch"]
    <3>1. Placed' /\ doing'[c] = "fetch" /\ Others(c)
      BY <2>1 DEF Placed, Others
    <3> QED
      BY <1>1, <3>1
  <2>2. CASE \E j : doing' = [doing EXCEPT ![c] = "answered"] /\ job' = [job EXCEPT ![c] = j]
    BY <1>3, <2>2
  <2> QED
    BY <1>5, <2>1, <2>2 DEF Look
<1>6. CASE Fetch(c) /\ ~Goto(c, "idle")
  <2>1. \E j : doing' = [doing EXCEPT ![c] = "store"] /\ job' = [job EXCEPT ![c] = j]
    BY <1>6 DEF Fetch
  <2> QED
    BY <1>3, <2>1
<1> QED
  BY <1>2, <1>4, <1>5, <1>6 DEF RequestStep, Keep, Done

LEMMA PlacedNext ==
  ASSUME Placed, [ServingNext]_servingVars
  PROVE  Placed'
<1>1. CASE UNCHANGED <<doing, job>>
  BY <1>1 DEF Placed
<1> QED
  BY <1>1, PanelMoves, RequestMoves
     DEF ServingNext, PanelStep, RequestStep, ReadSites, Reload, Tick, servingVars

-----------------------------------------------------------------------------
(* What is stored is served.                                               *)

LEMMA StoredInit == ServingInit => Placed /\ StoredInv
  BY DEF ServingInit, Placed, StoredInv, Compiled, site

\* Nobody comes to owe a signal, and the rest is as it was.
LEMMA StoredKept ==
  ASSUME StoredInv, NEW c \in Callers, Others(c), UNCHANGED <<site, told, read, routing>>,
         halfway => halfway', ~Owing(c), doing'[c] = "set status" => job'[c].status # ""
  PROVE  StoredInv'
<1>1. \A o \in Callers : doing'[o] = "set status" => job'[o].status # ""
  BY DEF StoredInv, Others
<1>2. (\A o \in Callers : ~Owing(o)') => \A o \in Callers : ~Owing(o)
  BY DEF Others, Owing
<1> QED
  BY <1>1, <1>2 DEF StoredInv, site

LEMMA StoredPanel ==
  ASSUME Placed, StoredInv, NEW c \in Callers, PanelStep(c)
  PROVE  StoredInv'
<1>1. ASSUME NEW s, NEW j, Change(c, s, j), s = "set status" => j.status # ""
      PROVE  StoredInv'
  <2>1. doing'[c] = s /\ job'[c] = j /\ Others(c)
    BY <1>1, Puts DEF Change
  <2>2. ~Owing(c) /\ UNCHANGED <<site, told, read, routing, halfway>>
    BY <1>1 DEF Change, Owing
  <2> QED
    BY <1>1, <2>1, <2>2, StoredKept
<1>2. ASSUME Others(c), doing'[c] # "set status", told' \/ halfway' \/ Owing(c)'
      PROVE  StoredInv'
  BY <1>2 DEF StoredInv, Others
<1>3. CASE AskPut(c) \/ AskApp(c)
  BY <1>1, <1>3 DEF AskPut, AskApp
<1>4. CASE AskPatch(c)
  <2>1. PICK s, t : Change(c, IF s # "" THEN "set status" ELSE "set type",
                           [status |-> s, type |-> t])
    BY <1>4 DEF AskPatch
  <2>2. CASE s # ""
    BY <1>1, <2>1, <2>2
  <2>3. CASE s = ""
    BY <1>1, <2>1, <2>3
  <2> QED
    BY <2>2, <2>3
<1>5. ASSUME Goto(c, "tell") PROVE StoredInv'
  <2>1. doing'[c] = "tell" /\ Others(c)
    BY <1>5, Gotos
  <2> QED
    BY <1>2, <2>1 DEF Owing
<1>6. CASE SetSiteStatus(c)
  <2>0. Goto(c, "set type")
    BY <1>6 DEF SetSiteStatus
  <2>1. doing'[c] = "set type" /\ job'[c] = job[c] /\ Others(c)
    <3>1. "set type" # "idle"
      OBVIOUS
    <3> QED
      BY <2>0, <3>1, Gotos, Zenon
  <2>2. job[c].status # ""
    BY <1>6 DEF SetSiteStatus, StoredInv
  <2> QED
    BY <1>2, <2>1, <2>2 DEF Owing
<1>7. CASE SetSiteType(c) /\ Goto(c, "idle")
  <2>1. doing'[c] = "idle" /\ Others(c)
    BY <1>7, Gotos
  <2>2. CASE job[c].status # "" /\ halfway'
    BY <1>2, <2>1, <2>2
  <2>3. CASE job[c].status = ""
    <3>1. ~Owing(c) /\ UNCHANGED <<port, told, read, routing>>
      BY <1>7, <2>3 DEF SetSiteType, Owing
    <3>2. (UNCHANGED row /\ (halfway => halfway')) \/ Goto(c, "tell")
      BY <1>7 DEF SetSiteType
    <3>3. CASE UNCHANGED row /\ (halfway => halfway')
      <4>1. UNCHANGED site
        BY <2>3, <3>1, <3>3 DEF site
      <4> QED
        BY <2>1, <3>1, <3>3, <4>1, StoredKept
    <3> QED
      BY <1>5, <3>2, <3>3
  <2> QED
    BY <1>5, <1>7, <2>2, <2>3 DEF SetSiteType
<1>8. CASE Tell(c)
  <2>1. doing'[c] = "idle" /\ Others(c) /\ told'
    BY <1>8, Gotos DEF Tell
  <2> QED
    BY <1>2, <2>1
<1>9. CASE SetSiteType(c) /\ ~Goto(c, "idle")
  BY <1>5, <1>9 DEF SetSiteType
<1>10. CASE SetSiteConfig(c) \/ SetAppPort(c)
  BY <1>5, <1>10 DEF SetSiteConfig, SetAppPort
<1> QED
  BY <1>3, <1>4, <1>6, <1>7, <1>8, <1>9, <1>10 DEF PanelStep

LEMMA StoredNext ==
  ASSUME Placed, StoredInv, [ServingNext]_servingVars
  PROVE  StoredInv'
<1>1. ASSUME NEW c \in Callers, RequestStep(c) PROVE StoredInv'
  <2>1. /\ Others(c) /\ UNCHANGED <<site, told, read, halfway, routing>>
        /\ doing[c] \in {"idle", "look", "fetch", "store", "answered"}
        /\ doing'[c] \in {"idle", "look", "fetch", "store", "answered"}
    BY <1>1, RequestMoves
  <2>2. ~Owing(c) /\ doing'[c] # "set status"
    BY <2>1 DEF Owing
  <2> QED
    BY <2>1, <2>2, StoredKept
<1>2. CASE ReadSites
  BY <1>2 DEF ReadSites, StoredInv, Owing, site
<1>3. CASE Reload
  <2>1. /\ read # <<>> /\ read' = <<>> /\ routing' = Compiled(routing.gen + 1, read[1])
        /\ UNCHANGED <<site, told, doing, job, halfway>>
    BY <1>3 DEF Reload
  <2>2. routing'.of = <<read[1], port>>
    BY <2>1 DEF Compiled
  <2>3. read = <<row>> => routing'.of = site
    BY <2>2 DEF site
  <2> QED
    BY <2>1, <2>3 DEF StoredInv, Owing, site
<1>4. CASE Tick \/ UNCHANGED servingVars
  BY <1>4 DEF Tick, servingVars, StoredInv, Owing, site
<1> QED
  BY <1>1, <1>2, <1>3, <1>4, StoredPanel DEF ServingNext, PanelStep, RequestStep

\* With no handler at work and no reload before it, the table is that of the row and the
\* port as they are: every statement that changes them is followed by a signal, unless it
\* is of a patch that is refused, and a reload that has read an older row has one before it.
THEOREM ServedAsStoredHolds == ServingSpec => []ServedAsStored
<1>1. ServingInit => Placed /\ StoredInv
  BY StoredInit
<1>2. Placed /\ StoredInv /\ [ServingNext]_servingVars => (Placed /\ StoredInv)'
  BY PlacedNext, StoredNext
<1>3. StoredInv => ServedAsStored
  BY DEF StoredInv, ServedAsStored, Owing, ChangeSteps
<1> QED
  BY <1>1, <1>2, <1>3, PTL DEF ServingSpec

-----------------------------------------------------------------------------
(* What comes out of a cache.                                              *)

LEMMA VisitInit == ServingInit => VisitInv
<1> SUFFICES ASSUME ServingInit PROVE VisitInv
  OBVIOUS
<1>1. /\ now = 0 /\ entries = {} /\ routing.gen = 0 /\ routing.since = now
      /\ \A c \in Callers : doing[c] = "idle"
  BY DEF ServingInit, Compiled
<1>2. IsFiniteSet(entries)
  BY <1>1, FS_EmptySet
<1> QED
  BY <1>1, <1>2 DEF VisitInv, TableInv, JobInv, JobFits, EntryInv, FoundInv, Visited

\* A goroutine keeps the table it works with, or takes the one that is served.
LEMMA TableKept ==
  ASSUME TableInv, NEW c \in Callers, Others(c), UNCHANGED <<routing, now>>,
         Visited(c)' => job'[c].table = routing
                        \/ (Visited(c) /\ job'[c].table = job[c].table)
  PROVE  TableInv'
<1>1. ASSUME NEW o \in Callers, Visited(o)'
      PROVE  job'[o].table = routing \/ (Visited(o) /\ job'[o].table = job[o].table)
  BY <1>1 DEF Others, Visited
<1>2. /\ now \in Nat /\ routing.gen \in Nat /\ routing.since \in Nat /\ routing.since <= now
      /\ routing.gen <= routing.gen
  BY DEF TableInv
<1>3. ASSUME NEW o \in Callers, Visited(o)'
      PROVE  /\ job'[o].table.gen \in Nat /\ job'[o].table.gen <= routing.gen
             /\ job'[o].table.gen = routing.gen => job'[o].table = routing
             /\ job'[o].table.since \in Nat /\ job'[o].table.since <= now
  BY <1>1, <1>2, <1>3 DEF TableInv
<1>4. ASSUME NEW o \in Callers, NEW d \in Callers, Visited(o)', Visited(d)',
             job'[o].table.gen = job'[d].table.gen
      PROVE  job'[o].table = job'[d].table
  BY <1>1, <1>4 DEF TableInv
<1> QED
  BY <1>2, <1>3, <1>4 DEF TableInv

LEMMA JobKept ==
  ASSUME JobInv, NEW c \in Callers, Others(c), UNCHANGED now, JobFits(c)'
  PROVE  JobInv'
<1>1. ASSUME NEW o \in Callers, o # c PROVE JobFits(o)'
  BY <1>1 DEF JobInv, JobFits, Others
<1> QED
  BY <1>1 DEF JobInv

\* Entries are dropped, or none.
LEMMA EntryKept ==
  ASSUME TableInv, EntryInv, NEW c \in Callers, Others(c), UNCHANGED routing,
         entries' \subseteq entries,
         Visited(c)' => job'[c].table = routing
                        \/ (Visited(c) /\ job'[c].table = job[c].table)
  PROVE  EntryInv'
<1>1. ASSUME NEW o \in Callers, Visited(o)'
      PROVE  job'[o].table = routing \/ (Visited(o) /\ job'[o].table = job[o].table)
  BY <1>1 DEF Others, Visited
<1>2. IsFiniteSet(entries)'
  BY FS_Subset DEF EntryInv
<1>3. ASSUME NEW e \in entries', NEW o \in Callers, Visited(o)', e.gen = job'[o].table.gen
      PROVE  Made(job'[o].table, e.route, e.answer)
  BY <1>1, <1>3 DEF EntryInv
<1>4. ASSUME NEW e \in entries' PROVE Cardinality(Bucket(e.gen, e.route)') <= MaxEntries
  <2>1. /\ Bucket(e.gen, e.route)' \subseteq Bucket(e.gen, e.route)
        /\ Bucket(e.gen, e.route) \subseteq entries
    BY DEF Bucket
  <2>2. IsFiniteSet(Bucket(e.gen, e.route))
    BY <2>1, FS_Subset DEF EntryInv
  <2>3. Cardinality(Bucket(e.gen, e.route)') <= Cardinality(Bucket(e.gen, e.route))
    BY <2>1, <2>2, FS_Subset
  <2>4. /\ Cardinality(Bucket(e.gen, e.route)') \in Nat
        /\ Cardinality(Bucket(e.gen, e.route)) \in Nat
    BY <2>1, <2>2, FS_Subset, FS_CardinalityType
  <2>5. Cardinality(Bucket(e.gen, e.route)) <= MaxEntries
    BY <1>4 DEF EntryInv
  <2> QED
    BY <2>3, <2>4, <2>5, ServingAssumption
<1>5. \A e \in entries' : /\ e.gen \in Nat /\ e.gen <= routing.gen /\ e.expires \in Nat
                          /\ e.gen = routing.gen => Made(routing, e.route, e.answer)
  BY DEF EntryInv
<1>6. \A e, f \in entries' :
        e.gen = f.gen /\ e.route = f.route /\ e.variant = f.variant /\ e.path = f.path => e = f
  BY DEF EntryInv
<1>7. /\ \A e \in entries' : e.gen = routing'.gen => Made(routing', e.route, e.answer)
      /\ \A e \in entries' : e.gen \in Nat /\ e.gen <= routing'.gen /\ e.expires \in Nat
  BY <1>5
<1> QED
  BY <1>2, <1>3, <1>4, <1>6, <1>7 DEF EntryInv, Made, Bucket

LEMMA FoundKept ==
  ASSUME FoundInv, NEW c \in Callers, Others(c), entries' \subseteq entries,
         doing'[c] # "answered"
  PROVE  FoundInv'
<1> SUFFICES ASSUME NEW o \in Callers, NEW e \in entries', doing'[o] = "answered",
                    SameKey(e, job'[o]), e.answer = job'[o].answer
             PROVE  job'[o].looked <= e.expires
  BY DEF FoundInv, SameKey
<1>1. o # c /\ job'[o] = job[o] /\ doing[o] = "answered" /\ e \in entries
  BY DEF Others
<1> QED
  BY <1>1 DEF FoundInv

\* Whoever does nothing for a visitor afterwards.
LEMMA VisitKept ==
  ASSUME VisitInv, NEW c \in Callers, Others(c), UNCHANGED <<routing, entries, now>>,
         ~Visited(c)'
  PROVE  VisitInv'
<1>1. TableInv' /\ EntryInv'
  BY TableKept, EntryKept DEF VisitInv
<1>2. JobFits(c)' /\ doing'[c] # "answered"
  BY DEF JobFits, Visited
<1> QED
  BY <1>1, <1>2, JobKept, FoundKept DEF VisitInv

LEMMA VisitArrive ==
  ASSUME Placed, VisitInv, NEW c \in Callers, Arrive(c)
  PROVE  VisitInv'
<1>1. UNCHANGED <<routing, entries, now>>
  BY DEF Arrive
<1>2. PICK s, j :
        /\ doing' = [doing EXCEPT ![c] = s] /\ job' = [job EXCEPT ![c] = j]
        /\ j.table = routing /\ j.q.path \in Paths
        /\ \/ s = "look" /\ Everybodys(j.q)
           \/ s = "fetch" /\ (j.keep = FALSE \/ Everybodys(j.q))
  <2>1. PICK q \in Requests :
          LET i == First(routing, q.path)
              cached == routing.routes[i].cache /\ ~Passes(q)
          IN /\ doing' = [doing EXCEPT ![c] = IF cached THEN "look" ELSE "fetch"]
             /\ job' = [job EXCEPT ![c] = [q |-> q, table |-> routing, route |-> i,
                                           keep |-> cached]]
    BY Zenon DEF Arrive
  <2>2. PICK i, cached :
          /\ cached <=> (routing.routes[i].cache /\ ~Passes(q))
          /\ doing' = [doing EXCEPT ![c] = IF cached THEN "look" ELSE "fetch"]
          /\ job' = [job EXCEPT ![c] = [q |-> q, table |-> routing, route |-> i,
                                        keep |-> cached]]
          /\ cached = TRUE \/ cached = FALSE
    BY <2>1, Zenon
  <2>3. PICK j : j = [q |-> q, table |-> routing, route |-> i, keep |-> cached]
    OBVIOUS
  <2>4. /\ j.table = routing /\ j.q = q /\ j.keep = cached /\ q.path \in Paths
        /\ job' = [job EXCEPT ![c] = j]
    BY <2>2, <2>3 DEF Requests
  <2>5. CASE cached = TRUE
    <3>1. Everybodys(j.q)
      BY <2>2, <2>4, <2>5 DEF Passes, Everybodys
    <3>2. doing' = [doing EXCEPT ![c] = "look"]
      BY <2>2, <2>5
    <3> QED
      BY <2>4, <3>1, <3>2
  <2>6. CASE cached = FALSE
    <3>1. doing' = [doing EXCEPT ![c] = "fetch"]
      BY <2>2, <2>6
    <3> QED
      BY <2>4, <2>6, <3>1
  <2> QED
    BY <2>2, <2>5, <2>6
<1>3. Others(c) /\ doing'[c] = s /\ job'[c] = j
  BY <1>2, Puts
<1>4. TableInv' /\ EntryInv'
  BY <1>1, <1>2, <1>3, TableKept, EntryKept DEF VisitInv
<1>5. JobFits(c)' /\ doing'[c] # "answered"
  BY <1>2, <1>3 DEF JobFits
<1> QED
  BY <1>1, <1>3, <1>4, <1>5, JobKept, FoundKept DEF VisitInv

LEMMA VisitLook ==
  ASSUME Placed, VisitInv, NEW c \in Callers, Look(c)
  PROVE  VisitInv'
<1>1. /\ UNCHANGED <<routing, now>> /\ doing[c] = "look" /\ Visited(c)
      /\ entries' \subseteq entries
  BY DEF Look, Visited
<1>2. Everybodys(job[c].q) /\ job[c].q.path \in Paths
  BY <1>1 DEF VisitInv, JobInv, JobFits
<1>3. CASE job' = job /\ doing' = [doing EXCEPT ![c] = "fetch"]
  <2>1. Others(c) /\ doing'[c] = "fetch" /\ job'[c] = job[c]
    BY <1>3 DEF Placed, Others
  <2>2. TableInv' /\ EntryInv'
    BY <1>1, <2>1, TableKept, EntryKept DEF VisitInv
  <2>3. JobFits(c)' /\ doing'[c] # "answered"
    BY <1>2, <2>1 DEF JobFits
  <2> QED
    BY <1>1, <2>1, <2>2, <2>3, JobKept, FoundKept DEF VisitInv
<1>4. CASE ~(job' = job /\ doing' = [doing EXCEPT ![c] = "fetch"])
  <2>1. /\ UNCHANGED entries /\ doing' = [doing EXCEPT ![c] = "answered"]
        /\ \E e \in entries : SameKey(e, job[c]) /\ ~Expired(e)
        /\ \E e \in entries : SameKey(e, job[c]) /\ job' = [job EXCEPT ![c] =
             [q |-> job[c].q, table |-> job[c].table, route |-> job[c].route,
              answer |-> e.answer, looked |-> now]]
    BY <1>4 DEF Look
  <2>2. PICK e \in entries :
          /\ SameKey(e, job[c])
          /\ job' = [job EXCEPT ![c] =
             [q |-> job[c].q, table |-> job[c].table, route |-> job[c].route,
              answer |-> e.answer, looked |-> now]]
    BY <2>1
  <2>3. \A f \in entries : SameKey(f, job[c]) => f = e
    BY <2>2 DEF SameKey, VisitInv, EntryInv
  <2>4. now <= e.expires /\ now \in Nat /\ now <= now
    BY <2>1, <2>3 DEF Expired, VisitInv, EntryInv, TableInv
  <2>5. PICK j : j = [q |-> job[c].q, table |-> job[c].table, route |-> job[c].route,
                      answer |-> e.answer, looked |-> now]
    OBVIOUS
  <2>6. /\ j.q = job[c].q /\ j.table = job[c].table /\ j.route = job[c].route
        /\ j.answer = e.answer /\ j.looked = now
    BY <2>5
  <2>7. Others(c) /\ doing'[c] = "answered" /\ job'[c] = j
    BY <2>1, <2>2, <2>5, Puts
  <2>8. TableInv' /\ EntryInv'
    BY <1>1, <2>1, <2>6, <2>7, TableKept, EntryKept DEF VisitInv
  <2>9. Made(j.table, j.route, j.answer)
    BY <1>1, <2>2, <2>6 DEF SameKey, VisitInv, EntryInv
  <2>10. JobFits(c)'
    BY <1>1, <1>2, <2>4, <2>6, <2>7, <2>9 DEF JobFits, Made, Everybodys
  <2>11. ASSUME NEW o \in Callers, NEW f \in entries, doing'[o] = "answered",
                SameKey(f, job'[o]), f.answer = job'[o].answer
         PROVE  job'[o].looked <= f.expires
    <3>1. CASE o = c
      BY <2>3, <2>4, <2>6, <2>7, <2>11, <3>1 DEF SameKey
    <3>2. CASE o # c
      BY <2>7, <2>11, <3>2 DEF Others, VisitInv, FoundInv
    <3> QED
      BY <3>1, <3>2
  <2>12. FoundInv'
    BY <2>1, <2>11 DEF FoundInv, SameKey
  <2> QED
    BY <1>1, <2>7, <2>8, <2>10, <2>12, JobKept DEF VisitInv
<1> QED
  BY <1>3, <1>4

LEMMA VisitFetch ==
  ASSUME Placed, VisitInv, NEW c \in Callers, Fetch(c)
  PROVE  VisitInv'
<1>1. UNCHANGED <<routing, entries, now>> /\ doing[c] = "fetch" /\ Visited(c)
  BY DEF Fetch, Visited
<1>2. CASE Goto(c, "idle")
  <2>1. Others(c) /\ doing'[c] = "idle"
    BY <1>2, Gotos
  <2> QED
    BY <1>1, <2>1, VisitKept DEF Visited
<1>3. CASE ~Goto(c, "idle")
  <2>1. PICK own, a :
          /\ job[c].keep /\ doing' = [doing EXCEPT ![c] = "store"]
          /\ own \in {FALSE, job[c].q.personal}
          /\ a = [made |-> now, own |-> own,
                  of |-> [to |-> job[c].table.routes[job[c].route].to,
                          port |-> job[c].table.of[2]]]
          /\ job' = [job EXCEPT ![c] = [q |-> job[c].q, table |-> job[c].table,
                                        route |-> job[c].route, answer |-> a]]
    BY <1>3 DEF Fetch
  <2>2. Everybodys(job[c].q)
    BY <1>1, <2>1 DEF VisitInv, JobInv, JobFits
  <2>3. now \in Nat /\ job[c].table.since <= now /\ job[c].table.since \in Nat
    BY <1>1 DEF VisitInv, TableInv
  <2>4. Made(job[c].table, job[c].route, a)
    BY <2>1, <2>2, <2>3 DEF Made, Everybodys
  <2>5. PICK j : j = [q |-> job[c].q, table |-> job[c].table,
                      route |-> job[c].route, answer |-> a]
    OBVIOUS
  <2>6. j.q = job[c].q /\ j.table = job[c].table /\ j.route = job[c].route /\ j.answer = a
    BY <2>5
  <2>7. Others(c) /\ doing'[c] = "store" /\ job'[c] = j
    <3>1. job' = [job EXCEPT ![c] = j]
      BY <2>1, <2>5
    <3>2. doing' = [doing EXCEPT ![c] = "store"]
      BY <2>1
    <3> QED
      BY <3>1, <3>2, Puts
  <2>8. TableInv' /\ EntryInv'
    BY <1>1, <2>6, <2>7, TableKept, EntryKept DEF VisitInv
  <2>9. JobFits(c)' /\ doing'[c] # "answered"
    BY <2>2, <2>4, <2>6, <2>7 DEF JobFits, Made, Everybodys
  <2> QED
    BY <1>1, <2>7, <2>8, <2>9, JobKept, FoundKept DEF VisitInv
<1> QED
  BY <1>2, <1>3

\* A set that loses old and gains x, where x is new only if there is room for it.
LEMMA OneMore ==
  ASSUME NEW B, NEW old, NEW x, NEW C, IsFiniteSet(B), C \subseteq (B \ old) \cup {x},
         NEW M \in Nat, Cardinality(B) < M \/ (Cardinality(B) <= M /\ \E o \in old : o \in B)
  PROVE  Cardinality(C) <= M
<1>1. /\ IsFiniteSet(B \ old) /\ Cardinality(B \ old) <= Cardinality(B)
      /\ Cardinality(B) \in Nat /\ Cardinality(B \ old) \in Nat
  BY FS_Subset, FS_CardinalityType
<1>2. /\ IsFiniteSet((B \ old) \cup {x})
      /\ Cardinality((B \ old) \cup {x}) <= Cardinality(B \ old) + 1
  <2>1. /\ IsFiniteSet((B \ old) \cup {x})
        /\ Cardinality((B \ old) \cup {x}) = IF x \in B \ old THEN Cardinality(B \ old)
                                              ELSE Cardinality(B \ old) + 1
    BY <1>1, FS_AddElement, Zenon
  <2> QED
    BY <1>1, <2>1
<1>3. IsFiniteSet(C) /\ Cardinality(C) <= Cardinality((B \ old) \cup {x})
  BY <1>2, FS_Subset
<1>4. Cardinality(C) \in Nat /\ Cardinality((B \ old) \cup {x}) \in Nat
  BY <1>2, <1>3, FS_CardinalityType
<1>5. CASE Cardinality(B) < M
  BY <1>1, <1>2, <1>3, <1>4, <1>5
<1>6. CASE Cardinality(B) <= M /\ \E o \in old : o \in B
  <2>1. PICK o \in old : o \in B
    BY <1>6
  <2>2. IsFiniteSet(B \ {o}) /\ Cardinality(B \ {o}) = Cardinality(B) - 1
    <3>1. Cardinality(B \ {o}) = IF o \in B THEN Cardinality(B) - 1 ELSE Cardinality(B)
      BY FS_RemoveElement, Zenon
    <3>2. IsFiniteSet(B \ {o})
      BY FS_RemoveElement, Zenon
    <3> QED
      BY <2>1, <3>1, <3>2
  <2>3. B \ old \subseteq B \ {o}
    BY <2>1
  <2>4. Cardinality(B \ old) <= Cardinality(B \ {o})
    BY <2>2, <2>3, FS_Subset
  <2> QED
    BY <1>1, <1>2, <1>3, <1>4, <1>6, <2>2, <2>4
<1> QED
  BY <1>5, <1>6

LEMMA VisitKeep ==
  ASSUME Placed, VisitInv, NEW c \in Callers, Keep(c)
  PROVE  VisitInv'
<1>1. UNCHANGED <<routing, now>> /\ doing[c] = "store" /\ Visited(c) /\ Goto(c, "idle")
  BY DEF Keep, Visited
<1>2. Others(c) /\ doing'[c] = "idle"
  BY <1>1, Gotos
<1>3. CASE UNCHANGED entries
  BY <1>1, <1>2, <1>3, VisitKept DEF Visited
<1>4. CASE entries' # entries
  <2> DEFINE old == {e \in entries : SameKey(e, job[c])}
  <2>0. PICK g, r : g = job[c].table.gen /\ r = job[c].route
    OBVIOUS
  <2>1. PICK x : x = [gen |-> g, route |-> r, variant |-> job[c].q.variant,
                      path |-> job[c].q.path, answer |-> job[c].answer,
                      expires |-> now + TTL]
    OBVIOUS
  <2>2. /\ entries' = (entries \ old) \cup {x}
        /\ ~(Cardinality(Bucket(g, r)) >= MaxEntries) \/ old # {}
    BY <1>4, <2>0, <2>1 DEF Keep, Bucket
  <2>3. /\ x.gen = g /\ x.route = r /\ x.variant = job[c].q.variant
        /\ x.path = job[c].q.path /\ x.answer = job[c].answer /\ x.expires = now + TTL
    BY <2>1
  <2>4. /\ now \in Nat /\ now + TTL \in Nat /\ now <= now + TTL
        /\ g \in Nat /\ g <= routing.gen /\ (g = routing.gen => job[c].table = routing)
    BY <1>1, <2>0, ServingAssumption DEF VisitInv, TableInv
  <2>5. Made(job[c].table, r, x.answer)
    BY <1>1, <2>0, <2>3 DEF VisitInv, JobInv, JobFits
  <2>6. /\ IsFiniteSet(entries) /\ TableInv
        /\ \A e \in entries : e.gen \in Nat /\ e.gen <= routing.gen /\ e.expires \in Nat
        /\ \A e \in entries : e.gen = routing.gen => Made(routing, e.route, e.answer)
        /\ \A e \in entries, o \in Callers : Visited(o) /\ e.gen = job[o].table.gen =>
             Made(job[o].table, e.route, e.answer)
        /\ \A e, f \in entries :
             e.gen = f.gen /\ e.route = f.route /\ e.variant = f.variant /\ e.path = f.path
               => e = f
        /\ \A e \in entries : Cardinality(Bucket(e.gen, e.route)) <= MaxEntries
    BY DEF VisitInv, EntryInv
  <2>7. \A e \in entries' : e \in entries \/ e = x
    BY <2>2
  <2>8. TableInv'
    BY <1>1, <1>2, TableKept DEF VisitInv, Visited
  <2>9. JobInv'
    BY <1>1, <1>2, JobKept DEF VisitInv, JobFits
  <2>10. FoundInv'
    <3>1. ASSUME NEW o \in Callers, NEW e \in entries', doing'[o] = "answered",
                 SameKey(e, job'[o]), e.answer = job'[o].answer
          PROVE  job'[o].looked <= e.expires
      <4>1. o # c /\ doing[o] = "answered" /\ job'[o] = job[o]
        BY <1>2, <3>1 DEF Others
      <4>2. job[o].looked \in Nat /\ job[o].looked <= now
        BY <4>1 DEF VisitInv, JobInv, JobFits
      <4>3. CASE e \in entries
        BY <3>1, <4>1, <4>3 DEF VisitInv, FoundInv
      <4>4. CASE e = x
        <5>1. e.expires = now + TTL
          BY <2>3, <4>4
        <5> QED
          BY <2>4, <4>1, <4>2, <5>1
      <4> QED
        BY <2>7, <4>3, <4>4
    <3> QED
      BY <3>1 DEF FoundInv, SameKey
  <2>11. IsFiniteSet(entries')
    <3>1. IsFiniteSet(entries \ old)
      BY <2>6, FS_Subset
    <3> QED
      BY <2>2, <3>1, FS_AddElement, Zenon
  <2>12. ASSUME NEW e \in entries'
         PROVE  /\ e.gen \in Nat /\ e.gen <= routing.gen /\ e.expires \in Nat
                /\ e.gen = routing.gen => Made(routing, e.route, e.answer)
    <3>1. CASE e \in entries
      BY <2>6, <3>1
    <3>2. CASE e = x
      BY <2>3, <2>4, <2>5, <3>2
    <3> QED
      BY <2>7, <3>1, <3>2
  <2>13. ASSUME NEW e \in entries', NEW o \in Callers, Visited(o)', e.gen = job'[o].table.gen
         PROVE  Made(job'[o].table, e.route, e.answer)
    <3>1. o # c /\ Visited(o) /\ job'[o] = job[o]
      BY <1>2, <2>13 DEF Others, Visited
    <3>2. CASE e \in entries
      BY <2>6, <2>13, <3>1, <3>2
    <3>3. CASE e = x
      <4>1. job[o].table = job[c].table
        BY <1>1, <2>0, <2>3, <2>6, <2>13, <3>1, <3>3 DEF TableInv
      <4> QED
        BY <2>3, <2>5, <3>1, <3>3, <4>1
    <3> QED
      BY <2>7, <3>2, <3>3
  <2>14. ASSUME NEW e \in entries', NEW f \in entries',
                e.gen = f.gen, e.route = f.route, e.variant = f.variant, e.path = f.path
         PROVE  e = f
    <3>1. \A d \in entries' : d = x \/ (d \in entries /\ ~SameKey(d, job[c]))
      BY <2>2
    <3>2. SameKey(x, job[c])
      BY <2>0, <2>3 DEF SameKey
    <3>3. CASE e = x \/ f = x
      <4>1. SameKey(e, job[c]) /\ SameKey(f, job[c])
        BY <2>14, <3>2, <3>3 DEF SameKey
      <4> QED
        BY <3>1, <4>1
    <3>4. CASE e # x /\ f # x
      BY <2>6, <2>14, <3>1, <3>4
    <3> QED
      BY <3>3, <3>4
  <2>15. \A h, k : Bucket(h, k) \subseteq entries /\ IsFiniteSet(Bucket(h, k))
    <3>1. \A h, k : Bucket(h, k) \subseteq entries
      BY DEF Bucket
    <3> QED
      BY <2>6, <3>1, FS_Subset
  <2>16. ASSUME NEW e \in entries'
         PROVE  Cardinality(Bucket(e.gen, e.route)') <= MaxEntries
    <3>1. CASE e.gen = g /\ e.route = r
      <4>1. Bucket(g, r)' \subseteq (Bucket(g, r) \ old) \cup {x}
        BY <2>2 DEF Bucket
      <4>2. old \subseteq Bucket(g, r)
        BY <2>0 DEF Bucket, SameKey
      <4>3. CASE old = {}
        <5>1. Cardinality(Bucket(g, r)) \in Nat
          BY <2>15, FS_CardinalityType
        <5>2. Cardinality(Bucket(g, r)) < MaxEntries
          BY <2>2, <4>3, <5>1, ServingAssumption
        <5>3. MaxEntries \in Nat /\ IsFiniteSet(Bucket(g, r))
          BY <2>15, ServingAssumption
        <5>4. Cardinality(Bucket(g, r)') <= MaxEntries
          <6> DEFINE B == Bucket(g, r)
                     C == Bucket(g, r)'
          <6>1. /\ IsFiniteSet(B) /\ C \subseteq (B \ old) \cup {x} /\ MaxEntries \in Nat
                /\ \/ Cardinality(B) < MaxEntries
                   \/ Cardinality(B) <= MaxEntries /\ \E o \in old : o \in B
            BY <4>1, <5>2, <5>3
          <6> HIDE DEF B, C, old
          <6>2. Cardinality(C) <= MaxEntries
            BY <6>1, OneMore
          <6> QED
            BY <6>2 DEF C
        <5> QED
          BY <3>1, <5>4 DEF Bucket
      <4>4. CASE old # {}
        <5>1. PICK o \in old : o \in Bucket(g, r)
          BY <4>2, <4>4
        <5>2. o \in entries /\ o.gen = g /\ o.route = r
          BY <5>1 DEF Bucket
        <5>3. Cardinality(Bucket(g, r)) <= MaxEntries
          BY <2>6, <5>2
        <5>4. MaxEntries \in Nat /\ IsFiniteSet(Bucket(g, r))
          BY <2>15, ServingAssumption
        <5>5. Cardinality(Bucket(g, r)') <= MaxEntries
          <6> DEFINE B == Bucket(g, r)
                     C == Bucket(g, r)'
          <6>1. /\ IsFiniteSet(B) /\ C \subseteq (B \ old) \cup {x} /\ MaxEntries \in Nat
                /\ Cardinality(B) <= MaxEntries /\ \E d \in old : d \in B
            BY <4>1, <5>1, <5>3, <5>4
          <6> HIDE DEF B, C, old
          <6>2. Cardinality(C) <= MaxEntries
            BY <6>1, OneMore
          <6> QED
            BY <6>2 DEF C
        <5> QED
          BY <3>1, <5>5 DEF Bucket
      <4> QED
        BY <4>3, <4>4
    <3>2. CASE ~(e.gen = g /\ e.route = r)
      <4>1. e \in entries
        BY <2>3, <2>7, <3>2
      <4>2. Bucket(e.gen, e.route)' \subseteq Bucket(e.gen, e.route)
        BY <2>2, <2>3, <3>2 DEF Bucket
      <4>3. IsFiniteSet(Bucket(e.gen, e.route))
        BY <2>15
      <4>4. /\ Cardinality(Bucket(e.gen, e.route)') <= Cardinality(Bucket(e.gen, e.route))
            /\ IsFiniteSet(Bucket(e.gen, e.route)')
        BY <4>2, <4>3, FS_Subset
      <4>5. /\ Cardinality(Bucket(e.gen, e.route)') \in Nat
            /\ Cardinality(Bucket(e.gen, e.route)) \in Nat
        BY <4>3, <4>4, FS_CardinalityType
      <4>6. Cardinality(Bucket(e.gen, e.route)) <= MaxEntries
        BY <2>6, <4>1
      <4> QED
        BY <4>4, <4>5, <4>6, ServingAssumption
    <3> QED
      BY <3>1, <3>2
  <2>17. EntryInv'
    <3>1. \A e \in entries' : e.gen \in Nat /\ e.gen <= routing'.gen /\ e.expires \in Nat
      BY <1>1, <2>12
    <3>2. \A e \in entries' : e.gen = routing'.gen => Made(routing, e.route, e.answer)'
      BY <1>1, <2>12 DEF Made
    <3>3. \A e \in entries', o \in Callers :
            Visited(o)' /\ e.gen = job'[o].table.gen => Made(job[o].table, e.route, e.answer)'
      BY <2>13 DEF Made
    <3>4. \A e, f \in entries' :
            e.gen = f.gen /\ e.route = f.route /\ e.variant = f.variant /\ e.path = f.path
              => e = f
      BY <2>14
    <3>5. \A e \in entries' : Cardinality(Bucket(e.gen, e.route)') <= MaxEntries
      BY <2>16
    <3> QED
      BY <2>11, <3>1, <3>2, <3>3, <3>4, <3>5 DEF EntryInv
  <2> QED
    BY <2>8, <2>9, <2>10, <2>17 DEF VisitInv
<1> QED
  BY <1>3, <1>4

\* Nobody has a table with the number of the new one.
LEMMA VisitReload ==
  ASSUME VisitInv, Reload
  PROVE  VisitInv'
<1>1. /\ UNCHANGED <<entries, doing, job, now>>
      /\ routing'.gen = routing.gen + 1 /\ routing'.since = now
  BY DEF Reload, Compiled
<1>2. /\ now \in Nat /\ routing.gen \in Nat /\ routing'.gen \in Nat
      /\ routing'.since \in Nat /\ routing'.since <= now
      /\ \A n \in Nat : n <= routing.gen => n <= routing'.gen /\ n # routing'.gen
  BY <1>1 DEF VisitInv, TableInv
<1>3. \A o \in Callers : (Visited(o)' <=> Visited(o)) /\ job'[o] = job[o]
  BY <1>1 DEF Visited
<1>4. TableInv'
  BY <1>1, <1>2, <1>3 DEF VisitInv, TableInv
<1>5. JobInv'
  BY <1>1 DEF VisitInv, JobInv, JobFits, Made, Everybodys
<1>6. EntryInv'
  <2>1. \A e \in entries : e.gen \in Nat /\ e.gen <= routing'.gen /\ e.gen # routing'.gen
    BY <1>2 DEF VisitInv, EntryInv
  <2>2. \A e \in entries : Bucket(e.gen, e.route)' = Bucket(e.gen, e.route)
    BY <1>1 DEF Bucket
  <2> QED
    BY <1>1, <1>3, <2>1, <2>2 DEF VisitInv, EntryInv, Made
<1>7. FoundInv'
  BY <1>1 DEF VisitInv, FoundInv, SameKey
<1> QED
  BY <1>4, <1>5, <1>6, <1>7 DEF VisitInv

LEMMA VisitTick ==
  ASSUME VisitInv, UNCHANGED <<routing, entries, doing, job>>, now' = now \/ now' = now + 1
  PROVE  VisitInv'
<1>1. now' \in Nat /\ \A n \in Nat : n <= now => n <= now'
  BY DEF VisitInv, TableInv
<1>2. TableInv'
  BY <1>1 DEF VisitInv, TableInv, Visited
<1>3. JobInv'
  BY <1>1 DEF VisitInv, JobInv, JobFits, Made, Everybodys
<1>4. EntryInv'
  BY DEF VisitInv, EntryInv, Made, Bucket, Visited
<1>5. FoundInv'
  BY DEF VisitInv, FoundInv, SameKey
<1> QED
  BY <1>2, <1>3, <1>4, <1>5 DEF VisitInv

LEMMA VisitNext ==
  ASSUME Placed, VisitInv, [ServingNext]_servingVars
  PROVE  VisitInv'
<1>1. ASSUME NEW c \in Callers, PanelStep(c) PROVE VisitInv'
  <2>1. Others(c) /\ ~Visited(c)' /\ UNCHANGED <<routing, entries, now>>
    BY <1>1, PanelMoves
  <2> QED
    BY <2>1, VisitKept
<1>2. ASSUME NEW c \in Callers, Done(c) PROVE VisitInv'
  <2>1. Others(c) /\ doing'[c] = "idle" /\ UNCHANGED <<routing, entries, now>>
    BY <1>2, Gotos DEF Done
  <2> QED
    BY <2>1, VisitKept DEF Visited
<1>3. CASE Tick \/ ReadSites \/ UNCHANGED servingVars
  <2>1. UNCHANGED <<routing, entries, doing, job>> /\ (now' = now \/ now' = now + 1)
    BY <1>3 DEF Tick, ReadSites, servingVars
  <2> QED
    BY <2>1, VisitTick
<1> QED
  BY <1>1, <1>2, <1>3, VisitArrive, VisitLook, VisitFetch, VisitKeep, VisitReload
     DEF ServingNext, PanelStep

LEMMA VisitHolds == ServingSpec => [](Placed /\ VisitInv)
<1>1. ServingInit => Placed /\ VisitInv
  BY StoredInit, VisitInit
<1>2. Placed /\ VisitInv /\ [ServingNext]_servingVars => (Placed /\ VisitInv)'
  BY PlacedNext, VisitNext
<1> QED
  BY <1>1, <1>2, PTL DEF ServingSpec

\* An answer out of a cache is meant for everybody, was made by the route of the table it
\* is used with while that table was in use, is not over when it is found, and no cache
\* has more than its limit: tables have numbers of their own, and an entry keeps that of
\* the table whose route made it.
THEOREM HitsAreFitHolds == ServingSpec => []HitsAreFit
<1>1. VisitInv => HitsAreFit
  <2> SUFFICES ASSUME VisitInv PROVE HitsAreFit
    OBVIOUS
  <2>1. ASSUME NEW c \in Callers, doing[c] = "answered"
        PROVE  /\ job[c].q.get /\ ~job[c].q.personal /\ ~job[c].answer.own
               /\ job[c].answer.made >= job[c].table.since
               /\ job[c].answer.of = [to |-> job[c].table.routes[job[c].route].to,
                                      port |-> job[c].table.of[2]]
    BY <2>1 DEF VisitInv, JobInv, JobFits, Everybodys, Made
  <2>2. \A e \in entries :
          Cardinality({f \in entries : f.gen = e.gen /\ f.route = e.route}) <= MaxEntries
    BY DEF VisitInv, EntryInv, Bucket
  <2>3. \A c \in Callers, e \in entries :
          doing[c] = "answered" /\ SameKey(e, job[c]) /\ e.answer = job[c].answer =>
            job[c].looked <= e.expires
    BY DEF VisitInv, FoundInv
  <2> QED
    BY <2>1, <2>2, <2>3 DEF HitsAreFit
<1> QED
  BY <1>1, VisitHolds, PTL

\* Every path that is asked of a directory is answered with its file or index, with the
\* page of an application, or with what there is for what is missing, and with nothing
\* else, whatever files the directory holds.
THEOREM StaticAnswersHolds == ServingSpec => []StaticAnswers
<1>1. VisitInv => StaticAnswers
  <2> SUFFICES ASSUME VisitInv, NEW c \in Callers, doing[c] = "fetch"
               PROVE  AnswersFor(job[c].q.path)
    BY DEF StaticAnswers
  <2>1. job[c].q.path \in Paths
    BY DEF VisitInv, JobInv, JobFits
  <2> QED
    BY <2>1, AnswersForAll
<1> QED
  BY <1>1, VisitHolds, PTL

-----------------------------------------------------------------------------
(* How a site answers: types.                                              *)

LEMMA LeastRoute ==
  ASSUME NEW n \in Nat, NEW S, S \subseteq 1 .. n, S # {}
  PROVE  \E i \in S : \A k \in S : i <= k
<1> DEFINE UpTo == {1 .. i : i \in S}
<1>1. UpTo \subseteq FiniteSubsetsOf(1 .. n) /\ UpTo # {}
  <2>1. ASSUME NEW i \in S PROVE 1 .. i \in FiniteSubsetsOf(1 .. n)
    BY FS_Interval DEF FiniteSubsetsOf
  <2> QED
    BY <2>1
<1> HIDE DEF UpTo
<1>2. PICK x \in UpTo : \A y \in UpTo : ~ (<<y, x>> \in StrictSubsetOrdering(1 .. n))
  <2>1. IsWellFoundedOn(StrictSubsetOrdering(1 .. n), FiniteSubsetsOf(1 .. n))
    BY FS_Interval, FS_StrictSubsetOrderingWellFounded
  <2> QED
    BY <1>1, <2>1, WFMin
<1>3. PICK i \in S : x = 1 .. i
  BY DEF UpTo
<1>4. ASSUME NEW k \in S, k < i PROVE FALSE
  <2>1. 1 .. k \in UpTo
    BY DEF UpTo
  <2>2. i \in 1 .. n /\ k \in 1 .. n
    OBVIOUS
  <2>3. /\ 1 .. k \subseteq 1 .. i /\ 1 .. k # 1 .. i
        /\ 1 .. k \subseteq 1 .. n /\ 1 .. i \subseteq 1 .. n
    BY <1>4, <2>2
  <2> QED
    BY <1>2, <1>3, <2>1, <2>3 DEF StrictSubsetOrdering
<1> QED
  BY <1>4

\* There is a first route of those that match.
LEMMA FirstMatches ==
  ASSUME NEW t \in Tables, NEW path, Matching(t, path) # {}
  PROVE  /\ First(t, path) \in Matching(t, path)
         /\ \A k \in Matching(t, path) : First(t, path) <= k
<1>1. Matching(t, path) \subseteq 1 .. Len(t.routes) /\ Len(t.routes) \in Nat
  BY DEF Matching, Tables
<1>2. \E i \in Matching(t, path) : \A k \in Matching(t, path) : i <= k
  BY <1>1, LeastRoute
<1> QED
  BY <1>2 DEF First

LEMMA Counted ==
  ASSUME NEW m \in Nat, NEW n \in 0 .. m, n < m
  PROVE  n + 1 \in 0 .. m
  OBVIOUS

\* What is compiled is a table.
LEMMA CompiledTable ==
  ASSUME NEW g \in 0 .. MaxReloads, NEW r \in Rows, now \in 0 .. MaxTime, port \in 0 .. 2
  PROVE  Compiled(g, r) \in Tables
<1>1. RoutesOf(r) \in Seq(Route)
  <2>1. CASE r.config # <<>>
    BY <2>1, ServingAssumption DEF RoutesOf, Rows
  <2>2. CASE r.config = <<>>
    <3>1. [prefix |-> <<>>, to |-> r.type, cache |-> FALSE] \in Route
      BY DEF Route, Rows, Types
    <3> QED
      BY <2>2, <3>1 DEF RoutesOf
  <2> QED
    BY <2>1, <2>2
<1>2. PICK routes \in Seq(Route) :
        Compiled(g, r) = [gen |-> g, since |-> now, of |-> <<r, port>>, routes |-> routes]
  <2>1. CASE Builds(r, port)
    BY <1>1, <2>1 DEF Compiled
  <2>2. CASE ~Builds(r, port)
    <3>1. <<>> \in Seq(Route)
      OBVIOUS
    <3> QED
      BY <2>2, <3>1 DEF Compiled
  <2> QED
    BY <2>1, <2>2
<1> QED
  BY <1>2 DEF Tables

LEMMA ServingTypeInit == ServingInit => ServingTypeOK
<1> SUFFICES ASSUME ServingInit PROVE ServingTypeOK
  OBVIOUS
<1>1. /\ now \in 0 .. MaxTime /\ calls \in 0 .. MaxCalls
      /\ 0 \in 0 .. MaxReloads /\ port \in 0 .. 2
  BY ServingAssumption DEF ServingInit
<1>2. routing \in Tables
  BY <1>1, CompiledTable DEF ServingInit
<1>3. \A c \in Callers : Fitting(doing[c], job[c])
  BY DEF ServingInit, Fitting
<1> QED
  BY <1>1, <1>2, <1>3 DEF ServingInit, ServingTypeOK

DoingSteps == {"idle", "look", "fetch", "store", "answered", "set config", "set status",
               "set type", "set port", "tell"}

\* The goroutines, when one of them moves.
GoTypes ==
  /\ doing \in [Callers -> DoingSteps]
  /\ \A c \in Callers : Fitting(doing[c], job[c])

LEMMA GoesTypes ==
  ASSUME Placed', ServingTypeOK, NEW c \in Callers, Others(c), doing'[c] \in DoingSteps,
         doing' = [doing EXCEPT ![c] = doing'[c]], Fitting(doing'[c], job'[c])
  PROVE  GoTypes'
<1>1. doing' \in [Callers -> DoingSteps]
  BY DEF ServingTypeOK, DoingSteps
<1>2. ASSUME NEW o \in Callers PROVE Fitting(doing'[o], job'[o])
  <2>1. CASE o # c
    BY <2>1 DEF Others, ServingTypeOK
  <2> QED
    BY <2>1
<1> QED
  BY <1>1, <1>2 DEF GoTypes

LEMMA PutsTypes ==
  ASSUME Placed, ServingTypeOK, NEW c \in Callers, NEW s \in DoingSteps, NEW j,
         doing' = [doing EXCEPT ![c] = s], job' = [job EXCEPT ![c] = j], Fitting(s, j)
  PROVE  GoTypes'
<1>1. Placed' /\ doing'[c] = s /\ job'[c] = j /\ Others(c)
  BY Puts
<1>2. doing' = [doing EXCEPT ![c] = doing'[c]]
  BY <1>1
<1>3. Fitting(doing'[c], job'[c])
  BY <1>1
<1> QED
  BY <1>1, <1>2, <1>3, GoesTypes

LEMMA GotosTypes ==
  ASSUME Placed, ServingTypeOK, NEW c \in Callers, NEW s \in {"idle", "tell"}, Goto(c, s)
  PROVE  GoTypes'
<1>1. Placed' /\ doing'[c] = s /\ Others(c)
  BY Gotos
<1>2. doing' = [doing EXCEPT ![c] = doing'[c]] /\ s \in DoingSteps
  BY <1>1 DEF Goto, DoingSteps
<1>3. Fitting(doing'[c], job'[c])
  BY <1>1 DEF Fitting
<1> QED
  BY <1>1, <1>2, <1>3, GoesTypes

\* The rest, in parts.
RowTypes == row \in Rows /\ port \in 0 .. 2 /\ halfway \in BOOLEAN
ReadTypes == (read = <<>> \/ \E r \in Rows : read = <<r>>) /\ told \in BOOLEAN
CacheTypes ==
  \A e \in entries : e.gen \in 0 .. MaxReloads /\ e.variant \in Variants /\ e.path \in Paths
TimeTypes == now \in 0 .. MaxTime /\ calls \in 0 .. MaxCalls

LEMMA InParts ==
  ServingTypeOK <=> RowTypes /\ ReadTypes /\ routing \in Tables /\ CacheTypes
                      /\ GoTypes /\ TimeTypes
  BY DEF ServingTypeOK, RowTypes, ReadTypes, CacheTypes, GoTypes, TimeTypes, DoingSteps

LEMMA PanelTypes ==
  ASSUME Placed, ServingTypeOK, NEW c \in Callers, PanelStep(c)
  PROVE  ServingTypeOK'
<1>1. Fitting(doing[c], job[c]) /\ row \in Rows /\ port \in 0 .. 2
  BY DEF ServingTypeOK
<1>2. ASSUME NEW s \in DoingSteps, NEW j, Change(c, s, j), Fitting(s, j) PROVE ServingTypeOK'
  <2>1. GoTypes'
    BY <1>2, PutsTypes DEF Change
  <2>2. TimeTypes'
    <3>1. /\ calls \in 0 .. MaxCalls /\ calls < MaxCalls /\ calls' = calls + 1
          /\ now \in 0 .. MaxTime /\ now' = now /\ MaxCalls \in Nat
      BY <1>2, ServingAssumption DEF Change, ServingTypeOK
    <3>2. calls' \in 0 .. MaxCalls
      BY <3>1, Counted
    <3> QED
      BY <3>1, <3>2 DEF TimeTypes
  <2>3. RowTypes' /\ ReadTypes' /\ routing' \in Tables /\ CacheTypes'
    BY <1>2, InParts DEF Change, site, RowTypes, ReadTypes, CacheTypes
  <2> QED
    BY <2>1, <2>2, <2>3, InParts DEF ServingTypeOK, RowTypes, ReadTypes, CacheTypes, GoTypes,
       TimeTypes, DoingSteps
<1>3. ASSUME UNCHANGED <<read, routing, entries, now, calls>>,
             RowTypes', told' \in BOOLEAN, GoTypes'
      PROVE  ServingTypeOK'
  BY <1>3, InParts DEF ServingTypeOK, RowTypes, ReadTypes, CacheTypes, GoTypes, TimeTypes,
     DoingSteps
<1>4. CASE AskPut(c)
  <2>1. PICK cfg \in Configs : Change(c, "set config", [config |-> cfg])
    BY <1>4 DEF AskPut
  <2>2. Fitting("set config", [config |-> cfg])
    BY DEF Fitting
  <2> QED
    BY <1>2, <2>1, <2>2 DEF DoingSteps
<1>5. CASE AskPatch(c)
  <2>1. PICK s \in {"", "active", "disabled"}, t \in Types \cup {"", "bad"} :
          Change(c, IF s # "" THEN "set status" ELSE "set type", [status |-> s, type |-> t])
    BY <1>5 DEF AskPatch
  <2>2. PICK step : step = IF s # "" THEN "set status" ELSE "set type"
    OBVIOUS
  <2>3. step \in DoingSteps /\ Fitting(step, [status |-> s, type |-> t])
    BY <2>2 DEF DoingSteps, Fitting
  <2>4. Change(c, step, [status |-> s, type |-> t])
    BY <2>1, <2>2
  <2> QED
    BY <1>2, <2>3, <2>4
<1>6. CASE AskApp(c)
  <2>1. Fitting("set port", NoJob) /\ "set port" \in DoingSteps
    BY DEF Fitting, DoingSteps
  <2> QED
    BY <1>2, <1>6, <2>1 DEF AskApp
<1>7. CASE SetSiteConfig(c)
  <2>1. job[c].config \in Configs
    BY <1>1, <1>7 DEF SetSiteConfig, Fitting
  <2>2. RowTypes'
    BY <1>1, <1>7, <2>1 DEF SetSiteConfig, RowTypes, Rows, ServingTypeOK
  <2>3. GoTypes'
    BY <1>7, GotosTypes DEF SetSiteConfig
  <2> QED
    BY <1>3, <1>7, <2>2, <2>3 DEF SetSiteConfig, ServingTypeOK
<1>8. CASE SetSiteStatus(c)
  <2>1. RowTypes'
    <3>1. PICK b \in BOOLEAN : row' = [row EXCEPT !.active = b]
      BY <1>8 DEF SetSiteStatus
    <3> QED
      BY <1>1, <1>8, <3>1 DEF SetSiteStatus, RowTypes, Rows, ServingTypeOK
  <2>2. GoTypes'
    <3>1. Goto(c, "set type") /\ doing[c] = "set status" /\ "set type" # "idle"
      BY <1>8 DEF SetSiteStatus
    <3>2. Placed' /\ doing'[c] = "set type" /\ job'[c] = job[c] /\ Others(c)
      BY <3>1, Gotos, Zenon
    <3>3. doing' = [doing EXCEPT ![c] = doing'[c]] /\ doing'[c] \in DoingSteps
      BY <3>1, <3>2 DEF Goto, DoingSteps
    <3>4. Fitting(doing'[c], job'[c])
      BY <1>1, <3>1, <3>2 DEF Fitting
    <3> QED
      BY <3>2, <3>3, <3>4, GoesTypes
  <2> QED
    BY <1>3, <1>8, <2>1, <2>2 DEF SetSiteStatus, ServingTypeOK
<1>9. CASE SetSiteType(c)
  <2>1. job[c].type \in Types \cup {"", "bad"}
    BY <1>1, <1>9 DEF SetSiteType, Fitting
  <2>2. row' \in Rows
    <3>1. row' = row \/ (job[c].type \in Types /\ row' = [row EXCEPT !.type = job[c].type])
      BY <1>9, <2>1 DEF SetSiteType
    <3> QED
      BY <1>1, <3>1 DEF Rows
  <2>3. halfway' \in BOOLEAN
    BY <1>9 DEF SetSiteType, ServingTypeOK
  <2>4. RowTypes'
    BY <1>1, <1>9, <2>2, <2>3 DEF SetSiteType, RowTypes
  <2>5. GoTypes'
    BY <1>9, GotosTypes DEF SetSiteType
  <2> QED
    BY <1>3, <1>9, <2>4, <2>5 DEF SetSiteType, ServingTypeOK
<1>10. CASE SetAppPort(c)
  <2>1. RowTypes'
    <3>1. port' \in {0, 1, 2} /\ row' = row /\ halfway' = halfway /\ halfway \in BOOLEAN
      BY <1>10 DEF SetAppPort, ServingTypeOK
    <3>2. port' \in 0 .. 2
      BY <3>1
    <3> QED
      BY <1>1, <3>1, <3>2 DEF RowTypes
  <2>2. GoTypes'
    BY <1>10, GotosTypes DEF SetAppPort
  <2> QED
    BY <1>3, <1>10, <2>1, <2>2 DEF SetAppPort, ServingTypeOK
<1>11. CASE Tell(c)
  <2>1. RowTypes' /\ told' \in BOOLEAN
    BY <1>11, InParts DEF Tell, RowTypes, site
  <2>2. GoTypes'
    BY <1>11, GotosTypes DEF Tell
  <2> QED
    BY <1>3, <1>11, <2>1, <2>2 DEF Tell
<1> QED
  BY <1>4, <1>5, <1>6, <1>7, <1>8, <1>9, <1>10, <1>11 DEF PanelStep

LEMMA RequestTypes ==
  ASSUME Placed, ServingTypeOK, NEW c \in Callers, RequestStep(c)
  PROVE  ServingTypeOK'
<1>1. Fitting(doing[c], job[c]) /\ routing \in Tables
  BY DEF ServingTypeOK
<1>2. ASSUME GoTypes', CacheTypes', calls' \in 0 .. MaxCalls PROVE ServingTypeOK'
  <2>1. UNCHANGED <<row, port, told, read, halfway, routing, now>>
    BY RequestMoves DEF site
  <2> QED
    BY <1>2, <2>1, InParts
    DEF ServingTypeOK, RowTypes, ReadTypes, CacheTypes, GoTypes, TimeTypes, DoingSteps
<1>3. ASSUME entries' \subseteq entries PROVE CacheTypes'
  BY <1>3 DEF CacheTypes, ServingTypeOK
<1>4. Arrive(c) \/ (calls' = calls /\ calls' \in 0 .. MaxCalls)
  BY DEF RequestStep, Look, Fetch, Keep, Done, ServingTypeOK
<1>5. CASE Arrive(c)
  <2>1. PICK q \in Requests :
          /\ Matching(routing, q.path) # {}
          /\ LET i == First(routing, q.path)
                 cached == routing.routes[i].cache /\ ~Passes(q)
             IN /\ doing' = [doing EXCEPT ![c] = IF cached THEN "look" ELSE "fetch"]
                /\ job' = [job EXCEPT ![c] = [q |-> q, table |-> routing, route |-> i,
                                              keep |-> cached]]
    BY <1>5, Zenon DEF Arrive
  <2>2. PICK i, cached :
          /\ i = First(routing, q.path)
          /\ doing' = [doing EXCEPT ![c] = IF cached THEN "look" ELSE "fetch"]
          /\ job' = [job EXCEPT ![c] = [q |-> q, table |-> routing, route |-> i,
                                        keep |-> cached]]
    BY <2>1, Zenon
  <2>3. PICK s, j : s = (IF cached THEN "look" ELSE "fetch")
                    /\ j = [q |-> q, table |-> routing, route |-> i, keep |-> cached]
    OBVIOUS
  <2>4. j.q = q /\ j.table = routing /\ j.route = i
    BY <2>3
  <2>5. i \in Matching(routing, q.path) /\ \A k \in Matching(routing, q.path) : i <= k
    BY <1>1, <2>1, <2>2, FirstMatches
  <2>6. s \in {"look", "fetch"}
    BY <2>3, Zenon
  <2>7. Fitting(s, j) /\ s \in DoingSteps
    BY <1>1, <2>4, <2>5, <2>6 DEF Fitting, DoingSteps
  <2>8. doing' = [doing EXCEPT ![c] = s] /\ job' = [job EXCEPT ![c] = j]
    BY <2>2, <2>3
  <2>9. GoTypes'
    BY <2>7, <2>8, PutsTypes
  <2>10. /\ entries' \subseteq entries /\ calls \in 0 .. MaxCalls
         /\ calls < MaxCalls /\ calls' = calls + 1 /\ MaxCalls \in Nat
    BY <1>5, ServingAssumption DEF Arrive, ServingTypeOK
  <2>11. calls' \in 0 .. MaxCalls
    BY <2>10, Counted
  <2> QED
    BY <1>2, <1>3, <2>9, <2>10, <2>11
<1>6. CASE Goto(c, "idle") /\ (Fetch(c) \/ Done(c))
  <2>1. GoTypes' /\ entries' \subseteq entries
    BY <1>6, GotosTypes DEF Fetch, Done
  <2>2. calls' \in 0 .. MaxCalls
    BY <1>6 DEF Fetch, Done, ServingTypeOK
  <2> QED
    BY <1>2, <1>3, <2>1, <2>2
<1>7. CASE Look(c)
  <2>1. entries' \subseteq entries /\ doing[c] = "look" /\ calls' \in 0 .. MaxCalls
    BY <1>7 DEF Look, ServingTypeOK
  <2>2. CASE job' = job /\ doing' = [doing EXCEPT ![c] = "fetch"]
    <3>1. Placed' /\ Others(c) /\ doing'[c] = "fetch" /\ job'[c] = job[c]
      BY <2>2 DEF Placed, Others
    <3>2. Fitting(doing'[c], job'[c]) /\ doing'[c] \in DoingSteps
      BY <1>1, <2>1, <3>1 DEF Fitting, DoingSteps
    <3>3. doing' = [doing EXCEPT ![c] = doing'[c]]
      BY <2>2, <3>1
    <3>4. GoTypes'
      BY <3>1, <3>2, <3>3, GoesTypes
    <3> QED
      BY <1>2, <1>3, <2>1, <3>4
  <2>3. CASE ~(job' = job /\ doing' = [doing EXCEPT ![c] = "fetch"])
    <3>1. PICK e : /\ doing' = [doing EXCEPT ![c] = "answered"]
                   /\ job' = [job EXCEPT ![c] =
                        [q |-> job[c].q, table |-> job[c].table, route |-> job[c].route,
                         answer |-> e.answer, looked |-> now]]
      BY <1>7, <2>3 DEF Look
    <3>2. PICK j : j = [q |-> job[c].q, table |-> job[c].table, route |-> job[c].route,
                        answer |-> e.answer, looked |-> now]
      OBVIOUS
    <3>3. /\ j.q = job[c].q /\ j.table = job[c].table /\ j.route = job[c].route
          /\ job' = [job EXCEPT ![c] = j]
      BY <3>1, <3>2
    <3>4. doing' = [doing EXCEPT ![c] = "answered"]
      BY <3>1
    <3>5. Fitting("answered", j) /\ "answered" \in DoingSteps
      BY <1>1, <2>1, <3>3 DEF Fitting, DoingSteps
    <3>6. GoTypes'
      BY <3>3, <3>4, <3>5, PutsTypes
    <3> QED
      BY <1>2, <1>3, <2>1, <3>6
  <2> QED
    BY <2>2, <2>3
<1>8. CASE Fetch(c) /\ ~Goto(c, "idle")
  <2>1. entries' \subseteq entries /\ doing[c] = "fetch" /\ calls' \in 0 .. MaxCalls
    BY <1>8 DEF Fetch, ServingTypeOK
  <2>2. PICK a : /\ doing' = [doing EXCEPT ![c] = "store"]
                 /\ job' = [job EXCEPT ![c] = [q |-> job[c].q, table |-> job[c].table,
                                               route |-> job[c].route, answer |-> a]]
    BY <1>8 DEF Fetch
  <2>3. PICK j : j = [q |-> job[c].q, table |-> job[c].table, route |-> job[c].route,
                      answer |-> a]
    OBVIOUS
  <2>4. /\ j.q = job[c].q /\ j.table = job[c].table /\ j.route = job[c].route
        /\ job' = [job EXCEPT ![c] = j]
    BY <2>2, <2>3
  <2>5. doing' = [doing EXCEPT ![c] = "store"]
    BY <2>2
  <2>6. Fitting("store", j) /\ "store" \in DoingSteps
    BY <1>1, <2>1, <2>4 DEF Fitting, DoingSteps
  <2>7. GoTypes'
    BY <2>4, <2>5, <2>6, PutsTypes
  <2> QED
    BY <1>2, <1>3, <2>1, <2>7
<1>9. CASE Keep(c)
  <2>1. doing[c] = "store" /\ Goto(c, "idle") /\ calls' \in 0 .. MaxCalls
    BY <1>9 DEF Keep, ServingTypeOK
  <2>2. job[c].q \in Requests /\ job[c].table \in Tables
    BY <1>1, <2>1 DEF Fitting
  <2>3. PICK x : x = [gen |-> job[c].table.gen, route |-> job[c].route,
                      variant |-> job[c].q.variant, path |-> job[c].q.path,
                      answer |-> job[c].answer, expires |-> now + TTL]
    OBVIOUS
  <2>4. x.gen \in 0 .. MaxReloads /\ x.variant \in Variants /\ x.path \in Paths
    BY <2>2, <2>3 DEF Requests, Tables
  <2>5. \A e \in entries' : e \in entries \/ e = x
    BY <1>9, <2>3 DEF Keep
  <2>6. CacheTypes'
    BY <2>4, <2>5 DEF CacheTypes, ServingTypeOK
  <2>7. GoTypes'
    BY <2>1, GotosTypes
  <2> QED
    BY <1>2, <2>1, <2>6, <2>7
<1> QED
  BY <1>5, <1>6, <1>7, <1>8, <1>9 DEF RequestStep, Done

LEMMA ServingTypeNext ==
  ASSUME Placed, ServingTypeOK, [ServingNext]_servingVars
  PROVE  ServingTypeOK'
<1>1. CASE ReadSites
  <2>1. ReadTypes'
    BY <1>1 DEF ReadSites, ReadTypes, ServingTypeOK
  <2> QED
    BY <1>1, <2>1 DEF ReadSites, ReadTypes, ServingTypeOK, site
<1>2. CASE Reload
  <2>1. PICK r \in Rows : read = <<r>>
    BY <1>2 DEF Reload, ServingTypeOK
  <2>2. routing.gen \in 0 .. MaxReloads /\ routing.gen < MaxReloads
    BY <1>2 DEF Reload, ServingTypeOK, Tables
  <2>3. routing.gen + 1 \in 0 .. MaxReloads
    BY <2>2, ServingAssumption
  <2>4. routing' = Compiled(routing.gen + 1, r)
    BY <1>2, <2>1 DEF Reload
  <2>5. routing' \in Tables
    BY <2>3, <2>4, CompiledTable DEF ServingTypeOK
  <2>6. read' = <<>> /\ UNCHANGED <<row, port, told, entries, doing, job, now, calls, halfway>>
    BY <1>2 DEF Reload, site
  <2> QED
    BY <2>5, <2>6 DEF ServingTypeOK
<1>3. CASE Tick
  <2>0. now \in 0 .. MaxTime /\ now < MaxTime /\ now' = now + 1 /\ MaxTime \in Nat
    BY <1>3, ServingAssumption DEF Tick, ServingTypeOK
  <2>1. now' \in 0 .. MaxTime
    BY <2>0, Counted
  <2> QED
    BY <1>3, <2>1 DEF Tick, ServingTypeOK, site
<1>4. CASE UNCHANGED servingVars
  BY <1>4 DEF servingVars, ServingTypeOK
<1> QED
  BY <1>1, <1>2, <1>3, <1>4, PanelTypes, RequestTypes DEF ServingNext, PanelStep, RequestStep

\* Tables and rows, entries and goroutines keep their types, and every request has the
\* first route of its own table that matches, which no reload takes away.
THEOREM ServingTypeCorrect == ServingSpec => []ServingTypeOK
<1>1. ServingInit => Placed /\ ServingTypeOK
  BY StoredInit, ServingTypeInit
<1>2. Placed /\ ServingTypeOK /\ [ServingNext]_servingVars => (Placed /\ ServingTypeOK)'
  BY PlacedNext, ServingTypeNext
<1> QED
  BY <1>1, <1>2, PTL DEF ServingSpec

-----------------------------------------------------------------------------
(* Hot reload.                                                             *)

USE DataPlaneAssumption

-----------------------------------------------------------------------------
(* Types.                                                                  *)

LEMMA InitType == Init => TypeOK
<1> SUFFICES ASSUME Init PROVE TypeOK
  OBVIOUS
<1>1. db \in [Parts -> Nat] /\ \A k \in Parts : db[k] \in 1 .. Limit(k)
  BY DEF Init, Limit
<1>2. needs \in [0 .. MaxVersion -> Nat] /\ owed \in [Parts -> Nat]
  BY DEF Init
<1>3. pidfile \in 0 .. MaxBoots /\ boots \in 0 .. MaxBoots /\ sent \in [Handlers -> 0 .. MaxBoots]
  BY DEF Init, NoPid
<1>4. done \in [Readers -> 0 .. 3] /\ build \in [Readers -> [Parts -> Nat]]
  BY DEF Init, NoVersions, Lost
<1>5. table \in [RouteParts -> Nat] /\ snapshot \in [ZoneParts -> Nat]
  BY DEF Init, Lost
<1>6. at \in [Handlers -> {"idle", "notify", "kill"}] /\ solver \in [Solvers -> Solving]
      /\ asked \in [Solvers -> Nat] /\ plane \in Booting \cup Serving \cup {"down"} /\ hup \in BOOLEAN
  BY DEF Init, Solving
<1> QED
  BY <1>1, <1>2, <1>3, <1>4, <1>5, <1>6 DEF TypeOK

LEMMA PartsKnown == RouteParts \subseteq Parts /\ ZoneParts \subseteq Parts /\ "main" \in Readers
BY DEF Parts, Readers

LEMMA OrderLengths == Len(RouteOrder) = 3 /\ Len(ZoneOrder) = 3
BY DEF RouteOrder, ZoneOrder

LEMMA GoneType ==
  ASSUME TypeOK, PlaneGone, pidfile' \in 0 .. MaxBoots,
         at' \in [Handlers -> {"idle", "notify", "kill"}], sent' = sent
  PROVE  TypeOK'
<1>1. done' \in [Readers -> 0 .. 3] /\ build' \in [Readers -> [Parts -> Nat]]
  BY DEF PlaneGone, NoVersions, Lost
<1>2. table' \in [RouteParts -> Nat] /\ snapshot' \in [ZoneParts -> Nat] /\ owed' \in [Parts -> Nat]
  BY DEF PlaneGone, Lost
<1>3. solver' \in [Solvers -> Solving] /\ asked' \in [Solvers -> Nat] /\ plane' = "down" /\ hup' = FALSE
  BY DEF PlaneGone, Solving
<1>4. UNCHANGED <<db, needs, boots>>
  BY DEF PlaneGone, store
<1> QED
  BY <1>1, <1>2, <1>3, <1>4 DEF TypeOK

LEMMA CommitType ==
  ASSUME TypeOK, NEW h \in Handlers, NEW k \in Parts, Commit(h, k)
  PROVE  TypeOK'
<1>1. db' \in [Parts -> Nat] /\ \A q \in Parts : db'[q] \in 1 .. Limit(q)
  <2>1. db[k] \in 1 .. Limit(k) /\ db[k] < Limit(k) /\ Limit(k) \in Nat
    BY DEF Commit, TypeOK, Limit
  <2> QED
    BY <2>1 DEF Commit, TypeOK
<1>2. needs' \in [0 .. MaxVersion -> Nat]
  BY DEF Commit, TypeOK, Parts, RouteParts
<1>3. at' \in [Handlers -> {"idle", "notify", "kill"}]
  BY DEF Commit, TypeOK
<1> QED
  BY <1>1, <1>2, <1>3 DEF Commit, TypeOK, solvers, builds, served

LEMMA HandlerType ==
  ASSUME TypeOK, NEW h \in Handlers, ReadPidfile(h) \/ SendHup(h)
  PROVE  TypeOK'
<1>1. CASE ReadPidfile(h)
  BY <1>1 DEF ReadPidfile, TypeOK, store, solvers, builds, served
<1>2. CASE SendHup(h)
  <2>1. at' \in [Handlers -> {"idle", "notify", "kill"}] /\ sent' = sent /\ pidfile' = pidfile
    BY <1>2 DEF SendHup, TypeOK
  <2>2. CASE PlaneGone
    BY <2>1, <2>2, GoneType DEF TypeOK
  <2>3. CASE ~PlaneGone
    BY <1>2, <2>1, <2>3 DEF SendHup, TypeOK, store, solvers, builds, served
  <2> QED
    BY <2>2, <2>3
<1> QED
  BY <1>1, <1>2

BuildType ==
  /\ done \in [Readers -> 0 .. 3]
  /\ build \in [Readers -> [Parts -> Nat]]

LEMMA QueryType ==
  ASSUME TypeOK, NEW r \in Readers, NEW k \in Parts, NEW order, Len(order) = 3,
         ReadPart(r, order, k) \/ LosePart(r, order, k)
  PROVE  BuildType'
<1>1. done' \in [Readers -> 0 .. 3]
  <2>1. done' = [done EXCEPT ![r] = done[r] + 1] /\ done[r] < 3
    BY DEF ReadPart, LosePart
  <2>2. done[r] \in 0 .. 3
    BY DEF TypeOK
  <2>3. done[r] + 1 \in 0 .. 3
    BY <2>1, <2>2
  <2> QED
    BY <2>1, <2>3 DEF TypeOK
<1>2. PICK v \in Nat : build' = [build EXCEPT ![r] = [build[r] EXCEPT ![k] = v]]
  BY DEF ReadPart, LosePart, Lost, TypeOK
<1>3. [build[r] EXCEPT ![k] = v] \in [Parts -> Nat]
  BY DEF TypeOK
<1>4. build' \in [Readers -> [Parts -> Nat]]
  BY <1>2, <1>3 DEF TypeOK
<1> QED
  BY <1>1, <1>4 DEF BuildType

LEMMA AfreshType ==
  ASSUME TypeOK, NEW r \in Readers, Afresh(r)
  PROVE  BuildType'
BY DEF Afresh, TypeOK, BuildType, NoVersions, Lost

LEMMA PlaneType ==
  ASSUME TypeOK, PlaneStep
  PROVE  TypeOK'
<1> USE PartsKnown
<1>1. CASE TakeHup
  BY <1>1 DEF TakeHup, TypeOK, store, callers, solvers, builds, served, Booting, Serving
<1>2. CASE QueryRoutes
  <2>1. BuildType'
    BY <1>2, QueryType, OrderLengths DEF QueryRoutes
  <2> QED
    BY <1>2, <2>1 DEF QueryRoutes, BuildType, TypeOK, store, callers, solvers, served
<1>3. CASE RoutesFail
  <2>1. CASE PlaneGone
    BY <1>3, <2>1, GoneType DEF RoutesFail, callers, TypeOK
  <2>2. CASE ~PlaneGone
    <3>1. plane' = "idle" /\ owed' = [k \in Parts |-> 0]
          /\ UNCHANGED <<db, needs, at, sent, pidfile, boots, hup, solver, asked, done, build,
                         table, snapshot>>
      BY <1>3, <2>2 DEF RoutesFail, store, callers, solvers, builds, served
    <3>2. owed' \in [Parts -> Nat]
      BY <3>1
    <3> QED
      BY <3>1, <3>2 DEF TypeOK, Serving
  <2> QED
    BY <2>1, <2>2
<1>4. CASE SwapRoutes
  <2>1. BuildType'
    BY <1>4, AfreshType DEF SwapRoutes
  <2>4. build["main"] \in [Parts -> Nat] /\ table' = [k \in RouteParts |-> build["main"][k]]
    BY <1>4 DEF SwapRoutes, TypeOK
  <2>5. table' \in [RouteParts -> Nat]
    BY <2>4
  <2>2. owed' \in [Parts -> Nat]
    BY <1>4 DEF SwapRoutes, Forgives, TypeOK
  <2> QED
    BY <1>4, <2>1, <2>2, <2>5 DEF SwapRoutes, BuildType, TypeOK, store, callers, solvers,
                            Booting, Serving
<1>5. CASE QueryZones
  <2>1. BuildType'
    BY <1>5, QueryType, OrderLengths DEF QueryZones
  <2> QED
    BY <1>5, <2>1 DEF QueryZones, BuildType, TypeOK, store, callers, solvers, served
<1>6. CASE SwapZones
  <2>1. BuildType' /\ snapshot' \in [ZoneParts -> Nat]
    BY <1>6, AfreshType DEF SwapZones, TypeOK
  <2> QED
    BY <1>6, <2>1 DEF SwapZones, AfterZones, BuildType, TypeOK, store, callers, solvers,
                      Booting, Serving
<1>7. CASE ZonesFail
  <2>1. BuildType' /\ snapshot' \in [ZoneParts -> Nat]
    BY <1>7, AfreshType DEF ZonesFail, ReadFails, TypeOK, Lost
  <2>2. owed' \in [Parts -> Nat]
    BY <1>7 DEF ZonesFail, TypeOK
  <2> QED
    BY <1>7, <2>1, <2>2 DEF ZonesFail, AfterZones, BuildType, TypeOK, store, callers,
                            solvers, Booting, Serving
<1>8. CASE WritePidfile
  BY <1>8 DEF WritePidfile, TypeOK, store, callers, solvers, builds, served, Booting, Serving
<1>9. CASE InstallHandler
  BY <1>9 DEF InstallHandler, TypeOK, store, callers, solvers, builds, served, Booting, Serving
<1> QED
  BY <1>1, <1>2, <1>3, <1>4, <1>5, <1>6, <1>7, <1>8, <1>9 DEF PlaneStep

LEMMA SolverType ==
  ASSUME TypeOK, NEW s \in Solvers, ChangeTXT(s) \/ TXTAlready(s) \/ SolverStep(s)
  PROVE  TypeOK'
<1> USE PartsKnown
<1>0. s \in Readers
  BY DEF Readers
<1>1. CASE ChangeTXT(s)
  <2>1. "records" \in Parts /\ Limit("records") = MaxRecords
    BY DEF Parts, ZoneParts, Limit
  <2>2. db' \in [Parts -> Nat] /\ \A q \in Parts : db'[q] \in 1 .. Limit(q)
    BY <1>1, <2>1 DEF ChangeTXT, TypeOK
  <2>3. asked' \in [Solvers -> Nat] /\ solver' \in [Solvers -> Solving]
    BY <1>1, <2>1 DEF ChangeTXT, TypeOK, Solving
  <2> QED
    BY <1>1, <2>2, <2>3 DEF ChangeTXT, TypeOK, callers, builds, served
<1>2. CASE TXTAlready(s)
  BY <1>2 DEF TXTAlready, TypeOK, store, callers, builds, served, Solving
<1>3. CASE SolverQuery(s)
  <2>1. BuildType'
    BY <1>0, <1>3, QueryType, OrderLengths DEF SolverQuery
  <2> QED
    BY <1>3, <2>1 DEF SolverQuery, BuildType, TypeOK, store, callers, solvers, served
<1>4. CASE SolverSwap(s)
  <2>1. BuildType' /\ snapshot' \in [ZoneParts -> Nat]
    BY <1>0, <1>4, AfreshType DEF SolverSwap, TypeOK
  <2> QED
    BY <1>4, <2>1 DEF SolverSwap, Reloaded, BuildType, TypeOK, store, callers, Solving
<1>5. CASE SolverFails(s)
  <2>1. BuildType'
    BY <1>0, <1>5, AfreshType DEF SolverFails, ReadFails
  <2> QED
    BY <1>5, <2>1 DEF SolverFails, Reloaded, BuildType, TypeOK, store, callers, served, Solving
<1> QED
  BY <1>1, <1>2, <1>3, <1>4, <1>5 DEF SolverStep

LEMMA NextType == TypeOK /\ [Next]_planeVars => TypeOK'
<1> SUFFICES ASSUME TypeOK, [Next]_planeVars PROVE TypeOK'
  OBVIOUS
<1>1. CASE BootPlane
  <2>0. boots \in 0 .. MaxBoots /\ MaxBoots \in Nat /\ boots < MaxBoots /\ boots' = boots + 1
    BY <1>1 DEF BootPlane, TypeOK
  <2>1. boots' \in 0 .. MaxBoots
    BY <2>0
  <2>2. plane' \in Booting \cup Serving \cup {"down"}
        /\ UNCHANGED <<db, needs, at, sent, pidfile, hup, solver, asked, done, build, table,
                       snapshot, owed>>
    BY <1>1 DEF BootPlane, store, callers, solvers, builds, served, Booting
  <2> QED
    BY <2>1, <2>2 DEF TypeOK
<1>2. CASE Crash
  BY <1>2, GoneType DEF Crash, callers, TypeOK
<1>3. CASE Shutdown
  <2>1. pidfile' \in 0 .. MaxBoots
    BY <1>3 DEF Shutdown, TypeOK, NoPid
  <2> QED
    BY <1>3, <2>1, GoneType DEF Shutdown, callers, TypeOK
<1>4. CASE UNCHANGED planeVars
  BY <1>4 DEF planeVars, TypeOK
<1> QED
  BY <1>1, <1>2, <1>3, <1>4, CommitType, HandlerType, PlaneType, SolverType DEF Next

\* Hot reload keeps its types.
THEOREM TypeCorrect == Spec => []TypeOK
BY InitType, NextType, PTL DEF Spec

-----------------------------------------------------------------------------
(* The inductive invariant.                                                *)

LEMMA RouteNames ==
  /\ RouteParts = {"sites", "aliases", "apps"} /\ RouteParts \subseteq Parts
  /\ RouteOrder[1] = "sites" /\ RouteOrder[2] = "aliases" /\ RouteOrder[3] = "apps"
BY DEF RouteParts, RouteOrder, Parts

\* What the invariant speaks of is a number.
LEMMA Typing ==
  ASSUME TypeOK
  PROVE  /\ \A k \in RouteParts : db[k] \in Nat /\ table[k] \in Nat /\ build["main"][k] \in Nat
         /\ done["main"] \in 0 .. 3 /\ build["main"] \in [Parts -> Nat]
         /\ needs \in [0 .. MaxVersion -> Nat]
         /\ db["sites"] \in 1 .. MaxVersion /\ MaxVersion \in Nat
<1> USE PartsKnown, RouteNames
<1>1. db \in [Parts -> Nat] /\ table \in [RouteParts -> Nat] /\ build \in [Readers -> [Parts -> Nat]]
      /\ done \in [Readers -> 0 .. 3] /\ needs \in [0 .. MaxVersion -> Nat]
  BY DEF TypeOK
<1>2. db["sites"] \in 1 .. Limit("sites") /\ Limit("sites") = MaxVersion
  BY DEF TypeOK, Limit
<1>3. build["main"] \in [Parts -> Nat] /\ done["main"] \in 0 .. 3
  BY <1>1
<1>4. \A k \in RouteParts : db[k] \in Nat /\ table[k] \in Nat /\ build["main"][k] \in Nat
  BY <1>1, <1>3
<1> QED
  BY <1>1, <1>2, <1>3, <1>4

LEMMA InitSafe == Init => SafeInv
<1> SUFFICES ASSUME Init PROVE SafeInv
  OBVIOUS
<1>1. \A k \in RouteParts : db[k] = 1 /\ table[k] = Lost
  BY RouteNames DEF Init
<1>2. \A v \in 0 .. 1 : needs[v] <= 1
  <2>1. 0 .. 1 \subseteq 0 .. MaxVersion
    OBVIOUS
  <2> QED
    BY <2>1 DEF Init
<1>3. StoreInv
  BY <1>1, <1>2, RouteNames DEF StoreInv, Lost
<1>4. BuildInv
  BY PartsKnown DEF Init, BuildInv, BuildingRoutes
<1> QED
  BY <1>3, <1>4 DEF SafeInv

\* A commit moves the store on, under the feet of a build and of the table.
LEMMA CommitSafe ==
  ASSUME TypeOK, SafeInv, NEW h \in Handlers, NEW k \in Parts, Commit(h, k)
  PROVE  SafeInv'
<1> USE RouteNames
<1>0. UNCHANGED <<plane, done, build, table>>
  BY DEF Commit, builds, served
<1>a. db \in [Parts -> Nat] /\ db' = [db EXCEPT ![k] = db[k] + 1]
  BY DEF Commit, TypeOK
<1>1. \A q \in Parts : db[q] \in Nat /\ db'[q] \in Nat /\ db'[q] >= db[q]
  BY <1>a
<1>2. db["sites"] \in 0 .. MaxVersion /\ db'["sites"] \in 0 .. MaxVersion
  <2>1. db["sites"] \in 1 .. MaxVersion /\ db'["sites"] \in 1 .. MaxVersion
    <3>1. Limit("sites") = MaxVersion
      BY DEF Limit
    <3> QED
      BY <3>1, CommitType DEF TypeOK
  <2> QED
    BY <2>1
<1>3. \A v \in 0 .. db["sites"] : needs'[v] = needs[v]
  <2>1. CASE k = "sites"
    BY <1>1, <1>2, <2>1 DEF Commit, TypeOK
  <2>2. CASE k # "sites"
    BY <2>2 DEF Commit
  <2> QED
    BY <2>1, <2>2
<1>4. ASSUME NEW v \in 0 .. db'["sites"] PROVE needs'[v] <= db'["apps"]
  <2>1. CASE v \in 0 .. db["sites"]
    <3>1. needs[v] <= db["apps"]
      BY <2>1 DEF SafeInv, StoreInv
    <3>2. needs[v] \in Nat
      <4>1. v \in 0 .. MaxVersion
        BY <1>2, <2>1
      <4> QED
        BY <4>1 DEF TypeOK
    <3>3. db["apps"] \in Nat /\ db'["apps"] \in Nat /\ db'["apps"] >= db["apps"]
      BY <1>1
    <3>4. needs'[v] = needs[v]
      BY <1>3, <2>1
    <3> QED
      BY <3>1, <3>2, <3>3, <3>4
  <2>2. CASE v \notin 0 .. db["sites"]
    <3>1. k = "sites" /\ v = db["sites"] + 1
      BY <1>1, <2>2 DEF Commit, TypeOK
    <3>2. needs'[v] = db["apps"] /\ db'["apps"] = db["apps"]
      BY <1>2, <3>1 DEF Commit, TypeOK
    <3> QED
      BY <1>1, <3>2
  <2> QED
    BY <2>1, <2>2
<1>5. StoreInv'
  <2>1. \A q \in RouteParts : table'[q] <= db'[q]
    <3> SUFFICES ASSUME NEW q \in RouteParts PROVE table[q] <= db'[q]
      BY <1>0
    <3>1. table[q] \in Nat /\ db[q] \in Nat /\ db'[q] \in Nat /\ db'[q] >= db[q]
      BY <1>1, Typing
    <3> QED
      BY <3>1 DEF SafeInv, StoreInv
  <2>2. table["sites"] \in 0 .. db["sites"]
    BY Typing DEF SafeInv, StoreInv
  <2>3. table'["apps"] # Lost => table'["apps"] >= needs'[table'["sites"]]
    BY <1>0, <1>3, <2>2 DEF SafeInv, StoreInv
  <2> QED
    BY <1>4, <2>1, <2>3 DEF StoreInv
<1>6. BuildInv'
  <2>1. \A q \in RouteParts : build["main"][q] <= db[q] => build["main"][q] <= db'[q]
    <3> SUFFICES ASSUME NEW q \in RouteParts, build["main"][q] <= db[q] PROVE build["main"][q] <= db'[q]
      OBVIOUS
    <3>1. build["main"][q] \in Nat /\ db[q] \in Nat /\ db'[q] \in Nat /\ db'[q] >= db[q]
      BY <1>1, Typing
    <3> QED
      BY <3>1
  <2>2. SitesRead => SitesRead'
    BY <1>0, <2>1, RouteNames DEF SitesRead
  <2>3. AliasesRead => AliasesRead'
    BY <1>0, <2>1, RouteNames DEF AliasesRead
  <2>4. SitesRead /\ AppsRead => AppsRead'
    <3>1. SitesRead => build["main"]["sites"] \in 0 .. db["sites"]
      BY Typing, RouteNames DEF SitesRead
    <3>2. SitesRead => needs'[build["main"]["sites"]] = needs[build["main"]["sites"]]
      BY <1>3, <3>1
    <3> QED
      BY <1>0, <2>1, <3>2, RouteNames DEF AppsRead
  <2>5. BuildingRoutes' = BuildingRoutes /\ BuildingZones' = BuildingZones /\ done' = done
    BY <1>0 DEF BuildingRoutes, BuildingZones
  <2> QED
    BY <2>2, <2>3, <2>4, <2>5 DEF SafeInv, BuildInv
<1> QED
  BY <1>5, <1>6 DEF SafeInv

\* A dead data plane serves nothing and builds nothing.
LEMMA GoneSafe ==
  ASSUME TypeOK, SafeInv, PlaneGone
  PROVE  SafeInv'
<1>1. done'["main"] = 0 /\ table' = [k \in RouteParts |-> Lost] /\ UNCHANGED <<db, needs>>
  BY PartsKnown DEF PlaneGone, store
<1>2. \A k \in RouteParts : table'[k] = 0 /\ table'[k] <= db'[k]
  BY <1>1, Typing DEF Lost
<1>3. StoreInv'
  BY <1>1, <1>2, RouteNames DEF SafeInv, StoreInv, Lost
<1>4. BuildInv'
  BY <1>1 DEF BuildInv
<1> QED
  BY <1>3, <1>4 DEF SafeInv

\* Steps that leave the store, the table and the builder alone.
LEMMA SameSafe ==
  ASSUME SafeInv, \A k \in RouteParts : db'[k] = db[k], needs' = needs, table' = table,
         done'["main"] = done["main"], build'["main"] = build["main"],
         plane' = plane \/ done["main"] = 0
  PROVE  SafeInv'
<1> USE RouteNames
<1>1. StoreInv'
  BY DEF SafeInv, StoreInv
<1>2. SitesRead' = SitesRead /\ AliasesRead' = AliasesRead /\ AppsRead' = AppsRead
  BY DEF SitesRead, AliasesRead, AppsRead
<1>3. CASE plane' = plane
  BY <1>1, <1>2, <1>3 DEF SafeInv, BuildInv, BuildingRoutes, BuildingZones
<1>4. CASE done["main"] = 0
  BY <1>1, <1>4 DEF SafeInv, BuildInv
<1> QED
  BY <1>3, <1>4

\* A query of the builder: which part it reads, and what it makes of it.
LEMMA ReadMain ==
  ASSUME TypeOK, NEW k \in Parts, NEW order, Len(order) = 3,
         ReadPart("main", order, k) \/ LosePart("main", order, k)
  PROVE  /\ done["main"] \in 0 .. 2 /\ done'["main"] = done["main"] + 1
         /\ k = order[done["main"] + 1]
         /\ \A q \in Parts \ {k} : build'["main"][q] = build["main"][q]
         /\ build'["main"][k] \in {db[k], Lost}
         /\ ReadPart("main", order, k) => build'["main"][k] = db[k]
<1> USE PartsKnown
<1>1. done \in [Readers -> 0 .. 3] /\ build \in [Readers -> [Parts -> Nat]]
  BY DEF TypeOK
<1>2. done' = [done EXCEPT !["main"] = done["main"] + 1] /\ done["main"] < 3
      /\ k = order[done["main"] + 1]
  BY DEF ReadPart, LosePart
<1>3. done["main"] \in 0 .. 2 /\ done'["main"] = done["main"] + 1
  <2>1. done["main"] \in 0 .. 3
    BY <1>1
  <2> QED
    BY <1>1, <1>2, <2>1
<1>4. PICK v \in {db[k], Lost} :
        /\ build' = [build EXCEPT !["main"] = [build["main"] EXCEPT ![k] = v]]
        /\ ReadPart("main", order, k) => v = db[k]
  <2>1. CASE ReadPart("main", order, k)
    BY <2>1 DEF ReadPart
  <2>2. CASE ~ReadPart("main", order, k)
    BY <2>2 DEF LosePart
  <2> QED
    BY <2>1, <2>2
<1>5. build'["main"] = [build["main"] EXCEPT ![k] = v] /\ build["main"] \in [Parts -> Nat]
  BY <1>1, <1>4
<1>6. build'["main"][k] = v /\ \A q \in Parts \ {k} : build'["main"][q] = build["main"][q]
  BY <1>5
<1> QED
  BY <1>2, <1>3, <1>4, <1>6

LEMMA QueryRoutesSafe ==
  ASSUME TypeOK, SafeInv, QueryRoutes
  PROVE  SafeInv'
<1> USE RouteNames, PartsKnown
<1>1. PICK k \in RouteParts :
        ReadPart("main", RouteOrder, k) \/ (k # "sites" /\ LosePart("main", RouteOrder, k))
  BY DEF QueryRoutes
<1>2. BuildingRoutes /\ plane' = plane /\ db' = db /\ needs' = needs /\ table' = table
  BY DEF QueryRoutes, store, served
<1>3. /\ done["main"] \in 0 .. 2 /\ done'["main"] = done["main"] + 1
      /\ k = RouteOrder[done["main"] + 1]
      /\ \A q \in RouteParts \ {k} : build'["main"][q] = build["main"][q]
      /\ build'["main"][k] \in {db[k], Lost}
      /\ k = "sites" => build'["main"][k] = db[k]
  BY <1>1, ReadMain, OrderLengths
<1>4. \A q \in RouteParts : table[q] <= db[q] /\ db[q] \in Nat /\ table[q] \in Nat
                           /\ build["main"][q] \in Nat
  BY Typing DEF SafeInv, StoreInv
<1>5. StoreInv'
  BY <1>2 DEF SafeInv, StoreInv
<1>6. BuildingRoutes' /\ plane' \in {"boot routes", "routes"}
  BY <1>2 DEF BuildingRoutes
<1>7. CASE done["main"] = 0
  <2>1. build'["main"]["sites"] = db["sites"] /\ done'["main"] = 1
    BY <1>3, <1>7
  <2>2. SitesRead'
    BY <1>2, <1>4, <2>1 DEF SitesRead
  <2> QED
    BY <1>5, <1>6, <2>1, <2>2 DEF SafeInv, BuildInv
<1>8. CASE done["main"] = 1
  <2>1. build'["main"]["sites"] = build["main"]["sites"]
        /\ build'["main"]["aliases"] \in {db["aliases"], Lost} /\ done'["main"] = 2
    BY <1>3, <1>8
  <2>2. SitesRead
    BY <1>2, <1>8 DEF SafeInv, BuildInv
  <2>3. SitesRead'
    BY <1>2, <2>1, <2>2 DEF SitesRead
  <2>4. AliasesRead'
    BY <1>2, <1>4, <2>1 DEF AliasesRead, Lost
  <2> QED
    BY <1>5, <1>6, <2>1, <2>3, <2>4 DEF SafeInv, BuildInv
<1>9. CASE done["main"] = 2
  <2>1. /\ build'["main"]["sites"] = build["main"]["sites"]
        /\ build'["main"]["aliases"] = build["main"]["aliases"]
        /\ build'["main"]["apps"] \in {db["apps"], Lost} /\ done'["main"] = 3
    BY <1>3, <1>9
  <2>2. SitesRead /\ AliasesRead
    BY <1>2, <1>9 DEF SafeInv, BuildInv
  <2>3. SitesRead' /\ AliasesRead'
    BY <1>2, <2>1, <2>2 DEF SitesRead, AliasesRead
  <2>4. build["main"]["sites"] \in 0 .. db["sites"]
    BY <1>4, <2>2 DEF SitesRead
  <2>5. needs[build["main"]["sites"]] <= db["apps"]
    BY <2>4 DEF SafeInv, StoreInv
  <2>6. needs[build["main"]["sites"]] \in Nat
    <3>1. 0 .. db["sites"] \subseteq 0 .. MaxVersion
      BY Typing
    <3> QED
      BY <2>4, <3>1, Typing
  <2>7. db["apps"] >= needs[build["main"]["sites"]]
    BY <1>4, <2>5, <2>6
  <2>8. AppsRead'
    BY <1>2, <1>4, <2>1, <2>7 DEF AppsRead, Lost
  <2> QED
    BY <1>5, <1>6, <2>1, <2>3, <2>8 DEF SafeInv, BuildInv
<1> QED
  BY <1>3, <1>7, <1>8, <1>9

LEMMA SwapRoutesSafe ==
  ASSUME TypeOK, SafeInv, SwapRoutes
  PROVE  /\ SafeInv'
         /\ \A k \in RouteParts : table'[k] >= table[k] \/ table'[k] = Lost
         /\ table'["sites"] >= table["sites"]
<1> USE RouteNames, PartsKnown
<1>1. done["main"] = 3 /\ done'["main"] = 0 /\ BuildingRoutes
  BY OrderLengths DEF SwapRoutes, Built, Afresh, TypeOK
<1>2. \A k \in RouteParts : table'[k] = build["main"][k]
  BY DEF SwapRoutes
<1>3. db' = db /\ needs' = needs
  BY DEF SwapRoutes, store
<1>4. /\ build["main"]["sites"] <= db["sites"] /\ build["main"]["sites"] >= table["sites"]
      /\ build["main"]["aliases"] <= db["aliases"]
      /\ build["main"]["aliases"] = Lost \/ build["main"]["aliases"] >= table["aliases"]
      /\ build["main"]["apps"] <= db["apps"]
      /\ build["main"]["apps"] = Lost \/
           /\ build["main"]["apps"] >= table["apps"]
           /\ build["main"]["apps"] >= needs[build["main"]["sites"]]
  <2>1. SitesRead /\ AliasesRead /\ AppsRead
    BY <1>1 DEF SafeInv, BuildInv
  <2> QED
    BY <2>1 DEF SitesRead, AliasesRead, AppsRead
<1>5. StoreInv'
  BY <1>2, <1>3, <1>4 DEF SafeInv, StoreInv
<1>6. BuildInv'
  BY <1>1 DEF BuildInv
<1> QED
  BY <1>2, <1>4, <1>5, <1>6 DEF SafeInv

LEMMA PlaneSafe ==
  ASSUME TypeOK, SafeInv, PlaneStep
  PROVE  SafeInv'
<1> USE PartsKnown
<1>1. CASE TakeHup
  <2>1. done["main"] = 0
    BY <1>1 DEF TakeHup, SafeInv, BuildInv, BuildingRoutes, BuildingZones
  <2> QED
    BY <1>1, <2>1, SameSafe DEF TakeHup, store, builds, served
<1>2. CASE QueryRoutes
  BY <1>2, QueryRoutesSafe
<1>3. CASE RoutesFail
  BY <1>3, GoneSafe, SameSafe DEF RoutesFail, store, builds, served
<1>4. CASE SwapRoutes
  BY <1>4, SwapRoutesSafe
<1>5. CASE QueryZones
  BY <1>5 DEF QueryZones, BuildingZones, store, served, SafeInv, StoreInv, BuildInv, BuildingRoutes
<1>6. CASE SwapZones
  BY <1>6 DEF SwapZones, BuildingZones, AfterZones, Afresh, store, TypeOK, SafeInv, StoreInv,
              BuildInv, BuildingRoutes
<1>7. CASE ZonesFail
  BY <1>7 DEF ZonesFail, ReadFails, BuildingZones, AfterZones, Afresh, store, TypeOK, SafeInv,
              StoreInv, BuildInv, BuildingRoutes
<1>8. CASE WritePidfile
  <2>1. done["main"] = 0
    BY <1>8 DEF WritePidfile, SafeInv, BuildInv, BuildingRoutes, BuildingZones
  <2> QED
    BY <1>8, <2>1, SameSafe DEF WritePidfile, store, builds, served
<1>9. CASE InstallHandler
  <2>1. done["main"] = 0
    BY <1>9 DEF InstallHandler, SafeInv, BuildInv, BuildingRoutes, BuildingZones
  <2> QED
    BY <1>9, <2>1, SameSafe DEF InstallHandler, store, builds, served
<1> QED
  BY <1>1, <1>2, <1>3, <1>4, <1>5, <1>6, <1>7, <1>8, <1>9 DEF PlaneStep

\* A solver writes the records and the snapshot, never the routes.
LEMMA SolverRests ==
  ASSUME TypeOK, NEW s \in Solvers, ChangeTXT(s) \/ TXTAlready(s) \/ SolverStep(s)
  PROVE  /\ \A k \in RouteParts : db'[k] = db[k]
         /\ done'["main"] = done["main"] /\ build'["main"] = build["main"]
<1>1. s # "main" /\ s \in Readers
  BY DEF Readers
<1>2. \A k \in RouteParts : db'[k] = db[k]
  <2>1. db \in [Parts -> Nat]
    BY DEF TypeOK
  <2>2. db' = db \/ db' = [db EXCEPT !["records"] = db["records"] + 1]
    BY DEF ChangeTXT, TXTAlready, SolverStep, SolverQuery, SolverSwap, SolverFails, store
  <2> QED
    BY <2>1, <2>2, RouteNames
<1>3. done'["main"] = done["main"] /\ build'["main"] = build["main"]
  <2>1. done \in [Readers -> 0 .. 3] /\ build \in [Readers -> [Parts -> Nat]]
    BY DEF TypeOK
  <2>2. CASE ChangeTXT(s) \/ TXTAlready(s)
    BY <2>2 DEF ChangeTXT, TXTAlready, builds
  <2>3. CASE SolverQuery(s)
    BY <1>1, <2>1, <2>3, PartsKnown DEF SolverQuery, ReadPart
  <2>4. CASE SolverSwap(s) \/ SolverFails(s)
    BY <1>1, <2>1, <2>4, PartsKnown DEF SolverSwap, SolverFails, ReadFails, Afresh
  <2> QED
    BY <2>2, <2>3, <2>4 DEF SolverStep
<1> QED
  BY <1>2, <1>3

LEMMA SolverSafe ==
  ASSUME TypeOK, SafeInv, NEW s \in Solvers, ChangeTXT(s) \/ TXTAlready(s) \/ SolverStep(s)
  PROVE  SafeInv'
<1>1. UNCHANGED <<needs, table, plane>>
  BY DEF ChangeTXT, TXTAlready, SolverStep, SolverQuery, SolverSwap, SolverFails, store, served
<1> QED
  BY <1>1, SolverRests, SameSafe

LEMMA NextSafe == TypeOK /\ SafeInv /\ [Next]_planeVars => SafeInv'
<1> SUFFICES ASSUME TypeOK, SafeInv, [Next]_planeVars PROVE SafeInv'
  OBVIOUS
<1>1. ASSUME NEW h \in Handlers, ReadPidfile(h) PROVE SafeInv'
  BY <1>1, SameSafe DEF ReadPidfile, store, builds, served
<1>2. ASSUME NEW h \in Handlers, SendHup(h) PROVE SafeInv'
  BY <1>2, SameSafe, GoneSafe DEF SendHup, store, builds, served
<1>3. CASE BootPlane
  <2>1. done["main"] = 0
    BY <1>3 DEF BootPlane, SafeInv, BuildInv, BuildingRoutes, BuildingZones
  <2> QED
    BY <1>3, <2>1, SameSafe DEF BootPlane, store, builds, served
<1>4. CASE Crash \/ Shutdown
  BY <1>4, GoneSafe DEF Crash, Shutdown
<1>5. CASE UNCHANGED planeVars
  BY <1>5, SameSafe DEF planeVars
<1> QED
  BY <1>1, <1>2, <1>3, <1>4, <1>5, CommitSafe, PlaneSafe, SolverSafe DEF Next

LEMMA InvCorrect == Spec => [](TypeOK /\ SafeInv)
<1>1. Init => TypeOK /\ SafeInv
  BY InitType, InitSafe
<1>2. TypeOK /\ SafeInv /\ [Next]_planeVars => (TypeOK /\ SafeInv)'
  BY NextType, NextSafe
<1> QED
  BY <1>1, <1>2, PTL DEF Spec

\* A served table resolves every app its sites mount, however the commits of
\* the handlers fall between the queries it was built from.
THEOREM AppsResolveAlways == Spec => []AppsResolve
<1>1. TypeOK /\ SafeInv => AppsResolve
  BY DEF SafeInv, StoreInv, AppsResolve
<1> QED
  BY <1>1, InvCorrect, PTL

\* The route table of a running data plane only moves on.
THEOREM TableAlwaysMovesOn == Spec => TableMovesOn
<1> DEFINE MovesOn ==
      plane \notin {"down", "boot routes"} /\ plane' # "down" =>
        /\ table'["sites"] >= table["sites"]
        /\ \A k \in RouteParts : table'[k] >= table[k] \/ table'[k] = Lost
<1>1. TypeOK /\ SafeInv /\ [Next]_planeVars => [MovesOn]_planeVars
  <2> SUFFICES ASSUME TypeOK, SafeInv, Next PROVE MovesOn
    OBVIOUS
  <2>1. CASE table' = table
    <3>1. \A k \in RouteParts : table[k] \in Nat /\ table[k] >= table[k]
      BY Typing
    <3> QED
      BY <2>1, <3>1, RouteNames
  <2>2. CASE SwapRoutes
    BY <2>2, SwapRoutesSafe
  <2>3. CASE PlaneGone
    BY <2>3 DEF PlaneGone
  <2> QED
    BY <2>1, <2>2, <2>3 DEF Next, PlaneStep, SolverStep, ReadPidfile, SendHup, Commit, TakeHup,
       QueryRoutes, RoutesFail, QueryZones, SwapZones, ZonesFail, WritePidfile, InstallHandler,
       ChangeTXT, TXTAlready, SolverQuery, SolverSwap, SolverFails, BootPlane, Crash, Shutdown,
       served
<1> QED
  BY <1>1, InvCorrect, PTL DEF Spec, TableMovesOn

-----------------------------------------------------------------------------
(* Promises.                                                               *)

\* Nothing is promised.
LEMMA OwedNothing ==
  ASSUME TypeOK', \A k \in RouteParts : owed'[k] = 0
  PROVE  OwedInv'
<1>1. \A k \in RouteParts : db'[k] \in Nat /\ table'[k] \in Nat
  BY RouteNames DEF TypeOK
<1>2. \A k \in RouteParts : owed'[k] <= db'[k] /\ owed'[k] <= table'[k]
  BY <1>1
<1> QED
  BY <1>2 DEF OwedInv

\* A data plane that does not serve has promised nothing.
LEMMA OwedBefore ==
  ASSUME TypeOK', OwedInv, plane \notin Serving, \A k \in RouteParts : owed'[k] = owed[k]
  PROVE  OwedInv'
<1>1. \A k \in RouteParts : owed'[k] = 0
  BY DEF OwedInv
<1> QED
  BY <1>1, OwedNothing

\* A signal waits.
LEMMA OwedWaits ==
  ASSUME plane' \in Serving, hup' = TRUE, \A k \in RouteParts : owed'[k] <= db'[k]
  PROVE  OwedInv'
  BY DEF OwedInv

LEMMA StoreGrows ==
  ASSUME TypeOK, OwedInv, NEW k \in RouteParts, owed'[k] = owed[k],
         db'[k] = db[k] \/ db'[k] = db[k] + 1
  PROVE  owed'[k] <= db'[k]
<1>1. owed[k] \in Nat /\ db[k] \in Nat /\ owed[k] <= db[k]
  BY RouteNames DEF TypeOK, OwedInv
<1> QED
  BY <1>1

\* The reload and what it serves are left alone; the store may move on.
LEMMA OwedRests ==
  ASSUME TypeOK, OwedInv, UNCHANGED <<owed, table, plane, hup>>,
         done'["main"] = done["main"], build'["main"] = build["main"],
         \A k \in RouteParts : db'[k] = db[k] \/ db'[k] = db[k] + 1
  PROVE  OwedInv'
<1>1. \A k \in RouteParts : owed'[k] <= db'[k]
  BY StoreGrows
<1>2. \A k \in RouteParts : Coming(k)' <=> Coming(k)
  BY DEF Coming, Unread
<1> QED
  BY <1>1, <1>2 DEF OwedInv

\* Past the swap of the routes.
LEMMA OwedServed ==
  ASSUME TypeOK, TypeOK', OwedInv, BuildingZones, UNCHANGED <<table, hup>>,
         plane \in Serving => plane' \in Serving,
         \A k \in RouteParts : owed'[k] = owed[k] /\ db'[k] = db[k]
  PROVE  OwedInv'
<1>1. CASE plane \notin Serving
  BY <1>1, OwedBefore
<1>2. CASE plane \in Serving
  <2>1. \A k \in RouteParts : owed'[k] <= db'[k]
    BY StoreGrows
  <2>2. ~hup => \A k \in RouteParts : owed[k] <= table[k]
    BY DEF OwedInv, BuildingZones, Coming
  <2> QED
    BY <1>2, <2>1, <2>2 DEF OwedInv
<1> QED
  BY <1>1, <1>2

LEMMA QueryRoutesOwed ==
  ASSUME TypeOK, TypeOK', OwedInv, QueryRoutes
  PROVE  OwedInv'
<1>1. UNCHANGED <<db, plane, hup, table, owed>>
  BY DEF QueryRoutes, store, served
<1>2. CASE plane \notin Serving
  BY <1>1, <1>2, OwedBefore
<1>3. CASE plane \in Serving
  <2>1. PICK q \in RouteParts :
          ReadPart("main", RouteOrder, q) \/ LosePart("main", RouteOrder, q)
    BY DEF QueryRoutes
  <2>2. /\ done["main"] \in 0 .. 2 /\ done'["main"] = done["main"] + 1
        /\ q = RouteOrder[done["main"] + 1]
        /\ \A k \in RouteParts \ {q} : build'["main"][k] = build["main"][k]
        /\ build'["main"][q] \in {db[q], Lost}
    BY <2>1, ReadMain, RouteNames, OrderLengths
  <2>3. \A i \in 1 .. done'["main"] : i \in 1 .. done["main"] \/ RouteOrder[i] = q
    BY <2>2
  <2>4. \A k \in RouteParts : owed'[k] <= db'[k]
    BY <1>1, StoreGrows
  <2>5. ASSUME NEW k \in RouteParts, Coming(k) PROVE Coming(k)'
    <3>1. CASE k = q
      <4>1. owed[q] \in Nat /\ db[q] \in Nat /\ owed[q] <= db[q]
        BY RouteNames DEF TypeOK, OwedInv
      <4>2. build'["main"][q] >= owed[q] \/ build'["main"][q] = Lost
        BY <2>2, <4>1
      <4> QED
        BY <1>1, <2>5, <3>1, <4>2 DEF Coming
    <3>2. CASE k # q
      <4>1. Unread(k) => Unread(k)'
        BY <2>3, <3>2 DEF Unread
      <4> QED
        BY <1>1, <2>2, <2>5, <3>2, <4>1 DEF Coming
    <3> QED
      BY <3>1, <3>2
  <2> QED
    BY <1>1, <1>3, <2>4, <2>5 DEF OwedInv
<1> QED
  BY <1>2, <1>3

LEMMA SwapRoutesOwed ==
  ASSUME TypeOK, TypeOK', SafeInv, OwedInv, SwapRoutes
  PROVE  OwedInv'
<1>1. /\ done["main"] = 3 /\ BuildingRoutes /\ UNCHANGED <<db, hup>>
      /\ \A k \in RouteParts : table'[k] = build["main"][k]
      /\ plane' = IF plane = "boot routes" THEN "boot zones" ELSE "zones"
  BY OrderLengths DEF SwapRoutes, Built, store
<1>2. \A k \in RouteParts : owed'[k] = IF table'[k] = Lost THEN 0 ELSE owed[k]
  BY RouteNames DEF SwapRoutes, Forgives
<1>3. \A k \in RouteParts :
        /\ owed[k] \in Nat /\ db[k] \in Nat /\ table[k] \in Nat /\ table'[k] \in Nat
        /\ owed[k] <= db[k]
  BY RouteNames DEF TypeOK, OwedInv
<1>4. CASE plane = "boot routes"
  <2>1. \A k \in RouteParts : owed'[k] = 0
    BY <1>2, <1>4 DEF OwedInv, Serving
  <2> QED
    BY <2>1, OwedNothing
<1>5. CASE plane = "routes"
  <2>1. ASSUME NEW k \in RouteParts PROVE owed'[k] <= db'[k]
    <3>1. owed'[k] = 0 \/ owed'[k] = owed[k]
      BY <1>2
    <3>2. db'[k] = db[k]
      BY <1>1
    <3> QED
      BY <1>3, <3>1, <3>2
  <2>2. \A k \in RouteParts : ~Unread(k)
    <3>1. \A k \in RouteParts : \E i \in 1 .. 3 : RouteOrder[i] = k
      BY RouteNames
    <3> QED
      BY <1>1, <3>1 DEF Unread
  <2>3. \A k \in RouteParts : table'[k] >= table[k] \/ table'[k] = Lost
    BY SwapRoutesSafe
  <2>4. ASSUME NEW k \in RouteParts, ~hup PROVE owed'[k] <= table'[k]
    <3>1. owed[k] <= table[k] \/ table'[k] >= owed[k] \/ table'[k] = Lost
      BY <1>1, <2>2, <2>4 DEF OwedInv, Coming
    <3> QED
      BY <1>2, <1>3, <2>3, <3>1 DEF Lost
  <2>5. plane' \in Serving
    BY <1>1, <1>5 DEF Serving
  <2> QED
    BY <1>1, <2>1, <2>4, <2>5 DEF OwedInv
<1> QED
  BY <1>1, <1>4, <1>5 DEF BuildingRoutes

LEMMA PlaneOwed ==
  ASSUME TypeOK, TypeOK', SafeInv, OwedInv, PlaneStep
  PROVE  OwedInv'
<1>1. CASE TakeHup
  <2>1. UNCHANGED <<db, owed, done>> /\ plane' = "routes" /\ done["main"] = 0
    BY <1>1 DEF TakeHup, store, builds, SafeInv, BuildInv, BuildingRoutes, BuildingZones
  <2>2. \A k \in RouteParts : Coming(k)'
    BY <2>1 DEF Coming, Unread
  <2>3. \A k \in RouteParts : owed'[k] <= db'[k]
    BY <2>1, StoreGrows
  <2>4. plane' \in Serving
    BY <2>1 DEF Serving
  <2> QED
    BY <2>2, <2>3, <2>4 DEF OwedInv
<1>2. CASE QueryRoutes
  BY <1>2, QueryRoutesOwed
<1>3. CASE RoutesFail
  <2>1. \A k \in RouteParts : owed'[k] = 0
    BY <1>3, RouteNames DEF RoutesFail, PlaneGone
  <2> QED
    BY <2>1, OwedNothing
<1>4. CASE SwapRoutes
  BY <1>4, SwapRoutesOwed
<1>5. CASE QueryZones
  BY <1>5, OwedServed DEF QueryZones, store, served
<1>6. CASE SwapZones
  <2>1. /\ BuildingZones /\ UNCHANGED <<table, hup, owed, db>>
        /\ plane \in Serving => plane' \in Serving
    BY <1>6 DEF SwapZones, store, AfterZones, BuildingZones, Serving
  <2> QED
    BY <2>1, OwedServed
<1>7. CASE ZonesFail
  <2>1. /\ BuildingZones /\ UNCHANGED <<table, hup, db>>
        /\ plane \in Serving => plane' \in Serving
    BY <1>7 DEF ZonesFail, store, AfterZones, BuildingZones, Serving
  <2>2. \A k \in RouteParts : owed'[k] = owed[k]
    BY <1>7, RouteNames DEF ZonesFail, ZoneParts
  <2> QED
    BY <2>1, <2>2, OwedServed
<1>8. CASE WritePidfile \/ InstallHandler
  <2>1. plane \notin Serving /\ owed' = owed
    BY <1>8 DEF WritePidfile, InstallHandler, Serving
  <2> QED
    BY <2>1, OwedBefore
<1> QED
  BY <1>1, <1>2, <1>3, <1>4, <1>5, <1>6, <1>7, <1>8 DEF PlaneStep

LEMMA SendHupOwed ==
  ASSUME TypeOK, TypeOK', OwedInv, NEW h \in Handlers, SendHup(h)
  PROVE  OwedInv'
<1>1. CASE PlaneGone
  <2>1. \A k \in RouteParts : owed'[k] = 0
    BY <1>1, RouteNames DEF PlaneGone
  <2> QED
    BY <2>1, OwedNothing
<1>2. CASE plane \in Serving /\ hup' = TRUE /\ owed' = db /\ UNCHANGED <<db, plane>>
  <2>1. \A k \in RouteParts : owed'[k] <= db'[k]
    <3>1. \A k \in RouteParts : db[k] \in Nat
      BY RouteNames DEF TypeOK
    <3> QED
      BY <1>2, <3>1
  <2> QED
    BY <1>2, <2>1, OwedWaits
<1>3. CASE UNCHANGED <<db, owed, table, plane, hup, done, build>>
  BY <1>3, OwedRests
<1> QED
  BY <1>1, <1>2, <1>3 DEF SendHup, store, builds, served

LEMMA NextOwed ==
  ASSUME TypeOK, TypeOK', SafeInv, OwedInv, [Next]_planeVars
  PROVE  OwedInv'
<1>1. ASSUME NEW h \in Handlers, ReadPidfile(h) PROVE OwedInv'
  BY <1>1, OwedRests DEF ReadPidfile, store, builds, served
<1>2. ASSUME NEW h \in Handlers, NEW k \in Parts, Commit(h, k) PROVE OwedInv'
  <2>1. \A q \in RouteParts : db'[q] = db[q] \/ db'[q] = db[q] + 1
    BY <1>2, RouteNames DEF Commit, TypeOK
  <2> QED
    BY <1>2, <2>1, OwedRests DEF Commit, builds, served
<1>3. ASSUME NEW s \in Solvers, ChangeTXT(s) \/ TXTAlready(s) \/ SolverStep(s) PROVE OwedInv'
  <2>1. UNCHANGED <<owed, table, plane, hup>>
    BY <1>3 DEF ChangeTXT, TXTAlready, SolverStep, SolverQuery, SolverSwap, SolverFails, served
  <2>2. /\ \A k \in RouteParts : db'[k] = db[k]
        /\ done'["main"] = done["main"] /\ build'["main"] = build["main"]
    BY <1>3, SolverRests
  <2> QED
    BY <2>1, <2>2, OwedRests
<1>4. CASE BootPlane
  BY <1>4, OwedBefore DEF BootPlane, Serving
<1>5. CASE Crash \/ Shutdown
  <2>1. \A k \in RouteParts : owed'[k] = 0
    BY <1>5, RouteNames DEF Crash, Shutdown, PlaneGone
  <2> QED
    BY <2>1, OwedNothing
<1>6. CASE UNCHANGED planeVars
  BY <1>6, OwedRests DEF planeVars
<1> QED
  BY <1>1, <1>2, <1>3, <1>4, <1>5, <1>6, PlaneOwed, SendHupOwed DEF Next

\* A data plane that waits for a signal serves all that signals have announced to it: one
\* that comes while the store is read stays in the channel until the next reload, which
\* reads every part after it was stored.
THEOREM PromisesAreKept == Spec => []PromisesKept
<1>1. Init => OwedInv
  BY RouteNames DEF Init, OwedInv, Lost
<1>2. TypeOK /\ TypeOK' /\ SafeInv /\ OwedInv /\ [Next]_planeVars => OwedInv'
  BY NextOwed
<1>3. OwedInv => PromisesKept
  BY DEF OwedInv, PromisesKept, Coming
<1> QED
  BY <1>1, <1>2, <1>3, InvCorrect, PTL DEF Spec

-----------------------------------------------------------------------------
(* The route table as a follower of the store.                             *)

Stored == [k \in RouteParts |-> db[k]]
Due == [k \in RouteParts |-> owed[k]]

\* Only a data plane that serves has a channel for the signal.
Deaf == plane \notin Serving => hup = FALSE

LEMMA DeafNext ==
  ASSUME Deaf, [Next]_planeVars
  PROVE  Deaf'
<1>1. CASE PlaneStep
  BY <1>1 DEF Deaf, PlaneStep, TakeHup, QueryRoutes, RoutesFail, SwapRoutes, QueryZones, SwapZones,
     ZonesFail, WritePidfile, InstallHandler, AfterZones, PlaneGone, BuildingRoutes, BuildingZones,
     Serving
<1>2. CASE \E h \in Handlers : ReadPidfile(h) \/ SendHup(h) \/ \E k \in Parts : Commit(h, k)
  BY <1>2 DEF Deaf, ReadPidfile, SendHup, Commit, PlaneGone
<1>3. CASE \E s \in Solvers : ChangeTXT(s) \/ TXTAlready(s) \/ SolverStep(s)
  BY <1>3 DEF Deaf, ChangeTXT, TXTAlready, SolverStep, SolverQuery, SolverSwap, SolverFails
<1>4. CASE BootPlane \/ Crash \/ Shutdown \/ UNCHANGED planeVars
  BY <1>4 DEF Deaf, BootPlane, Crash, Shutdown, PlaneGone, planeVars, Serving
<1> QED
  BY <1>1, <1>2, <1>3, <1>4 DEF Next

\* The mood, where the data plane stands.
LEMMA Moods ==
  /\ plane = "down" => MoodOf = "off"
  /\ plane \in Booting => MoodOf = "starting"
  /\ plane = "idle" /\ hup = FALSE => MoodOf = "resting"
  /\ plane = "idle" /\ hup = TRUE => MoodOf = "busy"
  /\ plane \in {"routes", "zones"} => MoodOf = "busy"
BY DEF MoodOf, Booting

LEMMA MoodsNext ==
  /\ plane' = "down" => MoodOf' = "off"
  /\ plane' \in Booting => MoodOf' = "starting"
  /\ plane' = "idle" /\ hup' = FALSE => MoodOf' = "resting"
  /\ plane' = "idle" /\ hup' = TRUE => MoodOf' = "busy"
  /\ plane' \in {"routes", "zones"} => MoodOf' = "busy"
BY DEF MoodOf, Booting

\* What the abstract variables are, one by one.
LEMMA FollowerStutters ==
  ASSUME \A k \in RouteParts : db'[k] = db[k] /\ owed'[k] = owed[k], table' = table,
         MoodOf' = MoodOf
  PROVE  UNCHANGED Routes!followerVars
<1>1. Stored' = Stored /\ Due' = Due
  BY DEF Stored, Due
<1> QED
  BY <1>1 DEF Routes!followerVars, Stored, Due

LEMMA FollowerStops ==
  ASSUME PlaneGone, plane \in Booting \cup Serving
  PROVE  Routes!Stops
<1>1. MoodOf # "off" /\ MoodOf' = "off"
  BY MoodsNext DEF PlaneGone, MoodOf, Booting, Serving
<1>2. Stored' = Stored /\ Due' = [k \in RouteParts |-> 0] /\ table' = [k \in RouteParts |-> 0]
  BY RouteNames DEF PlaneGone, store, Stored, Due, Lost
<1> QED
  BY <1>1, <1>2 DEF Routes!Stops, Routes!Nothing, Routes!None, Stored, Due

LEMMA CommitFollows ==
  ASSUME TypeOK, NEW h \in Handlers, NEW k \in Parts, Commit(h, k)
  PROVE  [Routes!FollowerNext]_(Routes!followerVars)
<1>1. MoodOf' = MoodOf /\ table' = table /\ owed' = owed
  BY DEF Commit, MoodOf, served
<1>2. \A q \in Parts : db'[q] = IF q = k THEN db[q] + 1 ELSE db[q]
  BY DEF Commit, TypeOK
<1>3. CASE k \in RouteParts
  <2>1. Stored' = [Stored EXCEPT ![k] = Stored[k] + 1]
    BY <1>2, <1>3, RouteNames DEF Stored
  <2>2. Due' = Due
    BY <1>1 DEF Due
  <2>3. Routes!Stores(k)
    BY <1>1, <2>1, <2>2 DEF Routes!Stores, Stored, Due
  <2> QED
    BY <1>3, <2>3 DEF Routes!FollowerNext
<1>4. CASE k \notin RouteParts
  BY <1>1, <1>2, <1>4, RouteNames, FollowerStutters
<1> QED
  BY <1>3, <1>4

LEMMA SendHupFollows ==
  ASSUME TypeOK, NEW h \in Handlers, SendHup(h)
  PROVE  [Routes!FollowerNext]_(Routes!followerVars)
<1>1. CASE plane \in Serving /\ hup' = TRUE /\ owed' = db /\ UNCHANGED <<db, plane, table>>
  <2>1. hup \in BOOLEAN /\ plane \in {"idle", "routes", "zones"}
    BY <1>1 DEF TypeOK, Serving
  <2>2. MoodOf \in {"resting", "busy"} /\ MoodOf' = "busy"
    BY <1>1, <2>1, Moods, MoodsNext
  <2>3. Due' = Stored /\ Stored' = Stored
    BY <1>1 DEF Due, Stored
  <2>4. Routes!Hears
    BY <1>1, <2>2, <2>3 DEF Routes!Hears, Due, Stored
  <2> QED
    BY <2>4 DEF Routes!FollowerNext
<1>2. CASE plane \in Booting /\ PlaneGone
  BY <1>2, FollowerStops DEF Routes!FollowerNext
<1>3. CASE UNCHANGED <<db, owed, table, plane, hup>>
  BY <1>3, FollowerStutters DEF MoodOf
<1> QED
  BY <1>1, <1>2, <1>3 DEF SendHup, store, served

LEMMA SwapRoutesFollows ==
  ASSUME TypeOK, TypeOK', SafeInv, SwapRoutes
  PROVE  Routes!Shows
<1>1. /\ db' = db /\ DOMAIN table' = RouteParts /\ BuildingRoutes
      /\ \A k \in RouteParts : owed'[k] = IF table'[k] = 0 THEN 0 ELSE owed[k]
      /\ plane' = IF plane = "boot routes" THEN "boot zones" ELSE "zones"
  BY RouteNames DEF SwapRoutes, Forgives, store, Lost
<1>2. MoodOf' = MoodOf /\ MoodOf \in {"starting", "busy"}
  BY <1>1, Moods, MoodsNext DEF BuildingRoutes, Booting
<1>3. /\ \A k \in RouteParts : table[k] \in Nat /\ table'[k] \in Nat /\ db[k] \in Nat
      /\ table' \in [RouteParts -> Nat]
  BY RouteNames DEF TypeOK
<1>4. \A k \in RouteParts :
        table'[k] \in table[k] .. db[k] \/ (table'[k] = 0 /\ k \notin {"sites"})
  <2>1. /\ \A k \in RouteParts : table'[k] >= table[k] \/ table'[k] = Lost
        /\ table'["sites"] >= table["sites"]
        /\ SafeInv'
    BY SwapRoutesSafe
  <2>2. \A k \in RouteParts : table'[k] <= db[k]
    BY <1>1, <2>1 DEF SafeInv, StoreInv
  <2> QED
    BY <1>3, <2>1, <2>2 DEF Lost
<1>5. Stored' = Stored /\ \A k \in RouteParts : Stored[k] = db[k] /\ Due[k] = owed[k]
  BY <1>1 DEF Stored, Due
<1>6. Due' = [k \in RouteParts |-> IF table'[k] = 0 THEN 0 ELSE Due[k]]
  BY <1>1, <1>5 DEF Due
<1> QED
  BY <1>2, <1>3, <1>4, <1>5, <1>6 DEF Routes!Shows, Routes!None, Stored, Due

LEMMA RoutesFailFollows ==
  ASSUME TypeOK, RoutesFail
  PROVE  Routes!GivesUp \/ Routes!Stops
<1>1. CASE plane = "boot routes"
  BY <1>1, FollowerStops DEF RoutesFail, Booting
<1>2. CASE plane = "routes"
  <2>1. /\ plane' = "idle" /\ UNCHANGED <<db, hup, table>>
        /\ \A k \in RouteParts : owed'[k] = 0
    BY <1>2, RouteNames DEF RoutesFail, store, served
  <2>2. MoodOf = "busy" /\ MoodOf' \in {"busy", "resting"}
    BY <1>2, <2>1, Moods, MoodsNext DEF TypeOK
  <2>3. Stored' = Stored /\ Due' = [k \in RouteParts |-> 0]
    BY <2>1 DEF Stored, Due
  <2> QED
    BY <2>1, <2>2, <2>3 DEF Routes!GivesUp, Routes!Nothing, Routes!None, Stored, Due
<1> QED
  BY <1>1, <1>2 DEF RoutesFail

\* A reload that is over leaves the data plane at rest, or with the next signal.
LEMMA FollowerRests ==
  ASSUME OwedInv', ~hup', plane' = "idle", MoodOf \in {"starting", "busy"}, table' = table,
         \A k \in RouteParts : db'[k] = db[k] /\ owed'[k] = owed[k]
  PROVE  Routes!Rests
<1>1. \A k \in RouteParts : owed[k] <= table[k]
  BY DEF OwedInv, Coming
<1>2. MoodOf' = "resting"
  BY DEF MoodOf
<1>3. Stored' = Stored /\ Due' = Due /\ \A k \in RouteParts : Due[k] = owed[k]
  BY DEF Stored, Due
<1> QED
  BY <1>1, <1>2, <1>3 DEF Routes!Rests, Stored, Due

LEMMA ZonesFollow ==
  ASSUME TypeOK, OwedInv', SwapZones \/ ZonesFail
  PROVE  [Routes!FollowerNext]_(Routes!followerVars)
<1>1. /\ plane \in {"boot zones", "zones"} /\ UNCHANGED <<db, hup, table>>
      /\ plane' = IF plane = "boot zones" THEN "pidfile" ELSE "idle"
  BY DEF SwapZones, ZonesFail, BuildingZones, AfterZones, store
<1>2. \A k \in RouteParts : owed'[k] = owed[k]
  BY RouteNames DEF SwapZones, ZonesFail, ZoneParts
<1>3. MoodOf = IF plane = "boot zones" THEN "starting" ELSE "busy"
  BY <1>1, Moods DEF Booting
<1>4. CASE plane = "boot zones" \/ hup = TRUE
  <2>1. MoodOf' = MoodOf
    BY <1>1, <1>3, <1>4, MoodsNext DEF Booting
  <2> QED
    BY <1>1, <1>2, <2>1, FollowerStutters
<1>5. CASE plane = "zones" /\ ~hup
  BY <1>1, <1>2, <1>3, <1>5, FollowerRests DEF Routes!FollowerNext
<1> QED
  BY <1>1, <1>4, <1>5 DEF TypeOK

LEMMA PlaneFollows ==
  ASSUME TypeOK, TypeOK', SafeInv, OwedInv', Deaf, PlaneStep
  PROVE  [Routes!FollowerNext]_(Routes!followerVars)
<1>1. CASE TakeHup
  <2>1. MoodOf = "busy" /\ MoodOf' = "busy" /\ UNCHANGED <<db, owed, table>>
    BY <1>1, Moods, MoodsNext DEF TakeHup, store, served, TypeOK
  <2> QED
    BY <2>1, FollowerStutters
<1>2. CASE QueryRoutes \/ QueryZones
  BY <1>2, FollowerStutters DEF QueryRoutes, QueryZones, store, served, MoodOf
<1>3. CASE RoutesFail
  BY <1>3, RoutesFailFollows DEF Routes!FollowerNext
<1>4. CASE SwapRoutes
  BY <1>4, SwapRoutesFollows DEF Routes!FollowerNext
<1>5. CASE SwapZones \/ ZonesFail
  BY <1>5, ZonesFollow
<1>6. CASE WritePidfile
  <2>1. MoodOf = "starting" /\ MoodOf' = "starting" /\ UNCHANGED <<db, owed, table>>
    BY <1>6, Moods, MoodsNext DEF WritePidfile, store, served, Booting
  <2> QED
    BY <2>1, FollowerStutters
<1>7. CASE InstallHandler
  <2>1. /\ MoodOf = "starting" /\ plane' = "idle" /\ ~hup'
        /\ UNCHANGED <<db, owed, table>>
    BY <1>7, Moods DEF InstallHandler, store, served, Booting, Serving, Deaf
  <2> QED
    BY <2>1, FollowerRests DEF Routes!FollowerNext
<1> QED
  BY <1>1, <1>2, <1>3, <1>4, <1>5, <1>6, <1>7 DEF PlaneStep

LEMMA StepFollows ==
  ASSUME TypeOK, TypeOK', SafeInv, OwedInv', Deaf, [Next]_planeVars
  PROVE  [Routes!FollowerNext]_(Routes!followerVars)
<1>1. ASSUME NEW h \in Handlers, ReadPidfile(h)
      PROVE  [Routes!FollowerNext]_(Routes!followerVars)
  BY <1>1, FollowerStutters DEF ReadPidfile, store, served, MoodOf
<1>2. ASSUME NEW s \in Solvers, ChangeTXT(s) \/ TXTAlready(s) \/ SolverStep(s)
      PROVE  [Routes!FollowerNext]_(Routes!followerVars)
  <2>1. UNCHANGED <<owed, table, plane, hup>>
    BY <1>2 DEF ChangeTXT, TXTAlready, SolverStep, SolverQuery, SolverSwap, SolverFails, served
  <2>2. \A k \in RouteParts : db'[k] = db[k]
    BY <1>2, SolverRests
  <2> QED
    BY <2>1, <2>2, FollowerStutters DEF MoodOf
<1>3. CASE BootPlane
  <2>1. MoodOf = "off" /\ MoodOf' = "starting" /\ UNCHANGED <<db, owed, table>>
    BY <1>3, Moods, MoodsNext DEF BootPlane, store, served, Booting
  <2>2. Stored' = Stored /\ Due' = Due
    BY <2>1 DEF Stored, Due
  <2>3. Routes!Starts
    BY <2>1, <2>2 DEF Routes!Starts, Stored, Due
  <2> QED
    BY <2>3 DEF Routes!FollowerNext
<1>4. CASE Crash \/ Shutdown
  <2>1. PlaneGone /\ plane \in Booting \cup Serving
    BY <1>4 DEF Crash, Shutdown, Up, TypeOK
  <2> QED
    BY <2>1, FollowerStops DEF Routes!FollowerNext
<1>5. CASE UNCHANGED planeVars
  BY <1>5, FollowerStutters DEF planeVars, MoodOf
<1> QED
  BY <1>1, <1>2, <1>3, <1>4, <1>5, CommitFollows, SendHupFollows, PlaneFollows DEF Next

\* Every behaviour of the data plane is one of a follower of the store: signals that are
\* lost or coalesced, torn reads, failed queries and restarts never show in another way.
THEOREM RoutesFollowStore == Spec => FollowsStore
<1>1. Init => OwedInv /\ Deaf
  BY RouteNames DEF Init, OwedInv, Lost, Deaf
<1>2. Init => Routes!FollowerInit
  <2> SUFFICES ASSUME Init PROVE Routes!FollowerInit
    OBVIOUS
  <2>1. /\ Stored = [k \in RouteParts |-> 1] /\ Due = [k \in RouteParts |-> 0]
        /\ table = [k \in RouteParts |-> 0]
    BY RouteNames DEF Init, Stored, Due, Lost
  <2>2. MoodOf = "off"
    BY Moods DEF Init
  <2> QED
    BY <2>1, <2>2 DEF Routes!FollowerInit, Routes!Nothing, Routes!None, Stored, Due
<1>3. TypeOK /\ TypeOK' /\ SafeInv /\ OwedInv /\ Deaf /\ [Next]_planeVars => (OwedInv /\ Deaf)'
  BY NextOwed, DeafNext
<1>4. TypeOK /\ TypeOK' /\ SafeInv /\ OwedInv' /\ Deaf /\ [Next]_planeVars
        => [Routes!FollowerNext]_(Routes!followerVars)
  BY StepFollows
<1> QED
  BY <1>1, <1>2, <1>3, <1>4, InvCorrect, PTL DEF Spec, FollowsStore, Routes!FollowerSpec

===============================================================================
