-------------------------------- MODULE Serving --------------------------------
(***************************************************************************)
(* How one site answers.  Its row says what it is: active or not, of a     *)
(* type, or with a config, a list of routes that takes precedence over the *)
(* type.  A reload compiles the row into a table, with the port that the   *)
(* mounted app has at that moment and an empty cache for each route that   *)
(* wants one; requests run with the table they came upon, also when it is  *)
(* replaced.  Panel handlers change the row in several statements and then *)
(* signal; DataPlane has the way of the signal.                            *)
(*                                                                         *)
(* A path is a sequence of names.  What a file or an app answers may be    *)
(* different at every moment, so a content is the time it was made.        *)
(***************************************************************************)
EXTENDS Naturals, Sequences, FiniteSets, SequencesExt

CONSTANTS
  Callers,       \* goroutines, of the panel and of the data plane
  Configs,       \* lists of routes that PUT may store
  Paths,         \* paths that are asked for
  Variants,      \* Host and encoding of a request: all that distinguishes answers
  TTL, MaxEntries,                        \* of a cache
  MaxTime, MaxCalls, MaxReloads,          \* bounds; calls are of either kind
  Files,         \* files that a directory may hold, and
  Bare           \*   the names without an extension

Route == [prefix : Seq(STRING), to : {"static", "app", "proxy"}, cache : BOOLEAN]
Types == {"static", "proxy"}
Rows == [active : BOOLEAN, type : Types, config : {<<>>} \cup Configs]
Requests == [path : Paths, variant : Variants, personal : BOOLEAN, get : BOOLEAN]
Index == "index.html"

ASSUME ServingAssumption ==
  /\ \A cfg \in Configs : cfg # <<>> /\ cfg \in Seq(Route)
  /\ {TTL, MaxEntries, MaxTime, MaxCalls, MaxReloads} \subseteq Nat
  /\ Paths \subseteq Seq(STRING) /\ Index \notin Bare

VARIABLES
  row,           \* sites: [active, type, config]
  port,          \* apps.port of the app that routes mount, 0: no such app
  told,          \* the data plane has a reload before it
  read,          \* the rows that a reload in progress has read, <<>>: none in progress
  routing,       \* the table served: [gen, routes, since, of]; no routes: site left out
  entries,       \* the entries of all caches
  doing, job,
  now, calls,
  halfway        \* history: a patch was refused after its first statement

site == <<row, port>>
servingVars == <<row, port, told, read, routing, entries, doing, job, now, calls, halfway>>

-----------------------------------------------------------------------------
(* Building: site.BuildWith, Config.CompileWith.                           *)

\* The routes of a row; without a config there is one, for its type.
RoutesOf(r) ==
  IF r.config # <<>> THEN r.config
  ELSE <<[prefix |-> <<>>, to |-> r.type, cache |-> FALSE]>>

\* A route to an app that is gone fails the whole site.
Builds(r, p) == r.active /\ \A i \in DOMAIN r.config : r.config[i].to = "app" => p # 0

Compiled(g, r) == [gen |-> g, since |-> now, of |-> <<r, port>>,
                   routes |-> IF Builds(r, port) THEN RoutesOf(r) ELSE <<>>]

NoJob == [q |-> <<>>]

ServingInit ==
  /\ row \in Rows
  /\ port \in {0, 1} /\ now = 0
  /\ told = FALSE /\ read = <<>> /\ routing = Compiled(0, row) /\ entries = {}
  /\ doing = [c \in Callers |-> "idle"] /\ job = [c \in Callers |-> NoJob]
  /\ calls = 0 /\ halfway = FALSE

\* BuildTable reads the sites, then the apps; the signal is taken before.
ReadSites ==
  /\ told /\ told' = FALSE
  /\ read = <<>> /\ read' = <<row>>
  /\ UNCHANGED <<site, routing, entries, doing, job, now, calls, halfway>>

\* Reloadable.Reload: built aside and swapped in.
Reload ==
  /\ read # <<>> /\ read' = <<>>
  /\ routing.gen < MaxReloads /\ routing' = Compiled(routing.gen + 1, read[1])
  /\ UNCHANGED <<site, told, entries, doing, job, now, calls, halfway>>

-----------------------------------------------------------------------------
(* The panel.                                                              *)

Change(c, step, j) ==
  /\ doing[c] = "idle" /\ calls < MaxCalls /\ calls' = calls + 1
  /\ doing' = [doing EXCEPT ![c] = step] /\ job' = [job EXCEPT ![c] = j]
  /\ UNCHANGED <<site, told, read, routing, entries, now, halfway>>

Goto(c, step) ==
  /\ doing' = [doing EXCEPT ![c] = step]
  /\ job' = IF step = "idle" THEN [job EXCEPT ![c] = NoJob] ELSE job

\* handlePutRoutes; an app that a route names must be there.
AskPut(c) ==
  \E cfg \in Configs :
    /\ \A i \in DOMAIN cfg : cfg[i].to = "app" => port # 0
    /\ Change(c, "set config", [config |-> cfg])

\* A handler that forgets the signal.
SetConfigSilently(c) ==
  /\ doing[c] = "set config" /\ Goto(c, "idle")
  /\ row' = [row EXCEPT !.config = job[c].config]
  /\ UNCHANGED <<port, told, read, routing, entries, now, calls, halfway>>

SetSiteConfig(c) ==
  /\ doing[c] = "set config" /\ Goto(c, "tell")
  /\ row' = [row EXCEPT !.config = job[c].config]
  /\ UNCHANGED <<port, told, read, routing, entries, now, calls, halfway>>

\* handlePatchSite: a status, a type, or both; "": none, "bad": one that is refused
\* when the status has been stored.
AskPatch(c) ==
  \E s \in {"", "active", "disabled"}, t \in Types \cup {"", "bad"} :
    Change(c, IF s # "" THEN "set status" ELSE "set type", [status |-> s, type |-> t])

SetSiteStatus(c) ==
  /\ doing[c] = "set status" /\ Goto(c, "set type")
  /\ row' = [row EXCEPT !.active = (job[c].status = "active")]
  /\ UNCHANGED <<port, told, read, routing, entries, now, calls, halfway>>

SetSiteType(c) ==
  /\ doing[c] = "set type"
  /\ IF job[c].type = "bad"
       THEN /\ Goto(c, "idle")
            /\ halfway' = (halfway \/ job[c].status # "")
            /\ UNCHANGED row
       ELSE /\ Goto(c, "tell")
            /\ row' = IF job[c].type = "" THEN row ELSE [row EXCEPT !.type = job[c].type]
            /\ UNCHANGED halfway
  /\ UNCHANGED <<port, told, read, routing, entries, now, calls>>

\* The app is created, deployed to its other port, or deleted: BlueGreen and
\* Registry have the steps.
AskApp(c) == Change(c, "set port", NoJob)
SetAppPort(c) ==
  /\ doing[c] = "set port" /\ Goto(c, "tell")
  /\ port' \in {0, 1, 2} \ {port}
  /\ UNCHANGED <<row, told, read, routing, entries, now, calls, halfway>>

\* notifyReload
Tell(c) ==
  /\ doing[c] = "tell" /\ Goto(c, "idle") /\ told' = TRUE
  /\ UNCHANGED <<site, read, routing, entries, now, calls, halfway>>

-----------------------------------------------------------------------------
(* Requests: serve, dispatcher.ServeHTTP, respCache.wrap.                  *)

\* Match.Matches compares name by name.
Matching(t, path) == {i \in DOMAIN t.routes : IsPrefix(t.routes[i].prefix, path)}
First(t, path) == CHOOSE i \in Matching(t, path) : \A k \in Matching(t, path) : i <= k

\* The cache is passed by for all but GET.
PassesAnonymously(q) == ~q.get

\* The cache is passed by for all but GET and for whoever shows who he is.
Passes(q) == ~q.get \/ q.personal

Arrive(c) ==
  /\ doing[c] = "idle" /\ calls < MaxCalls /\ calls' = calls + 1
  /\ \E q \in Requests :
       /\ q.get \/ ~q.personal
       /\ Matching(routing, q.path) # {}
       /\ LET i == First(routing, q.path)
              cached == routing.routes[i].cache /\ ~Passes(q)
          IN /\ doing' = [doing EXCEPT ![c] = IF cached THEN "look" ELSE "fetch"]
             /\ job' = [job EXCEPT ![c] = [q |-> q, table |-> routing, route |-> i,
                                           keep |-> cached]]
  /\ UNCHANGED <<site, told, read, routing, entries, now, halfway>>

\* The cache belongs to a route of one table; the key is the rest.
SameKey(e, j) ==
  /\ e.gen = j.table.gen /\ e.route = j.route
  /\ e.variant = j.q.variant /\ e.path = j.q.path

Expired(e) == now > e.expires

\* respCache.get: what is found over is removed.
Look(c) ==
  LET found == {e \in entries : SameKey(e, job[c])} IN
  /\ doing[c] = "look"
  /\ IF \E e \in found : ~Expired(e)
       THEN /\ doing' = [doing EXCEPT ![c] = "answered"]
            /\ \E e \in found : job' = [job EXCEPT ![c] =
                 [q |-> job[c].q, table |-> job[c].table, route |-> job[c].route,
                  answer |-> e.answer, looked |-> now]]
            /\ UNCHANGED entries
       ELSE /\ doing' = [doing EXCEPT ![c] = "fetch"]
            /\ entries' = entries \ found
            /\ UNCHANGED job
  /\ UNCHANGED <<site, told, read, routing, now, calls, halfway>>

\* What files, app or proxy answer; whoever shows who he is may get an answer that is
\* his alone.  One that is not a 200, or is marked as private, is not kept.
Fetch(c) ==
  LET j == job[c]
      answer(own) == [made |-> now, own |-> own,
                      of |-> [to |-> j.table.routes[j.route].to, port |-> j.table.of[2]]]
  IN
  /\ doing[c] = "fetch"
  /\ \/ Goto(c, "idle")
     \/ /\ j.keep /\ doing' = [doing EXCEPT ![c] = "store"]
        /\ \E own \in {FALSE, j.q.personal} :
             job' = [job EXCEPT ![c] = [q |-> j.q, table |-> j.table, route |-> j.route,
                                        answer |-> answer(own)]]
  /\ UNCHANGED <<site, told, read, routing, entries, now, calls, halfway>>

\* respCache.set: a full cache takes nothing new.
Keep(c) ==
  LET j == job[c]
      full == Cardinality({e \in entries : e.gen = j.table.gen /\ e.route = j.route})
                >= MaxEntries
      old == {e \in entries : SameKey(e, j)}
  IN
  /\ doing[c] = "store" /\ Goto(c, "idle")
  /\ entries' = IF full /\ old = {} THEN entries
                ELSE (entries \ old) \cup
                       {[gen |-> j.table.gen, route |-> j.route, variant |-> j.q.variant,
                         path |-> j.q.path, answer |-> j.answer, expires |-> now + TTL]}
  /\ UNCHANGED <<site, told, read, routing, now, calls, halfway>>

Done(c) ==
  /\ doing[c] = "answered" /\ Goto(c, "idle")
  /\ UNCHANGED <<site, told, read, routing, entries, now, calls, halfway>>

Tick ==
  /\ now < MaxTime /\ now' = now + 1
  /\ UNCHANGED <<site, told, read, routing, entries, doing, job, calls, halfway>>

ServingNext ==
  \/ \E c \in Callers :
       \/ AskPut(c) \/ SetSiteConfig(c)
       \/ AskPatch(c) \/ SetSiteStatus(c) \/ SetSiteType(c)
       \/ AskApp(c) \/ SetAppPort(c) \/ Tell(c)
       \/ Arrive(c) \/ Look(c) \/ Fetch(c) \/ Keep(c) \/ Done(c)
  \/ ReadSites \/ Reload \/ Tick

ServingSpec == ServingInit /\ [][ServingNext]_servingVars

-----------------------------------------------------------------------------
(* Static files: Handler.ServeHTTP, serveFile and notFound.                *)

IsFile(tree, n) == n \in tree
IsDir(tree, n) == \E f \in tree : IsStrictPrefix(n, f)

\* The last part of a path has no extension.
BareName(n) == n # <<>> /\ Last(n) \in Bare

\* notFound: the page of an application that routes itself, or 404.html.
NotFoundAlways(tree, spa, n) ==
  IF spa /\ IsFile(tree, <<Index>>) THEN <<200, <<Index>>>>
  ELSE IF IsFile(tree, <<"404.html">>) THEN <<404, <<"404.html">>>> ELSE <<404, <<>>>>

NotFound(tree, spa, n) ==
  IF spa /\ BareName(n) /\ IsFile(tree, <<Index>>) THEN <<200, <<Index>>>>
  ELSE IF IsFile(tree, <<"404.html">>) THEN <<404, <<"404.html">>>> ELSE <<404, <<>>>>

\* serveFile: a file, the index of a directory, or notFound.
ServeFile(tree, spa, path) ==
  LET name == IF path = <<>> THEN <<Index>> ELSE path
      index == Append(name, Index)
  IN IF IsFile(tree, name) THEN <<200, name>>
     ELSE IF ~IsDir(tree, name) THEN NotFound(tree, spa, name)
     ELSE IF IsFile(tree, index) THEN <<200, index>>
     ELSE NotFound(tree, spa, index)

-----------------------------------------------------------------------------
(* Properties.                                                             *)

\* Goroutines that work for a visitor.
Visited(c) == doing[c] \in {"look", "fetch", "store", "answered"}

\* Every variable stays in its type, and whoever works for a visitor stands at the first
\* route of his table that matches: there is one, also when the table has been replaced.
Tables == [gen : 0 .. MaxReloads, since : 0 .. MaxTime, of : Rows \X (0 .. 2),
           routes : Seq(Route)]

Fitting(step, j) ==
  /\ step = "set config" => j.config \in Configs
  /\ step \in {"set status", "set type"} => j.type \in Types \cup {"", "bad"}
  /\ step \in {"look", "fetch", "store", "answered"} =>
       /\ j.q \in Requests /\ j.table \in Tables
       /\ j.route \in Matching(j.table, j.q.path)
       /\ \A k \in Matching(j.table, j.q.path) : j.route <= k

ServingTypeOK ==
  /\ row \in Rows /\ port \in 0 .. 2 /\ told \in BOOLEAN /\ halfway \in BOOLEAN
  /\ read = <<>> \/ \E r \in Rows : read = <<r>>
  /\ routing \in Tables
  /\ \A e \in entries : e.gen \in 0 .. MaxReloads /\ e.variant \in Variants /\ e.path \in Paths
  /\ doing \in [Callers -> {"idle", "look", "fetch", "store", "answered", "set config",
                            "set status", "set type", "set port", "tell"}]
  /\ \A c \in Callers : Fitting(doing[c], job[c])
  /\ now \in 0 .. MaxTime /\ calls \in 0 .. MaxCalls

ChangeSteps == {"set config", "set status", "set type", "set port", "tell"}

\* With no handler at work and no reload before it, the table is built from the row
\* as it is: whatever changes came together, the last signal comes after the last
\* statement.  (A patch whose type is refused has stored its status by then, and
\* signals nothing.)
ServedAsStored ==
  ~told /\ read = <<>> /\ ~halfway
    /\ (\A c \in Callers : doing[c] \notin ChangeSteps)
    => routing.of = site

\* A visitor who gets an answer out of a cache gets one that is meant for everybody,
\* that was made of what the first matching route of this table leads to, after the
\* table was built, and kept for the TTL at most; and a cache does not grow.
HitsAreFit ==
  /\ \A c \in Callers :
       doing[c] = "answered" =>
         LET j == job[c] IN
         /\ j.q.get /\ ~j.q.personal
         /\ ~j.answer.own
         /\ j.answer.made >= j.table.since
         /\ j.answer.of = [to |-> j.table.routes[j.route].to, port |-> j.table.of[2]]
         /\ \A e \in entries :
              SameKey(e, j) /\ e.answer = j.answer => j.looked <= e.expires
  /\ \A e \in entries :
       Cardinality({f \in entries : f.gen = e.gen /\ f.route = e.route}) <= MaxEntries

\* What is served from a directory, of any content: the file of the path, or the index
\* in it; failing that, for an application, its page, if the path names neither a
\* directory nor anything with an extension; and failing that, nothing but the page
\* for what is missing.  (The root is asked for as its index.)
AnswersFor(path) ==
  \A tree \in SUBSET Files, spa \in BOOLEAN :
    LET wanted == IF path = <<>> THEN <<Index>> ELSE path
        named == {wanted, Append(wanted, Index)} \cap tree
        answer == ServeFile(tree, spa, path)
        page == spa /\ <<Index>> \in tree /\ Last(wanted) \in Bare
                  /\ ~\E f \in tree : wanted # f /\ IsPrefix(wanted, f)
    IN /\ named # {} => answer[1] = 200 /\ answer[2] \in named
       /\ named = {} /\ page => answer = <<200, <<Index>>>>
       /\ named = {} /\ ~page => answer[1] = 404 /\ answer[2] \in {<<>>, <<"404.html">>}

StaticAnswers ==
  \A c \in Callers :
    doing[c] = "fetch" /\ job[c].table.routes[job[c].route].to = "static"
      => AnswersFor(job[c].q.path)

===============================================================================
