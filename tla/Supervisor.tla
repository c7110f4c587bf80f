------------------------------ MODULE Supervisor ------------------------------
(***************************************************************************)
(* The application supervisor (internal/runner/supervisor.go, with the     *)
(* cgroup directories of cgroup_linux.go).                                 *)
(*                                                                         *)
(* API goroutines ("callers") call Start, Stop, Restart, Rename and Delete *)
(* while every supervised process has a goroutine of its own that spawns   *)
(* the command, waits for it, sleeps and spawns it again.  s.mu protects   *)
(* the map and the fields of a process, but neither cmd.Start, cmd.Wait,   *)
(* the back-off sleep nor the removal of a cgroup happens under it: each   *)
(* critical section, and each system call between two of them, is one      *)
(* action here.                                                            *)
(***************************************************************************)
EXTENDS Naturals

CONSTANTS
  Names,         \* instance names: the keys of s.procs
  MaxProcs,      \* bound: how many process structs are ever allocated
  Callers,       \* goroutines that serve API requests
  MaxRestarts,   \* s.maxRestarts
  UseCgroups,    \* BOOLEAN: cgroups v2 are delegated and every app has a limit
  MayFail,       \* BOOLEAN: cmd.Start, openLog and cg.create can return an error
  Prompt,        \* BOOLEAN: a command exits within 5 s of SIGTERM
  Swaps,         \* BOOLEAN: deploys rename and delete instances meanwhile
  NoProc,        \* no entry in s.procs
  NoName         \* an empty name or cgPath

ASSUME SupervisorAssumption ==
  /\ MaxProcs \in Nat \ {0}
  /\ MaxRestarts \in Nat
  /\ UseCgroups \in BOOLEAN
  /\ MayFail \in BOOLEAN
  /\ Prompt \in BOOLEAN
  /\ Swaps \in BOOLEAN
  /\ NoProc \notin 1 .. MaxProcs
  /\ NoName \notin Names

Procs == 1 .. MaxProcs

VARIABLES
  procs,     \* s.procs: the struct each name is bound to
  app,       \* the fields of each process struct: p.app.Name,
  state,     \*   p.state,
  restarts,  \*   p.restarts,
  stopping,  \*   p.stopping
  cgPath,    \*   and p.cgPath
  joins,     \* the cgroup the latest command of each struct is born in
  thread,    \* where the spawn/wait goroutine of each struct stands
  child,     \* the process group the struct's latest cmd.Start made
  cgroups,   \* the names whose cgroup directory exists
  at,        \* where each API goroutine stands,
  arg,       \*   the name it restarts
  made,      \*   and the struct it is spawning
  host,      \* the control plane: "up", "stopping" (in StopAll) or "gone"
  stopList   \* the names StopAll has still to stop

fields == <<app, state, restarts, stopping, cgPath, joins>>
calls == <<at, arg, made>>
shutdown == <<host, stopList>>
supVars == <<procs, app, state, restarts, stopping, cgPath, joins, thread, child, cgroups,
             at, arg, made, host, stopList>>

AppState == {"stopped", "running", "crashed", "failed"}
ThreadStep == {"unborn", "spawn", "prepared", "started", "wait", "backoff",
               "cleanup", "ended"}
ChildState == {"none", "live", "signalled", "dead"}
CallerStep == {"idle", "spawning", "waiting", "deleting", "starting"}

Init ==
  /\ procs = [n \in Names |-> NoProc]
  /\ app = [p \in Procs |-> NoName]
  /\ state = [p \in Procs |-> "stopped"]
  /\ restarts = [p \in Procs |-> 0]
  /\ stopping = [p \in Procs |-> FALSE]
  /\ cgPath = [p \in Procs |-> NoName]
  /\ joins = [p \in Procs |-> NoName]
  /\ thread = [p \in Procs |-> "unborn"]
  /\ child = [p \in Procs |-> "none"]
  /\ cgroups = {}
  /\ at = [c \in Callers |-> "idle"]
  /\ arg = [c \in Callers |-> NoName]
  /\ made = [c \in Callers |-> NoProc]
  /\ host = "up"
  /\ stopList = {}

Alive == host # "gone"
Bound(n) == procs[n] # NoProc
IsRunning(n) == Bound(n) /\ state[procs[n]] = "running"

-----------------------------------------------------------------------------
(* The methods of Supervisor: what each critical section does.             *)

\* The next struct to allocate.
Fresh(p) == thread[p] = "unborn" /\ \A q \in Procs : q < p => thread[q] # "unborn"

\* Start, when the app is not running: a new struct takes the name, whatever
\* the name was bound to, and the caller goes on to spawn it.
Register(n, p) ==
  /\ ~IsRunning(n)
  /\ Fresh(p)
  /\ procs' = [procs EXCEPT ![n] = p]
  /\ app' = [app EXCEPT ![p] = n]
  /\ thread' = [thread EXCEPT ![p] = "spawn"]
  /\ UNCHANGED <<state, restarts, stopping, cgPath, joins, child, cgroups>>

\* Start, when it returns without registering anything: the app is running, or
\* its log cannot be opened.
StartRefused(n) ==
  /\ IsRunning(n) \/ MayFail
  /\ UNCHANGED <<procs, fields, thread, child, cgroups>>

\* A SIGTERM that reaches the shell only and not the group it leads.
SignalShell(p) == child

\* SIGTERM reaches the group of p.cmd: only once spawn has published p.cmd is
\* that the group of the current child.
Signal(p) ==
  IF thread[p] = "wait" /\ child[p] = "live"
  THEN [child EXCEPT ![p] = "signalled"] ELSE child

\* A Stop that also reports the app stopped, before its command has exited.
StopMethodAtOnce(n) ==
  /\ IF Bound(n)
     THEN /\ stopping' = [stopping EXCEPT ![procs[n]] = TRUE]
          /\ state' = [state EXCEPT ![procs[n]] = "stopped"]
          /\ child' = Signal(procs[n])
     ELSE UNCHANGED <<stopping, state, child>>
  /\ UNCHANGED <<procs, app, restarts, cgPath, joins, thread, cgroups>>

\* Stop: set p.stopping under the lock, signal the group read there.
StopMethod(n) ==
  /\ IF Bound(n)
     THEN /\ stopping' = [stopping EXCEPT ![procs[n]] = TRUE]
          /\ child' = Signal(procs[n])
     ELSE UNCHANGED <<stopping, child>>
  /\ UNCHANGED <<procs, app, state, restarts, cgPath, joins, thread, cgroups>>

\* Delete, and the delete inside Restart: the entry goes, whatever it runs.
DeleteMethod(n) ==
  /\ procs' = [procs EXCEPT ![n] = NoProc]
  /\ UNCHANGED <<fields, thread, child, cgroups>>

\* A Rename that leaves p.app.Name alone.
RenameMethodKeepsApp(from, to) ==
  /\ IF Bound(from) /\ from # to
     THEN procs' = [procs EXCEPT ![from] = NoProc, ![to] = procs[from]]
     ELSE UNCHANGED procs
  /\ UNCHANGED <<fields, thread, child, cgroups>>

\* Rename: the struct moves to the other name, over whatever that was bound to.
RenameMethod(from, to) ==
  /\ IF Bound(from) /\ from # to
     THEN /\ procs' = [procs EXCEPT ![from] = NoProc, ![to] = procs[from]]
          /\ app' = [app EXCEPT ![procs[from]] = to]
     ELSE UNCHANGED <<procs, app>>
  /\ UNCHANGED <<state, restarts, stopping, cgPath, joins, thread, child, cgroups>>

-----------------------------------------------------------------------------
(* The goroutine of a process: spawn, then wait, then back off and spawn.  *)

\* spawn, up to cmd.Start: the cgroup directory of the app's current name.  If
\* it cannot be made the command runs without limits, and cgPath stays.
Prepare(p) ==
  /\ Alive /\ thread[p] = "spawn"
  /\ thread' = [thread EXCEPT ![p] = "prepared"]
  /\ \/ /\ UseCgroups
        /\ cgroups' = cgroups \cup {app[p]}
        /\ cgPath' = [cgPath EXCEPT ![p] = app[p]]
        /\ joins' = [joins EXCEPT ![p] = app[p]]
     \/ /\ UseCgroups => MayFail
        /\ joins' = [joins EXCEPT ![p] = NoName]
        /\ UNCHANGED <<cgroups, cgPath>>
  /\ UNCHANGED <<procs, app, state, restarts, stopping, child, calls, shutdown>>

\* The child is born in its cgroup, which another goroutine may have removed.
CgroupGone(p) == joins[p] # NoName /\ joins[p] \notin cgroups

\* cmd.Start: the process group is running, though nobody can signal it yet.
Launch(p) ==
  /\ Alive /\ thread[p] = "prepared"
  /\ ~CgroupGone(p)
  /\ thread' = [thread EXCEPT ![p] = "started"]
  /\ child' = [child EXCEPT ![p] = "live"]
  /\ UNCHANGED <<procs, fields, cgroups, calls, shutdown>>

\* cmd.Start fails: crashed, and the goroutine that called spawn lets it be.
LaunchFails(p) ==
  /\ Alive /\ thread[p] = "prepared"
  /\ CgroupGone(p) \/ MayFail
  /\ thread' = [thread EXCEPT ![p] = "ended"]
  /\ state' = [state EXCEPT ![p] = "crashed"]
  /\ UNCHANGED <<procs, app, restarts, stopping, cgPath, joins, child, cgroups, calls, shutdown>>

\* spawn's critical section after cmd.Start: p.cmd and the running state.
Publish(p) ==
  /\ Alive /\ thread[p] = "started"
  /\ thread' = [thread EXCEPT ![p] = "wait"]
  /\ state' = [state EXCEPT ![p] = "running"]
  /\ stopping' = [stopping EXCEPT ![p] = FALSE]
  /\ UNCHANGED <<procs, app, restarts, cgPath, joins, child, cgroups, calls, shutdown>>

\* The command exits, by itself or because of the signal.
ChildExit(p) ==
  /\ child[p] \in {"live", "signalled"}
  /\ child' = [child EXCEPT ![p] = "dead"]
  /\ UNCHANGED <<procs, fields, thread, cgroups, calls, shutdown>>

GivesUpLate(r) == r > MaxRestarts + 1
GivesUp(r) == r > MaxRestarts

CrashesUncounted(r, stable) == IF stable THEN 0 ELSE r

\* restarts after one more exit; an uptime above s.stable forgives the others.
Crashes(r, stable) == (IF stable THEN 0 ELSE r) + 1

\* wait's critical section after cmd.Wait: a process that was told to stop is
\* stopped, any other has crashed and is retried unless the budget is spent.
Reap(p) ==
  /\ Alive /\ thread[p] = "wait" /\ child[p] = "dead"
  /\ \/ /\ stopping[p]
        /\ state' = [state EXCEPT ![p] = "stopped"]
        /\ thread' = [thread EXCEPT ![p] = "cleanup"]
        /\ UNCHANGED restarts
     \/ /\ ~stopping[p]
        /\ \E stable \in BOOLEAN :
             LET r == Crashes(restarts[p], stable) IN
             /\ restarts' = [restarts EXCEPT ![p] = r]
             /\ state' = [state EXCEPT ![p] = IF GivesUp(r) THEN "failed" ELSE "crashed"]
             /\ thread' = [thread EXCEPT ![p] = IF GivesUp(r) THEN "cleanup" ELSE "backoff"]
  /\ UNCHANGED <<procs, app, stopping, cgPath, joins, child, cgroups, calls, shutdown>>

\* After the unlock: the directory goes unless a child still lives in it.
InCgroup(g) == {p \in Procs : child[p] \in {"live", "signalled"} /\ joins[p] = g}

Cleanup(p) ==
  /\ Alive /\ thread[p] = "cleanup"
  /\ thread' = [thread EXCEPT ![p] = "ended"]
  /\ cgroups' = IF InCgroup(cgPath[p]) = {}
                THEN cgroups \ {cgPath[p]} ELSE cgroups
  /\ UNCHANGED <<procs, fields, child, calls, shutdown>>

\* A back-off that spawns again without looking at p.stopping.
BackoffOverUnchecked(p) ==
  /\ Alive /\ thread[p] = "backoff"
  /\ thread' = [thread EXCEPT ![p] = "spawn"]
  /\ UNCHANGED <<procs, fields, child, cgroups, calls, shutdown>>

\* The sleep is over: give up if someone called Stop meanwhile.
BackoffOver(p) ==
  /\ Alive /\ thread[p] = "backoff"
  /\ thread' = [thread EXCEPT ![p] = IF stopping[p] THEN "ended" ELSE "spawn"]
  /\ UNCHANGED <<procs, fields, child, cgroups, calls, shutdown>>

ThreadStepOf(p) ==
  \/ Prepare(p) \/ Launch(p) \/ LaunchFails(p) \/ Publish(p)
  \/ Reap(p) \/ Cleanup(p) \/ BackoffOver(p)
-----------------------------------------------------------------------------
(* API goroutines.  A request calls one method; Restart is four sections.  *)

Goto(c, step, name, p) ==
  /\ at' = [at EXCEPT ![c] = step]
  /\ arg' = [arg EXCEPT ![c] = name]
  /\ made' = [made EXCEPT ![c] = p]

Begin(c, n) ==
  \/ \E p \in Procs : Register(n, p) /\ Goto(c, "spawning", NoName, p)
  \/ StartRefused(n) /\ Goto(c, "idle", NoName, NoProc)

CallStart(c, n) ==
  /\ Alive /\ at[c] = "idle"
  /\ Begin(c, n)
  /\ UNCHANGED shutdown

\* Start returns when its spawn does; a later spawn follows a counted crash.
StartReturns(c) ==
  /\ Alive /\ at[c] = "spawning"
  /\ \/ thread[made[c]] \notin {"spawn", "prepared", "started"}
     \/ restarts[made[c]] > 0
  /\ Goto(c, "idle", NoName, NoProc)
  /\ UNCHANGED <<procs, fields, thread, child, cgroups, shutdown>>

CallStop(n) ==
  /\ Alive
  /\ StopMethod(n)
  /\ UNCHANGED <<calls, shutdown>>

CallRestart(c, n) ==
  /\ Alive /\ at[c] = "idle"
  /\ StopMethod(n)
  /\ Goto(c, "waiting", n, NoProc)
  /\ UNCHANGED shutdown

\* Five seconds can pass before the state is "stopped": not during the one
\* second of back-off, and not while a prompt command obeys the signal.
Overdue(p) ==
  \/ thread[p] \in {"spawn", "prepared", "started", "cleanup", "ended"}
  \/ thread[p] = "wait" /\ (child[p] = "live" \/ (child[p] = "signalled" /\ ~Prompt))

WaitOver(n) ==
  Bound(n) => state[procs[n]] = "stopped" \/ Overdue(procs[n])

\* waitState has returned, one way or the other.
RestartWaited(c) ==
  /\ Alive /\ at[c] = "waiting"
  /\ WaitOver(arg[c])
  /\ Goto(c, "deleting", arg[c], NoProc)
  /\ UNCHANGED <<procs, fields, thread, child, cgroups, shutdown>>

RestartDelete(c) ==
  /\ Alive /\ at[c] = "deleting"
  /\ DeleteMethod(arg[c])
  /\ Goto(c, "starting", arg[c], NoProc)
  /\ UNCHANGED shutdown

RestartStart(c) ==
  /\ Alive /\ at[c] = "starting"
  /\ Begin(c, arg[c])
  /\ UNCHANGED shutdown

CallRename(from, to) ==
  /\ Alive /\ Swaps
  /\ RenameMethod(from, to)
  /\ UNCHANGED <<calls, shutdown>>

CallDelete(n) ==
  /\ Alive /\ Swaps
  /\ DeleteMethod(n)
  /\ UNCHANGED <<calls, shutdown>>

-----------------------------------------------------------------------------
(* Shutdown: StopAll, then srv.Shutdown makes main return.                 *)

StopAll ==
  /\ host = "up"
  /\ host' = "stopping"
  /\ stopList' = {n \in Names : Bound(n)}
  /\ UNCHANGED <<procs, fields, thread, child, cgroups, calls>>

StopNext(n) ==
  /\ host = "stopping" /\ n \in stopList
  /\ StopMethod(n)
  /\ stopList' = stopList \ {n}
  /\ UNCHANGED <<calls, host>>

HostExits ==
  /\ host = "stopping" /\ stopList = {}
  /\ host' = "gone"
  /\ UNCHANGED <<procs, fields, thread, child, cgroups, calls, stopList>>

CallerStepOf(c) ==
  StartReturns(c) \/ RestartWaited(c) \/ RestartDelete(c) \/ RestartStart(c)

Request ==
  \/ \E c \in Callers, n \in Names : CallStart(c, n) \/ CallRestart(c, n)
  \/ \E n \in Names : CallStop(n) \/ CallDelete(n)
  \/ \E from, to \in Names : CallRename(from, to)

Next ==
  \/ Request
  \/ \E c \in Callers : CallerStepOf(c)
  \/ \E p \in Procs : ThreadStepOf(p) \/ ChildExit(p)
  \/ StopAll
  \/ \E n \in Names : StopNext(n)
  \/ HostExits

\* Goroutines run when they can, and a signalled command exits in the end;
\* nothing makes a request, a crash or a shutdown happen.
Fairness ==
  /\ \A p \in Procs : WF_supVars(ThreadStepOf(p))
  /\ \A p \in Procs : WF_supVars(child[p] = "signalled" /\ ChildExit(p))
  /\ \A c \in Callers : WF_supVars(CallerStepOf(c))

Spec == Init /\ [][Next]_supVars
FairSpec == Spec /\ Fairness

-----------------------------------------------------------------------------
(* Properties.                                                             *)

\* Every variable stays in its type; a caller inside Restart knows its name.
StructsOK ==
  /\ procs \in [Names -> Procs \cup {NoProc}]
  /\ app \in [Procs -> Names \cup {NoName}]
  /\ state \in [Procs -> AppState]
  /\ restarts \in [Procs -> Nat]
  /\ stopping \in [Procs -> BOOLEAN]
  /\ cgPath \in [Procs -> Names \cup {NoName}]
  /\ joins \in [Procs -> Names \cup {NoName}]
  /\ thread \in [Procs -> ThreadStep]
  /\ child \in [Procs -> ChildState]
  /\ cgroups \subseteq Names
  /\ \A p \in Procs : thread[p] # "unborn" => app[p] \in Names

CallsOK ==
  /\ at \in [Callers -> CallerStep]
  /\ arg \in [Callers -> Names \cup {NoName}]
  /\ made \in [Callers -> Procs \cup {NoProc}]
  /\ \A c \in Callers : at[c] \in {"waiting", "deleting", "starting"} => arg[c] \in Names

ShutdownOK == host \in {"up", "stopping", "gone"} /\ stopList \subseteq Names

TypeOK == StructsOK /\ CallsOK /\ ShutdownOK

\* The map and the structs agree: whatever a name is bound to calls itself by
\* that name (its cgroup and its log depend on it), so no struct is ever
\* reachable under two names, however renames, deletes and starts interleave.
MapConsistent == \A n \in Names : Bound(n) => app[procs[n]] = n

\* What Status reports as over is over: a process in the state "failed", or
\* back in "stopped" after it was published, has no command left and will not
\* spawn one.  waitState relies on it before Restart frees the name.
OverIsOver ==
  \A p \in Procs :
    /\ state[p] \in {"failed", "stopped"}
    /\ thread[p] \notin {"unborn", "spawn", "prepared", "started"}
    => child[p] = "dead" /\ thread[p] \in {"cleanup", "ended"}

\* The restart budget: "failed" is reported exactly when the consecutive
\* crashes exceed maxRestarts, and they exceed it by one.
Budget ==
  \A p \in Procs :
    /\ restarts[p] <= MaxRestarts + 1
    /\ state[p] = "failed" <=> restarts[p] > MaxRestarts

\* What the place of its goroutine says of a struct.  OverIsOver and Budget are
\* not inductive; with TypeOK and the binding of names to born structs this is.
PlaceInv(p) ==
  /\ thread[p] = "unborn" => child[p] = "none" /\ restarts[p] = 0
  /\ thread[p] \in {"unborn", "spawn", "prepared"} => child[p] \in {"none", "dead"}
  /\ thread[p] = "started" => child[p] \in {"live", "dead"}
  /\ thread[p] = "wait" => child[p] # "none" /\ state[p] = "running"
  /\ thread[p] \in {"backoff", "cleanup"} => child[p] = "dead"
  /\ thread[p] = "ended" => child[p] = "dead" \/ (child[p] = "none" /\ state[p] = "crashed")
  /\ thread[p] = "backoff" => state[p] = "crashed"
  /\ thread[p] \notin {"cleanup", "ended"} =>
       state[p] # "failed" /\ restarts[p] <= MaxRestarts
  /\ restarts[p] <= MaxRestarts + 1
  /\ state[p] = "failed" <=> restarts[p] > MaxRestarts

ThreadInv == \A p \in Procs : PlaceInv(p)

BoundInv == \A n \in Names : Bound(n) =>
  thread[procs[n]] # "unborn" /\ app[procs[n]] = n

SupervisorInv == TypeOK /\ ThreadInv /\ BoundInv

\* A Stop that found the process published or backing off.
Settled(p) ==
  stopping[p] /\ thread[p] \in {"wait", "backoff", "cleanup", "ended"}

\* Such a Stop is irrevocable: no later step of any goroutine takes it back or
\* spawns that process again (a Stop that lands inside spawn is lost, since
\* spawn's critical section clears p.stopping).
StopIrrevocable == [][\A p \in Procs : Settled(p) => Settled(p)']_supVars

\* And it takes effect: the goroutine ends, with the command gone.
StopTakesEffect ==
  \A p \in Procs :
    Settled(p) ~> (host = "gone" \/ (thread[p] = "ended" /\ child[p] \in {"none", "dead"}))

\* A process that keeps crashing either gives up or keeps earning its budget
\* back: it cannot restart for ever without a stable stretch in between.
CrashLoopEnds ==
  \A p \in Procs :
    []<>(thread[p] = "backoff") /\ []<>(thread[p] = "spawn")
      => []<>(restarts[p] = 1)

\* The process structs implement the restart policy, their goroutine's place
\* and the command behind them seen as the policy's phase.
PhaseOf(step) ==
  CASE step = "unborn" -> "none"
    [] step \in {"spawn", "prepared", "started"} -> "starting"
    [] step = "wait" -> "up"
    [] step = "backoff" -> "down"
    [] step \in {"cleanup", "ended"} -> "over"

Policy == INSTANCE RestartPolicy WITH
  Units <- Procs,
  phase <- [p \in Procs |-> PhaseOf(thread[p])],
  crashes <- restarts,
  told <- [p \in Procs |-> Settled(p)]

ImplementsPolicy == Policy!PolicySpec

\* A running command that no name leads to: nothing can stop it any more.
Orphan(p) ==
  /\ thread[p] = "wait" /\ child[p] = "live"
  /\ \A n \in Names : procs[n] # p

\* What cmd/lamund/api.go says of shutdown: StopAll stops every application
\* process, so that none is left an orphan that holds its port at next boot.
ShutdownLeavesNoOrphan == host = "gone" => \A p \in Procs : ~Orphan(p)

===============================================================================
