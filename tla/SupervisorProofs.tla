--------------------------- MODULE SupervisorProofs ---------------------------
(***************************************************************************)
(* Theorems about the supervisor, for every set of names and callers and   *)
(* every size of the pool and of the restart budget.                       *)
(*                                                                         *)
(* The safety invariants of module Supervisor are not inductive: they      *)
(* follow from where the goroutine of each struct stands.  PlaceInv says,  *)
(* for each of its eight places, what the struct's fields and the command  *)
(* behind it can be; with the type invariant it is inductive.              *)
(***************************************************************************)
EXTENDS Supervisor, TLAPS

USE SupervisorAssumption DEF Procs

-----------------------------------------------------------------------------
(* Types.                                                                  *)

LEMMA InitType == Init => TypeOK
BY DEF Init, TypeOK, StructsOK, CallsOK, ShutdownOK, AppState, ThreadStep,
       ChildState, CallerStep

LEMMA RegisterType ==
  ASSUME StructsOK, NEW n \in Names, NEW p \in Procs, Register(n, p)
  PROVE  StructsOK'
BY DEF StructsOK, Register, ThreadStep

LEMMA RefusedType ==
  ASSUME StructsOK, NEW n \in Names, StartRefused(n)
  PROVE  StructsOK'
BY DEF StructsOK, StartRefused, fields

LEMMA StopType ==
  ASSUME StructsOK, NEW n \in Names, StopMethod(n)
  PROVE  StructsOK'
BY DEF StructsOK, StopMethod, Signal, Bound, ChildState

LEMMA DeleteType ==
  ASSUME StructsOK, NEW n \in Names, DeleteMethod(n)
  PROVE  StructsOK'
BY DEF StructsOK, DeleteMethod, fields

LEMMA RenameType ==
  ASSUME StructsOK, NEW from \in Names, NEW to \in Names, RenameMethod(from, to)
  PROVE  StructsOK'
<1>1. CASE Bound(from) /\ from # to
  <2>1. procs[from] \in Procs
    BY <1>1 DEF StructsOK, Bound
  <2>2. procs' \in [Names -> Procs \cup {NoProc}]
    BY <1>1, <2>1 DEF StructsOK, RenameMethod
  <2>3. app' \in [Procs -> Names \cup {NoName}]
    BY <1>1, <2>1 DEF StructsOK, RenameMethod
  <2> QED
    BY <2>2, <2>3 DEF StructsOK, RenameMethod
<1>2. CASE ~(Bound(from) /\ from # to)
  BY <1>2 DEF StructsOK, RenameMethod
<1> QED
  BY <1>1, <1>2

LEMMA ThreadType ==
  ASSUME StructsOK, NEW p \in Procs, ThreadStepOf(p)
  PROVE  StructsOK'
<1>1. CASE Prepare(p)
  <2>1. app[p] \in Names \cup {NoName}
    BY DEF StructsOK
  <2>2. cgroups' \subseteq Names
    BY <1>1 DEF Prepare, StructsOK
  <2>3. thread' \in [Procs -> ThreadStep]
    BY <1>1 DEF Prepare, StructsOK, ThreadStep
  <2>4. cgPath' \in [Procs -> Names \cup {NoName}] /\ joins' \in [Procs -> Names \cup {NoName}]
    BY <1>1, <2>1 DEF Prepare, StructsOK
  <2> QED
    BY <1>1, <2>2, <2>3, <2>4 DEF Prepare, StructsOK
<1>2. CASE Launch(p)
  BY <1>2 DEF Launch, StructsOK, ThreadStep, ChildState, fields
<1>3. CASE LaunchFails(p)
  BY <1>3 DEF LaunchFails, StructsOK, ThreadStep, AppState
<1>4. CASE Publish(p)
  BY <1>4 DEF Publish, StructsOK, ThreadStep, AppState
<1>5. CASE Reap(p)
  <2>1. restarts' \in [Procs -> Nat]
    BY <1>5 DEF Reap, StructsOK, Crashes
  <2>2. state' \in [Procs -> AppState]
    BY <1>5 DEF Reap, StructsOK, AppState
  <2>3. thread' \in [Procs -> ThreadStep]
    BY <1>5 DEF Reap, StructsOK, ThreadStep
  <2> QED
    BY <1>5, <2>1, <2>2, <2>3 DEF Reap, StructsOK
<1>6. CASE Cleanup(p)
  BY <1>6 DEF Cleanup, StructsOK, ThreadStep, fields
<1>7. CASE BackoffOver(p)
  BY <1>7 DEF BackoffOver, StructsOK, ThreadStep, fields
<1> QED
  BY <1>1, <1>2, <1>3, <1>4, <1>5, <1>6, <1>7 DEF ThreadStepOf

LEMMA BeginType ==
  ASSUME TypeOK, NEW c \in Callers, NEW n \in Names, Begin(c, n)
  PROVE  StructsOK' /\ CallsOK'
<1>1. StructsOK'
  BY RegisterType, RefusedType DEF Begin, TypeOK
<1>2. CallsOK'
  BY DEF Begin, Goto, TypeOK, CallsOK, CallerStep
<1> QED
  BY <1>1, <1>2

LEMMA CallerType ==
  ASSUME TypeOK, NEW c \in Callers, CallerStepOf(c)
  PROVE  TypeOK'
<1>1. CASE StartReturns(c)
  BY <1>1 DEF StartReturns, TypeOK, StructsOK, CallsOK, ShutdownOK, fields, shutdown,
              Goto, CallerStep
<1>2. CASE RestartWaited(c)
  BY <1>2 DEF RestartWaited, TypeOK, StructsOK, CallsOK, ShutdownOK, fields, shutdown,
              Goto, CallerStep
<1>3. CASE RestartDelete(c)
  <2>1. StructsOK'
    BY <1>3, DeleteType DEF RestartDelete, TypeOK, CallsOK
  <2> QED
    BY <1>3, <2>1 DEF RestartDelete, TypeOK, CallsOK, ShutdownOK, shutdown, Goto, CallerStep
<1>4. CASE RestartStart(c)
  BY <1>4, BeginType DEF RestartStart, TypeOK, CallsOK, ShutdownOK, shutdown
<1> QED
  BY <1>1, <1>2, <1>3, <1>4 DEF CallerStepOf

\* Type correctness of one step.
LEMMA NextType == TypeOK /\ [Next]_supVars => TypeOK'
<1> SUFFICES ASSUME TypeOK, [Next]_supVars PROVE TypeOK'
  OBVIOUS
<1> USE DEF TypeOK, CallsOK, ShutdownOK, calls, shutdown
<1>1. ASSUME NEW c \in Callers, NEW n \in Names, CallStart(c, n) PROVE TypeOK'
  BY <1>1, BeginType DEF CallStart
<1>2. ASSUME NEW c \in Callers, NEW n \in Names, CallRestart(c, n) PROVE TypeOK'
  BY <1>2, StopType DEF CallRestart, Goto, CallerStep
<1>3. ASSUME NEW n \in Names, CallStop(n) PROVE TypeOK'
  BY <1>3, StopType DEF CallStop
<1>4. ASSUME NEW n \in Names, CallDelete(n) PROVE TypeOK'
  BY <1>4, DeleteType DEF CallDelete
<1>5. ASSUME NEW from \in Names, NEW to \in Names, CallRename(from, to) PROVE TypeOK'
  BY <1>5, RenameType DEF CallRename
<1>6. ASSUME NEW c \in Callers, CallerStepOf(c) PROVE TypeOK'
  BY <1>6, CallerType
<1>7. ASSUME NEW p \in Procs, ThreadStepOf(p) PROVE TypeOK'
  <2>1. UNCHANGED <<calls, shutdown>>
    BY <1>7 DEF ThreadStepOf, Prepare, Launch, LaunchFails, Publish, Reap, Cleanup,
                BackoffOver
  <2> QED
    BY <1>7, <2>1, ThreadType
<1>8. ASSUME NEW p \in Procs, ChildExit(p) PROVE TypeOK'
  BY <1>8 DEF ChildExit, StructsOK, ChildState, fields
<1>9. CASE StopAll
  BY <1>9 DEF StopAll, StructsOK, fields
<1>10. ASSUME NEW n \in Names, StopNext(n) PROVE TypeOK'
  BY <1>10, StopType DEF StopNext
<1>11. CASE HostExits
  BY <1>11 DEF HostExits, StructsOK, fields
<1>12. CASE UNCHANGED supVars
  BY <1>12 DEF supVars, StructsOK
<1> QED
  BY <1>1, <1>2, <1>3, <1>4, <1>5, <1>6, <1>7, <1>8, <1>9, <1>10, <1>11, <1>12
  DEF Next, Request

\* The supervisor keeps its types.
THEOREM TypeCorrect == Spec => []TypeOK
BY InitType, NextType, PTL DEF Spec

-----------------------------------------------------------------------------
(* The inductive invariant: the methods called under the lock.             *)

SafeInv == ThreadInv /\ BoundInv

\* A struct none of whose relevant fields changes stays in place.
LEMMA PlaceSame ==
  ASSUME NEW p \in Procs, PlaceInv(p), thread'[p] = thread[p], child'[p] = child[p],
         state'[p] = state[p], restarts'[p] = restarts[p]
  PROVE  PlaceInv(p)'
BY DEF PlaceInv

LEMMA RegisterSafe ==
  ASSUME TypeOK, SafeInv, NEW n \in Names, NEW p \in Procs, Register(n, p)
  PROVE  SafeInv'
<1>1. thread[p] = "unborn" /\ PlaceInv(p)
  BY DEF Register, Fresh, SafeInv, ThreadInv
<1>2. ASSUME NEW q \in Procs PROVE PlaceInv(q)'
  <2>1. CASE q = p
    BY <1>1, <2>1 DEF Register, PlaceInv, TypeOK, StructsOK, AppState
  <2>2. CASE q # p
    BY <2>2, PlaceSame DEF Register, TypeOK, StructsOK, SafeInv, ThreadInv
  <2> QED
    BY <2>1, <2>2
<1>3. ASSUME NEW m \in Names, Bound(m)' PROVE thread'[procs'[m]] # "unborn" /\ app'[procs'[m]] = m
  <2>1. CASE m = n
    BY <2>1 DEF Register, TypeOK, StructsOK
  <2>2. CASE m # n
    <3>1. procs'[m] = procs[m] /\ procs[m] \in Procs
      BY <1>3, <2>2 DEF Register, Bound, TypeOK, StructsOK
    <3>2. thread[procs[m]] # "unborn" /\ app[procs[m]] = m
      BY <1>3, <3>1 DEF Bound, SafeInv, BoundInv
    <3> QED
      BY <1>1, <3>1, <3>2 DEF Register, TypeOK, StructsOK
  <2> QED
    BY <2>1, <2>2
<1> QED
  BY <1>2, <1>3 DEF SafeInv, ThreadInv, BoundInv

LEMMA RefusedSafe ==
  ASSUME SafeInv, NEW n \in Names, StartRefused(n)
  PROVE  SafeInv'
BY DEF StartRefused, fields, SafeInv, ThreadInv, PlaceInv, BoundInv, Bound

LEMMA StopSafe ==
  ASSUME TypeOK, SafeInv, NEW n \in Names, StopMethod(n)
  PROVE  SafeInv'
<1>1. ASSUME NEW q \in Procs PROVE PlaceInv(q)'
  <2>1. CASE child'[q] = child[q]
    BY <2>1, PlaceSame DEF StopMethod, SafeInv, ThreadInv
  <2>2. CASE child'[q] # child[q]
    <3>1. thread[q] = "wait" /\ child'[q] = "signalled"
      BY <2>2 DEF StopMethod, Signal, Bound, TypeOK, StructsOK
    <3> QED
      BY <3>1 DEF StopMethod, SafeInv, ThreadInv, PlaceInv
  <2> QED
    BY <2>1, <2>2
<1>2. BoundInv'
  BY DEF StopMethod, SafeInv, BoundInv, Bound
<1> QED
  BY <1>1, <1>2 DEF SafeInv, ThreadInv

LEMMA DeleteSafe ==
  ASSUME TypeOK, SafeInv, NEW n \in Names, DeleteMethod(n)
  PROVE  SafeInv'
<1>1. ThreadInv'
  BY DEF DeleteMethod, fields, SafeInv, ThreadInv, PlaceInv
<1>2. BoundInv'
  BY DEF DeleteMethod, fields, SafeInv, BoundInv, Bound, TypeOK, StructsOK
<1> QED
  BY <1>1, <1>2 DEF SafeInv

\* The struct that moves is not bound to any other name: BoundInv itself says so.
LEMMA RenameSafe ==
  ASSUME TypeOK, SafeInv, NEW from \in Names, NEW to \in Names, RenameMethod(from, to)
  PROVE  SafeInv'
<1>1. ThreadInv'
  BY DEF RenameMethod, SafeInv, ThreadInv, PlaceInv
<1>2. CASE Bound(from) /\ from # to
  <2>1. procs[from] \in Procs /\ thread[procs[from]] # "unborn" /\ app[procs[from]] = from
    BY <1>2 DEF Bound, SafeInv, BoundInv, TypeOK, StructsOK
  <2>2. ASSUME NEW m \in Names, Bound(m)'
        PROVE  thread'[procs'[m]] # "unborn" /\ app'[procs'[m]] = m
    <3>1. CASE m = to
      BY <1>2, <2>1, <3>1 DEF RenameMethod, TypeOK, StructsOK
    <3>2. CASE m # to
      <4>1. m # from /\ procs'[m] = procs[m] /\ procs[m] \in Procs
        BY <1>2, <2>2, <3>2 DEF RenameMethod, Bound, TypeOK, StructsOK
      <4>2. thread[procs[m]] # "unborn" /\ app[procs[m]] = m
        BY <2>2, <4>1 DEF Bound, SafeInv, BoundInv
      <4>3. procs[m] # procs[from]
        BY <2>1, <4>1, <4>2
      <4> QED
        BY <1>2, <2>1, <4>1, <4>2, <4>3 DEF RenameMethod, TypeOK, StructsOK
    <3> QED
      BY <3>1, <3>2
  <2> QED
    BY <1>1, <2>2 DEF SafeInv, BoundInv
<1>3. CASE ~(Bound(from) /\ from # to)
  BY <1>1, <1>3 DEF RenameMethod, SafeInv, BoundInv, Bound
<1> QED
  BY <1>2, <1>3

-----------------------------------------------------------------------------
(* The inductive invariant: the goroutine of a process, and its command.   *)

\* A step of the goroutine of p moves no other struct, binds no name and does
\* not take p back to where it was not born.
LEMMA ThreadFrame ==
  ASSUME TypeOK, SafeInv, NEW p \in Procs, ThreadStepOf(p) \/ ChildExit(p)
  PROVE  /\ \A q \in Procs \ {p} : PlaceInv(q)'
         /\ BoundInv'
<1>1. /\ \A q \in Procs \ {p} : /\ thread'[q] = thread[q] /\ child'[q] = child[q]
                                /\ state'[q] = state[q] /\ restarts'[q] = restarts[q]
      /\ procs' = procs /\ app' = app
      /\ thread'[p] # "unborn" \/ thread'[p] = thread[p]
  <2>1. CASE Prepare(p)
    BY <2>1 DEF Prepare, TypeOK, StructsOK
  <2>2. CASE Launch(p)
    BY <2>2 DEF Launch, fields, TypeOK, StructsOK
  <2>3. CASE LaunchFails(p)
    BY <2>3 DEF LaunchFails, TypeOK, StructsOK
  <2>4. CASE Publish(p)
    BY <2>4 DEF Publish, TypeOK, StructsOK
  <2>5. CASE Reap(p)
    BY <2>5 DEF Reap, TypeOK, StructsOK
  <2>6. CASE Cleanup(p)
    BY <2>6 DEF Cleanup, fields, TypeOK, StructsOK
  <2>7. CASE BackoffOver(p)
    BY <2>7 DEF BackoffOver, fields, TypeOK, StructsOK
  <2>8. CASE ChildExit(p)
    BY <2>8 DEF ChildExit, fields, TypeOK, StructsOK
  <2> QED
    BY <2>1, <2>2, <2>3, <2>4, <2>5, <2>6, <2>7, <2>8 DEF ThreadStepOf
<1>2. \A q \in Procs \ {p} : PlaceInv(q)'
  BY <1>1, PlaceSame DEF SafeInv, ThreadInv
<1>3. ASSUME NEW m \in Names, Bound(m)' PROVE thread'[procs'[m]] # "unborn" /\ app'[procs'[m]] = m
  <2>1. procs[m] \in Procs /\ Bound(m)
    BY <1>1, <1>3 DEF Bound, TypeOK, StructsOK
  <2>2. thread[procs[m]] # "unborn" /\ app[procs[m]] = m
    BY <2>1 DEF SafeInv, BoundInv
  <2>3. CASE procs[m] = p
    BY <1>1, <2>2, <2>3
  <2>4. CASE procs[m] # p
    BY <1>1, <2>1, <2>2, <2>4
  <2> QED
    BY <2>3, <2>4
<1> QED
  BY <1>2, <1>3 DEF BoundInv

LEMMA ReapSafe ==
  ASSUME TypeOK, NEW p \in Procs, PlaceInv(p), Reap(p)
  PROVE  PlaceInv(p)'
<1>1. CASE stopping[p]
  BY <1>1 DEF Reap, PlaceInv, TypeOK, StructsOK
<1>2. CASE ~stopping[p]
  <2>1. PICK stable \in BOOLEAN :
          LET r == Crashes(restarts[p], stable) IN
          /\ restarts' = [restarts EXCEPT ![p] = r]
          /\ state' = [state EXCEPT ![p] = IF GivesUp(r) THEN "failed" ELSE "crashed"]
          /\ thread' = [thread EXCEPT ![p] = IF GivesUp(r) THEN "cleanup" ELSE "backoff"]
    BY <1>2 DEF Reap
  <2> DEFINE r == Crashes(restarts[p], stable)
  <2>2. r \in Nat /\ r <= MaxRestarts + 1 /\ r > 0
    BY DEF Crashes, Reap, PlaceInv, TypeOK, StructsOK
  <2>3. restarts'[p] = r /\ child'[p] = "dead"
    BY <2>1 DEF Reap, TypeOK, StructsOK
  <2>4. CASE GivesUp(r)
    <3>1. state'[p] = "failed" /\ thread'[p] = "cleanup"
      BY <2>1, <2>4 DEF TypeOK, StructsOK
    <3> HIDE DEF r
    <3> QED
      BY <2>2, <2>3, <2>4, <3>1 DEF GivesUp, PlaceInv
  <2>5. CASE ~GivesUp(r)
    <3>1. state'[p] = "crashed" /\ thread'[p] = "backoff"
      BY <2>1, <2>5 DEF TypeOK, StructsOK
    <3> HIDE DEF r
    <3> QED
      BY <2>2, <2>3, <2>5, <3>1 DEF GivesUp, PlaceInv
  <2> QED
    BY <2>4, <2>5
<1> QED
  BY <1>1, <1>2 DEF TypeOK, StructsOK

LEMMA ThreadSafe ==
  ASSUME TypeOK, SafeInv, NEW p \in Procs, ThreadStepOf(p) \/ ChildExit(p)
  PROVE  SafeInv'
<1>1. PlaceInv(p)
  BY DEF SafeInv, ThreadInv
<1>2. PlaceInv(p)'
  <2> USE <1>1 DEF PlaceInv, TypeOK, StructsOK
  <2>1. CASE Prepare(p)
    BY <2>1 DEF Prepare
  <2>2. CASE Launch(p)
    BY <2>2 DEF Launch, fields
  <2>3. CASE LaunchFails(p)
    BY <2>3 DEF LaunchFails
  <2>4. CASE Publish(p)
    BY <2>4 DEF Publish, ChildState
  <2>5. CASE Reap(p)
    BY <2>5, ReapSafe
  <2>6. CASE Cleanup(p)
    BY <2>6 DEF Cleanup, fields
  <2>7. CASE BackoffOver(p)
    BY <2>7 DEF BackoffOver, fields
  <2>8. CASE ChildExit(p)
    BY <2>8 DEF ChildExit, fields
  <2> QED
    BY <2>1, <2>2, <2>3, <2>4, <2>5, <2>6, <2>7, <2>8 DEF ThreadStepOf
<1> QED
  BY <1>2, ThreadFrame DEF SafeInv, ThreadInv

-----------------------------------------------------------------------------
(* The inductive invariant: every step, and what follows.                  *)

LEMMA InitSafe == Init => SafeInv
BY DEF Init, SafeInv, ThreadInv, PlaceInv, BoundInv, Bound

\* A caller's step is a method under the lock or touches no struct at all.
LEMMA CallerSafe ==
  ASSUME TypeOK, SafeInv, NEW c \in Callers, CallerStepOf(c)
  PROVE  SafeInv'
<1>1. CASE StartReturns(c)
  BY <1>1 DEF StartReturns, fields, SafeInv, ThreadInv, PlaceInv, BoundInv, Bound
<1>2. CASE RestartWaited(c)
  BY <1>2 DEF RestartWaited, fields, SafeInv, ThreadInv, PlaceInv, BoundInv, Bound
<1>3. CASE RestartDelete(c)
  BY <1>3, DeleteSafe DEF RestartDelete, TypeOK, CallsOK
<1>4. CASE RestartStart(c)
  BY <1>4, RegisterSafe, RefusedSafe DEF RestartStart, Begin, TypeOK, CallsOK
<1> QED
  BY <1>1, <1>2, <1>3, <1>4 DEF CallerStepOf

LEMMA NextSafe == TypeOK /\ SafeInv /\ [Next]_supVars => SafeInv'
<1> SUFFICES ASSUME TypeOK, SafeInv, [Next]_supVars PROVE SafeInv'
  OBVIOUS
<1>1. ASSUME NEW c \in Callers, NEW n \in Names, CallStart(c, n) PROVE SafeInv'
  BY <1>1, RegisterSafe, RefusedSafe DEF CallStart, Begin
<1>2. ASSUME NEW n \in Names, StopMethod(n) PROVE SafeInv'
  BY <1>2, StopSafe
<1>3. ASSUME NEW n \in Names, DeleteMethod(n) PROVE SafeInv'
  BY <1>3, DeleteSafe
<1>4. ASSUME NEW from \in Names, NEW to \in Names, RenameMethod(from, to) PROVE SafeInv'
  BY <1>4, RenameSafe
<1>5. ASSUME NEW c \in Callers, CallerStepOf(c) PROVE SafeInv'
  BY <1>5, CallerSafe
<1>6. ASSUME NEW p \in Procs, ThreadStepOf(p) \/ ChildExit(p) PROVE SafeInv'
  BY <1>6, ThreadSafe
<1>7. ASSUME UNCHANGED <<procs, fields, thread, child>> PROVE SafeInv'
  BY <1>7 DEF fields, SafeInv, ThreadInv, PlaceInv, BoundInv, Bound
<1> QED
  BY <1>1, <1>2, <1>3, <1>4, <1>5, <1>6, <1>7
  DEF Next, Request, CallRestart, CallStop, CallDelete, CallRename, StopAll, StopNext,
      HostExits, supVars, fields

\* The inductive invariant holds of every reachable state.
THEOREM InvCorrect == Spec => []SupervisorInv
<1>1. Init => TypeOK /\ SafeInv
  BY InitType, InitSafe
<1>2. TypeOK /\ SafeInv /\ [Next]_supVars => (TypeOK /\ SafeInv)'
  BY NextType, NextSafe
<1>3. TypeOK /\ SafeInv => SupervisorInv
  BY DEF SafeInv, SupervisorInv
<1> QED
  BY <1>1, <1>2, <1>3, PTL DEF Spec

\* No struct is reachable under two names, whatever renames and restarts do.
THEOREM MapConsistentAlways == Spec => []MapConsistent
<1>1. SupervisorInv => MapConsistent
  BY DEF SupervisorInv, BoundInv, MapConsistent
<1> QED
  BY <1>1, InvCorrect, PTL

\* What is reported as over has no command left.
THEOREM OverIsOverAlways == Spec => []OverIsOver
<1>1. SupervisorInv => OverIsOver
  <2> SUFFICES ASSUME SupervisorInv, NEW p \in Procs, state[p] \in {"failed", "stopped"},
                      thread[p] \notin {"unborn", "spawn", "prepared", "started"}
               PROVE  child[p] = "dead" /\ thread[p] \in {"cleanup", "ended"}
    BY DEF OverIsOver
  <2>1. PlaceInv(p) /\ thread[p] \in ThreadStep
    BY DEF SupervisorInv, ThreadInv, TypeOK, StructsOK
  <2> QED
    BY <2>1 DEF PlaceInv, ThreadStep
<1> QED
  BY <1>1, InvCorrect, PTL

\* The restart budget is kept, for every value of s.maxRestarts.
THEOREM BudgetAlways == Spec => []Budget
<1>1. SupervisorInv => Budget
  BY DEF SupervisorInv, ThreadInv, PlaceInv, Budget
<1> QED
  BY <1>1, InvCorrect, PTL

-----------------------------------------------------------------------------
(* Refinement of RestartPolicy.                                            *)

Phases == [p \in Procs |-> PhaseOf(thread[p])]
Tolds == [p \in Procs |-> Settled(p)]

LEMMA PhaseValues ==
  /\ PhaseOf("unborn") = "none"
  /\ PhaseOf("spawn") = "starting" /\ PhaseOf("prepared") = "starting"
  /\ PhaseOf("started") = "starting" /\ PhaseOf("wait") = "up"
  /\ PhaseOf("backoff") = "down"
  /\ PhaseOf("cleanup") = "over" /\ PhaseOf("ended") = "over"
BY DEF PhaseOf

\* A goroutine that moves moves the phase of its own process only.
LEMMA PhaseMoves ==
  ASSUME TypeOK, NEW p \in Procs, NEW place, thread' = [thread EXCEPT ![p] = place]
  PROVE  /\ Phases[p] = PhaseOf(thread[p])
         /\ Phases' = [Phases EXCEPT ![p] = PhaseOf(place)]
BY DEF Phases, TypeOK, StructsOK

\* A step that moves no goroutine and tells no process anything stutters.
LEMMA PolicyStutter ==
  ASSUME UNCHANGED <<thread, stopping, restarts>>
  PROVE  UNCHANGED Policy!policyVars
BY DEF Policy!policyVars, Settled, PhaseOf

LEMMA RegisterRefines ==
  ASSUME TypeOK, NEW n \in Names, NEW p \in Procs, Register(n, p)
  PROVE  Policy!Created(p)
<1>1. Phases[p] = "none" /\ Phases' = [Phases EXCEPT ![p] = "starting"]
  <2>1. thread[p] = "unborn" /\ thread' = [thread EXCEPT ![p] = "spawn"]
    BY DEF Register, Fresh
  <2>2. Phases[p] = PhaseOf("unborn") /\ Phases' = [Phases EXCEPT ![p] = PhaseOf("spawn")]
    BY <2>1, PhaseMoves
  <2> QED
    BY <2>2, PhaseValues
<1>2. Tolds' = Tolds
  BY DEF Register, Fresh, Tolds, Settled, TypeOK, StructsOK
<1>3. restarts' = restarts
  BY DEF Register
<1> QED
  BY <1>1, <1>2, <1>3 DEF Policy!Created, Policy!Move, Phases, Tolds

\* A Stop tells the process, when it has been published.
LEMMA StopRefines ==
  ASSUME TypeOK, NEW n \in Names, StopMethod(n)
  PROVE  (\E p \in Procs : Policy!Told(p)) \/ UNCHANGED Policy!policyVars
<1>1. CASE ~Bound(n)
  BY <1>1, PolicyStutter DEF StopMethod
<1>2. CASE Bound(n)
  <2> DEFINE p == procs[n]
  <2>1. p \in Procs
    BY <1>2 DEF Bound, TypeOK, StructsOK
  <2>2. UNCHANGED <<thread, restarts>> /\ stopping' = [stopping EXCEPT ![p] = TRUE]
    BY <1>2 DEF StopMethod
  <2> HIDE DEF p
  <2>3. CASE thread[p] \in {"wait", "backoff", "cleanup", "ended"}
    <3>1. Phases[p] \in {"up", "down", "over"} /\ Phases' = Phases
      BY <2>1, <2>2, <2>3 DEF Phases, PhaseOf
    <3>2. Tolds' = [Tolds EXCEPT ![p] = TRUE]
      BY <2>1, <2>2, <2>3 DEF Tolds, Settled, TypeOK, StructsOK
    <3>3. Policy!Told(p)
      BY <2>2, <3>1, <3>2 DEF Policy!Told, Phases, Tolds
    <3> QED
      BY <2>1, <3>3
  <2>4. CASE thread[p] \notin {"wait", "backoff", "cleanup", "ended"}
    <3>1. Phases' = Phases
      BY <2>2 DEF Phases, PhaseOf
    <3>2. Tolds' = Tolds
      BY <2>1, <2>2, <2>4 DEF Tolds, Settled, TypeOK, StructsOK
    <3> QED
      BY <2>2, <3>1, <3>2 DEF Policy!policyVars, Phases, Tolds
  <2> QED
    BY <2>3, <2>4
<1> QED
  BY <1>1, <1>2

LEMMA LaunchFailsRefines ==
  ASSUME TypeOK, NEW p \in Procs, LaunchFails(p)
  PROVE  Policy!CannotStart(p)
<1>1. Phases[p] = "starting" /\ Phases' = [Phases EXCEPT ![p] = "over"]
  <2>1. thread[p] = "prepared" /\ thread' = [thread EXCEPT ![p] = "ended"]
    BY DEF LaunchFails
  <2>2. Phases[p] = PhaseOf("prepared") /\ Phases' = [Phases EXCEPT ![p] = PhaseOf("ended")]
    BY <2>1, PhaseMoves
  <2> QED
    BY <2>2, PhaseValues
<1>2. CASE stopping[p]
  <2>1. Tolds' = [Tolds EXCEPT ![p] = TRUE]
    BY <1>2 DEF LaunchFails, Tolds, Settled, TypeOK, StructsOK
  <2> QED
    BY <1>1, <2>1 DEF LaunchFails, Policy!CannotStart, Policy!Move, Phases, Tolds
<1>3. CASE ~stopping[p]
  <2>1. Tolds' = Tolds
    BY <1>3 DEF LaunchFails, Tolds, Settled, TypeOK, StructsOK
  <2> QED
    BY <1>1, <2>1 DEF LaunchFails, Policy!CannotStart, Policy!Move, Phases, Tolds
<1> QED
  BY <1>2, <1>3

LEMMA PublishRefines ==
  ASSUME TypeOK, NEW p \in Procs, Publish(p)
  PROVE  Policy!ComesUp(p)
<1>1. Phases[p] = "starting" /\ Phases' = [Phases EXCEPT ![p] = "up"]
  <2>1. thread[p] = "started" /\ thread' = [thread EXCEPT ![p] = "wait"]
    BY DEF Publish
  <2>2. Phases[p] = PhaseOf("started") /\ Phases' = [Phases EXCEPT ![p] = PhaseOf("wait")]
    BY <2>1, PhaseMoves
  <2> QED
    BY <2>2, PhaseValues
<1>2. Tolds' = Tolds
  BY DEF Publish, Tolds, Settled, TypeOK, StructsOK
<1> QED
  BY <1>1, <1>2 DEF Publish, Policy!ComesUp, Policy!Move, Phases, Tolds

LEMMA ReapRefines ==
  ASSUME TypeOK, NEW p \in Procs, Reap(p)
  PROVE  Policy!StopsAsTold(p) \/ Policy!Crashed(p)
<1>1. Phases[p] = "up" /\ (Tolds[p] <=> stopping[p])
  BY PhaseValues DEF Reap, Phases, Tolds, Settled
<1>2. Tolds' = Tolds
  <2> SUFFICES ASSUME NEW q \in Procs PROVE Settled(q)' <=> Settled(q)
    BY DEF Tolds, Settled
  <2>1. stopping' = stopping /\ (q # p => thread'[q] = thread[q])
    BY DEF Reap, TypeOK, StructsOK
  <2>2. thread[p] = "wait" /\ thread'[p] \in {"backoff", "cleanup"}
    BY DEF Reap, TypeOK, StructsOK
  <2> QED
    BY <2>1, <2>2 DEF Settled
<1>3. CASE stopping[p]
  <2>1. Phases' = [Phases EXCEPT ![p] = "over"] /\ restarts' = restarts
    BY <1>3, PhaseMoves, PhaseValues DEF Reap
  <2>2. Policy!StopsAsTold(p)
    BY <1>1, <1>2, <1>3, <2>1 DEF Policy!StopsAsTold, Policy!Move, Phases, Tolds
  <2> QED
    BY <2>2
<1>4. CASE ~stopping[p]
  <2>1. PICK stable \in BOOLEAN :
          LET r == Crashes(restarts[p], stable) IN
          /\ restarts' = [restarts EXCEPT ![p] = r]
          /\ state' = [state EXCEPT ![p] = IF GivesUp(r) THEN "failed" ELSE "crashed"]
          /\ thread' = [thread EXCEPT ![p] = IF GivesUp(r) THEN "cleanup" ELSE "backoff"]
    BY <1>4 DEF Reap
  <2> DEFINE r == Crashes(restarts[p], stable)
  <2>2. r \in {1, restarts[p] + 1}
    BY DEF Crashes, TypeOK, StructsOK
  <2>3. Phases' = [Phases EXCEPT ![p] = IF r > MaxRestarts THEN "over" ELSE "down"]
    <3>1. thread' = [thread EXCEPT ![p] = IF r > MaxRestarts THEN "cleanup" ELSE "backoff"]
      BY <2>1 DEF GivesUp
    <3> HIDE DEF r
    <3> DEFINE place == IF r > MaxRestarts THEN "cleanup" ELSE "backoff"
    <3>2. PhaseOf(place) = IF r > MaxRestarts THEN "over" ELSE "down"
      BY PhaseValues
    <3>3. thread' = [thread EXCEPT ![p] = place]
      BY <3>1
    <3> HIDE DEF place
    <3>4. Phases' = [Phases EXCEPT ![p] = PhaseOf(place)]
      BY <3>3, PhaseMoves
    <3> QED
      BY <3>2, <3>4
  <2>4. restarts' = [restarts EXCEPT ![p] = r]
    BY <2>1
  <2> HIDE DEF r
  <2>5. Policy!Crashed(p)
    BY <1>1, <1>2, <1>4, <2>2, <2>3, <2>4 DEF Policy!Crashed, Policy!Move, Phases, Tolds
  <2> QED
    BY <2>5
<1> QED
  BY <1>3, <1>4 DEF TypeOK, StructsOK

LEMMA BackoffRefines ==
  ASSUME TypeOK, NEW p \in Procs, BackoffOver(p)
  PROVE  Policy!StopsAsTold(p) \/ Policy!Retried(p)
<1>1. Phases[p] = "down" /\ (Tolds[p] <=> stopping[p]) /\ restarts' = restarts
  BY PhaseValues DEF BackoffOver, fields, Phases, Tolds, Settled
<1>2. Tolds' = Tolds
  BY DEF BackoffOver, fields, Tolds, Settled, TypeOK, StructsOK
<1>3. Phases' = [Phases EXCEPT ![p] = IF stopping[p] THEN "over" ELSE "starting"]
  <2> DEFINE place == IF stopping[p] THEN "ended" ELSE "spawn"
  <2>1. thread' = [thread EXCEPT ![p] = place]
    BY DEF BackoffOver
  <2>2. PhaseOf(place) = IF stopping[p] THEN "over" ELSE "starting"
    BY PhaseValues
  <2> HIDE DEF place
  <2>3. Phases' = [Phases EXCEPT ![p] = PhaseOf(place)]
    BY <2>1, PhaseMoves
  <2> QED
    BY <2>2, <2>3
<1> QED
  BY <1>1, <1>2, <1>3 DEF Policy!StopsAsTold, Policy!Retried, Policy!Move, Phases, Tolds

\* Preparing, launching and cleaning up are inside one phase of the policy.
LEMMA InnerStutters ==
  ASSUME TypeOK, NEW p \in Procs, Prepare(p) \/ Launch(p) \/ Cleanup(p)
  PROVE  UNCHANGED Policy!policyVars
<1>1. Phases' = Phases
  <2>1. PICK place \in {"prepared", "started", "ended"} :
          thread' = [thread EXCEPT ![p] = place] /\ PhaseOf(place) = PhaseOf(thread[p])
    BY PhaseValues DEF Prepare, Launch, Cleanup
  <2> QED
    BY <2>1, PhaseMoves DEF Phases
<1>2. Tolds' = Tolds
  BY DEF Prepare, Launch, Cleanup, fields, Tolds, Settled, TypeOK, StructsOK
<1>3. restarts' = restarts
  BY DEF Prepare, Launch, Cleanup, fields
<1> QED
  BY <1>1, <1>2, <1>3 DEF Policy!policyVars, Phases, Tolds

LEMMA StepRefines ==
  ASSUME TypeOK, [Next]_supVars
  PROVE  [Policy!PolicyNext]_(Policy!policyVars)
<1> USE DEF Policy!PolicyNext, Policy!PolicyStep
<1>1. ASSUME NEW n \in Names, StopMethod(n)
      PROVE  (\E p \in Procs : Policy!PolicyStep(p)) \/ UNCHANGED Policy!policyVars
  BY <1>1, StopRefines
<1>2. ASSUME NEW c \in Callers, NEW n \in Names, Begin(c, n)
      PROVE  (\E p \in Procs : Policy!PolicyStep(p)) \/ UNCHANGED Policy!policyVars
  <2>1. CASE \E p \in Procs : Register(n, p)
    BY <2>1, RegisterRefines
  <2>2. CASE StartRefused(n)
    BY <2>2, PolicyStutter DEF StartRefused, fields
  <2> QED
    BY <1>2, <2>1, <2>2 DEF Begin
<1>3. ASSUME NEW p \in Procs, ThreadStepOf(p)
      PROVE  (\E q \in Procs : Policy!PolicyStep(q)) \/ UNCHANGED Policy!policyVars
  BY <1>3, LaunchFailsRefines, PublishRefines, ReapRefines, BackoffRefines, InnerStutters
  DEF ThreadStepOf
<1>4. ASSUME NEW c \in Callers, CallerStepOf(c)
      PROVE  (\E q \in Procs : Policy!PolicyStep(q)) \/ UNCHANGED Policy!policyVars
  <2>1. CASE RestartStart(c)
    BY <1>2, <2>1 DEF RestartStart, TypeOK, CallsOK
  <2>2. CASE ~RestartStart(c)
    BY <1>4, <2>2, PolicyStutter
    DEF CallerStepOf, StartReturns, RestartWaited, RestartDelete, DeleteMethod, fields
  <2> QED
    BY <2>1, <2>2
<1>5. ASSUME UNCHANGED <<thread, stopping, restarts>>
      PROVE  (\E q \in Procs : Policy!PolicyStep(q)) \/ UNCHANGED Policy!policyVars
  BY <1>5, PolicyStutter
<1>6. ASSUME NEW p \in Procs, ChildExit(p) PROVE UNCHANGED <<thread, stopping, restarts>>
  BY <1>6 DEF ChildExit, fields
<1>7. ASSUME NEW n \in Names, CallDelete(n) PROVE UNCHANGED <<thread, stopping, restarts>>
  BY <1>7 DEF CallDelete, DeleteMethod, fields
<1>8. ASSUME NEW m \in Names, NEW n \in Names, CallRename(m, n)
      PROVE  UNCHANGED <<thread, stopping, restarts>>
  BY <1>8 DEF CallRename, RenameMethod
<1>9. ASSUME StopAll \/ HostExits PROVE UNCHANGED <<thread, stopping, restarts>>
  BY <1>9 DEF StopAll, HostExits, fields
<1>10. ASSUME UNCHANGED supVars PROVE UNCHANGED <<thread, stopping, restarts>>
  BY <1>10 DEF supVars
<1> QED
  BY <1>1, <1>2, <1>3, <1>4, <1>5, <1>6, <1>7, <1>8, <1>9, <1>10
  DEF Next, Request, CallStart, CallStop, CallRestart, StopNext

\* The supervisor implements the restart policy.
THEOREM RefinesPolicy == Spec => ImplementsPolicy
<1>1. Init => Policy!PolicyInit
  <2> SUFFICES ASSUME Init PROVE Policy!PolicyInit
    OBVIOUS
  <2>1. \A p \in Procs : PhaseOf(thread[p]) = "none" /\ Settled(p) = FALSE
    BY DEF Init, PhaseOf, Settled
  <2>2. restarts = [p \in Procs |-> 0]
    BY DEF Init
  <2> QED
    BY <2>1, <2>2 DEF Policy!PolicyInit
<1>2. TypeOK /\ [Next]_supVars => [Policy!PolicyNext]_(Policy!policyVars)
  BY StepRefines
<1> QED
  BY <1>1, <1>2, TypeCorrect, PTL DEF Spec, ImplementsPolicy, Policy!PolicySpec

-----------------------------------------------------------------------------
(* A Stop that counts is final.                                            *)

\* The policy never takes back what it was told.
LEMMA PolicyKeepsTold ==
  ASSUME [Policy!PolicyNext]_(Policy!policyVars), NEW p \in Procs, Settled(p)
  PROVE  Settled(p)'
<1>1. Tolds[p]
  BY DEF Tolds
<1>2. Tolds'[p]
  <2>1. ASSUME Tolds' = Tolds PROVE Tolds'[p]
    BY <1>1, <2>1
  <2>2. ASSUME NEW u \in Procs, Tolds' = [Tolds EXCEPT ![u] = TRUE] PROVE Tolds'[p]
    BY <1>1, <2>2 DEF Tolds
  <2> QED
    BY <2>1, <2>2 DEF Policy!PolicyNext, Policy!PolicyStep, Policy!policyVars, Policy!Created, Policy!ComesUp,
       Policy!CannotStart, Policy!Told, Policy!StopsAsTold, Policy!Crashed,
       Policy!Retried, Tolds
<1> QED
  BY <1>2 DEF Tolds

\* No step of any goroutine takes back a Stop that found the process published.
THEOREM StopIsFinal == Spec => StopIrrevocable
<1>1. TypeOK /\ [Next]_supVars => [\A p \in Procs : Settled(p) => Settled(p)']_supVars
  BY StepRefines, PolicyKeepsTold
<1> QED
  BY <1>1, TypeCorrect, PTL DEF Spec, StopIrrevocable

===============================================================================
