----------------------------- MODULE RestartPolicy -----------------------------
(***************************************************************************)
(* What the supervisor promises about one supervised process, whatever the *)
(* API goroutines do with the map of names: it is started, it may go down  *)
(* and be retried within a budget of consecutive crashes, a Stop that it   *)
(* has taken notice of is final, and once it is over it is over.           *)
(* Supervisor refines this module.                                         *)
(***************************************************************************)
EXTENDS Naturals

CONSTANTS
  Units,        \* the supervised processes
  MaxRestarts   \* consecutive crashes that are forgiven

VARIABLES
  phase,     \* "none", "starting", "up", "down" or "over"
  crashes,   \* consecutive crashes
  told       \* a Stop that counts has been received

policyVars == <<phase, crashes, told>>

PolicyInit ==
  /\ phase = [u \in Units |-> "none"]
  /\ crashes = [u \in Units |-> 0]
  /\ told = [u \in Units |-> FALSE]

Move(u, from, to) == phase[u] = from /\ phase' = [phase EXCEPT ![u] = to]

Created(u) ==
  /\ Move(u, "none", "starting")
  /\ UNCHANGED <<crashes, told>>

\* Coming up is a clean slate: a Stop received while starting does not count.
ComesUp(u) ==
  /\ Move(u, "starting", "up")
  /\ UNCHANGED <<crashes, told>>

\* The command could not be launched: nobody tries again.
CannotStart(u) ==
  /\ Move(u, "starting", "over")
  /\ told' \in {told, [told EXCEPT ![u] = TRUE]}
  /\ UNCHANGED crashes

Told(u) ==
  /\ phase[u] \in {"up", "down", "over"}
  /\ told' = [told EXCEPT ![u] = TRUE]
  /\ UNCHANGED <<phase, crashes>>

StopsAsTold(u) ==
  /\ told[u]
  /\ Move(u, "up", "over") \/ Move(u, "down", "over")
  /\ UNCHANGED <<crashes, told>>

\* A crash counts; a stable run before it forgives the earlier ones.
Crashed(u) ==
  /\ ~told[u]
  /\ \E c \in {1, crashes[u] + 1} :
       /\ crashes' = [crashes EXCEPT ![u] = c]
       /\ Move(u, "up", IF c > MaxRestarts THEN "over" ELSE "down")
  /\ UNCHANGED told

Retried(u) ==
  /\ ~told[u]
  /\ Move(u, "down", "starting")
  /\ UNCHANGED <<crashes, told>>

PolicyStep(u) ==
  \/ Created(u) \/ ComesUp(u) \/ CannotStart(u) \/ Told(u)
  \/ StopsAsTold(u) \/ Crashed(u) \/ Retried(u)

PolicyNext == \E u \in Units : PolicyStep(u)

PolicySpec == PolicyInit /\ [][PolicyNext]_policyVars

===============================================================================
