-------------------------------- MODULE Follower --------------------------------
(***************************************************************************)
(* What hot reload promises of a table that is served from a store: it is  *)
(* never ahead of the store and never goes back, it may lose an item that  *)
(* is not vital, and it is not at rest before it serves everything that it *)
(* was told of.  When it is built, of how many queries, and how what it is *)
(* told waits for it is left open.  DataPlane refines this module with its *)
(* route table.                                                            *)
(***************************************************************************)
EXTENDS Naturals

CONSTANTS
  Items,    \* what is stored and served, each in versions
  Vital     \* the items that are never lost

None == 0     \* an item that is not served

VARIABLES
  stored,    \* the version of each item in the store
  shown,     \* the version of each item that is served
  due,       \* the version that must be served before the follower rests
  mood       \* "off", "starting", "resting" or "busy"

followerVars == <<stored, shown, due, mood>>

Nothing == [k \in Items |-> None]

FollowerInit ==
  /\ stored = [k \in Items |-> 1]
  /\ shown = Nothing /\ due = Nothing
  /\ mood = "off"

Stores(k) ==
  /\ stored' = [stored EXCEPT ![k] = @ + 1]
  /\ UNCHANGED <<shown, due, mood>>

Starts ==
  /\ mood = "off" /\ mood' = "starting"
  /\ UNCHANGED <<stored, shown, due>>

\* It is told of all that is stored, busy or not.
Hears ==
  /\ mood \in {"resting", "busy"} /\ mood' = "busy"
  /\ due' = stored
  /\ UNCHANGED <<stored, shown>>

\* Each item moves on, not necessarily to what is stored by now, or is lost.
Shows ==
  /\ mood \in {"starting", "busy"}
  /\ shown' \in [Items -> Nat]
  /\ \A k \in Items : shown'[k] \in shown[k] .. stored[k] \/ (shown'[k] = None /\ k \notin Vital)
  /\ due' = [k \in Items |-> IF shown'[k] = None THEN None ELSE due[k]]
  /\ UNCHANGED <<stored, mood>>

\* It cannot read the store and keeps what it serves.
GivesUp ==
  /\ mood = "busy" /\ mood' \in {"busy", "resting"}
  /\ due' = Nothing
  /\ UNCHANGED <<stored, shown>>

Rests ==
  /\ mood \in {"starting", "busy"} /\ mood' = "resting"
  /\ \A k \in Items : due[k] <= shown[k]
  /\ UNCHANGED <<stored, shown, due>>

Stops ==
  /\ mood # "off" /\ mood' = "off"
  /\ shown' = Nothing /\ due' = Nothing
  /\ UNCHANGED stored

FollowerNext ==
  \/ \E k \in Items : Stores(k)
  \/ Starts \/ Hears \/ Shows \/ GivesUp \/ Rests \/ Stops

FollowerSpec == FollowerInit /\ [][FollowerNext]_followerVars

===============================================================================
