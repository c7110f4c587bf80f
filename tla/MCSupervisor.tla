----------------------------- MODULE MCSupervisor -----------------------------
(***************************************************************************)
(* Supervisor on small instances.  The pool MaxProcs bounds how many       *)
(* structs are allocated, MaxRestarts is 1 instead of 8 (one restart is    *)
(* made and one is refused).                                               *)
(***************************************************************************)
EXTENDS Supervisor

===============================================================================
