------------------------------ MODULE MCDataPlane ------------------------------
(***************************************************************************)
(* DataPlane on small instances: one or two handlers that change the sites *)
(* and the apps, one solver, a few versions, two starts of the data plane. *)
(***************************************************************************)
EXTENDS DataPlane

===============================================================================
