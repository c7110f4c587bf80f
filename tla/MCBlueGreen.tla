------------------------------ MODULE MCBlueGreen ------------------------------
(***************************************************************************)
(* BlueGreen on small instances: two callers, so that two deployments, or  *)
(* a deployment and another request, overlap; a few processes, one of      *)
(* which may crash more often than is forgiven; one restart of the panel.  *)
(***************************************************************************)
EXTENDS BlueGreen

===============================================================================
