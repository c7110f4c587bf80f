----------------------------- MODULE MCSiteDeploy -----------------------------
(***************************************************************************)
(* SiteDeploy on a small instance: two goroutines, two paths, and archives *)
(* that hold nothing, one of the paths, or both.                           *)
(***************************************************************************)
EXTENDS SiteDeploy, TLC

CONSTANTS p1, p2, none, one, both

MCPaths == {p1, p2}
MCArchives == {none, one, both}
MCHolds == (none :> {}) @@ (one :> {p1}) @@ (both :> {p1, p2})

DeploySymmetry == Permutations(Workers)

===============================================================================
