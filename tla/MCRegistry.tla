------------------------------ MODULE MCRegistry ------------------------------
(***************************************************************************)
(* Registry on small instances: two or three domains, two callers, a few   *)
(* requests; quotas of one so that two requests at once exceed them.       *)
(***************************************************************************)
EXTENDS Registry, TLC

\* Neither the domains nor the goroutines are told apart; the users are, one of
\* them being an admin.
RegistrySymmetry == Permutations(Domains) \cup Permutations(Callers)

===============================================================================
