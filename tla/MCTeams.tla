-------------------------------- MODULE MCTeams --------------------------------
(***************************************************************************)
(* Teams on a small instance: two users and a superadmin who is no member  *)
(* to begin with, one team, one invite, two goroutines.                    *)
(***************************************************************************)
EXTENDS Teams, TLC

CONSTANTS u1, u2

MCInit == Init /\ \A t \in TeamIds, s \in Superadmins : role[t][s] = "none"

MCSpec == MCInit /\ [][Next]_teamsVars

TeamsSymmetry == Permutations(Callers) \cup Permutations({u1, u2})

===============================================================================
