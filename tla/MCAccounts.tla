------------------------------- MODULE MCAccounts -------------------------------
(***************************************************************************)
(* Accounts on a small instance: three users, two goroutines, one token.     *)
(***************************************************************************)
EXTENDS Accounts, TLC

AccountsSymmetry == Permutations(Handlers) \cup Permutations(Users)

===============================================================================
