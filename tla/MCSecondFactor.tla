----------------------------- MODULE MCSecondFactor -----------------------------
(***************************************************************************)
(* SecondFactor on a small instance: two goroutines, two recovery codes in *)
(* a batch, three time steps, six requests.                               *)
(***************************************************************************)
EXTENDS SecondFactor, TLC

SecondFactorSymmetry == Permutations(Callers)

===============================================================================
