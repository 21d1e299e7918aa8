------------------------------- MODULE MCLog -------------------------------
(* Values for the constants of Log. *)
EXTENDS LogInv, TLC
LogSymmetry == Permutations(Procs) \cup Permutations(Blocks)
=============================================================================
