----------------------------- MODULE MCMvRegister -----------------------------
(***************************************************************************)
(* MvRegister with interchangeable owners.                                 *)
(***************************************************************************)
EXTENDS MvRegister, TLC

SymmetricActors == Permutations(Actor)

================================================================================
