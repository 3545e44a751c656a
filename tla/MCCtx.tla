------------------------------- MODULE MCCtx -------------------------------
(* Model-checking instances of Ctx. *)
EXTENDS Ctx, TLC

CONSTANTS w1, w2, t1, t2

TaskSymmetry == Permutations(Tasks)
=============================================================================
