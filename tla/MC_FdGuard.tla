---------------------------- MODULE MC_FdGuard ----------------------------
(* FdGuard with three guards and three descriptor numbers: enough for two  *)
(* guards that exchange descriptors while a third party takes the number   *)
(* one of them gave back.                                                  *)
EXTENDS FdGuard, TLC

MC_Fds == 3..5

\* Guards are interchangeable.
MC_Symmetry == Permutations(Guards)
=============================================================================
