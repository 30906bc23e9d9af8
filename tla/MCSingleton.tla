---------------------------- MODULE MCSingleton ----------------------------
(* Three containers that share one singleton, any of them interchangeable. *)
EXTENDS Singleton, TLC

CONSTANTS c1, c2, c3

MCUsers == {c1, c2, c3}
Symmetry == Permutations(MCUsers)
=============================================================================
