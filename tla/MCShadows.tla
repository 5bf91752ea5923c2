------------------------------ MODULE MCShadows ------------------------------
(* Small instances of Shadows for TLC. *)
EXTENDS Shadows, TLC

CONSTANTS u1, u2, u3, u4, t1, t2

FourUsers == {u1, u2, u3, u4}
TwoThreads == {t1, t2}

Symmetry == Permutations(FourUsers) \cup Permutations(TwoThreads)
=============================================================================
