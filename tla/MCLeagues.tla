------------------------------ MODULE MCLeagues ------------------------------
(* Small instances of Leagues for TLC. *)
EXTENDS Leagues, TLC

CONSTANTS u1, u2, u3, t1, t2

\* Users and threads are interchangeable.
Symmetry == Permutations({u1, u2, u3}) \cup Permutations({t1, t2})
=============================================================================
