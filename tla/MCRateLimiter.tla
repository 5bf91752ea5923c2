---------------------------- MODULE MCRateLimiter -----------------------------
(* Small instances of RateLimiter for TLC. *)
EXTENDS RateLimiter, TLC

CONSTANTS t1, t2, signin, reset, other

Limits  == [k \in Keys |-> 1]
\* reset has the long window.
Windows == [k \in Keys |-> IF k = reset THEN 3 ELSE 1]

\* The threads are interchangeable, and so are the keys with short windows.
Symmetry == Permutations({t1, t2}) \cup Permutations({signin, other})
=============================================================================
