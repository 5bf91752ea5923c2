----------------------------- MODULE MCStandings -----------------------------
(* A small instance of Standings for TLC: half shares, rates in halves. *)
EXTENDS Standings

\* The second and the third name differ only in case.
Names == [u \in Users |-> IF u = 1 THEN 2 ELSE 1]

\* The first user holds EUR too, and the third is no participant.
OneForeign == [u \in {1} |-> 1]
TwoLines == [u \in {1, 2} |-> IF u = 1 THEN 3 ELSE 4]
=============================================================================
