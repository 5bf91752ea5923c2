------------------------------ MODULE MCTrading ------------------------------
(* Small instances of Trading for TLC. *)
EXTENDS Trading, TLC

CONSTANTS u1, u2, aapl, t1, t2, t3

\* One share a quantity unit, a half spread of 20%: a buy at 2 costs 2 and at 3
\* costs 4, a sale brings 2 for each; one EUR is worth two USD.
RateTable == [c \in Currencies |->
  IF c = "USD" THEN [num |-> 1, den |-> 2] ELSE [num |-> 2, den |-> 1]]

\* A second wallet opened by the first user.
TwoWallets == << [owner |-> u1, cur |-> "USD", bal |-> 4],
                 [owner |-> u1, cur |-> "EUR", bal |-> 3] >>

\* Two users, as after signup.
OneEach == << [owner |-> u1, cur |-> "USD", bal |-> 3],
             [owner |-> u2, cur |-> "USD", bal |-> 3] >>

ThreadSymmetry == Permutations({t1, t2, t3})
=============================================================================
