----------------------------- MODULE MCAccounts -------------------------------
(* Small instances of Accounts for TLC. *)
EXTENDS Accounts, TLC

CONSTANTS t1, t2, aapl, msft, gone

TwoThreads == {t1, t2}

Symmetry == Permutations(TwoThreads) \cup Permutations({aapl, msft})
=============================================================================
