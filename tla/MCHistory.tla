------------------------------ MODULE MCHistory -------------------------------
(* Small instances of History for TLC. *)
EXTENDS History

\* The fourth ticker's profile bears the symbol of the second.
Profiles == [t \in All |-> IF t = 4 THEN 2 ELSE t]
=============================================================================
