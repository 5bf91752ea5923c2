----------------------------- MODULE MCPriceFeed ------------------------------
(* Small instances of PriceFeed for TLC. *)
EXTENDS PriceFeed

CONSTANTS aapl, tsla

\* One symbol is hot at a time.
OneHot == {{aapl}, {tsla}}
\* aapl may trade at a new price or at the same one.
SomePrices == [s \in Symbols |-> IF s = aapl THEN {10, 11} ELSE {10}]
\* aapl trades twice, tsla once.
SomeTrades == [s \in Symbols |-> IF s = aapl THEN 2 ELSE 1]
=============================================================================
