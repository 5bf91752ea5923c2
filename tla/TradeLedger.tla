----------------------------- MODULE TradeLedger -----------------------------
(***************************************************************************)
(* What the money core promises, one operation at a time: a wallet pays    *)
(* only what it has, a lot is sold only as far as it reaches, and cash and *)
(* shares change hands together, at a price of the market.  Trading        *)
(* implements this with row locks and several statements a request.        *)
(***************************************************************************)
EXTENDS Transfers

CONSTANTS Users, Symbols, WalletIds, LotIds, Currencies, Prices, Quantities, Amounts,
          Rate, NoRow

VARIABLES
  wallet,   \* wallet id -> [owner, cur, bal], or NoRow
  lots      \* lot id -> [owner, sym, qty], or NoRow

book == <<wallet, lots>>

Init ==
  /\ \A w \in WalletIds : wallet[w] # NoRow => wallet[w].bal >= 0
  /\ \A h \in LotIds : lots[h] = NoRow

Mine(w, u) == wallet[w] # NoRow /\ wallet[w].owner = u
LotOf(h, u, s) == lots[h] # NoRow /\ lots[h].owner = u /\ lots[h].sym = s

\* The shares go to one of the buyer's lots, or open another.
Buy(u, w, s, q) == \E p \in Prices :
  /\ Mine(w, u) /\ WorthBuying(p, q) /\ wallet[w].bal >= BuyCost(p, q)
  /\ wallet' = [wallet EXCEPT ![w].bal = @ - BuyCost(p, q)]
  /\ \E h \in LotIds :
       \/ LotOf(h, u, s) /\ lots' = [lots EXCEPT ![h].qty = @ + q]
       \/ /\ lots[h] = NoRow
          /\ lots' = [lots EXCEPT ![h] = [owner |-> u, sym |-> s, qty |-> q]]

Sell(u, w, s, q) == \E p \in Prices, h \in LotIds :
  /\ Mine(w, u) /\ wallet[w].cur = "USD" /\ SellProceeds(p, q) > 0
  /\ LotOf(h, u, s) /\ lots[h].qty >= q
  /\ wallet' = [wallet EXCEPT ![w].bal = @ + SellProceeds(p, q)]
  /\ lots' = [lots EXCEPT ![h] =
                IF lots[h].qty = q THEN NoRow ELSE [lots[h] EXCEPT !.qty = lots[h].qty - q]]

Alike(v, w) == wallet[v].cur = wallet[w].cur

Worth(v, w, amt) ==
  IF Alike(v, w) THEN Quantized(amt) ELSE Converted(amt, Rate[wallet[v].cur])

\* What another currency gives for it is never nothing.
Transfer(u, v, w, amt) ==
  /\ v # w /\ Mine(v, u) /\ Mine(w, u)
  /\ wallet[v].bal * AmountScale >= amt
  /\ ~Alike(v, w) => Worth(v, w, amt) > 0
  /\ wallet' = [wallet EXCEPT ![v].bal = Debited(@, amt), ![w].bal = @ + Worth(v, w, amt)]
  /\ UNCHANGED lots

Open(u, w, c) ==
  /\ wallet[w] = NoRow
  /\ wallet' = [wallet EXCEPT ![w] = [owner |-> u, cur |-> c, bal |-> 0]]
  /\ UNCHANGED lots

Close(u, w) ==
  /\ Mine(w, u)
  /\ wallet' = [wallet EXCEPT ![w] = NoRow]
  /\ UNCHANGED lots

Next == \E u \in Users, w \in WalletIds :
  \/ \E s \in Symbols, q \in Quantities : Buy(u, w, s, q) \/ Sell(u, w, s, q)
  \/ \E v \in WalletIds, amt \in Amounts : Transfer(u, v, w, amt)
  \/ \E c \in Currencies : Open(u, w, c)
  \/ Close(u, w)

Spec == Init /\ [][Next]_book
=============================================================================
