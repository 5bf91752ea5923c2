------------------------------- MODULE Trading -------------------------------
(***************************************************************************)
(* The money core: buy_stocks and sell_stock (stocks_service.py) and       *)
(* transfer_funds, create_wallet, delete_wallet and the exchange-rate      *)
(* refresh (wallet_service.py), run by the threads of one gunicorn worker  *)
(* over a PostgreSQL database at READ COMMITTED.                           *)
(*                                                                         *)
(* A request is one database transaction, unless it commits on its way.    *)
(* The tables hold what is committed; what a transaction has read is in    *)
(* seen[t], and what it writes reaches the tables when it commits, as the  *)
(* absolute value the ORM computed from what it read.  A row lock is held  *)
(* from SELECT ... FOR UPDATE (or from an UPDATE) to the end of the        *)
(* transaction.  A refused or failed request rolls back and changes no     *)
(* row.                                                                    *)
(***************************************************************************)
EXTENDS Transfers, FiniteSets

CONSTANTS
  Users, Threads, Symbols,
  MaxWallets,     \* wallet ids are 1 .. MaxWallets (bound)
  HoldingIds,     \* rows available to users_stock_wallet (bound)
  Prices, Quantities,
  Amounts,        \* the amounts transferred, in 1/AmountScale of a money unit
  Rate,           \* currency -> the rate from it to the other one
  DustLimit,      \* a wallet holding more cannot be deleted
  Opening,        \* the wallets at the start, a sequence of rows
  Ops,            \* the operations users call in this instance
  RatesExpire,    \* whether the cached rates may go stale
  MaxRequests,    \* requests served (bound)
  NoRow, NoThread

WalletIds == 1 .. MaxWallets
Currencies == {"USD", "EUR"}

Wallet == [owner : Users, cur : Currencies, bal : Int]
Holding == [owner : Users, sym : Symbols, qty : Int]

TradeReq == [user : Users, sym : Symbols, wallet : WalletIds, qty : Quantities]
TransferReq == [user : Users, from : WalletIds, to : WalletIds, amt : Amounts]
DeleteReq == [user : Users, wallet : WalletIds]
CreateReq == [user : Users, cur : Currencies]

\* What a transaction remembers of its reads: the balance of its (source)
\* wallet and of the destination, the holding row and its quantity, the
\* money it is about to move, the transactions it saw referring to a wallet.
Seen == [bal : Int, bal2 : Int, row : HoldingIds \cup {NoRow}, have : Int,
         value : Int, linked : Int]

NothingSeen == [bal |-> 0, bal2 |-> 0, row |-> NoRow, have |-> 0,
                value |-> 0, linked |-> 0]

ASSUME NumberAssumption ==
  /\ MaxWallets \in Nat /\ MaxRequests \in Nat /\ DustLimit \in Nat
  /\ Prices \subseteq Nat /\ Quantities \subseteq Nat \ {0} /\ Amounts \subseteq Nat \ {0}
ASSUME RateAssumption ==
  /\ Rate \in [Currencies -> [num : Nat \ {0}, den : Nat \ {0}]]
  /\ RatesExpire \in BOOLEAN
ASSUME RowAssumption ==
  /\ NoRow \notin Wallet \cup Holding \cup HoldingIds
  /\ NoThread \notin Threads
ASSUME OpeningAssumption ==
  \E n \in 0 .. MaxWallets : /\ Opening \in [1 .. n -> Wallet]
                             /\ \A w \in 1 .. n : Opening[w].bal >= 0

VARIABLES
  wallet,       \* wallets: id -> row, or NoRow
  holding,      \* users_stock_wallet: id -> row, or NoRow
  posted,       \* wallet id -> sum of total_value of its transactions, signed
  refs,         \* wallet id -> number of transactions that refer to it
  ties,         \* wallet id -> transfers out of it of an amount that was a tie
  shares,       \* user, symbol -> quantity bought less quantity sold, by the log
  nextId,       \* the next wallet id of the sequence
  price,        \* stock_price.current_price
  rateFresh,    \* whether the cached exchange rates are still fresh
  walletLock, holdingLock,   \* the transaction that holds each row
  pc, req, seen,             \* each thread: where it is, its request, its reads
  served        \* requests started

tables == <<wallet, holding, posted, refs, ties, shares, nextId>>
market == <<price, rateFresh>>
locks  == <<walletLock, holdingLock>>
vars   == <<tables, market, locks, pc, req, seen, served>>

OpeningBalance(w) == IF w \in DOMAIN Opening THEN Opening[w].bal ELSE 0

Init ==
  /\ wallet = [w \in WalletIds |-> IF w \in DOMAIN Opening THEN Opening[w] ELSE NoRow]
  /\ holding = [h \in HoldingIds |-> NoRow]
  /\ posted = [w \in WalletIds |-> 0]
  /\ refs = [w \in WalletIds |-> 0] /\ ties = [w \in WalletIds |-> 0]
  /\ shares = [u \in Users |-> [s \in Symbols |-> 0]]
  /\ nextId = Cardinality(DOMAIN Opening) + 1
  /\ price \in [Symbols -> Prices]
  /\ rateFresh \in (IF RatesExpire THEN BOOLEAN ELSE {TRUE})
  /\ walletLock = [w \in WalletIds |-> NoThread]
  /\ holdingLock = [h \in HoldingIds |-> NoThread]
  /\ pc = [t \in Threads |-> "idle"]
  /\ req = [t \in Threads |-> NoRow]
  /\ seen = [t \in Threads |-> NothingSeen]
  /\ served = 0

-----------------------------------------------------------------------------
(* Rows and their locks *)

\* filter_by(id=w, user_id=u) finds a row.
OwnedBy(w, u) == wallet[w] # NoRow /\ wallet[w].owner = u

\* filter_by(user_id=u, symbol=s): the rows .first() takes one of.
Holdings(u, s) ==
  {h \in HoldingIds : holding[h] # NoRow /\ holding[h].owner = u /\ holding[h].sym = s}

UnlockedRead(w) == TRUE

\* FOR UPDATE on a wallet waits until no other transaction holds the row.
WalletFree(w) == walletLock[w] = NoThread

UnlockedHoldingRead(h) == TRUE

HoldingFree(h) == holdingLock[h] = NoThread

Releases(f, t) == [x \in DOMAIN f |-> IF f[x] = t THEN NoThread ELSE f[x]]

NothingReleased(t) == UNCHANGED locks

\* The end of a transaction gives its row locks back.
ReleaseLocks(t) ==
  /\ walletLock' = Releases(walletLock, t)
  /\ holdingLock' = Releases(holdingLock, t)

\* The request is answered and the session is torn down.
EndRequest(t) ==
  /\ pc' = [pc EXCEPT ![t] = "idle"]
  /\ req' = [req EXCEPT ![t] = NoRow]
  /\ seen' = [seen EXCEPT ![t] = NothingSeen]
  /\ ReleaseLocks(t)
  /\ UNCHANGED <<market, served>>

\* An exception: what the transaction had not committed is gone.
Abort(t) == EndRequest(t) /\ UNCHANGED tables

Goto(t, l) == pc' = [pc EXCEPT ![t] = l]

\* A statement inside the transaction: it commits nothing.
Continue(t, l) == Goto(t, l) /\ UNCHANGED <<tables, market, req, served>>

\* A request arrives and is validated; nothing is locked yet.
Begin(t, op, l, r, s) ==
  /\ pc[t] = "idle" /\ op \in Ops /\ served < MaxRequests
  /\ Goto(t, l)
  /\ req' = [req EXCEPT ![t] = r]
  /\ seen' = [seen EXCEPT ![t] = s]
  /\ served' = served + 1
  /\ UNCHANGED <<tables, market, locks>>

-----------------------------------------------------------------------------
(* buy_stocks: price, wallet lock, holding lock, commit *)

AffordsMidPrice(t, bal) == bal >= MarketValue(price[req[t].sym], req[t].qty)

\* Affordability is tested against what will be debited.
Affords(t, bal) == bal >= seen[t].value

\* The price is read, and the cost fixed, before any row is locked.
BuyBegin(t) == \E r \in TradeReq :
  /\ WorthBuying(price[r.sym], r.qty)
  /\ Begin(t, "buy", "buyWallet", r,
           [NothingSeen EXCEPT !.value = BuyCost(price[r.sym], r.qty)])

BuyLockWallet(t) ==
  /\ pc[t] = "buyWallet"
  /\ \/ ~OwnedBy(req[t].wallet, req[t].user) /\ Abort(t)
     \/ /\ OwnedBy(req[t].wallet, req[t].user)
        /\ WalletFree(req[t].wallet)
        /\ LET bal == wallet[req[t].wallet].bal IN
           \/ ~Affords(t, bal) /\ Abort(t)
           \/ /\ Affords(t, bal)
              /\ walletLock' = [walletLock EXCEPT ![req[t].wallet] = t]
              /\ seen' = [seen EXCEPT ![t].bal = bal]
              /\ Continue(t, "buyHolding") /\ UNCHANGED holdingLock

BuyLockHolding(t) ==
  /\ pc[t] = "buyHolding"
  /\ LET rows == Holdings(req[t].user, req[t].sym) IN
     \/ /\ rows = {}
        /\ UNCHANGED <<holdingLock, seen>>
     \/ \E h \in rows :
        /\ HoldingFree(h)
        /\ holdingLock' = [holdingLock EXCEPT ![h] = t]
        /\ seen' = [seen EXCEPT ![t].row = h, ![t].have = holding[h].qty]
  /\ Continue(t, "buyCommit") /\ UNCHANGED walletLock

\* The holding after a trade of q: updated, or inserted when none was seen.
Credited(t, q) ==
  IF seen[t].row # NoRow
  THEN holding' = [holding EXCEPT ![seen[t].row].qty = seen[t].have + q]
  ELSE \E h \in HoldingIds :
         /\ holding[h] = NoRow
         /\ holding' = [holding EXCEPT
              ![h] = [owner |-> req[t].user, sym |-> req[t].sym, qty |-> q]]

\* One row of the transactions table: v is its total_value, signed.
Log(w, v) ==
  /\ posted' = [posted EXCEPT ![w] = @ + v]
  /\ refs' = [refs EXCEPT ![w] = @ + 1]
  /\ UNCHANGED ties

BuyCommit(t) ==
  /\ pc[t] = "buyCommit"
  /\ wallet' = [wallet EXCEPT ![req[t].wallet].bal = seen[t].bal - seen[t].value]
  /\ Credited(t, req[t].qty)
  /\ Log(req[t].wallet, -seen[t].value)
  /\ shares' = [shares EXCEPT ![req[t].user][req[t].sym] = @ + req[t].qty]
  /\ EndRequest(t)
  /\ UNCHANGED nextId

-----------------------------------------------------------------------------
(* sell_stock: holding lock, price, wallet lock, commit *)

SellBegin(t) == \E r \in TradeReq : Begin(t, "sell", "sellHolding", r, NothingSeen)

HoldsEnough(h, q) == holding[h].qty >= q

\* A row that is locked, has enough and sells for something, at the price
\* read once the lock is granted; otherwise the sale is refused.
SellLockHolding(t) ==
  /\ pc[t] = "sellHolding"
  /\ LET rows == Holdings(req[t].user, req[t].sym)
         proceeds == SellProceeds(price[req[t].sym], req[t].qty)
     IN \/ rows = {} /\ Abort(t)
        \/ \E h \in rows :
           /\ HoldingFree(h)
           /\ \/ ~(HoldsEnough(h, req[t].qty) /\ proceeds > 0) /\ Abort(t)
              \/ /\ HoldsEnough(h, req[t].qty) /\ proceeds > 0
                 /\ holdingLock' = [holdingLock EXCEPT ![h] = t]
                 /\ seen' = [seen EXCEPT ![t].row = h, ![t].have = holding[h].qty,
                                         ![t].value = proceeds]
                 /\ Continue(t, "sellWallet") /\ UNCHANGED walletLock

SellLockWallet(t) ==
  /\ pc[t] = "sellWallet"
  /\ LET w == req[t].wallet IN
     \/ ~OwnedBy(w, req[t].user) /\ Abort(t)
     \/ /\ OwnedBy(w, req[t].user) /\ WalletFree(w)
        /\ \/ wallet[w].cur # "USD" /\ Abort(t)
           \/ /\ wallet[w].cur = "USD"
              /\ walletLock' = [walletLock EXCEPT ![w] = t]
              /\ seen' = [seen EXCEPT ![t].bal = wallet[w].bal]
              /\ Continue(t, "sellCommit") /\ UNCHANGED holdingLock

\* A holding sold out is deleted.
SellCommit(t) ==
  /\ pc[t] = "sellCommit"
  /\ LET left == seen[t].have - req[t].qty
         row  == seen[t].row
     IN holding' = [holding EXCEPT ![row] =
                      IF left = 0 THEN NoRow ELSE [@ EXCEPT !.qty = left]]
  /\ wallet' = [wallet EXCEPT ![req[t].wallet].bal = seen[t].bal + seen[t].value]
  /\ Log(req[t].wallet, seen[t].value)
  /\ shares' = [shares EXCEPT ![req[t].user][req[t].sym] = @ - req[t].qty]
  /\ EndRequest(t)
  /\ UNCHANGED nextId

-----------------------------------------------------------------------------
(* transfer_funds: both wallets locked in ascending id order, then the      *)
(* ownership and balance checks, the conversion and the commit; when the    *)
(* cached rate is stale, _refresh_rates commits in between                  *)

SourceThenDestination(r) == <<r.from, r.to>>

\* order_by(Wallet.id)
AscendingIds(r) == IF r.from < r.to THEN <<r.from, r.to>> ELSE <<r.to, r.from>>

First(r)  == AscendingIds(r)[1]
Second(r) == AscendingIds(r)[2]

TransferBegin(t) == \E r \in TransferReq :
  r.from # r.to /\ Begin(t, "transfer", "xferFirst", r, NothingSeen)

\* One query locks both rows, one after the other; an id it does not find
\* fails the request.
TransferLockFirst(t) ==
  /\ pc[t] = "xferFirst"
  /\ LET w == First(req[t]) IN
     \/ wallet[w] = NoRow /\ Abort(t)
     \/ /\ wallet[w] # NoRow /\ WalletFree(w)
        /\ walletLock' = [walletLock EXCEPT ![w] = t]
        /\ Continue(t, "xferSecond") /\ UNCHANGED <<holdingLock, seen>>

CallerOwnsSource(r) == OwnedBy(r.from, r.user) /\ wallet[r.to] # NoRow

\* Both wallets must be the caller's.
CallerOwnsBoth(r) == OwnedBy(r.from, r.user) /\ OwnedBy(r.to, r.user)

SameCurrency(r) == wallet[r.from].cur = wallet[r.to].cur

Credit(r) ==
  IF SameCurrency(r) THEN Quantized(r.amt) ELSE Converted(r.amt, Rate[wallet[r.from].cur])

Covers(w, amt) == wallet[w].bal * AmountScale >= amt

TransferLockSecond(t) ==
  /\ pc[t] = "xferSecond"
  /\ LET r == req[t] IN
     /\ WalletFree(Second(r))
     /\ \/ ~(CallerOwnsBoth(r) /\ Covers(r.from, r.amt)) /\ Abort(t)
        \/ /\ CallerOwnsBoth(r) /\ Covers(r.from, r.amt)
           /\ ~SameCurrency(r) /\ rateFresh /\ Credit(r) <= 0 /\ Abort(t)
        \/ /\ CallerOwnsBoth(r) /\ Covers(r.from, r.amt)
           /\ SameCurrency(r) \/ (rateFresh /\ Credit(r) > 0)
           /\ walletLock' = [walletLock EXCEPT ![Second(r)] = t]
           /\ seen' = [seen EXCEPT ![t].bal = wallet[r.from].bal,
                                   ![t].bal2 = wallet[r.to].bal,
                                   ![t].value = Credit(r)]
           /\ Continue(t, "xferCommit") /\ UNCHANGED holdingLock
        \/ /\ CallerOwnsBoth(r) /\ Covers(r.from, r.amt)
           /\ ~SameCurrency(r) /\ ~rateFresh
           /\ walletLock' = [walletLock EXCEPT ![Second(r)] = t]
           /\ Continue(t, "xferFetch") /\ UNCHANGED <<holdingLock, seen>>

\* The provider answers, both directions are stored and the session commits,
\* which ends the transaction that holds the wallets; or the call fails.
TransferFetchRates(t) ==
  /\ pc[t] = "xferFetch"
  /\ \/ Abort(t)
     \/ /\ rateFresh' = TRUE
        /\ ReleaseLocks(t)
        /\ Goto(t, "xferReadFrom")
        /\ UNCHANGED <<tables, price, req, seen, served>>

\* The commit expired both wallets: each is read again on its next use,
\* by a SELECT that takes no lock.
TransferReadFrom(t) ==
  /\ pc[t] = "xferReadFrom"
  /\ LET r == req[t] IN
     \/ wallet[r.from] = NoRow /\ Abort(t)
     \/ /\ wallet[r.from] # NoRow
        /\ LET credit == Converted(r.amt, Rate[wallet[r.from].cur]) IN
           \/ credit <= 0 /\ Abort(t)
           \/ /\ credit > 0
              /\ seen' = [seen EXCEPT ![t].bal = wallet[r.from].bal, ![t].value = credit]
              /\ Continue(t, "xferReadTo") /\ UNCHANGED locks

TransferReadTo(t) ==
  /\ pc[t] = "xferReadTo"
  /\ LET r == req[t] IN
     \/ wallet[r.to] = NoRow /\ Abort(t)
     \/ /\ wallet[r.to] # NoRow
        /\ seen' = [seen EXCEPT ![t].bal2 = wallet[r.to].bal]
        /\ Continue(t, "xferFlushFirst") /\ UNCHANGED locks

\* The flush updates the two rows in primary-key order; a row that is gone
\* matches nothing and the flush fails.
TransferFlush(t, w, next) ==
  \/ wallet[w] = NoRow /\ Abort(t)
  \/ /\ wallet[w] # NoRow /\ WalletFree(w)
     /\ walletLock' = [walletLock EXCEPT ![w] = t]
     /\ Continue(t, next) /\ UNCHANGED <<holdingLock, seen>>

TransferFlushFirst(t) ==
  pc[t] = "xferFlushFirst" /\ TransferFlush(t, First(req[t]), "xferFlushSecond")

TransferFlushSecond(t) ==
  pc[t] = "xferFlushSecond" /\ TransferFlush(t, Second(req[t]), "xferCommit")

\* The new balance and the logged -amount are rounded by their columns, apart.
TransferCommit(t) ==
  /\ pc[t] = "xferCommit"
  /\ LET r == req[t] IN
     /\ wallet' = [wallet EXCEPT ![r.from].bal = Debited(seen[t].bal, r.amt),
                                 ![r.to].bal = seen[t].bal2 + seen[t].value]
     /\ posted' = [posted EXCEPT ![r.from] = @ + Column(-r.amt), ![r.to] = @ + seen[t].value]
     /\ refs' = [refs EXCEPT ![r.from] = @ + 2, ![r.to] = @ + 2]
     /\ ties' = [ties EXCEPT ![r.from] = IF Tie(r.amt) THEN @ + 1 ELSE @]
  /\ EndRequest(t)
  /\ UNCHANGED <<holding, shares, nextId>>

-----------------------------------------------------------------------------
(* create_wallet: look for a wallet of the currency, then insert one *)

OwnsCurrency(u, c) == \E w \in WalletIds : OwnedBy(w, u) /\ wallet[w].cur = c

\* The wallets on their way take ids too (bound).
IdsLeft == nextId + Cardinality({t \in Threads : pc[t] = "createInsert"}) <= MaxWallets

CreateBegin(t) == \E r \in CreateReq :
  /\ ~OwnsCurrency(r.user, r.cur) /\ IdsLeft
  /\ Begin(t, "create", "createInsert", r, NothingSeen)

CreateInsert(t) ==
  /\ pc[t] = "createInsert" /\ nextId \in WalletIds
  /\ wallet' = [wallet EXCEPT
       ![nextId] = [owner |-> req[t].user, cur |-> req[t].cur, bal |-> 0]]
  /\ nextId' = nextId + 1
  /\ EndRequest(t)
  /\ UNCHANGED <<holding, posted, refs, ties, shares>>

-----------------------------------------------------------------------------
(* delete_wallet: an unlocked read of the balance; the flush then loads the *)
(* transactions that refer to the wallet, nulls them and deletes the row    *)

Deletable(w) == wallet[w].bal <= DustLimit

DeleteBegin(t) == \E r \in DeleteReq :
  /\ OwnedBy(r.wallet, r.user) /\ Deletable(r.wallet)
  /\ Begin(t, "delete", "delLoad", r, NothingSeen)

DeleteLoad(t) ==
  /\ pc[t] = "delLoad"
  /\ seen' = [seen EXCEPT ![t].linked = refs[req[t].wallet]]
  /\ Continue(t, "delFlush") /\ UNCHANGED locks

\* Only the transactions that were loaded are nulled; the foreign key of any
\* other one refuses the delete.
ForeignKeysNulled(t, w) == refs[w] = seen[t].linked

DeleteFlush(t) ==
  /\ pc[t] = "delFlush"
  /\ LET w == req[t].wallet IN
     /\ WalletFree(w)
     /\ \/ wallet[w] = NoRow /\ Abort(t)
        \/ wallet[w] # NoRow /\ ~ForeignKeysNulled(t, w) /\ Abort(t)
        \/ /\ wallet[w] # NoRow /\ ForeignKeysNulled(t, w)
           /\ wallet' = [wallet EXCEPT ![w] = NoRow]
           /\ posted' = [posted EXCEPT ![w] = 0]
           /\ refs' = [refs EXCEPT ![w] = 0]
           /\ ties' = [ties EXCEPT ![w] = 0]
           /\ EndRequest(t)
           /\ UNCHANGED <<holding, shares, nextId>>

-----------------------------------------------------------------------------
(* Other writers, failures, and the database's deadlock detector *)

\* The websocket listener or the poller writes a new price.
PriceTick == \E s \in Symbols, p \in Prices :
  /\ price' = [price EXCEPT ![s] = p]
  /\ UNCHANGED <<tables, rateFresh, locks, pc, req, seen, served>>

\* The clock passes next_update.
RateExpires ==
  /\ RatesExpire /\ rateFresh' = FALSE
  /\ UNCHANGED <<tables, price, locks, pc, req, seen, served>>

\* The connection drops or the process dies before the commit.
Fail(t) == pc[t] # "idle" /\ Abort(t)

\* The transactions that keep t waiting.
BlockedOnWallet(w) == {walletLock[w]} \ {NoThread}

WaitsFor(t) ==
  CASE pc[t] \in {"buyWallet", "sellWallet", "delFlush"} -> BlockedOnWallet(req[t].wallet)
    [] pc[t] \in {"buyHolding", "sellHolding"} ->
         LET rows == Holdings(req[t].user, req[t].sym) IN
         IF \E h \in rows : HoldingFree(h) THEN {} ELSE {holdingLock[h] : h \in rows}
    [] pc[t] \in {"xferFirst", "xferFlushFirst"} -> BlockedOnWallet(First(req[t]))
    [] pc[t] \in {"xferSecond", "xferFlushSecond"} -> BlockedOnWallet(Second(req[t]))
    [] OTHER -> {}

\* Every member waits, and only for members.
Deadlocked(S) == S # {} /\ \A t \in S : WaitsFor(t) # {} /\ WaitsFor(t) \subseteq S

\* PostgreSQL aborts one transaction of a cycle.
DeadlockVictim(t) ==
  /\ \E S \in SUBSET Threads : t \in S /\ Deadlocked(S)
  /\ Abort(t)

-----------------------------------------------------------------------------
Advance(t) ==
  \/ BuyLockWallet(t) \/ BuyLockHolding(t) \/ BuyCommit(t)
  \/ SellLockHolding(t) \/ SellLockWallet(t) \/ SellCommit(t)
  \/ TransferLockFirst(t) \/ TransferLockSecond(t) \/ TransferFetchRates(t)
  \/ TransferReadFrom(t) \/ TransferReadTo(t)
  \/ TransferFlushFirst(t) \/ TransferFlushSecond(t) \/ TransferCommit(t)
  \/ CreateInsert(t)
  \/ DeleteLoad(t) \/ DeleteFlush(t)

Arrive(t) ==
  \/ BuyBegin(t) \/ SellBegin(t) \/ TransferBegin(t) \/ CreateBegin(t) \/ DeleteBegin(t)

Next ==
  \/ PriceTick \/ RateExpires
  \/ \E t \in Threads : Arrive(t) \/ Advance(t) \/ Fail(t) \/ DeadlockVictim(t)

Spec == Init /\ [][Next]_vars

\* A thread with work to do runs, and the deadlock detector runs.
Fairness == \A t \in Threads : WF_vars(Advance(t)) /\ WF_vars(DeadlockVictim(t))

LiveSpec == Spec /\ Fairness

-----------------------------------------------------------------------------
(* Properties *)

TradePcs == {"buyWallet", "buyHolding", "buyCommit",
             "sellHolding", "sellWallet", "sellCommit"}
RefreshPcs == {"xferFetch", "xferReadFrom", "xferReadTo",
               "xferFlushFirst", "xferFlushSecond"}
TransferPcs == {"xferFirst", "xferSecond", "xferCommit"} \cup RefreshPcs
DeletePcs == {"delLoad", "delFlush"}
CreatePcs == {"createInsert"}
Pcs == {"idle"} \cup TradePcs \cup TransferPcs \cup DeletePcs \cup CreatePcs

Requests == TradeReq \cup TransferReq \cup DeleteReq \cup CreateReq

\* The request each program point works on.
ReqOK(t) ==
  /\ pc[t] \in TradePcs => req[t] \in TradeReq
  /\ pc[t] \in TransferPcs => req[t] \in TransferReq /\ req[t].from # req[t].to
  /\ pc[t] \in DeletePcs => req[t] \in DeleteReq
  /\ pc[t] \in CreatePcs => req[t] \in CreateReq

\* Every table, lock and thread register holds a value of its type, and each
\* thread holds a request of the kind its program point serves.
TypeOK ==
  /\ wallet \in [WalletIds -> Wallet \cup {NoRow}]
  /\ holding \in [HoldingIds -> Holding \cup {NoRow}]
  /\ posted \in [WalletIds -> Int]
  /\ refs \in [WalletIds -> Nat] /\ ties \in [WalletIds -> Nat]
  /\ shares \in [Users -> [Symbols -> Int]]
  /\ nextId \in Nat \ {0}
  /\ price \in [Symbols -> Prices] /\ rateFresh \in BOOLEAN
  /\ walletLock \in [WalletIds -> Threads \cup {NoThread}]
  /\ holdingLock \in [HoldingIds -> Threads \cup {NoThread}]
  /\ pc \in [Threads -> Pcs] /\ req \in [Threads -> Requests \cup {NoRow}]
  /\ seen \in [Threads -> Seen] /\ served \in Nat
  /\ \A t \in Threads : ReqOK(t)

HoldsWallet(t, w) == wallet[w] # NoRow /\ walletLock[w] = t
HoldsHolding(t, h) == h \in HoldingIds /\ holding[h] # NoRow /\ holdingLock[h] = t

\* The rows a transaction is about to write exist and are locked by it.
RowsHeld(t) ==
  /\ pc[t] \in {"buyHolding", "buyCommit", "sellCommit"} => HoldsWallet(t, req[t].wallet)
  /\ pc[t] \in {"xferSecond", "xferFlushSecond", "xferCommit"} => HoldsWallet(t, First(req[t]))
  /\ pc[t] = "xferCommit" => HoldsWallet(t, Second(req[t]))
  /\ pc[t] \in {"sellWallet", "sellCommit"} => HoldsHolding(t, seen[t].row)
  /\ pc[t] \in {"buyWallet", "buyHolding"} => seen[t].row = NoRow
  /\ pc[t] = "buyCommit" /\ seen[t].row # NoRow => HoldsHolding(t, seen[t].row)

\* What a trade has read is still what the tables hold, and passed its checks.
TradeReads(t) ==
  /\ pc[t] \in {"buyHolding", "buyCommit", "sellCommit"} =>
       seen[t].bal = wallet[req[t].wallet].bal
  /\ pc[t] \in {"buyHolding", "buyCommit"} => seen[t].bal >= seen[t].value
  /\ pc[t] \in {"sellWallet", "sellCommit"} =>
       /\ seen[t].have = holding[seen[t].row].qty
       /\ seen[t].have >= req[t].qty /\ seen[t].value > 0
  /\ pc[t] = "buyCommit" /\ seen[t].row # NoRow => seen[t].have = holding[seen[t].row].qty

\* The same of a transfer that did not have to refresh the rates.
TransferReads(t) ==
  /\ pc[t] \notin RefreshPcs
  /\ pc[t] = "xferCommit" =>
       /\ seen[t].bal = wallet[req[t].from].bal /\ Covers(req[t].from, req[t].amt)
       /\ seen[t].bal2 = wallet[req[t].to].bal /\ seen[t].value >= 0

\* Between its lock and its commit no transaction acts on a stale balance or
\* quantity: the check-then-write of a trade or transfer is one atomic step.
LockedReadsCurrent == \A t \in Threads :
  RowsHeld(t) /\ TradeReads(t) /\ (~RatesExpire => TransferReads(t))

\* No committed balance is ever negative: the row locks make check and debit
\* one step, for buys and transfers alike ("so two concurrent buys can't both
\* pass the balance check", stocks_service.py).
NoOverdraft == \A w \in WalletIds : wallet[w] # NoRow => wallet[w].bal >= 0

\* A wallet holds its opening balance plus everything the transactions table
\* says happened to it, so that no update of a balance is ever lost; only a
\* transfer of a tie leaves it one unit more, as the balance and the logged
\* -amount of transfer_funds round apart.
LedgerReconciles == \A w \in WalletIds :
  wallet[w] # NoRow => wallet[w].bal = OpeningBalance(w) + posted[w] + ties[w]

\* No holding is oversold, and a holding that is sold out leaves no row.
NoOversell == \A h \in HoldingIds : holding[h] # NoRow => holding[h].qty > 0

\* A position is spread over no more rows than its user has wallets (while none
\* is deleted): the lock of the paying wallet serialises the first buys through
\* it, and a user with one wallet has one row a symbol.
RowPerWallet == \A u \in Users, s \in Symbols :
  Cardinality(Holdings(u, s)) <= Cardinality({w \in WalletIds : OwnedBy(w, u)})

\* A deadlock always has a sale waiting for its wallet and a buy waiting for
\* its holding: transfers, which lock in id order, never form one among
\* themselves or with buys.
DeadlockNeedsSaleAndBuy == \A S \in SUBSET Threads :
  Deadlocked(S) => /\ \E t \in S : pc[t] = "sellWallet"
                   /\ \E t \in S : pc[t] = "buyHolding"

Bal(w) == IF wallet[w] = NoRow THEN 0 ELSE wallet[w].bal

\* Money moves only between the wallets of one user: no step changes the
\* balances of two users, whoever's wallets a request names.
OneUserAtATime == [][\A v, w \in WalletIds :
  (Bal(v) # Bal(v)' /\ Bal(w) # Bal(w)' /\ wallet[v] # NoRow /\ wallet[w] # NoRow)
    => wallet[v].owner = wallet[w].owner]_wallet

\* The detailed requests are the operations of the ledger, taken one at a time:
\* every commit, whatever it interleaves with, does what one operation does on
\* the tables as they then stand, at one price of the market, while the cached
\* rates stay fresh.
Ledger == INSTANCE TradeLedger WITH lots <- holding, LotIds <- HoldingIds
LedgerSpec == Ledger!Spec

\* Every request is answered: whatever locks it waits for are given back, and
\* a deadlock does not last.
EveryRequestAnswered == \A t \in Threads : pc[t] # "idle" ~> pc[t] = "idle"

-----------------------------------------------------------------------------
(* What messages and comments promise and these interleavings break: TLC     *)
(* refutes each                                                              *)

\* The row that .first() picks to sell from holds the user's whole position.
PositionInOneRow == \A u \in Users, s \in Symbols :
  \A h \in Holdings(u, s) : holding[h].qty = shares[u][s]

\* "Quantizing to these keeps app-side arithmetic aligned with what the DB
\* stores" (validation_utils.py): the log explains every balance to the unit.
LedgerExact == \A w \in WalletIds :
  wallet[w] # NoRow => wallet[w].bal = OpeningBalance(w) + posted[w]

\* A wallet is deleted only while it holds no more than the limit that
\* delete_wallet checks.
NeverDeletesMoney == [][\A w \in WalletIds :
  wallet[w] # NoRow /\ wallet'[w] = NoRow => Bal(w) <= DustLimit]_wallet
=============================================================================
