---------------------------- MODULE TradingProofs ----------------------------
(***************************************************************************)
(* Theorems about Trading, for every number of users, threads, wallets and *)
(* symbols.                                                                *)
(***************************************************************************)
EXTENDS Trading, FiniteSetTheorems, TLAPS

-----------------------------------------------------------------------------
(* Arithmetic *)

\* Rounding to the nearest unit returns an integer.
LEMMA HalfUpInt ==
  ASSUME NEW n \in Int, NEW d \in Int, d > 0
  PROVE  HalfUp(n, d) \in Int
BY DEF HalfUp

\* A balance column keeps an integer of whatever is written to it.
LEMMA DebitedInt ==
  ASSUME NEW b \in Int, NEW a \in Int
  PROVE  Debited(b, a) \in Int /\ Column(-a) \in Int /\ Quantized(a) \in Int
<1>1. \A n \in Int : HalfUp(n, AmountScale) \in Int
  BY AmountScaleAssumption, HalfUpInt
<1>2. b * AmountScale - a \in Int
  BY AmountScaleAssumption
<1>. QED  BY <1>1, <1>2 DEF Debited, Column, Quantized

\* HalfUp(n, d) is the only integer within half a unit of n/d, a tie going up.
LEMMA HalfUpIs ==
  ASSUME NEW n \in Int, NEW d \in Nat \ {0}, NEW h \in Int,
         2 * n - d < 2 * (d * h), 2 * (d * h) <= 2 * n + d
  PROVE  HalfUp(n, d) = h
<1>. DEFINE a == 2 * n + d
            b == 2 * d
            bh == b * h
<1>1. a \in Int /\ b \in Nat \ {0} /\ bh \in Int /\ bh = 2 * (d * h) /\ a - b = 2 * n - d
  OBVIOUS
<1>2. a - b < bh /\ bh <= a
  BY <1>1
<1>. HIDE DEF a
<1>3. a = b * h + (a - bh) /\ a - bh \in 0 .. (b - 1)
  <2>. HIDE DEF b, bh
  <2>1. a - bh \in 0 .. (b - 1) /\ a = bh + (a - bh)
    BY <1>1, <1>2
  <2>. QED  BY <2>1 DEF bh
<1>. DEFINE e == a - bh
<1>4. a = b * h + e /\ e \in 0 .. (b - 1)
  BY <1>3
<1>. HIDE DEF b, e, bh
<1>5. a \div b = h
  BY <1>1, <1>4
<1>. QED  BY <1>5 DEF HalfUp, a, b

\* What a debit that is covered leaves: no less than nothing, and what the log
\* says has left, but for the unit that a tie leaves behind.
LEMMA DebitedWhenCovered ==
  ASSUME NEW b \in Int, NEW a \in Nat \ {0}, b * AmountScale >= a
  PROVE  /\ Debited(b, a) \in Nat
         /\ Debited(b, a) = b + Column(-a) + (IF Tie(a) THEN 1 ELSE 0)
<1>. DEFINE s == AmountScale
            q == a \div s
            f == a % s
            sb == s * b
            sq == s * q
<1>1. s \in Nat \ {0}
  BY AmountScaleAssumption
<1>2. q \in Int /\ f \in 0 .. (s - 1) /\ a = sq + f
  BY <1>1
<1>3. sb \in Int /\ sq \in Int /\ b * s = sb /\ sb >= a
  BY <1>1, <1>2
<1>4. s * (b - q) = sb - sq /\ s * (b - q - 1) = sb - sq - s /\ s * (q + 1) = sq + s
  BY <1>1, <1>2
<1>5. /\ Debited(b, a) = HalfUp(sb - a, s) /\ Column(-a) = -HalfUp(a, s)
      /\ Tie(a) <=> 2 * f = s
  BY <1>3 DEF Debited, Column, Tie
<1>. HIDE DEF s, q, f, sb, sq
<1>6. HalfUp(a, s) = IF 2 * f < s THEN q ELSE q + 1
  <2>1. CASE 2 * f < s
    <3>1. 2 * a - s < 2 * (s * q) /\ 2 * (s * q) <= 2 * a + s
      BY <1>1, <1>2, <1>3, <2>1 DEF sq
    <3>. QED  BY <1>1, <1>2, <2>1, <3>1, HalfUpIs
  <2>2. CASE ~(2 * f < s)
    <3>1. 2 * a - s < 2 * (s * (q + 1)) /\ 2 * (s * (q + 1)) <= 2 * a + s
      BY <1>1, <1>2, <1>3, <1>4, <2>2
    <3>2. q + 1 \in Int
      BY <1>2
    <3>3. HalfUp(a, s) = q + 1
      BY <1>1, <3>1, <3>2, HalfUpIs
    <3>. QED  BY <2>2, <3>3
  <2>. QED  BY <2>1, <2>2
<1>7. HalfUp(sb - a, s) = IF 2 * f <= s THEN b - q ELSE b - q - 1
  <2>. DEFINE n == sb - a
  <2>1. n \in Int /\ n = sb - sq - f
    BY <1>2, <1>3
  <2>2. CASE 2 * f <= s
    <3>1. 2 * n - s < 2 * (s * (b - q)) /\ 2 * (s * (b - q)) <= 2 * n + s
      BY <1>1, <1>2, <1>3, <1>4, <2>1, <2>2
    <3>2. b - q \in Int
      BY <1>2
    <3>. HIDE DEF n
    <3>3. HalfUp(n, s) = b - q
      BY <1>1, <2>1, <3>1, <3>2, HalfUpIs
    <3>. QED  BY <2>2, <3>3 DEF n
  <2>3. CASE ~(2 * f <= s)
    <3>1. 2 * n - s < 2 * (s * (b - q - 1)) /\ 2 * (s * (b - q - 1)) <= 2 * n + s
      BY <1>1, <1>2, <1>3, <1>4, <2>1, <2>3
    <3>2. b - q - 1 \in Int
      BY <1>2
    <3>. HIDE DEF n
    <3>3. HalfUp(n, s) = b - q - 1
      BY <1>1, <2>1, <3>1, <3>2, HalfUpIs
    <3>. QED  BY <2>3, <3>3 DEF n
  <2>. QED  BY <2>2, <2>3
<1>8. Debited(b, a) = b + Column(-a) + (IF Tie(a) THEN 1 ELSE 0)
  BY <1>1, <1>2, <1>5, <1>6, <1>7
<1>9. Debited(b, a) \in Nat
  <2>. DEFINE h == HalfUp(sb - a, s)
  <2>1. h \in Int
    BY <1>2, <1>7
  <2>2. 0 <= sb - a /\ sb - a = sb - sq - f
    BY <1>2, <1>3
  <2>3. h >= 0
    <3>1. CASE b - q >= 1
      BY <1>2, <1>7, <3>1
    <3>2. CASE ~(b - q >= 1)
      <4>1. s * (b - q) <= 0
        <5>1. b - q <= 0 /\ b - q \in Int
          BY <1>2, <3>2
        <5>. DEFINE k == b - q
        <5>. HIDE DEF k
        <5>2. s * k <= 0
          BY <1>1, <5>1 DEF k
        <5>. QED  BY <5>2 DEF k
      <4>2. sb - sq = 0 /\ f = 0
        BY <1>2, <1>3, <1>4, <2>2, <4>1
      <4>3. s * (b - q) = 0 /\ 2 * f <= s
        BY <1>1, <1>4, <4>2
      <4>4. b - q = 0
        BY <1>1, <1>2, <4>3
      <4>. QED  BY <1>7, <4>3, <4>4
    <3>. QED  BY <3>1, <3>2
  <2>. QED  BY <1>5, <2>1, <2>3
<1>. QED  BY <1>8, <1>9

\* Rounding keeps what is not negative so.
LEMMA HalfUpNat ==
  ASSUME NEW n \in Nat, NEW d \in Nat \ {0}
  PROVE  HalfUp(n, d) \in Nat
<1>1. 2 * n + d \in Nat /\ 2 * d \in Nat \ {0}
  OBVIOUS
<1>. QED  BY <1>1 DEF HalfUp

\* A positive denominator is still one when it counts basis points.
LEMMA PositiveProduct ==
  ASSUME NEW d \in Nat \ {0}
  PROVE  Bps * d \in Int /\ Bps * d > 0
BY DEF Bps

\* The three amounts that a request moves are integers.
LEMMA TradeAmountsInt ==
  ASSUME NEW p \in Prices, NEW q \in Quantities
  PROVE  BuyCost(p, q) \in Int /\ SellProceeds(p, q) \in Int
<1>1. p \in Int /\ q \in Int
  BY NumberAssumption
<1>2. Bps + HalfSpread \in Int /\ Bps - HalfSpread \in Int
  BY SpreadAssumption DEF Bps
<1>3. p * (Bps + HalfSpread) \in Int /\ p * (Bps - HalfSpread) \in Int
  BY <1>1, <1>2
<1>4. p * (Bps + HalfSpread) * q \in Int /\ p * (Bps - HalfSpread) * q \in Int
  BY <1>1, <1>3
<1>. QED
  BY <1>4, ScaleAssumption, HalfUpInt, PositiveProduct DEF BuyCost, SellProceeds

\* A converted amount is an integer.
LEMMA ConvertedInt ==
  ASSUME NEW a \in Amounts, NEW c \in Currencies
  PROVE  Converted(a, Rate[c]) \in Int
<1>1. a \in Int
  BY NumberAssumption
<1>2. Rate[c].num \in Int /\ Rate[c].den \in Int /\ Rate[c].den > 0
  BY RateAssumption
<1>3. a * Rate[c].num \in Int
  BY <1>1, <1>2
<1>4. AmountScale * Rate[c].den \in Int /\ AmountScale * Rate[c].den > 0
  BY <1>2, AmountScaleAssumption
<1>5. Gross(a, Rate[c].num, Rate[c].den) \in Int
  BY <1>3, <1>4, HalfUpInt DEF Gross
<1>. DEFINE g == Gross(a, Rate[c].num, Rate[c].den)
<1>. HIDE DEF g
<1>6. g \in Int /\ g * FxSpread \in Int
  BY <1>5, SpreadAssumption DEF g
<1>7. FxFee(g) \in Int
  BY <1>6, HalfUpInt DEF FxFee, Bps
<1>. QED
  BY <1>6, <1>7 DEF Converted, Net, g

-----------------------------------------------------------------------------
(* Type correctness *)

\* The end of a request leaves every register and lock of its type.
LEMMA EndRequestType ==
  ASSUME TypeOK, NEW t \in Threads, EndRequest(t)
  PROVE  /\ price' \in [Symbols -> Prices] /\ rateFresh' \in BOOLEAN
         /\ walletLock' \in [WalletIds -> Threads \cup {NoThread}]
         /\ holdingLock' \in [HoldingIds -> Threads \cup {NoThread}]
         /\ pc' \in [Threads -> Pcs] /\ req' \in [Threads -> Requests \cup {NoRow}]
         /\ seen' \in [Threads -> Seen] /\ served' \in Nat
         /\ \A x \in Threads : ReqOK(x)'
<1>1. NothingSeen \in Seen
  BY DEF NothingSeen, Seen
<1>2. /\ walletLock' \in [WalletIds -> Threads \cup {NoThread}]
      /\ holdingLock' \in [HoldingIds -> Threads \cup {NoThread}]
  BY DEF TypeOK, EndRequest, ReleaseLocks, Releases
<1>3. pc' \in [Threads -> Pcs] /\ req' \in [Threads -> Requests \cup {NoRow}]
  BY DEF TypeOK, EndRequest, Pcs
<1>4. \A x \in Threads : ReqOK(x)'
  <2>. SUFFICES ASSUME NEW x \in Threads PROVE ReqOK(x)'
    OBVIOUS
  <2>1. CASE x = t
    <3>1. pc'[x] = "idle"
      BY <2>1 DEF TypeOK, EndRequest
    <3>. QED  BY <3>1 DEF ReqOK, TradePcs, TransferPcs, RefreshPcs, DeletePcs, CreatePcs
  <2>2. CASE x # t
    <3>1. pc'[x] = pc[x] /\ req'[x] = req[x]
      BY <2>2 DEF TypeOK, EndRequest
    <3>. QED  BY <3>1 DEF ReqOK, TypeOK
  <2>. QED  BY <2>1, <2>2
<1>. QED
  BY <1>1, <1>2, <1>3, <1>4 DEF TypeOK, EndRequest, market

\* A rolled back request keeps the types.
LEMMA AbortType ==
  ASSUME TypeOK, NEW t \in Threads, Abort(t)
  PROVE  TypeOK'
BY EndRequestType DEF TypeOK, Abort, tables

\* A statement that moves a thread to another program point of the same kind,
\* and reads or locks, keeps the types.
LEMMA ContinueType ==
  ASSUME TypeOK, NEW t \in Threads, NEW l \in Pcs, Continue(t, l),
         \E P \in {TradePcs, TransferPcs, DeletePcs} : pc[t] \in P /\ l \in P,
         walletLock' \in [WalletIds -> Threads \cup {NoThread}],
         holdingLock' \in [HoldingIds -> Threads \cup {NoThread}],
         seen' \in [Threads -> Seen]
  PROVE  TypeOK'
<1>1. pc' \in [Threads -> Pcs] /\ req' = req
  BY DEF TypeOK, Continue, Goto
<1>2. \A x \in Threads : ReqOK(x)'
  <2>. SUFFICES ASSUME NEW x \in Threads PROVE ReqOK(x)'
    OBVIOUS
  <2>1. CASE x = t
    BY <1>1, <2>1 DEF TypeOK, Continue, Goto, ReqOK, TradePcs, TransferPcs, RefreshPcs,
      DeletePcs, CreatePcs
  <2>2. CASE x # t
    <3>1. pc'[x] = pc[x] /\ req'[x] = req[x]
      BY <1>1, <2>2 DEF TypeOK, Continue, Goto
    <3>. QED  BY <3>1 DEF ReqOK, TypeOK
  <2>. QED  BY <2>1, <2>2
<1>. QED
  BY <1>1, <1>2 DEF TypeOK, Continue, tables, market

\* A request arrives: the kind of its request fits its first program point.
LEMMA BeginType ==
  ASSUME TypeOK, NEW t \in Threads, NEW op, NEW l \in Pcs, NEW r \in Requests,
         NEW s \in Seen, Begin(t, op, l, r, s),
         \/ l \in TradePcs /\ r \in TradeReq
         \/ l \in TransferPcs /\ r \in TransferReq /\ r.from # r.to
         \/ l \in DeletePcs /\ r \in DeleteReq
         \/ l \in CreatePcs /\ r \in CreateReq
  PROVE  TypeOK'
<1>1. /\ pc' \in [Threads -> Pcs] /\ req' \in [Threads -> Requests \cup {NoRow}]
      /\ seen' \in [Threads -> Seen] /\ served' \in Nat
      /\ pc'[t] = l /\ req'[t] = r
  BY DEF TypeOK, Begin, Goto
<1>2. \A x \in Threads : ReqOK(x)'
  <2>. SUFFICES ASSUME NEW x \in Threads PROVE ReqOK(x)'
    OBVIOUS
  <2>1. CASE x = t
    BY <1>1, <2>1 DEF ReqOK, TradePcs, TransferPcs, RefreshPcs, DeletePcs, CreatePcs
  <2>2. CASE x # t
    <3>1. pc'[x] = pc[x] /\ req'[x] = req[x]
      BY <2>2 DEF TypeOK, Begin, Goto
    <3>. QED  BY <3>1 DEF ReqOK, TypeOK
  <2>. QED  BY <2>1, <2>2
<1>. QED
  BY <1>1, <1>2 DEF TypeOK, Begin, tables, market, locks

\* A request that arrives keeps the types.
LEMMA ArriveType ==
  ASSUME TypeOK, NEW t \in Threads, Arrive(t)
  PROVE  TypeOK'
<1>. USE DEF Requests, Pcs, TradePcs, TransferPcs, RefreshPcs, DeletePcs, CreatePcs
<1>1. NothingSeen \in Seen
  BY DEF NothingSeen, Seen
<1>2. CASE BuyBegin(t)
  <2>1. PICK r \in TradeReq :
          Begin(t, "buy", "buyWallet", r,
                [NothingSeen EXCEPT !.value = BuyCost(price[r.sym], r.qty)])
    BY <1>2 DEF BuyBegin
  <2>2. BuyCost(price[r.sym], r.qty) \in Int
    BY TradeAmountsInt DEF TypeOK, TradeReq
  <2>3. [NothingSeen EXCEPT !.value = BuyCost(price[r.sym], r.qty)] \in Seen
    BY <2>2 DEF NothingSeen, Seen
  <2>. QED  BY <2>1, <2>3, BeginType
<1>3. CASE SellBegin(t)
  BY <1>1, <1>3, BeginType DEF SellBegin
<1>4. CASE TransferBegin(t)
  BY <1>1, <1>4, BeginType DEF TransferBegin
<1>5. CASE CreateBegin(t)
  BY <1>1, <1>5, BeginType DEF CreateBegin
<1>6. CASE DeleteBegin(t)
  BY <1>1, <1>6, BeginType DEF DeleteBegin
<1>. QED  BY <1>2, <1>3, <1>4, <1>5, <1>6 DEF Arrive

\* A wallet update of an existing row keeps the table's type.
LEMMA BalanceType ==
  ASSUME NEW f \in [WalletIds -> Wallet \cup {NoRow}], NEW w \in WalletIds,
         f[w] # NoRow, NEW b \in Int
  PROVE  [f EXCEPT ![w].bal = b] \in [WalletIds -> Wallet \cup {NoRow}]
BY DEF Wallet

\* A holding row keeps its type when its quantity changes.
LEMMA QuantityType ==
  ASSUME NEW f \in [HoldingIds -> Holding \cup {NoRow}], NEW h \in HoldingIds,
         f[h] # NoRow, NEW q \in Int
  PROVE  [f EXCEPT ![h].qty = q] \in [HoldingIds -> Holding \cup {NoRow}]
BY DEF Holding

\* The quantities and amounts requested are positive integers.
LEMMA InputsInt ==
  /\ \A q \in Quantities : q \in Int /\ q > 0
  /\ \A a \in Amounts : a \in Int /\ a > 0
BY NumberAssumption

\* Each field of a request and of a register, with its type.
LEMMA RequestFields ==
  ASSUME TypeOK, NEW t \in Threads
  PROVE  /\ pc[t] \in TradePcs => /\ req[t].user \in Users /\ req[t].sym \in Symbols
                                 /\ req[t].wallet \in WalletIds /\ req[t].qty \in Quantities
                                 /\ req[t].qty \in Int
         /\ pc[t] \in TransferPcs =>
              /\ req[t].user \in Users /\ req[t].from \in WalletIds /\ req[t].to \in WalletIds
              /\ req[t].amt \in Amounts /\ req[t].amt \in Int /\ req[t].amt > 0
              /\ req[t].from # req[t].to
              /\ First(req[t]) \in WalletIds /\ Second(req[t]) \in WalletIds
              /\ {First(req[t]), Second(req[t])} = {req[t].from, req[t].to}
              /\ First(req[t]) # Second(req[t])
         /\ pc[t] \in DeletePcs => req[t].user \in Users /\ req[t].wallet \in WalletIds
         /\ pc[t] \in CreatePcs => req[t].user \in Users /\ req[t].cur \in Currencies
         /\ seen[t].bal \in Int /\ seen[t].bal2 \in Int /\ seen[t].have \in Int
         /\ seen[t].value \in Int /\ seen[t].linked \in Int
         /\ seen[t].row \in HoldingIds \cup {NoRow}
<1>1. ReqOK(t) /\ seen[t] \in Seen
  BY DEF TypeOK
<1>2. pc[t] \in TradePcs => /\ req[t].user \in Users /\ req[t].sym \in Symbols
                          /\ req[t].wallet \in WalletIds /\ req[t].qty \in Quantities
                          /\ req[t].qty \in Int
  <2>1. pc[t] \in TradePcs => /\ req[t].user \in Users /\ req[t].sym \in Symbols
                            /\ req[t].wallet \in WalletIds /\ req[t].qty \in Quantities
    BY <1>1 DEF ReqOK, TradeReq
  <2>. QED  BY <2>1, InputsInt
<1>3. pc[t] \in TransferPcs =>
        /\ req[t].user \in Users /\ req[t].from \in WalletIds /\ req[t].to \in WalletIds
        /\ req[t].amt \in Amounts /\ req[t].amt \in Int /\ req[t].amt > 0
        /\ req[t].from # req[t].to
  <2>1. pc[t] \in TransferPcs =>
          /\ req[t].user \in Users /\ req[t].from \in WalletIds /\ req[t].to \in WalletIds
          /\ req[t].amt \in Amounts /\ req[t].from # req[t].to
    BY <1>1 DEF ReqOK, TransferReq
  <2>. QED  BY <2>1, InputsInt
<1>4. pc[t] \in TransferPcs =>
        /\ First(req[t]) \in WalletIds /\ Second(req[t]) \in WalletIds
        /\ {First(req[t]), Second(req[t])} = {req[t].from, req[t].to}
        /\ First(req[t]) # Second(req[t])
  BY <1>3 DEF First, Second, AscendingIds
<1>5. /\ pc[t] \in DeletePcs => req[t].user \in Users /\ req[t].wallet \in WalletIds
      /\ pc[t] \in CreatePcs => req[t].user \in Users /\ req[t].cur \in Currencies
  BY <1>1 DEF ReqOK, DeleteReq, CreateReq
<1>. QED  BY <1>1, <1>2, <1>3, <1>4, <1>5 DEF Seen

\* A commit writes rows of the right type.
LEMMA CommitType ==
  ASSUME TypeOK, NEW t \in Threads, RowsHeld(t),
         \/ BuyCommit(t) \/ SellCommit(t) \/ TransferCommit(t)
         \/ CreateInsert(t) \/ DeleteFlush(t)
  PROVE  TypeOK'
<1>. USE DEF TradePcs, TransferPcs, RefreshPcs, DeletePcs, CreatePcs
<1>1. CASE BuyCommit(t)
  <2>1. pc[t] = "buyCommit" /\ EndRequest(t) /\ nextId' = nextId
    BY <1>1 DEF BuyCommit
  <2>2. wallet' \in [WalletIds -> Wallet \cup {NoRow}]
    <3>1. req[t].wallet \in WalletIds /\ wallet[req[t].wallet] # NoRow
      BY <2>1, RequestFields DEF RowsHeld, HoldsWallet
    <3>2. seen[t].bal - seen[t].value \in Int
      BY RequestFields
    <3>3. wallet \in [WalletIds -> Wallet \cup {NoRow}]
      BY DEF TypeOK
    <3>. QED  BY <1>1, <3>1, <3>2, <3>3, BalanceType DEF BuyCommit
  <2>3. holding' \in [HoldingIds -> Holding \cup {NoRow}]
    <3>1. CASE seen[t].row # NoRow
      <4>1. seen[t].row \in HoldingIds /\ holding[seen[t].row] # NoRow
        BY <2>1, <3>1 DEF RowsHeld, HoldsHolding
      <4>2. seen[t].have + req[t].qty \in Int
        BY <2>1, RequestFields
      <4>3. holding \in [HoldingIds -> Holding \cup {NoRow}]
        BY DEF TypeOK
      <4>. QED  BY <1>1, <3>1, <4>1, <4>2, <4>3, QuantityType DEF BuyCommit, Credited
    <3>2. CASE seen[t].row = NoRow
      <4>1. PICK h \in HoldingIds : holding' = [holding EXCEPT
              ![h] = [owner |-> req[t].user, sym |-> req[t].sym, qty |-> req[t].qty]]
        BY <1>1, <3>2 DEF BuyCommit, Credited
      <4>2. [owner |-> req[t].user, sym |-> req[t].sym, qty |-> req[t].qty] \in Holding
        BY <2>1, RequestFields DEF Holding
      <4>. QED  BY <4>1, <4>2 DEF TypeOK
    <3>. QED  BY <3>1, <3>2
  <2>4. posted' \in [WalletIds -> Int] /\ refs' \in [WalletIds -> Nat] /\ ties' = ties
    BY <1>1, <2>1, RequestFields DEF BuyCommit, Log, TypeOK
  <2>5. shares' \in [Users -> [Symbols -> Int]]
    BY <1>1, <2>1, RequestFields DEF BuyCommit, TypeOK
  <2>. QED  BY <2>1, <2>2, <2>3, <2>4, <2>5, EndRequestType DEF TypeOK
<1>2. CASE SellCommit(t)
  <2>1. pc[t] = "sellCommit" /\ EndRequest(t) /\ nextId' = nextId
    BY <1>2 DEF SellCommit
  <2>2. wallet' \in [WalletIds -> Wallet \cup {NoRow}]
    <3>1. req[t].wallet \in WalletIds /\ wallet[req[t].wallet] # NoRow
      BY <2>1, RequestFields DEF RowsHeld, HoldsWallet
    <3>2. seen[t].bal + seen[t].value \in Int
      BY RequestFields
    <3>3. wallet \in [WalletIds -> Wallet \cup {NoRow}]
      BY DEF TypeOK
    <3>. QED  BY <1>2, <3>1, <3>2, <3>3, BalanceType DEF SellCommit
  <2>3. holding' \in [HoldingIds -> Holding \cup {NoRow}]
    <3>1. seen[t].row \in HoldingIds /\ holding[seen[t].row] \in Holding
      BY <2>1 DEF RowsHeld, HoldsHolding, TypeOK
    <3>2. seen[t].have - req[t].qty \in Int
      BY <2>1, RequestFields
    <3>. QED  BY <1>2, <3>1, <3>2 DEF SellCommit, TypeOK, Holding
  <2>4. posted' \in [WalletIds -> Int] /\ refs' \in [WalletIds -> Nat] /\ ties' = ties
    BY <1>2, <2>1, RequestFields DEF SellCommit, Log, TypeOK
  <2>5. shares' \in [Users -> [Symbols -> Int]]
    BY <1>2, <2>1, RequestFields DEF SellCommit, TypeOK
  <2>. QED  BY <2>1, <2>2, <2>3, <2>4, <2>5, EndRequestType DEF TypeOK
<1>3. CASE TransferCommit(t)
  <2>1. /\ pc[t] = "xferCommit" /\ EndRequest(t)
        /\ UNCHANGED <<holding, shares, nextId>>
    BY <1>3 DEF TransferCommit
  <2>2. wallet[req[t].from] # NoRow /\ wallet[req[t].to] # NoRow
    BY <2>1, RequestFields DEF RowsHeld, HoldsWallet
  <2>3. wallet' \in [WalletIds -> Wallet \cup {NoRow}]
    <3>. DEFINE left == Debited(seen[t].bal, req[t].amt)
                debited == [wallet EXCEPT ![req[t].from].bal = left]
    <3>0. /\ req[t].from \in WalletIds /\ req[t].to \in WalletIds /\ req[t].from # req[t].to
          /\ req[t].amt \in Int /\ seen[t].bal \in Int /\ seen[t].bal2 \in Int
          /\ seen[t].value \in Int
      BY <2>1, RequestFields
    <3>5. left \in Int
      BY <3>0, DebitedInt
    <3>1. /\ wallet \in [WalletIds -> Wallet \cup {NoRow}]
          /\ left \in Int /\ seen[t].bal2 + seen[t].value \in Int
      BY <3>0, <3>5 DEF TypeOK
    <3>2. debited \in [WalletIds -> Wallet \cup {NoRow}]
      BY <2>2, <3>0, <3>1, BalanceType
    <3>3. debited[req[t].to] # NoRow
      BY <2>2, <3>0, <3>1
    <3>4. wallet' = [debited EXCEPT ![req[t].to].bal = seen[t].bal2 + seen[t].value]
      BY <1>3 DEF TransferCommit
    <3>. HIDE DEF debited
    <3>. QED  BY <3>0, <3>1, <3>2, <3>3, <3>4, BalanceType
  <2>4. posted' \in [WalletIds -> Int] /\ refs' \in [WalletIds -> Nat] /\ ties' \in [WalletIds -> Nat]
    <3>0. /\ req[t].from \in WalletIds /\ req[t].to \in WalletIds
          /\ req[t].amt \in Int /\ seen[t].value \in Int
      BY <2>1, RequestFields
    <3>1. Column(-req[t].amt) \in Int
      BY <3>0, DebitedInt
    <3>2. /\ posted \in [WalletIds -> Int] /\ refs \in [WalletIds -> Nat]
          /\ ties \in [WalletIds -> Nat]
      BY DEF TypeOK
    <3>. DEFINE out == Column(-req[t].amt)  v == seen[t].value
                kept == IF Tie(req[t].amt) THEN ties[req[t].from] + 1 ELSE ties[req[t].from]
    <3>3. /\ posted' = [posted EXCEPT ![req[t].from] = @ + out, ![req[t].to] = @ + v]
          /\ refs' = [refs EXCEPT ![req[t].from] = @ + 2, ![req[t].to] = @ + 2]
          /\ ties' = [ties EXCEPT ![req[t].from] = kept]
      BY <1>3 DEF TransferCommit
    <3>4. out \in Int /\ v \in Int /\ kept \in Nat
      BY <3>0, <3>1, <3>2
    <3>. HIDE DEF out, v, kept
    <3>5. posted' \in [WalletIds -> Int]
      BY <3>0, <3>2, <3>3, <3>4
    <3>6. refs' \in [WalletIds -> Nat] /\ ties' \in [WalletIds -> Nat]
      BY <3>0, <3>2, <3>3, <3>4
    <3>. QED  BY <3>5, <3>6
  <2>. QED  BY <2>1, <2>3, <2>4, EndRequestType DEF TypeOK
<1>4. CASE CreateInsert(t)
  <2>1. /\ pc[t] = "createInsert" /\ EndRequest(t)
        /\ UNCHANGED <<holding, posted, refs, ties, shares>> /\ nextId' = nextId + 1
    BY <1>4 DEF CreateInsert
  <2>2. [owner |-> req[t].user, cur |-> req[t].cur, bal |-> 0] \in Wallet
    BY <2>1, RequestFields DEF Wallet
  <2>3. wallet' \in [WalletIds -> Wallet \cup {NoRow}]
    BY <1>4, <2>2 DEF CreateInsert, TypeOK
  <2>4. nextId' \in Nat \ {0} /\ holding' = holding /\ posted' = posted
        /\ refs' = refs /\ ties' = ties /\ shares' = shares
    BY <2>1 DEF TypeOK
  <2>. QED  BY <2>1, <2>3, <2>4, EndRequestType DEF TypeOK
<1>5. CASE DeleteFlush(t)
  <2>1. CASE Abort(t)
    BY <2>1, AbortType
  <2>2. CASE ~Abort(t)
    <3>1. EndRequest(t) /\ UNCHANGED <<holding, shares, nextId>>
      BY <1>5, <2>2 DEF DeleteFlush
    <3>2. /\ wallet' = [wallet EXCEPT ![req[t].wallet] = NoRow]
          /\ posted' = [posted EXCEPT ![req[t].wallet] = 0]
          /\ refs' = [refs EXCEPT ![req[t].wallet] = 0]
          /\ ties' = [ties EXCEPT ![req[t].wallet] = 0]
      BY <1>5, <2>2 DEF DeleteFlush
    <3>3. /\ wallet' \in [WalletIds -> Wallet \cup {NoRow}]
          /\ posted' \in [WalletIds -> Int] /\ refs' \in [WalletIds -> Nat]
          /\ ties' \in [WalletIds -> Nat]
      <4>1. /\ wallet \in [WalletIds -> Wallet \cup {NoRow}]
            /\ posted \in [WalletIds -> Int] /\ refs \in [WalletIds -> Nat]
            /\ ties \in [WalletIds -> Nat]
            /\ req[t].wallet \in WalletIds
        BY <1>5, RequestFields DEF TypeOK, DeleteFlush
      <4>2. wallet' \in [WalletIds -> Wallet \cup {NoRow}]
        BY <3>2, <4>1
      <4>3. posted' \in [WalletIds -> Int]
        BY <3>2, <4>1
      <4>4. refs' \in [WalletIds -> Nat] /\ ties' \in [WalletIds -> Nat]
        BY <3>2, <4>1
      <4>. QED  BY <4>2, <4>3, <4>4
    <3>. QED  BY <3>1, <3>3, EndRequestType DEF TypeOK
  <2>. QED  BY <2>1, <2>2
<1>. QED  BY <1>1, <1>2, <1>3, <1>4, <1>5

\* A register keeps its type when a thread writes what it has read to it.
LEMMA SeenType ==
  ASSUME NEW f \in [Threads -> Seen], NEW t \in Threads
  PROVE  /\ \A h \in HoldingIds, i \in Int :
              [f EXCEPT ![t].row = h, ![t].have = i] \in [Threads -> Seen]
         /\ \A h \in HoldingIds, i, v \in Int :
              [f EXCEPT ![t].row = h, ![t].have = i, ![t].value = v] \in [Threads -> Seen]
         /\ \A i, v \in Int : [f EXCEPT ![t].bal = i, ![t].value = v] \in [Threads -> Seen]
         /\ \A i, j, v \in Int :
              [f EXCEPT ![t].bal = i, ![t].bal2 = j, ![t].value = v] \in [Threads -> Seen]
         /\ \A i \in Int : /\ [f EXCEPT ![t].bal = i] \in [Threads -> Seen]
                           /\ [f EXCEPT ![t].bal2 = i] \in [Threads -> Seen]
<1>. USE DEF Seen
<1>1. ASSUME NEW h \in HoldingIds, NEW i \in Int
      PROVE  [f EXCEPT ![t].row = h, ![t].have = i] \in [Threads -> Seen]
  <2>1. [f EXCEPT ![t] = [f[t] EXCEPT !.row = h, !.have = i]] \in [Threads -> Seen]
    OBVIOUS
  <2>. QED  BY ONLY <2>1
<1>2. ASSUME NEW h \in HoldingIds, NEW i \in Int, NEW v \in Int
      PROVE  [f EXCEPT ![t].row = h, ![t].have = i, ![t].value = v] \in [Threads -> Seen]
  <2>1. [f EXCEPT ![t] = [f[t] EXCEPT !.row = h, !.have = i, !.value = v]] \in [Threads -> Seen]
    OBVIOUS
  <2>. QED  BY ONLY <2>1
<1>3. ASSUME NEW i \in Int, NEW v \in Int
      PROVE  [f EXCEPT ![t].bal = i, ![t].value = v] \in [Threads -> Seen]
  <2>1. [f EXCEPT ![t] = [f[t] EXCEPT !.bal = i, !.value = v]] \in [Threads -> Seen]
    OBVIOUS
  <2>. QED  BY ONLY <2>1
<1>4. ASSUME NEW i \in Int, NEW j \in Int, NEW v \in Int
      PROVE  [f EXCEPT ![t].bal = i, ![t].bal2 = j, ![t].value = v] \in [Threads -> Seen]
  <2>1. [f EXCEPT ![t] = [f[t] EXCEPT !.bal = i, !.bal2 = j, !.value = v]] \in [Threads -> Seen]
    OBVIOUS
  <2>. QED  BY ONLY <2>1
<1>5. ASSUME NEW i \in Int
      PROVE  /\ [f EXCEPT ![t].bal = i] \in [Threads -> Seen]
             /\ [f EXCEPT ![t].bal2 = i] \in [Threads -> Seen]
  <2>1. /\ [f EXCEPT ![t] = [f[t] EXCEPT !.bal = i]] \in [Threads -> Seen]
        /\ [f EXCEPT ![t] = [f[t] EXCEPT !.bal2 = i]] \in [Threads -> Seen]
    OBVIOUS
  <2>. QED  BY ONLY <2>1
<1>. QED  BY <1>1, <1>2, <1>3, <1>4, <1>5

\* Every other step of a request reads, locks or goes on.
LEMMA StatementType ==
  ASSUME TypeOK, NEW t \in Threads,
         \/ BuyLockWallet(t) \/ BuyLockHolding(t) \/ SellLockHolding(t) \/ SellLockWallet(t)
         \/ TransferLockFirst(t) \/ TransferLockSecond(t) \/ TransferFetchRates(t)
         \/ TransferReadFrom(t) \/ TransferReadTo(t)
         \/ TransferFlushFirst(t) \/ TransferFlushSecond(t) \/ DeleteLoad(t)
  PROVE  TypeOK'
<1>. SUFFICES ASSUME ~Abort(t) PROVE TypeOK'
  BY AbortType
<1>. USE DEF TradePcs, TransferPcs, RefreshPcs, DeletePcs, Pcs
<1>0. /\ wallet \in [WalletIds -> Wallet \cup {NoRow}]
      /\ holding \in [HoldingIds -> Holding \cup {NoRow}]
      /\ walletLock \in [WalletIds -> Threads \cup {NoThread}]
      /\ holdingLock \in [HoldingIds -> Threads \cup {NoThread}]
      /\ seen \in [Threads -> Seen] /\ refs \in [WalletIds -> Nat]
      /\ price \in [Symbols -> Prices]
  BY DEF TypeOK
<1>1. CASE BuyLockWallet(t)
  <2>1. /\ pc[t] = "buyWallet" /\ Continue(t, "buyHolding") /\ holdingLock' = holdingLock
        /\ walletLock' = [walletLock EXCEPT ![req[t].wallet] = t]
        /\ seen' = [seen EXCEPT ![t].bal = wallet[req[t].wallet].bal]
        /\ wallet[req[t].wallet] # NoRow
    BY <1>1 DEF BuyLockWallet, OwnedBy
  <2>2. wallet[req[t].wallet].bal \in Int
    BY <1>0, <2>1, RequestFields DEF Wallet
  <2>3. seen' \in [Threads -> Seen]
    <3>. DEFINE b == wallet[req[t].wallet].bal
    <3>1. seen' = [seen EXCEPT ![t].bal = b] /\ b \in Int /\ seen \in [Threads -> Seen]
      BY <1>0, <2>1, <2>2
    <3>. HIDE DEF b
    <3>. QED  BY <3>1, SeenType
  <2>. QED  BY <1>0, <2>1, <2>3, ContinueType
<1>2. CASE BuyLockHolding(t)
  <2>1. pc[t] = "buyHolding" /\ Continue(t, "buyCommit") /\ walletLock' = walletLock
    BY <1>2 DEF BuyLockHolding
  <2>2. CASE UNCHANGED <<holdingLock, seen>>
    BY <1>0, <2>1, <2>2, ContinueType
  <2>3. CASE \E h \in Holdings(req[t].user, req[t].sym) :
               /\ holdingLock' = [holdingLock EXCEPT ![h] = t]
               /\ seen' = [seen EXCEPT ![t].row = h, ![t].have = holding[h].qty]
    <3>1. PICK h \in HoldingIds :
            /\ holding[h] # NoRow
            /\ holdingLock' = [holdingLock EXCEPT ![h] = t]
            /\ seen' = [seen EXCEPT ![t].row = h, ![t].have = holding[h].qty]
      BY <2>3 DEF Holdings
    <3>2. holding[h].qty \in Int
      BY <1>0, <3>1 DEF Holding
    <3>3. seen' \in [Threads -> Seen]
      BY <1>0, <3>1, <3>2, SeenType
    <3>. QED  BY <1>0, <2>1, <3>1, <3>3, ContinueType
  <2>. QED  BY <1>2, <2>2, <2>3 DEF BuyLockHolding
<1>3. CASE SellLockHolding(t)
  <2>1. PICK h \in Holdings(req[t].user, req[t].sym) :
          /\ holdingLock' = [holdingLock EXCEPT ![h] = t]
          /\ seen' = [seen EXCEPT ![t].row = h, ![t].have = holding[h].qty,
                                  ![t].value = SellProceeds(price[req[t].sym], req[t].qty)]
          /\ Continue(t, "sellWallet") /\ walletLock' = walletLock
    BY <1>3 DEF SellLockHolding
  <2>2. pc[t] = "sellHolding"
    BY <1>3 DEF SellLockHolding
  <2>3. holding[h].qty \in Int /\ h \in HoldingIds
    BY <1>0, <2>1 DEF Holdings, Holding
  <2>4. SellProceeds(price[req[t].sym], req[t].qty) \in Int
    BY <1>0, <2>2, RequestFields, TradeAmountsInt
  <2>5. seen' \in [Threads -> Seen]
    <3>. DEFINE v == SellProceeds(price[req[t].sym], req[t].qty)  q == holding[h].qty
    <3>1. /\ seen' = [seen EXCEPT ![t].row = h, ![t].have = q, ![t].value = v]
          /\ h \in HoldingIds /\ q \in Int /\ v \in Int /\ seen \in [Threads -> Seen]
      BY <1>0, <2>1, <2>3, <2>4
    <3>. HIDE DEF v, q
    <3>. QED  BY <3>1, SeenType
  <2>. QED  BY <1>0, <2>1, <2>2, <2>3, <2>5, ContinueType
<1>4. CASE SellLockWallet(t)
  <2>1. /\ pc[t] = "sellWallet" /\ Continue(t, "sellCommit") /\ holdingLock' = holdingLock
        /\ walletLock' = [walletLock EXCEPT ![req[t].wallet] = t]
        /\ seen' = [seen EXCEPT ![t].bal = wallet[req[t].wallet].bal]
        /\ wallet[req[t].wallet] # NoRow
    BY <1>4 DEF SellLockWallet, OwnedBy
  <2>2. wallet[req[t].wallet].bal \in Int
    BY <1>0, <2>1, RequestFields DEF Wallet
  <2>3. seen' \in [Threads -> Seen]
    <3>. DEFINE b == wallet[req[t].wallet].bal
    <3>1. seen' = [seen EXCEPT ![t].bal = b] /\ b \in Int /\ seen \in [Threads -> Seen]
      BY <1>0, <2>1, <2>2
    <3>. HIDE DEF b
    <3>. QED  BY <3>1, SeenType
  <2>. QED  BY <1>0, <2>1, <2>3, ContinueType
<1>5. CASE TransferLockFirst(t)
  <2>1. /\ pc[t] = "xferFirst" /\ Continue(t, "xferSecond") /\ UNCHANGED <<holdingLock, seen>>
        /\ walletLock' = [walletLock EXCEPT ![First(req[t])] = t]
    BY <1>5 DEF TransferLockFirst
  <2>. QED  BY <1>0, <2>1, ContinueType
<1>6. CASE TransferLockSecond(t)
  <2>. DEFINE r == req[t]
  <2>1. /\ pc[t] = "xferSecond" /\ holdingLock' = holdingLock
        /\ walletLock' = [walletLock EXCEPT ![Second(r)] = t]
        /\ wallet[r.from] # NoRow /\ wallet[r.to] # NoRow
        /\ \/ Continue(t, "xferFetch") /\ seen' = seen
           \/ /\ Continue(t, "xferCommit")
              /\ seen' = [seen EXCEPT ![t].bal = wallet[r.from].bal,
                                      ![t].bal2 = wallet[r.to].bal, ![t].value = Credit(r)]
    BY <1>6 DEF TransferLockSecond, CallerOwnsBoth, OwnedBy
  <2>2. wallet[r.from] \in Wallet /\ wallet[r.to] \in Wallet
    BY <1>0, <2>1, RequestFields
  <2>3. Credit(r) \in Int
    BY <2>1, <2>2, RequestFields, ConvertedInt, DebitedInt DEF Credit, Wallet
  <2>4. seen' \in [Threads -> Seen]
    <3>. DEFINE a == wallet[r.from].bal  b == wallet[r.to].bal  v == Credit(r)
    <3>1. /\ seen' = seen \/ seen' = [seen EXCEPT ![t].bal = a, ![t].bal2 = b, ![t].value = v]
          /\ a \in Int /\ b \in Int /\ v \in Int /\ seen \in [Threads -> Seen]
      BY <1>0, <2>1, <2>2, <2>3 DEF Wallet
    <3>. HIDE DEF a, b, v
    <3>2. [seen EXCEPT ![t].bal = a, ![t].bal2 = b, ![t].value = v] \in [Threads -> Seen]
      BY <3>1, SeenType
    <3>. QED  BY <3>1, <3>2
  <2>5. walletLock' \in [WalletIds -> Threads \cup {NoThread}]
    BY <1>0, <2>1
  <2>. QED  BY <1>0, <2>1, <2>4, <2>5, ContinueType
<1>7. CASE TransferFetchRates(t)
  <2>1. /\ rateFresh' = TRUE /\ ReleaseLocks(t) /\ Goto(t, "xferReadFrom")
        /\ UNCHANGED <<tables, price, req, seen, served>> /\ pc[t] = "xferFetch"
    BY <1>7 DEF TransferFetchRates
  <2>2. /\ walletLock' \in [WalletIds -> Threads \cup {NoThread}]
        /\ holdingLock' \in [HoldingIds -> Threads \cup {NoThread}]
    BY <1>0, <2>1 DEF ReleaseLocks, Releases
  <2>3. pc' \in [Threads -> Pcs]
    BY <2>1 DEF TypeOK, Goto
  <2>4. \A x \in Threads : ReqOK(x)'
    <3>. SUFFICES ASSUME NEW x \in Threads PROVE ReqOK(x)'
      OBVIOUS
    <3>1. req'[x] = req[x] /\ (pc'[x] = pc[x] \/ (x = t /\ pc'[x] = "xferReadFrom"))
      BY <2>1 DEF TypeOK, Goto
    <3>. QED  BY <2>1, <3>1 DEF TypeOK, ReqOK, CreatePcs
  <2>. QED  BY <2>1, <2>2, <2>3, <2>4 DEF TypeOK, tables
<1>8. CASE TransferReadFrom(t)
  <2>. DEFINE r == req[t]
  <2>1. /\ pc[t] = "xferReadFrom" /\ Continue(t, "xferReadTo") /\ UNCHANGED locks
        /\ wallet[r.from] # NoRow
        /\ seen' = [seen EXCEPT ![t].bal = wallet[r.from].bal,
                                ![t].value = Converted(r.amt, Rate[wallet[r.from].cur])]
    BY <1>8 DEF TransferReadFrom
  <2>2. wallet[r.from] \in Wallet
    BY <1>0, <2>1, RequestFields
  <2>3. Converted(r.amt, Rate[wallet[r.from].cur]) \in Int
    BY <2>1, <2>2, RequestFields, ConvertedInt DEF Wallet
  <2>4. seen' \in [Threads -> Seen]
    <3>. DEFINE v == Converted(r.amt, Rate[wallet[r.from].cur])  b == wallet[r.from].bal
    <3>1. seen' = [seen EXCEPT ![t].bal = b, ![t].value = v] /\ v \in Int
      BY <2>1, <2>3
    <3>2. b \in Int
      BY <2>2 DEF Wallet
    <3>. HIDE DEF v, b
    <3>. QED  BY <1>0, <3>1, <3>2, SeenType
  <2>. QED  BY <1>0, <2>1, <2>4, ContinueType DEF locks
<1>9. CASE TransferReadTo(t)
  <2>1. /\ pc[t] = "xferReadTo" /\ Continue(t, "xferFlushFirst") /\ UNCHANGED locks
        /\ wallet[req[t].to] # NoRow
        /\ seen' = [seen EXCEPT ![t].bal2 = wallet[req[t].to].bal]
    BY <1>9 DEF TransferReadTo
  <2>2. wallet[req[t].to].bal \in Int
    BY <1>0, <2>1, RequestFields DEF Wallet
  <2>3. seen' \in [Threads -> Seen]
    <3>. DEFINE b == wallet[req[t].to].bal
    <3>1. seen' = [seen EXCEPT ![t].bal2 = b] /\ b \in Int /\ seen \in [Threads -> Seen]
      BY <1>0, <2>1, <2>2
    <3>. HIDE DEF b
    <3>. QED  BY <3>1, SeenType
  <2>. QED  BY <1>0, <2>1, <2>3, ContinueType DEF locks
<1>10. CASE TransferFlushFirst(t)
  <2>1. /\ pc[t] = "xferFlushFirst" /\ Continue(t, "xferFlushSecond")
        /\ UNCHANGED <<holdingLock, seen>>
        /\ walletLock' = [walletLock EXCEPT ![First(req[t])] = t]
    BY <1>10 DEF TransferFlushFirst, TransferFlush
  <2>. QED  BY <1>0, <2>1, ContinueType
<1>11. CASE TransferFlushSecond(t)
  <2>1. /\ pc[t] = "xferFlushSecond" /\ Continue(t, "xferCommit")
        /\ UNCHANGED <<holdingLock, seen>>
        /\ walletLock' = [walletLock EXCEPT ![Second(req[t])] = t]
    BY <1>11 DEF TransferFlushSecond, TransferFlush
  <2>. QED  BY <1>0, <2>1, ContinueType
<1>12. CASE DeleteLoad(t)
  <2>1. /\ pc[t] = "delLoad" /\ Continue(t, "delFlush") /\ UNCHANGED locks
        /\ seen' = [seen EXCEPT ![t].linked = refs[req[t].wallet]]
    BY <1>12 DEF DeleteLoad
  <2>2. refs[req[t].wallet] \in Int /\ seen \in [Threads -> Seen]
    BY <1>0, <2>1, RequestFields
  <2>3. seen' \in [Threads -> Seen]
    <3>. DEFINE n == refs[req[t].wallet]
    <3>1. seen' = [seen EXCEPT ![t].linked = n] /\ n \in Int /\ seen \in [Threads -> Seen]
      BY <2>1, <2>2
    <3>. HIDE DEF n
    <3>. QED  BY <3>1 DEF Seen
  <2>. QED  BY <1>0, <2>1, <2>3, ContinueType DEF locks
<1>. QED
  BY <1>1, <1>2, <1>3, <1>4, <1>5, <1>6, <1>7, <1>8, <1>9, <1>10, <1>11, <1>12
-----------------------------------------------------------------------------
(* The locking discipline *)

\* Ids the sequence has not reached name no row and no transaction.
UnusedIds == \A w \in WalletIds :
  w >= nextId => wallet[w] = NoRow /\ posted[w] = 0 /\ ties[w] = 0 /\ w \notin DOMAIN Opening

\* The inductive invariant.
IInv ==
  /\ TypeOK
  /\ UnusedIds
  /\ LockedReadsCurrent
  /\ ~RatesExpire => rateFresh

\* A step of t leaves alone the registers of the other threads, their locks
\* and the rows they have locked.
Untouched(t) ==
  /\ \A x \in Threads \ {t} : pc'[x] = pc[x] /\ req'[x] = req[x] /\ seen'[x] = seen[x]
  /\ \A w \in WalletIds : walletLock[w] \notin {t, NoThread} =>
       walletLock'[w] = walletLock[w] /\ (wallet[w] # NoRow => wallet'[w] = wallet[w])
  /\ \A h \in HoldingIds : holdingLock[h] \notin {t, NoThread} =>
       holdingLock'[h] = holdingLock[h] /\ (holding[h] # NoRow => holding'[h] = holding[h])

\* What another thread holds and has read survives a step of t.
LEMMA OthersKeep ==
  ASSUME TypeOK, NEW t \in Threads, Untouched(t), NEW x \in Threads, x # t
  PROVE  /\ RowsHeld(x) => RowsHeld(x)'
         /\ RowsHeld(x) /\ TradeReads(x) => TradeReads(x)'
         /\ RowsHeld(x) /\ TransferReads(x) => TransferReads(x)'
<1>. USE DEF TradePcs, TransferPcs, RefreshPcs
<1>1. pc'[x] = pc[x] /\ req'[x] = req[x] /\ seen'[x] = seen[x]
  BY DEF Untouched
<1>2. ASSUME NEW w \in WalletIds, HoldsWallet(x, w)
      PROVE  HoldsWallet(x, w)' /\ wallet'[w] = wallet[w]
  BY <1>2, RowAssumption DEF Untouched, HoldsWallet
<1>3. ASSUME NEW h, HoldsHolding(x, h)
      PROVE  HoldsHolding(x, h)' /\ holding'[h] = holding[h]
  BY <1>3, RowAssumption DEF Untouched, HoldsHolding
<1>4. First(req[x])' = First(req[x]) /\ Second(req[x])' = Second(req[x])
  BY <1>1 DEF First, Second, AscendingIds
<1>5. RowsHeld(x) => RowsHeld(x)'
  BY <1>1, <1>2, <1>3, <1>4, RequestFields DEF RowsHeld
<1>6. RowsHeld(x) /\ TradeReads(x) => TradeReads(x)'
  BY <1>1, <1>2, <1>3, RequestFields DEF RowsHeld, TradeReads
<1>7. RowsHeld(x) /\ TransferReads(x) => TransferReads(x)'
  <2>1. CASE pc[x] = "xferCommit"
    <3>1. RowsHeld(x) => /\ wallet'[req[x].from] = wallet[req[x].from]
                         /\ wallet'[req[x].to] = wallet[req[x].to]
      BY <1>2, <2>1, RequestFields DEF RowsHeld
    <3>. QED  BY <1>1, <3>1 DEF TransferReads, Covers
  <2>2. CASE pc[x] # "xferCommit"
    BY <1>1, <2>2 DEF TransferReads
  <2>. QED  BY <2>1, <2>2
<1>. QED  BY <1>5, <1>6, <1>7

\* Giving back the locks of t leaves those of the others.
LEMMA ReleasesOthers ==
  ASSUME TypeOK, NEW t \in Threads, EndRequest(t)
  PROVE  /\ \A x \in Threads \ {t} : pc'[x] = pc[x] /\ req'[x] = req[x] /\ seen'[x] = seen[x]
         /\ \A w \in WalletIds : walletLock[w] \notin {t, NoThread} =>
              walletLock'[w] = walletLock[w]
         /\ \A h \in HoldingIds : holdingLock[h] \notin {t, NoThread} =>
              holdingLock'[h] = holdingLock[h]
BY DEF TypeOK, EndRequest, ReleaseLocks, Releases

\* A rolled back request disturbs no row that another transaction holds.
LEMMA AbortUntouched ==
  ASSUME TypeOK, NEW t \in Threads, Abort(t)
  PROVE  Untouched(t)
BY ReleasesOthers DEF Untouched, Abort, tables

\* A commit writes only rows its transaction has locked, or rows nobody has.
LEMMA CommitUntouched ==
  ASSUME TypeOK, UnusedIds, NEW t \in Threads, RowsHeld(t),
         \/ BuyCommit(t) \/ SellCommit(t) \/ TransferCommit(t)
         \/ CreateInsert(t) \/ DeleteFlush(t)
  PROVE  Untouched(t)
<1>. USE DEF TradePcs, TransferPcs, RefreshPcs, DeletePcs
<1>. SUFFICES ASSUME ~Abort(t) PROVE Untouched(t)
  BY AbortUntouched
<1>0. EndRequest(t)
  BY DEF BuyCommit, SellCommit, TransferCommit, CreateInsert, DeleteFlush
<1>1. \A w \in WalletIds : walletLock[w] \notin {t, NoThread} /\ wallet[w] # NoRow
        => wallet'[w] = wallet[w]
  <2>. SUFFICES ASSUME NEW w \in WalletIds, walletLock[w] \notin {t, NoThread},
                       wallet[w] # NoRow
                PROVE  wallet'[w] = wallet[w]
    OBVIOUS
  <2>0. wallet \in [WalletIds -> Wallet \cup {NoRow}]
    BY DEF TypeOK
  <2>1. CASE BuyCommit(t)
    BY <2>0, <2>1 DEF BuyCommit, RowsHeld, HoldsWallet
  <2>2. CASE SellCommit(t)
    BY <2>0, <2>2 DEF SellCommit, RowsHeld, HoldsWallet
  <2>3. CASE TransferCommit(t)
    <3>1. pc[t] = "xferCommit"
      BY <2>3 DEF TransferCommit
    <3>2. w # req[t].from /\ w # req[t].to
      BY <3>1, RequestFields DEF RowsHeld, HoldsWallet
    <3>. QED  BY <2>0, <2>3, <3>2 DEF TransferCommit
  <2>4. CASE CreateInsert(t)
    BY <2>0, <2>4 DEF CreateInsert, UnusedIds, TypeOK
  <2>5. CASE DeleteFlush(t)
    BY <2>0, <2>5 DEF DeleteFlush, WalletFree
  <2>. QED  BY <2>1, <2>2, <2>3, <2>4, <2>5
<1>2. \A h \in HoldingIds : holdingLock[h] \notin {t, NoThread} /\ holding[h] # NoRow
        => holding'[h] = holding[h]
  <2>. SUFFICES ASSUME NEW h \in HoldingIds, holdingLock[h] \notin {t, NoThread},
                       holding[h] # NoRow
                PROVE  holding'[h] = holding[h]
    OBVIOUS
  <2>0. holding \in [HoldingIds -> Holding \cup {NoRow}]
    BY DEF TypeOK
  <2>1. CASE BuyCommit(t)
    BY <2>0, <2>1 DEF BuyCommit, Credited, RowsHeld, HoldsHolding
  <2>2. CASE SellCommit(t)
    BY <2>0, <2>2 DEF SellCommit, RowsHeld, HoldsHolding
  <2>3. CASE TransferCommit(t) \/ CreateInsert(t) \/ DeleteFlush(t)
    BY <2>3 DEF TransferCommit, CreateInsert, DeleteFlush
  <2>. QED  BY <2>1, <2>2, <2>3
<1>. QED  BY <1>0, <1>1, <1>2, ReleasesOthers DEF Untouched

\* A statement locks only rows nobody has locked, and writes none.
LEMMA StatementUntouched ==
  ASSUME TypeOK, NEW t \in Threads,
         \/ BuyLockWallet(t) \/ BuyLockHolding(t) \/ SellLockHolding(t) \/ SellLockWallet(t)
         \/ TransferLockFirst(t) \/ TransferLockSecond(t) \/ TransferFetchRates(t)
         \/ TransferReadFrom(t) \/ TransferReadTo(t)
         \/ TransferFlushFirst(t) \/ TransferFlushSecond(t) \/ DeleteLoad(t)
  PROVE  Untouched(t)
<1>. SUFFICES ASSUME ~Abort(t) PROVE Untouched(t)
  BY AbortUntouched
<1>1. UNCHANGED <<tables, req>>
  BY DEF BuyLockWallet, BuyLockHolding, SellLockHolding, SellLockWallet,
    TransferLockFirst, TransferLockSecond, TransferFetchRates, TransferReadFrom,
    TransferReadTo, TransferFlushFirst, TransferFlushSecond, TransferFlush, DeleteLoad, Continue
<1>2. \E l : pc' = [pc EXCEPT ![t] = l]
  BY DEF BuyLockWallet, BuyLockHolding, SellLockHolding, SellLockWallet,
    TransferLockFirst, TransferLockSecond, TransferFetchRates, TransferReadFrom,
    TransferReadTo, TransferFlushFirst, TransferFlushSecond, TransferFlush, DeleteLoad,
    Continue, Goto
<1>3. \A x \in Threads \ {t} : seen'[x] = seen[x]
  <2>1. seen \in [Threads -> Seen]
    BY DEF TypeOK
  <2>. QED  BY <2>1 DEF BuyLockWallet, BuyLockHolding, SellLockHolding, SellLockWallet,
    TransferLockFirst, TransferLockSecond, TransferFetchRates, TransferReadFrom,
    TransferReadTo, TransferFlushFirst, TransferFlushSecond, TransferFlush, DeleteLoad
<1>4. \A w \in WalletIds : walletLock[w] \notin {t, NoThread} => walletLock'[w] = walletLock[w]
  <2>1. walletLock \in [WalletIds -> Threads \cup {NoThread}]
    BY DEF TypeOK
  <2>. QED  BY <2>1 DEF BuyLockWallet, BuyLockHolding, SellLockHolding, SellLockWallet,
    TransferLockFirst, TransferLockSecond, TransferFetchRates, TransferReadFrom, WalletFree,
    TransferReadTo, TransferFlushFirst, TransferFlushSecond, TransferFlush, DeleteLoad, locks,
    ReleaseLocks, Releases
<1>5. \A h \in HoldingIds : holdingLock[h] \notin {t, NoThread} => holdingLock'[h] = holdingLock[h]
  <2>1. holdingLock \in [HoldingIds -> Threads \cup {NoThread}]
    BY DEF TypeOK
  <2>. QED  BY <2>1 DEF BuyLockWallet, BuyLockHolding, SellLockHolding, SellLockWallet,
    TransferLockFirst, TransferLockSecond, TransferFetchRates, TransferReadFrom, HoldingFree,
    TransferReadTo, TransferFlushFirst, TransferFlushSecond, TransferFlush, DeleteLoad, locks,
    ReleaseLocks, Releases
<1>. QED  BY <1>1, <1>2, <1>3, <1>4, <1>5 DEF Untouched, TypeOK, tables

\* A request that arrives disturbs no row that another transaction holds.
LEMMA ArriveUntouched ==
  ASSUME TypeOK, NEW t \in Threads, Arrive(t)
  PROVE  Untouched(t)
BY DEF Arrive, BuyBegin, SellBegin, TransferBegin, CreateBegin, DeleteBegin, Begin, Goto,
  TypeOK, Untouched, tables, locks
\* A thread that has just started or ended a request holds and knows nothing.
LEMMA EndReads ==
  ASSUME TypeOK, NEW t \in Threads, EndRequest(t)
  PROVE  RowsHeld(t)' /\ TradeReads(t)' /\ TransferReads(t)'
<1>1. pc'[t] = "idle"
  BY DEF TypeOK, EndRequest
<1>. QED  BY <1>1 DEF RowsHeld, TradeReads, TransferReads, RefreshPcs

\* A request that arrives has read nothing that could be stale.
LEMMA ArriveReads ==
  ASSUME TypeOK, NEW t \in Threads, Arrive(t)
  PROVE  RowsHeld(t)' /\ TradeReads(t)' /\ TransferReads(t)'
<1>1. CASE BuyBegin(t)
  <2>1. pc'[t] = "buyWallet" /\ seen'[t].row = NoRow
    BY <1>1 DEF BuyBegin, Begin, Goto, TypeOK, NothingSeen
  <2>. QED  BY <2>1 DEF RowsHeld, TradeReads, TransferReads, RefreshPcs
<1>2. CASE SellBegin(t) \/ TransferBegin(t) \/ CreateBegin(t) \/ DeleteBegin(t)
  <2>1. pc'[t] \in {"sellHolding", "xferFirst", "createInsert", "delLoad"}
    BY <1>2 DEF SellBegin, TransferBegin, CreateBegin, DeleteBegin, Begin, Goto, TypeOK
  <2>. QED  BY <2>1 DEF RowsHeld, TradeReads, TransferReads, RefreshPcs
<1>. QED  BY <1>1, <1>2 DEF Arrive

\* A statement of a trade locks what it reads, checks it, and keeps what it
\* had read before.
LEMMA TradeStatementReads ==
  ASSUME TypeOK, NEW t \in Threads, RowsHeld(t), TradeReads(t),
         \/ BuyLockWallet(t) \/ BuyLockHolding(t) \/ SellLockHolding(t) \/ SellLockWallet(t)
  PROVE  RowsHeld(t)' /\ TradeReads(t)' /\ TransferReads(t)'
<1>. SUFFICES ASSUME ~Abort(t) PROVE RowsHeld(t)' /\ TradeReads(t)' /\ TransferReads(t)'
  BY EndReads DEF Abort
<1>. USE DEF TradePcs, RefreshPcs
<1>0. /\ pc \in [Threads -> Pcs] /\ seen \in [Threads -> Seen]
      /\ walletLock \in [WalletIds -> Threads \cup {NoThread}]
      /\ holdingLock \in [HoldingIds -> Threads \cup {NoThread}]
  BY DEF TypeOK
<1>1. CASE BuyLockWallet(t)
  <2>1. /\ pc[t] = "buyWallet" /\ pc'[t] = "buyHolding" /\ req' = req /\ wallet' = wallet
        /\ wallet[req[t].wallet] # NoRow /\ walletLock' = [walletLock EXCEPT ![req[t].wallet] = t]
        /\ seen' = [seen EXCEPT ![t].bal = wallet[req[t].wallet].bal]
        /\ wallet[req[t].wallet].bal >= seen[t].value
    BY <1>0, <1>1 DEF BuyLockWallet, OwnedBy, Affords, Continue, Goto, tables
  <2>2. walletLock'[req[t].wallet] = t
    BY <1>0, <2>1, RequestFields
  <2>3. /\ seen'[t].bal = wallet[req[t].wallet].bal /\ seen'[t].value = seen[t].value
        /\ seen'[t].row = seen[t].row
    BY <1>0, <2>1 DEF Seen
  <2>. QED  BY <2>1, <2>2, <2>3 DEF RowsHeld, TradeReads, TransferReads, HoldsWallet
<1>2. CASE BuyLockHolding(t)
  <2>1. /\ pc[t] = "buyHolding" /\ pc'[t] = "buyCommit" /\ UNCHANGED <<req, wallet, holding, walletLock>>
    BY <1>0, <1>2 DEF BuyLockHolding, Continue, Goto, tables
  <2>2. CASE UNCHANGED <<holdingLock, seen>>
    BY <2>1, <2>2 DEF RowsHeld, TradeReads, TransferReads, HoldsWallet
  <2>3. CASE \E h \in Holdings(req[t].user, req[t].sym) :
               /\ holdingLock' = [holdingLock EXCEPT ![h] = t]
               /\ seen' = [seen EXCEPT ![t].row = h, ![t].have = holding[h].qty]
    <3>1. PICK h \in HoldingIds :
            /\ holding[h] # NoRow
            /\ holdingLock' = [holdingLock EXCEPT ![h] = t]
            /\ seen' = [seen EXCEPT ![t].row = h, ![t].have = holding[h].qty]
      BY <2>3 DEF Holdings
    <3>2. holdingLock'[h] = t
      BY <1>0, <3>1
    <3>3. /\ seen'[t].row = h /\ seen'[t].have = holding[h].qty
          /\ seen'[t].bal = seen[t].bal /\ seen'[t].value = seen[t].value
      BY <1>0, <3>1 DEF Seen
    <3>. QED  BY <2>1, <3>1, <3>2, <3>3
                 DEF RowsHeld, TradeReads, TransferReads, HoldsWallet, HoldsHolding
  <2>. QED  BY <1>2, <2>2, <2>3 DEF BuyLockHolding
<1>3. CASE SellLockHolding(t)
  <2>1. PICK h \in HoldingIds :
          /\ holding[h] # NoRow /\ holding[h].qty >= req[t].qty
          /\ SellProceeds(price[req[t].sym], req[t].qty) > 0
          /\ holdingLock' = [holdingLock EXCEPT ![h] = t]
          /\ seen' = [seen EXCEPT ![t].row = h, ![t].have = holding[h].qty,
                                  ![t].value = SellProceeds(price[req[t].sym], req[t].qty)]
    BY <1>3 DEF SellLockHolding, HoldsEnough, Holdings
  <2>2. pc'[t] = "sellWallet" /\ UNCHANGED <<req, wallet, holding>>
    BY <1>0, <1>3 DEF SellLockHolding, Continue, Goto, tables
  <2>3. holdingLock'[h] = t
    BY <1>0, <2>1
  <2>4. seen'[t].row = h /\ seen'[t].have = holding[h].qty /\ seen'[t].value > 0
    <3>. DEFINE v == SellProceeds(price[req[t].sym], req[t].qty)
    <3>1. seen' = [seen EXCEPT ![t].row = h, ![t].have = holding[h].qty, ![t].value = v] /\ v > 0
      BY <2>1
    <3>. HIDE DEF v
    <3>. QED  BY <1>0, <3>1 DEF Seen
  <2>. QED  BY <2>1, <2>2, <2>3, <2>4 DEF RowsHeld, TradeReads, TransferReads, HoldsHolding
<1>4. CASE SellLockWallet(t)
  <2>1. /\ pc[t] = "sellWallet" /\ pc'[t] = "sellCommit"
        /\ UNCHANGED <<req, wallet, holding, holdingLock>>
        /\ wallet[req[t].wallet] # NoRow /\ walletLock' = [walletLock EXCEPT ![req[t].wallet] = t]
        /\ seen' = [seen EXCEPT ![t].bal = wallet[req[t].wallet].bal]
    BY <1>0, <1>4 DEF SellLockWallet, OwnedBy, Continue, Goto, tables
  <2>2. walletLock'[req[t].wallet] = t
    BY <1>0, <2>1, RequestFields
  <2>3. /\ seen'[t].bal = wallet[req[t].wallet].bal /\ seen'[t].value = seen[t].value
        /\ seen'[t].row = seen[t].row /\ seen'[t].have = seen[t].have
    BY <1>0, <2>1 DEF Seen
  <2>. QED  BY <2>1, <2>2, <2>3
              DEF RowsHeld, TradeReads, TransferReads, HoldsWallet, HoldsHolding
<1>. QED  BY <1>1, <1>2, <1>3, <1>4

\* The same of a transfer or a delete; while the rates stay fresh, a transfer
\* reaches its commit with both wallets locked since they were read.
LEMMA TransferStatementReads ==
  ASSUME TypeOK, NEW t \in Threads, RowsHeld(t), ~RatesExpire => rateFresh /\ TransferReads(t),
         \/ TransferLockFirst(t) \/ TransferLockSecond(t) \/ TransferFetchRates(t)
         \/ TransferReadFrom(t) \/ TransferReadTo(t)
         \/ TransferFlushFirst(t) \/ TransferFlushSecond(t) \/ DeleteLoad(t)
  PROVE  RowsHeld(t)' /\ TradeReads(t)' /\ (~RatesExpire => TransferReads(t)')
<1>. DEFINE Goal == RowsHeld(t)' /\ TradeReads(t)' /\ (~RatesExpire => TransferReads(t)')
<1>. SUFFICES ASSUME ~Abort(t) PROVE Goal
  BY EndReads DEF Abort
<1>. USE DEF TransferPcs, RefreshPcs
<1>0. /\ pc \in [Threads -> Pcs] /\ seen \in [Threads -> Seen]
      /\ walletLock \in [WalletIds -> Threads \cup {NoThread}]
  BY DEF TypeOK
<1>1. CASE TransferLockFirst(t)
  <2>1. /\ pc[t] = "xferFirst" /\ pc'[t] = "xferSecond" /\ UNCHANGED <<req, wallet>>
        /\ wallet[First(req[t])] # NoRow /\ walletLock' = [walletLock EXCEPT ![First(req[t])] = t]
    BY <1>0, <1>1 DEF TransferLockFirst, Continue, Goto, tables
  <2>2. walletLock'[First(req[t])] = t /\ First(req[t])' = First(req[t])
    BY <1>0, <2>1, RequestFields DEF First, AscendingIds
  <2>. QED  BY <2>1, <2>2 DEF RowsHeld, TradeReads, TransferReads, HoldsWallet
<1>2. CASE TransferLockSecond(t)
  <2>. DEFINE r == req[t]
  <2>1. /\ pc[t] = "xferSecond" /\ UNCHANGED <<req, wallet>>
        /\ walletLock' = [walletLock EXCEPT ![Second(r)] = t]
        /\ wallet[r.from] # NoRow /\ wallet[r.to] # NoRow
    BY <1>2 DEF TransferLockSecond, CallerOwnsBoth, OwnedBy, Continue, tables
  <2>2. /\ HoldsWallet(t, First(r))' /\ HoldsWallet(t, Second(r))'
        /\ First(req[t])' = First(r) /\ Second(req[t])' = Second(r)
    BY <1>0, <2>1, RequestFields DEF First, Second, AscendingIds, RowsHeld, HoldsWallet
  <2>3. CASE pc'[t] = "xferFetch"
    <3>1. RatesExpire
      BY <1>2, <2>3, <1>0 DEF TransferLockSecond, Continue, Goto
    <3>. QED  BY <2>3, <3>1 DEF RowsHeld, TradeReads
  <2>4. CASE pc'[t] # "xferFetch"
    <3>. DEFINE v == Credit(r)
    <3>1. /\ pc'[t] = "xferCommit" /\ Covers(r.from, r.amt)
          /\ seen' = [seen EXCEPT ![t].bal = wallet[r.from].bal,
                                  ![t].bal2 = wallet[r.to].bal, ![t].value = v]
      BY <1>0, <1>2, <2>4 DEF TransferLockSecond, Continue, Goto
    <3>2. v \in Int /\ v >= 0
      <4>1. CASE SameCurrency(r)
        <5>1. r.amt \in Nat
          BY <2>1, RequestFields
        <5>2. Quantized(r.amt) \in Nat
          BY <5>1, AmountScaleAssumption, HalfUpNat DEF Quantized
        <5>. QED  BY <4>1, <5>2 DEF Credit
      <4>2. CASE ~SameCurrency(r)
        <5>1. v > 0
          BY <1>0, <1>2, <2>4, <4>2 DEF TransferLockSecond, Continue, Goto
        <5>2. v \in Int
          <6>1. wallet[r.from].cur \in Currencies /\ r.amt \in Amounts
            BY <2>1, RequestFields DEF TypeOK, Wallet
          <6>. QED  BY <4>2, <6>1, ConvertedInt DEF Credit
        <5>. QED  BY <5>1, <5>2
      <4>. QED  BY <4>1, <4>2
    <3>. HIDE DEF v
    <3>3. /\ seen'[t].bal = wallet[r.from].bal /\ seen'[t].bal2 = wallet[r.to].bal
          /\ seen'[t].value = v
      BY <1>0, <3>1 DEF Seen
    <3>4. Covers(req[t].from, req[t].amt)'
      BY <2>1, <3>1 DEF Covers
    <3>. QED  BY <2>1, <2>2, <3>1, <3>2, <3>3, <3>4 DEF RowsHeld, TradeReads, TransferReads
  <2>. QED  BY <2>3, <2>4
<1>3. CASE TransferFetchRates(t)
  <2>1. pc[t] = "xferFetch" /\ pc'[t] = "xferReadFrom"
    BY <1>0, <1>3 DEF TransferFetchRates, Goto
  <2>. QED  BY <2>1 DEF RowsHeld, TradeReads, TransferReads
<1>4. CASE TransferReadFrom(t)
  <2>1. pc[t] = "xferReadFrom" /\ pc'[t] = "xferReadTo"
    BY <1>0, <1>4 DEF TransferReadFrom, Continue, Goto
  <2>. QED  BY <2>1 DEF RowsHeld, TradeReads, TransferReads
<1>5. CASE TransferReadTo(t)
  <2>1. pc[t] = "xferReadTo" /\ pc'[t] = "xferFlushFirst"
    BY <1>0, <1>5 DEF TransferReadTo, Continue, Goto
  <2>. QED  BY <2>1 DEF RowsHeld, TradeReads, TransferReads
<1>6. CASE TransferFlushFirst(t)
  <2>1. /\ pc[t] = "xferFlushFirst" /\ pc'[t] = "xferFlushSecond" /\ UNCHANGED <<req, wallet>>
        /\ wallet[First(req[t])] # NoRow /\ walletLock' = [walletLock EXCEPT ![First(req[t])] = t]
    BY <1>0, <1>6 DEF TransferFlushFirst, TransferFlush, Continue, Goto, tables
  <2>2. walletLock'[First(req[t])] = t /\ First(req[t])' = First(req[t])
    BY <1>0, <2>1, RequestFields DEF First, AscendingIds
  <2>. QED  BY <2>1, <2>2 DEF RowsHeld, TradeReads, TransferReads, HoldsWallet
<1>7. CASE TransferFlushSecond(t)
  <2>1. /\ pc[t] = "xferFlushSecond" /\ pc'[t] = "xferCommit" /\ UNCHANGED <<req, wallet>>
        /\ wallet[Second(req[t])] # NoRow /\ walletLock' = [walletLock EXCEPT ![Second(req[t])] = t]
    BY <1>0, <1>7 DEF TransferFlushSecond, TransferFlush, Continue, Goto, tables
  <2>2. /\ HoldsWallet(t, First(req[t]))' /\ HoldsWallet(t, Second(req[t]))'
        /\ First(req[t])' = First(req[t]) /\ Second(req[t])' = Second(req[t])
    BY <1>0, <2>1, RequestFields DEF First, Second, AscendingIds, RowsHeld, HoldsWallet
  <2>. QED  BY <2>1, <2>2 DEF RowsHeld, TradeReads, TransferReads
<1>8. CASE DeleteLoad(t)
  <2>1. pc'[t] = "delFlush"
    BY <1>0, <1>8 DEF DeleteLoad, Continue, Goto
  <2>. QED  BY <2>1 DEF RowsHeld, TradeReads, TransferReads
<1>. QED  BY <1>1, <1>2, <1>3, <1>4, <1>5, <1>6, <1>7, <1>8
-----------------------------------------------------------------------------
(* The inductive invariant *)

\* The inductive invariant holds at the start.
LEMMA InitIInv == Init => IInv
<1>. SUFFICES ASSUME Init PROVE IInv
  OBVIOUS
<1>. USE DEF Init
<1>1. PICK n \in 0 .. MaxWallets : Opening \in [1 .. n -> Wallet]
  BY OpeningAssumption
<1>2. n \in Nat /\ DOMAIN Opening = 1 .. n /\ nextId = n + 1
  <2>1. n \in Nat /\ n \in Int /\ 1 \in Int
    BY <1>1, NumberAssumption
  <2>2. DOMAIN Opening = 1 .. n
    BY <1>1
  <2>3. Cardinality(1 .. n) = n
    BY <2>1, FS_Interval
  <2>. QED  BY <2>1, <2>2, <2>3
<1>3. NothingSeen \in Seen
  BY DEF NothingSeen, Seen
<1>4. rateFresh \in BOOLEAN /\ (~RatesExpire => rateFresh)
  BY RateAssumption
<1>5. wallet \in [WalletIds -> Wallet \cup {NoRow}]
  BY <1>1, <1>2
<1>6. \A t \in Threads : pc[t] = "idle"
  OBVIOUS
<1>7. TypeOK
  BY <1>2, <1>3, <1>4, <1>5, <1>6 DEF TypeOK, ReqOK, Pcs, TradePcs, TransferPcs, RefreshPcs,
    DeletePcs, CreatePcs
<1>8. UnusedIds
  BY <1>2, NumberAssumption DEF UnusedIds, WalletIds
<1>9. LockedReadsCurrent
  BY <1>6 DEF LockedReadsCurrent, RowsHeld, TradeReads, TransferReads, RefreshPcs
<1>. QED  BY <1>4, <1>7, <1>8, <1>9 DEF IInv

\* The sequence of wallet ids moves on past every id that is given out.
LEMMA StepUnused ==
  ASSUME IInv, NEW t \in Threads, Arrive(t) \/ Advance(t) \/ Abort(t)
  PROVE  UnusedIds'
<1>. USE DEF IInv
<1>1. CASE UNCHANGED tables
  BY <1>1 DEF UnusedIds, tables
<1>2. CASE BuyCommit(t) \/ SellCommit(t)
  <2>1. /\ nextId' = nextId /\ wallet[req[t].wallet] # NoRow /\ req[t].wallet \in WalletIds
        /\ \A w \in WalletIds \ {req[t].wallet} :
             wallet'[w] = wallet[w] /\ posted'[w] = posted[w] /\ ties'[w] = ties[w]
    <3>1. /\ pc[t] \in {"buyCommit", "sellCommit"} /\ nextId' = nextId
          /\ \A w \in WalletIds \ {req[t].wallet} :
             wallet'[w] = wallet[w] /\ posted'[w] = posted[w] /\ ties'[w] = ties[w]
      BY <1>2 DEF BuyCommit, SellCommit, Log, TypeOK
    <3>2. req[t].wallet \in WalletIds
      BY <3>1, RequestFields DEF TradePcs
    <3>3. wallet[req[t].wallet] # NoRow
      BY <3>1 DEF LockedReadsCurrent, RowsHeld, HoldsWallet
    <3>. QED  BY <3>1, <3>2, <3>3
  <2>. QED  BY <2>1 DEF UnusedIds
<1>3. CASE TransferCommit(t)
  <2>1. /\ nextId' = nextId /\ wallet[req[t].from] # NoRow /\ wallet[req[t].to] # NoRow
        /\ req[t].from \in WalletIds /\ req[t].to \in WalletIds
    <3>1. pc[t] = "xferCommit" /\ nextId' = nextId
      BY <1>3 DEF TransferCommit
    <3>2. /\ req[t].from \in WalletIds /\ req[t].to \in WalletIds
          /\ {First(req[t]), Second(req[t])} = {req[t].from, req[t].to}
      BY <3>1, RequestFields DEF TransferPcs
    <3>3. wallet[First(req[t])] # NoRow /\ wallet[Second(req[t])] # NoRow
      BY <3>1 DEF LockedReadsCurrent, RowsHeld, HoldsWallet
    <3>. QED  BY <3>1, <3>2, <3>3
  <2>2. \A w \in WalletIds \ {req[t].from, req[t].to} :
          wallet'[w] = wallet[w] /\ posted'[w] = posted[w] /\ ties'[w] = ties[w]
    BY <1>3 DEF TransferCommit, TypeOK
  <2>. QED  BY <2>1, <2>2 DEF UnusedIds
<1>4. CASE CreateInsert(t)
  <2>1. /\ nextId' = nextId + 1 /\ posted' = posted /\ ties' = ties /\ nextId \in Nat
        /\ \A w \in WalletIds \ {nextId} : wallet'[w] = wallet[w]
    BY <1>4 DEF CreateInsert, TypeOK
  <2>. QED  BY <2>1 DEF UnusedIds, WalletIds
<1>5. CASE DeleteFlush(t) /\ ~Abort(t)
  <2>1. /\ nextId' = nextId
        /\ \A w \in WalletIds : /\ wallet'[w] = wallet[w] \/ wallet'[w] = NoRow
                                /\ posted'[w] = posted[w] \/ posted'[w] = 0
                                /\ ties'[w] = ties[w] \/ ties'[w] = 0
    BY <1>5 DEF DeleteFlush, TypeOK
  <2>. QED  BY <2>1 DEF UnusedIds
<1>6. CASE Abort(t)
  BY <1>1, <1>6 DEF Abort
<1>7. CASE Arrive(t)
  BY <1>1, <1>7 DEF Arrive, BuyBegin, SellBegin, TransferBegin, CreateBegin, DeleteBegin, Begin
<1>8. CASE /\ ~Abort(t)
           /\ \/ BuyLockWallet(t) \/ BuyLockHolding(t) \/ SellLockHolding(t) \/ SellLockWallet(t)
              \/ TransferLockFirst(t) \/ TransferLockSecond(t) \/ TransferFetchRates(t)
              \/ TransferReadFrom(t) \/ TransferReadTo(t)
              \/ TransferFlushFirst(t) \/ TransferFlushSecond(t) \/ DeleteLoad(t)
  <2>1. UNCHANGED tables
    BY <1>8 DEF BuyLockWallet, BuyLockHolding, SellLockHolding, SellLockWallet,
      TransferLockFirst, TransferLockSecond, TransferFetchRates, TransferReadFrom,
      TransferReadTo, TransferFlushFirst, TransferFlushSecond, TransferFlush, DeleteLoad, Continue
  <2>. QED  BY <1>1, <2>1
<1>. QED
  BY <1>2, <1>3, <1>4, <1>5, <1>6, <1>7, <1>8 DEF Advance

\* Rates that never expire stay fresh.
LEMMA StepFresh ==
  ASSUME IInv, NEW t \in Threads, Arrive(t) \/ Advance(t) \/ Abort(t)
  PROVE  ~RatesExpire => rateFresh'
BY DEF IInv, Arrive, BuyBegin, SellBegin, TransferBegin, CreateBegin, DeleteBegin, Begin,
  Advance, BuyLockWallet, BuyLockHolding, BuyCommit, SellLockHolding, SellLockWallet, SellCommit,
  TransferLockFirst, TransferLockSecond, TransferFetchRates, TransferReadFrom, TransferReadTo,
  TransferFlushFirst, TransferFlushSecond, TransferFlush, TransferCommit, CreateInsert,
  DeleteLoad, DeleteFlush, Continue, EndRequest, Abort, market

\* A step of one thread keeps the types, and what every thread holds and has read.
LEMMA ThreadStep ==
  ASSUME IInv, NEW t \in Threads, Arrive(t) \/ Advance(t) \/ Abort(t)
  PROVE  IInv'
<1>. USE DEF IInv
<1>1. RowsHeld(t) /\ TradeReads(t) /\ (~RatesExpire => rateFresh /\ TransferReads(t))
  BY DEF LockedReadsCurrent
<1>2. TypeOK'
  BY <1>1, ArriveType, AbortType, CommitType, StatementType DEF Advance
<1>3. Untouched(t)
  BY <1>1, ArriveUntouched, AbortUntouched, CommitUntouched, StatementUntouched DEF Advance
<1>4. RowsHeld(t)' /\ TradeReads(t)' /\ (~RatesExpire => TransferReads(t)')
  <2>1. CASE EndRequest(t)
    BY <2>1, EndReads
  <2>2. CASE Abort(t) \/ BuyCommit(t) \/ SellCommit(t) \/ TransferCommit(t)
             \/ CreateInsert(t) \/ DeleteFlush(t)
    BY <2>1, <2>2 DEF Abort, BuyCommit, SellCommit, TransferCommit, CreateInsert, DeleteFlush
  <2>. QED
    BY <1>1, <2>2, ArriveReads, TradeStatementReads, TransferStatementReads DEF Advance
<1>5. \A x \in Threads : RowsHeld(x)' /\ TradeReads(x)' /\ (~RatesExpire => TransferReads(x)')
  <2>. SUFFICES ASSUME NEW x \in Threads
                PROVE  RowsHeld(x)' /\ TradeReads(x)' /\ (~RatesExpire => TransferReads(x)')
    OBVIOUS
  <2>1. RowsHeld(x) /\ TradeReads(x) /\ (~RatesExpire => TransferReads(x))
    BY DEF LockedReadsCurrent
  <2>. QED  BY <1>3, <1>4, <2>1, OthersKeep
<1>. QED  BY <1>2, <1>5, StepUnused, StepFresh DEF LockedReadsCurrent

\* Price ticks and the clock touch nothing that a transaction holds.
LEMMA MarketStep ==
  ASSUME IInv, PriceTick \/ RateExpires \/ UNCHANGED vars
  PROVE  IInv'
<1>. USE DEF IInv
<1>1. UNCHANGED <<tables, locks, pc, req, seen, served>>
  BY DEF PriceTick, RateExpires, vars
<1>2. price' \in [Symbols -> Prices] /\ rateFresh' \in BOOLEAN /\ (~RatesExpire => rateFresh')
  BY DEF PriceTick, RateExpires, vars, market, TypeOK
<1>3. TypeOK'
  BY <1>1, <1>2 DEF TypeOK, ReqOK, tables, locks
<1>4. LockedReadsCurrent'
  BY <1>1 DEF LockedReadsCurrent, RowsHeld, TradeReads, TransferReads, HoldsWallet, HoldsHolding,
    Covers, tables, locks, First, Second, AscendingIds
<1>. QED  BY <1>1, <1>2, <1>3, <1>4 DEF UnusedIds, tables

\* Every step keeps the inductive invariant.
LEMMA StepIInv == IInv /\ [Next]_vars => IInv'
<1>. SUFFICES ASSUME IInv, [Next]_vars PROVE IInv'
  OBVIOUS
<1>1. CASE PriceTick \/ RateExpires \/ UNCHANGED vars
  BY <1>1, MarketStep
<1>2. ASSUME NEW t \in Threads, Arrive(t) \/ Advance(t) \/ Fail(t) \/ DeadlockVictim(t)
      PROVE  IInv'
  BY <1>2, ThreadStep DEF Fail, DeadlockVictim
<1>. QED  BY <1>1, <1>2 DEF Next

\* The inductive invariant holds of every reachable state: types, unused ids,
\* rows held by those who locked them, and current reads.
THEOREM Invariance == Spec => []IInv
<1>1. Init => IInv
  BY InitIInv
<1>2. IInv /\ [Next]_vars => IInv'
  BY StepIInv
<1>. QED  BY <1>1, <1>2, PTL DEF Spec

\* Every table, lock and register always holds a value of its type.
THEOREM TypeCorrect == Spec => []TypeOK
<1>1. IInv => TypeOK
  BY DEF IInv
<1>. QED  BY <1>1, Invariance, PTL

\* Between its locks and its commit no trade acts on a stale read, and no
\* transfer does while the cached rates stay fresh.
THEOREM ReadsStayCurrent == Spec => []LockedReadsCurrent
<1>1. IInv => LockedReadsCurrent
  BY DEF IInv
<1>. QED  BY <1>1, Invariance, PTL
-----------------------------------------------------------------------------
(* Holdings and balances *)

\* A step that is not a commit writes no table.
LEMMA OnlyCommitsWrite ==
  ASSUME NEW t \in Threads, Arrive(t) \/ Advance(t) \/ Abort(t),
         ~(BuyCommit(t) \/ SellCommit(t) \/ TransferCommit(t) \/ CreateInsert(t) \/ DeleteFlush(t))
  PROVE  UNCHANGED tables
<1>1. CASE Abort(t)
  BY <1>1 DEF Abort
<1>2. CASE Arrive(t)
  BY <1>2 DEF Arrive, BuyBegin, SellBegin, TransferBegin, CreateBegin, DeleteBegin, Begin
<1>3. CASE ~Abort(t) /\ Advance(t)
  BY <1>3 DEF Advance, BuyLockWallet, BuyLockHolding, SellLockHolding, SellLockWallet,
    TransferLockFirst, TransferLockSecond, TransferFetchRates, TransferReadFrom,
    TransferReadTo, TransferFlushFirst, TransferFlushSecond, TransferFlush, DeleteLoad, Continue
<1>. QED  BY <1>1, <1>2, <1>3

\* A step leaves a holding alone, sets it to a positive quantity or deletes it.
LEMMA HoldingStep ==
  ASSUME IInv, NoOversell, NEW t \in Threads, Arrive(t) \/ Advance(t) \/ Abort(t)
  PROVE  NoOversell'
<1>. USE DEF IInv, TradePcs
<1>0. /\ holding \in [HoldingIds -> Holding \cup {NoRow}]
      /\ RowsHeld(t) /\ TradeReads(t)
  BY DEF TypeOK, LockedReadsCurrent
<1>1. CASE holding' = holding
  BY <1>1 DEF NoOversell
<1>2. CASE BuyCommit(t)
  <2>1. pc[t] = "buyCommit" /\ Credited(t, req[t].qty) /\ req[t].qty \in Int /\ req[t].qty > 0
    BY <1>2, RequestFields, InputsInt DEF BuyCommit
  <2>2. CASE seen[t].row # NoRow
    <3>. DEFINE q == seen[t].have + req[t].qty
    <3>1. /\ seen[t].row \in HoldingIds /\ holding[seen[t].row] # NoRow
          /\ seen[t].have = holding[seen[t].row].qty /\ seen[t].have \in Int
      BY <1>0, <2>1, <2>2, RequestFields DEF RowsHeld, TradeReads, HoldsHolding
    <3>2. q \in Int /\ q > 0
      BY <2>1, <3>1 DEF NoOversell
    <3>3. holding' = [holding EXCEPT ![seen[t].row].qty = q]
      BY <2>1, <2>2 DEF Credited
    <3>. HIDE DEF q
    <3>. QED  BY <1>0, <3>1, <3>2, <3>3 DEF NoOversell, Holding
  <2>3. CASE seen[t].row = NoRow
    <3>. DEFINE r == [owner |-> req[t].user, sym |-> req[t].sym, qty |-> req[t].qty]
    <3>1. PICK h \in HoldingIds : holding' = [holding EXCEPT ![h] = r]
      BY <2>1, <2>3 DEF Credited
    <3>2. r.qty > 0
      BY <2>1
    <3>. HIDE DEF r
    <3>. QED  BY <1>0, <3>1, <3>2 DEF NoOversell
  <2>. QED  BY <2>2, <2>3
<1>3. CASE SellCommit(t)
  <2>. DEFINE left == seen[t].have - req[t].qty  row == seen[t].row
  <2>1. pc[t] = "sellCommit" /\ left \in Int /\ left >= 0 /\ row \in HoldingIds
        /\ holding[row] \in Holding
    BY <1>0, <1>3, RequestFields DEF SellCommit, RowsHeld, TradeReads, HoldsHolding
  <2>2. holding' = [holding EXCEPT ![row] = IF left = 0 THEN NoRow
                                          ELSE [holding[row] EXCEPT !.qty = left]]
    BY <1>3 DEF SellCommit
  <2>. HIDE DEF left, row
  <2>. QED  BY <1>0, <2>1, <2>2 DEF NoOversell, Holding
<1>4. CASE TransferCommit(t) \/ CreateInsert(t) \/ DeleteFlush(t)
  BY <1>1, <1>4 DEF TransferCommit, CreateInsert, DeleteFlush, Abort, tables
<1>. QED  BY <1>1, <1>2, <1>3, <1>4, OnlyCommitsWrite DEF tables

\* No holding is ever oversold, and one that is sold out leaves no row.
THEOREM NeverOversold == Spec => []NoOversell
<1>1. Init => NoOversell
  BY DEF Init, NoOversell
<1>2. IInv /\ NoOversell /\ [Next]_vars => NoOversell'
  <2>. SUFFICES ASSUME IInv, NoOversell, [Next]_vars PROVE NoOversell'
    OBVIOUS
  <2>1. CASE PriceTick \/ RateExpires \/ UNCHANGED vars
    BY <2>1 DEF PriceTick, RateExpires, vars, tables, NoOversell
  <2>2. ASSUME NEW t \in Threads, Arrive(t) \/ Advance(t) \/ Fail(t) \/ DeadlockVictim(t)
        PROVE  NoOversell'
    BY <2>2, HoldingStep DEF Fail, DeadlockVictim
  <2>. QED  BY <2>1, <2>2 DEF Next
<1>. QED  BY <1>1, <1>2, Invariance, PTL DEF Spec
\* While the rates stay fresh, what a commit adds to a balance is what it logs,
\* and one unit for a tie, and the balance was checked to bear it.
LEMMA BalanceStep ==
  ASSUME ~RatesExpire, IInv, NoOverdraft, LedgerReconciles,
         NEW t \in Threads, Arrive(t) \/ Advance(t) \/ Abort(t)
  PROVE  NoOverdraft' /\ LedgerReconciles'
<1>. USE DEF IInv, TradePcs, TransferPcs
<1>0. /\ wallet \in [WalletIds -> Wallet \cup {NoRow}] /\ posted \in [WalletIds -> Int]
      /\ ties \in [WalletIds -> Nat]
      /\ RowsHeld(t) /\ TradeReads(t) /\ TransferReads(t)
  BY DEF TypeOK, LockedReadsCurrent
\* One wallet's balance and log move by the same d, and every other row stays.
<1>m. ASSUME NEW w \in WalletIds, wallet[w] # NoRow, NEW d \in Int, wallet[w].bal + d >= 0,
             wallet' = [wallet EXCEPT ![w].bal = wallet[w].bal + d],
             posted' = [posted EXCEPT ![w] = posted[w] + d], ties' = ties
      PROVE  NoOverdraft' /\ LedgerReconciles'
  <2>1. \A v \in WalletIds : v # w => wallet'[v] = wallet[v] /\ posted'[v] = posted[v]
    BY <1>0, <1>m
  <2>2. wallet'[w].bal = wallet[w].bal + d /\ posted'[w] = posted[w] + d
    BY <1>0, <1>m DEF Wallet
  <2>3. wallet'[w].bal >= 0
    BY <1>m, <2>2
  <2>4. /\ OpeningBalance(w) \in Int /\ posted[w] \in Int /\ ties[w] \in Int
        /\ wallet[w].bal = OpeningBalance(w) + posted[w] + ties[w]
    <3>1. OpeningBalance(w) \in Int
      <4>1. w \in DOMAIN Opening => Opening[w] \in Wallet
        BY OpeningAssumption
      <4>. QED  BY <4>1 DEF OpeningBalance, Wallet
    <3>. QED  BY <1>0, <1>m, <3>1 DEF LedgerReconciles
  <2>5. wallet'[w].bal = OpeningBalance(w) + posted'[w] + ties'[w]
    BY <1>m, <2>2, <2>4
  <2>. QED  BY <1>m, <2>1, <2>3, <2>5 DEF NoOverdraft, LedgerReconciles, OpeningBalance
<1>1. CASE UNCHANGED tables
  BY <1>1 DEF NoOverdraft, LedgerReconciles, OpeningBalance, tables
<1>2. CASE BuyCommit(t)
  <2>1. /\ pc[t] = "buyCommit" /\ req[t].wallet \in WalletIds /\ wallet[req[t].wallet] # NoRow
        /\ seen[t].bal = wallet[req[t].wallet].bal /\ seen[t].bal >= seen[t].value
        /\ seen[t].bal \in Int /\ seen[t].value \in Int
    BY <1>0, <1>2, RequestFields DEF BuyCommit, RowsHeld, TradeReads, HoldsWallet
  <2>. DEFINE d == -seen[t].value
  <2>2. d \in Int /\ wallet[req[t].wallet].bal + d = seen[t].bal - seen[t].value
        /\ wallet[req[t].wallet].bal + d >= 0
    BY <2>1
  <2>3. wallet' = [wallet EXCEPT ![req[t].wallet].bal = wallet[req[t].wallet].bal + d]
    BY <1>2, <2>2 DEF BuyCommit
  <2>4. posted' = [posted EXCEPT ![req[t].wallet] = posted[req[t].wallet] + d] /\ ties' = ties
    BY <1>2 DEF BuyCommit, Log
  <2>. HIDE DEF d
  <2>. QED  BY <1>m, <2>1, <2>2, <2>3, <2>4
<1>3. CASE SellCommit(t)
  <2>1. /\ pc[t] = "sellCommit" /\ req[t].wallet \in WalletIds /\ wallet[req[t].wallet] # NoRow
        /\ seen[t].bal = wallet[req[t].wallet].bal /\ seen[t].value > 0
        /\ seen[t].bal \in Int /\ seen[t].value \in Int
    BY <1>0, <1>3, RequestFields DEF SellCommit, RowsHeld, TradeReads, HoldsWallet
  <2>2. wallet[req[t].wallet].bal + seen[t].value >= 0
    BY <2>1 DEF NoOverdraft
  <2>3. wallet' = [wallet EXCEPT ![req[t].wallet].bal = wallet[req[t].wallet].bal + seen[t].value]
    BY <1>3, <2>1 DEF SellCommit
  <2>4. /\ posted' = [posted EXCEPT ![req[t].wallet] = posted[req[t].wallet] + seen[t].value]
        /\ ties' = ties
    BY <1>3 DEF SellCommit, Log
  <2>. QED  BY <1>m, <2>1, <2>2, <2>3, <2>4
<1>4. CASE TransferCommit(t)
  <2>. DEFINE f == req[t].from  g == req[t].to  a == req[t].amt  v == seen[t].value
  <2>1. /\ pc[t] = "xferCommit" /\ f \in WalletIds /\ g \in WalletIds /\ f # g
        /\ wallet[f] # NoRow /\ wallet[g] # NoRow /\ a \in Int /\ v \in Int
    BY <1>4, RequestFields, <1>0 DEF TransferCommit, RowsHeld, HoldsWallet
  <2>2. /\ seen[t].bal = wallet[f].bal /\ wallet[f].bal * AmountScale >= a /\ a \in Nat \ {0}
        /\ v >= 0 /\ seen[t].bal2 = wallet[g].bal
        /\ seen[t].bal \in Int /\ seen[t].bal2 \in Int
    BY <1>0, <2>1, RequestFields DEF TransferReads, Covers
  <2>. DEFINE b == wallet[f].bal
              left == Debited(b, a)
              out == Column(-a)
              tie == IF Tie(a) THEN 1 ELSE 0
  <2>3. b \in Int /\ out \in Int /\ tie \in Nat /\ left \in Nat /\ left = b + out + tie
    <3>1. b \in Int /\ a \in Nat \ {0} /\ a \in Int /\ b * AmountScale >= a
      BY <2>2
    <3>. HIDE DEF b, a
    <3>2. out \in Int
      BY <3>1, DebitedInt
    <3>3. left \in Nat /\ left = b + out + tie
      BY <3>1, DebitedWhenCovered
    <3>. QED  BY <3>1, <3>2, <3>3
  <2>4. /\ wallet'[f].bal = left /\ wallet'[g].bal = wallet[g].bal + v
        /\ posted'[f] = posted[f] + out /\ posted'[g] = posted[g] + v
        /\ ties'[f] = ties[f] + tie /\ ties'[g] = ties[g]
        /\ \A w \in WalletIds \ {f, g} :
             wallet'[w] = wallet[w] /\ posted'[w] = posted[w] /\ ties'[w] = ties[w]
    <3>1. /\ wallet' = [wallet EXCEPT ![f].bal = left, ![g].bal = wallet[g].bal + v]
          /\ posted' = [posted EXCEPT ![f] = @ + out, ![g] = @ + v]
          /\ ties' = [ties EXCEPT ![f] = IF Tie(a) THEN @ + 1 ELSE @]
      BY <1>4, <2>2 DEF TransferCommit
    <3>2. ties' = [ties EXCEPT ![f] = ties[f] + tie]
      <4>1. ties[f] \in Nat
        BY <1>0, <2>1
      <4>2. (IF Tie(a) THEN ties[f] + 1 ELSE ties[f]) = ties[f] + tie
        BY <4>1
      <4>. QED  BY <3>1, <4>2
    <3>. HIDE DEF f, g, a, v, b, left, out, tie
    <3>. QED  BY <1>0, <2>1, <3>1, <3>2 DEF Wallet
  <2>5. \A w \in WalletIds : OpeningBalance(w) \in Int
    BY OpeningAssumption DEF OpeningBalance, Wallet
  <2>. HIDE DEF f, g, a, v, left, out, tie
  <2>6. wallet'[f].bal >= 0 /\ wallet'[g].bal >= 0
    BY <2>1, <2>2, <2>3, <2>4 DEF NoOverdraft
  <2>7. wallet'[f].bal = OpeningBalance(f) + posted'[f] + ties'[f]
    <3>1. b = OpeningBalance(f) + posted[f] + ties[f]
      BY <2>1 DEF LedgerReconciles
    <3>. HIDE DEF b
    <3>. QED  BY <1>0, <2>1, <2>3, <2>4, <2>5, <3>1
  <2>8. wallet'[g].bal = OpeningBalance(g) + posted'[g] + ties'[g]
    <3>1. wallet[g].bal = OpeningBalance(g) + posted[g] + ties[g]
      BY <2>1 DEF LedgerReconciles
    <3>. QED  BY <1>0, <2>1, <2>4, <2>5, <3>1
  <2>. QED  BY <2>4, <2>6, <2>7, <2>8 DEF NoOverdraft, LedgerReconciles, OpeningBalance
<1>5. CASE CreateInsert(t)
  <2>1. /\ posted' = posted /\ ties' = ties /\ nextId \in WalletIds /\ nextId >= nextId
        /\ wallet'[nextId].bal = 0
        /\ \A w \in WalletIds \ {nextId} : wallet'[w] = wallet[w]
    BY <1>0, <1>5 DEF CreateInsert, TypeOK
  <2>2. posted[nextId] = 0 /\ ties[nextId] = 0 /\ OpeningBalance(nextId) = 0
    BY <2>1 DEF UnusedIds, OpeningBalance
  <2>. DEFINE k == nextId
  <2>3. /\ k \in WalletIds /\ wallet'[k].bal = 0 /\ posted' = posted /\ posted[k] = 0
        /\ ties' = ties /\ ties[k] = 0 /\ OpeningBalance(k) = 0 /\ \A w \in WalletIds \ {k} : wallet'[w] = wallet[w]
    BY <2>1, <2>2
  <2>. HIDE DEF k
  <2>4. NoOverdraft'
    BY <2>3 DEF NoOverdraft
  <2>5. LedgerReconciles'
    <3>. SUFFICES ASSUME NEW w \in WalletIds, wallet'[w] # NoRow
                  PROVE  wallet'[w].bal = OpeningBalance(w) + posted'[w] + ties'[w]
      BY DEF LedgerReconciles, OpeningBalance
    <3>1. CASE w = k
      BY <2>3, <3>1
    <3>2. CASE w # k
      BY <2>3, <3>2 DEF LedgerReconciles
    <3>. QED  BY <3>1, <3>2
  <2>. QED  BY <2>4, <2>5
<1>6. CASE DeleteFlush(t)
  <2>1. CASE Abort(t)
    BY <1>1, <2>1 DEF Abort
  <2>2. CASE ~Abort(t)
    <3>1. \A w \in WalletIds : \/ wallet'[w] = NoRow
                               \/ /\ wallet'[w] = wallet[w] /\ posted'[w] = posted[w]
                                  /\ ties'[w] = ties[w]
      BY <1>0, <1>6, <2>2 DEF DeleteFlush
    <3>. QED  BY <3>1 DEF NoOverdraft, LedgerReconciles, OpeningBalance
  <2>. QED  BY <2>1, <2>2
<1>. QED  BY <1>1, <1>2, <1>3, <1>4, <1>5, <1>6, OnlyCommitsWrite

\* No balance is negative at the start and each is its opening value.
LEMMA InitBalances == Init => NoOverdraft /\ LedgerReconciles
<1>. SUFFICES ASSUME Init PROVE NoOverdraft /\ LedgerReconciles
  OBVIOUS
<1>1. \A w \in WalletIds : wallet[w] # NoRow =>
        /\ w \in DOMAIN Opening /\ wallet[w] = Opening[w] /\ posted[w] = 0 /\ ties[w] = 0
  <2>. SUFFICES ASSUME NEW w \in WalletIds, wallet[w] # NoRow
                PROVE  /\ w \in DOMAIN Opening /\ wallet[w] = Opening[w]
                       /\ posted[w] = 0 /\ ties[w] = 0
    OBVIOUS
  <2>1. wallet[w] = IF w \in DOMAIN Opening THEN Opening[w] ELSE NoRow
    BY DEF Init
  <2>2. posted[w] = 0 /\ ties[w] = 0
    BY DEF Init
  <2>. QED  BY <2>1, <2>2
<1>2. \A w \in DOMAIN Opening : Opening[w].bal \in Int /\ Opening[w].bal >= 0
  BY OpeningAssumption DEF Wallet
<1>. QED  BY <1>1, <1>2 DEF NoOverdraft, LedgerReconciles, OpeningBalance

\* While rates do not expire, balances are always solvent and explained by
\* the log.
LEMMA BalancesHold ==
  ASSUME ~RatesExpire
  PROVE  Spec => [](NoOverdraft /\ LedgerReconciles)
<1>1. Init => NoOverdraft /\ LedgerReconciles
  BY InitBalances
<1>2. IInv /\ NoOverdraft /\ LedgerReconciles /\ [Next]_vars => NoOverdraft' /\ LedgerReconciles'
  <2>. SUFFICES ASSUME IInv, NoOverdraft, LedgerReconciles, [Next]_vars
                PROVE  NoOverdraft' /\ LedgerReconciles'
    OBVIOUS
  <2>1. CASE PriceTick \/ RateExpires \/ UNCHANGED vars
    BY <2>1 DEF PriceTick, RateExpires, vars, tables, NoOverdraft, LedgerReconciles, OpeningBalance
  <2>2. ASSUME NEW t \in Threads, Arrive(t) \/ Advance(t) \/ Fail(t) \/ DeadlockVictim(t)
        PROVE  NoOverdraft' /\ LedgerReconciles'
    BY <2>2, BalanceStep DEF Fail, DeadlockVictim
  <2>. QED  BY <2>1, <2>2 DEF Next
<1>. QED  BY <1>1, <1>2, Invariance, PTL DEF Spec

\* While no transfer has to refresh the rates, no balance is ever negative.
THEOREM Solvency ==
  ASSUME ~RatesExpire
  PROVE  Spec => []NoOverdraft
BY BalancesHold, PTL

\* While no transfer has to refresh the rates, every wallet holds its opening
\* balance plus what the transactions table says happened to it, and one unit
\* for each transfer out of it of an amount halfway between two units: whatever
\* the amounts, no other difference ever arises.
THEOREM LedgerCorrect ==
  ASSUME ~RatesExpire
  PROVE  Spec => []LedgerReconciles
BY BalancesHold, PTL

-----------------------------------------------------------------------------
(* The ledger is implemented *)

\* The fixed terms of a request: a trade has its value from a price of the
\* market, and the rows it is about to write are its user's.
Priced(t) ==
  /\ pc[t] \in {"buyWallet", "buyHolding", "buyCommit"} =>
       \E p \in Prices : WorthBuying(p, req[t].qty) /\ seen[t].value = BuyCost(p, req[t].qty)
  /\ pc[t] \in {"sellWallet", "sellCommit"} =>
       \E p \in Prices : seen[t].value = SellProceeds(p, req[t].qty)
  /\ pc[t] \in {"buyHolding", "buyCommit", "sellCommit"} =>
       wallet[req[t].wallet].owner = req[t].user
  /\ pc[t] = "sellCommit" => wallet[req[t].wallet].cur = "USD"
  /\ pc[t] \in {"sellWallet", "sellCommit"} \/ (pc[t] = "buyCommit" /\ seen[t].row # NoRow) =>
       holding[seen[t].row].owner = req[t].user /\ holding[seen[t].row].sym = req[t].sym
  /\ pc[t] = "xferCommit" /\ ~RatesExpire =>
       /\ wallet[req[t].from].owner = req[t].user /\ wallet[req[t].to].owner = req[t].user
       /\ seen[t].value = Credit(req[t]) /\ (~SameCurrency(req[t]) => seen[t].value > 0)

\* The ledger's arithmetic is the code's.
LEMMA SameArithmetic ==
  ASSUME NEW p, NEW q, NEW c
  PROVE  /\ Ledger!BuyCost(p, q) = BuyCost(p, q) /\ Ledger!SellProceeds(p, q) = SellProceeds(p, q)
         /\ Ledger!WorthBuying(p, q) <=> WorthBuying(p, q)
         /\ Ledger!Converted(p, c) = Converted(p, c) /\ Ledger!Quantized(p) = Quantized(p)
         /\ Ledger!Debited(p, q) = Debited(p, q)
<1>1. \A n, d : Ledger!HalfUp(n, d) = HalfUp(n, d)
  BY DEF Ledger!HalfUp, HalfUp
<1>2. Ledger!Bps = Bps
  BY DEF Ledger!Bps, Bps
<1>. QED
  BY <1>1, <1>2 DEF Ledger!BuyCost, BuyCost, Ledger!SellProceeds, SellProceeds,
    Ledger!WorthBuying, WorthBuying, Ledger!MarketValue, MarketValue,
    Ledger!Converted, Converted, Ledger!Gross, Gross, Ledger!Net, Net, Ledger!FxFee, FxFee,
    Ledger!Quantized, Quantized, Ledger!Debited, Debited, Ledger!Column, Column

\* What another thread has fixed survives a step of t: the rows are locked.
LEMMA OthersPriced ==
  ASSUME TypeOK, NEW t \in Threads, Untouched(t), NEW x \in Threads, x # t,
         RowsHeld(x), Priced(x)
  PROVE  Priced(x)'
<1>. USE DEF TradePcs, TransferPcs, RefreshPcs
<1>1. pc'[x] = pc[x] /\ req'[x] = req[x] /\ seen'[x] = seen[x]
  BY DEF Untouched
<1>2. ASSUME NEW w \in WalletIds, HoldsWallet(x, w)
      PROVE  wallet'[w] = wallet[w]
  BY <1>2, RowAssumption DEF Untouched, HoldsWallet
<1>3. ASSUME NEW h, HoldsHolding(x, h)
      PROVE  holding'[h] = holding[h]
  BY <1>3, RowAssumption DEF Untouched, HoldsHolding
<1>4. pc[x] \in {"buyHolding", "buyCommit", "sellCommit"} =>
        wallet'[req[x].wallet] = wallet[req[x].wallet]
  BY <1>2, RequestFields DEF RowsHeld
<1>5. pc[x] \in {"sellWallet", "sellCommit"} \/ (pc[x] = "buyCommit" /\ seen[x].row # NoRow) =>
        holding'[seen[x].row] = holding[seen[x].row]
  BY <1>3 DEF RowsHeld
<1>6. pc[x] = "xferCommit" => /\ wallet'[req[x].from] = wallet[req[x].from]
                              /\ wallet'[req[x].to] = wallet[req[x].to]
                              /\ Credit(req[x])' = Credit(req[x])
                              /\ SameCurrency(req[x])' = SameCurrency(req[x])
  <2>. SUFFICES ASSUME pc[x] = "xferCommit"
                PROVE  /\ wallet'[req[x].from] = wallet[req[x].from]
                       /\ wallet'[req[x].to] = wallet[req[x].to]
                       /\ Credit(req[x])' = Credit(req[x])
                       /\ SameCurrency(req[x])' = SameCurrency(req[x])
    OBVIOUS
  <2>1. /\ wallet'[req[x].from] = wallet[req[x].from] /\ wallet'[req[x].to] = wallet[req[x].to]
    BY <1>2, RequestFields DEF RowsHeld
  <2>. QED  BY <1>1, <2>1 DEF Credit, SameCurrency
<1>. QED  BY <1>1, <1>4, <1>5, <1>6 DEF Priced

\* A request fixes its terms when it begins or when it locks its rows.
LEMMA OwnPriced ==
  ASSUME IInv, NEW t \in Threads, Priced(t), Arrive(t) \/ Advance(t) \/ Abort(t)
  PROVE  Priced(t)'
<1>. USE DEF TradePcs, TransferPcs, RefreshPcs, DeletePcs, CreatePcs
<1>0. /\ pc \in [Threads -> Pcs] /\ req \in [Threads -> Requests \cup {NoRow}]
      /\ seen \in [Threads -> Seen] /\ price \in [Symbols -> Prices] /\ RowsHeld(t)
  BY DEF IInv, TypeOK, LockedReadsCurrent
<1>t. TypeOK
  BY DEF IInv
<1>1. CASE pc'[t] \in {"idle", "sellHolding", "xferFirst", "xferSecond", "createInsert",
                        "delLoad", "delFlush"} \cup RefreshPcs
  BY <1>1 DEF Priced
<1>2. CASE EndRequest(t)
  <2>1. pc'[t] = "idle"
    BY <1>0, <1>2 DEF EndRequest
  <2>. QED  BY <1>1, <2>1
<1>3. CASE Arrive(t)
  <2>1. CASE BuyBegin(t)
    <3>1. PICK r \in TradeReq :
            /\ WorthBuying(price[r.sym], r.qty)
            /\ Begin(t, "buy", "buyWallet", r,
                     [NothingSeen EXCEPT !.value = BuyCost(price[r.sym], r.qty)])
      BY <2>1 DEF BuyBegin
    <3>2. /\ pc'[t] = "buyWallet" /\ req'[t] = r
          /\ seen'[t].value = BuyCost(price[r.sym], r.qty)
      <4>. DEFINE v == BuyCost(price[r.sym], r.qty)
      <4>1. Begin(t, "buy", "buyWallet", r, [NothingSeen EXCEPT !.value = v])
        BY <3>1
      <4>. HIDE DEF v
      <4>2. seen'[t].value = v
        BY <1>0, <4>1 DEF Begin, NothingSeen
      <4>. QED  BY <1>0, <3>1, <4>2 DEF Begin, Goto, v
    <3>3. price[r.sym] \in Prices
      BY <1>0 DEF TradeReq
    <3>. QED  BY <3>1, <3>2, <3>3 DEF Priced
  <2>2. CASE SellBegin(t) \/ TransferBegin(t) \/ CreateBegin(t) \/ DeleteBegin(t)
    <3>1. pc'[t] \in {"sellHolding", "xferFirst", "createInsert", "delLoad"}
      BY <1>0, <2>2 DEF SellBegin, TransferBegin, CreateBegin, DeleteBegin, Begin, Goto
    <3>. QED  BY <1>1, <3>1
  <2>. QED  BY <1>3, <2>1, <2>2 DEF Arrive
<1>4. CASE BuyLockWallet(t) /\ ~Abort(t)
  <2>1. /\ pc[t] = "buyWallet" /\ pc'[t] = "buyHolding" /\ req' = req /\ wallet' = wallet
        /\ wallet[req[t].wallet].owner = req[t].user
        /\ seen' = [seen EXCEPT ![t].bal = wallet[req[t].wallet].bal]
    BY <1>0, <1>4 DEF BuyLockWallet, OwnedBy, Continue, Goto, tables
  <2>2. seen'[t].value = seen[t].value
    BY <1>0, <2>1 DEF Seen
  <2>. QED  BY <2>1, <2>2 DEF Priced
<1>5. CASE BuyLockHolding(t)
  <2>1. /\ pc[t] = "buyHolding" /\ pc'[t] = "buyCommit" /\ UNCHANGED <<req, wallet, holding>>
    BY <1>0, <1>5 DEF BuyLockHolding, Continue, Goto, tables
  <2>2. CASE seen' = seen
    <3>1. seen[t].row = NoRow
      BY <1>0, <2>1 DEF RowsHeld
    <3>. QED  BY <2>1, <2>2, <3>1 DEF Priced
  <2>3. CASE \E h \in Holdings(req[t].user, req[t].sym) :
               seen' = [seen EXCEPT ![t].row = h, ![t].have = holding[h].qty]
    <3>1. PICK h \in HoldingIds :
            /\ holding[h].owner = req[t].user /\ holding[h].sym = req[t].sym
            /\ seen' = [seen EXCEPT ![t].row = h, ![t].have = holding[h].qty]
      BY <2>3 DEF Holdings
    <3>2. seen'[t].row = h /\ seen'[t].value = seen[t].value
      BY <1>0, <3>1 DEF Seen
    <3>. QED  BY <2>1, <3>1, <3>2 DEF Priced
  <2>. QED  BY <1>5, <2>2, <2>3 DEF BuyLockHolding
<1>6. CASE SellLockHolding(t) /\ ~Abort(t)
  <2>. DEFINE v == SellProceeds(price[req[t].sym], req[t].qty)
  <2>1. PICK h \in HoldingIds :
          /\ holding[h].owner = req[t].user /\ holding[h].sym = req[t].sym
          /\ seen' = [seen EXCEPT ![t].row = h, ![t].have = holding[h].qty, ![t].value = v]
    BY <1>6 DEF SellLockHolding, Holdings
  <2>2. pc[t] = "sellHolding" /\ pc'[t] = "sellWallet" /\ UNCHANGED <<req, holding>>
    BY <1>0, <1>6 DEF SellLockHolding, Continue, Goto, tables
  <2>3. seen'[t].row = h /\ seen'[t].value = v
    <3>. HIDE DEF v
    <3>. QED  BY <1>0, <2>1 DEF Seen
  <2>4. price[req[t].sym] \in Prices
    BY <1>0, <1>t, <2>2, RequestFields
  <2>. QED  BY <2>1, <2>2, <2>3, <2>4 DEF Priced
<1>7. CASE SellLockWallet(t) /\ ~Abort(t)
  <2>1. /\ pc[t] = "sellWallet" /\ pc'[t] = "sellCommit" /\ UNCHANGED <<req, wallet, holding>>
        /\ wallet[req[t].wallet].owner = req[t].user /\ wallet[req[t].wallet].cur = "USD"
        /\ seen' = [seen EXCEPT ![t].bal = wallet[req[t].wallet].bal]
    BY <1>0, <1>7 DEF SellLockWallet, OwnedBy, Continue, Goto, tables
  <2>2. seen'[t].value = seen[t].value /\ seen'[t].row = seen[t].row
    BY <1>0, <2>1 DEF Seen
  <2>. QED  BY <2>1, <2>2 DEF Priced
<1>8. CASE TransferLockSecond(t) /\ ~Abort(t)
  <2>1. CASE pc'[t] = "xferCommit"
    <3>. DEFINE v == Credit(req[t])  b == wallet[req[t].from].bal  c == wallet[req[t].to].bal
    <3>1. /\ CallerOwnsBoth(req[t]) /\ UNCHANGED <<req, wallet>>
          /\ seen' = [seen EXCEPT ![t].bal = b, ![t].bal2 = c, ![t].value = v]
      BY <1>0, <1>8, <2>1 DEF TransferLockSecond, Continue, Goto, tables
    <3>2. seen'[t].value = v
      <4>. HIDE DEF v, b, c
      <4>. QED  BY <1>0, <3>1 DEF Seen
    <3>3. Credit(req[t])' = Credit(req[t]) /\ SameCurrency(req[t])' = SameCurrency(req[t])
      BY <3>1 DEF Credit, SameCurrency
    <3>4. ~SameCurrency(req[t]) => v > 0
      BY <1>0, <1>8, <2>1 DEF TransferLockSecond, Continue, Goto
    <3>. QED  BY <2>1, <3>1, <3>2, <3>3, <3>4 DEF Priced, CallerOwnsBoth, OwnedBy
  <2>2. CASE pc'[t] # "xferCommit"
    <3>1. pc'[t] = "xferFetch"
      BY <1>0, <1>8, <2>2 DEF TransferLockSecond, Continue, Goto
    <3>. QED  BY <1>1, <3>1
  <2>. QED  BY <2>1, <2>2
<1>9. CASE ~Abort(t) /\ \/ TransferLockFirst(t) \/ TransferFetchRates(t) \/ TransferReadFrom(t)
                        \/ TransferReadTo(t) \/ TransferFlushFirst(t) \/ DeleteLoad(t)
  <2>1. pc'[t] \in {"xferSecond", "xferReadFrom", "xferReadTo", "xferFlushFirst",
                    "xferFlushSecond", "delFlush"}
    BY <1>0, <1>9 DEF TransferLockFirst, TransferFetchRates, TransferReadFrom, TransferReadTo,
      TransferFlushFirst, TransferFlush, DeleteLoad, Continue, Goto
  <2>. QED  BY <1>1, <2>1
<1>10. CASE ~Abort(t) /\ TransferFlushSecond(t)
  <2>1. pc'[t] = "xferCommit" /\ pc[t] = "xferFlushSecond"
    BY <1>0, <1>10 DEF TransferFlushSecond, TransferFlush, Continue, Goto
  <2>2. RatesExpire
    BY <2>1 DEF IInv, LockedReadsCurrent, TransferReads
  <2>. QED  BY <2>1, <2>2 DEF Priced
<1>11. CASE \/ Abort(t) \/ BuyCommit(t) \/ SellCommit(t) \/ TransferCommit(t)
            \/ CreateInsert(t) \/ DeleteFlush(t)
  BY <1>2, <1>11 DEF Abort, BuyCommit, SellCommit, TransferCommit, CreateInsert, DeleteFlush
<1>. QED
  BY <1>3, <1>4, <1>5, <1>6, <1>7, <1>8, <1>9, <1>10, <1>11 DEF Advance

\* In every reachable state the terms of every request are fixed.
LEMMA TermsFixed == Spec => [](\A t \in Threads : Priced(t))
<1>. DEFINE P == \A t \in Threads : Priced(t)
<1>1. Init => P
  BY DEF Init, Priced
<1>2. IInv /\ P /\ [Next]_vars => P'
  <2>. SUFFICES ASSUME IInv, P, [Next]_vars, NEW x \in Threads
                PROVE  Priced(x)'
    OBVIOUS
  <2>1. CASE PriceTick \/ RateExpires \/ UNCHANGED vars
    BY <2>1 DEF PriceTick, RateExpires, vars, tables, Priced, Credit, SameCurrency
  <2>2. ASSUME NEW t \in Threads, Arrive(t) \/ Advance(t) \/ Abort(t)
        PROVE  Priced(x)'
    <3>1. TypeOK /\ UnusedIds /\ \A y \in Threads : RowsHeld(y)
      BY DEF IInv, LockedReadsCurrent
    <3>2. Untouched(t)
      BY <2>2, <3>1, ArriveUntouched, AbortUntouched, CommitUntouched, StatementUntouched
         DEF Advance
    <3>. QED  BY <2>2, <3>1, <3>2, OwnPriced, OthersPriced
  <2>. QED  BY <2>1, <2>2 DEF Next, Fail, DeadlockVictim
<1>. QED  BY <1>1, <1>2, Invariance, PTL DEF Spec

\* A commit is one operation of the ledger.
LEMMA CommitIsLedgerStep ==
  ASSUME ~RatesExpire, IInv, NEW t \in Threads, Priced(t),
         \/ BuyCommit(t) \/ SellCommit(t) \/ TransferCommit(t)
         \/ CreateInsert(t) \/ (DeleteFlush(t) /\ ~Abort(t))
  PROVE  Ledger!Next
<1>. USE DEF TradePcs, TransferPcs, RefreshPcs, DeletePcs, CreatePcs
<1>0. /\ TypeOK /\ RowsHeld(t) /\ TradeReads(t) /\ TransferReads(t) /\ UnusedIds
      /\ wallet \in [WalletIds -> Wallet \cup {NoRow}]
      /\ holding \in [HoldingIds -> Holding \cup {NoRow}]
  BY DEF IInv, TypeOK, LockedReadsCurrent
<1>1. CASE BuyCommit(t)
  <2>. DEFINE u == req[t].user  w == req[t].wallet  s == req[t].sym  q == req[t].qty
  <2>1. /\ pc[t] = "buyCommit" /\ u \in Users /\ w \in WalletIds /\ s \in Symbols
        /\ q \in Quantities
    BY <1>0, <1>1, RequestFields DEF BuyCommit
  <2>2. PICK p \in Prices : WorthBuying(p, q) /\ seen[t].value = BuyCost(p, q)
    BY <2>1 DEF Priced
  <2>3. /\ Ledger!Mine(w, u) /\ wallet[w].bal >= BuyCost(p, q)
        /\ wallet' = [wallet EXCEPT ![w].bal = @ - BuyCost(p, q)]
    BY <1>0, <1>1, <2>1, <2>2
       DEF BuyCommit, RowsHeld, HoldsWallet, TradeReads, Priced, Ledger!Mine
  <2>4. \E h \in HoldingIds :
          \/ Ledger!LotOf(h, u, s) /\ holding' = [holding EXCEPT ![h].qty = @ + q]
          \/ /\ holding[h] = NoRow
             /\ holding' = [holding EXCEPT ![h] = [owner |-> u, sym |-> s, qty |-> q]]
    <3>1. CASE seen[t].row # NoRow
      <4>1. /\ HoldsHolding(t, seen[t].row) /\ seen[t].have = holding[seen[t].row].qty
            /\ holding[seen[t].row].owner = u /\ holding[seen[t].row].sym = s
        BY <1>0, <2>1, <3>1 DEF RowsHeld, TradeReads, Priced
      <4>2. holding' = [holding EXCEPT ![seen[t].row].qty = seen[t].have + q]
        BY <1>1, <3>1 DEF BuyCommit, Credited
      <4>. QED  BY <4>1, <4>2 DEF HoldsHolding, Ledger!LotOf
    <3>2. CASE seen[t].row = NoRow
      BY <1>1, <3>2 DEF BuyCommit, Credited
    <3>. QED  BY <3>1, <3>2
  <2>. HIDE DEF u, w, s, q
  <2>5. Ledger!Buy(u, w, s, q)
    BY <2>2, <2>3, <2>4, SameArithmetic DEF Ledger!Buy
  <2>. QED  BY <2>1, <2>5 DEF Ledger!Next
<1>2. CASE SellCommit(t)
  <2>. DEFINE u == req[t].user  w == req[t].wallet  s == req[t].sym  q == req[t].qty
              h == seen[t].row
  <2>1. /\ pc[t] = "sellCommit" /\ u \in Users /\ w \in WalletIds /\ s \in Symbols
        /\ q \in Quantities /\ q \in Int
    BY <1>0, <1>2, RequestFields DEF SellCommit
  <2>2. PICK p \in Prices : seen[t].value = SellProceeds(p, q)
    BY <2>1 DEF Priced
  <2>3. /\ Ledger!Mine(w, u) /\ wallet[w].cur = "USD" /\ SellProceeds(p, q) > 0
        /\ wallet' = [wallet EXCEPT ![w].bal = @ + SellProceeds(p, q)]
    BY <1>0, <1>2, <2>1, <2>2
       DEF SellCommit, RowsHeld, HoldsWallet, TradeReads, Priced, Ledger!Mine
  <2>4. /\ h \in HoldingIds /\ Ledger!LotOf(h, u, s) /\ holding[h].qty >= q
        /\ seen[t].have = holding[h].qty /\ holding[h] \in Holding
    BY <1>0, <2>1 DEF RowsHeld, HoldsHolding, TradeReads, Priced, Ledger!LotOf
  <2>5. holding' = [holding EXCEPT ![h] = IF holding[h].qty = q THEN NoRow
                      ELSE [holding[h] EXCEPT !.qty = holding[h].qty - q]]
    <3>1. holding' = [holding EXCEPT ![h] = IF holding[h].qty - q = 0 THEN NoRow
                        ELSE [holding[h] EXCEPT !.qty = holding[h].qty - q]]
      BY <1>2, <2>4 DEF SellCommit
    <3>2. holding[h].qty - q = 0 <=> holding[h].qty = q
      BY <2>1, <2>4 DEF Holding
    <3>. HIDE DEF h, q
    <3>. QED  BY <3>1, <3>2
  <2>. HIDE DEF u, w, s, q, h
  <2>6. Ledger!Sell(u, w, s, q)
    BY <2>2, <2>3, <2>4, <2>5, SameArithmetic DEF Ledger!Sell
  <2>. QED  BY <2>1, <2>6 DEF Ledger!Next
<1>3. CASE TransferCommit(t)
  <2>. DEFINE u == req[t].user  v == req[t].from  w == req[t].to  a == req[t].amt
  <2>1. /\ pc[t] = "xferCommit" /\ u \in Users /\ v \in WalletIds /\ w \in WalletIds
        /\ a \in Amounts /\ v # w /\ wallet[v] # NoRow /\ wallet[w] # NoRow
    BY <1>0, <1>3, RequestFields DEF TransferCommit, RowsHeld, HoldsWallet
  <2>2. /\ Ledger!Mine(v, u) /\ Ledger!Mine(w, u)
        /\ seen[t].bal = wallet[v].bal /\ wallet[v].bal * AmountScale >= a
        /\ seen[t].bal2 = wallet[w].bal /\ seen[t].value = Credit(req[t])
        /\ ~SameCurrency(req[t]) => Credit(req[t]) > 0
    BY <1>0, <2>1 DEF TransferReads, Covers, Priced, Ledger!Mine
  <2>3. Ledger!Worth(v, w, a) = Credit(req[t])
    BY SameArithmetic DEF Ledger!Worth, Ledger!Alike, Credit, SameCurrency
  <2>4. wallet' = [wallet EXCEPT ![v].bal = Ledger!Debited(@, a),
                                 ![w].bal = @ + Ledger!Worth(v, w, a)]
    <3>1. wallet' = [wallet EXCEPT ![v].bal = Debited(wallet[v].bal, a),
                                   ![w].bal = wallet[w].bal + Credit(req[t])]
      BY <1>3, <2>2 DEF TransferCommit
    <3>. DEFINE c == Credit(req[t])  d == Debited(wallet[v].bal, a)
    <3>2. /\ wallet' = [wallet EXCEPT ![v].bal = d, ![w].bal = wallet[w].bal + c]
          /\ Ledger!Worth(v, w, a) = c /\ Ledger!Debited(wallet[v].bal, a) = d
      BY <2>3, <3>1, SameArithmetic
    <3>. HIDE DEF c, d, v, w, a
    <3>. QED  BY <1>0, <2>1, <3>2
  <2>5. UNCHANGED holding
    BY <1>3 DEF TransferCommit
  <2>6. ~Ledger!Alike(v, w) => Ledger!Worth(v, w, a) > 0
    BY <2>2, <2>3 DEF Ledger!Alike, SameCurrency
  <2>. HIDE DEF u, v, w, a
  <2>7. Ledger!Transfer(u, v, w, a)
    BY <2>1, <2>2, <2>4, <2>5, <2>6 DEF Ledger!Transfer
  <2>. QED  BY <2>1, <2>7 DEF Ledger!Next
<1>4. CASE CreateInsert(t)
  <2>1. /\ req[t].user \in Users /\ req[t].cur \in Currencies /\ nextId \in WalletIds
        /\ wallet' = [wallet EXCEPT
             ![nextId] = [owner |-> req[t].user, cur |-> req[t].cur, bal |-> 0]]
        /\ UNCHANGED holding
    BY <1>0, <1>4, RequestFields DEF CreateInsert
  <2>2. wallet[nextId] = NoRow
    BY <1>0, <2>1 DEF UnusedIds, TypeOK
  <2>3. Ledger!Open(req[t].user, nextId, req[t].cur)
    BY <2>1, <2>2 DEF Ledger!Open
  <2>. QED  BY <2>1, <2>3 DEF Ledger!Next
<1>5. CASE DeleteFlush(t) /\ ~Abort(t)
  <2>. DEFINE w == req[t].wallet
  <2>1. /\ w \in WalletIds /\ wallet[w] # NoRow /\ wallet' = [wallet EXCEPT ![w] = NoRow]
        /\ UNCHANGED holding
    BY <1>0, <1>5, RequestFields DEF DeleteFlush
  <2>. HIDE DEF w
  <2>2. wallet[w].owner \in Users
    BY <1>0, <2>1 DEF Wallet
  <2>3. Ledger!Close(wallet[w].owner, w)
    BY <2>1 DEF Ledger!Close, Ledger!Mine
  <2>. QED  BY <2>1, <2>2, <2>3 DEF Ledger!Next
<1>. QED  BY <1>1, <1>2, <1>3, <1>4, <1>5

\* At the start nothing is owed and nobody holds a share.
LEMMA InitLedger == Init => Ledger!Init
<1>. SUFFICES ASSUME Init PROVE Ledger!Init
  OBVIOUS
<1>1. \A w \in WalletIds : wallet[w] # NoRow => wallet[w].bal >= 0
  BY InitBalances DEF NoOverdraft
<1>. QED  BY <1>1 DEF Init, Ledger!Init

\* Trades, transfers, openings and closings interleaved in any way are the
\* operations of the ledger taken one at a time, while the rates stay fresh.
THEOREM Refinement ==
  ASSUME ~RatesExpire
  PROVE  Spec => LedgerSpec
<1>. DEFINE P == \A t \in Threads : Priced(t)
<1>1. IInv /\ P /\ [Next]_vars => [Ledger!Next]_Ledger!book
  <2>. SUFFICES ASSUME IInv, P, [Next]_vars
                PROVE  [Ledger!Next]_Ledger!book
    OBVIOUS
  <2>1. CASE PriceTick \/ RateExpires \/ UNCHANGED vars
    BY <2>1 DEF PriceTick, RateExpires, vars, tables, Ledger!book
  <2>2. ASSUME NEW t \in Threads, Arrive(t) \/ Advance(t) \/ Abort(t)
        PROVE  [Ledger!Next]_Ledger!book
    <3>1. CASE \/ BuyCommit(t) \/ SellCommit(t) \/ TransferCommit(t)
               \/ CreateInsert(t) \/ (DeleteFlush(t) /\ ~Abort(t))
      BY <3>1, CommitIsLedgerStep
    <3>2. CASE Abort(t)
      BY <3>2 DEF Abort, tables, Ledger!book
    <3>3. CASE ~(BuyCommit(t) \/ SellCommit(t) \/ TransferCommit(t) \/ CreateInsert(t) \/ DeleteFlush(t))
      BY <2>2, <3>3, OnlyCommitsWrite DEF tables, Ledger!book
    <3>. QED  BY <3>1, <3>2, <3>3
  <2>. QED  BY <2>1, <2>2 DEF Next, Fail, DeadlockVictim
<1>. QED  BY <1>1, InitLedger, Invariance, TermsFixed, PTL DEF Spec, LedgerSpec, Ledger!Spec

-----------------------------------------------------------------------------
(* Deadlocks *)

\* A transaction holds the rows its program point says, and no others.
OnlyItsRows(t) ==
  /\ \A w \in WalletIds : walletLock[w] = t =>
       \/ pc[t] \in {"buyHolding", "buyCommit", "sellCommit", "xferFetch", "xferCommit"}
       \/ pc[t] \in {"xferSecond", "xferFlushSecond"} /\ w = First(req[t])
  /\ \A h \in HoldingIds : holdingLock[h] = t => pc[t] \in {"sellWallet", "sellCommit", "buyCommit"}

\* The least element of a set of naturals.
LEMMA Least ==
  ASSUME NEW T \in SUBSET Nat, T # {}
  PROVE  \E n \in T : \A m \in T : n <= m
<1>1. PICK n \in T : \A m \in T : <<m, n>> \notin OpToRel(<, Nat)
  BY WFMin, NatLessThanWellFounded, Zenon
<1>2. ASSUME NEW m \in T PROVE n <= m
  <2>1. ~(m < n)
    BY <1>1, Zenon DEF OpToRel
  <2>. QED  BY <2>1
<1>. QED  BY <1>2

\* A step of t takes locks for t alone.
LEMMA LocksTaken ==
  ASSUME TypeOK, NEW t \in Threads, Arrive(t) \/ Advance(t) \/ Abort(t)
  PROVE  /\ \A w \in WalletIds : walletLock'[w] \in {walletLock[w], t, NoThread}
         /\ \A h \in HoldingIds : holdingLock'[h] \in {holdingLock[h], t, NoThread}
<1>0. /\ walletLock \in [WalletIds -> Threads \cup {NoThread}]
      /\ holdingLock \in [HoldingIds -> Threads \cup {NoThread}]
  BY DEF TypeOK
<1>1. CASE EndRequest(t)
  BY <1>0, <1>1 DEF EndRequest, ReleaseLocks, Releases
<1>2. CASE Arrive(t)
  BY <1>2 DEF Arrive, BuyBegin, SellBegin, TransferBegin, CreateBegin, DeleteBegin, Begin, locks
<1>3. CASE ~EndRequest(t) /\ Advance(t)
  <2>. USE DEF Continue, Abort, locks
  <2>1. CASE BuyLockWallet(t) \/ BuyLockHolding(t) \/ SellLockHolding(t) \/ SellLockWallet(t)
    BY <1>0, <1>3, <2>1 DEF BuyLockWallet, BuyLockHolding, SellLockHolding, SellLockWallet
  <2>2. CASE \/ TransferLockFirst(t) \/ TransferLockSecond(t) \/ TransferFetchRates(t)
             \/ TransferReadFrom(t) \/ TransferReadTo(t)
             \/ TransferFlushFirst(t) \/ TransferFlushSecond(t) \/ DeleteLoad(t)
    BY <1>0, <1>3, <2>2 DEF TransferLockFirst, TransferLockSecond, TransferFetchRates,
      TransferReadFrom, TransferReadTo, TransferFlushFirst, TransferFlushSecond, TransferFlush,
      DeleteLoad, ReleaseLocks, Releases
  <2>. QED
    BY <1>3, <2>1, <2>2 DEF Advance, BuyCommit, SellCommit, TransferCommit, CreateInsert, DeleteFlush
<1>. QED  BY <1>1, <1>2, <1>3 DEF Abort

\* The end of a transaction leaves it no lock.
LEMMA EndHoldsNothing ==
  ASSUME TypeOK, NEW t \in Threads, ReleaseLocks(t)
  PROVE  /\ \A w \in WalletIds : walletLock'[w] # t
         /\ \A h \in HoldingIds : holdingLock'[h] # t
BY RowAssumption DEF TypeOK, ReleaseLocks, Releases

\* A step of t leaves it the locks of its next program point.
LEMMA OwnRows ==
  ASSUME TypeOK, NEW t \in Threads, OnlyItsRows(t), Arrive(t) \/ Advance(t) \/ Abort(t)
  PROVE  OnlyItsRows(t)'
<1>. USE DEF TradePcs, TransferPcs, RefreshPcs, DeletePcs, CreatePcs
<1>0. /\ pc \in [Threads -> Pcs]
      /\ walletLock \in [WalletIds -> Threads \cup {NoThread}]
      /\ holdingLock \in [HoldingIds -> Threads \cup {NoThread}]
  BY DEF TypeOK
<1>1. CASE EndRequest(t)
  BY <1>1, EndHoldsNothing DEF EndRequest, OnlyItsRows
<1>2. CASE Arrive(t)
  <2>1. pc[t] = "idle" /\ UNCHANGED locks
    BY <1>2 DEF Arrive, BuyBegin, SellBegin, TransferBegin, CreateBegin, DeleteBegin, Begin
  <2>. QED  BY <2>1 DEF OnlyItsRows, locks
<1>3. CASE ~EndRequest(t) /\ (BuyLockWallet(t) \/ BuyLockHolding(t))
  <2>. USE DEF Continue, Goto, Abort
  <2>1. CASE BuyLockWallet(t)
    <3>1. /\ pc[t] = "buyWallet" /\ pc'[t] = "buyHolding" /\ UNCHANGED holdingLock
      BY <1>0, <1>3, <2>1 DEF BuyLockWallet
    <3>. QED  BY <3>1 DEF OnlyItsRows
  <2>2. CASE BuyLockHolding(t)
    <3>1. /\ pc[t] = "buyHolding" /\ pc'[t] = "buyCommit" /\ UNCHANGED walletLock
      BY <1>0, <2>2 DEF BuyLockHolding
    <3>. QED  BY <3>1 DEF OnlyItsRows
  <2>. QED  BY <1>3, <2>1, <2>2
<1>4. CASE ~EndRequest(t) /\ (SellLockHolding(t) \/ SellLockWallet(t))
  <2>. USE DEF Continue, Goto, Abort
  <2>1. CASE SellLockHolding(t)
    <3>1. /\ pc[t] = "sellHolding" /\ pc'[t] = "sellWallet" /\ UNCHANGED walletLock
      BY <1>0, <1>4, <2>1 DEF SellLockHolding
    <3>. QED  BY <3>1 DEF OnlyItsRows
  <2>2. CASE SellLockWallet(t)
    <3>1. /\ pc[t] = "sellWallet" /\ pc'[t] = "sellCommit" /\ UNCHANGED holdingLock
      BY <1>0, <1>4, <2>2 DEF SellLockWallet
    <3>. QED  BY <3>1 DEF OnlyItsRows
  <2>. QED  BY <1>4, <2>1, <2>2
<1>5. CASE ~EndRequest(t) /\ (TransferLockFirst(t) \/ TransferFlushFirst(t))
  <2>1. /\ pc[t] \in {"xferFirst", "xferFlushFirst"}
        /\ pc'[t] \in {"xferSecond", "xferFlushSecond"}
        /\ walletLock' = [walletLock EXCEPT ![First(req[t])] = t]
        /\ UNCHANGED <<holdingLock, req>>
    BY <1>0, <1>5 DEF TransferLockFirst, TransferFlushFirst, TransferFlush, Continue, Goto, Abort
  <2>2. First(req[t])' = First(req[t])
    BY <2>1 DEF First, AscendingIds
  <2>3. \A w \in WalletIds : walletLock'[w] = t => walletLock[w] = t \/ w = First(req[t])
    BY <1>0, <2>1
  <2>. QED  BY <2>1, <2>2, <2>3 DEF OnlyItsRows
<1>6. CASE ~EndRequest(t) /\ (TransferLockSecond(t) \/ TransferFlushSecond(t))
  <2>1. /\ pc[t] \in {"xferSecond", "xferFlushSecond"} /\ pc'[t] \in {"xferFetch", "xferCommit"}
        /\ UNCHANGED holdingLock
    BY <1>0, <1>6 DEF TransferLockSecond, TransferFlushSecond, TransferFlush, Continue, Goto, Abort
  <2>. QED  BY <2>1 DEF OnlyItsRows
<1>7. CASE ~EndRequest(t) /\ TransferFetchRates(t)
  <2>1. ReleaseLocks(t)
    BY <1>7 DEF TransferFetchRates, Abort
  <2>. QED  BY <2>1, EndHoldsNothing DEF OnlyItsRows
<1>8. CASE ~EndRequest(t) /\ (TransferReadFrom(t) \/ TransferReadTo(t) \/ DeleteLoad(t))
  <2>1. pc[t] \in {"xferReadFrom", "xferReadTo", "delLoad"} /\ UNCHANGED locks
    BY <1>8 DEF TransferReadFrom, TransferReadTo, DeleteLoad, Abort
  <2>. QED  BY <2>1 DEF OnlyItsRows, locks
<1>. QED
  BY <1>1, <1>2, <1>3, <1>4, <1>5, <1>6, <1>7, <1>8
     DEF Advance, Abort, BuyCommit, SellCommit, TransferCommit, CreateInsert, DeleteFlush

\* In every reachable state, each lock is held for the program point its
\* transaction is at.
LEMMA LocksAlwaysHeld == Spec => [](\A t \in Threads : OnlyItsRows(t))
<1>. DEFINE P == \A t \in Threads : OnlyItsRows(t)
<1>1. Init => P
  BY RowAssumption DEF Init, OnlyItsRows
<1>2. IInv /\ P /\ [Next]_vars => P'
  <2>. SUFFICES ASSUME IInv, P, [Next]_vars PROVE P'
    OBVIOUS
  <2>1. CASE PriceTick \/ RateExpires \/ UNCHANGED vars
    BY <2>1 DEF PriceTick, RateExpires, vars, locks, OnlyItsRows, First, AscendingIds
  <2>2. ASSUME NEW t \in Threads, Arrive(t) \/ Advance(t) \/ Abort(t), NEW x \in Threads
        PROVE  OnlyItsRows(x)'
    <3>1. CASE x = t
      BY <2>2, <3>1, OwnRows DEF IInv
    <3>2. CASE x # t
      <4>1. pc'[x] = pc[x] /\ req'[x] = req[x] /\ First(req[x])' = First(req[x])
        <5>1. Untouched(t)
          BY <2>2, ArriveUntouched, AbortUntouched, CommitUntouched, StatementUntouched
             DEF Advance, IInv, LockedReadsCurrent
        <5>. QED  BY <3>2, <5>1 DEF Untouched, First, AscendingIds
      <4>2. /\ \A w \in WalletIds : walletLock'[w] = x => walletLock[w] = x
            /\ \A h \in HoldingIds : holdingLock'[h] = x => holdingLock[h] = x
        BY <2>2, <3>2, LocksTaken, RowAssumption DEF IInv
      <4>. QED  BY <4>1, <4>2 DEF OnlyItsRows
    <3>. QED  BY <3>1, <3>2
  <2>. QED  BY <2>1, <2>2 DEF Next, Fail, DeadlockVictim
<1>. QED  BY <1>1, <1>2, Invariance, PTL DEF Spec

\* A waiting thread waits for a lock; the second wallet of a transfer has the
\* greater id.
LEMMA Waits ==
  ASSUME TypeOK, NEW t \in Threads, NEW x \in WaitsFor(t)
  PROVE  \/ /\ pc[t] \in {"buyHolding", "sellHolding"}
            /\ \E h \in HoldingIds : holdingLock[h] = x
         \/ /\ pc[t] \in {"buyWallet", "sellWallet", "delFlush", "xferFirst", "xferSecond",
                          "xferFlushFirst", "xferFlushSecond"}
            /\ \E w \in WalletIds : walletLock[w] = x
            /\ pc[t] \in {"xferSecond", "xferFlushSecond"} =>
                 walletLock[Second(req[t])] = x /\ First(req[t]) < Second(req[t])
<1>. USE DEF TradePcs, TransferPcs, RefreshPcs, DeletePcs, CreatePcs
<1>1. CASE pc[t] \in {"buyWallet", "sellWallet", "delFlush"}
  <2>1. x = walletLock[req[t].wallet]
    BY <1>1 DEF WaitsFor, BlockedOnWallet
  <2>. QED  BY <1>1, <2>1, RequestFields
<1>2. CASE pc[t] \in {"buyHolding", "sellHolding"}
  BY <1>2 DEF WaitsFor, Holdings
<1>3. CASE pc[t] \in {"xferFirst", "xferFlushFirst"}
  <2>1. x = walletLock[First(req[t])]
    BY <1>3 DEF WaitsFor, BlockedOnWallet
  <2>. QED  BY <1>3, <2>1, RequestFields
<1>4. CASE pc[t] \in {"xferSecond", "xferFlushSecond"}
  <2>1. x = walletLock[Second(req[t])]
    BY <1>4 DEF WaitsFor, BlockedOnWallet
  <2>2. First(req[t]) < Second(req[t])
    BY <1>4, RequestFields, NumberAssumption DEF First, Second, AscendingIds, WalletIds
  <2>. QED  BY <1>4, <2>1, <2>2, RequestFields
<1>5. CASE pc[t] \notin {"buyWallet", "sellWallet", "delFlush", "buyHolding", "sellHolding",
                        "xferFirst", "xferFlushFirst", "xferSecond", "xferFlushSecond"}
  BY <1>5 DEF WaitsFor
<1>. QED  BY <1>1, <1>2, <1>3, <1>4, <1>5

\* Transfers that hold their first wallet and wait for their second do not
\* wait for each other in a circle: each waits for a greater id than it holds.
LEMMA TransfersDoNotCycle ==
  ASSUME TypeOK, \A t \in Threads : OnlyItsRows(t), NEW X \in SUBSET Threads, X # {},
         \A t \in X : /\ pc[t] \in {"xferSecond", "xferFlushSecond"}
                      /\ WaitsFor(t) # {} /\ WaitsFor(t) \subseteq X
  PROVE  FALSE
<1>. USE DEF TransferPcs, RefreshPcs
<1>. DEFINE D(t) == MaxWallets - Second(req[t])
            T == {D(t) : t \in X}
<1>1. \A t \in X : Second(req[t]) \in 1 .. MaxWallets /\ First(req[t]) \in 1 .. MaxWallets
  BY RequestFields DEF WalletIds
<1>2. \A t \in X : D(t) \in Nat
  BY <1>1, NumberAssumption
<1>3. PICK t \in X : \A x \in X : D(t) <= D(x)
  <2>1. T \in SUBSET Nat /\ T # {}
    BY <1>2
  <2>2. PICK n \in T : \A m \in T : n <= m
    <3>. HIDE DEF T
    <3>. QED  BY <2>1, Least
  <2>3. PICK t \in X : n = D(t)
    BY <2>2
  <2>. QED  BY <2>2, <2>3
<1>4. PICK x \in X : x \in WaitsFor(t)
  OBVIOUS
<1>5. /\ walletLock[Second(req[t])] = x
  BY <1>4, Waits
<1>6. First(req[x]) = Second(req[t])
  BY <1>1, <1>5 DEF OnlyItsRows, WalletIds
<1>7. PICK y \in X : y \in WaitsFor(x)
  OBVIOUS
<1>8. First(req[x]) < Second(req[x])
  BY <1>7, Waits
<1>9. D(t) <= D(x)
  BY <1>3
<1>. HIDE DEF T
<1>. QED  BY <1>1, <1>6, <1>8, <1>9, NumberAssumption

\* A deadlock always has a sale waiting for its wallet and a buy waiting for
\* its holding, whatever transfers and deletions wait with them.
THEOREM DeadlocksAreSalesAgainstBuys == Spec => []DeadlockNeedsSaleAndBuy
<1>1. ASSUME TypeOK, \A t \in Threads : OnlyItsRows(t)
      PROVE  DeadlockNeedsSaleAndBuy
  <2>. SUFFICES ASSUME NEW S \in SUBSET Threads, Deadlocked(S)
                PROVE  /\ \E t \in S : pc[t] = "sellWallet"
                       /\ \E t \in S : pc[t] = "buyHolding"
    BY DEF DeadlockNeedsSaleAndBuy
  <2>. DEFINE X == {t \in S : pc[t] \in {"xferSecond", "xferFlushSecond"}}
  <2>1. \A t \in S : t \in Threads /\ WaitsFor(t) # {} /\ WaitsFor(t) \subseteq S
    BY DEF Deadlocked
  <2>2. \A t \in S : \E x \in S : x \in WaitsFor(t)
    BY <2>1
  <2>3. \A t \in S : pc[t] \in {"buyWallet", "sellWallet", "delFlush", "buyHolding", "sellHolding",
                        "xferFirst", "xferFlushFirst", "xferSecond", "xferFlushSecond"}
    BY <1>1, <2>1, <2>2, Waits
  <2>4. ASSUME NEW t \in S, NEW x \in WaitsFor(t)
        PROVE  /\ pc[t] \in {"buyHolding", "sellHolding"} => pc[x] = "sellWallet"
               /\ pc[t] \notin {"buyHolding", "sellHolding"} =>
                    pc[x] = "buyHolding" \/ x \in X
    <3>1. x \in S /\ OnlyItsRows(x)
      BY <1>1, <2>1
    <3>. QED  BY <1>1, <2>1, <2>3, <3>1, Waits DEF OnlyItsRows
  <2>5. \E t \in S : pc[t] = "buyHolding"
    <3>. SUFFICES ASSUME \A t \in S : pc[t] # "buyHolding" PROVE FALSE
      OBVIOUS
    <3>1. PICK t \in S : TRUE
      BY DEF Deadlocked
    <3>2. PICK x \in S : x \in WaitsFor(t)
      BY <2>2
    <3>3. PICK y \in S : y \in WaitsFor(x)
      BY <2>2
    <3>4. X # {}
      BY <2>4, <3>2, <3>3
    <3>5. \A z \in X : WaitsFor(z) # {} /\ WaitsFor(z) \subseteq X
      BY <2>1, <2>4
    <3>. QED  BY <1>1, <2>1, <3>4, <3>5, TransfersDoNotCycle
  <2>6. \E t \in S : pc[t] = "sellWallet"
    BY <2>2, <2>4, <2>5
  <2>. QED  BY <2>5, <2>6
<1>. QED  BY <1>1, TypeCorrect, LocksAlwaysHeld, PTL

-----------------------------------------------------------------------------
(* Whose money moves *)

\* A transfer past its ownership check works on wallets whose ids are taken,
\* and which are its user's for as long as they exist, locked or not.
WalletsAreTheUsers(t) ==
  pc[t] \in RefreshPcs \cup {"xferCommit"} =>
    \A w \in {req[t].from, req[t].to} :
      w < nextId /\ (wallet[w] # NoRow => wallet[w].owner = req[t].user)

\* A wallet never changes hands, only delete_wallet takes it away, and its id
\* is never given out again.
LEMMA OwnersKeep ==
  ASSUME IInv, NEW t \in Threads, Arrive(t) \/ Advance(t) \/ Abort(t)
  PROVE  /\ nextId' \in Nat /\ nextId <= nextId'
         /\ \A w \in WalletIds : w < nextId =>
              \/ wallet'[w] = NoRow /\ (wallet[w] = NoRow \/ DeleteFlush(t))
              \/ wallet[w] # NoRow /\ wallet'[w] # NoRow /\ wallet'[w].owner = wallet[w].owner
<1>. USE DEF TradePcs, TransferPcs
<1>0. /\ wallet \in [WalletIds -> Wallet \cup {NoRow}] /\ nextId \in Nat
      /\ TypeOK /\ RowsHeld(t)
  BY DEF IInv, TypeOK, LockedReadsCurrent
<1>1. CASE UNCHANGED <<wallet, nextId>>
  BY <1>0, <1>1
<1>2. CASE BuyCommit(t) \/ SellCommit(t)
  <2>. DEFINE w == req[t].wallet
  <2>1. wallet[w] # NoRow /\ w \in WalletIds /\ nextId' = nextId
    BY <1>0, <1>2, RequestFields DEF BuyCommit, SellCommit, RowsHeld, HoldsWallet
  <2>2. PICK b \in Int : wallet' = [wallet EXCEPT ![w].bal = b]
    <3>. DEFINE c == seen[t].bal - seen[t].value  d == seen[t].bal + seen[t].value
    <3>1. c \in Int /\ d \in Int
      BY <1>0, RequestFields
    <3>2. wallet' = [wallet EXCEPT ![w].bal = c] \/ wallet' = [wallet EXCEPT ![w].bal = d]
      BY <1>2 DEF BuyCommit, SellCommit
    <3>. HIDE DEF c, d, w
    <3>. QED  BY <3>1, <3>2
  <2>. HIDE DEF w
  <2>3. [wallet[w] EXCEPT !.bal = b] # NoRow
    BY <1>0, <2>1, RowAssumption DEF Wallet
  <2>. QED  BY <1>0, <2>1, <2>2, <2>3 DEF Wallet
<1>3. CASE TransferCommit(t)
  <2>. DEFINE v == req[t].from  w == req[t].to
  <2>1. /\ wallet[v] # NoRow /\ wallet[w] # NoRow /\ v # w
        /\ v \in WalletIds /\ w \in WalletIds /\ nextId' = nextId
    BY <1>0, <1>3, RequestFields DEF TransferCommit, RowsHeld, HoldsWallet
  <2>2. PICK b \in Int, c \in Int : wallet' = [wallet EXCEPT ![v].bal = b, ![w].bal = c]
    <3>. DEFINE d == Debited(seen[t].bal, req[t].amt)  e == seen[t].bal2 + seen[t].value
    <3>1. d \in Int /\ e \in Int
      BY <1>0, <1>3, RequestFields, DebitedInt DEF TransferCommit
    <3>2. wallet' = [wallet EXCEPT ![v].bal = d, ![w].bal = e]
      BY <1>3 DEF TransferCommit
    <3>. HIDE DEF d, e, v, w
    <3>. QED  BY <3>1, <3>2
  <2>. HIDE DEF v, w
  <2>3. [wallet[v] EXCEPT !.bal = b] # NoRow /\ [wallet[w] EXCEPT !.bal = c] # NoRow
    BY <1>0, <2>1, RowAssumption DEF Wallet
  <2>. QED  BY <1>0, <2>1, <2>2, <2>3 DEF Wallet
<1>4. CASE CreateInsert(t)
  BY <1>0, <1>4 DEF CreateInsert
<1>5. CASE DeleteFlush(t)
  BY <1>0, <1>5 DEF DeleteFlush, Abort, tables
<1>. QED  BY <1>1, <1>2, <1>3, <1>4, <1>5, OnlyCommitsWrite DEF tables

\* The ownership check of a transfer outlives its locks.
LEMMA TransfersStayHome ==
  Spec => [](\A t \in Threads : WalletsAreTheUsers(t))
<1>. USE DEF TransferPcs, RefreshPcs
<1>. DEFINE P == \A t \in Threads : WalletsAreTheUsers(t)
<1>1. Init => P
  BY DEF Init, WalletsAreTheUsers
<1>2. IInv /\ P /\ [Next]_vars => P'
  <2>. SUFFICES ASSUME IInv, P, [Next]_vars PROVE P'
    OBVIOUS
  <2>0. TypeOK /\ pc \in [Threads -> Pcs] /\ nextId \in Nat
    BY DEF IInv, TypeOK
  <2>1. CASE PriceTick \/ RateExpires \/ UNCHANGED vars
    BY <2>1 DEF PriceTick, RateExpires, vars, tables, WalletsAreTheUsers
  <2>2. ASSUME NEW t \in Threads, Arrive(t) \/ Advance(t) \/ Abort(t), NEW x \in Threads
        PROVE  WalletsAreTheUsers(x)'
    <3>1. CASE /\ pc[x] \in RefreshPcs \cup {"xferCommit"}
               /\ req'[x] = req[x]
      <4>1. /\ req[x].from \in WalletIds /\ req[x].to \in WalletIds
            /\ \A w \in {req[x].from, req[x].to} :
                 w < nextId /\ (wallet[w] # NoRow => wallet[w].owner = req[x].user)
        BY <2>0, <3>1, RequestFields DEF WalletsAreTheUsers
      <4>2. \A w \in {req[x].from, req[x].to} :
               w < nextId' /\ (wallet'[w] # NoRow => wallet'[w].owner = req[x].user)
        BY <2>0, <2>2, <4>1, OwnersKeep, NumberAssumption DEF WalletIds
      <4>. QED  BY <3>1, <4>2 DEF WalletsAreTheUsers
    <3>2. CASE x # t
      <4>1. Untouched(t)
        BY <2>2, ArriveUntouched, AbortUntouched, CommitUntouched, StatementUntouched
           DEF Advance, IInv, LockedReadsCurrent
      <4>2. pc'[x] = pc[x] /\ req'[x] = req[x]
        BY <3>2, <4>1 DEF Untouched
      <4>. QED  BY <3>1, <4>2 DEF WalletsAreTheUsers
    <3>3. CASE x = t /\ EndRequest(t)
      BY <2>0, <3>3 DEF EndRequest, WalletsAreTheUsers
    <3>4. CASE x = t /\ ~EndRequest(t) /\ TransferLockSecond(t)
      <4>1. /\ pc[t] = "xferSecond" /\ CallerOwnsBoth(req[t]) /\ UNCHANGED <<tables, req>>
        BY <3>4 DEF TransferLockSecond, Continue, Abort
      <4>2. req[t].from < nextId /\ req[t].to < nextId
        BY <2>0, <4>1, RequestFields, NumberAssumption
           DEF IInv, UnusedIds, CallerOwnsBoth, OwnedBy, WalletIds
      <4>. QED  BY <3>4, <4>1, <4>2 DEF WalletsAreTheUsers, CallerOwnsBoth, OwnedBy, tables
    <3>5. CASE x = t /\ ~EndRequest(t) /\ ~TransferLockSecond(t)
      <4>1. \/ pc[t] \in RefreshPcs /\ req' = req
            \/ pc'[t] \notin RefreshPcs \cup {"xferCommit"}
        BY <2>0, <2>2, <3>5 DEF Arrive, BuyBegin, SellBegin, TransferBegin, CreateBegin, DeleteBegin, Begin,
          Advance, BuyLockWallet, BuyLockHolding, BuyCommit, SellLockHolding, SellLockWallet, SellCommit,
          TransferLockFirst, TransferFetchRates, TransferReadFrom, TransferReadTo,
          TransferFlushFirst, TransferFlushSecond, TransferFlush, TransferCommit, CreateInsert,
          DeleteLoad, DeleteFlush, Continue, Goto, Abort
      <4>. QED  BY <3>1, <3>5, <4>1 DEF WalletsAreTheUsers
    <3>. QED  BY <3>2, <3>3, <3>4, <3>5
  <2>. QED  BY <2>1, <2>2 DEF Next, Fail, DeadlockVictim
<1>. QED  BY <1>1, <1>2, Invariance, PTL DEF Spec

\* Money moves only between the wallets of one user, also when a refresh of the
\* rates gives the locks back in the middle of a transfer.
THEOREM MoneyStaysHome == Spec => OneUserAtATime
<1>. DEFINE A == \A v, w \in WalletIds :
       (Bal(v) # Bal(v)' /\ Bal(w) # Bal(w)' /\ wallet[v] # NoRow /\ wallet[w] # NoRow)
         => wallet[v].owner = wallet[w].owner
            P == \A t \in Threads : WalletsAreTheUsers(t)
<1>1. IInv /\ P /\ [Next]_vars => [A]_wallet
  <2>. SUFFICES ASSUME IInv, P, Next, wallet' # wallet PROVE A
    BY DEF vars, tables
  <2>0. /\ TypeOK /\ wallet \in [WalletIds -> Wallet \cup {NoRow}]
    BY DEF IInv, TypeOK
  <2>1. PICK t \in Threads : Arrive(t) \/ Advance(t) \/ Abort(t)
    BY DEF Next, Fail, DeadlockVictim, PriceTick, RateExpires, tables
  <2>2. CASE TransferCommit(t)
    <3>0. pc[t] = "xferCommit"
      BY <2>2 DEF TransferCommit
    <3>1. req[t].from \in WalletIds /\ req[t].to \in WalletIds
      BY <2>0, <3>0, RequestFields DEF TransferPcs
    <3>2. wallet[req[t].from].owner = req[t].user /\ wallet[req[t].to].owner = req[t].user
      <4>1. wallet[First(req[t])] # NoRow /\ wallet[Second(req[t])] # NoRow
        BY <3>0 DEF IInv, LockedReadsCurrent, RowsHeld, HoldsWallet
      <4>2. wallet[req[t].from] # NoRow /\ wallet[req[t].to] # NoRow
        BY <4>1 DEF First, Second, AscendingIds
      <4>. QED  BY <3>0, <4>2 DEF WalletsAreTheUsers
    <3>3. \A w \in WalletIds : wallet'[w] # wallet[w] => w \in {req[t].from, req[t].to}
      BY <2>0, <2>2, <3>1 DEF TransferCommit
    <3>. QED  BY <3>2, <3>3 DEF Bal
  <2>3. CASE ~TransferCommit(t)
    <3>1. \E x : \A w \in WalletIds : wallet'[w] # wallet[w] => w = x
      BY <2>0, <2>1, <2>3, OnlyCommitsWrite
         DEF BuyCommit, SellCommit, CreateInsert, DeleteFlush, Abort, tables
    <3>. QED  BY <3>1 DEF Bal
  <2>. QED  BY <2>2, <2>3
<1>. QED  BY <1>1, Invariance, TransfersStayHome, PTL DEF Spec, OneUserAtATime

-----------------------------------------------------------------------------
(* Rows and wallets *)

\* The wallets whose buy of s is about to insert a row for u, and those of u.
Paying(u, s) == {w \in WalletIds : \E t \in Threads :
  /\ pc[t] = "buyCommit" /\ seen[t].row = NoRow
  /\ req[t].user = u /\ req[t].sym = s /\ req[t].wallet = w}
Owned(u) == {w \in WalletIds : OwnedBy(w, u)}

\* Each row, there or about to be, has a wallet of its own.
RowsPaidFor(u, s) ==
  /\ IsFiniteSet(Holdings(u, s))
  /\ Cardinality(Holdings(u, s)) + Cardinality(Paying(u, s)) <= Cardinality(Owned(u))

\* Sets of wallets are finite.
LEMMA WalletsFinite ==
  ASSUME NEW S \in SUBSET WalletIds, NEW T \in SUBSET S
  PROVE  /\ IsFiniteSet(S) /\ Cardinality(S) \in Nat /\ Cardinality(T) \in Nat
         /\ Cardinality(T) <= Cardinality(S)
<1>1. IsFiniteSet(WalletIds)
  BY NumberAssumption, FS_Interval DEF WalletIds
<1>. QED  BY <1>1, FS_Subset, FS_CardinalityType

\* Where nobody deletes wallets, no user loses one.
LEMMA OwnersStay ==
  ASSUME IInv, NEW t \in Threads, Arrive(t) \/ Advance(t) \/ Abort(t), pc[t] \notin DeletePcs,
         NEW u
  PROVE  Owned(u) \subseteq Owned(u)'
<1>1. \A w \in WalletIds : wallet[w] # NoRow => w < nextId
  BY NumberAssumption DEF IInv, UnusedIds, TypeOK, WalletIds
<1>2. ~DeleteFlush(t)
  BY DEF DeleteFlush, DeletePcs
<1>. QED  BY <1>1, <1>2, OwnersKeep DEF Owned, OwnedBy

\* What a step does to the rows and to the buys about to insert one.
LEMMA RowsAndBuys ==
  ASSUME IInv, NEW t \in Threads, Arrive(t) \/ Advance(t) \/ Abort(t), NEW u, NEW s
  PROVE  \/ Holdings(u, s)' \subseteq Holdings(u, s) /\ Paying(u, s)' \subseteq Paying(u, s)
         \/ Holdings(u, s)' = {}
         \/ \E h \in HoldingIds, w \in Paying(u, s) :
              /\ Holdings(u, s)' \subseteq Holdings(u, s) \cup {h}
              /\ Paying(u, s)' \subseteq Paying(u, s) \ {w}
<1>. USE DEF TradePcs
<1>0. /\ TypeOK /\ holding \in [HoldingIds -> Holding \cup {NoRow}] /\ pc \in [Threads -> Pcs]
      /\ seen \in [Threads -> Seen]
      /\ \A x \in Threads : RowsHeld(x)
  BY DEF IInv, TypeOK, LockedReadsCurrent
<1>1. \A x \in Threads \ {t} : pc'[x] = pc[x] /\ req'[x] = req[x] /\ seen'[x] = seen[x]
  <2>1. Untouched(t)
    BY <1>0, ArriveUntouched, AbortUntouched, CommitUntouched, StatementUntouched
       DEF Advance, IInv
  <2>. QED  BY <2>1 DEF Untouched
<1>2. pc'[t] # "buyCommit" => Paying(u, s)' \subseteq Paying(u, s)
  BY <1>1 DEF Paying
<1>3. CASE BuyLockHolding(t)
  <2>1. pc[t] = "buyHolding" /\ UNCHANGED <<req, holding>>
    BY <1>3 DEF BuyLockHolding, Continue, tables
  <2>2. Holdings(u, s)' = Holdings(u, s)
    BY <2>1 DEF Holdings
  <2>3. CASE Holdings(req[t].user, req[t].sym) = {}
    <3>1. CASE u = req[t].user /\ s = req[t].sym
      BY <2>2, <2>3, <3>1
    <3>2. CASE ~(u = req[t].user /\ s = req[t].sym)
      BY <1>1, <2>1, <2>2, <3>2 DEF Paying
    <3>. QED  BY <3>1, <3>2
  <2>4. CASE \E h \in Holdings(req[t].user, req[t].sym) :
               seen' = [seen EXCEPT ![t].row = h, ![t].have = holding[h].qty]
    <3>1. seen'[t].row # NoRow
      BY <1>0, <2>4, RowAssumption DEF Holdings, Seen
    <3>. QED  BY <1>1, <2>2, <3>1 DEF Paying
  <2>. QED  BY <1>3, <2>3, <2>4 DEF BuyLockHolding
<1>4. CASE BuyCommit(t)
  <2>. DEFINE w == req[t].wallet
  <2>1. pc[t] = "buyCommit" /\ pc'[t] = "idle" /\ Credited(t, req[t].qty) /\ w \in WalletIds
    BY <1>0, <1>4, RequestFields DEF BuyCommit, EndRequest
  <2>2. CASE seen[t].row # NoRow
    <3>. DEFINE q == seen[t].have + req[t].qty
    <3>1. /\ seen[t].row \in HoldingIds /\ holding[seen[t].row] # NoRow
          /\ holding' = [holding EXCEPT ![seen[t].row].qty = q]
      BY <1>0, <2>1, <2>2 DEF RowsHeld, HoldsHolding, Credited
    <3>. HIDE DEF q
    <3>2. Holdings(u, s)' \subseteq Holdings(u, s)
      BY <1>0, <3>1 DEF Holdings, Holding
    <3>. QED  BY <1>2, <2>1, <3>2
  <2>3. CASE seen[t].row = NoRow
    <3>1. PICK h \in HoldingIds : holding' = [holding EXCEPT
              ![h] = [owner |-> req[t].user, sym |-> req[t].sym, qty |-> req[t].qty]]
      BY <2>1, <2>3 DEF Credited
    <3>2. CASE u = req[t].user /\ s = req[t].sym
      <4>1. Holdings(u, s)' \subseteq Holdings(u, s) \cup {h}
        BY <1>0, <3>1 DEF Holdings
      <4>2. w \in Paying(u, s)
        BY <2>1, <2>3, <3>2 DEF Paying
      <4>3. \A x \in Threads \ {t} : pc[x] = "buyCommit" => req[x].wallet # w
        BY <1>0, <2>1 DEF RowsHeld, HoldsWallet
      <4>4. Paying(u, s)' \subseteq Paying(u, s) \ {w}
        <5>. HIDE DEF w
        <5>. QED  BY <1>1, <2>1, <4>3 DEF Paying
      <4>. QED  BY <4>1, <4>2, <4>4
    <3>3. CASE ~(u = req[t].user /\ s = req[t].sym)
      <4>1. Holdings(u, s)' \subseteq Holdings(u, s)
        BY <1>0, <3>1, <3>3 DEF Holdings
      <4>. QED  BY <1>2, <2>1, <4>1
    <3>. QED  BY <3>2, <3>3
  <2>. QED  BY <2>2, <2>3
<1>5. CASE SellCommit(t)
  <2>. DEFINE left == seen[t].have - req[t].qty  row == seen[t].row
  <2>1. pc'[t] = "idle" /\ row \in HoldingIds /\ holding[row] # NoRow
    BY <1>0, <1>5 DEF SellCommit, EndRequest, RowsHeld, HoldsHolding
  <2>2. holding' = [holding EXCEPT ![row] = IF left = 0 THEN NoRow
                                          ELSE [holding[row] EXCEPT !.qty = left]]
    BY <1>5 DEF SellCommit
  <2>. HIDE DEF left, row
  <2>3. Holdings(u, s)' \subseteq Holdings(u, s)
    BY <1>0, <2>1, <2>2 DEF Holdings, Holding
  <2>. QED  BY <1>2, <2>1, <2>3
<1>6. CASE ~(BuyLockHolding(t) \/ BuyCommit(t) \/ SellCommit(t))
  <2>1. holding' = holding
    BY <1>6, OnlyCommitsWrite DEF TransferCommit, CreateInsert, DeleteFlush, Abort, tables
  <2>2. pc'[t] # "buyCommit"
    BY <1>0, <1>6 DEF Arrive, BuyBegin, SellBegin, TransferBegin, CreateBegin, DeleteBegin, Begin,
      Advance, BuyLockWallet, SellLockHolding, SellLockWallet, TransferLockFirst,
      TransferLockSecond, TransferFetchRates, TransferReadFrom, TransferReadTo,
      TransferFlushFirst, TransferFlushSecond, TransferFlush, TransferCommit, CreateInsert,
      DeleteLoad, DeleteFlush, Continue, Goto, Abort, EndRequest
  <2>3. Holdings(u, s)' = Holdings(u, s)
    BY <2>1 DEF Holdings
  <2>. QED  BY <1>2, <2>2, <2>3
<1>. QED  BY <1>3, <1>4, <1>5, <1>6

\* Every row is paid for, and stays so.
LEMMA StepRowsPaidFor ==
  ASSUME IInv, IInv', \A x \in Threads : Priced(x)', NEW t \in Threads,
         Arrive(t) \/ Advance(t) \/ Abort(t), pc[t] \notin DeletePcs,
         NEW u, NEW s, RowsPaidFor(u, s)
  PROVE  RowsPaidFor(u, s)'
<1>. USE DEF TradePcs
<1>1. /\ Owned(u) \in SUBSET WalletIds /\ Owned(u)' \in SUBSET WalletIds
      /\ Paying(u, s) \in SUBSET WalletIds /\ Owned(u) \in SUBSET Owned(u)'
  BY OwnersStay DEF Owned, Paying, WalletIds
<1>2. Paying(u, s)' \in SUBSET Owned(u)'
  <2>. SUFFICES ASSUME NEW x \in Threads, pc'[x] = "buyCommit"
                PROVE  req'[x].wallet \in WalletIds => OwnedBy(req[x].wallet, req[x].user)'
    BY DEF Paying, Owned, WalletIds
  <2>. QED  BY DEF Priced, OwnedBy, IInv, LockedReadsCurrent, RowsHeld, HoldsWallet
<1>3. /\ Cardinality(Owned(u)) \in Nat /\ Cardinality(Owned(u)') \in Nat
      /\ Cardinality(Owned(u)) <= Cardinality(Owned(u)')
      /\ Cardinality(Paying(u, s)) \in Nat /\ Cardinality(Paying(u, s)') \in Nat
      /\ Cardinality(Paying(u, s)') <= Cardinality(Owned(u)')
  BY <1>1, <1>2, WalletsFinite
<1>4. IsFiniteSet(Holdings(u, s)) /\ Cardinality(Holdings(u, s)) \in Nat
  BY FS_CardinalityType DEF RowsPaidFor
<1>5. Cardinality(Holdings(u, s)) + Cardinality(Paying(u, s)) <= Cardinality(Owned(u))
  BY DEF RowsPaidFor
<1>6. CASE Holdings(u, s)' \subseteq Holdings(u, s) /\ Paying(u, s)' \subseteq Paying(u, s)
  <2>1. /\ IsFiniteSet(Holdings(u, s)') /\ Cardinality(Holdings(u, s)') \in Nat
        /\ Cardinality(Holdings(u, s)') <= Cardinality(Holdings(u, s))
    BY <1>4, <1>6, FS_Subset, FS_CardinalityType
  <2>2. Cardinality(Paying(u, s)') <= Cardinality(Paying(u, s))
    BY <1>1, <1>6, WalletsFinite
  <2>. QED  BY <1>3, <1>4, <1>5, <2>1, <2>2 DEF RowsPaidFor
<1>7. CASE Holdings(u, s)' = {}
  BY <1>3, <1>7, FS_EmptySet DEF RowsPaidFor
<1>8. ASSUME NEW h, NEW w \in Paying(u, s), Holdings(u, s)' \subseteq Holdings(u, s) \cup {h},
             Paying(u, s)' \subseteq Paying(u, s) \ {w}
      PROVE  RowsPaidFor(u, s)'
  <2>1. /\ IsFiniteSet(Holdings(u, s)') /\ Cardinality(Holdings(u, s)') \in Nat
        /\ Cardinality(Holdings(u, s)') <= Cardinality(Holdings(u, s)) + 1
    <3>1. /\ IsFiniteSet(Holdings(u, s) \cup {h})
          /\ Cardinality(Holdings(u, s) \cup {h}) <= Cardinality(Holdings(u, s)) + 1
      <4>. DEFINE H == Holdings(u, s)
      <4>1. /\ IsFiniteSet(H \cup {h})
            /\ Cardinality(H \cup {h}) = IF h \in H THEN Cardinality(H) ELSE Cardinality(H) + 1
        <5>. HIDE DEF H
        <5>. QED  BY <1>4, FS_AddElement DEF H
      <4>. HIDE DEF H
      <4>2. Cardinality(H \cup {h}) <= Cardinality(H) + 1
        BY <1>4, <4>1 DEF H
      <4>. QED  BY <4>1, <4>2 DEF H
    <3>2. /\ IsFiniteSet(Holdings(u, s)')
          /\ Cardinality(Holdings(u, s)') <= Cardinality(Holdings(u, s) \cup {h})
      BY <1>8, <3>1, FS_Subset
    <3>3. Cardinality(Holdings(u, s)') \in Nat /\ Cardinality(Holdings(u, s) \cup {h}) \in Nat
      BY <3>1, <3>2, FS_CardinalityType
    <3>. QED  BY <1>4, <3>1, <3>2, <3>3
  <2>2. Cardinality(Paying(u, s)') <= Cardinality(Paying(u, s)) - 1
    <3>1. IsFiniteSet(Paying(u, s))
      BY <1>1, WalletsFinite
    <3>2. /\ IsFiniteSet(Paying(u, s) \ {w})
          /\ Cardinality(Paying(u, s) \ {w}) = Cardinality(Paying(u, s)) - 1
      BY <3>1, FS_RemoveElement
    <3>. QED  BY <1>8, <3>2, FS_Subset
  <2>. QED  BY <1>3, <1>4, <1>5, <2>1, <2>2 DEF RowsPaidFor
<1>. QED  BY <1>6, <1>7, <1>8, RowsAndBuys

\* Where nobody deletes wallets, no thread is in delete_wallet.
LEMMA NobodyDeletes ==
  ASSUME "delete" \notin Ops
  PROVE  Spec => [](\A t \in Threads : pc[t] \notin DeletePcs)
<1>. DEFINE P == \A t \in Threads : pc[t] \notin DeletePcs
<1>1. Init => P
  BY DEF Init, DeletePcs
<1>2. IInv /\ P /\ [Next]_vars => P'
  <2>. SUFFICES ASSUME IInv, P, [Next]_vars, NEW x \in Threads PROVE pc'[x] \notin DeletePcs
    OBVIOUS
  <2>0. TypeOK /\ pc \in [Threads -> Pcs]
    BY DEF IInv, TypeOK
  <2>1. CASE PriceTick \/ RateExpires \/ UNCHANGED vars
    BY <2>1 DEF PriceTick, RateExpires, vars
  <2>2. ASSUME NEW t \in Threads, Arrive(t) \/ Advance(t) \/ Abort(t)
        PROVE  pc'[x] \notin DeletePcs
    <3>1. CASE x # t
      <4>1. Untouched(t)
        BY <2>2, ArriveUntouched, AbortUntouched, CommitUntouched, StatementUntouched
           DEF Advance, IInv, LockedReadsCurrent
      <4>. QED  BY <3>1, <4>1 DEF Untouched
    <3>2. CASE x = t /\ Arrive(t)
      BY <2>0, <3>2 DEF Arrive, BuyBegin, SellBegin, TransferBegin, CreateBegin, DeleteBegin,
        Begin, Goto, DeletePcs
    <3>3. CASE x = t /\ EndRequest(t)
      BY <2>0, <3>3 DEF EndRequest, DeletePcs
    <3>4. CASE x = t /\ ~EndRequest(t) /\ Advance(t)
      BY <2>0, <3>4 DEF Advance, BuyLockWallet, BuyLockHolding, BuyCommit, SellLockHolding,
        SellLockWallet, SellCommit, TransferLockFirst, TransferLockSecond, TransferFetchRates,
        TransferReadFrom, TransferReadTo, TransferFlushFirst, TransferFlushSecond, TransferFlush,
        TransferCommit, CreateInsert, DeleteLoad, DeleteFlush, Continue, Goto, Abort, DeletePcs
    <3>. QED  BY <2>2, <3>1, <3>2, <3>3, <3>4 DEF Abort
  <2>. QED  BY <2>1, <2>2 DEF Next, Fail, DeadlockVictim
<1>. QED  BY <1>1, <1>2, Invariance, PTL DEF Spec

\* While no wallet is deleted, a position has no more rows than its user has
\* wallets, however many first buys race.
THEOREM RowsBounded ==
  ASSUME "delete" \notin Ops
  PROVE  Spec => []RowPerWallet
<1>. DEFINE J == \A u \in Users, s \in Symbols : RowsPaidFor(u, s)
            P == \A t \in Threads : Priced(t)
            D == \A t \in Threads : pc[t] \notin DeletePcs
<1>1. Init => J
  <2>. SUFFICES ASSUME Init, NEW u \in Users, NEW s \in Symbols PROVE RowsPaidFor(u, s)
    OBVIOUS
  <2>1. Holdings(u, s) = {} /\ Paying(u, s) = {}
    BY DEF Init, Holdings, Paying
  <2>2. Cardinality(Owned(u)) \in Nat
    BY WalletsFinite DEF Owned
  <2>. QED  BY <2>1, <2>2, FS_EmptySet DEF RowsPaidFor
<1>2. IInv /\ IInv' /\ P' /\ D /\ J /\ [Next]_vars => J'
  <2>. SUFFICES ASSUME IInv, IInv', P', D, J, [Next]_vars, NEW u \in Users, NEW s \in Symbols
                PROVE  RowsPaidFor(u, s)'
    OBVIOUS
  <2>0. RowsPaidFor(u, s)
    OBVIOUS
  <2>1. CASE PriceTick \/ RateExpires \/ UNCHANGED vars
    <3>1. /\ Holdings(u, s)' = Holdings(u, s) /\ Paying(u, s)' = Paying(u, s)
          /\ Owned(u)' = Owned(u)
      BY <2>1 DEF PriceTick, RateExpires, vars, tables, Holdings, Paying, Owned, OwnedBy
    <3>. QED  BY <2>0, <3>1 DEF RowsPaidFor
  <2>2. ASSUME NEW t \in Threads, Arrive(t) \/ Advance(t) \/ Abort(t)
        PROVE  RowsPaidFor(u, s)'
    BY <2>0, <2>2, StepRowsPaidFor
  <2>. QED  BY <2>1, <2>2 DEF Next, Fail, DeadlockVictim
<1>3. J => RowPerWallet
  <2>. SUFFICES ASSUME NEW u \in Users, NEW s \in Symbols, RowsPaidFor(u, s)
                PROVE  Cardinality(Holdings(u, s)) <= Cardinality({w \in WalletIds : OwnedBy(w, u)})
    BY DEF RowPerWallet
  <2>1. /\ Cardinality(Holdings(u, s)) \in Nat /\ Cardinality(Paying(u, s)) \in Nat
        /\ Cardinality(Owned(u)) \in Nat
    BY WalletsFinite, FS_CardinalityType DEF RowsPaidFor, Paying, Owned
  <2>. QED  BY <2>1 DEF RowsPaidFor, Owned
<1>. QED  BY <1>1, <1>2, <1>3, Invariance, TermsFixed, NobodyDeletes, PTL DEF Spec
=============================================================================
