------------------------------ MODULE Standings ------------------------------
(***************************************************************************)
(* What the accounts are worth, by the two readers of the code: the league *)
(* tables (league_service.py, _equity_for, season_table, career_table,     *)
(* _ranked) and the nightly snapshot (leaderboard_service.py,              *)
(* compute_equity, _snapshot_all), while users trade and prices move.      *)
(*                                                                         *)
(* Trades commit atomically, but a reader takes several statements of      *)
(* which each sees, at READ COMMITTED, what is committed when it runs.     *)
(* A table reads the wallets, the holdings and the prices of its whole     *)
(* cohort, each in one statement; the snapshot goes user by user, and      *)
(* keeps every price and rate it has looked up for the users that follow.  *)
(***************************************************************************)
EXTENDS Fees, FiniteSets, SequencesExt

CONSTANTS
  Users, Symbols,
  NameKey,      \* user -> place of the lower-cased username; may be shared
  Prices, Rates,   \* USD for a share, and USD for RateDen EUR, in money units
  RateDen,
  Euros,        \* user with a EUR wallet -> its balance
  Baselines,    \* participant of the season -> baseline_equity
  Opening,      \* USD every user starts this instance with
  Grant,        \* STARTING_EQUITY_USD
  MaxChanges, MaxTables,   \* trades and quotes; tables asked for (bounds)
  None

ASSUME StandingsAssumption ==
  /\ IsFiniteSet(Users) /\ IsFiniteSet(Symbols) /\ Symbols # {}
  /\ NameKey \in [Users -> Nat] /\ Prices \subseteq Nat /\ Rates \subseteq Nat
  /\ RateDen \in Nat \ {0} /\ Grant \in Nat \ {0} /\ Opening \in Nat
  /\ DOMAIN Euros \subseteq Users /\ \A u \in DOMAIN Euros : Euros[u] \in Nat
  /\ DOMAIN Baselines \subseteq Users /\ \A u \in DOMAIN Baselines : Baselines[u] \in Nat
  /\ None \notin Nat

VARIABLES
  usd, held,    \* committed: the USD wallet, and user -> symbol -> quantity
  price, rate,  \* the latest quotes
  table,        \* the table request: where it is and what it has read
  shown,        \* the last table answered
  job,          \* the snapshot job: where it is and what it has read
  snap,         \* equity_snapshots of the day: user -> row, or None
  changes, tables

accounts == <<usd, held>>
market   == <<price, rate>>
vars     == <<accounts, market, table, shown, job, snap, changes, tables>>

Nobody == [u \in Users |-> 0]
Nothing == [u \in Users |-> [s \in Symbols |-> 0]]

NoTable == [at |-> "idle", kind |-> "season", cohort |-> {}, usd |-> Nobody, held |-> Nothing,
            price |-> <<>>, quotes |-> <<>>, moved |-> Nobody, began |-> Nothing]
NoAnswer == [rows |-> <<>>, ranks |-> <<>>, rate |-> 0, quotes |-> <<>>, kind |-> "season",
             usd |-> Nobody, moved |-> Nobody, began |-> Nothing]
NoJob == [at |-> "due", left |-> Users, who |-> CHOOSE u \in Users : TRUE, usd |-> 0,
          held |-> [s \in Symbols |-> 0], price |-> <<>>, rate |-> None, rows |-> <<>>]

Init ==
  /\ usd = [u \in Users |-> Opening]
  /\ held = [u \in Users |-> [s \in Symbols |-> 0]]
  /\ price \in [Symbols -> Prices]
  /\ rate \in Rates
  /\ table = NoTable /\ shown = NoAnswer
  /\ snap = [u \in Users |-> None]
  /\ changes = 0
  \* The readers write nothing that another reads: a behaviour has the job's
  \* run or the tables, and not every interleaving of the two.
  /\ \/ job = NoJob /\ tables = MaxTables
     \/ job = [NoJob EXCEPT !.at = "done"] /\ tables = 0

-----------------------------------------------------------------------------
(* Worth *)

\* One money unit, in the common denominator of shares and rates.
Unit == QtyScale * RateDen

Owned(h) == {s \in Symbols : h[s] > 0}

\* _to_usd over the wallets of u, at r USD for RateDen EUR.
Cash(u, dollars, r) ==
  dollars * Unit + (IF u \in DOMAIN Euros THEN Euros[u] * r * QtyScale ELSE 0)

\* A symbol with no price is worth nothing.
Marked(h, p) ==
  MapThenSumSet(LAMBDA s : IF s \in DOMAIN p THEN h[s] * p[s] * RateDen ELSE 0, Owned(h))

\* _equity_for rounds the sum, compute_equity each of its two parts.
TableEquity(u, dollars, h, p, r) == HalfUp(Cash(u, dollars, r) + Marked(h, p), Unit)

SharesRounded(u, dollars, h, p, r) ==
  HalfUp(Cash(u, dollars, r), Unit)
    + MapThenSumSet(LAMBDA s : HalfUp(h[s], QtyScale) * p[s], Owned(h))

JobEquity(u, dollars, h, p, r) ==
  HalfUp(Cash(u, dollars, r), Unit) + HalfUp(Marked(h, p), Unit)

-----------------------------------------------------------------------------
(* The accounts and the market *)

\* Ghosts of a table: the shares a member trades between its two reads of the
\* accounts (moved), what he held at the first (began), and all the quotes of
\* the moment it read some of (quotes).
Noted(u) ==
  table' = IF table.at = "holdings" THEN [table EXCEPT !.moved[u] = @ + 1] ELSE table

Changed == changes < MaxChanges /\ changes' = changes + 1 /\ UNCHANGED <<shown, job, snap, tables>>

\* Half a share, bought at the ask or sold at the bid, in one commit.
Buy(u, s) ==
  LET cost == BuyCost(price[s], 1)
  IN  /\ Changed /\ usd[u] >= cost
      /\ usd' = [usd EXCEPT ![u] = @ - cost]
      /\ held' = [held EXCEPT ![u][s] = @ + 1]
      /\ Noted(u) /\ UNCHANGED market

Holds(u, s) == held[u][s] > 0

Sell(u, s) ==
  /\ Changed /\ Holds(u, s)
  /\ usd' = [usd EXCEPT ![u] = @ + SellProceeds(price[s], 1)]
  /\ held' = [held EXCEPT ![u][s] = @ - 1]
  /\ Noted(u) /\ UNCHANGED market

Quote ==
  /\ Changed
  /\ \/ \E s \in Symbols : \E p \in Prices \ {price[s]} :
          price' = [price EXCEPT ![s] = p] /\ UNCHANGED rate
     \/ rate' \in Rates \ {rate} /\ UNCHANGED price
  /\ UNCHANGED <<accounts, table>>

-----------------------------------------------------------------------------
(* The tables *)

TableOnly == UNCHANGED <<accounts, market, shown, job, snap, changes, tables>>

\* A member asks; the cohort and the season's participants are read.
Ask ==
  /\ table.at = "idle" /\ tables < MaxTables
  /\ \E kind \in {"season", "career"}, members \in (SUBSET Users) \ {{}} :
       table' = [NoTable EXCEPT !.at = "wallets", !.kind = kind,
                   !.cohort = IF kind = "season" THEN members \cap DOMAIN Baselines ELSE members]
  /\ tables' = tables + 1
  /\ UNCHANGED <<accounts, market, shown, job, snap, changes>>

ReadWallets ==
  /\ table.at = "wallets"
  /\ table' = [table EXCEPT !.at = "holdings", !.usd = usd, !.began = held]
  /\ TableOnly

ReadHoldings ==
  /\ table.at = "holdings"
  /\ table' = [table EXCEPT !.at = "prices", !.held = held]
  /\ TableOnly

SymbolsOfOne(h, cohort) ==
  IF cohort = {} THEN {} ELSE Owned(h[CHOOSE u \in cohort : TRUE])

SymbolsIn(h, cohort) == UNION {Owned(h[u]) : u \in cohort}

ReadPrices ==
  /\ table.at = "prices"
  /\ table' = [table EXCEPT !.at = "answer",
                 !.price = [s \in SymbolsIn(table.held, table.cohort) |-> price[s]],
                 !.quotes = price]
  /\ TableOnly

\* round(_, 3) of a percentage: thousandths of a percent, ties to even.
HalfEven(n, d) ==
  LET low == n \div d
      twice == 2 * (n % d)
  IN  IF twice > d \/ (twice = d /\ low % 2 = 1) THEN low + 1 ELSE low

Gain(value, baseline) == (value - baseline) * 100000

Line(kind, u) == IF kind = "season" THEN Baselines[u] ELSE Grant

\* A baseline of nothing gives no return to measure.
Return(value, baseline) == IF baseline > 0 THEN HalfEven(Gain(value, baseline), baseline) ELSE 0

Before(a, b) == \/ a.ret > b.ret
                \/ a.ret = b.ret /\ NameKey[a.user] <= NameKey[b.user]

RankInOrder(rows) == [i \in DOMAIN rows |-> i]

\* A row that equals the one above shares its rank.
Ranks(rows) ==
  LET rank[i \in DOMAIN rows] ==
        IF i > 1 /\ rows[i].ret = rows[i - 1].ret THEN rank[i - 1] ELSE i
  IN  rank

\* _ranked: the sort is stable, so rows alike in return and name keep the
\* order the database gave them in, which is any.
Sorted(rows) ==
  {order \in SetToSeqs(rows) : \A i \in 1 .. Len(order) - 1 : Before(order[i], order[i + 1])}

\* The rate of the day, or 0 when there is none to be had.
RateNow == {rate, 0}

Answer ==
  /\ table.at = "answer"
  /\ \E r \in RateNow :
       LET Value(u) == TableEquity(u, table.usd[u], table.held[u], table.price, r)
       IN  \E order \in Sorted({[user |-> u, value |-> Value(u),
                                 ret |-> Return(Value(u), Line(table.kind, u))] :
                                 u \in table.cohort}) :
             shown' = [rows |-> order, ranks |-> Ranks(order), rate |-> r, quotes |-> table.quotes,
                       kind |-> table.kind, usd |-> table.usd, moved |-> table.moved,
                       began |-> table.began]
  /\ table' = NoTable
  /\ UNCHANGED <<accounts, market, job, snap, changes, tables>>

-----------------------------------------------------------------------------
(* The snapshot job *)

JobOnly == UNCHANGED <<accounts, market, table, shown, changes, tables>>

\* The rows of the session reach the table of the day.
Publish == snap' = [u \in Users |-> IF u \in DOMAIN job.rows THEN job.rows[u] ELSE snap[u]]

JobStart ==
  /\ job.at = "due"
  /\ job' = [job EXCEPT !.at = "next"]
  /\ UNCHANGED snap /\ JobOnly

\* The wallets of the next user; the rate is looked up once in a run.
JobWallets(u) ==
  /\ job.at = "next" /\ u \in job.left
  /\ job' = [job EXCEPT !.at = IF u \in DOMAIN Euros /\ job.rate = None THEN "rate" ELSE "holdings",
                         !.who = u, !.usd = usd[u]]
  /\ UNCHANGED snap /\ JobOnly

\* get_exchange_rate commits the session when it has to refresh the rates: the
\* rows of the run are published, and the wallets that the loop over them has
\* not come to yet are expired and read again.
JobRate ==
  /\ job.at = "rate"
  /\ \E r \in RateNow :
       \/ job' = [job EXCEPT !.at = "holdings", !.rate = r] /\ UNCHANGED snap
       \/ \E dollars \in {job.usd, usd[job.who]} :
            /\ job' = [job EXCEPT !.at = "holdings", !.rate = r, !.usd = dollars]
            /\ Publish
  /\ JobOnly

JobHoldings ==
  /\ job.at = "holdings"
  /\ job' = [job EXCEPT !.at = "prices", !.held = held[job.who]]
  /\ UNCHANGED snap /\ JobOnly

UncachedAll(h, cache) == Owned(h)

\* price_cache: a symbol is looked up for the first user who holds it.
Uncached(h, cache) == Owned(h) \ DOMAIN cache

\* A dictionary that has gained an entry.
Put(m, key, value) == [k \in DOMAIN m \cup {key} |-> IF k = key THEN value ELSE m[k]]

JobPrice(s) ==
  /\ job.at = "prices" /\ s \in Uncached(job.held, job.price)
  /\ job' = [job EXCEPT !.price = Put(@, s, price[s])]
  /\ UNCHANGED snap /\ JobOnly

JobRow ==
  /\ job.at = "prices" /\ Owned(job.held) \subseteq DOMAIN job.price
  /\ LET r == IF job.rate = None THEN 0 ELSE job.rate
         row == [equity |-> JobEquity(job.who, job.usd, job.held, job.price, r), rate |-> r,
                 usd |-> job.usd, held |-> job.held]
     IN  job' = [job EXCEPT !.at = "next", !.left = @ \ {job.who}, !.rows = Put(@, job.who, row)]
  /\ UNCHANGED snap /\ JobOnly

\* A user whose data raises is left out; the run goes on.
JobSkip ==
  /\ job.at \in {"holdings", "prices"}
  /\ job' = [job EXCEPT !.at = "next", !.left = @ \ {job.who}]
  /\ UNCHANGED snap /\ JobOnly

\* A failed statement leaves a transaction in which every other fails too, and
\* a killed process none: what the run had not committed is gone.
JobDies ==
  /\ job.at \notin {"due", "done"}
  /\ job' = [job EXCEPT !.at = "done"]
  /\ UNCHANGED snap /\ JobOnly

JobCommit ==
  /\ job.at = "next" /\ job.left = {}
  /\ Publish
  /\ job' = [job EXCEPT !.at = "done"]
  /\ JobOnly

-----------------------------------------------------------------------------
Next ==
  \/ \E u \in Users, s \in Symbols : Buy(u, s) \/ Sell(u, s)
  \/ Quote
  \/ Ask \/ ReadWallets \/ ReadHoldings \/ ReadPrices \/ Answer
  \/ JobStart \/ (\E u \in Users : JobWallets(u)) \/ JobRate \/ JobHoldings
  \/ (\E s \in Symbols : JobPrice(s)) \/ JobRow \/ JobSkip \/ JobDies \/ JobCommit

Spec == Init /\ [][Next]_vars

-----------------------------------------------------------------------------
(* Properties *)

Quantities == [Symbols -> Nat]
Row == [user : Users, value : Int, ret : Int]
Snapshot == [equity : Int, rate : Nat, usd : Int, held : Quantities]

\* Types.  A user has at most one row a table, and the row of the day only
\* with what the job computed.
TypeOK ==
  /\ usd \in [Users -> Int] /\ held \in [Users -> Quantities]
  /\ price \in [Symbols -> Prices] /\ rate \in Rates
  /\ table.at \in {"idle", "wallets", "holdings", "prices", "answer"}
  /\ table.cohort \subseteq Users /\ DOMAIN table.price \subseteq Symbols
  /\ shown.rows \in Seq(Row) /\ DOMAIN shown.ranks = DOMAIN shown.rows
  /\ \A i, k \in DOMAIN shown.rows : shown.rows[i].user = shown.rows[k].user => i = k
  /\ job.at \in {"due", "next", "rate", "holdings", "prices", "done"}
  /\ job.left \subseteq Users /\ DOMAIN job.price \subseteq Symbols
  /\ \A u \in Users : snap[u] # None => snap[u] \in Snapshot

BaselineOf(row) == Line(shown.kind, row.user)

\* A rank is one more than the number of members strictly ahead, so that a tie
\* is shared and skips the places after it; nobody whose return, before it is
\* rounded for display, is higher ranks below; and names settle the order of
\* a tie and nothing else (_ranked, league_service.py:331-355).
RankedJustly ==
  \A i \in DOMAIN shown.rows :
    LET row == shown.rows[i]
        Ahead == {k \in DOMAIN shown.rows : shown.rows[k].ret > row.ret}
    IN  /\ shown.ranks[i] = Cardinality(Ahead) + 1
        /\ \A k \in DOMAIN shown.rows :
             LET other == shown.rows[k]
             IN  /\ (/\ BaselineOf(row) > 0 /\ BaselineOf(other) > 0
                     /\ (row.value - BaselineOf(row)) * BaselineOf(other)
                          > (other.value - BaselineOf(other)) * BaselineOf(row))
                       => shown.ranks[i] <= shown.ranks[k]
                 /\ (row.ret = other.ret /\ i < k)
                       => NameKey[row.user] <= NameKey[other.user]

\* What a table shows of a member is the whole worth of the account as it was
\* when the wallets were read, at the quotes of the moment the prices were:
\* unless the member traded before the holdings were read, and then it is off
\* by at most those shares (_equity_for, league_service.py:229-258).
ShownWasWorth ==
  \A i \in DOMAIN shown.rows :
    LET u == shown.rows[i].user
        worth == Cash(u, shown.usd[u], shown.rate) + Marked(shown.began[u], shown.quotes)
        slack == shown.moved[u] * RateDen * Max({shown.quotes[s] : s \in Symbols})
    IN  /\ shown.rows[i].value <= HalfUp(worth + slack, Unit)
        /\ shown.rows[i].value >= HalfUp(worth - slack, Unit)

\* In one night's snapshots two users who had the same are worth the same,
\* though prices and rates move between their readings (compute_equity's
\* caches, leaderboard_service.py:80-97).
SnapshotsComparable ==
  \A u, v \in Users :
    /\ snap[u] # None /\ snap[v] # None
    /\ snap[u].usd = snap[v].usd /\ snap[u].held = snap[v].held
    /\ Cash(u, 0, 1) = Cash(v, 0, 1)
    => snap[u].equity = snap[v].equity

Apart(u, r) ==
  TableEquity(u, usd[u], held[u], price, r) - JobEquity(u, usd[u], held[u], price, r)

\* A table and a snapshot of the same moment disagree about an account by at
\* most one unit of 0.0001 USD, whatever it has come to hold and whether or not
\* the rate was to be had: the snapshot rounds twice
\* (leaderboard_service.py:99-101 and league_service.py:258).
AgreeToAUnit == \A u \in Users, r \in RateNow : Apart(u, r) \in {-1, 0, 1}

-----------------------------------------------------------------------------
(* What the comments promise and the code breaks: TLC refutes each *)

\* "both must value a wallet the same way or the two would disagree about the
\* same account" (league_service.py:249-250).
AgreeExactly == \A u \in Users, r \in RateNow : Apart(u, r) = 0

\* "Live equity per user" (league_service.py:213): while quotes stand still no
\* trade makes anybody richer, yet what a member buys between the two reads is
\* shown beside the cash that paid for it.
NeverTorn ==
  \A i \in DOMAIN shown.rows :
    LET u == shown.rows[i].user
    IN  Cardinality(Prices) = 1
          => shown.rows[i].value <= HalfUp(Cash(u, Opening, shown.rate), Unit)
=============================================================================
