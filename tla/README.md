# Trade simulator backend: a TLA+ verification project

This directory holds TLA+ models of the trade simulator backend, the TLC
configurations that check them on small instances, and TLAPS proofs of the
results that matter most. Paths such as `app/services/...` are relative to the
repository's root. `PROJECT.json` maps every definition to the lines it
translates and lists the runs, the hazards, the theorems, and for every property
a plausible bug that breaks it.

Contents

1. [The system](#1-the-system)
2. [What is hard about it](#2-what-is-hard-about-it)
3. [The modules and the code](#3-the-modules-and-the-code)
4. [The runs: what each shows, its bounds and its fairness](#4-the-runs)
5. [What is proved](#5-what-is-proved)
6. [Where code and comments disagree](#6-where-code-and-comments-disagree)
7. [What is not modelled](#7-what-is-not-modelled)
8. [Plan](#8-plan)
9. [How to run it](#9-how-to-run-it)

## 1. The system

A Flask application served by **one gunicorn worker with four threads**
(`bootstrap.sh`), over **PostgreSQL at READ COMMITTED** through
SQLAlchemy. A request is one database transaction unless the code commits on its
way; a refused or failing request rolls back. In the same process run an
APScheduler background scheduler and three price threads.

| actor | runs | shares with the others |
|---|---|---|
| request threads (4) | services under `app/services/` | tables, row locks, `RateLimiter._hits` |
| seed thread (at boot) | profiles and history of an empty database | tables |
| scheduler | 00:00 stock list, 00:05 daily closes, 01:00 equity snapshots, 01:30 `ensure_season`, 02:00 history reconciliation, 03:00 market caps, 04:00 stale-price report | tables |
| websocket thread | subscribes to the hot set, buffers ticks | hot set, `price_buffer` |
| buffer thread | flushes the buffer, re-ranks the hot set every hour | hot set, `price_buffer`, `stock_price` |
| poller thread | fetches every symbol that is not hot | hot set, `stock_price` |

### Components

| component | state | operations | correct when |
|---|---|---|---|
| **Trading money core** (`stocks_service.py`, `wallet_service.py`) | `wallets`, `users_stock_wallet`, `transactions`, cached rates, row locks | buy, sell, convert, create and delete wallet, refresh rates | no balance or holding overdrawn, the log explains every balance (to a unit per transfer of a tie amount) and share, no money crosses users, every request ends |
| **Fees and rounding** (`utils/fees.py`) | none | half spread, FX markup, `ROUND_HALF_UP` | spreads never favour the user; rounding is bounded |
| **Exchange-rate cache** | `exchange_rates` | look up, refresh (which **commits the caller's transaction**) | a refresh never breaks its caller's atomicity |
| **Leagues** (`league_service.py`) | `leagues`, `league_memberships` | create, join, leave with hand-over, delete | caps hold; every league has an owner among its members |
| **League tables, snapshots** (`league_service.py`, `leaderboard_service.py`) | `equity_snapshots` | season and career table, nightly snapshot | ranks are just; both readers value an account alike |
| **Shadow portfolios** (`shadow_service.py`) | `shadow_links`, `notifications` | invite, accept, decline, end, notify | trades are told to consenting shadows only; caps hold |
| **E-mail verification** (`email_otp.py`, `auth_service.py`) | `email_otps`, `users.is_verified` | issue, send, verify, activate | only the newest code works, once, a few guesses |
| **Seasons** (`leaderboard_service.py`) | `seasons`, `season_participants` | ensure and open a season, enrol a new user | one season at a time; every older account is in it |
| **Sign-up** (`auth_service.py`) | `users`, `wallets` | user, wallet, enrolment in three commits | nobody ends up without money |
| **Price pipeline** (`websocket_listener.py`, `price_poller.py`, `price_writer.py`) | hot set, buffer, `stock_price` | subscribe, tick, flush, re-rank, poll | no tick lost, no price goes back, every symbol covered |
| **Rate limiter** (`utils/rate_limit.py`) | `_hits`, one lock | count, purge, evict | bounded table; nobody refused unjustly |
| **Sessions** (`auth_service.py`, `revokedtoken.py`) | `users.password_hash`, `revoked_tokens`; a token is not stored | sign-in, token check before every handler, logout, password reset | no session without a verified address; a revoked token does no more than it had begun |
| **Watchlist** (`watchlist_service.py`) | `watchlists` | add, remove | the cap holds up to the requests in flight |
| **Stock universe** (`data_seed.py`) | `available_stocks`, first rows of `stock_price` | load a budget of tickers, by night and at boot | every ticker that can be loaded is, however runs overlap and fail |
| **Closes and history** (`utils/update_history.py`) | `stock_history` | record closes, correct them in bulk or a window a night, backfill at boot | official closes stay; every close is corrected within a period |
| Notifications, users, market caps, clients, HTTP surface, migrations | see section 7 | | |

### How they interact

- Trading uses the fees and the rate cache; a buy or sale that has committed then
  calls `notify_shadows`, a transaction of its own.
- Sign-up calls verification and enrols the new user in the running season. A
  season and a snapshot value every account through the wallets, the rate
  cache and `stock_price`; so does a league table.
- The token check stands before every handler; a request that has passed it goes on though the token is
  revoked meanwhile.
- The universe decides what the history jobs ask for, and the profile of a new ticker writes the first price, which
  the closes job takes for a day's trading. The seed thread runs the same jobs beside the nightly ones.
- Prices reach trading, tables and snapshots only through rows of `stock_price`.
- `get_exchange_rate` may commit in the middle of whatever transaction called it:
  a transfer (Trading), the opening of a season (Seasons), a snapshot (Standings).
  It is the one hidden coupling of the system, and three modules have it.

## 2. What is hard about it

Every hazard, with its line and the properties that answer it, is in
`PROJECT.json` under `hazards`. In groups:

- **Row locks against READ COMMITTED.** Reads before a lock, objects expired by a
  commit and re-read without one, locks taken in several orders, a lock on a row
  that is not there yet (the first buy of a symbol).
- **A commit inside a helper** (`_refresh_rates`), which gives the caller's locks back.
- **Checks with no lock**: per-user league cap, shadow caps, wallet per currency, watchlist cap, verification
  counters, the token check. How far can they be passed?
- **Several commits for one operation**: sign-up, verification and activation, a
  reset and its revocation, a seed, a season opened half-way; and a crash between any two of them.
- **Two writers of one row**: the closes job, the nightly correction and a boot's backfill.
- **Work that resumes**: budgets of tickers, windows that move with the date, over a list that grows.
- **Shared memory without a lock**: the hot set, read by three threads.
- **Time**: times read before a lock, `current_timestamp` at transaction start,
  `int()` of a remaining second, windows, grace periods.
- **Rounding**: to the unit at each step, over any sequence of operations; in Python for some amounts, in the
  columns for others, so that two sides of one transfer round apart.
- **Things that must eventually happen**: an answer despite deadlocks, a next
  season, a symbol's next poll, a stored price.

## 3. The modules and the code

```
Fees ──┬── Transfers ──┬── Trading ──── MCTrading
       │               ├── TradeLedger <== Trading
       │               └── Economy
       └── Standings ── MCStandings
LeagueBook <== Leagues ── MCLeagues
Verification ── Sessions ── Accounts ── MCAccounts
Universe ── History ── MCHistory
Shadows ── MCShadows      Seasons ── MCSeasons
PriceFeed ── MCPriceFeed  RateLimiter ── MCRateLimiter

XProofs EXTENDS X and TLAPS, for X = Trading, Leagues, Shadows, Accounts,
PriceFeed, RateLimiter
WorthProofs EXTENDS Standings, Economy   (what an account is worth)
JobsProofs  EXTENDS Seasons, History     (what the schedule drives)
```

`──` is EXTENDS, `<==` is refinement: Leagues instantiates LeagueBook with
`members` and `opened` mapped to its own tables, and Trading instantiates
TradeLedger with `lots` mapped to the holding rows. Economy and History name their formulas
after themselves (`EconomySpec`, `HistorySpec`), since they share a proof module with another component.

### Conventions

- The **tables are what is committed**. A request thread `t` has a program point
  `pc[t]`, its request `req[t]`, and what it has read (`seen[t]`, or fields of
  `req[t]`). One action is one statement that can block or see other transactions'
  commits, together with everything the code does until the next one. What
  a transaction writes reaches the tables at its commit, as the **absolute value**
  computed from what it read, which is what the ORM sends.
- A row lock is a variable from `SELECT ... FOR UPDATE`, or from an `UPDATE`, to the end
  of the transaction. `Abort` is a rollback: locks go, tables stay.
- Money is an integer in units of the columns' scale (0.0001), quantities are
  integers in `1/QtyScale` share, rates are fractions, spreads are basis points. The amount of a transfer, which
  the code takes at any precision, is an integer in `1/AmountScale` of a money unit.
  Rounding is done (`HalfUp`, `HalfEven`), never assumed away.
- `Fail(t)` is a lost connection or a dead process at any point before the commit.
- Every constant that only bounds the exploration has `(bound)` behind it in its
  declaration. They appear in guards only.
- **History variables** (`history:` in the declarations) record what the properties
  speak of and what no table keeps. No guard reads one.
- An operator that stands right before another and that no action uses
  (`UnlockedRead` before `WalletFree`, `AskBelowQuote` before `BuyCost`,
  `RankInOrder` before `Ranks`) is the same code with a plausible mistake in it.
  Put in the place of the right one it breaks a property: this is how each
  property is shown to say something (`mutants` in `PROJECT.json`).

### Module by module

**Fees** — `buy_execution_price`, `sell_execution_price`, `quantize_money`, the ranges of the spreads, and the
lines of the services that combine them: `BuyCost`, `SellProceeds`, `MarketValue`, `WorthBuying`.

**Transfers** — the arithmetic of `transfer_funds`. The amount is never quantized. What is credited is (`Quantized`, or `Gross` less
`FxFee`); what is debited is rounded by `Numeric(18, 4)` when the new balance is stored (`Debited`), and what
the log says of it is rounded by a column of its own (`Column(-amount)`): a tie goes away from zero in both, so it leaves one
unit more than the log says (`Tie`).

**TradeLedger** — what the money core promises, an operation at a time: cash and shares change hands together, at one price
of the market, and only as far as they reach. No thread, no lock, no log.

**Trading** — the money core, statement by statement. A buy fixes its cost
from an unlocked price, locks the wallet, then the holding; a sale locks the holding, reads
the price, then locks the wallet: opposite orders. A transfer locks both wallets in id order,
checks, and converts; if the cached rate has expired it calls the provider and **commits**
(`TransferFetchRates`), then re-reads both wallets without a lock and flushes. A deletion reads the balance
without a lock, then loads the transactions that refer to the wallet, nulls
them and deletes the row; the foreign key catches what was logged in between. `posted`, `refs` and
`shares` are the sums over the `transactions` table that the properties need, `ties` counts a wallet's debits that were ties; `PriceTick` is the
price pipeline, `RateExpires` the clock, `DeadlockVictim` PostgreSQL's detector, which may abort any
member of a cycle.

**Economy** — one user, one price, one rate, no concurrency: what any
sequence of buys, sales and conversions gains by rounding alone. Trading has the interleavings, this has the arithmetic. The rate is the one
fetched for the direction out of USD; the way back uses the reciprocal that `_refresh_rates` derives
and `Numeric(18, 8)` stores (`ReverseNum`, in `1/RateScale`). `turned` is what has been converted back, which that rounding multiplies.

**LeagueBook** and **Leagues** — the abstract register (who owns a league, who is in it; four
one-step operations) and the service: begin, lock, check, commit. `joined_at` is
the time the transaction *began*, as `current_timestamp` is, not the time it got the lock.

**Standings** — two readers of accounts. A league table reads wallets, holdings
and prices in three statements between which others commit; the
snapshot job goes user by user with caches of prices and rate, may
commit half-way in a rate refresh (which expires the wallets its loop has yet to come to, so that they are read again),
skips a user who raises, or dies. Returns are rounded as
`round(_, 3)` does it (ties to even), ranks follow them, and ties share.

**Shadows** — invitations and links. Only `accept` locks the link; the other
requests decide on an unlocked read, and their `UPDATE` writes the status they
decided on — or nothing, when the ORM saw no change.

**Verification** — one account's codes. `verify` reads the newest code, spends its time on a
hash, then writes absolute values. Superseding writes the rows its statement saw.
Accepting a code and activating the account are two commits.

**Seasons** — the season job (one long transaction, maybe published half-way
by a rate refresh) against sign-ups (three commits), with unique constraints that make an equal
insert wait or fail, and a crash at any point.

**PriceFeed** — the three price threads and the exchange. The hot set is replaced
by the buffer thread while the websocket thread copies it in `on_open` and the poller
reads it for its cycle. Quotes carry their trade's number so that old can be told from new.

**RateLimiter** — fixed windows per client and endpoint, purge and eviction; a
thread reads the clock before it takes the lock. What was asked and what was let through is kept, for the properties, as a set of
numbered stamps per key.

**Sessions** and **Accounts** — the rest of one account's life, on top of Verification's threads and program points. A token is
a number up to `minted`; it is good unless it is in `revoked`, which `Admit` looks up once, before the handler. A reset
compares the old password, commits the new one, then revokes in a second transaction, also when the password was
wrong. The watchlist's handlers stand for everything behind the check: the symbol found listed and the cap counted, the list looked up, a row inserted, in
three statements. `AccountSpec` is the composition of all three modules.

**Universe** and **History** — the tickers and their daily closes. A day is a day in New York; `night` is the last of its jobs
that has started. Loading takes the missing tickers that come first in the file, up to the budget, and commits each one;
some never load. The closes job reads what is there and then inserts the rest in one commit, which the unique
constraint refuses if a row has come meanwhile. The correction works in chunks that it upserts (Alpaca), or ticker by
ticker, with a read before the commit (Massive), over the thin tickers and a window that moves with the date. The boot's thread
looks at both tables first and then runs the load and the backfill beside the nightly jobs; `Restart` ends all of them
at any moment. The day of a bar and the "today" of each job are modelled for a server and a database that keep UTC: after
midnight UTC Massive's dates are a day ahead of the market's, and Alpaca has the bar of the day once the session is over.

## 4. The runs

Every run ends in a complete exploration. Each asks what could really go wrong in its part. The `TypeOK` of a
module says what its variables range over; all are proved, and each can be added to a cfg. All take `CHECK_DEADLOCK FALSE`, because requests, trades or days are
bounded: when they are used up the model stops, as it should. (Real
deadlocks, of row locks, are states of Trading that `DeadlockNeedsSaleAndBuy` describes and
`EveryRequestAnswered` shows to end.) Symmetry is used on interchangeable model
values and in runs without liveness properties only.

| run | shows | instance |
|---|---|---|
| `TradingCore` | Every commit is one operation of TradeLedger; every locked read is still current at it; no overdraft; the log explains every balance but for the unit each tie leaves; a position has no more rows than its user has wallets; a lock cycle always has a sale waiting for its wallet and a buy waiting for its holding. | 1 user with a USD and a EUR wallet, 3 threads, 4 requests, 1 symbol at 2 prices, transfers of one and a half units, 3 holding rows |
| `TradingLive` | No step moves money between users, though requests name each other's wallets; every request ends. | 2 users, 2 threads, 3 requests of all five operations, rates that expire |
| `TradingStaleRate` | *Violation*: a transfer that has to refresh the rates gives its locks back between check and debit, and two of them overdraw a wallet. | 1 user, 2 wallets, 2 threads, 2 transfers |
| `EconomyDrift` | Any order and split of trades and conversions gains at most half a unit of each currency per operation, and half a unit of the rate's column for each unit converted back. | 3 quotes, 5 quantities (tenths of a share), 5 amounts (quarters of a unit), a rate of 7 to 2 and a reciprocal of two decimals, 6 operations |
| `LeaguesCore` | Every commit is a step of LeagueBook, which has the caps; every league has an owner who is its member; the per-user cap is overshot by requests in flight at most. | 3 users, 2 threads, 4 requests, caps of 2 |
| `StandingsCore` | Ranks follow returns and share ties; who sat still is shown at what he was worth; one night's snapshots use one price; table and snapshot agree to a unit. | 3 users (one with euros, one not in the season, two names that differ in case only), half shares, 3 changes, 1 table |
| `ShadowsCore` | Acceptance by the invitee while the invitation stands; trades told to consenting shadows; links end by choice; caps passed by accepts in flight at most. | 4 users, 2 threads, 4 requests, caps of 1, starting empty or with one user's invitations to all |
| `AccountsCore` | No code comes back to life; as long as requests do not overlap, the newest only, accepted once and before the cap. No session before a code was accepted; a revoked token commits what it had in flight at most, and the watchlist passes its cap by no more. | 1 account, new or just verified, 2 threads, 3 codes, 5 requests (4 when it starts verified), 2 guesses a code, 2 ticks a second, 2 passwords, 2 tokens, 3 symbols of which one is not listed, and a cap of 1 |
| `SeasonsCore` | Seasons never overlap; latecomers stay out; older accounts are in; a lapsed season is followed by another. | 2 old accounts (one foreign), 1 sign-up, seasons of 3 days, grace of 1, 6 days, 1 crash anywhere |
| `FeedCore` | Newest tick kept, no stored price goes back, what leaves the hot set is polled, a quiet market is caught up with. | 2 symbols of which 1 is hot, 3 trades, 1 fault of any kind |
| `RateCore` | Bounded table; nobody refused who did not use up the limit; two windows' burst at most. | 2 threads, 3 keys with windows of 1 and 3 seconds, room for 1 entry, 5 requests, 4 seconds |
| `HistoryCore` | Enough undisturbed nights load every ticker that can be loaded; an official close is never replaced nor lost within the window; after an undisturbed period every close a period old is official. | 6 tickers, of which one loads under another's symbol, one has no price and one is not traded; 2 a night to load and to correct, both providers, any start of the window, 9 days with 3 closed ones, 1 failure or restart anywhere |

### The bounds, and why they are enough

Each instance is the smallest in which the cases of its module meet, and each
property has a mutant of the code that breaks it *within these bounds*.

- `Trading`: `MaxRequests` 4 over three threads lets a finished trade precede three that overlap, and
  a cycle of two leave a third waiting. `MaxWallets` 2 is what an account has
  at most per the two currencies; `HoldingIds` has one row more than that, so that
  `RowPerWallet` could fail. An amount of 3 in halves of a unit (`AmountScale` 2) is a tie,
  where balance and log round apart. Prices 2 and 3 with a 20% half spread make rounding,
  refusal and affordability differ between mid price and ask.
- `Leagues`: `MaxRequests` bounds leagues and requests together; four are create, join, and two racing leaves or deletes.
- `Economy`: `MaxOps` 6 covers buying in parts and selling at once, and both ways of a conversion,
  with dust on either side and a reciprocal (2/7 in hundredths: 29) that favours the user. The bound is per operation and is proved for every number of them.
- `Shadows`: caps of 1 are passed by the second of two accepts; the initial states with open invitations
  leave all four requests for what follows an invitation.
- `Accounts`: `MaxRequests` 5 over two threads holds a whole life (issue, verify, sign in, reset, one more); the start with a
  verified account leaves four requests for what follows. A cap of 1 is passed by two adds in flight, and removing lets it be passed again. `MaxTokens` 2 lets a
  new session outlive a revoked one. `MaxCodes` 3 gives a code two generations of successors; `MaxClock` 2 at `Ttl` 1 has live, just expired and long expired.
- `Seasons`: `MaxClock` 5 reaches the second season's grace window and its last day; `MaxCrashes` 1 strikes anywhere.
- `PriceFeed`: `MaxTrades` 2 is an old and a new price; `MaxFaults` 1 is any one failure; more trades or faults repeat these.
- `RateLimiter`: `MaxTracked` 1 below three keys evicts live windows; `PurgeInterval` 2 lies between the two windows; `MaxServed` 5 fills a window twice and more.
- `History`: 6 tickers at 2 a night need three nights and a fourth for the stuck one; a `Window` of 5 days holds the longest `Period` and a
  weekend; `MaxDay` leaves a period after one failure. `MaxFaults` 1 strikes anything once: a request, a commit, a day's feed, the
  process. `Chunk` 2 splits a bulk pass. `BootInTime` is a bound on time: a boot loads within its day and backfills within two.
- `Standings`: `MaxChanges` 3 are two trades and a quote or the reverse; more tables (`MaxTables`) are independent of one another. The job and the tables write nothing the other reads, so a behaviour has one or the other.

### Fairness

- `Trading!LiveSpec`: weak fairness of each thread's next statement (`Advance(t)`: gunicorn's threads
  run, and the database serves a statement whose lock is free) and of the deadlock
  detector (`DeadlockVictim(t)`: PostgreSQL's `deadlock_timeout`). Weak fairness suffices, since a lock that others
  keep taking would need ever new requests, which are bounded. With an unbounded stream of them
  the promise rests on PostgreSQL's lock queue, which is not modelled.
  Users, price ticks, expiry and failures need never act.
- `Seasons!LiveSpec`: the scheduler runs `ensure_season` every night, and the job, once begun, proceeds.
- `PriceFeed!LiveSpec`: the three daemon threads loop for ever and the listener
  reconnects. Trades, re-rankings, lost connections and failures need not happen.

## 5. What is proved

By TLAPS, for every value of the constants that meets the named assumptions, every number of
users, threads, wallets, leagues and requests: the bounds are constants like the others, and any value of them will do.
The assumptions say that caps, spreads and windows are numbers of the right kind, that sets whose members
the code counts or adds up (members of a league, users and symbols of a table, tickers of a file) are finite, and that model values such as `NoThread` or `NoJob` are none of the values they stand
beside. A hypothesis beyond them is named in the last column.

Each proof module begins with its inductive invariant, `IInv` or, where a module proves about two components,
`TablesInv`, `EconomyInv`, `SeasonsInv`, `HistoryInv`. It has been checked by TLC on the instance of the component's run
before it was proved: add it to a cfg whose MC module extends the proof module to see that again. A proof
has one step per action and under it one per conjunct the action can disturb; frame lemmas serve what stands still.

| module | theorem | says | assumes |
|---|---|---|---|
| TradingProofs | `ReadsStayCurrent` | `Spec => []LockedReadsCurrent` (of transfers, its conjunct asks `~RatesExpire` itself) | – |
| | `NeverOversold` | `Spec => []NoOversell` | – |
| | `Solvency` | `Spec => []NoOverdraft` | `~RatesExpire` |
| | `LedgerCorrect` | `Spec => []LedgerReconciles`, for any precision of the amounts: balance = opening + logged + one unit per debit that was a tie | `~RatesExpire` |
| | `Refinement` | `Spec => LedgerSpec` | `~RatesExpire` |
| | `DeadlocksAreSalesAgainstBuys` | `Spec => []DeadlockNeedsSaleAndBuy` | – |
| | `MoneyStaysHome` | `Spec => OneUserAtATime` | – |
| | `RowsBounded` | `Spec => []RowPerWallet` | `"delete" \notin Ops` |
| LeaguesProofs | `CapHolds` | `Spec => []MemberCap` | – |
| | `Owned` | `Spec => []OwnerIsMember` | – |
| | `OverCapIsBounded` | `Spec => []OverCapBounded` | – |
| | `Refinement` | `Spec => BookSpec` | – |
| WorthProofs | `DriftStaysBounded` | `EconomySpec => []DriftBounded`, for any scale of the amounts and of the rate column | – |
| | `SpreadsAlwaysCost` | `EconomySpec => []SpreadsCost` (the fee is never negative; arithmetic, no run) | – |
| | `TwoRoundings` | the roundings of two parts add up to the rounding of the sum, to one unit (the arithmetic of `AgreeToAUnit`) | – |
| | `SnapshotsAreComparable` | `Spec => []SnapshotsComparable` (Standings) | – |
| | `ReadersAgreeToAUnit` | `Spec => []AgreeToAUnit` | – |
| | `TablesShowWorth` | `Spec => []ShownWasWorth` | – |
| | `TablesRankJustly` | `Spec => []RankedJustly` | – |
| ShadowsProofs | `TradesStayPrivate` | `Spec => []TradesToldToShadowsOnly` | – |
| | `OnlyInviteeAccepts` | `Spec => AcceptedByInvitee` | – |
| | `LinksEndByChoice` | `Spec => EndsByChoice` | – |
| | `CapsHold` | `Spec => []CapsBounded` | – |
| AccountsProofs | `SessionsNeedProof` | `AccountSpec => []SessionNeedsProof` | – |
| | `LateWritesAreBounded` | `AccountSpec => []LateWritesBounded` | – |
| | `ListBoundHolds` | `AccountSpec => []ListOverCapBounded` | – |
| | `NewestOnly` | `AccountSpec => []OnlyNewestLive` | – |
| | `ConsumedForEver` | `AccountSpec => NoRevival` | – |
| | `AcceptedOnceBeforeCap` | `AccountSpec => YesOnceBeforeCap` | – |
| JobsProofs | `OneSeasonAtATime` | `Spec => []SeasonsApart` | – |
| | `LatecomersExcluded` | `Spec => []LateExcluded` | – |
| | `EverybodyHasABaseline` | `Spec => []BaselinesFrozen` | – |
| | `EveryTickerIsLoaded` | `HistorySpec => []EveryTickerLoads` | – |
| | `OfficialStays` | `HistorySpec => OfficialKept` | – |
| | `EveryPeriodCorrects` | `HistorySpec => []CorrectedEveryPeriod` | – |
| PriceFeedProofs | `NoTickLost` | `Spec => []NewestKept` | – |
| | `PricesGoForward` | `Spec => NeverBackward` | – |
| RateLimiterProofs | `TableBounded` | `Spec => []Bounded` | – |
| | `NobodyBlockedUnjustly` | `Spec => []BlockedJustly` | – |
| | `BurstsBounded` | `Spec => []BurstBounded` | – |

For every component there are also its type invariant (`TypeCorrect`; `TablesTypeCorrect`, `EconomyTypeCorrect`, `SeasonsTypeCorrect`,
`HistoryTypeCorrect` where two share a module) and, for all but Economy, the inductive one (`Invariance`; `TablesInvariant`,
`SeasonsInvariance`, `HistoryInvariance`).

`~RatesExpire` is no convenience: the run `TradingStaleRate` shows that `Solvency` fails without it, and with it the refinement.
Nor is `"delete" \notin Ops`: a deleted wallet leaves its user's holdings behind.

### Along which argument

**Trading.** `IInv == TypeOK /\ UnusedIds /\ LockedReadsCurrent /\ (~RatesExpire => rateFresh)`. `LockedReadsCurrent` is the
heart of it, and `NoOverdraft` is not inductive without it: a debit is `seen.bal - seen.value`, and it is safe because what the
transaction saw is still what the table holds. That holds in turn because the rows are locked by it (`RowsHeld`) and no
other step writes a row locked by another. A debit of an unquantized amount is `DebitedWhenCovered`: covered by the balance, it leaves
no less than nothing, and what the log says, up to the unit of a tie. `UnusedIds` says that ids the sequence has not given out have no row, no lock and no log.
The refinement needs `Priced` besides: the value of a trade underway is that of its quantity at some price of the market,
and the rows it is about to write are its user's; then a commit is one operation of TradeLedger at that price, and
every other step a stutter. `OneUserAtATime` needs only that a transfer past its ownership check names wallets whose ids are taken
(`WalletsAreTheUsers`): owners never change and ids are never used twice, so it holds after a rate refresh has given the locks
back. `DeadlockNeedsSaleAndBuy` follows from what each program point may hold (`OnlyItsRows`):
who holds a wallet and waits is a buy that waits for its holding or a transfer that waits for its second wallet. If
no buy were in the cycle it would be transfers alone, and the one whose second wallet has the greatest id waits for one with
a greater. `RowPerWallet` is the count `RowsPaidFor`: a position's rows and the wallets locked by first buys of it are
together no more than the user's wallets.

**Leagues.** `Checked(t)` carries what a request found under the row lock (room for one more; a member who leaves; an
owner alone) to its commit, which is then a step of LeagueBook. The cap that no lock guards is a count (`RoomForAll`): a user's leagues and the
threads that have counted them and may yet add one stay below cap plus threads, since whoever counted below the cap left room for all.
Shadows (`CapInv`, per user and side) and the watchlist (`ListBounded`) are bounded by the same count.

**Economy.** `EconomyInv == EconomyTypeOK /\ DriftBounded`. The lemmas on `HalfUp` bound one rounding (at most half a
unit up), those on the spreads show that ask and bid lie on the right sides of the quote after
rounding; `DriftMoves` adds one operation's share each step, for all prices, rates,
spreads below one half, precisions and lengths. A conversion back is worth what `ConversionGain` says at the stored
reciprocal, and that is at most half a unit of its column from the true one for every unit converted (`ConvertBackKeeps`).

**Shadows.** `Knows(t)`: an accept between lock and commit has the link, which is still pending, and is the invited user's; requests that end a link are of
one of its two users. `LinksTold`: every invitation, and every acceptance, has its notification, and notifications are never taken
back; so an audience read from accepted links has been told of both, whatever became of the links since.

**Accounts.** `Judged`, `ProofFirst`, `Answered`: a judgement that accepts a code is on its way to
record it, and only a recorded acceptance lets anyone activate, sign in or mint. `LateBounded`: the writes of a revoked
token and the threads that still act for it are together fewer than the threads, since the one that
revoked it is none of them. `Serial` is the part about requests that do not overlap: what the one request underway has read is still so. `NoRevival` needs none of
it: every write of `consumed` keeps what is set, as a judgement is made of an unconsumed code and consumes or counts.

**Seasons.** `JobSound`: while the season of the job is not published, all others have ended before it starts, and every older account
is on the job's list or among its rows; once a rate refresh has published it half-way it is in `early`, of which `BaselinesFrozen` promises nothing.
`ChosenInGrace`: a sign-up that has chosen a season was in its grace window, and creation dates do not change while it waits.

**PriceFeed.** `OneWriter`: a symbol that has not changed hands is either the websocket's, and then the copies in table, pending batch and
buffer are in the order they were heard, with the newest among them; or the poller's, and then the buffer has nothing for the
writer until a refresh makes it hot. `OneThread` (flush and refresh are one thread's) keeps a batch from being pending while the set changes.

**RateLimiter.** `Counted` (an entry has its own key's window and counts at most the requests since its start) gives
`BlockedJustly` in the presence of evictions and of times out of order. For the burst, `Opened` and `Closed` say what a
tracked and an untracked key have let through: at most the limit since the window opened, and at most the limit in a window's time before that; an interval that reaches the last
request splits into these two (`Split`, `TwoWindows`). That a purge which counts no live window among the dropped has dropped
expired ones only (`Purged`) is where `loose` is needed.

**Standings.** `TablesInv`: what a table has read lies near what there was when it began (as much as the trades since
account for), and each row of the night's run is what the run's caches give for what its user had when he came up. The cache of the rate is filled
once a night, and no cached price is ever replaced; so equal possessions give equal sums. The worth of an account is a fold over
its symbols, the ranks a recursive function down the sorted entries. What they are for every input is an induction over data; it is done with
`WFMin`, from which a non-empty set of naturals has a least element (`Least`); the claim then has a least place (`Induct`), or a smallest set
(`SubsetInduct`), at which it would fail. The lemmas that come of it (a sum depends on its map only on the set it runs over, is monotone, and takes one more symbol as one more term) carry the rest, with
`TwoRoundings` for the unit between the readers. Ranks need one more fact: the number of entries strictly ahead is the place of the first
that ties.

**Universe.** `LoadInv` says what was loaded after `loads` undisturbed runs (`loads` times the gain of one, or
everything), and, of a run still undisturbed, that together with what it has left to ask for it will have brought one gain more
(`Ahead`). The gain is the budget less the stuck tickers: a batch is the budget's size unless it is all that is missing
(`BatchSize`), and at most the stuck ones in it bring nothing (`RunReaches`). Nothing takes tickers away, so the boot's run,
failures and restarts between can only help.

**History.** `PassesOK` gives `OfficialKept`: a pass deletes nothing younger than the window, whenever it began, and the closes job
inserts only where there is no row. For the period, `ThisNight` follows a pass: of the tickers whose turn it is
(`Turn`), those it no longer has left are official up to today unless something failed; when it ends that becomes the newest
of the `PastNights`, which each say the same of their day. `Turn` is `Chosen` when no ticker is thin. What is left is arithmetic
(`ComesRound`): windows of b places that begin b further each night, modulo n, pass over every place in ceil(n / b) nights,
on whatever date they begin. If tickers come, the list changes and `calm` starts anew.

### What is only model-checked

- `SeasonOpens` (Seasons), `EveryRequestAnswered` (Trading), `PickedUp` and `CatchesUp` (PriceFeed): liveness, with fairness and
  ENABLED, which TLAPS does not reach. Every other property of a passing run is a theorem.

## 6. Where code and comments disagree

One disagreement has a run of its own (`TradingStaleRate`): `wallet_service.py:191` locks both wallets for the
transfer, and `_refresh_rates` commits them free before the debit.

Each module ends with the statements that comments or docs make and its behaviours break, under
"what the comments promise". They are not part of any run. To see the counterexample, name one in the run's cfg
in place of the others.

| module | statement | what breaks it |
|---|---|---|
| Trading | `PositionInOneRow` | two first buys through two wallets insert two rows; a sale takes `.first()` and may be refused for want of shares that are in the other |
| Trading | `LedgerExact` | `validation_utils.py:4-6` says app-side arithmetic is aligned with what the database stores; `transfer_funds` does not quantize the amount, and balance and log round it apart: 1.0000 less 0.00005 stays 1.0000 while the log takes 0.0001. `LedgerReconciles` is the exact account of it |
| Trading | `NeverDeletesMoney` | the balance is checked without a lock; a sale or transfer that commits before the flush is deleted with the wallet (its own log row permitting) |
| Leagues | `UserCap` | counted before any lock |
| Leagues | `OwnerNeverLeaves` | `docs/economy-and-leaderboards.md:110` says the owner cannot leave; the code, and the same document later, hand the league over |
| Leagues | `LongestStandingInherits` | `joined_at` is a transaction's start; a later insert may carry an earlier time |
| Economy | `NeverRicher`, `CreditsArePaid` | an amount below half a unit is credited rounded up and debited rounded down; bounded by `DriftBounded` |
| Shadows | `Caps` | the accepts lock their own links only, not the counts |
| Shadows | `ReinvitesEndedOnly` | an invite that read a declined link writes PENDING over an acceptance |
| Shadows | `AcceptanceStands` | a decline decided while the invitation was open overwrites an acceptance committed since |
| Shadows | `ToldWhileShadowing` | the links are read before the notifications are written: one revoked in between is still told |
| Verification | `OnlyNewestEver`, `CountedAlways` | nothing locks a code; two requests overlap |
| Verification | `CooldownFloor` | `int()` drops the last fraction of a second |
| Verification | `RightCodeActivates` | the code is consumed in one commit, the account activated in the next |
| Seasons | `FrozenAlways`, `BaselineIsWorth` | a rate refresh publishes a season half-way, and a crash leaves it so; a missing rate counts foreign money as nothing |
| Seasons | `GraceEnrols`, `SameLine`, `GrantedAtSignup` | sign-up is three commits |
| PriceFeed | `NeverBackwardEver`, `Covered` | the hot set changes hands between the threads |
| Accounts | `WatchedOnce`, `ListWithinCap` | count, look-up and insert are three statements, with no constraint behind them |
| Accounts | `ResetTold` | the password is committed before the token is revoked; a logout in between makes the revocation fail, and the answer says the reset did |
| Universe | `ResumesWhereItStopped` | tickers that never load are asked for again every night, first |
| History | `HolidaysEmpty` | the profile of a ticker loaded on a holiday night writes a price, so the closes job sees a day of trading |
| History | `EveryCloseRecorded` | a backfill commits a bar of the day between the job's look and its commit: the whole night's closes are rolled back |
| History | `CorrectedThoughThin` (with `Quoted = {1, 2, 5, 6}`, `Providers = {"massive"}`, `MaxFaults = 0`, `MaxDay = 20`) | tickers that stay thin narrow the window while its start moves on by the full budget |
| Standings | `AgreeExactly` | the snapshot rounds twice, the table once |
| Standings | `NeverTorn` (with `Prices = {3}`) | a buy between the read of the wallets and that of the holdings is counted twice |

One more has no statement of its own. `auth_routes.py:116-118` signs the user in after a verification because
"they just proved control of the address one step ago"; `verify_email` (`auth_service.py:184`) answers for an account that is already
verified without judging a code, and of two overlapping requests with the right code both may be told yes, so that more sessions than
proofs are minted. The models have it (`VerifyAgain`, `ActivateAndMint`, two threads past `VerifyRead`), and
`SessionNeedsProof` speaks of the first proof only.

Some properties of passing runs are about the part of a promise the code keeps, and the exempted part is one of these statements:
`OnlyNewestLive` and `YesOnceBeforeCap` (requests that do not overlap), `NeverBackward` (symbols that do not change hands),
`BaselinesFrozen` (seasons committed whole), `EndsByChoice`, `TradesToldToShadowsOnly` and `CorrectedEveryPeriod` (nights without
thin tickers). `PROJECT.json` does not credit them with the hazards they exempt.

## 7. What is not modelled

- **Users, transaction history, notifications' listing**: queries and single-row updates nothing contends for.
- **Market caps, stale-price report**: one column that no decision reads, and a log line.
- **E-mail and provider clients, HTTP surface, migrations, configuration**: I/O, parsing, wording. Where the core depends
  on them the models have their outcomes: an answer, a failure, a constraint of the schema.

Partly modelled: the rate cache (as fresh or not, and as found, refreshed or missing; not the JSON of its provider), sign-up (its commits, not its form),
the universe (its loading, not the market caps), notifications (those the shadow operations write), the schedule (the jobs above).

A fetched rate is taken to have no more digits than its column; the amount's own `Decimal` context (28 digits) is taken as exact.

The lock queue of PostgreSQL is not modelled: a free row may be taken by any waiter. Every property that is
shown holds for any order; `EveryRequestAnswered` is as section 4 says.

## 8. Plan

Done, in this order: Fees and Trading with proofs; Leagues with its abstract book and proofs; Economy with
proofs; Shadows; Verification; Seasons; PriceFeed; RateLimiter; Standings; TradeLedger and the refinement to it; Universe and
History; Sessions and Accounts; the proofs of each, last those of Standings and History.

Proofs, done: the refinements of both abstract specifications, and every safety property that a passing run checks (section 5).

Next, by what it would add:

1. **Trading and Shadows together**: a trade's notification after its commit, and what a crash between the two leaves out.
2. **Thin tickers in History**: the period that does hold while some stay thin (`CorrectedThoughThin` shows that `Period` does not).
3. **Market caps** beside the loading of tickers, if anything comes to read them.

## 9. How to run it

    tlc -workers 2 -config TradingCore.cfg MCTrading.tla
    tlapm TradingProofs.tla

Each run of section 4 takes its `.cfg` of the same name and the `MC` module of its
component (`EconomyDrift` takes `Economy.tla`). The longest runs take about two minutes, the proofs of
Trading about eight, those of each other module one to three.
