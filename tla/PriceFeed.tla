------------------------------ MODULE PriceFeed -------------------------------
(***************************************************************************)
(* How market prices reach the stock_price table (websocket_listener.py,   *)
(* price_poller.py, price_writer.py).  Three threads of one process:       *)
(*   - the websocket thread subscribes to the hot set and buffers ticks;   *)
(*   - the buffer thread flushes the buffer and, every hour, re-ranks the  *)
(*     hot set and moves the subscriptions;                                *)
(*   - the poller fetches every symbol that is not hot when a cycle starts.*)
(* The hot set is one Python set the three share with no lock.             *)
(*                                                                         *)
(* A quote is a price and the number of its trade, so that an older price  *)
(* can be told from a newer one; the code sees the price only.             *)
(***************************************************************************)
EXTENDS Integers, FiniteSets

CONSTANTS
  Symbols,
  Prices,       \* the prices each symbol may trade at
  Rankings,     \* the hot sets load_symbols may answer: at most FINNHUB_MAX_SYMBOLS
  MaxTrades,    \* trades of each symbol (bound)
  MaxFaults,    \* connections lost, writes and requests failed (bound)
  NoSet

ASSUME RankingAssumption == Rankings \subseteq SUBSET Symbols /\ Rankings # {}
ASSUME PriceAssumption == Prices \in [Symbols -> SUBSET (Nat \ {0})]
ASSUME BoundAssumption == MaxTrades \in [Symbols -> Nat] /\ MaxFaults \in Nat

VARIABLES
  market,           \* the latest trade of each symbol, at the exchange
  hot,              \* WebSocketListener.symbols, PricePoller.exclude_symbols
  link, subs,       \* the connection; what the provider streams on it
  opening,          \* on_open: its copy of the hot set, until it has sent it
  buffer, pending,  \* price_buffer; the buffer a flush has swapped out
  heard,            \* history: the last trade on_message received
  refresh,          \* refresh_hot_set in progress
  moved,            \* history: the symbols that have changed hands
  row,              \* the current_price of each stock_price row
  poll,             \* poll_once in progress
  faults

stream == <<link, subs, opening>>
ticks  == <<buffer, pending, heard>>
vars   == <<market, hot, stream, ticks, refresh, moved, row, poll, faults>>

None == [n |-> 0, p |-> 0]
Quotes == {None} \cup [n : UNION {1 .. MaxTrades[s] : s \in Symbols}, p : UNION {Prices[s] : s \in Symbols}]
Empty == [s \in Symbols |-> None]
Filled(b) == {s \in Symbols : b[s] # None}

Idle == [at |-> "idle"]

\* Nothing is priced yet; the listener has ranked the symbols.
Init ==
  /\ market = Empty
  /\ hot \in Rankings /\ link = "down" /\ subs = {} /\ opening = NoSet
  /\ buffer = Empty /\ pending = Empty /\ heard = Empty /\ refresh = Idle /\ moved = {}
  /\ row = Empty /\ poll = Idle /\ faults = 0

Fault == faults < MaxFaults /\ faults' = faults + 1

-----------------------------------------------------------------------------
(* The websocket *)

\* A trade of a subscribed symbol is a tick: on_message buffers it.
Trade(s, p) == LET q == [n |-> market[s].n + 1, p |-> p] IN
  /\ q.n <= MaxTrades[s]
  /\ market' = [market EXCEPT ![s] = q]
  /\ IF s \in subs THEN buffer' = [buffer EXCEPT ![s] = q] /\ heard' = [heard EXCEPT ![s] = q]
     ELSE UNCHANGED <<buffer, heard>>
  /\ UNCHANGED <<hot, stream, pending, refresh, moved, row, poll, faults>>

Connect ==
  /\ link = "down" /\ link' = "connected"
  /\ UNCHANGED <<market, hot, subs, opening, ticks, refresh, moved, row, poll, faults>>

\* on_open: list(self.symbols), then one message for each.
OnOpen ==
  /\ link = "connected" /\ link' = "open" /\ opening' = hot
  /\ UNCHANGED <<market, hot, subs, ticks, refresh, moved, row, poll, faults>>

SubscribeAll ==
  /\ opening # NoSet /\ subs' = subs \cup opening /\ opening' = NoSet
  /\ UNCHANGED <<market, hot, link, ticks, refresh, moved, row, poll, faults>>

\* on_close: the listener reconnects 30 seconds later.
Drop ==
  /\ link # "down" /\ Fault
  /\ link' = "down" /\ subs' = {} /\ opening' = NoSet
  /\ UNCHANGED <<market, hot, ticks, refresh, moved, row, poll>>

-----------------------------------------------------------------------------
(* The buffer thread: flush_buffer_to_db *)

FlushSwap ==
  /\ refresh = Idle /\ pending = Empty /\ buffer # Empty
  /\ pending' = buffer /\ buffer' = Empty
  /\ UNCHANGED <<market, hot, stream, heard, refresh, moved, row, poll, faults>>

\* write_prices: one upsert of every symbol, committed.
FlushWrite ==
  /\ pending # Empty
  /\ row' = [s \in Symbols |-> IF s \in Filled(pending) THEN pending[s] ELSE row[s]]
  /\ pending' = Empty
  /\ UNCHANGED <<market, hot, stream, buffer, heard, refresh, moved, poll, faults>>

RequeueOver(s) == IF pending[s] # None THEN pending[s] ELSE buffer[s]

\* setdefault: never over a newer tick.
Requeue(s) == IF buffer[s] # None THEN buffer[s] ELSE pending[s]

FlushFails ==
  /\ pending # Empty /\ Fault
  /\ buffer' = [s \in Symbols |-> Requeue(s)] /\ pending' = Empty
  /\ UNCHANGED <<market, hot, stream, heard, refresh, moved, row, poll>>

-----------------------------------------------------------------------------
(* The buffer thread: refresh_hot_set *)

RefreshRank(new) ==
  /\ refresh = Idle /\ pending = Empty /\ new # hot
  /\ refresh' = [at |-> IF link = "down" THEN "move" ELSE "send", new |-> new]
  /\ UNCHANGED <<market, hot, stream, ticks, moved, row, poll, faults>>

RefreshSend ==
  /\ refresh.at = "send" /\ link # "down"
  /\ subs' = (subs \ (hot \ refresh.new)) \cup (refresh.new \ hot)
  /\ refresh' = [refresh EXCEPT !.at = "move"]
  /\ UNCHANGED <<market, hot, link, opening, ticks, moved, row, poll, faults>>

\* "Failed to move websocket subscriptions; will retry next refresh"
RefreshFails ==
  /\ refresh.at = "send" /\ link = "down" /\ refresh' = Idle
  /\ UNCHANGED <<market, hot, stream, ticks, moved, row, poll, faults>>

RefreshMove ==
  /\ refresh.at = "move" /\ hot' = refresh.new /\ refresh' = Idle
  /\ moved' = moved \cup (hot \ hot') \cup (hot' \ hot)
  /\ UNCHANGED <<market, stream, ticks, row, poll, faults>>

-----------------------------------------------------------------------------
(* The poller: poll_once *)

PollableAll == Symbols

PollableFrozen == Symbols \ (CHOOSE r \in Rankings : TRUE)

Pollable == Symbols \ hot

PollLoad ==
  /\ poll = Idle /\ Pollable # {}
  /\ poll' = [at |-> "fetch", todo |-> Pollable, prices |-> Empty]
  /\ UNCHANGED <<market, hot, stream, ticks, refresh, moved, row, faults>>

\* fetch_chunk: the latest trades of some symbols, or an error that skips them.
PollFetch(chunk) ==
  /\ poll.at = "fetch" /\ chunk # {} /\ chunk \subseteq poll.todo
  /\ poll' = [poll EXCEPT !.todo = @ \ chunk,
                !.prices = [s \in Symbols |-> IF s \in chunk THEN market[s] ELSE poll.prices[s]]]
  /\ UNCHANGED <<market, hot, stream, ticks, refresh, moved, row, faults>>

PollFetchFails(chunk) ==
  /\ poll.at = "fetch" /\ chunk # {} /\ chunk \subseteq poll.todo /\ Fault
  /\ poll' = [poll EXCEPT !.todo = @ \ chunk]
  /\ UNCHANGED <<market, hot, stream, ticks, refresh, moved, row>>

WrittenFirst(s) == poll.prices[s] # None /\ row[s] = None

\* skip_unchanged: an equal price is not written again.
Written(s) == poll.prices[s] # None /\ poll.prices[s].p # row[s].p

PollWrite ==
  /\ poll.at = "fetch" /\ poll.todo = {} /\ poll' = Idle
  /\ row' = [s \in Symbols |-> IF Written(s) THEN poll.prices[s] ELSE row[s]]
  /\ UNCHANGED <<market, hot, stream, ticks, refresh, moved, faults>>

PollWriteFails ==
  /\ poll.at = "fetch" /\ poll.todo = {} /\ Filled(poll.prices) # {} /\ Fault /\ poll' = Idle
  /\ UNCHANGED <<market, hot, stream, ticks, refresh, moved, row>>

-----------------------------------------------------------------------------
Websocket == Connect \/ OnOpen \/ SubscribeAll
Flush     == FlushSwap \/ FlushWrite
Moving    == RefreshSend \/ RefreshFails \/ RefreshMove
Refresh   == (\E new \in Rankings : RefreshRank(new)) \/ Moving
Polling   == PollLoad \/ (\E chunk \in SUBSET Symbols : PollFetch(chunk)) \/ PollWrite

Next ==
  \/ \E s \in Symbols : \E p \in Prices[s] : Trade(s, p)
  \/ Websocket \/ Drop \/ Flush \/ FlushFails \/ Refresh \/ Polling
  \/ (\E chunk \in SUBSET Symbols : PollFetchFails(chunk)) \/ PollWriteFails

Spec == Init /\ [][Next]_vars

\* Each thread loops for ever and ends a refresh it has begun; trades, rankings,
\* drops and failures need not happen.
LiveSpec ==
  Spec /\ WF_vars(Websocket) /\ WF_vars(Flush) /\ WF_vars(Moving) /\ WF_vars(Polling)

-----------------------------------------------------------------------------
(* Properties *)

\* The type invariant.
TypeOK ==
  /\ market \in [Symbols -> Quotes] /\ row \in [Symbols -> Quotes]
  /\ buffer \in [Symbols -> Quotes] /\ pending \in [Symbols -> Quotes]
  /\ heard \in [Symbols -> Quotes]
  /\ hot \in Rankings /\ subs \subseteq Symbols /\ moved \subseteq Symbols
  /\ link \in {"down", "connected", "open"} /\ link = "down" => subs = {}
  /\ opening = NoSet \/ (link = "open" /\ opening \in Rankings)
  /\ refresh \in {Idle} \cup [at : {"send", "move"}, new : Rankings]
  /\ poll \in {Idle} \cup [at : {"fetch"}, todo : SUBSET Symbols, prices : [Symbols -> Quotes]]
  /\ faults \in 0 .. MaxFaults

\* A failed flush re-queues its prices "but never over a newer tick": the last
\* tick heard is buffered, being written, or stored, as long as its symbol has
\* not changed hands.
NewestKept ==
  \A s \in Symbols \ moved : heard[s] # None => heard[s] \in {buffer[s], pending[s], row[s]}

\* /stock/price serves the "latest price": a stored price is never replaced by
\* the price of an earlier trade, as long as its symbol has not changed hands
\* between the websocket and the poller.
NeverBackward == [][\A s \in Symbols \ moved : row'[s].n >= row[s].n]_vars

\* "Symbols that drop out are picked up by PricePoller on its next cycle",
\* whatever the connection, the refresh and the requests do.
PickedUp ==
  \A s \in Symbols : (s \notin hot) ~> (s \in hot \/ (poll.at = "fetch" /\ s \in poll.todo))

\* A quiet market is caught up with: every tick heard and every price of a
\* symbol left to the poller ends up stored, unless the symbol changed hands.
CatchesUp ==
  \A s \in Symbols :
    <>[](IF s \in moved THEN TRUE
         ELSE IF s \in hot THEN heard[s] # None => row[s] = heard[s]
         ELSE row[s].p = market[s].p)

-----------------------------------------------------------------------------
(* What the comments promise and these interleavings break: TLC refutes each *)

\* The latest price, of symbols that change hands too.
NeverBackwardEver == [][\A s \in Symbols : row'[s].n >= row[s].n]_vars

\* "PricePoller covers every symbol the websocket doesn't": a symbol the poller
\* leaves to the websocket is one the websocket streams, once its connection
\* is open and no thread is moving subscriptions.
Covered == (link = "open" /\ opening = NoSet /\ refresh = Idle) => hot \subseteq subs
=============================================================================
