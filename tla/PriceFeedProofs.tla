--------------------------- MODULE PriceFeedProofs ---------------------------
(***************************************************************************)
(* Theorems about PriceFeed, for every set of symbols, every ranking of    *)
(* them and every number of trades and faults.                             *)
(***************************************************************************)
EXTENDS PriceFeed, TLAPS

\* The newest of the ticks of s that have been heard.
Newest(s) == IF buffer[s] # None THEN buffer[s]
             ELSE IF pending[s] # None THEN pending[s] ELSE row[s]

\* A symbol that has always been hot is the websocket's alone: the poller has
\* not touched it, and its ticks are stored in the order they were heard.
Streamed(s) ==
  /\ heard[s] = Newest(s)
  /\ poll # Idle => s \notin poll.todo /\ poll.prices[s] = None
  /\ row[s].n <= market[s].n /\ buffer[s].n <= market[s].n /\ pending[s].n <= market[s].n
  /\ pending[s] # None => row[s].n <= pending[s].n
  /\ buffer[s] # None => row[s].n <= buffer[s].n /\ pending[s].n <= buffer[s].n

\* A symbol that has never been hot is the poller's alone, until a refresh that
\* has subscribed to it makes it hot: its ticks wait in the buffer till then.
Polled(s) ==
  /\ pending[s] = None /\ buffer[s] = heard[s]
  /\ s \in subs \/ heard[s] # None => refresh.at = "move" /\ s \in refresh.new
  /\ row[s].n <= market[s].n
  /\ poll # Idle /\ poll.prices[s] # None =>
       row[s].n <= poll.prices[s].n /\ poll.prices[s].n <= market[s].n

\* What on_open has still to subscribe was hot when it looked.
OpeningHot == opening # NoSet => \A s \in opening \ moved : s \in hot

\* The thread that refreshes the hot set is the one that flushes.
OneThread == refresh # Idle => pending = Empty

\* Each symbol has one writer as long as it has not changed hands.
OneWriter == \A s \in Symbols \ moved : IF s \in hot THEN Streamed(s) ELSE Polled(s)

\* The inductive invariant.
IInv == TypeOK /\ OpeningHot /\ OneThread /\ OneWriter

-----------------------------------------------------------------------------
(* Types *)

\* A quote's number is a natural number, and no trade is None.
LEMMA QuoteFields ==
  /\ None \in Quotes /\ None.n = 0
  /\ \A q \in Quotes : q.n \in Nat
  /\ \A s \in Symbols, n \in Nat \ {0} : \A p \in Prices[s] :
       LET q == [n |-> n, p |-> p] IN
       q.n = n /\ q # None /\ (n <= MaxTrades[s] => q \in Quotes)
<1>1. None \in Quotes /\ None.n = 0
  BY DEF Quotes, None
<1>2. \A n \in UNION {1 .. MaxTrades[s] : s \in Symbols} : n \in Nat
  BY BoundAssumption
<1>3. \A q \in Quotes : q.n \in Nat
  BY <1>2 DEF Quotes, None
<1>4. ASSUME NEW s \in Symbols, NEW n \in Nat \ {0}, NEW p \in Prices[s]
      PROVE  LET q == [n |-> n, p |-> p] IN
             q.n = n /\ q # None /\ (n <= MaxTrades[s] => q \in Quotes)
  <2>. DEFINE q == [n |-> n, p |-> p]
  <2>1. q.n = n /\ q # None
    BY DEF None
  <2>2. ASSUME n <= MaxTrades[s]
        PROVE  q \in Quotes
    <3>1. n \in 1 .. MaxTrades[s]
      BY <2>2, BoundAssumption
    <3>2. n \in UNION {1 .. MaxTrades[x] : x \in Symbols} /\ p \in UNION {Prices[x] : x \in Symbols}
      BY <3>1
    <3>. QED  BY <3>2 DEF Quotes
  <2>. QED  BY <2>1, <2>2
<1>. QED  BY <1>1, <1>3, <1>4

\* A refresh in progress, a poll in progress.
LEMMA Records ==
  ASSUME TypeOK
  PROVE  /\ refresh # Idle => refresh.at \in {"send", "move"} /\ refresh.new \in Rankings
         /\ refresh.at \in {"send", "move"} => refresh # Idle
         /\ poll # Idle => /\ poll.at = "fetch" /\ poll.todo \subseteq Symbols
                           /\ poll.prices \in [Symbols -> Quotes]
         /\ poll.at = "fetch" => poll # Idle
         /\ hot \subseteq Symbols
BY RankingAssumption DEF TypeOK, Idle

\* What PollFetch and PollFetchFails make of a poll.
LEMMA PollEffect ==
  ASSUME TypeOK, poll # Idle, NEW left \in SUBSET Symbols, NEW prices \in [Symbols -> Quotes],
         poll' = [poll EXCEPT !.todo = left, !.prices = prices] \/
         (poll' = [poll EXCEPT !.todo = left] /\ prices = poll.prices)
  PROVE  /\ poll' \in [at : {"fetch"}, todo : SUBSET Symbols, prices : [Symbols -> Quotes]]
         /\ poll' # Idle /\ poll'.todo = left /\ poll'.prices = prices
<1>1. poll \in [at : {"fetch"}, todo : SUBSET Symbols, prices : [Symbols -> Quotes]]
  BY DEF TypeOK
<1>2. /\ poll' \in [at : {"fetch"}, todo : SUBSET Symbols, prices : [Symbols -> Quotes]]
      /\ poll'.todo = left /\ poll'.prices = prices
  BY <1>1
<1>. QED  BY <1>2 DEF Idle

\* The steps by what they touch.
Streams == \/ Connect \/ OnOpen \/ SubscribeAll \/ Drop
Refreshes == (\E new \in Rankings : RefreshRank(new)) \/ RefreshSend \/ RefreshFails \/ RefreshMove
Flushes == FlushSwap \/ FlushWrite \/ FlushFails
Polls == \/ PollLoad \/ PollWrite \/ PollWriteFails
         \/ \E chunk \in SUBSET Symbols : PollFetch(chunk) \/ PollFetchFails(chunk)

LEMMA NextSteps ==
  Next <=> \/ \E s \in Symbols : \E p \in Prices[s] : Trade(s, p)
           \/ Streams \/ Refreshes \/ Flushes \/ Polls
BY DEF Next, Websocket, Flush, Refresh, Moving, Polling, Streams, Refreshes, Flushes, Polls

LEMMA TradeType ==
  ASSUME TypeOK, NEW s \in Symbols, NEW p \in Prices[s], Trade(s, p)
  PROVE  TypeOK'
<1>. DEFINE q == [n |-> market[s].n + 1, p |-> p]
<1>1. q \in Quotes
  <2>1. market[s].n + 1 \in Nat \ {0}
    BY QuoteFields DEF TypeOK
  <2>. QED  BY <2>1, QuoteFields DEF Trade
<1>2. /\ market' = [market EXCEPT ![s] = q]
      /\ buffer' = [buffer EXCEPT ![s] = q] \/ buffer' = buffer
      /\ heard' = [heard EXCEPT ![s] = q] \/ heard' = heard
      /\ UNCHANGED <<hot, stream, pending, refresh, moved, row, poll, faults>>
  BY DEF Trade
<1>. HIDE DEF q
<1>. QED  BY <1>1, <1>2 DEF TypeOK, stream

LEMMA StreamsType ==
  ASSUME TypeOK, Streams
  PROVE  TypeOK'
<1>. USE DEF TypeOK, stream, ticks
<1>1. CASE Connect
  BY <1>1 DEF Connect
<1>2. CASE OnOpen
  BY <1>2 DEF OnOpen
<1>3. CASE SubscribeAll
  <2>1. opening \subseteq Symbols /\ link = "open"
    BY <1>3, RankingAssumption DEF SubscribeAll
  <2>. QED  BY <1>3, <2>1 DEF SubscribeAll
<1>4. CASE Drop
  BY <1>4, BoundAssumption DEF Drop, Fault
<1>. QED  BY <1>1, <1>2, <1>3, <1>4 DEF Streams

LEMMA RefreshesType ==
  ASSUME TypeOK, Refreshes
  PROVE  TypeOK'
<1>. USE DEF TypeOK, stream, ticks
<1>1. ASSUME NEW new \in Rankings, RefreshRank(new)
      PROVE  TypeOK'
  BY <1>1 DEF RefreshRank
<1>2. CASE RefreshSend
  <2>1. refresh \in [at : {"send", "move"}, new : Rankings] /\ refresh.new \subseteq Symbols
    BY <1>2, RankingAssumption DEF RefreshSend, Idle
  <2>. QED  BY <1>2, <2>1 DEF RefreshSend
<1>3. CASE RefreshFails
  BY <1>3 DEF RefreshFails
<1>4. CASE RefreshMove
  <2>1. refresh.new \in Rankings /\ refresh.new \subseteq Symbols /\ hot \subseteq Symbols
    BY <1>4, RankingAssumption DEF RefreshMove, Idle
  <2>. QED  BY <1>4, <2>1 DEF RefreshMove
<1>. QED  BY <1>1, <1>2, <1>3, <1>4 DEF Refreshes

LEMMA FlushesType ==
  ASSUME TypeOK, Flushes
  PROVE  TypeOK'
<1>. USE QuoteFields DEF TypeOK, stream, ticks, Empty
<1>1. CASE FlushSwap
  BY <1>1 DEF FlushSwap
<1>2. CASE FlushWrite
  BY <1>2 DEF FlushWrite
<1>3. CASE FlushFails
  BY <1>3, BoundAssumption DEF FlushFails, Requeue, Fault
<1>. QED  BY <1>1, <1>2, <1>3 DEF Flushes

LEMMA PollsType ==
  ASSUME TypeOK, Polls
  PROVE  TypeOK'
<1>1. UNCHANGED <<market, hot, stream, ticks, refresh, moved>> /\ faults' \in 0 .. MaxFaults
  <2>1. UNCHANGED <<market, hot, stream, ticks, refresh, moved>> /\ (faults' = faults \/ Fault)
    BY DEF Polls, PollLoad, PollWrite, PollWriteFails, PollFetch, PollFetchFails
  <2>. QED  BY <2>1, BoundAssumption DEF Fault, TypeOK
<1>2. row' \in [Symbols -> Quotes]
  <2>1. CASE PollWrite
    BY <2>1, Records DEF PollWrite, TypeOK
  <2>2. CASE ~PollWrite
    BY <2>2 DEF Polls, PollLoad, PollWriteFails, PollFetch, PollFetchFails, TypeOK
  <2>. QED  BY <2>1, <2>2
<1>3. poll' \in {Idle} \cup [at : {"fetch"}, todo : SUBSET Symbols, prices : [Symbols -> Quotes]]
  <2>1. CASE PollWrite \/ PollWriteFails
    BY <2>1 DEF PollWrite, PollWriteFails
  <2>2. CASE PollLoad
    BY <2>2, QuoteFields DEF PollLoad, Pollable, Empty
  <2>3. ASSUME NEW chunk \in SUBSET Symbols, PollFetch(chunk)
        PROVE  poll' \in [at : {"fetch"}, todo : SUBSET Symbols, prices : [Symbols -> Quotes]]
    <3>. DEFINE prices == [s \in Symbols |-> IF s \in chunk THEN market[s] ELSE poll.prices[s]]
                left == poll.todo \ chunk
    <3>1. poll # Idle /\ left \in SUBSET Symbols /\ prices \in [Symbols -> Quotes]
      BY <2>3, Records DEF PollFetch, TypeOK
    <3>2. poll' = [poll EXCEPT !.todo = left, !.prices = prices]
      BY <2>3 DEF PollFetch
    <3>. HIDE DEF prices, left
    <3>. QED  BY <3>1, <3>2, PollEffect
  <2>4. ASSUME NEW chunk \in SUBSET Symbols, PollFetchFails(chunk)
        PROVE  poll' \in [at : {"fetch"}, todo : SUBSET Symbols, prices : [Symbols -> Quotes]]
    <3>. DEFINE left == poll.todo \ chunk
    <3>1. poll # Idle /\ left \in SUBSET Symbols /\ poll.prices \in [Symbols -> Quotes]
      BY <2>4, Records DEF PollFetchFails
    <3>2. poll' = [poll EXCEPT !.todo = left]
      BY <2>4 DEF PollFetchFails
    <3>. HIDE DEF left
    <3>. QED  BY <3>1, <3>2, PollEffect
  <2>. QED  BY <2>1, <2>2, <2>3, <2>4 DEF Polls
<1>. QED  BY <1>1, <1>2, <1>3 DEF TypeOK, stream, ticks

-----------------------------------------------------------------------------
(* One writer for each symbol *)

\* What the invariant says of a symbol that has not changed hands.
LEMMA SymbolFields ==
  ASSUME TypeOK, NEW s \in Symbols
  PROVE  /\ market[s].n \in Nat /\ row[s].n \in Nat /\ buffer[s].n \in Nat
         /\ pending[s].n \in Nat /\ heard[s].n \in Nat
         /\ poll # Idle => poll.prices[s].n \in Nat
BY QuoteFields, Records DEF TypeOK

LEMMA TradeIInv ==
  ASSUME IInv, NEW t \in Symbols, NEW p \in Prices[t], Trade(t, p)
  PROVE  IInv'
<1>. DEFINE q == [n |-> market[t].n + 1, p |-> p]
<1>0. TypeOK /\ TypeOK' /\ OneWriter
  BY TradeType DEF IInv
<1>1. q # None /\ q.n = market[t].n + 1 /\ None.n = 0
  <2>1. market[t].n + 1 \in Nat \ {0}
    BY <1>0, SymbolFields
  <2>. QED  BY <2>1, QuoteFields
<1>2. /\ market' = [market EXCEPT ![t] = q]
      /\ t \in subs => buffer' = [buffer EXCEPT ![t] = q] /\ heard' = [heard EXCEPT ![t] = q]
      /\ t \notin subs => buffer' = buffer /\ heard' = heard
      /\ UNCHANGED <<hot, subs, link, opening, pending, refresh, moved, row, poll>>
  BY DEF Trade, stream
<1>. HIDE DEF q
<1>3. OpeningHot' /\ OneThread'
  BY <1>2 DEF IInv, OpeningHot, OneThread
<1>4. ASSUME NEW s \in Symbols \ moved
      PROVE  IF s \in hot THEN Streamed(s)' ELSE Polled(s)'
  <2>1. IF s \in hot THEN Streamed(s) ELSE Polled(s)
    BY <1>0 DEF OneWriter
  <2>2. CASE s # t
    <3>1. market'[s] = market[s] /\ buffer'[s] = buffer[s] /\ heard'[s] = heard[s]
      BY <1>0, <1>2, <2>2 DEF TypeOK
    <3>. QED  BY <1>2, <2>1, <3>1 DEF Streamed, Polled, Newest
  <2>3. CASE s = t
    <3>1. /\ market'[s] = q /\ market'[s].n = market[s].n + 1
          /\ \/ buffer'[s] = q /\ heard'[s] = q /\ s \in subs
             \/ buffer'[s] = buffer[s] /\ heard'[s] = heard[s]
      BY <1>0, <1>1, <1>2, <2>3 DEF TypeOK
    <3>2. CASE s \in hot
      BY <1>0, <1>1, <1>2, <2>1, <3>1, <3>2, SymbolFields DEF Streamed, Newest
    <3>3. CASE s \notin hot
      BY <1>0, <1>1, <1>2, <2>1, <3>1, <3>3, SymbolFields DEF Polled
    <3>. QED  BY <3>2, <3>3
  <2>. QED  BY <2>2, <2>3
<1>5. OneWriter'
  BY <1>2, <1>4 DEF OneWriter
<1>. QED  BY <1>0, <1>3, <1>5 DEF IInv

LEMMA StreamsIInv ==
  ASSUME IInv, Streams
  PROVE  IInv'
<1>0. TypeOK /\ TypeOK' /\ OneWriter /\ OpeningHot
  BY StreamsType DEF IInv
<1>1. UNCHANGED <<market, hot, buffer, pending, heard, refresh, moved, row, poll>>
  BY DEF Streams, Connect, OnOpen, SubscribeAll, Drop, ticks
<1>2. OpeningHot' /\ OneThread'
  BY <1>1 DEF Streams, Connect, OnOpen, SubscribeAll, Drop, IInv, OpeningHot, OneThread
<1>3. \A s \in Symbols \ moved : s \in subs' => s \in subs \/ s \in hot
  BY <1>0 DEF Streams, Connect, OnOpen, SubscribeAll, Drop, OpeningHot
<1>4. OneWriter'
  BY <1>0, <1>1, <1>3 DEF OneWriter, Streamed, Polled, Newest
<1>. QED  BY <1>0, <1>2, <1>4 DEF IInv

LEMMA RefreshesIInv ==
  ASSUME IInv, Refreshes
  PROVE  IInv'
<1>0. TypeOK /\ TypeOK' /\ OneWriter /\ OpeningHot /\ OneThread
  BY RefreshesType DEF IInv
<1>1. UNCHANGED <<market, link, opening, buffer, pending, heard, row, poll>>
  BY DEF Refreshes, RefreshRank, RefreshSend, RefreshFails, RefreshMove, ticks, stream
<1>2. moved \subseteq moved' /\ \A s \in Symbols \ moved' : s \in hot <=> s \in hot'
  BY DEF Refreshes, RefreshRank, RefreshSend, RefreshFails, RefreshMove
<1>3. OneThread'
  BY <1>0, <1>1, Records DEF Refreshes, RefreshRank, RefreshSend, RefreshFails, RefreshMove, OneThread
<1>4. OpeningHot'
  <2>1. opening # NoSet => opening \subseteq Symbols
    BY <1>0, RankingAssumption DEF TypeOK
  <2>. QED  BY <1>0, <1>1, <1>2, <2>1 DEF OpeningHot
<1>5. ASSUME NEW s \in Symbols \ moved', s \notin hot,
             s \in subs \/ heard[s] # None => refresh.at = "move" /\ s \in refresh.new
      PROVE  s \in subs' \/ heard[s] # None => refresh'.at = "move" /\ s \in refresh'.new
  <2>1. CASE \E new \in Rankings : RefreshRank(new)
    BY <1>0, <1>5, <2>1, Records DEF RefreshRank, stream, Idle
  <2>2. CASE RefreshSend
    <3>1. refresh \in [at : {"send", "move"}, new : Rankings] /\ refresh.at = "send"
      BY <1>0, <2>2 DEF RefreshSend, TypeOK, Idle
    <3>2. refresh'.at = "move" /\ refresh'.new = refresh.new
      BY <2>2, <3>1 DEF RefreshSend
    <3>. QED  BY <1>5, <2>2, <3>1, <3>2 DEF RefreshSend
  <2>3. CASE RefreshFails
    BY <1>5, <2>3 DEF RefreshFails, stream
  <2>4. CASE RefreshMove
    BY <1>2, <1>5, <2>4 DEF RefreshMove, stream
  <2>. QED  BY <2>1, <2>2, <2>3, <2>4 DEF Refreshes
<1>6. OneWriter'
  BY <1>0, <1>1, <1>2, <1>5 DEF OneWriter, Streamed, Polled, Newest
<1>. QED  BY <1>0, <1>3, <1>4, <1>6 DEF IInv

LEMMA FlushesIInv ==
  ASSUME IInv, Flushes
  PROVE  IInv'
<1>0. TypeOK /\ TypeOK' /\ OneWriter /\ OneThread /\ None.n = 0
  BY FlushesType, QuoteFields DEF IInv
<1>1. UNCHANGED <<market, hot, subs, link, opening, heard, refresh, moved, poll>>
  BY DEF Flushes, FlushSwap, FlushWrite, FlushFails, stream
<1>2. OpeningHot'
  BY <1>1 DEF IInv, OpeningHot
<1>3. OneThread'
  BY <1>0, <1>1 DEF Flushes, FlushSwap, FlushWrite, FlushFails, OneThread
<1>4. ASSUME NEW s \in Symbols
      PROVE  \/ /\ FlushSwap /\ pending[s] = None /\ pending'[s] = buffer[s] /\ buffer'[s] = None
                /\ row'[s] = row[s]
             \/ /\ FlushWrite /\ pending'[s] = None /\ buffer'[s] = buffer[s]
                /\ row'[s] = IF pending[s] # None THEN pending[s] ELSE row[s]
             \/ /\ FlushFails /\ pending'[s] = None /\ row'[s] = row[s]
                /\ buffer'[s] = IF buffer[s] # None THEN buffer[s] ELSE pending[s]
  BY <1>0 DEF Flushes, FlushSwap, FlushWrite, FlushFails, Requeue, Filled, Empty, TypeOK
<1>5. ASSUME NEW s \in Symbols \ moved
      PROVE  IF s \in hot THEN Streamed(s)' ELSE Polled(s)'
  <2>1. IF s \in hot THEN Streamed(s) ELSE Polled(s)
    BY <1>0 DEF OneWriter
  <2>2. CASE s \in hot
    BY <1>0, <1>1, <1>4, <2>1, <2>2, SymbolFields DEF Streamed, Newest
  <2>3. CASE s \notin hot
    <3>1. FlushSwap => buffer[s] = None
      BY <1>0, <2>1, <2>3 DEF FlushSwap, Polled, Idle
    <3>. QED  BY <1>0, <1>1, <1>4, <2>1, <2>3, <3>1 DEF Polled
  <2>. QED  BY <2>2, <2>3
<1>6. OneWriter'
  BY <1>1, <1>5 DEF OneWriter
<1>. QED  BY <1>0, <1>2, <1>3, <1>6 DEF IInv

LEMMA PollsIInv ==
  ASSUME IInv, Polls
  PROVE  IInv'
<1>0. TypeOK /\ TypeOK' /\ OneWriter /\ None.n = 0
  BY PollsType, QuoteFields DEF IInv
<1>1. UNCHANGED <<market, hot, subs, link, opening, buffer, pending, heard, refresh, moved>>
  BY DEF Polls, PollLoad, PollWrite, PollWriteFails, PollFetch, PollFetchFails, stream, ticks
<1>2. OpeningHot' /\ OneThread'
  BY <1>1 DEF IInv, OpeningHot, OneThread
<1>3. ASSUME NEW s \in Symbols
      PROVE  \/ poll' = Idle /\ row'[s] \in {row[s]} \cup
                  (IF poll # Idle /\ poll.prices[s] # None THEN {poll.prices[s]} ELSE {})
             \/ /\ poll' # Idle /\ row'[s] = row[s] /\ poll'.prices[s] = None
                /\ s \in poll'.todo => s \notin hot
             \/ /\ poll # Idle /\ poll' # Idle /\ row'[s] = row[s]
                /\ s \in poll'.todo => s \in poll.todo
                /\ \/ poll'.prices[s] = poll.prices[s]
                   \/ poll'.prices[s] = market[s] /\ s \in poll.todo
  <2>1. CASE PollLoad
    BY <2>1 DEF PollLoad, Pollable, Empty, Idle
  <2>2. CASE PollWrite \/ PollWriteFails
    BY <1>0, <2>2, Records DEF PollWrite, PollWriteFails, Written
  <2>3. ASSUME NEW chunk \in SUBSET Symbols, PollFetch(chunk)
        PROVE  /\ poll # Idle /\ poll' # Idle /\ row'[s] = row[s]
               /\ s \in poll'.todo => s \in poll.todo
               /\ \/ poll'.prices[s] = poll.prices[s]
                  \/ poll'.prices[s] = market[s] /\ s \in poll.todo
    <3>. DEFINE prices == [x \in Symbols |-> IF x \in chunk THEN market[x] ELSE poll.prices[x]]
                left == poll.todo \ chunk
    <3>1. /\ poll # Idle /\ left \in SUBSET Symbols /\ prices \in [Symbols -> Quotes]
          /\ chunk \subseteq poll.todo /\ row' = row
      BY <1>0, <2>3, Records DEF PollFetch, TypeOK
    <3>2. poll' = [poll EXCEPT !.todo = left, !.prices = prices]
      BY <2>3 DEF PollFetch
    <3>3. prices[s] = (IF s \in chunk THEN market[s] ELSE poll.prices[s]) /\ left \subseteq poll.todo
      OBVIOUS
    <3>. HIDE DEF prices, left
    <3>4. poll' # Idle /\ poll'.todo = left /\ poll'.prices = prices
      BY <1>0, <3>1, <3>2, PollEffect
    <3>. QED  BY <3>1, <3>3, <3>4
  <2>4. ASSUME NEW chunk \in SUBSET Symbols, PollFetchFails(chunk)
        PROVE  /\ poll # Idle /\ poll' # Idle /\ row'[s] = row[s]
               /\ s \in poll'.todo => s \in poll.todo
               /\ poll'.prices[s] = poll.prices[s]
    <3>. DEFINE left == poll.todo \ chunk
    <3>1. /\ poll # Idle /\ left \in SUBSET Symbols /\ poll.prices \in [Symbols -> Quotes]
          /\ left \subseteq poll.todo /\ row' = row
      BY <1>0, <2>4, Records DEF PollFetchFails
    <3>2. poll' = [poll EXCEPT !.todo = left]
      BY <2>4 DEF PollFetchFails
    <3>. HIDE DEF left
    <3>3. poll' # Idle /\ poll'.todo = left /\ poll'.prices = poll.prices
      BY <1>0, <3>1, <3>2, PollEffect
    <3>. QED  BY <3>1, <3>3
  <2>. QED  BY <2>1, <2>2, <2>3, <2>4 DEF Polls
<1>4. ASSUME NEW s \in Symbols \ moved
      PROVE  IF s \in hot THEN Streamed(s)' ELSE Polled(s)'
  <2>1. IF s \in hot THEN Streamed(s) ELSE Polled(s)
    BY <1>0 DEF OneWriter
  <2>2. CASE s \in hot
    BY <1>0, <1>1, <1>3, <2>1, <2>2, SymbolFields DEF Streamed, Newest
  <2>3. CASE s \notin hot
    BY <1>0, <1>1, <1>3, <2>1, <2>3, SymbolFields DEF Polled
  <2>. QED  BY <2>2, <2>3
<1>5. OneWriter'
  BY <1>1, <1>4 DEF OneWriter
<1>. QED  BY <1>0, <1>2, <1>5 DEF IInv

LEMMA InitIInv == Init => IInv
<1>. SUFFICES ASSUME Init PROVE IInv
  OBVIOUS
<1>1. TypeOK
  BY QuoteFields, BoundAssumption DEF Init, TypeOK, Empty
<1>2. OpeningHot /\ OneThread
  BY DEF Init, OpeningHot, OneThread
<1>3. OneWriter
  BY QuoteFields DEF Init, OneWriter, Streamed, Polled, Newest, Empty
<1>. QED  BY <1>1, <1>2, <1>3 DEF IInv

LEMMA NextIInv == IInv /\ [Next]_vars => IInv'
<1>. SUFFICES ASSUME IInv, [Next]_vars PROVE IInv'
  OBVIOUS
<1>1. CASE UNCHANGED vars
  BY <1>1 DEF vars, stream, ticks, IInv, TypeOK, OpeningHot, OneThread, OneWriter, Streamed, Polled, Newest
<1>. QED
  BY <1>1, NextSteps, TradeIInv, StreamsIInv, RefreshesIInv, FlushesIInv, PollsIInv

-----------------------------------------------------------------------------
(* Theorems *)

\* The inductive invariant holds in every behaviour.
THEOREM Invariance == Spec => []IInv
BY InitIInv, NextIInv, PTL DEF Spec

\* Quotes, subscriptions, refreshes and polls keep their types.
THEOREM TypeCorrect == Spec => []TypeOK
<1>1. IInv => TypeOK
  BY DEF IInv
<1>. QED  BY <1>1, Invariance, PTL

\* A tick that on_message heard is in the buffer, with the writer or in the table,
\* whatever flush_buffer_to_db re-queues, as long as its symbol keeps its writer.
THEOREM NoTickLost == Spec => []NewestKept
<1>1. IInv => NewestKept
  BY DEF IInv, OneWriter, Streamed, Polled, Newest, NewestKept
<1>. QED  BY <1>1, Invariance, PTL

\* No stored price is replaced by that of an earlier trade (write_prices), as long
\* as its symbol keeps its writer.
THEOREM PricesGoForward == Spec => NeverBackward
<1>1. IInv /\ [Next]_vars => [\A s \in Symbols \ moved : row'[s].n >= row[s].n]_vars
  <2>. SUFFICES ASSUME IInv, Next, NEW s \in Symbols \ moved
                PROVE  row'[s].n >= row[s].n
    OBVIOUS
  <2>0. TypeOK /\ (IF s \in hot THEN Streamed(s) ELSE Polled(s)) /\ row[s].n \in Nat
    BY SymbolFields DEF IInv, OneWriter
  <2>1. CASE FlushWrite
    <3>1. row'[s] = IF pending[s] # None THEN pending[s] ELSE row[s]
      BY <2>1 DEF FlushWrite, Filled
    <3>. QED  BY <2>0, <3>1 DEF Streamed, Polled
  <2>2. CASE PollWrite
    <3>1. poll # Idle /\ row'[s] = IF Written(s) THEN poll.prices[s] ELSE row[s]
      BY <2>0, <2>2, Records DEF PollWrite
    <3>2. Written(s) => poll.prices[s] # None
      BY DEF Written
    <3>. QED  BY <2>0, <3>1, <3>2 DEF Streamed, Polled
  <2>3. CASE ~FlushWrite /\ ~PollWrite
    <3>1. row' = row
      BY <2>3, NextSteps DEF Trade, Streams, Connect, OnOpen, SubscribeAll, Drop, Refreshes, RefreshRank,
        RefreshSend, RefreshFails, RefreshMove, Flushes, FlushSwap, FlushFails, Polls, PollLoad,
        PollWriteFails, PollFetch, PollFetchFails
    <3>. QED  BY <2>0, <3>1
  <2>. QED  BY <2>1, <2>2, <2>3
<1>. QED  BY <1>1, Invariance, PTL DEF Spec, NeverBackward
=============================================================================
