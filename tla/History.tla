------------------------------- MODULE History -------------------------------
(***************************************************************************)
(* The daily closes (UpdateHistory): the nightly job that records them     *)
(* from the live prices, the nightly pass that corrects them from a        *)
(* provider, in bulk (Alpaca) or a few tickers a night (Massive), and the  *)
(* boot thread that fills an empty database, over the universe that grows  *)
(* meanwhile.                                                              *)
(*                                                                         *)
(* A day is a day in New York.  It begins with the session; the jobs of    *)
(* its night start at 00:00 (load), 00:05 (closes) and 02:00 (reconcile)   *)
(* UTC, which is still that day there.  The server and the database are    *)
(* taken to keep UTC.  A commit is one step; what a job has read before it *)
(* is in the job's record.                                                 *)
(***************************************************************************)
EXTENDS Universe

CONSTANTS
  Listed,      \* the tickers that trade and of which the providers have bars
  Window,      \* HISTORY_DAYS
  MinRows,     \* MIN_HISTORY_ROWS
  PerRun,      \* HISTORY_RECONCILE_PER_RUN
  Chunk,       \* ALPACA_CHUNK
  Providers,   \* those that may be configured: "alpaca", "massive"
  Weekend, Holidays,   \* the days without a session
  MaxDay       \* the last day (bound)

Days == 1 .. MaxDay
FirstDay == Window + 1

ASSUME HistoryAssumption ==
  /\ Window \in Nat \ {0} /\ MinRows \in Nat /\ PerRun \in Nat \ {0} /\ Chunk \in Nat \ {0}
  /\ MaxDay \in Nat /\ FirstDay \in Days /\ Listed \subseteq All /\ Providers \subseteq {"alpaca", "massive"}
  /\ Weekend \cup Holidays \subseteq Days /\ Weekend \cap Holidays = {}

VARIABLES
  day,
  night,     \* the last of tonight's jobs that has started
  rows,      \* stock_history: ticker, day -> no row, a live close, an official one
  closes,    \* record_daily_closes: whether it is at work, the rows it found
  sync,      \* the backfill of the boot and the pass of the night
  boot,      \* run_initial_seed
  provider,  \* the one that is configured
  phase,     \* the date's ordinal on day 0, as far as the window tells it
  calm       \* history: nights since anything disturbed the correction, up to a bound

history == <<rows, closes, sync, boot, calm>>
fixed   == <<provider, phase>>
historyVars == <<universe, day, night, history, fixed>>

Schedule == <<"session", "load", "closes", "reconcile">>
At(name) == CHOOSE i \in 1 .. 4 : Schedule[i] = name

TradingDays == Days \ (Weekend \cup Holidays)

NotRecording == [on |-> FALSE, have |-> {}]
NotSyncing == [on |-> FALSE, from |-> 0, to |-> 0, left |-> {}, at |-> 0, seen |-> {},
               over |-> {}, ok |-> FALSE]

HistoryInit ==
  /\ UniverseInit
  /\ day = FirstDay /\ night = "session"
  /\ rows = [s \in All |-> [d \in Days |-> "none"]]
  /\ closes = NotRecording
  /\ sync = [a \in {"boot", "night"} |-> NotSyncing]
  /\ boot = "check"
  /\ provider \in Providers
  /\ phase \in IF provider = "massive" THEN 0 .. Cardinality(Loadable) - 1 ELSE {0}
  /\ calm = 0

-----------------------------------------------------------------------------
(* The session, and the loading of tickers *)

\* A boot is done with its tickers by the end of its day, and with the history
\* of all of them a day later (bound).
BootInTime == boot = "done" /\ (sync["boot"].on => sync["boot"].to >= day - 1)

\* The feed writes a price of every ticker that trades, unless it is down.
NextDay ==
  /\ night = "reconcile" /\ ~sync["night"].on /\ day + 1 \in Days /\ BootInTime
  /\ day' = day + 1 /\ night' = "session"
  /\ LET traded == IF day + 1 \in TradingDays THEN available \cap Listed ELSE {} IN
     \/ priced' = priced \cup traded /\ touched' = (traded # {}) /\ UNCHANGED faults
     \/ traded # {} /\ Fault /\ touched' = FALSE /\ UNCHANGED priced
  /\ UNCHANGED <<available, loader, loads, history, fixed>>

NightLoad ==
  /\ night = "session" /\ night' = "load" /\ LoadBegin("night")
  /\ UNCHANGED <<day, history, fixed>>

\* A new ticker changes the list that the window moves over.
Loads == \E l \in Loaders :
  /\ LoadOne(l) \/ LoadFails(l) \/ (l = "night" /\ LoadEnd(l))
  /\ calm' = IF available' = available THEN calm ELSE 0
  /\ UNCHANGED <<day, night, rows, closes, sync, boot, fixed>>

-----------------------------------------------------------------------------
(* record_daily_closes *)

\* Nothing is recorded on a weekend, nor when no price was updated that day.
ClosesRead ==
  /\ night = "load" /\ night' = "closes"
  /\ closes' = IF day \in Weekend \/ ~touched THEN NotRecording
               ELSE [on |-> TRUE, have |-> {s \in All : rows[s][day] # "none"}]
  /\ UNCHANGED <<universe, day, rows, sync, boot, calm, fixed>>

NeverCollides(S) == FALSE

\* uix_symbol_date: a row of the day has been inserted since the job looked.
Collides(S) == \E s \in S : rows[s][day] # "none"

Pruned(table, from) ==
  [s \in All |-> [d \in Days |-> IF d < from THEN "none" ELSE table[s][d]]]

\* Every live close that is not there yet, and the deletion of old rows, in one
\* commit: a collision, like any failure, rolls the whole night back.
ClosesCommit ==
  /\ closes.on
  /\ LET new == priced \ closes.have IN
     \/ /\ ~Collides(new)
        /\ rows' = Pruned([s \in All |-> IF s \in new THEN [rows[s] EXCEPT ![day] = "live"]
                                         ELSE rows[s]], day - Window)
        /\ UNCHANGED faults
     \/ Collides(new) /\ UNCHANGED <<rows, faults>>
     \/ ~Collides(new) /\ Fault /\ UNCHANGED rows
  /\ closes' = NotRecording
  /\ UNCHANGED <<available, priced, touched, loader, loads, day, night, sync, boot, calm, fixed>>

-----------------------------------------------------------------------------
(* sync_history_alpaca and update_price_history: bars of the days from .. to *)

Bars(s, from, to) == IF s \in Listed THEN TradingDays \cap (from .. to) ELSE {}

\* After midnight UTC Massive's dates, which are the server's, are a day ahead.
\* Alpaca has today's bar once the session is over.
FirstBar == IF provider = "massive" /\ night # "session" THEN day - Window + 1 ELSE day - Window
LastBars == IF night # "session" THEN {day}
            ELSE IF provider = "massive" THEN {day - 1} ELSE {day - 1, day}

SyncBegin(a, S, calmly) == \E to \in LastBars :
  sync' = [sync EXCEPT ![a] = [NotSyncing EXCEPT
    !.on = TRUE, !.from = FirstBar, !.to = to, !.left = S, !.over = available, !.ok = calmly]]

Official(table, S, from, to) ==
  [s \in All |-> IF s \notin S THEN table[s]
                 ELSE [d \in Days |-> IF d \in Bars(s, from, to) THEN "official" ELSE table[s][d]]]

\* Alpaca: a chunk is fetched and upserted, or fails.
AlpacaChunk(a) == LET y == sync[a] IN
  /\ provider = "alpaca" /\ y.left # {}
  /\ LET chunk == {s \in y.left : Place(s, y.left) < Chunk} IN
     \E ok \in BOOLEAN :
       /\ IF ok THEN rows' = Official(rows, chunk, y.from, y.to) /\ UNCHANGED faults
                ELSE Fault /\ UNCHANGED rows
       /\ sync' = [sync EXCEPT ![a].left = @ \ chunk, ![a].ok = @ /\ ok]
  /\ UNCHANGED calm

\* Massive: a ticker's bars arrive, or do not; the rows they belong to are read.
MassiveRead(a, s) == LET y == sync[a] IN
  /\ provider = "massive" /\ y.at = 0 /\ s \in y.left
  /\ \/ /\ sync' = [sync EXCEPT ![a].at = s,
                      ![a].seen = {d \in Bars(s, y.from, y.to) : rows[s][d] # "none"}]
        /\ UNCHANGED faults
     \/ Fault /\ sync' = [sync EXCEPT ![a].left = @ \ {s}, ![a].ok = FALSE]
  /\ UNCHANGED <<rows, calm>>

\* Its old rows go and the bars are updated or inserted, in one commit that
\* fails if a row was inserted or deleted since.
MassiveCommit(a) == LET y == sync[a] s == sync[a].at IN
  /\ y.at # 0
  /\ LET ok == \A d \in Bars(s, y.from, y.to) : d \in y.seen <=> rows[s][d] # "none" IN
     /\ rows' = IF ok THEN [Official(rows, {s}, y.from, y.to) EXCEPT ![s] =
                              [d \in Days |-> IF d < y.from THEN "none" ELSE @[d]]]
                ELSE rows
     /\ sync' = [sync EXCEPT ![a].left = @ \ {s}, ![a].at = 0, ![a].seen = {},
                             ![a].ok = @ /\ ok]
  /\ UNCHANGED <<calm, faults>>

\* A night was calm if every request of it was answered and, of the tickers
\* there still are, none lacked history.
SyncEnd(a) == LET y == sync[a] IN
  /\ y.on /\ y.left = {}
  /\ rows' = IF provider = "alpaca" THEN Pruned(rows, y.from) ELSE rows
  /\ calm' = IF a = "boot" THEN calm
             ELSE IF y.ok /\ y.over = available THEN (IF calm < Tickers THEN calm + 1 ELSE calm)
             ELSE 0
  /\ sync' = [sync EXCEPT ![a] = NotSyncing]
  /\ UNCHANGED faults

SyncStep == \E a \in {"boot", "night"} :
  /\ AlpacaChunk(a) \/ (\E s \in All : MassiveRead(a, s)) \/ MassiveCommit(a) \/ SyncEnd(a)
  /\ UNCHANGED <<available, priced, touched, loader, loads, day, night, closes, boot, fixed>>

-----------------------------------------------------------------------------
(* reconcile_price_history *)

\* Tickers with fewer than MIN_HISTORY_ROWS rows in the window.
Thin == {s \in available :
  Cardinality({d \in Days : d > day - Window /\ rows[s][d] # "none"}) < MinRows}

StrideOne(n) == (day + phase) % n

\* Where the window starts in a list of n tickers.
Start(n) == ((day + phase) * PerRun) % n

\* As many thin tickers as a run may take; the room they leave is filled from
\* the window, wrapping round.
Chosen ==
  LET rest == available \ Thin
      room == PerRun - Cardinality(Thin)
  IN  {s \in Thin : Place(s, Thin) < PerRun} \cup
      {s \in rest : (Place(s, rest) - Start(Cardinality(rest))) % Cardinality(rest) < room}

\* By 02:00 the jobs of midnight are over.
Reconcile ==
  /\ night = "closes" /\ night' = "reconcile"
  /\ ~loader["night"].on /\ ~closes.on
  /\ IF provider = "alpaca" THEN SyncBegin("night", available, TRUE)
                            ELSE SyncBegin("night", Chosen, Thin = {})
  /\ UNCHANGED <<universe, day, rows, closes, boot, calm, fixed>>

-----------------------------------------------------------------------------
(* run_initial_seed, and the restart of the process *)

HistoryEmpty == \A s \in All, d \in Days : rows[s][d] = "none"

\* Both tables are looked at before either is filled.
BootCheck ==
  /\ boot = "check"
  /\ \/ /\ available = {} /\ LoadBegin("boot")
        /\ boot' = IF HistoryEmpty THEN "loadThenFill" ELSE "load"
     \/ /\ available # {} /\ UNCHANGED universe
        /\ boot' = IF HistoryEmpty THEN "fill" ELSE "done"
  /\ UNCHANGED <<day, night, rows, closes, sync, calm, fixed>>

BootLoaded ==
  /\ LoadEnd("boot")
  /\ boot' = IF boot = "loadThenFill" THEN "fill" ELSE "done"
  /\ UNCHANGED <<day, night, rows, closes, sync, calm, fixed>>

\* backfill: every ticker there is by now.
BootFill ==
  /\ boot = "fill" /\ boot' = "done"
  /\ SyncBegin("boot", available, TRUE)
  /\ UNCHANGED <<universe, day, night, rows, closes, calm, fixed>>

\* Whatever was at work is gone, and the jobs of the time it was down are not
\* made up for.
Restart ==
  /\ Fault
  /\ loader' = [l \in Loaders |-> NotLoading]
  /\ closes' = NotRecording
  /\ sync' = [a \in {"boot", "night"} |-> NotSyncing]
  /\ boot' = "check" /\ calm' = 0
  /\ night' \in {Schedule[i] : i \in At(night) .. 4}
  /\ UNCHANGED <<available, priced, touched, loads, day, rows, fixed>>

HistoryNext ==
  \/ NextDay \/ NightLoad \/ Loads \/ ClosesRead \/ ClosesCommit \/ Reconcile \/ SyncStep
  \/ BootCheck \/ BootLoaded \/ BootFill \/ Restart

HistorySpec == HistoryInit /\ [][HistoryNext]_historyVars

-----------------------------------------------------------------------------
(* Properties *)

\* A pass holds a ticker only while it waits for that one's answer.
HistoryTypeOK ==
  /\ UniverseTypeOK
  /\ day \in Days /\ night \in {Schedule[i] : i \in 1 .. 4}
  /\ rows \in [All -> [Days -> {"none", "live", "official"}]]
  /\ closes \in [on : BOOLEAN, have : SUBSET All]
  /\ \A a \in {"boot", "night"} :
       /\ sync[a] \in [on : BOOLEAN, from : 0 .. MaxDay, to : 0 .. MaxDay, left : SUBSET All,
                       at : All \cup {0}, seen : SUBSET Days, over : SUBSET All, ok : BOOLEAN]
       /\ sync[a].at # 0 => sync[a].at \in sync[a].left
  /\ boot \in {"check", "load", "loadThenFill", "fill", "done"}
  /\ provider \in Providers /\ phase \in Nat /\ calm \in 0 .. Tickers

\* "Keep rows Massive already wrote: its consolidated close beats our last
\* trade" and "why both jobs can coexist": whatever the closes job, the nightly
\* pass and a boot's backfill overlap, an official close is never replaced by a
\* live one, nor lost while it is in the window.
OfficialKept == [][\A s \in All, d \in Days :
  rows[s][d] = "official" /\ rows'[s][d] # "official" =>
    rows'[s][d] = "none" /\ d <= day - Window]_rows

\* Nights after which every ticker has had its turn: ceil(tickers / limit), or
\* one in bulk.
Period ==
  IF provider = "alpaca" THEN 1 ELSE (Cardinality(available) + PerRun - 1) \div PerRun

\* The last night whose pass is over.
LastPass == IF night = "reconcile" /\ ~sync["night"].on THEN day ELSE day - 1

\* "Every ticker is corrected every ceil(tickers / limit) days": once nothing has
\* disturbed the pass for a period, on whatever date its window is and however it
\* wraps round, every day of the window that a period has passed since has its
\* official close, for every ticker that trades; live closes, gaps that a failed
\* night left and those of the days before a ticker was loaded are all made good.
CorrectedEveryPeriod == calm > 0 /\ calm >= Period =>
  \A s \in available \cap Listed, d \in TradingDays :
    LastPass - Window + 2 <= d /\ d <= LastPass - Period + 1 => rows[s][d] = "official"

-----------------------------------------------------------------------------
(* What the comments promise and the code breaks: TLC refutes each *)

\* "A holiday has no trades, so nothing will have updated that day": the profile
\* of a new ticker brings a price, and every ticker's close is recorded.
HolidaysEmpty == \A s \in All, d \in Holidays : rows[s][d] = "none"

\* "Keeps history current at any ticker count": the job leaves a close of the day
\* for every ticker it has a price of, unless something fails; a boot's backfill
\* that commits a bar of the day meanwhile costs all of them theirs.
EveryCloseRecorded == [][closes.on /\ ~closes'.on /\ faults' = faults =>
  \A s \in priced : rows'[s][day] # "none"]_historyVars

\* The period when some tickers stay thin: they narrow the window while its
\* start still moves by the whole budget every night.
CorrectedThoughThin == faults = 0 /\ day >= FirstDay + RunsNeeded + 2 * Period =>
  \A s \in available \cap Listed, d \in TradingDays :
    LastPass - Window + 2 <= d /\ d <= LastPass - Period + 1 => rows[s][d] = "official"
=============================================================================
