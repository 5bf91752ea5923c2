----------------------------- MODULE RateLimiter ------------------------------
(***************************************************************************)
(* The in-memory rate limiter (utils/rate_limit.py): fixed windows counted *)
(* per client and endpoint, in a table of bounded size, by the threads of  *)
(* one worker.  A thread reads the time before it takes the lock, so the   *)
(* times in the table may be older than the one of the thread before.      *)
(***************************************************************************)
EXTENDS Integers, FiniteSets

CONSTANTS
  Threads, Keys,
  Limit, Window,   \* max_requests and window_seconds of each key's endpoint
  MaxTracked,      \* _MAX_TRACKED_KEYS
  PurgeInterval,   \* _PURGE_INTERVAL_SECONDS
  MaxClock,        \* the last second (bound)
  MaxServed,       \* requests served (bound)
  Nothing

ASSUME LimitAssumption == Limit \in [Keys -> Nat \ {0}] /\ Window \in [Keys -> Nat \ {0}]
ASSUME TableAssumption == MaxTracked \in Nat \ {0} /\ PurgeInterval \in Nat \ {0}
ASSUME BoundAssumption == MaxClock \in Nat /\ MaxServed \in Nat
ASSUME KeyAssumption == IsFiniteSet(Keys)

VARIABLES
  hits,              \* _hits: the window of each key that has one
  lastPurge,         \* _last_purge
  waiting,           \* each thread: its request, its time read, the lock not taken
  clock, served,
  asked, admitted,   \* history: each key's requests, numbered, with the second each
                     \* was served; those that were let through
  answer,            \* history: the last answer given
  loose              \* history: a live window was evicted, or a request waited
                     \* for the lock past the second it read

vars == <<hits, lastPurge, waiting, clock, served, asked, admitted, answer, loose>>

Times == 0 .. MaxClock

Tracked(h) == {k \in Keys : h[k] # Nothing}

Hit     == [start : Times, count : Nat \ {0}, window : Nat \ {0}]
Request == [key : Keys, now : Times]
Answer  == [key : Keys, now : Times, ok : BOOLEAN]

ASSUME NothingAssumption == Nothing \notin Hit \cup Request \cup Answer

Init ==
  /\ hits = [k \in Keys |-> Nothing] /\ lastPurge = 0
  /\ waiting = [t \in Threads |-> Nothing] /\ clock = 0 /\ served = 0
  /\ asked = [k \in Keys |-> {}] /\ admitted = asked /\ answer = Nothing
  /\ loose = FALSE

-----------------------------------------------------------------------------
\* now = time.time(); key = _client_key(request.endpoint)
Arrive(t, k) ==
  /\ waiting[t] = Nothing /\ served < MaxServed
  /\ waiting' = [waiting EXCEPT ![t] = [key |-> k, now |-> clock]]
  /\ UNCHANGED <<hits, lastPurge, clock, served, asked, admitted, answer, loose>>

ExpiredForCaller(now, caller) == {k \in Tracked(hits) : now - hits[k].start >= Window[caller]}

\* A purge uses the window each entry was made with, not its caller's.
Expired(now, caller) == {k \in Tracked(hits) : now - hits[k].start >= hits[k].window}

EvictNone(live) == {{}}

\* Over capacity, the oldest windows go, down to the cap.
Evictions(live) ==
  LET overflow == IF Cardinality(live) > MaxTracked THEN Cardinality(live) - MaxTracked ELSE 0 IN
  {out \in SUBSET live : /\ Cardinality(out) = overflow
                         /\ \A k \in out, l \in live \ out : hits[k].start <= hits[l].start}

PurgeDue(now) == now - lastPurge >= PurgeInterval \/ Cardinality(Tracked(hits)) > MaxTracked

\* What _purge leaves of the table, if it runs.
Kept(now, caller) ==
  IF ~PurgeDue(now) THEN {Tracked(hits)}
  ELSE LET live == Tracked(hits) \ Expired(now, caller) IN {live \ out : out \in Evictions(live)}

EvictsLive(kept, now, caller) ==
  Cardinality(Tracked(hits) \ Expired(now, caller)) > Cardinality(kept)

Never(start, now, k) == FALSE

Over(start, now, k) == now - start >= Window[k]

\* The entry of the caller's key after its request: a new window, or one more hit.
Entry(old, now, k) ==
  IF old = Nothing \/ Over(old.start, now, k) THEN [start |-> now, count |-> 1, window |-> Window[k]]
  ELSE [start |-> old.start, count |-> old.count + 1, window |-> Window[k]]

\* The section under the lock, and the answer it decides.
Serve(t) == LET k == waiting[t].key  now == waiting[t].now IN
  /\ waiting[t] # Nothing
  /\ \E kept \in Kept(now, k) :
       LET entry == Entry(IF k \in kept THEN hits[k] ELSE Nothing, now, k)
           ok    == entry.count <= Limit[k]
           stamp == [n |-> Cardinality(asked[k]), at |-> clock]
       IN
       /\ hits' = [l \in Keys |-> IF l = k THEN entry ELSE IF l \in kept THEN hits[l] ELSE Nothing]
       /\ asked' = [asked EXCEPT ![k] = @ \cup {stamp}]
       /\ admitted' = IF ok THEN [admitted EXCEPT ![k] = @ \cup {stamp}] ELSE admitted
       /\ answer' = [key |-> k, now |-> now, ok |-> ok]
       /\ loose' = (loose \/ now # clock \/ EvictsLive(kept, now, k))
  /\ lastPurge' = IF PurgeDue(now) THEN now ELSE lastPurge
  /\ waiting' = [waiting EXCEPT ![t] = Nothing] /\ served' = served + 1
  /\ UNCHANGED clock

Tick ==
  /\ clock < MaxClock /\ clock' = clock + 1
  /\ UNCHANGED <<hits, lastPurge, waiting, served, asked, admitted, answer, loose>>

Next == (\E t \in Threads : Serve(t) \/ \E k \in Keys : Arrive(t, k)) \/ Tick

Spec == Init /\ [][Next]_vars

-----------------------------------------------------------------------------
(* Properties *)

Stamps == [n : Nat, at : Times]

\* The type invariant.
TypeOK ==
  /\ hits \in [Keys -> Hit \cup {Nothing}] /\ waiting \in [Threads -> Request \cup {Nothing}]
  /\ lastPurge \in Times /\ clock \in Times /\ served \in Nat
  /\ asked \in [Keys -> SUBSET Stamps] /\ admitted \in [Keys -> SUBSET Stamps]
  /\ answer \in Answer \cup {Nothing} /\ loose \in BOOLEAN

\* The table stays within one entry of its cap, though every window in it may
\* be live: each request adds one entry at most, and is preceded by a purge
\* when the table is over.
Bounded == Cardinality(Tracked(hits)) <= MaxTracked + 1

\* Losing a counter "can only grant a client a fresh window, never wrongly
\* block one": a refused request follows at least the limit of requests of the
\* same client and endpoint within the window before it, whatever the purges,
\* the evictions and the order the threads take the lock in.
BlockedJustly ==
  answer # Nothing /\ ~answer.ok =>
    Cardinality({r \in asked[answer.key] : r.at > answer.now - Window[answer.key]})
      > Limit[answer.key]

\* While no live window is evicted and no request outwaits its second, an
\* interval as long as the window admits at most two windows' worth: the burst of
\* a fixed window, and no more, whichever endpoint's requests do the purging.
BurstBounded == ~loose =>
  \A k \in Keys, i \in Times :
    Cardinality({r \in admitted[k] : i <= r.at /\ r.at < i + Window[k]}) <= 2 * Limit[k]
=============================================================================
