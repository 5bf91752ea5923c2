-------------------------- MODULE RateLimiterProofs --------------------------
(***************************************************************************)
(* Theorems about RateLimiter, for every finite set of keys, every limit   *)
(* and window, every size of the table and every number of requests.       *)
(***************************************************************************)
EXTENDS RateLimiter, FiniteSetTheorems, TLAPS

Since(S, i) == {r \in S : r.at >= i}

Within(S, i, j) == {r \in S : i <= r.at /\ r.at < j}

\* No time that was read or stored is ahead of the clock.
Clocked ==
  /\ \A k \in Tracked(hits) : hits[k].start <= clock
  /\ \A t \in Threads : waiting[t] # Nothing => waiting[t].now <= clock

\* Each key's requests are numbered apart, and only requests are passed through.
Stamped == \A k \in Keys :
  /\ IsFiniteSet(asked[k]) /\ admitted[k] \subseteq asked[k]
  /\ \A r \in asked[k] : r.n < Cardinality(asked[k])

\* An entry has its own key's window, and counts no more requests than were made
\* since it began.
Counted == \A k \in Tracked(hits) :
  /\ hits[k].window = Window[k]
  /\ hits[k].count <= Cardinality(Since(asked[k], hits[k].start))

\* What a key whose window h is open has passed through: no more than h counted nor
\* than the limit, all of it before the window ends; and no more than the limit in
\* as long a time before it opened.
Opened(k, h, passed) ==
  /\ Cardinality(Since(passed, h.start)) <= h.count
  /\ Cardinality(Since(passed, h.start)) <= Limit[k]
  /\ \A r \in passed : r.at < h.start + Window[k]
  /\ Cardinality(Within(passed, h.start - Window[k] + 1, h.start)) <= Limit[k]

\* A key without an entry: its last window has ended.
Closed(k, passed, now) ==
  /\ \A r \in passed : r.at < now
  /\ Cardinality(Since(passed, now - Window[k] + 1)) <= Limit[k]

Metered == ~loose =>
  \A k \in Keys : IF k \in Tracked(hits) THEN Opened(k, hits[k], admitted[k])
                  ELSE Closed(k, admitted[k], clock)

\* The inductive invariant.
IInv == TypeOK /\ Clocked /\ Stamped /\ Counted /\ Metered
          /\ Bounded /\ BlockedJustly /\ BurstBounded

-----------------------------------------------------------------------------
(* Facts about the data *)

LEMMA Seconds == \A i \in Times : i \in Nat
BY BoundAssumption DEF Times

\* The fields of an entry and of a request, neither of which is Nothing.
LEMMA Fields ==
  /\ \A h \in Hit : h # Nothing /\ h.start \in Times /\ h.count \in Nat \ {0}
                    /\ h.window \in Nat \ {0}
  /\ \A q \in Request : q # Nothing /\ q.key \in Keys /\ q.now \in Times
  /\ \A a \in Answer : a # Nothing
  /\ \A r \in Stamps : r.n \in Nat /\ r.at \in Times
BY NothingAssumption DEF Hit, Request, Answer, Stamps

\* Entries are made of times and positive numbers.
LEMMA Made ==
  ASSUME NEW s \in Times, NEW c \in Nat \ {0}, NEW w \in Nat \ {0}
  PROVE  LET h == [start |-> s, count |-> c, window |-> w] IN
         h \in Hit /\ h.start = s /\ h.count = c /\ h.window = w
BY DEF Hit

\* A subset of a finite set has a natural number of members, no more than the set.
LEMMA Fewer ==
  ASSUME NEW S, IsFiniteSet(S), NEW T, T \subseteq S
  PROVE  /\ IsFiniteSet(T) /\ Cardinality(T) \in Nat /\ Cardinality(S) \in Nat
         /\ Cardinality(T) <= Cardinality(S)
<1>1. IsFiniteSet(T) /\ Cardinality(T) <= Cardinality(S)
  BY FS_Subset
<1>2. Cardinality(T) \in Nat /\ Cardinality(S) \in Nat
  BY <1>1, FS_CardinalityType
<1> QED BY <1>1, <1>2

\* What one more request does to the requests since a time.
LEMMA OneMore ==
  ASSUME NEW S, IsFiniteSet(S), NEW z, z \notin S, NEW i
  PROVE  Cardinality(Since(S, i) \cup {z}) = Cardinality(Since(S, i)) + 1
<1>1. Since(S, i) \subseteq S /\ z \notin Since(S, i)
  BY DEF Since
<1>2. IsFiniteSet(Since(S, i))
  BY <1>1, Fewer
<1> QED BY <1>1, <1>2, FS_AddElement, Zenon

LEMMA OneMoreSince ==
  ASSUME NEW S, NEW z, NEW i, z.at >= i
  PROVE  Since(S \cup {z}, i) = Since(S, i) \cup {z}
BY DEF Since

\* A request outside of an interval is not counted in it.
LEMMA Outside ==
  ASSUME NEW S, NEW z, NEW i, NEW j, ~(i <= z.at /\ z.at < j)
  PROVE  Within(S \cup {z}, i, j) = Within(S, i, j)
BY DEF Within

\* An interval that is split in two has at most the requests of both parts.
LEMMA Split ==
  ASSUME NEW S, IsFiniteSet(S), S \subseteq Stamps, NEW i \in Int, NEW m \in Int, NEW j \in Int,
         NEW l \in Int, l <= i
  PROVE  Cardinality(Within(S, i, j)) <= Cardinality(Within(S, l, m)) + Cardinality(Since(S, m))
<1> DEFINE A == Within(S, l, m)
           B == Since(S, m)
<1>1. A \subseteq S /\ B \subseteq S
  BY DEF Within, Since
<1>2. IsFiniteSet(A) /\ IsFiniteSet(B) /\ Cardinality(A) \in Nat /\ Cardinality(B) \in Nat
  BY <1>1, Fewer
<1>3. \A r \in S : r.at \in Int
  BY Fields, Seconds
<1>4. Within(S, i, j) \subseteq A \cup B
  BY <1>3 DEF Within, Since
<1>5. /\ IsFiniteSet(A \cup B)
      /\ Cardinality(A \cup B) = Cardinality(A) + Cardinality(B) - Cardinality(A \cap B)
  <2> HIDE DEF A, B
  <2> QED BY <1>2, FS_Union
<1>6. Cardinality(A \cap B) \in Nat
  <2> HIDE DEF A, B
  <2>1. A \cap B \subseteq A
    OBVIOUS
  <2> QED BY <1>2, <2>1, Fewer
<1>7. Cardinality(Within(S, i, j)) <= Cardinality(A \cup B) /\ Cardinality(Within(S, i, j)) \in Nat
  BY <1>4, <1>5, Fewer
<1> HIDE DEF A, B
<1>8. Cardinality(Within(S, i, j)) <= Cardinality(A) + Cardinality(B)
  BY <1>2, <1>5, <1>6, <1>7
<1> QED BY <1>8 DEF A, B

\* The table is finite.
LEMMA Finite == IsFiniteSet(Tracked(hits)) /\ Tracked(hits) \subseteq Keys
<1>1. Tracked(hits) \subseteq Keys
  BY DEF Tracked
<1> QED BY <1>1, KeyAssumption, FS_Subset

\* A tracked key has an entry.
LEMMA Entries ==
  ASSUME TypeOK, NEW k \in Tracked(hits)
  PROVE  k \in Keys /\ hits[k] \in Hit
BY DEF Tracked, TypeOK

-----------------------------------------------------------------------------
(* One request *)

\* What a request of k that read the second now does when the purge leaves kept,
\* the entry of k becomes e and the request is stamped z.
Serving(k, now, kept, e, z) ==
  /\ k \in Keys /\ now \in Times /\ now <= clock
  /\ kept \subseteq Tracked(hits) /\ Cardinality(kept) <= MaxTracked
  /\ e \in Hit /\ e.window = Window[k]
  /\ z \in Stamps /\ z.n = Cardinality(asked[k]) /\ z.at = clock
  /\ \/ /\ e.start = now /\ e.count = 1
        /\ k \in kept => now - hits[k].start >= Window[k]
     \/ /\ k \in kept /\ now - hits[k].start < Window[k]
        /\ e.start = hits[k].start /\ e.count = hits[k].count + 1
  /\ hits' = [l \in Keys |-> IF l = k THEN e ELSE IF l \in kept THEN hits[l] ELSE Nothing]
  /\ asked' = [asked EXCEPT ![k] = asked[k] \cup {z}]
  /\ admitted' = IF e.count <= Limit[k] THEN [admitted EXCEPT ![k] = admitted[k] \cup {z}] ELSE admitted
  /\ answer' = [key |-> k, now |-> now, ok |-> e.count <= Limit[k]]
  /\ loose' \in BOOLEAN
  /\ ~loose' => ~loose /\ now = clock /\ Tracked(hits) \ kept \subseteq Expired(now, k)
  /\ clock' = clock

\* A purge leaves no more than the cap, and the count it takes of live windows is
\* right: if none of them went, only expired ones did.
LEMMA Purged ==
  ASSUME TypeOK, NEW now, NEW k, NEW kept \in Kept(now, k)
  PROVE  /\ kept \subseteq Tracked(hits) /\ Cardinality(kept) <= MaxTracked
         /\ ~EvictsLive(kept, now, k) => Tracked(hits) \ kept \subseteq Expired(now, k)
<1> DEFINE tracked == Tracked(hits)
           live    == tracked \ Expired(now, k)
<1>1. /\ IsFiniteSet(tracked) /\ IsFiniteSet(live) /\ live \subseteq tracked
      /\ Cardinality(tracked) \in Nat /\ Cardinality(live) \in Nat
  BY Finite, Fewer
<1>2. MaxTracked \in Nat
  BY TableAssumption
<1>3. CASE ~PurgeDue(now)
  <2>1. kept = tracked
    BY <1>3 DEF Kept
  <2>2. Cardinality(tracked) <= MaxTracked
    BY <1>1, <1>2, <1>3 DEF PurgeDue
  <2> QED BY <2>1, <2>2
<1>4. CASE PurgeDue(now)
  <2>1. PICK out \in Evictions(live) : kept = live \ out
    BY <1>4 DEF Kept
  <2> DEFINE overflow == IF Cardinality(live) > MaxTracked THEN Cardinality(live) - MaxTracked ELSE 0
  <2>2. out \subseteq live /\ Cardinality(out) = overflow
    BY DEF Evictions
  <2> HIDE DEF live, tracked
  <2>3. IsFiniteSet(out) /\ Cardinality(out) \in Nat /\ live \cap out = out
    BY <1>1, <2>2, Fewer
  <2>4. Cardinality(kept) = Cardinality(live) - Cardinality(out)
    <3>1. Cardinality(live \ out) = Cardinality(live) - Cardinality(live \cap out)
      BY <1>1, FS_Difference, Zenon
    <3> QED BY <2>1, <2>3, <3>1
  <2>5. Cardinality(kept) <= MaxTracked
    BY <1>1, <1>2, <2>2, <2>4
  <2>6. ASSUME ~EvictsLive(kept, now, k)
        PROVE  tracked \ kept \subseteq Expired(now, k)
    <3>1. ~(Cardinality(live) > Cardinality(kept))
      BY <2>6 DEF EvictsLive, live, tracked
    <3>2. Cardinality(out) = 0
      BY <1>1, <2>3, <2>4, <3>1
    <3>3. out = {}
      BY <2>3, <3>2, FS_EmptySet
    <3> QED BY <2>1, <3>3 DEF live, tracked
  <2> QED BY <1>1, <2>1, <2>5, <2>6 DEF tracked
<1> QED BY <1>3, <1>4

\* A request under the lock is one of these.
LEMMA ServeIs ==
  ASSUME TypeOK, Clocked, Counted, Stamped, NEW t \in Threads, Serve(t)
  PROVE  \E k, now, kept, e, z : Serving(k, now, kept, e, z)
<1> DEFINE k   == waiting[t].key
           now == waiting[t].now
<1>1. waiting[t] \in Request
  BY DEF Serve, TypeOK
<1>2. k \in Keys /\ now \in Times
  BY <1>1, Fields
<1>3. now <= clock
  BY DEF Serve, Clocked
<1>4. PICK kept \in Kept(now, k) :
        LET e  == Entry(IF k \in kept THEN hits[k] ELSE Nothing, now, k)
            ok == e.count <= Limit[k]
            z  == [n |-> Cardinality(asked[k]), at |-> clock]
        IN
        /\ hits' = [l \in Keys |-> IF l = k THEN e ELSE IF l \in kept THEN hits[l] ELSE Nothing]
        /\ asked' = [asked EXCEPT ![k] = asked[k] \cup {z}]
        /\ admitted' = IF ok THEN [admitted EXCEPT ![k] = admitted[k] \cup {z}] ELSE admitted
        /\ answer' = [key |-> k, now |-> now, ok |-> ok]
        /\ loose' = (loose \/ now # clock \/ EvictsLive(kept, now, k))
  BY DEF Serve
<1> DEFINE e == Entry(IF k \in kept THEN hits[k] ELSE Nothing, now, k)
           z == [n |-> Cardinality(asked[k]), at |-> clock]
<1>5. clock' = clock
  BY DEF Serve
<1>6. z \in Stamps /\ z.n = Cardinality(asked[k]) /\ z.at = clock
  <2>1. Cardinality(asked[k]) \in Nat
    BY <1>2, FS_CardinalityType DEF Stamped
  <2>2. clock \in Times
    BY DEF TypeOK
  <2> QED BY <2>1, <2>2 DEF Stamps
<1>7. kept \subseteq Tracked(hits) /\ Cardinality(kept) <= MaxTracked
  BY <1>4, Purged
<1>8. ~EvictsLive(kept, now, k) => Tracked(hits) \ kept \subseteq Expired(now, k)
  BY <1>4, Purged
<1>9. Window[k] \in Nat \ {0}
  BY <1>2, LimitAssumption
<1>10. ASSUME k \in kept
       PROVE  hits[k] \in Hit
  BY <1>7, <1>10, Entries
<1> HIDE DEF k, now, z
<1>11. /\ e \in Hit /\ e.window = Window[k]
       /\ \/ /\ e.start = now /\ e.count = 1
             /\ k \in kept => now - hits[k].start >= Window[k]
          \/ /\ k \in kept /\ now - hits[k].start < Window[k]
             /\ e.start = hits[k].start /\ e.count = hits[k].count + 1
  <2>1. CASE k \in kept /\ ~Over(hits[k].start, now, k)
    <3>1. hits[k] \in Hit /\ hits[k] # Nothing
      BY <1>10, <2>1, Fields
    <3>2. hits[k].start \in Nat /\ now \in Nat /\ Window[k] \in Nat
      BY <3>1, <1>2, <1>9, Fields, Seconds
    <3>3. now - hits[k].start < Window[k]
      BY <2>1, <3>2 DEF Over
    <3>4. e = [start |-> hits[k].start, count |-> hits[k].count + 1, window |-> Window[k]]
      BY <2>1, <3>1 DEF Entry
    <3>5. hits[k].count + 1 \in Nat \ {0} /\ hits[k].start \in Times
      BY <3>1, Fields
    <3> HIDE DEF e
    <3>6. /\ e \in Hit /\ e.window = Window[k]
          /\ e.start = hits[k].start /\ e.count = hits[k].count + 1
      BY <1>9, <3>4, <3>5, Made
    <3> QED BY <2>1, <3>3, <3>6
  <2>2. CASE ~(k \in kept /\ ~Over(hits[k].start, now, k))
    <3>1. e = [start |-> now, count |-> 1, window |-> Window[k]]
      BY <2>2 DEF Entry
    <3>2. k \in kept => now - hits[k].start >= Window[k]
      BY <2>2 DEF Over
    <3> HIDE DEF e
    <3>3. e \in Hit /\ e.window = Window[k] /\ e.start = now /\ e.count = 1
      BY <1>2, <1>9, <3>1, Made
    <3> QED BY <3>2, <3>3
  <2> QED BY <2>1, <2>2
<1>12. loose \in BOOLEAN
  BY DEF TypeOK
<1>13. /\ hits' = [l \in Keys |-> IF l = k THEN e ELSE IF l \in kept THEN hits[l] ELSE Nothing]
       /\ asked' = [asked EXCEPT ![k] = asked[k] \cup {z}]
       /\ admitted' = IF e.count <= Limit[k] THEN [admitted EXCEPT ![k] = admitted[k] \cup {z}] ELSE admitted
       /\ answer' = [key |-> k, now |-> now, ok |-> e.count <= Limit[k]]
       /\ loose' = (loose \/ now # clock \/ EvictsLive(kept, now, k))
  BY <1>4, Zenon DEF k, now, z
<1>14. /\ loose' \in BOOLEAN
       /\ ~loose' => ~loose /\ now = clock /\ Tracked(hits) \ kept \subseteq Expired(now, k)
  BY <1>8, <1>12, <1>13, Zenon
<1> HIDE DEF e
<1>15. Serving(k, now, kept, e, z)
  BY <1>2, <1>3, <1>5, <1>6, <1>7, <1>11, <1>13, <1>14 DEF Serving
<1> QED BY <1>15, Zenon

-----------------------------------------------------------------------------
(* What a request preserves *)

\* The table after a request: the caller's entry, and the ones that were kept.
LEMMA Table ==
  ASSUME TypeOK, NEW k, NEW now, NEW kept, NEW e, NEW z, Serving(k, now, kept, e, z)
  PROVE  /\ Tracked(hits') = kept \cup {k} /\ hits'[k] = e
         /\ \A l \in kept : l # k => hits'[l] = hits[l]
         /\ hits' \in [Keys -> Hit \cup {Nothing}]
<1>1. k \in Keys /\ e \in Hit /\ e # Nothing
  BY Fields DEF Serving
<1>2. kept \subseteq Keys /\ \A l \in kept : hits[l] \in Hit /\ hits[l] # Nothing
  BY Entries, Fields DEF Serving
<1>3. hits' = [l \in Keys |-> IF l = k THEN e ELSE IF l \in kept THEN hits[l] ELSE Nothing]
  BY DEF Serving
<1>4. hits'[k] = e
  BY <1>1, <1>3
<1>5. \A l \in kept : l # k => hits'[l] = hits[l]
  BY <1>2, <1>3
<1>6. \A l \in Keys : l \notin kept \cup {k} => hits'[l] = Nothing
  BY <1>3
<1>7. Tracked(hits') = kept \cup {k}
  BY <1>1, <1>2, <1>4, <1>5, <1>6 DEF Tracked
<1>8. hits' \in [Keys -> Hit \cup {Nothing}]
  BY <1>1, <1>2, <1>3
<1> QED BY <1>4, <1>5, <1>7, <1>8

\* One request adds one entry at most to a table that is not over its cap.
LEMMA ServeBounded ==
  ASSUME TypeOK, NEW k, NEW now, NEW kept, NEW e, NEW z, Serving(k, now, kept, e, z)
  PROVE  Bounded'
<1>1. Tracked(hits') = kept \cup {k}
  BY Table
<1>2. kept \subseteq Tracked(hits) /\ Cardinality(kept) <= MaxTracked
  BY DEF Serving
<1>3. IsFiniteSet(kept) /\ Cardinality(kept) \in Nat
  BY <1>2, Finite, Fewer
<1>4. Cardinality(kept \cup {k}) = IF k \in kept THEN Cardinality(kept) ELSE Cardinality(kept) + 1
  BY <1>3, FS_AddElement, Zenon
<1>5. MaxTracked \in Nat
  BY TableAssumption
<1> QED BY <1>1, <1>2, <1>3, <1>4, <1>5 DEF Bounded

\* A request gets a stamp that no request of its key had.
LEMMA Fresh ==
  ASSUME TypeOK, Stamped, NEW k, NEW now, NEW kept, NEW e, NEW z, Serving(k, now, kept, e, z)
  PROVE  /\ k \in Keys /\ IsFiniteSet(asked[k]) /\ IsFiniteSet(admitted[k])
         /\ asked[k] \subseteq Stamps /\ admitted[k] \subseteq Stamps
         /\ z \notin asked[k] /\ z \notin admitted[k]
         /\ asked'[k] = asked[k] \cup {z}
         /\ \A l \in Keys : l # k => asked'[l] = asked[l] /\ admitted'[l] = admitted[l]
         /\ e.count <= Limit[k] => admitted'[k] = admitted[k] \cup {z}
         /\ ~(e.count <= Limit[k]) => admitted'[k] = admitted[k]
<1>1. k \in Keys /\ z.n = Cardinality(asked[k])
  BY DEF Serving
<1>2. IsFiniteSet(asked[k]) /\ admitted[k] \subseteq asked[k] /\ asked[k] \subseteq Stamps
  BY <1>1 DEF Stamped, TypeOK
<1>3. IsFiniteSet(admitted[k])
  BY <1>2, Fewer
<1>4. z \notin asked[k]
  <2>1. \A r \in asked[k] : r.n \in Nat /\ r.n < Cardinality(asked[k])
    BY <1>1, <1>2, Fields DEF Stamped
  <2>2. Cardinality(asked[k]) \in Nat
    BY <1>2, FS_CardinalityType
  <2> QED BY <1>1, <2>1, <2>2
<1>5. /\ asked'[k] = asked[k] \cup {z}
      /\ \A l \in Keys : l # k => asked'[l] = asked[l] /\ admitted'[l] = admitted[l]
      /\ e.count <= Limit[k] => admitted'[k] = admitted[k] \cup {z}
      /\ ~(e.count <= Limit[k]) => admitted'[k] = admitted[k]
  <2>1. asked' = [asked EXCEPT ![k] = asked[k] \cup {z}]
    BY DEF Serving
  <2>2. admitted' = IF e.count <= Limit[k] THEN [admitted EXCEPT ![k] = admitted[k] \cup {z}] ELSE admitted
    BY DEF Serving
  <2>3. asked \in [Keys -> SUBSET Stamps] /\ admitted \in [Keys -> SUBSET Stamps]
    BY DEF TypeOK
  <2> QED BY <1>1, <2>1, <2>2, <2>3
<1> QED BY <1>1, <1>2, <1>3, <1>4, <1>5

LEMMA ServeStamped ==
  ASSUME TypeOK, Stamped, NEW k, NEW now, NEW kept, NEW e, NEW z, Serving(k, now, kept, e, z)
  PROVE  Stamped'
<1> SUFFICES ASSUME NEW l \in Keys
             PROVE  /\ IsFiniteSet(asked'[l]) /\ admitted'[l] \subseteq asked'[l]
                    /\ \A r \in asked'[l] : r.n < Cardinality(asked'[l])
  BY DEF Stamped
<1>1. CASE l # k
  BY <1>1, Fresh DEF Stamped
<1>2. CASE l = k
  <2>1. k \in Keys /\ z \notin asked[k] /\ asked'[k] = asked[k] \cup {z} /\ asked[k] \subseteq Stamps
    BY Fresh
  <2>2. IsFiniteSet(asked[k]) /\ admitted[k] \subseteq asked[k]
    BY <2>1 DEF Stamped
  <2>3. admitted'[k] \subseteq asked'[k]
    BY <2>1, <2>2, Fresh
  <2>4. /\ IsFiniteSet(asked[k] \cup {z})
        /\ Cardinality(asked[k] \cup {z}) = Cardinality(asked[k]) + 1
    BY <2>1, <2>2, FS_AddElement, Zenon
  <2>5. Cardinality(asked[k]) \in Nat
    BY <2>2, FS_CardinalityType
  <2>6. z.n = Cardinality(asked[k])
    BY DEF Serving
  <2>7. \A r \in asked[k] : r.n \in Nat /\ r.n < Cardinality(asked[k])
    BY <2>1, Fields DEF Stamped
  <2>8. \A r \in asked'[k] : r.n < Cardinality(asked'[k])
    BY <2>1, <2>4, <2>5, <2>6, <2>7
  <2> QED BY <1>2, <2>1, <2>3, <2>4, <2>8
<1> QED BY <1>1, <1>2

LEMMA ServeClocked ==
  ASSUME TypeOK, Clocked, NEW k, NEW now, NEW kept, NEW e, NEW z, Serving(k, now, kept, e, z),
         NEW l \in Tracked(hits')
  PROVE  hits'[l].start <= clock'
<1>1. Tracked(hits') = kept \cup {k} /\ hits'[k] = e /\ \A m \in kept : m # k => hits'[m] = hits[m]
  BY Table
<1>2. /\ kept \subseteq Tracked(hits) /\ clock' = clock /\ now <= clock
      /\ e.start = now \/ (k \in kept /\ e.start = hits[k].start)
  BY Zenon DEF Serving
<1>3. \A m \in kept : hits[m].start <= clock
  BY <1>2 DEF Clocked
<1> QED BY <1>1, <1>2, <1>3

\* A window's count is at most the requests since it began; so a request that is
\* refused has at least the limit of requests before it in its own window.
LEMMA ServeCounted ==
  ASSUME TypeOK, Clocked, Stamped, Counted,
         NEW k, NEW now, NEW kept, NEW e, NEW z, Serving(k, now, kept, e, z)
  PROVE  Counted' /\ BlockedJustly'
<1>1. /\ Tracked(hits') = kept \cup {k} /\ hits'[k] = e
      /\ \A m \in kept : m # k => hits'[m] = hits[m]
  BY Table
<1>2. /\ k \in Keys /\ IsFiniteSet(asked[k]) /\ asked[k] \subseteq Stamps
      /\ z \notin asked[k] /\ asked'[k] = asked[k] \cup {z}
      /\ \A l \in Keys : l # k => asked'[l] = asked[l]
  BY Fresh
<1>3. /\ kept \subseteq Tracked(hits) /\ clock' = clock /\ now <= clock /\ now \in Nat
      /\ e \in Hit /\ e.window = Window[k] /\ z.at = clock
  BY Seconds DEF Serving
<1>4. /\ e.start \in Nat /\ e.count \in Nat /\ clock \in Nat
      /\ Window[k] \in Nat \ {0} /\ Limit[k] \in Nat \ {0}
  BY <1>2, <1>3, Fields, Seconds, LimitAssumption DEF TypeOK
<1>5. /\ e.start <= clock
      /\ e.count <= Cardinality(Since(asked[k], e.start)) + 1
      /\ e.count > 1 => now - e.start < Window[k]
  <2>1. Since(asked[k], e.start) \subseteq asked[k]
    BY DEF Since
  <2>2. Cardinality(Since(asked[k], e.start)) \in Nat
    BY <1>2, <2>1, Fewer
  <2>3. CASE e.start = now /\ e.count = 1
    BY <1>3, <2>2, <2>3
  <2>4. CASE /\ k \in kept /\ now - hits[k].start < Window[k]
             /\ e.start = hits[k].start /\ e.count = hits[k].count + 1
    <3>1. k \in Tracked(hits)
      BY <1>3, <2>4
    <3>2. hits[k].start <= clock /\ hits[k].count <= Cardinality(Since(asked[k], hits[k].start))
      BY <3>1 DEF Clocked, Counted
    <3>3. hits[k].count \in Nat
      BY <3>1, Entries, Fields
    <3> QED BY <2>2, <2>4, <3>2, <3>3
  <2> QED BY <2>3, <2>4 DEF Serving
<1>6. /\ Since(asked'[k], e.start) = Since(asked[k], e.start) \cup {z}
      /\ Cardinality(Since(asked'[k], e.start)) = Cardinality(Since(asked[k], e.start)) + 1
  <2>1. z.at >= e.start
    BY <1>3, <1>4, <1>5
  <2>2. IsFiniteSet(asked[k]) /\ z \notin asked[k]
    BY <1>2
  <2>3. Since(asked[k] \cup {z}, e.start) = Since(asked[k], e.start) \cup {z}
    BY <2>1, OneMoreSince, Zenon
  <2>4. Cardinality(Since(asked[k], e.start) \cup {z}) = Cardinality(Since(asked[k], e.start)) + 1
    BY <2>2, OneMore, Zenon
  <2>5. asked'[k] = asked[k] \cup {z}
    BY <1>2
  <2> QED BY <2>3, <2>4, <2>5, Zenon
<1>7. e.count <= Cardinality(Since(asked'[k], e.start))
  BY <1>5, <1>6
<1>8. Counted'
  <2> SUFFICES ASSUME NEW l \in Tracked(hits')
               PROVE  /\ hits'[l].window = Window[l]
                      /\ hits'[l].count <= Cardinality(Since(asked'[l], hits'[l].start))
    BY DEF Counted, Since
  <2>1. CASE l = k
    BY <1>1, <1>3, <1>7, <2>1
  <2>2. CASE l # k
    <3>1. l \in Tracked(hits) /\ hits'[l] = hits[l] /\ l \in Keys
      BY <1>1, <1>3, <2>2, Entries
    <3>2. asked'[l] = asked[l]
      BY <1>2, <2>2, <3>1
    <3> QED BY <3>1, <3>2 DEF Counted
  <2> QED BY <2>1, <2>2
<1>9. BlockedJustly'
  <2>1. answer' = [key |-> k, now |-> now, ok |-> e.count <= Limit[k]]
    BY DEF Serving
  <2>2. answer'.key = k /\ answer'.now = now /\ answer'.ok = (e.count <= Limit[k])
    BY <2>1
  <2> SUFFICES ASSUME ~(e.count <= Limit[k])
               PROVE  Cardinality({r \in asked'[k] : r.at > now - Window[k]}) > Limit[k]
    BY <2>2 DEF BlockedJustly
  <2> DEFINE recent == {r \in asked'[k] : r.at > now - Window[k]}
  <2>3. now - e.start < Window[k]
    BY <1>4, <1>5
  <2>4. \A r \in asked'[k] : r.at \in Nat
    BY <1>2, <1>3, <1>4, Fields, Seconds
  <2>5. Since(asked'[k], e.start) \subseteq recent
    BY <1>3, <1>4, <2>3, <2>4 DEF Since
  <2>6. IsFiniteSet(asked'[k])
    BY <1>2, FS_AddElement
  <2>7. recent \subseteq asked'[k]
    OBVIOUS
  <2> HIDE DEF recent
  <2>8. IsFiniteSet(recent)
    BY <2>6, <2>7, Fewer
  <2>9. /\ Cardinality(recent) \in Nat /\ Cardinality(Since(asked'[k], e.start)) \in Nat
        /\ Cardinality(Since(asked'[k], e.start)) <= Cardinality(recent)
    BY <2>5, <2>8, Fewer
  <2>10. Cardinality(recent) > Limit[k]
    BY <1>4, <1>7, <2>9
  <2> QED BY <2>10 DEF recent
<1> QED BY <1>8, <1>9

-----------------------------------------------------------------------------
(* The burst of a fixed window *)

\* A window that has lasted its time is closed.
LEMMA Ends ==
  ASSUME NEW k \in Keys, NEW passed \in SUBSET Stamps, IsFiniteSet(passed), NEW h \in Hit,
         NEW now \in Nat, now - h.start >= Window[k], Opened(k, h, passed)
  PROVE  Closed(k, passed, now)
<1>1. /\ Window[k] \in Nat \ {0} /\ Limit[k] \in Nat /\ h.start \in Nat
      /\ \A r \in passed : r.at \in Nat
  BY Fields, Seconds, LimitAssumption
<1>2. \A r \in passed : r.at < now
  BY <1>1 DEF Opened
<1>3. Since(passed, now - Window[k] + 1) \subseteq Since(passed, h.start)
  BY <1>1 DEF Since
<1>4. Since(passed, h.start) \subseteq passed
  BY DEF Since
<1>5. /\ Cardinality(Since(passed, now - Window[k] + 1)) \in Nat
      /\ Cardinality(Since(passed, h.start)) \in Nat
      /\ Cardinality(Since(passed, now - Window[k] + 1)) <= Cardinality(Since(passed, h.start))
  BY <1>3, <1>4, Fewer
<1>6. Cardinality(Since(passed, h.start)) <= Limit[k]
  BY DEF Opened
<1>7. Cardinality(Since(passed, now - Window[k] + 1)) <= Limit[k]
  BY <1>1, <1>5, <1>6
<1> QED BY <1>2, <1>7 DEF Closed

\* As time passes, a closed window stays closed.
LEMMA StaysClosed ==
  ASSUME NEW k \in Keys, NEW passed \in SUBSET Stamps, IsFiniteSet(passed),
         NEW now \in Nat, Closed(k, passed, now)
  PROVE  Closed(k, passed, now + 1)
<1>1. Window[k] \in Nat \ {0} /\ Limit[k] \in Nat /\ \A r \in passed : r.at \in Nat
  BY Fields, Seconds, LimitAssumption
<1> DEFINE A == Since(passed, now - Window[k] + 1)
           B == Since(passed, (now + 1) - Window[k] + 1)
<1>2. B \subseteq A /\ A \subseteq passed
  BY <1>1 DEF Since
<1>3. Cardinality(A) <= Limit[k]
  BY DEF Closed
<1>4. \A r \in passed : r.at < now + 1
  BY <1>1 DEF Closed
<1> HIDE DEF A, B
<1>5. Cardinality(A) \in Nat /\ Cardinality(B) \in Nat /\ Cardinality(B) <= Cardinality(A)
  BY <1>2, Fewer
<1>6. Cardinality(B) <= Limit[k]
  BY <1>1, <1>3, <1>5
<1>7. Cardinality(Since(passed, (now + 1) - Window[k] + 1)) <= Limit[k]
  BY <1>6 DEF B
<1> QED BY <1>4, <1>7 DEF Closed

\* The first request of a window is passed through.
LEMMA Opens ==
  ASSUME NEW k \in Keys, NEW passed \in SUBSET Stamps, IsFiniteSet(passed), NEW now \in Nat,
         Closed(k, passed, now), NEW e \in Hit, e.start = now, e.count = 1,
         NEW z \in Stamps, z.at = now, z \notin passed
  PROVE  Opened(k, e, passed \cup {z})
<1>1. /\ Window[k] \in Nat \ {0} /\ Limit[k] \in Nat \ {0}
      /\ \A r \in passed : r.at \in Nat
  BY Fields, Seconds, LimitAssumption
<1>2. Since(passed \cup {z}, now) = {z}
  BY <1>1 DEF Closed, Since
<1>3. Cardinality(Since(passed \cup {z}, now)) = 1
  BY <1>2, FS_Singleton, Zenon
<1>4. \A r \in passed \cup {z} : r.at < now + Window[k]
  BY <1>1 DEF Closed
<1> DEFINE A == Within(passed \cup {z}, now - Window[k] + 1, now)
           B == Since(passed, now - Window[k] + 1)
<1>5. A \subseteq B /\ B \subseteq passed
  BY <1>1 DEF Within, Since
<1>6. Cardinality(B) <= Limit[k]
  BY DEF Closed
<1> HIDE DEF A, B
<1>7. Cardinality(A) \in Nat /\ Cardinality(B) \in Nat /\ Cardinality(A) <= Cardinality(B)
  BY <1>5, Fewer
<1>8. Cardinality(A) <= Limit[k]
  BY <1>1, <1>6, <1>7
<1> QED BY <1>1, <1>3, <1>4, <1>8 DEF Opened, A

\* The entry e is h with one more request.
OneHitMore(h, e) == e.start = h.start /\ e.count = h.count + 1

\* A request in an open window is counted, and passed through up to the limit.
LEMMA GoesOn ==
  ASSUME NEW k \in Keys, NEW passed \in SUBSET Stamps, IsFiniteSet(passed), NEW now \in Nat,
         NEW h \in Hit, Opened(k, h, passed), h.start <= now, now - h.start < Window[k],
         NEW e \in Hit, OneHitMore(h, e),
         NEW z \in Stamps, z.at = now, z \notin passed,
         NEW new, new = IF e.count <= Limit[k] THEN passed \cup {z} ELSE passed
  PROVE  Opened(k, e, new)
<1>1. /\ Window[k] \in Nat \ {0} /\ Limit[k] \in Nat \ {0} /\ h.start \in Nat /\ h.count \in Nat
      /\ \A r \in passed : r.at \in Nat
  BY Fields, Seconds, LimitAssumption
<1>2. Since(passed, h.start) \subseteq passed
  BY DEF Since
<1>3. Cardinality(Since(passed, h.start)) \in Nat
  BY <1>2, Fewer
<1>4. /\ Cardinality(Since(passed, h.start)) <= h.count /\ Cardinality(Since(passed, h.start)) <= Limit[k]
      /\ \A r \in passed : r.at < h.start + Window[k]
      /\ Cardinality(Within(passed, h.start - Window[k] + 1, h.start)) <= Limit[k]
  BY DEF Opened
<1>5. CASE e.count <= Limit[k]
  <2>1. z.at >= h.start /\ new = passed \cup {z}
    BY <1>1, <1>5
  <2>2. Since(passed \cup {z}, h.start) = Since(passed, h.start) \cup {z}
    BY <2>1, OneMoreSince, Zenon
  <2>3. Cardinality(Since(passed, h.start) \cup {z}) = Cardinality(Since(passed, h.start)) + 1
    BY OneMore, Zenon
  <2>4. Within(passed \cup {z}, h.start - Window[k] + 1, h.start)
          = Within(passed, h.start - Window[k] + 1, h.start)
    <3>1. ~(z.at < h.start)
      BY <1>1
    <3> QED BY <3>1 DEF Within
  <2>5. \A r \in passed \cup {z} : r.at < h.start + Window[k]
    BY <1>1, <1>4
  <2>6. Cardinality(Since(new, h.start)) <= e.count /\ Cardinality(Since(new, h.start)) <= Limit[k]
    <3> DEFINE n == Cardinality(Since(passed, h.start))
    <3>1. Cardinality(Since(new, h.start)) = n + 1
      BY <2>1, <2>2, <2>3
    <3>2. n <= h.count /\ n \in Nat
      BY <1>3, <1>4
    <3>3. e.count = h.count + 1 /\ e.count <= Limit[k]
      BY <1>5 DEF OneHitMore
    <3> HIDE DEF n
    <3> QED BY <1>1, <3>1, <3>2, <3>3
  <2> QED BY <1>4, <2>1, <2>4, <2>5, <2>6 DEF Opened, OneHitMore
<1>6. CASE ~(e.count <= Limit[k])
  <2>1. new = passed
    BY <1>6
  <2>2. Cardinality(Since(passed, h.start)) <= e.count
    BY <1>1, <1>3, <1>4 DEF OneHitMore
  <2> QED BY <1>4, <2>1, <2>2 DEF Opened, OneHitMore
<1> QED BY <1>5, <1>6

\* What an open window and the time before it have passed through is at most two
\* limits in any interval as long as the window that reaches into it.
LEMMA TwoWindows ==
  ASSUME NEW k \in Keys, NEW passed \in SUBSET Stamps, IsFiniteSet(passed), NEW e \in Hit,
         Opened(k, e, passed), NEW i \in Nat, i > e.start - Window[k]
  PROVE  Cardinality(Within(passed, i, i + Window[k])) <= 2 * Limit[k]
<1>1. Window[k] \in Nat \ {0} /\ Limit[k] \in Nat \ {0} /\ e.start \in Nat
  BY Fields, Seconds, LimitAssumption
<1> DEFINE A == Within(passed, e.start - Window[k] + 1, e.start)
           B == Since(passed, e.start)
           C == Within(passed, i, i + Window[k])
<1>2. A \subseteq passed /\ B \subseteq passed /\ C \subseteq passed
  BY DEF Within, Since
<1>3. Cardinality(A) \in Nat /\ Cardinality(B) \in Nat /\ Cardinality(C) \in Nat
  BY <1>2, Fewer
<1>4. Cardinality(A) <= Limit[k] /\ Cardinality(B) <= Limit[k]
  BY DEF Opened
<1>5. Cardinality(C) <= Cardinality(A) + Cardinality(B)
  <2>1. /\ i \in Int /\ i + Window[k] \in Int /\ e.start \in Int /\ e.start - Window[k] + 1 \in Int
        /\ e.start - Window[k] + 1 <= i
    BY <1>1
  <2> QED BY <2>1, Split
<1> HIDE DEF A, B, C
<1>6. Cardinality(C) <= 2 * Limit[k]
  BY <1>1, <1>3, <1>4, <1>5
<1> QED BY <1>6 DEF C

\* After a request, while nothing has been loose, its key has a window open, and
\* every other window is as before or has ended.
LEMMA ServeMetered ==
  ASSUME TypeOK, Clocked, Stamped, Counted, Metered,
         NEW k, NEW now, NEW kept, NEW e, NEW z, Serving(k, now, kept, e, z), ~loose'
  PROVE  /\ Opened(k, e, admitted'[k])
         /\ \A l \in Keys : IF l \in Tracked(hits') THEN Opened(l, hits'[l], admitted'[l])
                            ELSE Closed(l, admitted'[l], clock)
<1>1. /\ Tracked(hits') = kept \cup {k} /\ hits'[k] = e
      /\ \A l \in kept : l # k => hits'[l] = hits[l]
  BY Table
<1>2. ~loose /\ now = clock /\ Tracked(hits) \ kept \subseteq Expired(now, k)
      /\ kept \subseteq Tracked(hits)
  BY DEF Serving
<1>3. \A l \in Keys : IF l \in Tracked(hits) THEN Opened(l, hits[l], admitted[l])
                      ELSE Closed(l, admitted[l], clock)
  BY <1>2 DEF Metered
<1>4. clock \in Nat /\ \A l \in Keys : Window[l] \in Nat \ {0}
  BY Seconds, LimitAssumption DEF TypeOK
<1>5. \A l \in Keys : admitted[l] \in SUBSET Stamps /\ IsFiniteSet(admitted[l])
  <2> SUFFICES ASSUME NEW l \in Keys PROVE admitted[l] \in SUBSET Stamps /\ IsFiniteSet(admitted[l])
    OBVIOUS
  <2>1. admitted[l] \in SUBSET Stamps
    BY DEF TypeOK
  <2>2. IsFiniteSet(asked[l]) /\ admitted[l] \subseteq asked[l]
    BY DEF Stamped
  <2> QED BY <2>1, <2>2, Fewer
\* What the purge dropped, and what it had dropped before, is closed.
<1>6. ASSUME NEW l \in Keys, l \notin kept
      PROVE  Closed(l, admitted[l], clock)
  <2>1. CASE l \notin Tracked(hits)
    BY <1>3, <2>1
  <2>2. CASE l \in Tracked(hits)
    <3>1. hits[l] \in Hit /\ Opened(l, hits[l], admitted[l])
      BY <1>3, <2>2, Entries
    <3>2. hits[l].window = Window[l]
      BY <2>2 DEF Counted
    <3>3. clock - hits[l].start >= Window[l]
      BY <1>2, <1>6, <2>2, <3>2 DEF Expired
    <3> QED BY <1>4, <1>5, <3>1, <3>3, Ends
  <2> QED BY <2>1, <2>2
<1>7. k \in Keys /\ e \in Hit /\ z \in Stamps /\ z.at = clock
  BY DEF Serving
<1>8. /\ z \notin admitted[k]
      /\ e.count <= Limit[k] => admitted'[k] = admitted[k] \cup {z}
      /\ ~(e.count <= Limit[k]) => admitted'[k] = admitted[k]
  BY Fresh
<1>9. Opened(k, e, admitted'[k])
  <2>1. CASE e.start = now /\ e.count = 1 /\ (k \in kept => now - hits[k].start >= Window[k])
    <3>1. Closed(k, admitted[k], clock)
      <4>1. CASE k \in kept
        <5>1. hits[k] \in Hit /\ Opened(k, hits[k], admitted[k])
          BY <1>2, <1>3, <1>7, <4>1, Entries
        <5>2. clock - hits[k].start >= Window[k]
          BY <1>2, <2>1, <4>1
        <5> QED BY <1>4, <1>5, <1>7, <5>1, <5>2, Ends
      <4> QED BY <1>6, <1>7, <4>1
    <3>2. e.start = clock /\ e.count = 1
      BY <1>2, <2>1
    <3>3. Opened(k, e, admitted[k] \cup {z})
      BY <1>4, <1>5, <1>7, <1>8, <3>1, <3>2, Opens
    <3>4. e.count <= Limit[k]
      BY <1>7, <2>1, LimitAssumption
    <3> QED BY <1>8, <3>3, <3>4
  <2>2. CASE /\ k \in kept /\ now - hits[k].start < Window[k]
             /\ e.start = hits[k].start /\ e.count = hits[k].count + 1
    <3>1. k \in Tracked(hits)
      BY <1>2, <2>2
    <3>2. hits[k] \in Hit /\ Opened(k, hits[k], admitted[k])
      BY <1>3, <1>7, <3>1, Entries
    <3>3. hits[k].start <= clock /\ clock - hits[k].start < Window[k]
      BY <1>2, <2>2, <3>1 DEF Clocked
    <3>4. OneHitMore(hits[k], e)
      BY <2>2 DEF OneHitMore
    <3>5. admitted'[k] = IF e.count <= Limit[k] THEN admitted[k] \cup {z} ELSE admitted[k]
      BY <1>8
    <3> QED BY <1>4, <1>5, <1>7, <1>8, <3>2, <3>3, <3>4, <3>5, GoesOn
  <2> QED BY <2>1, <2>2 DEF Serving
<1>10. ASSUME NEW l \in Keys, l # k
       PROVE  IF l \in Tracked(hits') THEN Opened(l, hits'[l], admitted'[l])
              ELSE Closed(l, admitted'[l], clock)
  <2>1. admitted'[l] = admitted[l]
    BY <1>10, Fresh
  <2>2. CASE l \in kept
    BY <1>1, <1>2, <1>3, <1>10, <2>1, <2>2
  <2>3. CASE l \notin kept
    <3>1. l \notin Tracked(hits')
      BY <1>1, <1>10, <2>3
    <3> QED BY <1>6, <2>1, <2>3, <3>1
  <2> QED BY <2>2, <2>3
<1>11. k \in Tracked(hits')
  BY <1>1
<1> QED BY <1>1, <1>9, <1>10, <1>11

\* The intervals that a request falls in reach into its window; the others have
\* the requests they had.
LEMMA ServeBurst ==
  ASSUME TypeOK, Clocked, Stamped, Counted, Metered, BurstBounded,
         NEW k, NEW now, NEW kept, NEW e, NEW z, Serving(k, now, kept, e, z)
  PROVE  BurstBounded'
<1> SUFFICES ASSUME ~loose', NEW l \in Keys, NEW i \in Times
             PROVE  Cardinality({r \in admitted'[l] : i <= r.at /\ r.at < i + Window[l]}) <= 2 * Limit[l]
  BY DEF BurstBounded
<1>1. Cardinality(Within(admitted[l], i, i + Window[l])) <= 2 * Limit[l]
  <2>1. ~loose
    BY DEF Serving
  <2> QED BY <2>1 DEF BurstBounded, Within
<1>2. Cardinality(Within(admitted'[l], i, i + Window[l])) <= 2 * Limit[l]
  <2>1. CASE admitted'[l] = admitted[l]
    BY <1>1, <2>1
  <2>2. CASE l = k /\ e.count <= Limit[k]
    <3>1. /\ admitted'[k] = admitted[k] \cup {z} /\ admitted[k] \subseteq Stamps
          /\ IsFiniteSet(admitted[k]) /\ k \in Keys
      BY <2>2, Fresh
    <3>2. CASE ~(i <= z.at /\ z.at < i + Window[l])
      <4>1. Within(admitted[k] \cup {z}, i, i + Window[l]) = Within(admitted[k], i, i + Window[l])
        BY <3>2 DEF Within
      <4> QED BY <1>1, <2>2, <3>1, <4>1
    <3>3. CASE i <= z.at /\ z.at < i + Window[l]
      <4>1. z.at = clock /\ e.start <= clock /\ e \in Hit /\ z \in Stamps
        <5>1. e.start = now \/ (k \in kept /\ e.start = hits[k].start)
          BY Zenon DEF Serving
        <5>2. kept \subseteq Tracked(hits) /\ now <= clock
          BY DEF Serving
        <5>3. e.start <= clock
          BY <5>1, <5>2 DEF Clocked
        <5> QED BY <5>3 DEF Serving
      <4>2. i \in Nat /\ clock \in Nat /\ e.start \in Nat /\ Window[k] \in Nat
        BY <3>1, <4>1, Fields, Seconds, LimitAssumption DEF TypeOK
      <4>3. i > e.start - Window[k]
        BY <2>2, <3>3, <4>1, <4>2
      <4>4. Opened(k, e, admitted'[k])
        BY ServeMetered
      <4>5. admitted'[k] \in SUBSET Stamps /\ IsFiniteSet(admitted'[k])
        BY <3>1, <4>1, FS_AddElement
      <4>6. Cardinality(Within(admitted'[k], i, i + Window[k])) <= 2 * Limit[k]
        BY <3>1, <4>1, <4>2, <4>3, <4>4, <4>5, TwoWindows
      <4> QED BY <2>2, <4>6
    <3> QED BY <3>2, <3>3
  <2>3. admitted'[l] = admitted[l] \/ (l = k /\ e.count <= Limit[k])
    BY Fresh
  <2> QED BY <2>1, <2>2, <2>3
<1> QED BY <1>2 DEF Within

-----------------------------------------------------------------------------
(* The inductive invariant *)

LEMMA InitIInv == Init => IInv
<1> SUFFICES ASSUME Init PROVE IInv
  OBVIOUS
<1>1. /\ 0 \in Times /\ MaxTracked \in Nat
      /\ \A k \in Keys : Window[k] \in Nat \ {0} /\ Limit[k] \in Nat \ {0}
  BY BoundAssumption, TableAssumption, LimitAssumption DEF Times
<1>2. /\ clock = 0 /\ answer = Nothing /\ loose = FALSE
      /\ \A k \in Keys : hits[k] = Nothing /\ asked[k] = {} /\ admitted[k] = {}
      /\ \A t \in Threads : waiting[t] = Nothing
  BY DEF Init
<1>3. TypeOK
  BY <1>1 DEF Init, TypeOK
<1>4. Tracked(hits) = {}
  BY <1>2 DEF Tracked
<1>5. \A i, j : Since({}, i) = {} /\ Within({}, i, j) = {}
  BY DEF Since, Within
<1>6. IsFiniteSet({}) /\ Cardinality({}) = 0
  BY FS_EmptySet
<1>7. Clocked /\ Stamped /\ Counted
  BY <1>2, <1>4, <1>6 DEF Clocked, Stamped, Counted
<1>8. \A k \in Keys : Closed(k, admitted[k], clock)
  <2> SUFFICES ASSUME NEW k \in Keys PROVE Closed(k, admitted[k], clock)
    OBVIOUS
  <2>1. Cardinality(Since(admitted[k], clock - Window[k] + 1)) = 0
    BY <1>2, <1>5, <1>6
  <2>2. admitted[k] = {} /\ 0 <= Limit[k]
    BY <1>1, <1>2
  <2> QED BY <2>1, <2>2 DEF Closed
<1>9. Metered
  BY <1>4, <1>8 DEF Metered
<1>10. Bounded
  BY <1>1, <1>4, <1>6 DEF Bounded
<1>11. BlockedJustly
  BY <1>2 DEF BlockedJustly
<1>12. BurstBounded
  <2> SUFFICES ASSUME NEW k \in Keys, NEW i \in Times
               PROVE  Cardinality({r \in admitted[k] : i <= r.at /\ r.at < i + Window[k]}) <= 2 * Limit[k]
    BY DEF BurstBounded
  <2>1. {r \in admitted[k] : i <= r.at /\ r.at < i + Window[k]} = {}
    BY <1>2
  <2>2. Cardinality({r \in admitted[k] : i <= r.at /\ r.at < i + Window[k]}) = 0
    BY <1>6, <2>1
  <2>3. 0 <= 2 * Limit[k]
    BY <1>1
  <2> QED BY <2>2, <2>3
<1> QED BY <1>3, <1>7, <1>9, <1>10, <1>11, <1>12 DEF IInv

\* A thread reads the time and waits for the lock.
LEMMA ArriveKeeps ==
  ASSUME IInv, NEW t \in Threads, NEW k \in Keys, Arrive(t, k)
  PROVE  IInv'
<1> USE DEF IInv
<1>1. /\ hits' = hits /\ clock' = clock /\ asked' = asked /\ admitted' = admitted
      /\ answer' = answer /\ loose' = loose /\ lastPurge' = lastPurge /\ served' = served
  BY DEF Arrive
<1>2. waiting' = [waiting EXCEPT ![t] = [key |-> k, now |-> clock]]
  BY DEF Arrive
<1> DEFINE q == [key |-> k, now |-> clock]
<1>3. q \in Request /\ q.now = clock
  BY DEF Request, TypeOK
<1>4. waiting' = [waiting EXCEPT ![t] = q]
  BY <1>2
<1> HIDE DEF q
<1>5. TypeOK'
  BY <1>1, <1>3, <1>4 DEF TypeOK
<1>6. Clocked'
  <2>1. clock \in Nat /\ waiting \in [Threads -> Request \cup {Nothing}]
    BY Seconds DEF TypeOK
  <2>2. \A u \in Threads : waiting'[u] # Nothing => waiting'[u].now <= clock
    BY <1>3, <1>4, <2>1 DEF Clocked
  <2> QED BY <1>1, <2>2 DEF Clocked, Tracked
<1>7. Stamped' /\ Counted' /\ Bounded' /\ BlockedJustly' /\ BurstBounded'
  BY <1>1 DEF Stamped, Counted, Bounded, BlockedJustly, BurstBounded, Tracked, Since
<1>8. Metered'
  BY <1>1 DEF Metered, Tracked, Opened, Closed, Since, Within
<1> QED BY <1>5, <1>6, <1>7, <1>8

\* A second passes.
LEMMA TickKeeps ==
  ASSUME IInv, Tick
  PROVE  IInv'
<1> USE DEF IInv
<1>1. /\ hits' = hits /\ waiting' = waiting /\ asked' = asked /\ admitted' = admitted
      /\ answer' = answer /\ loose' = loose /\ lastPurge' = lastPurge /\ served' = served
      /\ clock < MaxClock /\ clock' = clock + 1
  BY DEF Tick
<1>2. clock \in Nat /\ clock + 1 \in Times
  BY <1>1, BoundAssumption DEF TypeOK, Times
<1>3. TypeOK'
  BY <1>1, <1>2 DEF TypeOK
<1>4. Clocked'
  <2>1. \A k \in Tracked(hits) : hits[k].start \in Nat
    BY Entries, Fields, Seconds
  <2>2. \A t \in Threads : waiting[t] # Nothing => waiting[t].now \in Nat
    BY Fields, Seconds DEF TypeOK
  <2>3. \A k \in Tracked(hits) : hits[k].start <= clock + 1
    BY <1>2, <2>1 DEF Clocked
  <2>4. \A t \in Threads : waiting[t] # Nothing => waiting[t].now <= clock + 1
    BY <1>2, <2>2 DEF Clocked
  <2> QED BY <1>1, <2>3, <2>4 DEF Clocked, Tracked
<1>5. Stamped' /\ Counted' /\ Bounded' /\ BlockedJustly' /\ BurstBounded'
  BY <1>1 DEF Stamped, Counted, Bounded, BlockedJustly, BurstBounded, Tracked, Since
<1>6. Metered'
  <2> SUFFICES ASSUME ~loose, NEW k \in Keys
               PROVE  IF k \in Tracked(hits) THEN Opened(k, hits[k], admitted[k])
                      ELSE Closed(k, admitted[k], clock + 1)
    BY <1>1 DEF Metered, Tracked, Opened, Closed, Since, Within
  <2>1. IF k \in Tracked(hits) THEN Opened(k, hits[k], admitted[k])
        ELSE Closed(k, admitted[k], clock)
    BY DEF Metered
  <2>2. admitted[k] \in SUBSET Stamps
    BY DEF TypeOK
  <2>3. IsFiniteSet(asked[k]) /\ admitted[k] \subseteq asked[k]
    BY DEF Stamped
  <2>4. IsFiniteSet(admitted[k])
    BY <2>3, Fewer
  <2> QED BY <1>2, <2>1, <2>2, <2>4, StaysClosed
<1> QED BY <1>3, <1>4, <1>5, <1>6

\* A request is answered under the lock.
LEMMA ServeKeeps ==
  ASSUME IInv, NEW t \in Threads, Serve(t)
  PROVE  IInv'
<1> USE DEF IInv
<1>1. PICK k, now, kept, e, z : Serving(k, now, kept, e, z)
  BY ServeIs, Zenon
<1>2. clock' = clock /\ k \in Keys /\ now \in Times /\ z \in Stamps
      /\ answer' = [key |-> k, now |-> now, ok |-> e.count <= Limit[k]] /\ loose' \in BOOLEAN
  BY <1>1 DEF Serving
<1>3. /\ waiting' = [waiting EXCEPT ![t] = Nothing] /\ served' = served + 1
      /\ lastPurge' = IF PurgeDue(waiting[t].now) THEN waiting[t].now ELSE lastPurge
      /\ waiting[t] # Nothing
  BY DEF Serve
<1>4. TypeOK'
  <2>1. hits' \in [Keys -> Hit \cup {Nothing}]
    BY <1>1, Table
  <2>2. waiting' \in [Threads -> Request \cup {Nothing}] /\ served' \in Nat
    BY <1>3 DEF TypeOK
  <2>3. lastPurge' \in Times
    <3>1. waiting[t] \in Request
      BY <1>3 DEF TypeOK
    <3>2. waiting[t].now \in Times /\ lastPurge \in Times
      BY <3>1, Fields DEF TypeOK
    <3> QED BY <1>3, <3>2
  <2>4. answer' \in Answer
    BY <1>2 DEF Answer
  <2>5. asked' \in [Keys -> SUBSET Stamps] /\ admitted' \in [Keys -> SUBSET Stamps]
    <3>1. /\ asked' = [asked EXCEPT ![k] = asked[k] \cup {z}]
          /\ admitted' = IF e.count <= Limit[k] THEN [admitted EXCEPT ![k] = admitted[k] \cup {z}] ELSE admitted
      BY <1>1 DEF Serving
    <3>2. asked \in [Keys -> SUBSET Stamps] /\ admitted \in [Keys -> SUBSET Stamps]
      BY DEF TypeOK
    <3> QED BY <1>2, <3>1, <3>2
  <2>6. clock' \in Times
    BY <1>2 DEF TypeOK
  <2> QED BY <1>2, <2>1, <2>2, <2>3, <2>4, <2>5, <2>6 DEF TypeOK
<1>5. Clocked'
  <2>1. \A l \in Tracked(hits') : hits'[l].start <= clock'
    BY <1>1, ServeClocked
  <2>2. \A u \in Threads : waiting'[u] # Nothing => waiting'[u].now <= clock'
    BY <1>2, <1>3 DEF Clocked, TypeOK
  <2> QED BY <2>1, <2>2 DEF Clocked
<1>6. Stamped'
  BY <1>1, ServeStamped
<1>7. Counted' /\ BlockedJustly'
  BY <1>1, ServeCounted
<1>8. Bounded'
  BY <1>1, ServeBounded
<1>9. BurstBounded'
  BY <1>1, ServeBurst
<1>10. Metered'
  <2>1. ASSUME ~loose'
        PROVE  \A l \in Keys : IF l \in Tracked(hits') THEN Opened(l, hits'[l], admitted'[l])
                               ELSE Closed(l, admitted'[l], clock)
    BY <1>1, <2>1, ServeMetered
  <2> QED BY <1>2, <2>1 DEF Metered, Opened, Closed, Since, Within
<1> QED BY <1>4, <1>5, <1>6, <1>7, <1>8, <1>9, <1>10

LEMMA StutterKeeps ==
  ASSUME IInv, UNCHANGED vars
  PROVE  IInv'
BY DEF IInv, vars, TypeOK, Clocked, Stamped, Counted, Metered, Bounded, BlockedJustly,
       BurstBounded, Tracked, Opened, Closed, Since, Within

\* Every reachable state satisfies the inductive invariant.
THEOREM Invariance == Spec => []IInv
<1>1. Init => IInv
  BY InitIInv
<1>2. IInv /\ [Next]_vars => IInv'
  <2> SUFFICES ASSUME IInv, [Next]_vars PROVE IInv'
    OBVIOUS
  <2>1. ASSUME NEW t \in Threads, Serve(t) PROVE IInv'
    BY <2>1, ServeKeeps
  <2>2. ASSUME NEW t \in Threads, NEW k \in Keys, Arrive(t, k) PROVE IInv'
    BY <2>2, ArriveKeeps
  <2>3. CASE Tick
    BY <2>3, TickKeeps
  <2>4. CASE UNCHANGED vars
    BY <2>4, StutterKeeps
  <2> QED BY <2>1, <2>2, <2>3, <2>4 DEF Next
<1> QED BY <1>1, <1>2, PTL DEF Spec

-----------------------------------------------------------------------------
(* Theorems *)

\* The state has its type: entries, waiting requests, stamps and answers.
THEOREM TypeCorrect == Spec => []TypeOK
BY Invariance, PTL DEF IInv

\* _hits never holds more than one entry over _MAX_TRACKED_KEYS, whatever the
\* number of clients and endpoints and however many of their windows are live.
THEOREM TableBounded == Spec => []Bounded
BY Invariance, PTL DEF IInv

\* rate_limit refuses only a request that follows the limit's worth of requests
\* of its client to its endpoint within its window, whatever _purge evicts and in
\* whatever order the threads that read the time take the lock.
THEOREM NobodyBlockedUnjustly == Spec => []BlockedJustly
BY Invariance, PTL DEF IInv

\* As long as no live window is evicted and no request waits for the lock into
\* another second, no interval of a window's length admits more than two limits.
THEOREM BurstsBounded == Spec => []BurstBounded
BY Invariance, PTL DEF IInv
=============================================================================
