------------------------------- MODULE Seasons --------------------------------
(***************************************************************************)
(* Ranking seasons (leaderboard_service.py) against the signups that run   *)
(* beside them (auth_service.create_user).                                 *)
(*                                                                         *)
(* The season job opens a season in one long transaction: it reads the     *)
(* users once and values them one by one.  Valuing a foreign wallet may    *)
(* refresh the exchange rates, which commits that transaction half-way.    *)
(* A signup is three transactions: the user, the wallet, the enrolment.    *)
(* The process may die between any two steps.                              *)
(***************************************************************************)
EXTENDS Integers, Sequences, FiniteSets

CONSTANTS
  Users,
  Existing,      \* the accounts there before the first season
  Foreign,       \* those of them whose money is in another currency
  SeasonLength,  \* SEASON_LENGTH_DAYS
  Grace,         \* SEASON_JOIN_GRACE_DAYS
  MaxClock,      \* the last day (bound)
  MaxCrashes,    \* crashes (bound)
  NoJob

ASSUME UserAssumption == Existing \subseteq Users /\ Foreign \subseteq Existing
ASSUME LengthAssumption == SeasonLength \in Nat \ {0} /\ Grace \in Nat
ASSUME BoundAssumption == MaxClock \in Nat /\ MaxCrashes \in Nat

VARIABLES
  users,         \* rows of users
  funded,        \* the users whose wallet row is committed
  seasons,       \* rows of seasons, in id order
  participants,  \* rows of season_participants
  pc, chosen,    \* each signup: its next step, the season it means to join
  created,       \* history: the day each account was committed
  job,           \* the season being opened
  early,         \* history: the seasons a rate refresh made visible half-way
  clock, crashes

signups == <<users, funded, pc, chosen, created>>
vars    == <<signups, seasons, participants, job, early, clock, crashes>>

Before == 0 - 1     \* the accounts that exist were created before day 0

\* Equity in grants: the $100,000 of the USD wallet, converted wherever it is now.
Baselines == {0, 1}

Row(s, u, b) == [season |-> s, user |-> u, baseline |-> b]

Season == [start : 0 .. MaxClock, end : Nat]
Participant == [season : Nat, user : Users, baseline : Baselines]
Job == [id : Nat \ {0}, start : 0 .. MaxClock, visible : BOOLEAN, todo : SUBSET Users,
        pending : SUBSET Participant, rate : {"unread", "known", "missing"}]

ASSUME JobAssumption == NoJob \notin Job

Enrolled(s) == {p.user : p \in {q \in participants : q.season = s}}

\* current_season: of the seasons whose window holds now, the latest to start.
Running == {i \in DOMAIN seasons : seasons[i].start <= clock /\ clock < seasons[i].end}
Current == {i \in Running : \A j \in Running : seasons[j].start <= seasons[i].start}

Init ==
  /\ users = Existing /\ funded = Existing
  /\ seasons = <<>> /\ participants = {}
  /\ pc = [u \in Users |-> IF u \in Existing THEN "done" ELSE "new"]
  /\ chosen = [u \in Users |-> 0] /\ created = [u \in Users |-> Before]
  /\ job = NoJob /\ early = {} /\ clock = 0 /\ crashes = 0

-----------------------------------------------------------------------------
(* create_user and enrol_new_user *)

Step(u, l) == pc' = [pc EXCEPT ![u] = l]

CommitUser(u) ==
  /\ pc[u] = "new"
  /\ users' = users \cup {u} /\ created' = [created EXCEPT ![u] = clock]
  /\ Step(u, "wallet")
  /\ UNCHANGED <<funded, chosen, seasons, participants, job, early, clock, crashes>>

CommitWallet(u) ==
  /\ pc[u] = "wallet"
  /\ funded' = funded \cup {u} /\ Step(u, "enrol")
  /\ UNCHANGED <<users, chosen, created, seasons, participants, job, early, clock, crashes>>

EverInGrace(s) == TRUE

InGrace(s) == clock - seasons[s].start <= Grace

Joinable(u) == {s \in Current : InGrace(s) /\ u \notin Enrolled(s)}

EnrolRead(u) ==
  /\ pc[u] = "enrol"
  /\ \E s \in Joinable(u) : chosen' = [chosen EXCEPT ![u] = s]
  /\ Step(u, "insert")
  /\ UNCHANGED <<users, funded, created, seasons, participants, job, early, clock, crashes>>

EnrolNot(u) ==
  /\ pc[u] = "enrol" /\ Joinable(u) = {} /\ Step(u, "done")
  /\ UNCHANGED <<users, funded, chosen, created, seasons, participants, job, early, clock, crashes>>

\* The row the season job has inserted but not committed makes an equal INSERT wait.
Waits(u) == job # NoJob /\ chosen[u] = job.id /\ \E p \in job.pending : p.user = u

\* uq_season_participant refuses a second row: rolled back and only logged.
EnrolCommit(u) ==
  /\ pc[u] = "insert" /\ ~Waits(u)
  /\ participants' = IF u \in Enrolled(chosen[u]) THEN participants
                     ELSE participants \cup {Row(chosen[u], u, 1)}
  /\ Step(u, "done")
  /\ UNCHANGED <<users, funded, chosen, created, seasons, job, early, clock, crashes>>

-----------------------------------------------------------------------------
(* _ensure_season and open_season: at boot and every night *)

NoneEver == seasons = <<>>

NoneStarted == \A i \in DOMAIN seasons : seasons[i].start # clock

MayOpen == Running = {}

ToEnrolFunded == {u \in users : pc[u] = "done"}

ToEnrol == users

EnsureSeason ==
  /\ job = NoJob /\ MayOpen
  /\ job' = [id |-> Len(seasons) + 1, start |-> clock, visible |-> FALSE,
             todo |-> ToEnrol, pending |-> {}, rate |-> "unread"]
  /\ UNCHANGED <<signups, seasons, participants, early, clock, crashes>>

\* What a commit of the job's transaction makes visible.
Publish ==
  /\ seasons' = IF job.visible THEN seasons
                ELSE Append(seasons, [start |-> job.start, end |-> job.start + SeasonLength])
  /\ participants' = participants \cup job.pending

\* get_exchange_rate: served from the cache, or fetched and committed on the
\* spot, or unavailable, in which case the wallet is valued at 0.
NeedsRate == job # NoJob /\ job.rate = "unread" /\ job.todo \cap Foreign # {}

RateCached ==
  /\ NeedsRate /\ job' = [job EXCEPT !.rate = "known"]
  /\ UNCHANGED <<signups, seasons, participants, early, clock, crashes>>

RateRefreshed ==
  /\ NeedsRate /\ Publish
  /\ job' = [job EXCEPT !.rate = "known", !.visible = TRUE, !.pending = {}]
  /\ early' = early \cup {job.id}
  /\ UNCHANGED <<signups, clock, crashes>>

RateMissing ==
  /\ NeedsRate /\ job' = [job EXCEPT !.rate = "missing"]
  /\ UNCHANGED <<signups, seasons, participants, early, clock, crashes>>

\* compute_equity
Worth(u) == IF u \notin funded \/ (u \in Foreign /\ job.rate = "missing") THEN 0 ELSE 1

Insert(u) ==
  /\ job # NoJob /\ u \in job.todo /\ u \notin Enrolled(job.id)
  /\ u \in Foreign => job.rate # "unread"
  /\ job' = [job EXCEPT !.todo = @ \ {u}, !.pending = @ \cup {Row(job.id, u, Worth(u))}]
  /\ UNCHANGED <<signups, seasons, participants, early, clock, crashes>>

\* uq_season_participant again, and nothing catches it: the job ends there.
InsertRefused(u) ==
  /\ job # NoJob /\ u \in job.todo /\ u \in Enrolled(job.id)
  /\ job' = NoJob
  /\ UNCHANGED <<signups, seasons, participants, early, clock, crashes>>

OpenCommit ==
  /\ job # NoJob /\ job.todo = {} /\ Publish /\ job' = NoJob
  /\ UNCHANGED <<signups, early, clock, crashes>>

-----------------------------------------------------------------------------
Crash ==
  /\ crashes < MaxCrashes /\ crashes' = crashes + 1 /\ job' = NoJob
  /\ pc' = [u \in Users |-> IF pc[u] \in {"new", "done"} THEN pc[u] ELSE "lost"]
  /\ UNCHANGED <<users, funded, chosen, created, seasons, participants, early, clock>>

Tick ==
  /\ clock < MaxClock /\ clock' = clock + 1
  /\ UNCHANGED <<signups, seasons, participants, job, early, crashes>>

Signup(u) == CommitUser(u) \/ CommitWallet(u) \/ EnrolRead(u) \/ EnrolNot(u) \/ EnrolCommit(u)

Opening ==
  \/ RateCached \/ RateRefreshed \/ RateMissing \/ OpenCommit
  \/ \E u \in Users : Insert(u) \/ InsertRefused(u)

Next == (\E u \in Users : Signup(u)) \/ EnsureSeason \/ Opening \/ Crash \/ Tick

Spec == Init /\ [][Next]_vars

\* The scheduler runs the job every night and lets it finish.
LiveSpec == Spec /\ WF_vars(EnsureSeason) /\ WF_vars(Opening)

-----------------------------------------------------------------------------
(* Properties *)

\* The type invariant; a job works on the season it has just made visible or on
\* the next one.
TypeOK ==
  /\ users \subseteq Users /\ funded \subseteq users
  /\ seasons \in Seq(Season)
  /\ participants \subseteq {p \in Participant : p.season \in DOMAIN seasons /\ p.user \in users}
  /\ pc \in [Users -> {"new", "wallet", "enrol", "insert", "done", "lost"}]
  /\ chosen \in [Users -> Nat]
  /\ created \in [Users -> Before .. MaxClock]
  /\ clock \in 0 .. MaxClock /\ crashes \in 0 .. MaxCrashes /\ early \subseteq DOMAIN seasons
  /\ job \in Job \cup {NoJob}
  /\ job # NoJob =>
     /\ job.id = (IF job.visible THEN Len(seasons) ELSE Len(seasons) + 1)
     /\ job.todo \subseteq users
     /\ \A p \in job.pending : p.season = job.id /\ p.user \in users

\* ensure_season is "safe to call often": however jobs, crashes and half-way
\* commits fall, two seasons never run at the same time.
SeasonsApart ==
  \A i, j \in DOMAIN seasons : i < j => seasons[i].end <= seasons[j].start

\* An account created after the grace window is never ranked in that season,
\* whatever the delay between its signup's steps.
LateExcluded ==
  \A p \in participants : created[p.user] <= seasons[p.season].start + Grace

\* open_season freezes "every existing user's baseline", in one commit: once no
\* job is at work an account older than a season has a row in it, crashes,
\* half-finished signups and refused rows or not.  A season that a rate refresh
\* made visible half-way has no such promise (see FrozenAlways).
BaselinesFrozen ==
  job = NoJob => \A i \in DOMAIN seasons \ early : \A u \in users :
    created[u] < seasons[i].start => u \in Enrolled(i)

\* A season is rolled into the next one once it lapses.
SeasonOpens == (Running = {}) ~> (Running # {})

-----------------------------------------------------------------------------
(* What the comments promise and these interleavings break: TLC refutes each *)

\* open_season freezes "every existing user's baseline", of every season.
FrozenAlways ==
  job = NoJob => \A i \in DOMAIN seasons : \A u \in users :
    created[u] < seasons[i].start => u \in Enrolled(i)

\* enrol_new_user enrols "a just-created account into the running season, if
\* it opened recently enough": a signup that ended is ranked in a season it
\* was created in the grace window of.
GraceEnrols ==
  \A i \in DOMAIN seasons : \A u \in users :
    /\ pc[u] = "done"
    /\ seasons[i].start <= created[u] /\ created[u] <= seasons[i].start + Grace
    /\ clock = created[u]
    => u \in Enrolled(i)

\* "Every account starts from the same line": nobody's baseline is zero.
SameLine == \A p \in participants : p.user \notin Foreign => p.baseline = 1

\* The baseline is the "equity in USD at the moment the season opened", of the
\* money held in other currencies too.
BaselineIsWorth == \A p \in participants : p.user \in Foreign => p.baseline = 1

\* Every account is granted its starting money at signup.
GrantedAtSignup == \A u \in users : pc[u] \in {"done", "lost"} => u \in funded
=============================================================================
