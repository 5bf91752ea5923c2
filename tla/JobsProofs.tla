----------------------------- MODULE JobsProofs ------------------------------
(***************************************************************************)
(* Theorems about the two components that the schedule drives: the seasons *)
(* of the leaderboard (Seasons), for every number of users, season length, *)
(* grace window, clock and number of crashes; and the nightly loading and  *)
(* correction of the price history (Universe and History), for every list  *)
(* of tickers, budget, window, calendar and number of failures.            *)
(***************************************************************************)
EXTENDS Seasons, History, FiniteSetTheorems, WellFoundedInduction, TLAPS

(***************************************************************************)
(* Seasons                                                                 *)
(***************************************************************************)

\* An account has a row of users from its first commit on.
KnownUsers == \A u \in Users : pc[u] = "new" <=> u \notin users

\* Nothing is dated in the future.
Dated ==
  /\ \A u \in users : created[u] <= clock
  /\ \A i \in DOMAIN seasons : seasons[i].start <= clock
  /\ job # NoJob => job.start <= clock

\* What the season job relies on: its season begins after the others have
\* ended, its users are older than it, and nobody older than it is missing
\* from its list.
JobSound == job # NoJob =>
  /\ job.visible => job.id \in early /\ seasons[job.id].start = job.start
  /\ ~job.visible => \A i \in DOMAIN seasons : seasons[i].end <= job.start
  /\ \A u \in job.todo : created[u] <= job.start
  /\ \A p \in job.pending : created[p.user] <= job.start
  /\ ~job.visible => \A u \in users : created[u] < job.start =>
       u \in job.todo \/ \E p \in job.pending : p.user = u

\* A signup joins a season it was created in the grace window of.
ChosenInGrace == \A u \in Users : pc[u] = "insert" =>
  chosen[u] \in DOMAIN seasons /\ created[u] <= seasons[chosen[u]].start + Grace

\* BaselinesFrozen holds while a job is at work too.
Frozen == \A i \in DOMAIN seasons \ early : \A u \in users :
  created[u] < seasons[i].start => u \in Enrolled(i)

\* The inductive invariant.
SeasonsInv ==
  /\ TypeOK /\ KnownUsers /\ Dated /\ JobSound /\ ChosenInGrace
  /\ SeasonsApart /\ LateExcluded /\ Frozen

-----------------------------------------------------------------------------
(* Publishing *)

\* The job's season is the last once it is published; the others keep their rows.
LEMMA Published ==
  ASSUME TypeOK, job # NoJob, Publish
  PROVE  /\ seasons' \in Seq(Season) /\ Len(seasons') = job.id
         /\ DOMAIN seasons \subseteq DOMAIN seasons'
         /\ DOMAIN seasons' = DOMAIN seasons \cup {job.id}
         /\ \A i \in DOMAIN seasons : seasons'[i] = seasons[i] /\ (~job.visible => i < job.id)
         /\ ~job.visible => /\ seasons'[job.id].start = job.start
                            /\ seasons'[job.id].end = job.start + SeasonLength
         /\ participants' = participants \cup job.pending
<1>. USE DEF TypeOK
<1>0. job \in Job /\ seasons \in Seq(Season) /\ Len(seasons) \in Nat
  OBVIOUS
<1>1. CASE job.visible
  <2>1. seasons' = seasons /\ job.id = Len(seasons) /\ job.id \in Nat \ {0}
    BY <1>0, <1>1 DEF Publish, Job
  <2>. QED  BY <1>0, <1>1, <2>1 DEF Publish
<1>2. CASE ~job.visible
  <2>. DEFINE r == [start |-> job.start, end |-> job.start + SeasonLength]
  <2>1. r \in Season
    BY <1>0, LengthAssumption, BoundAssumption DEF Job, Season
  <2>2. seasons' = Append(seasons, r) /\ job.id = Len(seasons) + 1
    BY <1>0, <1>2 DEF Publish
  <2>3. r.start = job.start /\ r.end = job.start + SeasonLength
    OBVIOUS
  <2>. HIDE DEF r
  <2>4. /\ seasons' \in Seq(Season) /\ Len(seasons') = Len(seasons) + 1
        /\ \A i \in 1 .. Len(seasons) : seasons'[i] = seasons[i]
        /\ seasons'[Len(seasons) + 1] = r
    BY <1>0, <2>1, <2>2
  <2>. QED  BY <1>0, <1>2, <2>2, <2>3, <2>4 DEF Publish
<1>. QED  BY <1>1, <1>2

\* The days of a season are numbers.
LEMMA SeasonFields ==
  ASSUME TypeOK, NEW i \in DOMAIN seasons
  PROVE  seasons[i].start \in Int /\ seasons[i].end \in Int
<1>1. seasons[i] \in Season
  BY DEF TypeOK
<1>. QED  BY <1>1, BoundAssumption DEF Season

\* A row is in a season for each user enrolled in it.
LEMMA EnrolledRows ==
  ASSUME NEW s, NEW u
  PROVE  u \in Enrolled(s) <=> \E p \in participants : p.season = s /\ p.user = u
BY DEF Enrolled

\* Publishing keeps the promises made of the seasons that are there, and makes
\* those of the new one.
LEMMA PublishKeeps ==
  ASSUME SeasonsInv, job # NoJob, Publish, UNCHANGED <<signups, clock, crashes>>,
         \/ job.todo = {} /\ early' = early
         \/ early' = early \cup {job.id}
  PROVE  /\ participants' \subseteq {p \in Participant : p.season \in DOMAIN seasons' /\ p.user \in users'}
         /\ early' \subseteq DOMAIN seasons' /\ seasons' \in Seq(Season)
         /\ \A i \in DOMAIN seasons' : seasons'[i].start <= clock
         /\ ChosenInGrace' /\ SeasonsApart' /\ LateExcluded' /\ Frozen'
<1>. USE DEF SeasonsInv
<1>0. /\ seasons' \in Seq(Season) /\ Len(seasons') = job.id
      /\ DOMAIN seasons \subseteq DOMAIN seasons'
      /\ DOMAIN seasons' = DOMAIN seasons \cup {job.id}
      /\ \A i \in DOMAIN seasons : seasons'[i] = seasons[i] /\ (~job.visible => i < job.id)
      /\ ~job.visible => /\ seasons'[job.id].start = job.start
                         /\ seasons'[job.id].end = job.start + SeasonLength
      /\ participants' = participants \cup job.pending
  BY Published
<1>1. seasons'[job.id].start = job.start /\ (job.visible => job.id \in DOMAIN seasons /\ job.id \in early)
  BY <1>0 DEF JobSound, TypeOK
<1>2. /\ job \in Job /\ job.start \in Int /\ job.id \in Int
      /\ \A p \in job.pending : p \in Participant /\ p.season = job.id /\ p.user \in users
  BY BoundAssumption DEF TypeOK, Job
<1>3. /\ participants' \subseteq {p \in Participant : p.season \in DOMAIN seasons' /\ p.user \in users'}
      /\ early' \subseteq DOMAIN seasons'
  BY <1>0, <1>2 DEF TypeOK, signups
<1>4. \A i \in DOMAIN seasons' : seasons'[i].start <= clock
  BY <1>0, <1>1 DEF Dated
<1>5. ChosenInGrace'
  BY <1>0 DEF ChosenInGrace, signups
<1>6. SeasonsApart'
  <2>1. CASE job.visible
    BY <1>0, <1>1, <2>1 DEF SeasonsApart
  <2>2. CASE ~job.visible
    <3>. SUFFICES ASSUME NEW i \in DOMAIN seasons', NEW j \in DOMAIN seasons', i < j
                  PROVE  seasons'[i].end <= seasons'[j].start
      BY DEF SeasonsApart
    <3>1. i # job.id
      BY <1>0, <1>2, <2>2 DEF TypeOK
    <3>. QED  BY <1>0, <1>1, <2>2, <3>1 DEF SeasonsApart, JobSound
  <2>. QED  BY <2>1, <2>2
<1>7. LateExcluded'
  <2>. SUFFICES ASSUME NEW p \in participants'
                PROVE  created[p.user] <= seasons'[p.season].start + Grace
    BY DEF LateExcluded, signups
  <2>1. CASE p \in participants
    BY <1>0, <2>1 DEF LateExcluded, TypeOK
  <2>2. CASE p \in job.pending
    <3>1. p.season = job.id /\ created[p.user] <= job.start /\ created[p.user] \in Int
      BY <1>2, <2>2, BoundAssumption DEF JobSound, TypeOK, Before
    <3>. QED  BY <1>1, <1>2, <3>1, LengthAssumption
  <2>. QED  BY <1>0, <2>1, <2>2
<1>8. Frozen'
  <2>. SUFFICES ASSUME NEW i \in DOMAIN seasons' \ early', NEW u \in users,
                       created[u] < seasons'[i].start
                PROVE  u \in Enrolled(i)'
    BY DEF Frozen, signups
  <2>1. CASE i \in DOMAIN seasons
    <3>1. \E p \in participants : p.season = i /\ p.user = u
      BY <1>0, <2>1, EnrolledRows DEF Frozen
    <3>. QED  BY <1>0, <3>1 DEF Enrolled
  <2>2. CASE i \notin DOMAIN seasons
    <3>1. i = job.id /\ ~job.visible /\ job.todo = {}
      BY <1>0, <1>1, <2>2
    <3>2. \E p \in job.pending : p.user = u
      BY <1>1, <3>1 DEF JobSound
    <3>. QED  BY <1>0, <1>2, <3>1, <3>2 DEF Enrolled
  <2>. QED  BY <2>1, <2>2
<1>. QED  BY <1>0, <1>3, <1>4, <1>5, <1>6, <1>7, <1>8

-----------------------------------------------------------------------------
(* Steps *)

\* A new account is younger than anything there is.
LEMMA CommitUserKeeps ==
  ASSUME SeasonsInv, NEW u \in Users, CommitUser(u)
  PROVE  SeasonsInv'
<1>. USE DEF SeasonsInv, CommitUser, Step
<1>1. /\ u \notin users /\ users' = users \cup {u} /\ created'[u] = clock
      /\ \A v \in Users \ {u} : created'[v] = created[v] /\ pc'[v] = pc[v]
      /\ pc'[u] = "wallet" /\ pc \in [Users -> {"new", "wallet", "enrol", "insert", "done", "lost"}]
      /\ UNCHANGED <<funded, chosen, seasons, participants, job, early, clock, crashes>>
  BY DEF TypeOK, KnownUsers
<1>2. TypeOK'
  BY <1>1, BoundAssumption DEF TypeOK, Before
<1>3. KnownUsers' /\ Dated'
  BY <1>1, BoundAssumption DEF KnownUsers, Dated, TypeOK
<1>4. JobSound'
  <2>. SUFFICES ASSUME job # NoJob PROVE JobSound'
    BY <1>1 DEF JobSound
  <2>1. /\ job.todo \subseteq users /\ \A p \in job.pending : p.user \in users
        /\ job.start <= clock /\ job.start \in Int /\ clock \in Int
    BY BoundAssumption DEF TypeOK, Dated, Job
  <2>. QED  BY <1>1, <2>1 DEF JobSound, TypeOK
<1>5. ChosenInGrace'
  BY <1>1 DEF ChosenInGrace
<1>6. LateExcluded'
  BY <1>1 DEF LateExcluded, TypeOK
<1>7. Frozen'
  <2>1. \A i \in DOMAIN seasons : seasons[i].start <= clock /\ seasons[i].start \in Int
    BY SeasonFields DEF Dated
  <2>2. clock \in Int
    BY BoundAssumption DEF TypeOK
  <2>. QED  BY <1>1, <2>1, <2>2 DEF Frozen, TypeOK, Enrolled
<1>. QED  BY <1>1, <1>2, <1>3, <1>4, <1>5, <1>6, <1>7 DEF SeasonsApart

\* The wallet, and a signup that finds no season to join, change nothing that
\* is promised.
LEMMA QuietSignup ==
  ASSUME SeasonsInv, NEW u \in Users, CommitWallet(u) \/ EnrolNot(u)
  PROVE  SeasonsInv'
<1>. USE DEF SeasonsInv, CommitWallet, EnrolNot, Step
<1>1. /\ \A v \in Users \ {u} : pc'[v] = pc[v]
      /\ pc[u] \in {"wallet", "enrol"} /\ pc'[u] \in {"enrol", "done"}
      /\ funded' \subseteq funded \cup {u}
      /\ UNCHANGED <<users, chosen, created, seasons, participants, job, early, clock, crashes>>
  BY DEF TypeOK
<1>2. u \in users
  BY <1>1 DEF KnownUsers
<1>3. TypeOK'
  BY <1>1, <1>2 DEF TypeOK
<1>. QED
  BY <1>1, <1>2, <1>3 DEF KnownUsers, Dated, JobSound, ChosenInGrace, SeasonsApart, LateExcluded,
    Frozen, Enrolled

\* A signup that chooses a season does so in its grace window.
LEMMA EnrolReadKeeps ==
  ASSUME SeasonsInv, NEW u \in Users, EnrolRead(u)
  PROVE  SeasonsInv'
<1>. USE DEF SeasonsInv, EnrolRead, Step
<1>1. PICK s \in DOMAIN seasons : /\ clock - seasons[s].start <= Grace
                                  /\ chosen' = [chosen EXCEPT ![u] = s]
  BY DEF Joinable, InGrace, Current, Running
<1>2. /\ \A v \in Users \ {u} : pc'[v] = pc[v] /\ chosen'[v] = chosen[v]
      /\ pc[u] = "enrol" /\ pc'[u] = "insert" /\ chosen'[u] = s /\ s \in Nat
      /\ UNCHANGED <<users, funded, created, seasons, participants, job, early, clock, crashes>>
  BY <1>1 DEF TypeOK
<1>3. u \in users
  BY <1>2 DEF KnownUsers
<1>4. TypeOK'
  BY <1>2, <1>3 DEF TypeOK
<1>5. created[u] <= seasons[s].start + Grace
  <2>1. created[u] <= clock /\ created[u] \in Int /\ clock \in Int /\ seasons[s].start \in Int
    BY <1>3, SeasonFields, BoundAssumption DEF TypeOK, Dated, Before
  <2>. QED  BY <1>1, <2>1, LengthAssumption
<1>6. ChosenInGrace'
  BY <1>2, <1>5 DEF ChosenInGrace
<1>. QED
  BY <1>2, <1>3, <1>4, <1>6 DEF KnownUsers, Dated, JobSound, SeasonsApart, LateExcluded,
    Frozen, Enrolled

\* The row a signup inserts is that of the season it chose.
LEMMA EnrolCommitKeeps ==
  ASSUME SeasonsInv, NEW u \in Users, EnrolCommit(u)
  PROVE  SeasonsInv'
<1>. USE DEF SeasonsInv, EnrolCommit, Step
<1>. DEFINE r == Row(chosen[u], u, 1)
<1>1. /\ \A v \in Users \ {u} : pc'[v] = pc[v]
      /\ pc[u] = "insert" /\ pc'[u] = "done" /\ participants \subseteq participants'
      /\ participants' \subseteq participants \cup {r}
      /\ UNCHANGED <<users, funded, chosen, created, seasons, job, early, clock, crashes>>
  BY DEF TypeOK
<1>2. /\ u \in users /\ chosen[u] \in DOMAIN seasons
      /\ created[u] <= seasons[chosen[u]].start + Grace
  BY <1>1 DEF KnownUsers, ChosenInGrace
<1>3. r \in Participant /\ r.season = chosen[u] /\ r.user = u
  BY <1>2 DEF Participant, Row, Baselines, TypeOK
<1>. HIDE DEF r
<1>4. TypeOK'
  BY <1>1, <1>2, <1>3 DEF TypeOK
<1>5. LateExcluded'
  BY <1>1, <1>2, <1>3 DEF LateExcluded
<1>6. Frozen'
  BY <1>1 DEF Frozen, Enrolled
<1>. QED
  BY <1>1, <1>2, <1>4, <1>5, <1>6 DEF KnownUsers, Dated, JobSound, ChosenInGrace, SeasonsApart

\* A season is opened when no other runs, for everybody there is.
LEMMA EnsureSeasonKeeps ==
  ASSUME SeasonsInv, EnsureSeason
  PROVE  SeasonsInv'
<1>. USE DEF SeasonsInv, EnsureSeason, ToEnrol
<1>. DEFINE j == [id |-> Len(seasons) + 1, start |-> clock, visible |-> FALSE,
                  todo |-> users, pending |-> {}, rate |-> "unread"]
<1>1. /\ job' = j /\ UNCHANGED <<signups, seasons, participants, early, clock, crashes>>
  OBVIOUS
<1>2. /\ j.id = Len(seasons) + 1 /\ j.start = clock /\ j.visible = FALSE
      /\ j.todo = users /\ j.pending = {}
  OBVIOUS
<1>3. j \in Job
  BY DEF TypeOK, Job
<1>. HIDE DEF j
<1>4. TypeOK'
  BY <1>1, <1>2, <1>3 DEF TypeOK, signups
<1>5. JobSound'
  <2>1. \A i \in DOMAIN seasons : seasons[i].end <= clock
    <3>. SUFFICES ASSUME NEW i \in DOMAIN seasons PROVE seasons[i].end <= clock
      OBVIOUS
    <3>1. seasons[i].start <= clock /\ ~(seasons[i].start <= clock /\ clock < seasons[i].end)
      BY DEF MayOpen, Running, Dated
    <3>2. seasons[i].end \in Int /\ clock \in Int
      BY SeasonFields, BoundAssumption DEF TypeOK
    <3>. QED  BY <3>1, <3>2
  <2>. QED  BY <1>1, <1>2, <2>1 DEF JobSound, signups, Dated
<1>6. Dated'
  BY <1>1, <1>2, BoundAssumption DEF Dated, signups, TypeOK
<1>. QED
  BY <1>1, <1>4, <1>5, <1>6 DEF KnownUsers, ChosenInGrace, SeasonsApart, LateExcluded, Frozen,
    Enrolled, signups

\* A job that ends, with its process or without, leaves no trace.
LEMMA JobGone ==
  ASSUME SeasonsInv, job' = NoJob, UNCHANGED <<users, funded, chosen, created, seasons, participants, early, clock>>,
         UNCHANGED <<pc, crashes>> \/ Crash
  PROVE  SeasonsInv'
<1>. USE DEF SeasonsInv
<1>1. crashes' \in 0 .. MaxCrashes
  BY BoundAssumption DEF TypeOK, Crash
<1>2. /\ pc' \in [Users -> {"new", "wallet", "enrol", "insert", "done", "lost"}]
      /\ \A u \in Users : (pc'[u] = "new" <=> pc[u] = "new") /\ (pc'[u] = "insert" => pc[u] = "insert")
  BY DEF TypeOK, Crash
<1>3. TypeOK'
  BY <1>1, <1>2 DEF TypeOK
<1>. QED
  BY <1>2, <1>3 DEF KnownUsers, Dated, JobSound, ChosenInGrace, SeasonsApart, LateExcluded, Frozen,
    Enrolled

\* Reading a rate changes only what the job knows of it.
LEMMA RateRead ==
  ASSUME SeasonsInv, RateCached \/ RateMissing
  PROVE  SeasonsInv'
<1>. USE DEF SeasonsInv
<1>1. /\ job \in Job /\ job # NoJob /\ job' \in Job
      /\ job'.id = job.id /\ job'.start = job.start /\ job'.visible = job.visible
      /\ job'.todo = job.todo /\ job'.pending = job.pending
      /\ UNCHANGED <<signups, seasons, participants, early, clock, crashes>>
  <2>1. /\ job \in Job /\ job # NoJob /\ UNCHANGED <<signups, seasons, participants, early, clock, crashes>>
        /\ \E r \in {"known", "missing"} : job' = [job EXCEPT !.rate = r]
    BY DEF RateCached, RateMissing, NeedsRate, TypeOK
  <2>. QED  BY <2>1 DEF Job
<1>2. TypeOK'
  BY <1>1 DEF TypeOK, signups
<1>3. JobSound' /\ Dated'
  BY <1>1, JobAssumption DEF JobSound, Dated, signups
<1>. QED
  BY <1>1, <1>2, <1>3 DEF KnownUsers, ChosenInGrace, SeasonsApart, LateExcluded, Frozen, Enrolled, signups

\* The user an insert takes off the list is on its way in.
LEMMA InsertKeeps ==
  ASSUME SeasonsInv, NEW u \in Users, Insert(u)
  PROVE  SeasonsInv'
<1>. USE DEF SeasonsInv
<1>. DEFINE r == Row(job.id, u, Worth(u))
<1>1. /\ job \in Job /\ job # NoJob /\ u \in job.todo /\ u \in users
  BY DEF Insert, TypeOK
<1>2. r \in Participant /\ r.season = job.id /\ r.user = u
  BY <1>1 DEF Row, Participant, Baselines, Worth, Job
<1>3. /\ job' = [job EXCEPT !.todo = job.todo \ {u}, !.pending = job.pending \cup {r}]
      /\ UNCHANGED <<signups, seasons, participants, early, clock, crashes>>
  BY DEF Insert
<1>. HIDE DEF r
<1>4. /\ job' \in Job /\ job'.id = job.id /\ job'.start = job.start /\ job'.visible = job.visible
      /\ job'.todo = job.todo \ {u} /\ job'.pending = job.pending \cup {r}
  BY <1>1, <1>2, <1>3 DEF Job
<1>5. TypeOK'
  BY <1>1, <1>2, <1>3, <1>4 DEF TypeOK, signups
<1>6. JobSound' /\ Dated'
  BY <1>1, <1>2, <1>3, <1>4 DEF JobSound, Dated, signups
<1>. QED
  BY <1>3, <1>5, <1>6 DEF KnownUsers, ChosenInGrace, SeasonsApart, LateExcluded, Frozen, Enrolled, signups

\* A refresh of the rates publishes the season half-way.
LEMMA RateRefreshedKeeps ==
  ASSUME SeasonsInv, RateRefreshed
  PROVE  SeasonsInv'
<1>. USE DEF SeasonsInv
<1>1. /\ job \in Job /\ job # NoJob /\ Publish /\ early' = early \cup {job.id}
      /\ job' = [job EXCEPT !.rate = "known", !.visible = TRUE, !.pending = {}]
      /\ UNCHANGED <<signups, clock, crashes>>
  BY DEF RateRefreshed, NeedsRate, TypeOK
<1>2. /\ job' \in Job /\ job'.id = job.id /\ job'.start = job.start /\ job'.visible = TRUE
      /\ job'.todo = job.todo /\ job'.pending = {}
  BY <1>1 DEF Job
<1>3. /\ participants' \subseteq {p \in Participant : p.season \in DOMAIN seasons' /\ p.user \in users'}
      /\ early' \subseteq DOMAIN seasons' /\ seasons' \in Seq(Season)
      /\ \A i \in DOMAIN seasons' : seasons'[i].start <= clock
      /\ ChosenInGrace' /\ SeasonsApart' /\ LateExcluded' /\ Frozen'
  BY <1>1, PublishKeeps
<1>4. Len(seasons') = job.id
  BY <1>1, Published
<1>5. seasons'[job.id].start = job.start
  <2>1. job.visible => job.id \in DOMAIN seasons
    BY <1>1 DEF JobSound, TypeOK
  <2>. QED  BY <1>1, <2>1, Published DEF JobSound
<1>6. TypeOK'
  BY <1>1, <1>2, <1>3, <1>4 DEF TypeOK, signups
<1>7. JobSound' /\ Dated'
  BY <1>1, <1>2, <1>3, <1>5 DEF JobSound, Dated, signups
<1>. QED  BY <1>1, <1>3, <1>6, <1>7 DEF KnownUsers, signups

\* The commit publishes a season with everybody in it.
LEMMA OpenCommitKeeps ==
  ASSUME SeasonsInv, OpenCommit
  PROVE  SeasonsInv'
<1>. USE DEF SeasonsInv
<1>1. /\ job # NoJob /\ job.todo = {} /\ Publish /\ job' = NoJob
      /\ UNCHANGED <<signups, early, clock, crashes>>
  BY DEF OpenCommit
<1>2. /\ participants' \subseteq {p \in Participant : p.season \in DOMAIN seasons' /\ p.user \in users'}
      /\ early' \subseteq DOMAIN seasons' /\ seasons' \in Seq(Season)
      /\ \A i \in DOMAIN seasons' : seasons'[i].start <= clock
      /\ ChosenInGrace' /\ SeasonsApart' /\ LateExcluded' /\ Frozen'
  BY <1>1, PublishKeeps
<1>3. TypeOK'
  BY <1>1, <1>2 DEF TypeOK, signups
<1>. QED  BY <1>1, <1>2, <1>3 DEF KnownUsers, JobSound, Dated, signups

\* Time passes.
LEMMA TickKeeps ==
  ASSUME SeasonsInv, Tick
  PROVE  SeasonsInv'
<1>. USE DEF SeasonsInv, Tick
<1>1. TypeOK'
  BY BoundAssumption DEF TypeOK, signups
<1>2. Dated'
  <2>1. clock \in Int /\ clock' = clock + 1
    BY BoundAssumption DEF TypeOK
  <2>2. /\ \A u \in users : created[u] \in Int
        /\ \A i \in DOMAIN seasons : seasons[i].start \in Int
        /\ job # NoJob => job.start \in Int
    BY SeasonFields, BoundAssumption DEF TypeOK, Job, Before
  <2>. QED  BY <2>1, <2>2 DEF Dated, signups
<1>. QED
  BY <1>1, <1>2 DEF KnownUsers, JobSound, ChosenInGrace, SeasonsApart, LateExcluded, Frozen,
    Enrolled, signups

-----------------------------------------------------------------------------
(* Theorems *)

\* The inductive invariant holds at the start.
LEMMA InitSeasons == Init => SeasonsInv
<1>. SUFFICES ASSUME Init PROVE SeasonsInv
  OBVIOUS
<1>. USE DEF Init
<1>1. TypeOK
  BY UserAssumption, BoundAssumption DEF TypeOK, Before
<1>2. Dated
  BY UserAssumption DEF Dated, Before
<1>. QED
  BY <1>1, <1>2, UserAssumption
     DEF SeasonsInv, KnownUsers, JobSound, ChosenInGrace, SeasonsApart, LateExcluded, Frozen

\* The inductive invariant holds of every reachable state.
THEOREM SeasonsInvariance == Spec => []SeasonsInv
<1>1. SeasonsInv /\ [Next]_vars => SeasonsInv'
  <2>. SUFFICES ASSUME SeasonsInv, [Next]_vars PROVE SeasonsInv'
    OBVIOUS
  <2>1. CASE UNCHANGED vars
    BY <2>1 DEF vars, signups, SeasonsInv, TypeOK, KnownUsers, Dated, JobSound, ChosenInGrace,
      SeasonsApart, LateExcluded, Frozen, Enrolled
  <2>2. ASSUME NEW u \in Users, Signup(u) PROVE SeasonsInv'
    BY <2>2, CommitUserKeeps, QuietSignup, EnrolReadKeeps, EnrolCommitKeeps DEF Signup
  <2>3. CASE EnsureSeason
    BY <2>3, EnsureSeasonKeeps
  <2>4. ASSUME NEW u \in Users, Insert(u) \/ InsertRefused(u) PROVE SeasonsInv'
    BY <2>4, InsertKeeps, JobGone DEF InsertRefused, signups
  <2>5. CASE RateCached \/ RateRefreshed \/ RateMissing \/ OpenCommit
    BY <2>5, RateRead, RateRefreshedKeeps, OpenCommitKeeps
  <2>6. CASE Crash
    BY <2>6, JobGone DEF Crash
  <2>7. CASE Tick
    BY <2>7, TickKeeps
  <2>. QED  BY <2>1, <2>2, <2>3, <2>4, <2>5, <2>6, <2>7 DEF Next, Opening
<1>. QED  BY <1>1, InitSeasons, PTL DEF Spec

\* Every table and register always has its type, and a job works on the last
\* season or the next.
THEOREM SeasonsTypeCorrect == Spec => []TypeOK
<1>1. SeasonsInv => TypeOK
  BY DEF SeasonsInv
<1>. QED  BY <1>1, SeasonsInvariance, PTL

\* Two seasons never run at the same time, however jobs, crashes and half-way
\* commits fall.
THEOREM OneSeasonAtATime == Spec => []SeasonsApart
<1>1. SeasonsInv => SeasonsApart
  BY DEF SeasonsInv
<1>. QED  BY <1>1, SeasonsInvariance, PTL

\* Nobody is ranked in a season that was older than its grace window when the
\* account was created.
THEOREM LatecomersExcluded == Spec => []LateExcluded
<1>1. SeasonsInv => LateExcluded
  BY DEF SeasonsInv
<1>. QED  BY <1>1, SeasonsInvariance, PTL

\* A season that was published in one commit has a row for every account that
\* is older.
THEOREM EverybodyHasABaseline == Spec => []BaselinesFrozen
<1>1. SeasonsInv => BaselinesFrozen
  BY DEF SeasonsInv, Frozen, BaselinesFrozen
<1>. QED  BY <1>1, SeasonsInvariance, PTL

(***************************************************************************)
(* Universe and History                                                    *)
(***************************************************************************)

\* The boot's backfill, and the pass of the night.
Passes == {"boot", "night"}

SyncRecord ==
  [on : BOOLEAN, from : 0 .. MaxDay, to : 0 .. MaxDay, left : SUBSET All, at : All \cup {0},
   seen : SUBSET Days, over : SUBSET All, ok : BOOLEAN]

\* What a run brings at least, while there is something to bring.
Gain == Budget - Cardinality(Stuck)

\* What has been loaded, or will be by the end of a run, after n runs.
Reached(S, n) == Cardinality(S) >= Cardinality(Loadable) \/ Cardinality(S) >= n * Gain

\* What a run of the night will have loaded if nothing disturbs it.
Ahead == available \cup (loader["night"].left \cap Loadable)

\* A run knows of no more than there is; n runs have brought n gains, and the one
\* that is under way, if still undisturbed, will bring another.
LoadInv ==
  /\ UniverseTypeOK
  /\ \A l \in Loaders : loader[l].held \subseteq available
  /\ Gain > 0 =>
       /\ Reached(available, loads)
       /\ loader["night"].on /\ loader["night"].clean => Reached(Ahead, loads + 1)

HistoryTypes ==
  /\ day \in Days /\ day >= FirstDay /\ night \in {Schedule[i] : i \in 1 .. 4}
  /\ rows \in [All -> [Days -> {"none", "live", "official"}]]
  /\ closes \in [on : BOOLEAN, have : SUBSET All]
  /\ sync \in [Passes -> SyncRecord]
  /\ boot \in {"check", "load", "loadThenFill", "fill", "done"}
  /\ provider \in Providers /\ phase \in Nat /\ calm \in 0 .. Tickers

\* A pass began when the window was where it is, or earlier; that of the night ends today.
PassesOK ==
  /\ \A a \in Passes :
       /\ sync[a].at # 0 => provider = "massive" /\ sync[a].at \in sync[a].left
       /\ sync[a].left # {} => sync[a].on
       /\ sync[a].on => sync[a].from <= day - Window + 1 /\ sync[a].over \subseteq available
  /\ sync["night"].on => night = "reconcile" /\ sync["night"].to = day

\* The tickers whose turn it is in the pass of the night D.
Turn(D) ==
  IF provider = "alpaca" THEN available
  ELSE {s \in available :
          LET n == Cardinality(available)
          IN  (Place(s, available) - (((D + phase) * PerRun) % n)) % n < PerRun}

\* The closes of s from low to high are official.
Corrected(table, s, low, high) ==
  \A d \in TradingDays : low <= d /\ d <= high => table[s][d] = "official"

\* Of every calm night: the tickers that had their turn have been corrected.
PastNights == \A k \in Nat : k < calm =>
  \A s \in Turn(LastPass - k) \cap Listed : Corrected(rows, s, day - Window + 1, LastPass - k)

\* What the pass under way is done with is corrected, unless something failed.
ThisNight == sync["night"].on /\ sync["night"].ok /\ sync["night"].over = available =>
  \A s \in Turn(day) \cap Listed :
    s \in sync["night"].left \/ Corrected(rows, s, day - Window + 1, day)

\* The inductive invariant.
HistoryInv == LoadInv /\ HistoryTypes /\ PassesOK /\ PastNights /\ ThisNight

-----------------------------------------------------------------------------
(* Tickers, and sets of them *)

\* Every set of naturals that is not empty has a least element.
LEMMA Least ==
  ASSUME NEW S, S \subseteq Nat, S # {}
  PROVE  \E x \in S : \A y \in S : x <= y
<1>1. PICK x \in S : \A y \in S : ~(<<y, x>> \in OpToRel(<, Nat))
  BY NatLessThanWellFounded, WFMin, Zenon
<1>2. \A y \in S : ~(y < x)
  BY <1>1 DEF OpToRel
<1>. QED  BY <1>2

LEMMA Tickets ==
  /\ Tickers \in Nat \ {0} /\ Budget \in Nat \ {0} /\ MaxFaults \in Nat
  /\ IsFiniteSet(All) /\ All \subseteq Nat /\ Loadable \subseteq All /\ Stuck \subseteq All
  /\ \A S \in SUBSET All : IsFiniteSet(S) /\ Cardinality(S) \in Nat
  /\ Gain \in Int
<1>1. Tickers \in Nat \ {0} /\ Budget \in Nat \ {0} /\ MaxFaults \in Nat
  BY BudgetAssumption
<1>2. IsFiniteSet(All) /\ All \subseteq Nat
  BY <1>1, FS_Interval DEF All
<1>3. \A S \in SUBSET All : IsFiniteSet(S) /\ Cardinality(S) \in Nat
  BY <1>2, FS_Subset, FS_CardinalityType
<1>4. Loadable \subseteq All /\ Stuck \subseteq All
  BY DEF Loadable, Stuck
<1>5. Cardinality(Stuck) \in Nat
  BY <1>3, <1>4
<1>. QED  BY <1>1, <1>2, <1>3, <1>4, <1>5 DEF Gain

LEMMA MinOf ==
  ASSUME NEW S \in SUBSET All, S # {}
  PROVE  Min(S) \in S /\ \A y \in S : Min(S) <= y
<1>1. \E x \in S : \A y \in S : x <= y
  BY Least, Tickets
<1>. QED  BY <1>1 DEF Min

LEMMA Greatest ==
  ASSUME NEW S \in SUBSET All, S # {}
  PROVE  \E x \in S : \A y \in S : y <= x
<1>. DEFINE F == {Tickers - x : x \in S}
<1>0. Tickers \in Nat /\ \A x \in S : x \in Nat /\ x <= Tickers
  BY Tickets DEF All
<1>1. F \subseteq Nat /\ F # {}
  <2>1. \A x \in S : Tickers - x \in Nat
    BY <1>0
  <2>. QED  BY <2>1
<1>2. PICK m \in F : \A k \in F : m <= k
  <2>. HIDE DEF F
  <2>. QED  BY <1>1, Least
<1>3. PICK x \in S : m = Tickers - x
  BY <1>2
<1>4. ASSUME NEW y \in S PROVE y <= x
  <2>1. Tickers - x <= Tickers - y
    BY <1>2, <1>3
  <2>2. x \in Nat /\ y \in Nat /\ Tickers \in Nat
    BY <1>0
  <2>. QED  BY <2>1, <2>2
<1>. QED  BY <1>4

LEMMA PlaceOf ==
  ASSUME NEW S \in SUBSET All, NEW t \in S
  PROVE  Place(t, S) \in Nat /\ Place(t, S) < Cardinality(S)
<1>. DEFINE B == {u \in S : u < t}
<1>1. B \in SUBSET S /\ B # S
  BY Tickets
<1>2. IsFiniteSet(S) /\ Cardinality(S) \in Nat
  BY Tickets
<1>3. Cardinality(B) \in Nat
  BY <1>1, Tickets
<1>. HIDE DEF B
<1>4. Cardinality(B) <= Cardinality(S) /\ Cardinality(B) # Cardinality(S)
  BY <1>1, <1>2, FS_Subset
<1>5. Place(t, S) = Cardinality(B)
  BY DEF Place, B
<1>. QED  BY <1>2, <1>3, <1>4, <1>5

\* missing[:budget] has the budget's size, or is all there is.
LEMMA BatchSize ==
  ASSUME NEW M \in SUBSET All
  PROVE  /\ Batch(M) \in SUBSET M /\ Cardinality(Batch(M)) <= Budget
         /\ Batch(M) # M => Cardinality(Batch(M)) >= Budget
<1>. DEFINE B == Batch(M)
<1>1. B \in SUBSET M /\ \A t \in M : t \in B <=> Place(t, M) < Budget
  BY DEF Batch
<1>. HIDE DEF B
<1>2. IsFiniteSet(M) /\ IsFiniteSet(B) /\ Cardinality(B) \in Nat /\ Budget \in Nat \ {0} /\ B \in SUBSET All
  BY <1>1, Tickets
<1>3. Cardinality(B) <= Budget
  <2>1. CASE B = {}
    BY <1>2, <2>1, FS_EmptySet
  <2>2. CASE B # {}
    <3>1. PICK x \in B : \A y \in B : y <= x
      BY <1>2, <2>2, Greatest
    <3>. DEFINE R == {u \in M : u < x}
    <3>2. R \in SUBSET All /\ Cardinality(R) < Budget
      BY <1>1 DEF Place
    <3>3. B \ {x} \in SUBSET R
      BY <1>1, <1>2, <3>1, Tickets
    <3>. HIDE DEF R
    <3>4. Cardinality(B \ {x}) = Cardinality(B) - 1
      BY <1>2, FS_RemoveElement
    <3>5. Cardinality(B \ {x}) <= Cardinality(R) /\ Cardinality(R) \in Nat
      BY <3>2, <3>3, FS_Subset, Tickets
    <3>. QED  BY <1>2, <3>2, <3>4, <3>5
  <2>. QED  BY <2>1, <2>2
<1>4. ASSUME B # M PROVE Cardinality(B) >= Budget
  <2>1. M \ B \in SUBSET All /\ M \ B # {}
    BY <1>1, <1>4
  <2>2. Min(M \ B) \in M \ B /\ \A y \in M \ B : Min(M \ B) <= y
    BY <2>1, MinOf
  <2>. DEFINE y == Min(M \ B)
              R == {u \in M : u < y}
  <2>. HIDE DEF y
  <2>3. R \in SUBSET B
    <3>1. y \in Nat /\ y \in M /\ \A u \in M \ B : y <= u
      BY <2>1, <2>2, Tickets DEF y
    <3>2. \A u \in M : u \in Nat
      BY Tickets
    <3>3. ASSUME NEW u \in M, u < y PROVE u \in B
      BY <3>1, <3>2, <3>3
    <3>. QED  BY <3>3
  <2>4. y \in M /\ y \notin B
    BY <2>2 DEF y
  <2>5. Cardinality(R) = Place(y, M)
    BY DEF Place
  <2>6. R \in SUBSET All
    OBVIOUS
  <2>. HIDE DEF R
  <2>7. Cardinality(R) \in Nat /\ ~(Cardinality(R) < Budget)
    BY <1>1, <2>4, <2>5, <2>6, Tickets
  <2>8. Cardinality(R) <= Cardinality(B)
    BY <1>2, <2>3, FS_Subset
  <2>. QED  BY <1>2, <2>7, <2>8
<1>. QED  BY <1>1, <1>3, <1>4 DEF B

LEMMA ReachedMore ==
  ASSUME NEW S \in SUBSET All, NEW T \in SUBSET All, S \subseteq T, NEW n \in Nat, Reached(S, n)
  PROVE  Reached(T, n)
<1>1. Cardinality(S) <= Cardinality(T) /\ Cardinality(S) \in Nat /\ Cardinality(T) \in Nat
  BY FS_Subset, Tickets
<1>2. n * Gain \in Int /\ Cardinality(Loadable) \in Nat
  BY Tickets
<1>. DEFINE g == n * Gain
<1>. HIDE DEF g
<1>3. Cardinality(S) >= Cardinality(Loadable) \/ Cardinality(S) >= g
  BY DEF Reached, g
<1>4. Cardinality(T) >= Cardinality(Loadable) \/ Cardinality(T) >= g
  BY <1>1, <1>2, <1>3 DEF g
<1>. QED  BY <1>4 DEF Reached, g

\* A run asks for the whole budget, of which at most the stuck tickers bring
\* nothing, or for all that is missing.
LEMMA RunReaches ==
  ASSUME NEW S \in SUBSET Loadable, NEW n \in Nat, Reached(S, n)
  PROVE  Reached(S \cup (Batch(All \ S) \cap Loadable), n + 1)
<1>. DEFINE M == All \ S
            B == Batch(M)
            N == B \cap Loadable
            T == S \cup N
<1>1. M \in SUBSET All
  OBVIOUS
<1>2. B \in SUBSET M /\ (B # M => Cardinality(B) >= Budget)
  BY <1>1, BatchSize
<1>3. S \in SUBSET All /\ B \in SUBSET All /\ N \in SUBSET All /\ T \in SUBSET All /\ S \cap N = {}
      /\ Loadable \in SUBSET All
  BY <1>2, Tickets
<1>4. CASE B = M
  <2>1. Loadable \subseteq T
    BY <1>4, Tickets
  <2>. HIDE DEF T
  <2>2. Cardinality(Loadable) <= Cardinality(T) /\ Cardinality(Loadable) \in Nat /\ Cardinality(T) \in Nat
    BY <1>3, <2>1, FS_Subset, Tickets
  <2>. QED  BY <2>2 DEF Reached, T
<1>5. CASE B # M
  <2>1. B \ Loadable \in SUBSET Stuck /\ Stuck \in SUBSET All
    BY <1>3 DEF Stuck
  <2>. HIDE DEF B, T
  <2>2. /\ Cardinality(B \ Loadable) = Cardinality(B) - Cardinality(N)
        /\ Cardinality(B \ Loadable) <= Cardinality(Stuck)
    BY <1>3, <2>1, FS_Difference, FS_Subset, Tickets
  <2>3. /\ Cardinality(N) \in Nat /\ Cardinality(B) \in Nat /\ Cardinality(Stuck) \in Nat
        /\ Cardinality(S) \in Nat /\ Budget \in Nat /\ Cardinality(Loadable) \in Nat /\ Gain \in Int
    BY <1>3, <2>1, Tickets
  <2>4. Cardinality(N) >= Gain
    BY <1>2, <1>5, <2>2, <2>3 DEF Gain
  <2>5. Cardinality(T) = Cardinality(S) + Cardinality(N)
    <3>1. Cardinality(S \cup N) = Cardinality(S) + Cardinality(N) - Cardinality(S \cap N)
      BY <1>3, FS_Union, Tickets
    <3>2. Cardinality(S \cap N) = 0
      BY <1>3, FS_EmptySet
    <3>. QED  BY <2>3, <3>1, <3>2 DEF T
  <2>. DEFINE g == n * Gain
  <2>6. g \in Int /\ (n + 1) * Gain = g + Gain
    BY <2>3
  <2>7. Cardinality(S) >= Cardinality(Loadable) \/ Cardinality(S) >= g
    BY DEF Reached
  <2>. HIDE DEF g, N
  <2>8. Cardinality(T) >= Cardinality(Loadable) \/ Cardinality(T) >= (n + 1) * Gain
    BY <2>3, <2>4, <2>5, <2>6, <2>7
  <2>9. Reached(T, n + 1)
    BY <2>8 DEF Reached
  <2>. QED  BY <2>9 DEF T, N, B
<1>. QED  BY <1>4, <1>5

-----------------------------------------------------------------------------
(* The runs that load the tickers *)

LoaderRecord ==
  [on : BOOLEAN, held : SUBSET All, clean : BOOLEAN,
   left : {S \in SUBSET All : Cardinality(S) <= Budget}]

LEMMA SmallerBatch ==
  ASSUME NEW S \in {T \in SUBSET All : Cardinality(T) <= Budget}, NEW T \in SUBSET S
  PROVE  T \in {U \in SUBSET All : Cardinality(U) <= Budget}
<1>1. T \in SUBSET All /\ S \in SUBSET All
  OBVIOUS
<1>2. Cardinality(T) <= Cardinality(S) /\ Cardinality(T) \in Nat /\ Cardinality(S) \in Nat /\ Budget \in Nat
  BY <1>1, FS_Subset, Tickets
<1>. QED  BY <1>1, <1>2

LEMMA LoadBeginKeeps ==
  ASSUME LoadInv, NEW l \in Loaders, LoadBegin(l)
  PROVE  LoadInv'
<1>. DEFINE B == Batch(All \ available)
<1>1. loader \in [Loaders -> LoaderRecord] /\ available \subseteq Loadable /\ available \in SUBSET All /\ loads \in Nat
  BY Tickets DEF LoadInv, UniverseTypeOK, LoaderRecord
<1>2. B \in {S \in SUBSET All : Cardinality(S) <= Budget}
  <2>1. All \ available \in SUBSET All
    OBVIOUS
  <2>. QED  BY <2>1, BatchSize
<1>3. /\ loader'[l] = [on |-> TRUE, held |-> available, clean |-> TRUE, left |-> B]
      /\ \A k \in Loaders : k # l => loader'[k] = loader[k]
  BY <1>1 DEF LoadBegin
<1>. HIDE DEF B
<1>4. loader' \in [Loaders -> LoaderRecord]
  <2>1. [on |-> TRUE, held |-> available, clean |-> TRUE, left |-> B] \in LoaderRecord
    BY <1>1, <1>2 DEF LoaderRecord
  <2>2. \A k \in Loaders : loader'[k] \in LoaderRecord
    BY <1>1, <1>3, <2>1
  <2>3. loader' = [k \in Loaders |-> loader'[k]]
    BY <1>1 DEF LoadBegin
  <2>. QED  BY <2>2, <2>3
<1>5. UNCHANGED <<available, priced, touched, loads, faults>>
  BY DEF LoadBegin
<1>6. UniverseTypeOK'
  BY <1>4, <1>5 DEF LoadInv, UniverseTypeOK, LoaderRecord
<1>7. \A k \in Loaders : loader'[k].held \subseteq available'
  BY <1>3, <1>5 DEF LoadInv
<1>8. ASSUME Gain > 0 PROVE Reached(available, loads)'
  BY <1>5, <1>8 DEF LoadInv, Reached
<1>9. ASSUME Gain > 0, loader'["night"].on, loader'["night"].clean PROVE Reached(Ahead, loads + 1)'
  <2>1. CASE l = "night"
    <3>1. Ahead' = available \cup (B \cap Loadable)
      BY <1>3, <1>5, <2>1 DEF Ahead, Loaders
    <3>2. Reached(available, loads)
      BY <1>9 DEF LoadInv
    <3>3. Reached(available \cup (B \cap Loadable), loads + 1)
      BY <1>1, <3>2, RunReaches DEF B
    <3>. QED  BY <1>5, <3>1, <3>3 DEF Reached
  <2>2. CASE l # "night"
    <3>1. loader'["night"] = loader["night"]
      BY <1>3, <2>2 DEF Loaders
    <3>2. Ahead' = Ahead
      BY <1>5, <3>1 DEF Ahead
    <3>3. Reached(Ahead, loads + 1)
      BY <1>9, <3>1 DEF LoadInv
    <3>. QED  BY <1>5, <3>2, <3>3 DEF Reached
  <2>. QED  BY <2>1, <2>2
<1>. QED  BY <1>6, <1>7, <1>8, <1>9 DEF LoadInv

\* A ticker that can be loaded and whose turn comes is in the table after it.
LEMMA LoadOneKeeps ==
  ASSUME LoadInv, NEW l \in Loaders, LoadOne(l)
  PROVE  LoadInv' /\ available \subseteq available'
<1>. DEFINE t     == Min(loader[l].left)
            fresh == {Profile[t]} \ ({NoProfile} \cup loader[l].held \cup available)
<1>1. loader \in [Loaders -> LoaderRecord] /\ available \subseteq Loadable /\ available \in SUBSET All /\ loads \in Nat
      /\ loader[l].left \in SUBSET All
  BY Tickets DEF LoadInv, UniverseTypeOK, LoaderRecord
<1>2. t \in loader[l].left
  BY <1>1, MinOf DEF LoadOne
<1>3. fresh \subseteq Loadable
  BY <1>1, <1>2, ProfileAssumption
<1>4. t \in Loadable => t \in available \cup fresh
  BY <1>1, <1>2, ProfileAssumption DEF Loadable, LoadInv
<1>5. /\ available' = available \cup fresh
      /\ priced' = priced \cup (fresh \cap Quoted)
      /\ touched' \in BOOLEAN
      /\ loader' = [loader EXCEPT ![l].left = @ \ {t}, ![l].held = @ \cup fresh]
      /\ UNCHANGED <<loads, faults>>
  BY DEF LoadOne, LoadInv, UniverseTypeOK
<1>. HIDE DEF fresh, t
<1>6. /\ loader'[l] = [loader[l] EXCEPT !.left = @ \ {t}, !.held = @ \cup fresh]
      /\ \A k \in Loaders : k # l => loader'[k] = loader[k]
      /\ loader' = [k \in Loaders |-> loader'[k]]
  BY <1>1, <1>5
<1>7. loader[l] \in LoaderRecord
  BY <1>1
<1>8. /\ loader'[l] \in LoaderRecord
      /\ loader'[l].left = loader[l].left \ {t} /\ loader'[l].held = loader[l].held \cup fresh
      /\ loader'[l].on = loader[l].on /\ loader'[l].clean = loader[l].clean
  <2>1. loader[l].left \ {t} \in {S \in SUBSET All : Cardinality(S) <= Budget}
    BY <1>7, SmallerBatch DEF LoaderRecord
  <2>2. loader[l].held \cup fresh \in SUBSET All
    BY <1>3, <1>7, Tickets DEF LoaderRecord
  <2>. QED  BY <1>6, <1>7, <2>1, <2>2 DEF LoaderRecord
<1>9. loader' \in [Loaders -> LoaderRecord]
  <2>1. \A k \in Loaders : loader'[k] \in LoaderRecord
    BY <1>1, <1>6, <1>8
  <2>. QED  BY <1>6, <2>1
<1>10. UniverseTypeOK'
  BY <1>1, <1>3, <1>5, <1>9, Tickets DEF LoadInv, UniverseTypeOK, LoaderRecord
<1>11. \A k \in Loaders : loader'[k].held \subseteq available'
  <2>. SUFFICES ASSUME NEW k \in Loaders PROVE loader'[k].held \subseteq available'
    OBVIOUS
  <2>1. loader[k].held \subseteq available
    BY DEF LoadInv
  <2>. QED  BY <1>5, <1>6, <1>8, <2>1
<1>12. available \subseteq available' /\ available' \in SUBSET All /\ loads' = loads
  BY <1>1, <1>3, <1>5, Tickets
<1>13. ASSUME Gain > 0 PROVE Reached(available, loads)'
  <2>1. Reached(available, loads)
    BY <1>13 DEF LoadInv
  <2>2. Reached(available', loads)
    BY <1>1, <1>12, <2>1, ReachedMore
  <2>. QED  BY <1>12, <2>2 DEF Reached
<1>14. ASSUME Gain > 0, loader'["night"].on, loader'["night"].clean PROVE Reached(Ahead, loads + 1)'
  <2>1. loader["night"].on /\ loader["night"].clean
    BY <1>6, <1>8, <1>14 DEF Loaders
  <2>2. Reached(Ahead, loads + 1)
    BY <1>14, <2>1 DEF LoadInv
  <2>3. Ahead \subseteq Ahead' /\ Ahead' \in SUBSET All /\ Ahead \in SUBSET All
    <3>1. CASE l = "night"
      BY <1>1, <1>4, <1>5, <1>8, <1>12, <3>1, Tickets DEF Ahead
    <3>2. CASE l # "night"
      <4>1. loader'["night"] = loader["night"]
        BY <1>6, <3>2 DEF Loaders
      <4>. QED  BY <1>1, <1>12, <4>1, Tickets DEF Ahead
    <3>. QED  BY <3>1, <3>2
  <2>4. Reached(Ahead', loads + 1)
    BY <1>1, <2>2, <2>3, ReachedMore
  <2>. QED  BY <1>12, <2>4 DEF Reached
<1>. QED  BY <1>10, <1>11, <1>12, <1>13, <1>14 DEF LoadInv

LEMMA LoadFailsKeeps ==
  ASSUME LoadInv, NEW l \in Loaders, LoadFails(l)
  PROVE  LoadInv' /\ available' = available
<1>1. loader \in [Loaders -> LoaderRecord] /\ faults \in Nat /\ MaxFaults \in Nat
  BY Tickets DEF LoadInv, UniverseTypeOK, LoaderRecord
<1>2. PICK kept \in {loader[l].left \ {Min(loader[l].left)}, {}} :
        loader' = [loader EXCEPT ![l].left = kept, ![l].clean = FALSE]
  BY DEF LoadFails
<1>3. UNCHANGED <<available, priced, touched, loads>> /\ faults' \in 0 .. MaxFaults
  BY <1>1 DEF LoadFails, Fault
<1>4. loader[l] \in LoaderRecord /\ kept \in {S \in SUBSET All : Cardinality(S) <= Budget}
  <2>1. loader[l] \in LoaderRecord /\ kept \in SUBSET loader[l].left
    BY <1>1
  <2>2. loader[l].left \in {S \in SUBSET All : Cardinality(S) <= Budget}
    BY <2>1 DEF LoaderRecord
  <2>. QED  BY <2>1, <2>2, SmallerBatch
<1>5. /\ loader'[l] \in LoaderRecord /\ loader'[l].held = loader[l].held /\ ~loader'[l].clean
      /\ \A k \in Loaders : k # l => loader'[k] = loader[k]
      /\ loader' = [k \in Loaders |-> loader'[k]]
  BY <1>1, <1>2, <1>4 DEF LoaderRecord
<1>6. loader' \in [Loaders -> LoaderRecord]
  <2>1. \A k \in Loaders : loader'[k] \in LoaderRecord
    BY <1>1, <1>5
  <2>. QED  BY <1>5, <2>1
<1>7. UniverseTypeOK'
  BY <1>3, <1>6 DEF LoadInv, UniverseTypeOK, LoaderRecord
<1>8. \A k \in Loaders : loader'[k].held \subseteq available'
  BY <1>3, <1>5 DEF LoadInv
<1>9. ASSUME Gain > 0 PROVE Reached(available, loads)'
  BY <1>3, <1>9 DEF LoadInv, Reached
<1>10. ASSUME Gain > 0, loader'["night"].on, loader'["night"].clean PROVE Reached(Ahead, loads + 1)'
  <2>1. loader'["night"] = loader["night"]
    BY <1>5, <1>10 DEF Loaders
  <2>2. Ahead' = Ahead /\ Reached(Ahead, loads + 1)
    BY <1>3, <1>10, <2>1 DEF Ahead, LoadInv
  <2>. QED  BY <1>3, <2>2 DEF Reached
<1>. QED  BY <1>3, <1>7, <1>8, <1>9, <1>10 DEF LoadInv

\* A run that ends has asked for all of its batch.
LEMMA LoadEndKeeps ==
  ASSUME LoadInv, NEW l \in Loaders, LoadEnd(l)
  PROVE  LoadInv' /\ available' = available
<1>1. loader \in [Loaders -> LoaderRecord] /\ loads \in 0 .. Tickers /\ Tickers \in Nat
  BY Tickets DEF LoadInv, UniverseTypeOK, LoaderRecord
<1>2. /\ loader[l].on /\ loader[l].left = {} /\ loader' = [loader EXCEPT ![l] = NotLoading]
      /\ loads' = IF l = "night" /\ loader[l].clean /\ loads < Tickers THEN loads + 1 ELSE loads
      /\ UNCHANGED <<available, priced, touched, faults>>
  BY DEF LoadEnd
<1>3. NotLoading \in LoaderRecord /\ NotLoading.held = {} /\ ~NotLoading.on
  <2>1. {} \in {S \in SUBSET All : Cardinality(S) <= Budget}
    BY Tickets, FS_EmptySet
  <2>. QED  BY <2>1 DEF NotLoading, LoaderRecord
<1>4. loader' \in [Loaders -> LoaderRecord] /\ loads' \in 0 .. Tickers
  BY <1>1, <1>2, <1>3
<1>5. UniverseTypeOK'
  BY <1>2, <1>4 DEF LoadInv, UniverseTypeOK, LoaderRecord
<1>6. \A k \in Loaders : loader'[k].held \subseteq available'
  BY <1>1, <1>2, <1>3 DEF LoadInv
<1>7. ASSUME Gain > 0 PROVE Reached(available, loads)'
  <2>1. CASE l = "night" /\ loader[l].clean /\ loads < Tickers
    <3>1. Ahead = available
      BY <1>2, <2>1 DEF Ahead
    <3>2. Reached(available, loads + 1)
      BY <1>2, <1>7, <2>1, <3>1 DEF LoadInv
    <3>. QED  BY <1>2, <2>1, <3>2 DEF Reached
  <2>2. CASE ~(l = "night" /\ loader[l].clean /\ loads < Tickers)
    BY <1>2, <1>7, <2>2 DEF LoadInv, Reached
  <2>. QED  BY <2>1, <2>2
<1>8. ASSUME Gain > 0, loader'["night"].on, loader'["night"].clean PROVE Reached(Ahead, loads + 1)'
  <2>1. l # "night" /\ loader'["night"] = loader["night"] /\ loads' = loads
    BY <1>1, <1>2, <1>3, <1>8 DEF Loaders
  <2>2. Ahead' = Ahead /\ Reached(Ahead, loads + 1)
    BY <1>2, <1>8, <2>1 DEF Ahead, LoadInv
  <2>. QED  BY <2>1, <2>2 DEF Reached
<1>. QED  BY <1>2, <1>5, <1>6, <1>7, <1>8 DEF LoadInv

\* What a restart and the feed leave of the loading.
LEMMA RestOfLoading ==
  ASSUME LoadInv,
         UNCHANGED <<available, loads>>,
         loader' = loader \/ loader' = [l \in Loaders |-> NotLoading],
         priced' \in SUBSET All, touched' \in BOOLEAN, faults' \in 0 .. MaxFaults
  PROVE  LoadInv'
<1>1. loader \in [Loaders -> LoaderRecord]
  BY DEF LoadInv, UniverseTypeOK, LoaderRecord
<1>2. NotLoading \in LoaderRecord /\ NotLoading.held = {} /\ ~NotLoading.on
  <2>1. {} \in {S \in SUBSET All : Cardinality(S) <= Budget}
    BY Tickets, FS_EmptySet
  <2>. QED  BY <2>1 DEF NotLoading, LoaderRecord
<1>3. loader' \in [Loaders -> LoaderRecord]
  BY <1>1, <1>2
<1>4. UniverseTypeOK'
  BY <1>3 DEF LoadInv, UniverseTypeOK, LoaderRecord
<1>5. \A k \in Loaders : loader'[k].held \subseteq available'
  BY <1>2 DEF LoadInv
<1>6. ASSUME Gain > 0 PROVE Reached(available, loads)'
  BY <1>6 DEF LoadInv, Reached
<1>7. ASSUME Gain > 0, loader'["night"].on, loader'["night"].clean PROVE Reached(Ahead, loads + 1)'
  <2>1. loader'["night"] = loader["night"]
    BY <1>2, <1>7 DEF Loaders
  <2>2. Ahead' = Ahead /\ Reached(Ahead, loads + 1)
    BY <1>7, <2>1 DEF Ahead, LoadInv
  <2>. QED  BY <2>2 DEF Reached
<1>. QED  BY <1>4, <1>5, <1>6, <1>7 DEF LoadInv

LEMMA InitLoad == HistoryInit => LoadInv
<1>. SUFFICES ASSUME HistoryInit PROVE LoadInv
  OBVIOUS
<1>1. /\ available = {} /\ priced = {} /\ touched = FALSE /\ loads = 0 /\ faults = 0
      /\ loader = [l \in Loaders |-> NotLoading]
  BY DEF HistoryInit, UniverseInit
<1>2. NotLoading \in LoaderRecord /\ NotLoading.held = {} /\ ~NotLoading.on
  <2>1. {} \in {S \in SUBSET All : Cardinality(S) <= Budget}
    BY Tickets, FS_EmptySet
  <2>. QED  BY <2>1 DEF NotLoading, LoaderRecord
<1>3. loader \in [Loaders -> LoaderRecord] /\ Tickers \in Nat /\ MaxFaults \in Nat
  BY <1>1, <1>2, Tickets
<1>4. UniverseTypeOK
  <2>1. loads \in 0 .. Tickers /\ faults \in 0 .. MaxFaults
    BY <1>1, <1>3
  <2>2. touched \in BOOLEAN
    BY <1>1
  <2>. QED  BY <1>1, <1>3, <2>1, <2>2 DEF UniverseTypeOK, LoaderRecord
<1>5. Reached(available, loads)
  BY <1>1, Tickets, FS_EmptySet DEF Reached
<1>. QED  BY <1>1, <1>2, <1>4, <1>5 DEF LoadInv, Loaders

\* Every step keeps it: loads go forward, nothing is unloaded, and the reads
\* and writes of the price history leave the tickers alone.
LEMMA NextLoad == LoadInv /\ [HistoryNext]_historyVars => LoadInv' /\ available \subseteq available'
<1>. SUFFICES ASSUME LoadInv, [HistoryNext]_historyVars PROVE LoadInv' /\ available \subseteq available'
  OBVIOUS
<1>1. /\ priced \in SUBSET All /\ touched \in BOOLEAN /\ faults \in 0 .. MaxFaults
      /\ faults \in Nat /\ MaxFaults \in Nat /\ available \in SUBSET All
  BY Tickets DEF LoadInv, UniverseTypeOK
<1>2. Fault => faults' \in 0 .. MaxFaults
  BY <1>1 DEF Fault
<1>3. CASE NextDay
  <2>1. UNCHANGED <<available, loads, loader>> /\ priced' \in SUBSET All /\ touched' \in BOOLEAN
        /\ faults' \in 0 .. MaxFaults
    BY <1>1, <1>2, <1>3 DEF NextDay
  <2>. QED  BY <2>1, RestOfLoading
<1>4. CASE NightLoad
  <2>1. LoadBegin("night") /\ available' = available /\ "night" \in Loaders
    BY <1>4 DEF NightLoad, LoadBegin, Loaders
  <2>. QED  BY <2>1, LoadBeginKeeps
<1>5. CASE Loads
  <2>1. PICK l \in Loaders : LoadOne(l) \/ LoadFails(l) \/ (l = "night" /\ LoadEnd(l))
    BY <1>5 DEF Loads
  <2>. QED  BY <2>1, LoadOneKeeps, LoadFailsKeeps, LoadEndKeeps
<1>6. CASE ClosesRead \/ Reconcile \/ BootFill
  <2>1. UNCHANGED universe
    BY <1>6 DEF ClosesRead, Reconcile, BootFill
  <2>. QED  BY <1>1, <2>1, RestOfLoading DEF universe
<1>7. CASE ClosesCommit
  <2>1. UNCHANGED <<available, priced, touched, loads, loader>> /\ faults' \in 0 .. MaxFaults
    BY <1>1, <1>2, <1>7 DEF ClosesCommit
  <2>. QED  BY <1>1, <2>1, RestOfLoading
<1>8. CASE SyncStep
  <2>1. PICK a \in Passes :
          AlpacaChunk(a) \/ (\E s \in All : MassiveRead(a, s)) \/ MassiveCommit(a) \/ SyncEnd(a)
    BY <1>8 DEF SyncStep, Passes
  <2>2. UNCHANGED <<available, priced, touched, loads, loader>>
    BY <1>8 DEF SyncStep
  <2>3. AlpacaChunk(a) => faults' \in 0 .. MaxFaults
    BY <1>1, <1>2 DEF AlpacaChunk
  <2>4. \A s \in All : MassiveRead(a, s) => faults' \in 0 .. MaxFaults
    BY <1>1, <1>2 DEF MassiveRead
  <2>5. MassiveCommit(a) \/ SyncEnd(a) => faults' \in 0 .. MaxFaults
    BY <1>1 DEF MassiveCommit, SyncEnd
  <2>6. faults' \in 0 .. MaxFaults
    BY <2>1, <2>3, <2>4, <2>5
  <2>. QED  BY <1>1, <2>2, <2>6, RestOfLoading
<1>9. CASE BootCheck
  <2>1. CASE LoadBegin("boot")
    <3>1. available' = available /\ "boot" \in Loaders
      BY <2>1 DEF LoadBegin, Loaders
    <3>. QED  BY <2>1, <3>1, LoadBeginKeeps
  <2>2. CASE UNCHANGED universe
    BY <1>1, <2>2, RestOfLoading DEF universe
  <2>. QED  BY <1>9, <2>1, <2>2 DEF BootCheck
<1>10. CASE BootLoaded
  BY <1>10, LoadEndKeeps DEF BootLoaded, Loaders
<1>11. CASE Restart
  <2>1. UNCHANGED <<available, priced, touched, loads>> /\ faults' \in 0 .. MaxFaults
        /\ loader' = [l \in Loaders |-> NotLoading]
    BY <1>2, <1>11 DEF Restart
  <2>. QED  BY <1>1, <2>1, RestOfLoading
<1>12. CASE UNCHANGED historyVars
  BY <1>1, <1>12, RestOfLoading DEF historyVars, universe
<1>. QED  BY <1>3, <1>4, <1>5, <1>6, <1>7, <1>8, <1>9, <1>10, <1>11, <1>12 DEF HistoryNext

\* ceil(a / b) times b is a, at least.
LEMMA Ceiling ==
  ASSUME NEW a \in Nat, NEW b \in Nat \ {0}
  PROVE  /\ (a + b - 1) \div b \in Nat
         /\ ((a + b - 1) \div b) * b >= a
<1>. DEFINE q == (a + b - 1) \div b
            r == (a + b - 1) % b
<1>1. q \in Int /\ r \in 0 .. b - 1 /\ a + b - 1 = b * q + r
  OBVIOUS
<1>. HIDE DEF q, r
<1>2. q * b >= a
  <2>. DEFINE v == b * q
  <2>1. v \in Int /\ v = q * b
    BY <1>1
  <2>. HIDE DEF v
  <2>2. v >= a
    BY <1>1, <2>1 DEF v
  <2>. QED  BY <2>1, <2>2
<1>3. q \in Nat
  <2>1. SUFFICES ASSUME q < 0 PROVE FALSE
    BY <1>1
  <2>2. q * b <= 0 - b
    BY <1>1, <2>1
  <2>. QED  BY <1>1, <1>2, <2>2
<1>. QED  BY <1>2, <1>3 DEF q

\* Runs enough have loaded everything: n of them bring n times the gain.
LEMMA EnoughRuns == LoadInv => EveryTickerLoads
<1>. SUFFICES ASSUME LoadInv, Cardinality(Stuck) < Budget, loads >= RunsNeeded
              PROVE  Loadable \subseteq available
  BY DEF EveryTickerLoads
<1>1. /\ Gain \in Nat \ {0} /\ Gain > 0 /\ Cardinality(Loadable) \in Nat /\ Cardinality(available) \in Nat
      /\ available \subseteq Loadable /\ Loadable \in SUBSET All /\ loads \in Nat
  <2>1. Cardinality(Stuck) \in Nat /\ Budget \in Nat
    BY Tickets
  <2>2. available \in SUBSET All /\ available \subseteq Loadable /\ loads \in Nat
    BY Tickets DEF LoadInv, UniverseTypeOK
  <2>. QED  BY <2>1, <2>2, Tickets DEF Gain
<1>. DEFINE q == RunsNeeded
            L == Cardinality(Loadable)
<1>2. q \in Nat /\ q * Gain >= L
  <2>1. q = (L + Gain - 1) \div Gain
    BY DEF RunsNeeded, Gain
  <2>. HIDE DEF q, L
  <2>2. L \in Nat
    BY <1>1 DEF L
  <2>. QED  BY <1>1, <2>1, <2>2, Ceiling
<1>. HIDE DEF q, L
<1>3. loads * Gain >= q * Gain
  <2>1. loads >= q
    BY DEF q
  <2>. QED  BY <1>1, <1>2, <2>1
<1>4. Cardinality(available) >= L
  <2>1. Cardinality(available) >= L \/ Cardinality(available) >= loads * Gain
    BY <1>1 DEF LoadInv, Reached, L
  <2>. DEFINE v == loads * Gain
              w == q * Gain
  <2>2. v \in Int /\ w \in Int /\ L \in Nat
    BY <1>1, <1>2 DEF L
  <2>. HIDE DEF v, w
  <2>3. v >= w /\ w >= L
    BY <1>2, <1>3 DEF v, w
  <2>4. Cardinality(available) >= L \/ Cardinality(available) >= v
    BY <2>1 DEF v
  <2>. QED  BY <1>1, <2>2, <2>3, <2>4
<1>5. available # Loadable => Cardinality(available) < Cardinality(Loadable)
  <2>1. IsFiniteSet(Loadable)
    BY Tickets
  <2>2. Cardinality(available) <= Cardinality(Loadable)
        /\ (Cardinality(available) = Cardinality(Loadable) => available = Loadable)
    BY <1>1, <2>1, FS_Subset
  <2>. QED  BY <1>1, <2>2
<1>. QED  BY <1>1, <1>4, <1>5 DEF L

\* "Resumes where it stopped": once ceil(n / b) nightly runs of load_available_stocks
\* went undisturbed, all n tickers that can be loaded are in the table, however the
\* boot's run overlapped them and whatever failed on other nights.
THEOREM EveryTickerIsLoaded == HistorySpec => []EveryTickerLoads
<1>1. HistoryInit => LoadInv
  BY InitLoad
<1>2. LoadInv /\ [HistoryNext]_historyVars => LoadInv'
  BY NextLoad
<1>3. LoadInv => EveryTickerLoads
  BY EnoughRuns
<1>. QED  BY <1>1, <1>2, <1>3, PTL DEF HistorySpec

-----------------------------------------------------------------------------
(* The rows, and the passes over them *)

\* The part of the invariant that says what each step may touch.
TypesInv == LoadInv /\ HistoryTypes /\ PassesOK

Nights == {"session", "load", "closes", "reconcile"}
RowValues == {"none", "live", "official"}
Tables == [All -> [Days -> RowValues]]

LEMMA NightNames == {Schedule[i] : i \in 1 .. 4} = Nights
<1>1. Schedule[1] = "session" /\ Schedule[2] = "load" /\ Schedule[3] = "closes" /\ Schedule[4] = "reconcile"
  BY DEF Schedule
<1>2. \A i \in 1 .. 4 : i = 1 \/ i = 2 \/ i = 3 \/ i = 4
  OBVIOUS
<1>. QED  BY <1>1, <1>2 DEF Nights

LEMMA Calendar ==
  /\ Window \in Nat \ {0} /\ MaxDay \in Nat /\ FirstDay = Window + 1 /\ Days \subseteq Nat
  /\ PerRun \in Nat \ {0}
  /\ \A d : d \in Days <=> d \in Nat /\ 1 <= d /\ d <= MaxDay
  /\ TradingDays \subseteq Days /\ Listed \subseteq All /\ 0 \notin All
  /\ Providers \subseteq {"alpaca", "massive"}
<1>1. 0 \notin All
  BY DEF All
<1>. QED  BY <1>1, HistoryAssumption DEF FirstDay, Days, TradingDays

\* A later night of the schedule is one of them.
LEMMA LaterNights ==
  ASSUME night \in Nights, NEW later \in {Schedule[i] : i \in At(night) .. 4}
  PROVE  later \in Nights
<1>1. \E i \in 1 .. 4 : Schedule[i] = night
  BY NightNames
<1>2. At(night) \in 1 .. 4
  BY <1>1 DEF At
<1>3. later \in {Schedule[i] : i \in 1 .. 4}
  BY <1>2
<1>. QED  BY <1>3, NightNames

LEMMA OfficialRows ==
  ASSUME NEW table \in Tables, NEW S \in SUBSET All, NEW from \in Int, NEW to \in Int
  PROVE  /\ Official(table, S, from, to) \in Tables
         /\ \A s \in All, d \in Days :
              Official(table, S, from, to)[s][d] =
                IF s \in S /\ d \in Bars(s, from, to) THEN "official" ELSE table[s][d]
<1>. DEFINE Put(s) == IF s \notin S THEN table[s]
                      ELSE [d \in Days |-> IF d \in Bars(s, from, to) THEN "official" ELSE table[s][d]]
<1>1. Official(table, S, from, to) = [s \in All |-> Put(s)]
  BY DEF Official
<1>2. ASSUME NEW s \in All
      PROVE  /\ Put(s) \in [Days -> RowValues]
             /\ \A d \in Days : Put(s)[d] = IF s \in S /\ d \in Bars(s, from, to) THEN "official" ELSE table[s][d]
  <2>1. table[s] \in [Days -> RowValues] /\ "official" \in RowValues
    BY DEF Tables, RowValues
  <2>. QED  BY <2>1
<1>. HIDE DEF Put
<1>. QED  BY <1>1, <1>2 DEF Tables

LEMMA PrunedRows ==
  ASSUME NEW table \in Tables, NEW from \in Int
  PROVE  /\ Pruned(table, from) \in Tables
         /\ \A s \in All, d \in Days : Pruned(table, from)[s][d] = IF d < from THEN "none" ELSE table[s][d]
<1>1. "none" \in RowValues /\ \A s \in All, d \in Days : table[s][d] \in RowValues
  BY DEF Tables, RowValues
<1>. QED  BY <1>1 DEF Pruned, Tables

\* What a step of a pass does to its record: some tickers are done with, and if
\* all is still well their bars are in the table.
Advances(a) == \E S \in SUBSET sync[a].left :
  /\ sync' \in [Passes -> SyncRecord] /\ rows' \in Tables
  /\ \A b \in Passes : b # a => sync'[b] = sync[b]
  /\ sync'[a].on = sync[a].on /\ sync'[a].over = sync[a].over
  /\ sync'[a].from = sync[a].from /\ sync'[a].to = sync[a].to
  /\ sync'[a].left = sync[a].left \ S
  /\ sync'[a].at # 0 => provider = "massive" /\ sync'[a].at \in sync'[a].left
  /\ sync'[a].ok => sync[a].ok /\ \A s \in S : \A d \in Bars(s, sync[a].from, sync[a].to) :
                                    rows'[s][d] = "official"

\* No official close is replaced, nor lost while it is in the window.
Keeps == \A s \in All, d \in Days :
  rows[s][d] = "official" /\ rows'[s][d] # "official" => rows'[s][d] = "none" /\ d <= day - Window

LEMMA PassRecord ==
  ASSUME TypesInv, NEW a \in Passes
  PROVE  /\ sync \in [Passes -> SyncRecord] /\ sync[a] \in SyncRecord /\ rows \in Tables
         /\ sync[a].left \in SUBSET All /\ sync[a].over \in SUBSET All
         /\ sync[a].from \in Nat /\ sync[a].to \in Nat /\ sync[a].at \in All \cup {0}
         /\ day \in Days /\ day \in Nat /\ day >= Window + 1
<1>1. sync \in [Passes -> SyncRecord] /\ rows \in Tables /\ day \in Days /\ day >= FirstDay
  BY DEF TypesInv, HistoryTypes, Tables, RowValues
<1>2. sync[a] \in SyncRecord
  BY <1>1
<1>3. \A n \in 0 .. MaxDay : n \in Nat
  BY Calendar
<1>. QED  BY <1>1, <1>2, <1>3, Calendar DEF SyncRecord

LEMMA ChunkAdvances ==
  ASSUME TypesInv, NEW a \in Passes, AlpacaChunk(a)
  PROVE  Advances(a) /\ Keeps
<1>. DEFINE y     == sync[a]
            chunk == {s \in y.left : Place(s, y.left) < Chunk}
<1>1. PICK ok \in BOOLEAN :
        /\ IF ok THEN rows' = Official(rows, chunk, y.from, y.to) /\ UNCHANGED faults
                 ELSE Fault /\ UNCHANGED rows
        /\ sync' = [sync EXCEPT ![a].left = @ \ chunk, ![a].ok = @ /\ ok]
  BY DEF AlpacaChunk
<1>2. provider = "alpaca" /\ chunk \in SUBSET sync[a].left
  BY DEF AlpacaChunk
<1>. HIDE DEF chunk
<1>3. chunk \in SUBSET All /\ sync[a] \in SyncRecord
  BY <1>2, PassRecord
<1>4. /\ sync' = [sync EXCEPT ![a] = sync'[a]]
      /\ sync'[a] = [sync[a] EXCEPT !.left = sync[a].left \ chunk, !.ok = sync[a].ok /\ ok]
  BY <1>1, PassRecord
<1>5. /\ sync'[a] \in SyncRecord /\ sync'[a].left = sync[a].left \ chunk
      /\ sync'[a].on = sync[a].on /\ sync'[a].over = sync[a].over
      /\ sync'[a].from = sync[a].from /\ sync'[a].to = sync[a].to /\ sync'[a].at = sync[a].at
      /\ (sync'[a].ok => sync[a].ok /\ ok)
  BY <1>3, <1>4 DEF SyncRecord
<1>6. sync' \in [Passes -> SyncRecord] /\ \A b \in Passes : b # a => sync'[b] = sync[b]
  BY <1>4, <1>5, PassRecord
<1>7. sync[a].at = 0
  BY <1>2 DEF TypesInv, PassesOK
<1>8. CASE ok
  <2>1. rows' = Official(rows, chunk, sync[a].from, sync[a].to)
    BY <1>1, <1>8
  <2>2. /\ rows' \in Tables
        /\ \A s \in All, d \in Days : rows'[s][d] =
             IF s \in chunk /\ d \in Bars(s, sync[a].from, sync[a].to) THEN "official" ELSE rows[s][d]
    <3>1. rows \in Tables /\ sync[a].from \in Int /\ sync[a].to \in Int
      BY PassRecord
    <3>. QED  BY <1>3, <2>1, <3>1, OfficialRows
  <2>3. \A s \in chunk : \A d \in Bars(s, sync[a].from, sync[a].to) : rows'[s][d] = "official"
    BY <1>3, <2>2, Calendar DEF Bars
  <2>. QED  BY <1>2, <1>5, <1>6, <1>7, <2>2, <2>3 DEF Advances, Keeps
<1>9. CASE ~ok
  <2>1. rows' = rows
    BY <1>1, <1>9
  <2>. QED  BY <1>2, <1>5, <1>6, <1>7, <1>9, <2>1, PassRecord DEF Advances, Keeps
<1>. QED  BY <1>8, <1>9

LEMMA ReadAdvances ==
  ASSUME TypesInv, NEW a \in Passes, NEW s \in All, MassiveRead(a, s)
  PROVE  Advances(a) /\ Keeps
<1>1. provider = "massive" /\ sync[a].at = 0 /\ s \in sync[a].left /\ rows' = rows
  BY DEF MassiveRead
<1>2. Keeps
  BY <1>1 DEF Keeps
<1>. DEFINE there == {d \in Bars(s, sync[a].from, sync[a].to) : rows[s][d] # "none"}
<1>3. there \in SUBSET Days
  BY Calendar DEF Bars
<1>. HIDE DEF there
<1>4. CASE sync' = [sync EXCEPT ![a].at = s, ![a].seen = there]
  <2>1. sync'[a] = [sync[a] EXCEPT !.at = s, !.seen = there] /\ sync' = [sync EXCEPT ![a] = sync'[a]]
    BY <1>4, PassRecord
  <2>2. /\ sync'[a] \in SyncRecord /\ sync'[a].left = sync[a].left /\ sync'[a].at = s
        /\ sync'[a].on = sync[a].on /\ sync'[a].over = sync[a].over /\ sync'[a].ok = sync[a].ok
        /\ sync'[a].from = sync[a].from /\ sync'[a].to = sync[a].to
    BY <1>3, <2>1, PassRecord DEF SyncRecord
  <2>3. sync' \in [Passes -> SyncRecord] /\ \A b \in Passes : b # a => sync'[b] = sync[b]
    BY <2>1, <2>2, PassRecord
  <2>4. {} \in SUBSET sync[a].left /\ sync'[a].left = sync[a].left \ {}
    BY <2>2
  <2>. QED  BY <1>1, <1>2, <2>2, <2>3, <2>4, PassRecord DEF Advances
<1>5. CASE sync' = [sync EXCEPT ![a].left = @ \ {s}, ![a].ok = FALSE]
  <2>1. sync'[a] = [sync[a] EXCEPT !.left = sync[a].left \ {s}, !.ok = FALSE]
        /\ sync' = [sync EXCEPT ![a] = sync'[a]]
    BY <1>5, PassRecord
  <2>2. /\ sync'[a] \in SyncRecord /\ sync'[a].left = sync[a].left \ {s} /\ sync'[a].at = 0
        /\ sync'[a].on = sync[a].on /\ sync'[a].over = sync[a].over /\ ~sync'[a].ok
        /\ sync'[a].from = sync[a].from /\ sync'[a].to = sync[a].to
    <3>1. sync[a] \in SyncRecord /\ sync[a].left \ {s} \in SUBSET All
      BY PassRecord
    <3>. QED  BY <1>1, <2>1, <3>1 DEF SyncRecord
  <2>3. sync' \in [Passes -> SyncRecord] /\ \A b \in Passes : b # a => sync'[b] = sync[b]
    BY <2>1, <2>2, PassRecord
  <2>. QED  BY <1>1, <1>2, <2>2, <2>3, PassRecord DEF Advances
<1>. QED  BY <1>4, <1>5 DEF MassiveRead, there

LEMMA CommitAdvances ==
  ASSUME TypesInv, NEW a \in Passes, MassiveCommit(a)
  PROVE  Advances(a) /\ Keeps
<1>. DEFINE s  == sync[a].at
            ok == \A d \in Bars(s, sync[a].from, sync[a].to) : d \in sync[a].seen <=> rows[s][d] # "none"
            R  == Official(rows, {s}, sync[a].from, sync[a].to)
            U  == [d \in Days |-> IF d < sync[a].from THEN "none" ELSE R[s][d]]
<1>1. /\ s # 0 /\ s \in All /\ s \in sync[a].left /\ sync[a].left # {}
      /\ sync[a].from <= day - Window + 1
  BY PassRecord DEF MassiveCommit, TypesInv, PassesOK
<1>2. /\ rows' = IF ok THEN [R EXCEPT ![s] = U] ELSE rows
      /\ sync' = [sync EXCEPT ![a].left = @ \ {s}, ![a].at = 0, ![a].seen = {}, ![a].ok = @ /\ ok]
  BY DEF MassiveCommit
<1>3. /\ R \in Tables
      /\ \A t \in All, d \in Days : R[t][d] =
             IF t = s /\ d \in Bars(s, sync[a].from, sync[a].to) THEN "official" ELSE rows[t][d]
  <2>1. rows \in Tables /\ sync[a].from \in Int /\ sync[a].to \in Int /\ {s} \in SUBSET All
    BY <1>1, PassRecord
  <2>2. R = Official(rows, {s}, sync[a].from, sync[a].to)
    OBVIOUS
  <2>. HIDE DEF s, R
  <2>3. /\ R \in Tables
        /\ \A t \in All, d \in Days : R[t][d] =
             IF t \in {s} /\ d \in Bars(t, sync[a].from, sync[a].to) THEN "official" ELSE rows[t][d]
    BY <2>1, <2>2, OfficialRows
  <2>. QED  BY <2>3
<1>. HIDE DEF s, ok, R
<1>4. sync'[a] = [sync[a] EXCEPT !.left = sync[a].left \ {s}, !.at = 0, !.seen = {}, !.ok = sync[a].ok /\ ok]
      /\ sync' = [sync EXCEPT ![a] = sync'[a]]
  BY <1>2, PassRecord
<1>5. /\ sync'[a] \in SyncRecord /\ sync'[a].left = sync[a].left \ {s} /\ sync'[a].at = 0
      /\ sync'[a].on = sync[a].on /\ sync'[a].over = sync[a].over
      /\ sync'[a].from = sync[a].from /\ sync'[a].to = sync[a].to
      /\ (sync'[a].ok => sync[a].ok /\ ok)
  <2>1. (sync[a].ok /\ ok) \in BOOLEAN
    BY DEF ok
  <2>2. sync[a] \in SyncRecord /\ sync[a].left \ {s} \in SUBSET All
    BY PassRecord
  <2>. QED  BY <1>4, <2>1, <2>2 DEF SyncRecord
<1>6. sync' \in [Passes -> SyncRecord] /\ \A b \in Passes : b # a => sync'[b] = sync[b]
  BY <1>4, <1>5, PassRecord
<1>7. CASE ok
  <2>1. U \in [Days -> RowValues] /\ "none" \in RowValues
    BY <1>1, <1>3 DEF Tables, RowValues
  <2>2. \A d \in Days : U[d] = IF d < sync[a].from THEN "none" ELSE R[s][d]
    OBVIOUS
  <2>. HIDE DEF U
  <2>3. rows' \in Tables /\ rows'[s] = U /\ \A t \in All : t # s => rows'[t] = R[t]
    BY <1>1, <1>2, <1>3, <1>7, <2>1 DEF Tables
  <2>4. \A d \in Bars(s, sync[a].from, sync[a].to) : rows'[s][d] = "official"
    <3>1. \A d \in Bars(s, sync[a].from, sync[a].to) : d \in Days /\ d \in Nat /\ d >= sync[a].from
      BY Calendar, PassRecord DEF Bars
    <3>2. sync[a].from \in Nat
      BY PassRecord
    <3>3. \A d \in Bars(s, sync[a].from, sync[a].to) : R[s][d] = "official"
      BY <1>1, <1>3, <3>1
    <3>. QED  BY <2>2, <2>3, <3>1, <3>2, <3>3
  <2>5. Keeps
    <3>1. ASSUME NEW t \in All, NEW d \in Days, rows[t][d] = "official", rows'[t][d] # "official"
          PROVE  rows'[t][d] = "none" /\ d <= day - Window
      <4>1. t = s /\ d < sync[a].from
        BY <1>1, <1>3, <2>2, <2>3, <3>1
      <4>2. d \in Nat /\ sync[a].from \in Nat /\ day \in Nat /\ Window \in Nat
        BY Calendar, PassRecord
      <4>. QED  BY <1>1, <2>2, <2>3, <4>1, <4>2
    <3>. QED  BY <3>1 DEF Keeps
  <2>. QED  BY <1>1, <1>5, <1>6, <2>3, <2>4, <2>5 DEF Advances
<1>8. CASE ~ok
  <2>1. rows' = rows /\ ~sync'[a].ok
    BY <1>2, <1>5, <1>8
  <2>. QED  BY <1>1, <1>5, <1>6, <2>1, PassRecord DEF Advances, Keeps
<1>. QED  BY <1>7, <1>8

LEMMA NoPass ==
  /\ NotSyncing \in SyncRecord
  /\ ~NotSyncing.on /\ NotSyncing.left = {} /\ NotSyncing.at = 0
<1>1. 0 \in 0 .. MaxDay
  BY Calendar
<1>. QED  BY <1>1 DEF NotSyncing, SyncRecord

LEMMA EndAdvances ==
  ASSUME TypesInv, NEW a \in Passes, SyncEnd(a)
  PROVE  /\ sync' \in [Passes -> SyncRecord] /\ rows' \in Tables /\ calm' \in 0 .. Tickers
         /\ sync'[a] = NotSyncing /\ \A b \in Passes : b # a => sync'[b] = sync[b]
         /\ Keeps
<1>1. /\ sync' = [sync EXCEPT ![a] = NotSyncing] /\ sync[a].on
      /\ rows' = IF provider = "alpaca" THEN Pruned(rows, sync[a].from) ELSE rows
      /\ calm' = IF a = "boot" THEN calm
                 ELSE IF sync[a].ok /\ sync[a].over = available THEN (IF calm < Tickers THEN calm + 1 ELSE calm)
                 ELSE 0
  BY DEF SyncEnd
<1>2. sync' \in [Passes -> SyncRecord] /\ sync'[a] = NotSyncing /\ \A b \in Passes : b # a => sync'[b] = sync[b]
  BY <1>1, PassRecord, NoPass
<1>3. calm' \in 0 .. Tickers
  <2>1. calm \in 0 .. Tickers /\ Tickers \in Nat
    BY Tickets DEF TypesInv, HistoryTypes
  <2>. QED  BY <1>1, <2>1
<1>4. sync[a].from <= day - Window + 1
  BY <1>1 DEF TypesInv, PassesOK
<1>5. rows' \in Tables /\ Keeps
  <2>1. CASE provider = "alpaca"
    <3>1. rows \in Tables /\ sync[a].from \in Int
      BY PassRecord
    <3>2. rows' = Pruned(rows, sync[a].from)
      BY <1>1, <2>1
    <3>3. /\ rows' \in Tables
          /\ \A s \in All, d \in Days : rows'[s][d] = IF d < sync[a].from THEN "none" ELSE rows[s][d]
      BY <3>1, <3>2, PrunedRows
    <3>4. \A d \in Days : d < sync[a].from => d <= day - Window
      BY <1>4, <3>1, PassRecord, Calendar
    <3>. QED  BY <3>3, <3>4 DEF Keeps
  <2>2. CASE provider # "alpaca"
    BY <1>1, <2>2, PassRecord DEF Keeps
  <2>. QED  BY <2>1, <2>2
<1>. QED  BY <1>2, <1>3, <1>5

LEMMA BeginsWell ==
  ASSUME TypesInv, NEW a \in Passes, NEW S \in SUBSET All, NEW calmly \in BOOLEAN, SyncBegin(a, S, calmly)
  PROVE  /\ sync' \in [Passes -> SyncRecord] /\ \A b \in Passes : b # a => sync'[b] = sync[b]
         /\ sync'[a].on /\ sync'[a].at = 0 /\ sync'[a].left = S /\ sync'[a].over = available
         /\ sync'[a].ok = calmly
         /\ sync'[a].from \in Nat /\ sync'[a].from <= day - Window + 1
         /\ night # "session" => sync'[a].to = day
<1>1. PICK to \in LastBars :
        sync' = [sync EXCEPT ![a] = [NotSyncing EXCEPT
          !.on = TRUE, !.from = FirstBar, !.to = to, !.left = S, !.over = available, !.ok = calmly]]
  BY DEF SyncBegin
<1>2. /\ FirstBar \in 0 .. MaxDay /\ FirstBar <= day - Window + 1
      /\ to \in 0 .. MaxDay /\ (night # "session" => to = day)
  <2>1. day \in Nat /\ day >= Window + 1 /\ day <= MaxDay /\ Window \in Nat \ {0} /\ MaxDay \in Nat
    BY PassRecord, Calendar
  <2>. QED  BY <2>1 DEF FirstBar, LastBars
<1>3. available \in SUBSET All
  BY Tickets DEF TypesInv, LoadInv, UniverseTypeOK
<1>. DEFINE new == [NotSyncing EXCEPT
          !.on = TRUE, !.from = FirstBar, !.to = to, !.left = S, !.over = available, !.ok = calmly]
<1>4. /\ new \in SyncRecord /\ new.on /\ new.at = 0 /\ new.left = S /\ new.over = available
      /\ new.ok = calmly /\ new.from = FirstBar /\ new.to = to
  BY <1>2, <1>3, NoPass DEF SyncRecord, NotSyncing
<1>5. sync' = [sync EXCEPT ![a] = new]
  BY <1>1
<1>. HIDE DEF new
<1>6. sync' \in [Passes -> SyncRecord] /\ sync'[a] = new /\ \A b \in Passes : b # a => sync'[b] = sync[b]
  BY <1>4, <1>5, PassRecord
<1>7. FirstBar \in Nat
  BY <1>2, Calendar
<1>. QED  BY <1>2, <1>4, <1>6, <1>7

\* What an action that starts no pass of the night, and shrinks nothing, owes.
LEMMA PassesKept ==
  ASSUME TypesInv, UNCHANGED <<sync, provider>>,
         available \subseteq available', day' \in Nat, day' >= day,
         sync["night"].on => UNCHANGED <<night, day>>
  PROVE  PassesOK'
<1>1. ASSUME NEW a \in Passes, sync[a].on
      PROVE  sync[a].from <= day' - Window + 1 /\ sync[a].over \subseteq available'
  <2>1. sync[a].from <= day - Window + 1 /\ sync[a].over \subseteq available
    BY <1>1 DEF TypesInv, PassesOK
  <2>2. sync[a].from \in Nat /\ day \in Nat /\ Window \in Nat
    BY PassRecord, Calendar
  <2>. QED  BY <2>1, <2>2
<1>. QED  BY <1>1 DEF TypesInv, PassesOK

LEMMA AdvanceKeepsPasses ==
  ASSUME TypesInv, NEW a \in Passes, Advances(a), UNCHANGED <<available, day, night, provider>>
  PROVE  PassesOK'
<1>. SUFFICES ASSUME NEW b \in Passes
              PROVE  /\ sync'[b].at # 0 => provider = "massive" /\ sync'[b].at \in sync'[b].left
                     /\ sync'[b].left # {} => sync'[b].on
                     /\ sync'[b].on => sync'[b].from <= day - Window + 1 /\ sync'[b].over \subseteq available
                     /\ b = "night" /\ sync'[b].on => night = "reconcile" /\ sync'[b].to = day
  BY DEF PassesOK, Passes
<1>1. PICK S \in SUBSET sync[a].left :
        /\ \A c \in Passes : c # a => sync'[c] = sync[c]
        /\ sync'[a].on = sync[a].on /\ sync'[a].over = sync[a].over
        /\ sync'[a].from = sync[a].from /\ sync'[a].to = sync[a].to
        /\ sync'[a].left = sync[a].left \ S
        /\ sync'[a].at # 0 => provider = "massive" /\ sync'[a].at \in sync'[a].left
  BY DEF Advances
<1>2. /\ sync[b].at # 0 => provider = "massive" /\ sync[b].at \in sync[b].left
      /\ sync[b].left # {} => sync[b].on
      /\ sync[b].on => sync[b].from <= day - Window + 1 /\ sync[b].over \subseteq available
      /\ b = "night" /\ sync[b].on => night = "reconcile" /\ sync[b].to = day
  BY DEF TypesInv, PassesOK
<1>3. CASE b = a
  BY <1>1, <1>2, <1>3
<1>4. CASE b # a
  BY <1>1, <1>2, <1>4
<1>. QED  BY <1>3, <1>4

LEMMA StepAdvances ==
  ASSUME TypesInv, SyncStep
  PROVE  HistoryTypes' /\ PassesOK' /\ Keeps
<1>1. PICK a \in Passes :
        /\ AlpacaChunk(a) \/ (\E s \in All : MassiveRead(a, s)) \/ MassiveCommit(a) \/ SyncEnd(a)
        /\ UNCHANGED <<available, priced, touched, loader, loads, day, night, closes, boot, fixed>>
  BY DEF SyncStep, Passes
<1>2. UNCHANGED <<available, day, night, closes, boot, provider, phase>>
  BY <1>1 DEF fixed
<1>3. CASE AlpacaChunk(a) \/ (\E s \in All : MassiveRead(a, s)) \/ MassiveCommit(a)
  <2>1. Advances(a) /\ Keeps
    BY <1>3, ChunkAdvances, ReadAdvances, CommitAdvances
  <2>2. sync' \in [Passes -> SyncRecord] /\ rows' \in Tables
    BY <2>1 DEF Advances
  <2>3. calm' = calm
    BY <1>3 DEF AlpacaChunk, MassiveRead, MassiveCommit
  <2>4. HistoryTypes'
    BY <1>2, <2>2, <2>3 DEF TypesInv, HistoryTypes, Tables, RowValues
  <2>. QED  BY <1>2, <2>1, <2>4, AdvanceKeepsPasses
<1>4. CASE SyncEnd(a)
  <2>1. /\ sync' \in [Passes -> SyncRecord] /\ rows' \in Tables /\ calm' \in 0 .. Tickers
        /\ sync'[a] = NotSyncing /\ \A b \in Passes : b # a => sync'[b] = sync[b]
        /\ Keeps
    BY <1>4, EndAdvances
  <2>2. HistoryTypes'
    BY <1>2, <2>1 DEF TypesInv, HistoryTypes, Tables, RowValues
  <2>3. PassesOK'
    BY <1>2, <2>1, NoPass DEF TypesInv, PassesOK, Passes
  <2>. QED  BY <2>1, <2>2, <2>3
<1>. QED  BY <1>1, <1>3, <1>4

\* A night's closes are put where there was no row, and the rows that go are
\* out of the window.
LEMMA ClosesKeep ==
  ASSUME TypesInv, ClosesCommit
  PROVE  rows' \in Tables /\ Keeps
<1>. DEFINE new == priced \ closes.have
            N   == [s \in All |-> IF s \in new THEN [rows[s] EXCEPT ![day] = "live"] ELSE rows[s]]
<1>1. rows \in Tables /\ day \in Days /\ day - Window \in Int
  BY PassRecord, Calendar, PassRecord DEF TypesInv, HistoryTypes, Tables, RowValues
<1>2. rows' = rows \/ (~Collides(new) /\ rows' = Pruned(N, day - Window))
  BY DEF ClosesCommit
<1>3. CASE rows' = rows
  BY <1>1, <1>3 DEF Keeps
<1>4. CASE ~Collides(new) /\ rows' = Pruned(N, day - Window)
  <2>1. ASSUME NEW s \in All
        PROVE  /\ N[s] \in [Days -> RowValues]
               /\ \A d \in Days : N[s][d] = IF s \in new /\ d = day THEN "live" ELSE rows[s][d]
    <3>1. rows[s] \in [Days -> RowValues] /\ "live" \in RowValues
      BY <1>1 DEF Tables, RowValues
    <3>. HIDE DEF new
    <3>. QED  BY <1>1, <3>1
  <2>2. \A s \in new \cap All : rows[s][day] = "none"
    BY <1>4 DEF Collides
  <2>. HIDE DEF new
  <2>3. N \in Tables
    BY <2>1 DEF Tables
  <2>. HIDE DEF N
  <2>4. /\ rows' \in Tables
        /\ \A s \in All, d \in Days : rows'[s][d] = IF d < day - Window THEN "none" ELSE N[s][d]
    BY <1>1, <1>4, <2>3, PrunedRows
  <2>5. ASSUME NEW s \in All, NEW d \in Days, rows[s][d] = "official", rows'[s][d] # "official"
        PROVE  rows'[s][d] = "none" /\ d <= day - Window
    <3>1. N[s][d] = rows[s][d]
      BY <2>1, <2>2, <2>5
    <3>2. d < day - Window
      BY <2>4, <2>5, <3>1
    <3>3. d \in Int
      BY Calendar
    <3>. QED  BY <1>1, <2>4, <3>2, <3>3
  <2>. QED  BY <2>4, <2>5 DEF Keeps
<1>. QED  BY <1>2, <1>3, <1>4

LEMMA InitTypes == HistoryInit => TypesInv
<1>. SUFFICES ASSUME HistoryInit PROVE TypesInv
  OBVIOUS
<1>1. LoadInv
  BY InitLoad
<1>2. /\ day = FirstDay /\ night = "session" /\ rows = [s \in All |-> [d \in Days |-> "none"]]
      /\ closes = NotRecording /\ sync = [a \in Passes |-> NotSyncing] /\ boot = "check"
      /\ provider \in Providers /\ calm = 0
  BY DEF HistoryInit, Passes
<1>3. phase \in Nat
  <2>1. Cardinality(Loadable) \in Nat
    BY Tickets
  <2>. QED  BY <2>1 DEF HistoryInit
<1>4. day \in Days /\ day >= FirstDay /\ calm \in 0 .. Tickers
  BY <1>2, Tickets, Calendar, HistoryAssumption
<1>5. closes \in [on : BOOLEAN, have : SUBSET All] /\ rows \in [All -> [Days -> {"none", "live", "official"}]]
  BY <1>2 DEF NotRecording
<1>6. sync \in [Passes -> SyncRecord] /\ \A a \in Passes : sync[a] = NotSyncing
  BY <1>2, NoPass
<1>7. night \in {Schedule[i] : i \in 1 .. 4}
  BY <1>2, NightNames DEF Nights
<1>8. HistoryTypes
  BY <1>2, <1>3, <1>4, <1>5, <1>6, <1>7 DEF HistoryTypes
<1>9. PassesOK
  BY <1>6, NoPass DEF PassesOK, Passes
<1>. QED  BY <1>1, <1>8, <1>9 DEF TypesInv

LEMMA NextTypes == TypesInv /\ [HistoryNext]_historyVars => TypesInv' /\ Keeps
<1>. SUFFICES ASSUME TypesInv, [HistoryNext]_historyVars PROVE HistoryTypes' /\ PassesOK' /\ Keeps
  BY NextLoad DEF TypesInv
<1>1. available \subseteq available' /\ available \in SUBSET All
  BY NextLoad, Tickets DEF TypesInv, LoadInv, UniverseTypeOK
<1>2. ASSUME UNCHANGED rows PROVE Keeps
  BY <1>2 DEF Keeps
<1>3. day \in Nat /\ day \in Days /\ night \in Nights /\ rows \in Tables /\ sync \in [Passes -> SyncRecord]
  <2>1. "night" \in Passes
    BY DEF Passes
  <2>. QED  BY <2>1, PassRecord, NightNames DEF TypesInv, HistoryTypes
<1>4. CASE NextDay
  <2>1. /\ UNCHANGED <<rows, closes, sync, boot, calm, provider, phase>>
        /\ day' = day + 1 /\ day' \in Days /\ night' = "session" /\ ~sync["night"].on
    BY <1>4 DEF NextDay, history, fixed
  <2>2. day' \in Nat /\ day' >= FirstDay /\ day' >= day
    BY <1>3, <2>1, Calendar DEF TypesInv, HistoryTypes
  <2>3. night' \in {Schedule[i] : i \in 1 .. 4}
    BY <2>1, NightNames DEF Nights
  <2>4. HistoryTypes'
    BY <2>1, <2>2, <2>3 DEF TypesInv, HistoryTypes
  <2>. QED  BY <1>1, <1>2, <2>1, <2>2, <2>4, PassesKept
<1>5. CASE NightLoad \/ ClosesRead
  <2>1. /\ UNCHANGED <<day, rows, sync, boot, calm, provider, phase>>
        /\ night' \in Nights /\ night # "reconcile"
    BY <1>5 DEF NightLoad, ClosesRead, history, fixed, Nights
  <2>2. closes' \in [on : BOOLEAN, have : SUBSET All]
    <3>1. CASE NightLoad
      BY <3>1 DEF NightLoad, history, TypesInv, HistoryTypes
    <3>2. CASE ClosesRead
      <4>1. {s \in All : rows[s][day] # "none"} \in SUBSET All /\ {} \in SUBSET All
        OBVIOUS
      <4>2. NotRecording \in [on : BOOLEAN, have : SUBSET All]
        BY DEF NotRecording
      <4>. QED  BY <3>2, <4>1, <4>2 DEF ClosesRead
    <3>. QED  BY <1>5, <3>1, <3>2
  <2>3. HistoryTypes'
    BY <2>1, <2>2, NightNames DEF TypesInv, HistoryTypes
  <2>4. ~sync["night"].on
    BY <2>1 DEF TypesInv, PassesOK
  <2>. QED  BY <1>1, <1>2, <1>3, <2>1, <2>3, <2>4, PassesKept
<1>6. CASE Loads
  <2>1. UNCHANGED <<day, night, rows, closes, sync, boot, provider, phase>> /\ calm' \in {calm, 0}
    BY <1>6 DEF Loads, fixed
  <2>2. calm' \in 0 .. Tickers
    BY <2>1, Tickets DEF TypesInv, HistoryTypes
  <2>3. HistoryTypes'
    BY <2>1, <2>2 DEF TypesInv, HistoryTypes
  <2>. QED  BY <1>1, <1>2, <1>3, <2>1, <2>3, PassesKept
<1>7. CASE ClosesCommit
  <2>1. /\ UNCHANGED <<day, night, sync, boot, calm, provider, phase>>
        /\ closes' = NotRecording
    BY <1>7 DEF ClosesCommit, fixed
  <2>2. rows' \in Tables /\ Keeps
    BY <1>7, ClosesKeep
  <2>3. HistoryTypes'
    BY <2>1, <2>2 DEF TypesInv, HistoryTypes, NotRecording, Tables, RowValues
  <2>. QED  BY <1>1, <1>3, <2>1, <2>2, <2>3, PassesKept
<1>8. CASE Reconcile
  <2>1. /\ UNCHANGED <<available, day, rows, closes, boot, calm, provider, phase>>
        /\ night = "closes" /\ night' = "reconcile"
    BY <1>8 DEF Reconcile, universe, fixed
  <2>2. PICK S \in SUBSET All, calmly \in BOOLEAN : SyncBegin("night", S, calmly)
    <3>1. Chosen \in SUBSET All
      <4>1. Thin \in SUBSET All /\ available \ Thin \in SUBSET All
        BY <1>1 DEF Thin
      <4>. QED  BY <4>1 DEF Chosen
    <3>2. (Thin = {}) \in BOOLEAN /\ TRUE \in BOOLEAN
      OBVIOUS
    <3>. QED  BY <1>1, <1>8, <3>1, <3>2 DEF Reconcile
  <2>3. /\ sync' \in [Passes -> SyncRecord] /\ sync'["boot"] = sync["boot"]
        /\ sync'["night"].on /\ sync'["night"].at = 0 /\ sync'["night"].over = available
        /\ sync'["night"].from <= day - Window + 1 /\ sync'["night"].to = day
    <3>1. "night" \in Passes /\ "boot" \in Passes /\ "boot" # "night" /\ night # "session"
      BY <2>1 DEF Passes
    <3>2. /\ sync' \in [Passes -> SyncRecord] /\ \A b \in Passes : b # "night" => sync'[b] = sync[b]
          /\ sync'["night"].on /\ sync'["night"].at = 0 /\ sync'["night"].over = available
          /\ sync'["night"].from <= day - Window + 1 /\ (night # "session" => sync'["night"].to = day)
      BY <2>2, <3>1, BeginsWell
    <3>. QED  BY <3>1, <3>2
  <2>4. HistoryTypes'
    BY <2>1, <2>3, NightNames DEF TypesInv, HistoryTypes, Nights
  <2>5. PassesOK'
    BY <2>1, <2>3 DEF TypesInv, PassesOK, Passes
  <2>. QED  BY <1>2, <2>1, <2>4, <2>5
<1>9. CASE SyncStep
  BY <1>9, StepAdvances
<1>10. CASE BootCheck \/ BootLoaded
  <2>1. UNCHANGED <<day, night, rows, closes, sync, calm, provider, phase>>
        /\ boot' \in {"check", "load", "loadThenFill", "fill", "done"}
    BY <1>10 DEF BootCheck, BootLoaded, fixed
  <2>2. HistoryTypes'
    BY <2>1 DEF TypesInv, HistoryTypes
  <2>. QED  BY <1>1, <1>2, <1>3, <2>1, <2>2, PassesKept
<1>11. CASE BootFill
  <2>1. /\ UNCHANGED <<available, day, night, rows, closes, calm, provider, phase>>
        /\ boot' = "done" /\ SyncBegin("boot", available, TRUE)
    BY <1>11 DEF BootFill, universe, fixed
  <2>2. /\ sync' \in [Passes -> SyncRecord] /\ sync'["night"] = sync["night"]
        /\ sync'["boot"].on /\ sync'["boot"].at = 0 /\ sync'["boot"].over = available
        /\ sync'["boot"].from <= day - Window + 1
    <3>1. "night" \in Passes /\ "boot" \in Passes /\ "boot" # "night"
      BY DEF Passes
    <3>. QED  BY <1>1, <2>1, <3>1, BeginsWell
  <2>3. HistoryTypes'
    BY <2>1, <2>2 DEF TypesInv, HistoryTypes
  <2>4. PassesOK'
    BY <2>1, <2>2 DEF TypesInv, PassesOK, Passes
  <2>. QED  BY <1>2, <2>1, <2>3, <2>4
<1>12. CASE Restart
  <2>1. /\ UNCHANGED <<available, day, rows, provider, phase>>
        /\ closes' = NotRecording /\ sync' = [a \in Passes |-> NotSyncing]
        /\ boot' = "check" /\ calm' = 0 /\ night' \in {Schedule[i] : i \in At(night) .. 4}
    BY <1>12 DEF Restart, fixed, Passes
  <2>2. night' \in {Schedule[i] : i \in 1 .. 4} /\ 0 \in 0 .. Tickers
    BY <1>3, <2>1, LaterNights, NightNames, Tickets
  <2>3. sync' \in [Passes -> SyncRecord] /\ \A a \in Passes : sync'[a] = NotSyncing
    BY <2>1, NoPass
  <2>4. HistoryTypes'
    BY <2>1, <2>2, <2>3 DEF TypesInv, HistoryTypes, NotRecording
  <2>5. PassesOK'
    BY <2>3, NoPass DEF PassesOK, Passes
  <2>. QED  BY <1>2, <2>1, <2>4, <2>5
<1>13. CASE UNCHANGED historyVars
  <2>1. UNCHANGED <<day, night, rows, closes, sync, boot, calm, provider, phase>>
    BY <1>13 DEF historyVars, history, fixed
  <2>2. HistoryTypes'
    BY <2>1 DEF TypesInv, HistoryTypes
  <2>. QED  BY <1>1, <1>2, <1>3, <2>1, <2>2, PassesKept
<1>. QED  BY <1>4, <1>5, <1>6, <1>7, <1>8, <1>9, <1>10, <1>11, <1>12, <1>13 DEF HistoryNext

\* Every variable of the daily closes and of the ticker universe has its type, and
\* a pass holds a ticker only while it waits for that one's answer.
THEOREM HistoryTypeCorrect == HistorySpec => []HistoryTypeOK
<1>1. HistoryInit => TypesInv
  BY InitTypes
<1>2. TypesInv /\ [HistoryNext]_historyVars => TypesInv'
  BY NextTypes
<1>3. TypesInv => HistoryTypeOK
  BY DEF TypesInv, LoadInv, HistoryTypes, PassesOK, HistoryTypeOK, Passes, SyncRecord
<1>. QED  BY <1>1, <1>2, <1>3, PTL DEF HistorySpec

\* "Keep rows Massive already wrote": however record_daily_closes, the nightly pass
\* and a boot's backfill overlap, an official close is never replaced by a live one,
\* nor deleted while it is in the window.
THEOREM OfficialStays == HistorySpec => OfficialKept
<1>1. HistoryInit => TypesInv
  BY InitTypes
<1>2. TypesInv /\ [HistoryNext]_historyVars => TypesInv' /\ [Keeps]_rows
  BY NextTypes
<1>3. [Keeps]_rows => [\A s \in All, d \in Days :
        rows[s][d] = "official" /\ rows'[s][d] # "official" => rows'[s][d] = "none" /\ d <= day - Window]_rows
  BY DEF Keeps
<1>. QED  BY <1>1, <1>2, <1>3, PTL DEF HistorySpec, OfficialKept

-----------------------------------------------------------------------------
(* The nights that correct *)

LEMMA CorrectedStays ==
  ASSUME TypesInv, Keeps, NEW s \in All, NEW low \in Int, NEW high \in Int,
         low >= day - Window + 1, Corrected(rows, s, low, high),
         NEW new \in Int, new >= low
  PROVE  Corrected(rows', s, new, high)
<1>. SUFFICES ASSUME NEW d \in TradingDays, new <= d, d <= high PROVE rows'[s][d] = "official"
  BY DEF Corrected
<1>1. d \in Days /\ d \in Nat /\ day \in Nat /\ Window \in Nat
  <2>1. "night" \in Passes
    BY DEF Passes
  <2>. QED  BY <2>1, Calendar, PassRecord
<1>2. rows[s][d] = "official"
  BY <1>1 DEF Corrected
<1>3. ~(d <= day - Window)
  BY <1>1
<1>. QED  BY <1>1, <1>2, <1>3 DEF Keeps

LEMMA TurnsAvailable ==
  ASSUME TypesInv, NEW D \in Int
  PROVE  Turn(D) \subseteq available /\ Turn(D) \subseteq All /\ available \subseteq All
<1>1. available \subseteq All
  BY Tickets DEF TypesInv, LoadInv, UniverseTypeOK
<1>. QED  BY <1>1 DEF Turn

LEMMA Clock ==
  ASSUME TypesInv
  PROVE  /\ day \in Nat /\ Window \in Nat \ {0} /\ calm \in Nat /\ LastPass \in {day, day - 1} /\ LastPass \in Int
         /\ phase \in Nat /\ "night" \in Passes /\ "boot" \in Passes
<1>1. "night" \in Passes /\ "boot" \in Passes
  BY DEF Passes
<1>2. calm \in Nat /\ phase \in Nat
  BY Tickets DEF TypesInv, HistoryTypes
<1>. QED  BY <1>1, <1>2, PassRecord, Calendar DEF LastPass

\* Most steps only let the nights recede: they keep what was corrected.
LEMMA PastKept ==
  ASSUME TypesInv, PastNights, Keeps, day' \in Nat, day' >= day, calm' \in Nat,
         calm' = 0 \/ (calm' = calm /\ UNCHANGED <<available, provider, phase>> /\ LastPass' = LastPass)
  PROVE  PastNights'
<1>. SUFFICES ASSUME NEW k \in Nat, k < calm', NEW s \in Turn(LastPass - k)', s \in Listed
              PROVE  Corrected(rows', s, day' - Window + 1, LastPass' - k)
  BY DEF PastNights
<1>1. calm' = calm /\ UNCHANGED <<available, provider, phase>> /\ LastPass' = LastPass
  OBVIOUS
<1>2. Turn(LastPass - k)' = Turn(LastPass - k)
  BY <1>1 DEF Turn
<1>3. day \in Nat /\ Window \in Nat /\ LastPass - k \in Int /\ day - Window + 1 \in Int /\ day' - Window + 1 \in Int
      /\ day' - Window + 1 >= day - Window + 1
  BY Clock
<1>4. s \in All
  BY <1>2, <1>3, TurnsAvailable
<1>5. Corrected(rows, s, day - Window + 1, LastPass - k)
  BY <1>1, <1>2 DEF PastNights
<1>6. Corrected(rows', s, day' - Window + 1, LastPass - k)
  BY <1>3, <1>4, <1>5, CorrectedStays
<1>. QED  BY <1>1, <1>6

LEMMA ThisKept ==
  ASSUME TypesInv, ThisNight, Keeps, sync'["night"] = sync["night"], UNCHANGED <<provider, phase>>,
         sync["night"].on => day' = day, available \subseteq available'
  PROVE  ThisNight'
<1>. SUFFICES ASSUME sync["night"].on, sync["night"].ok, sync["night"].over = available',
                     NEW s \in Turn(day)', s \in Listed, s \notin sync["night"].left
              PROVE  Corrected(rows', s, day' - Window + 1, day')
  BY DEF ThisNight
<1>1. available' = available /\ day' = day
  BY Clock DEF TypesInv, PassesOK
<1>2. Turn(day)' = Turn(day)
  BY <1>1 DEF Turn
<1>3. Corrected(rows, s, day - Window + 1, day)
  BY <1>1, <1>2 DEF ThisNight
<1>4. day \in Int /\ day - Window + 1 \in Int /\ s \in All
  BY <1>2, Clock, TurnsAvailable
<1>5. Corrected(rows', s, day - Window + 1, day)
  BY <1>3, <1>4, CorrectedStays
<1>. QED  BY <1>1, <1>5

\* A pass of the night that goes on: what it is done with is official, unless
\* something failed.
LEMMA AdvanceKeepsNight ==
  ASSUME TypesInv, ThisNight, Keeps, Advances("night"), UNCHANGED <<available, day, provider, phase>>
  PROVE  ThisNight'
<1>1. PICK S \in SUBSET sync["night"].left :
        /\ sync'["night"].on = sync["night"].on /\ sync'["night"].over = sync["night"].over
        /\ sync'["night"].left = sync["night"].left \ S
        /\ sync'["night"].ok => sync["night"].ok /\
             \A s \in S : \A d \in Bars(s, sync["night"].from, sync["night"].to) : rows'[s][d] = "official"
  BY DEF Advances
<1>. SUFFICES ASSUME sync'["night"].on, sync'["night"].ok, sync'["night"].over = available,
                     NEW s \in Turn(day), s \in Listed, s \notin sync'["night"].left
              PROVE  Corrected(rows', s, day - Window + 1, day)
  <2>1. Turn(day)' = Turn(day)
    BY DEF Turn
  <2>. QED  BY <2>1 DEF ThisNight
<1>2. day \in Int /\ day - Window + 1 \in Int /\ s \in All
  BY Clock, TurnsAvailable
<1>3. CASE s \in S
  <2>1. sync["night"].from <= day - Window + 1 /\ sync["night"].to = day /\ sync["night"].from \in Nat
    BY <1>1, Clock, PassRecord DEF TypesInv, PassesOK
  <2>2. ASSUME NEW d \in TradingDays, day - Window + 1 <= d, d <= day
        PROVE  rows'[s][d] = "official"
    <3>1. d \in Nat /\ d \in sync["night"].from .. sync["night"].to
      BY <1>2, <2>1, <2>2, Calendar
    <3>2. d \in Bars(s, sync["night"].from, sync["night"].to)
      BY <3>1 DEF Bars
    <3>. QED  BY <1>1, <1>3, <3>2
  <2>. QED  BY <2>2 DEF Corrected
<1>4. CASE s \notin S
  <2>1. Corrected(rows, s, day - Window + 1, day)
    BY <1>1, <1>4 DEF ThisNight
  <2>. QED  BY <1>2, <2>1, CorrectedStays
<1>. QED  BY <1>3, <1>4

\* A pass that ends: one more calm night, and all of them are a night older.
LEMMA EndKeepsNights ==
  ASSUME TypesInv, PastNights, ThisNight, SyncEnd("night"),
         UNCHANGED <<available, day, night, provider, phase>>
  PROVE  PastNights' /\ ThisNight'
<1>1. /\ calm' \in Nat /\ sync'["night"] = NotSyncing /\ Keeps
  <2>1. calm' \in 0 .. Tickers /\ sync'["night"] = NotSyncing /\ Keeps
    BY Clock, EndAdvances
  <2>. QED  BY <2>1, Tickets
<1>2. ThisNight'
  BY <1>1, NoPass DEF ThisNight
<1>3. /\ sync["night"].on /\ sync["night"].left = {} /\ night = "reconcile"
      /\ calm' # 0 => sync["night"].ok /\ sync["night"].over = available /\ calm' <= calm + 1
  BY Clock DEF SyncEnd, TypesInv, PassesOK
<1>4. LastPass = day - 1 /\ LastPass' = day
  BY <1>1, <1>3, NoPass DEF LastPass
<1>. SUFFICES ASSUME NEW k \in Nat, k < calm', NEW s \in Turn(day - k), s \in Listed
              PROVE  Corrected(rows', s, day - Window + 1, day - k)
  <2>1. \A k \in Nat : Turn(LastPass - k)' = Turn(day - k)
    BY <1>4 DEF Turn
  <2>. QED  BY <1>2, <1>4, <2>1 DEF PastNights
<1>5. day \in Nat /\ calm \in Nat /\ day - Window + 1 \in Int /\ day - k \in Int /\ s \in All
  BY Clock, TurnsAvailable
<1>6. Corrected(rows, s, day - Window + 1, day - k)
  <2>1. CASE k = 0
    <3>1. day - k = day
      BY <1>5, <2>1
    <3>. QED  BY <1>1, <1>3, <3>1 DEF ThisNight
  <2>2. CASE k # 0
    <3>1. k - 1 \in Nat /\ k - 1 < calm /\ LastPass - (k - 1) = day - k
      BY <1>1, <1>3, <1>4, <1>5, <2>2
    <3>. QED  BY <3>1 DEF PastNights
  <2>. QED  BY <2>1, <2>2
<1>. QED  BY <1>1, <1>5, <1>6, CorrectedStays

\* The tickers that a run chooses, when none is thin, are those whose turn it is.
LEMMA ReconcileKeepsNight ==
  ASSUME TypesInv, Reconcile
  PROVE  ThisNight' /\ LastPass' = LastPass
<1>1. /\ night = "closes" /\ night' = "reconcile" /\ UNCHANGED <<available, day, rows, provider, phase>>
      /\ IF provider = "alpaca" THEN SyncBegin("night", available, TRUE)
                                ELSE SyncBegin("night", Chosen, Thin = {})
  BY DEF Reconcile, universe, fixed
<1>2. available \in SUBSET All
  BY Tickets DEF TypesInv, LoadInv, UniverseTypeOK
<1>3. Thin \in SUBSET All /\ available \ Thin \in SUBSET All /\ Chosen \in SUBSET All
  <2>1. Thin \in SUBSET All /\ available \ Thin \in SUBSET All
    BY <1>2 DEF Thin
  <2>. QED  BY <2>1 DEF Chosen
<1>4. ASSUME Thin = {}, provider # "alpaca" PROVE Chosen = Turn(day)
  <2>. DEFINE n == Cardinality(available)
  <2>1. available \ Thin = available /\ Cardinality(Thin) = 0 /\ PerRun - 0 = PerRun
    BY <1>4, FS_EmptySet, Calendar
  <2>2. Chosen = {s \in available : (Place(s, available) - Start(n)) % n < PerRun}
    BY <1>4, <2>1 DEF Chosen
  <2>. QED  BY <1>4, <2>2 DEF Turn, Start
<1>5. \E S \in SUBSET All, calmly \in BOOLEAN :
        SyncBegin("night", S, calmly) /\ (calmly => Turn(day) \subseteq S)
  <2>1. CASE provider = "alpaca"
    <3>1. Turn(day) \subseteq available
      BY <2>1 DEF Turn
    <3>. QED  BY <1>1, <1>2, <2>1, <3>1
  <2>2. CASE provider # "alpaca"
    <3>1. SyncBegin("night", Chosen, Thin = {}) /\ (Thin = {}) \in BOOLEAN
      BY <1>1, <2>2
    <3>2. Thin = {} => Turn(day) \subseteq Chosen
      BY <1>4, <2>2
    <3>. QED  BY <1>3, <3>1, <3>2
  <2>. QED  BY <2>1, <2>2
<1>6. PICK S \in SUBSET All, calmly \in BOOLEAN :
        SyncBegin("night", S, calmly) /\ (calmly => Turn(day) \subseteq S)
  BY <1>5
<1>7. sync'["night"].on /\ sync'["night"].left = S /\ sync'["night"].ok = calmly
  BY <1>6, Clock, BeginsWell
<1>8. Turn(day)' = Turn(day)
  BY <1>1 DEF Turn
<1>9. ThisNight'
  BY <1>6, <1>7, <1>8 DEF ThisNight
<1>10. LastPass' = LastPass
  BY <1>1, <1>7 DEF LastPass
<1>. QED  BY <1>9, <1>10

LEMMA InitNights == HistoryInit => PastNights /\ ThisNight
<1>. SUFFICES ASSUME HistoryInit PROVE PastNights /\ ThisNight
  OBVIOUS
<1>1. calm = 0 /\ sync["night"] = NotSyncing
  BY DEF HistoryInit
<1>. QED  BY <1>1, NoPass DEF PastNights, ThisNight

LEMMA NextNights == HistoryInv /\ [HistoryNext]_historyVars => PastNights' /\ ThisNight'
<1>. SUFFICES ASSUME TypesInv, PastNights, ThisNight, [HistoryNext]_historyVars
              PROVE  PastNights' /\ ThisNight'
  BY DEF HistoryInv, TypesInv
<1>1. TypesInv' /\ Keeps /\ available \subseteq available' /\ day \in Nat /\ calm \in Nat /\ day' \in Nat /\ calm' \in Nat
  <2>1. TypesInv' /\ Keeps
    BY NextTypes
  <2>2. day' \in Nat /\ calm' \in Nat
    BY <2>1, Tickets, Calendar DEF TypesInv, HistoryTypes
  <2>. QED  BY <2>1, <2>2, NextLoad, Clock DEF TypesInv
<1>2. CASE NextDay
  <2>1. /\ UNCHANGED <<available, sync, calm, provider, phase>>
        /\ night = "reconcile" /\ day' = day + 1 /\ night' = "session" /\ ~sync["night"].on
    BY <1>2 DEF NextDay, history, fixed
  <2>2. LastPass' = LastPass
    BY <1>1, <2>1 DEF LastPass
  <2>3. day' >= day
    BY <1>1, <2>1
  <2>. QED  BY <1>1, <2>1, <2>2, <2>3, PastKept, ThisKept
<1>3. CASE NightLoad \/ ClosesRead
  <2>1. /\ UNCHANGED <<available, day, sync, calm, provider, phase>>
        /\ night # "reconcile" /\ night' # "reconcile"
    BY <1>3 DEF NightLoad, LoadBegin, ClosesRead, universe, history, fixed
  <2>2. LastPass' = LastPass
    BY <2>1 DEF LastPass
  <2>. QED  BY <1>1, <2>1, <2>2, PastKept, ThisKept
<1>4. CASE Loads
  <2>1. /\ UNCHANGED <<day, night, sync, provider, phase>>
        /\ calm' = IF available' = available THEN calm ELSE 0
    BY <1>4 DEF Loads, fixed
  <2>2. LastPass' = LastPass
    BY <2>1 DEF LastPass
  <2>. QED  BY <1>1, <2>1, <2>2, PastKept, ThisKept
<1>5. CASE ClosesCommit \/ BootCheck \/ BootLoaded \/ UNCHANGED historyVars
  <2>1. UNCHANGED <<available, day, night, sync, calm, provider, phase>>
    BY <1>5 DEF ClosesCommit, BootCheck, BootLoaded, LoadBegin, LoadEnd, universe, historyVars, history, fixed
  <2>2. LastPass' = LastPass
    BY <2>1 DEF LastPass
  <2>. QED  BY <1>1, <2>1, <2>2, PastKept, ThisKept
<1>6. CASE Reconcile
  <2>1. UNCHANGED <<available, day, calm, provider, phase>>
    BY <1>6 DEF Reconcile, universe, fixed
  <2>2. ThisNight' /\ LastPass' = LastPass
    BY <1>6, ReconcileKeepsNight
  <2>. QED  BY <1>1, <2>1, <2>2, PastKept
<1>7. CASE SyncStep
  <2>1. PICK a \in Passes :
          /\ AlpacaChunk(a) \/ (\E s \in All : MassiveRead(a, s)) \/ MassiveCommit(a) \/ SyncEnd(a)
          /\ UNCHANGED <<available, priced, touched, loader, loads, day, night, closes, boot, fixed>>
    BY <1>7 DEF SyncStep, Passes
  <2>2. UNCHANGED <<available, day, night, provider, phase>>
    BY <2>1 DEF fixed
  <2>3. CASE AlpacaChunk(a) \/ (\E s \in All : MassiveRead(a, s)) \/ MassiveCommit(a)
    <3>1. Advances(a)
      BY <2>3, ChunkAdvances, ReadAdvances, CommitAdvances
    <3>2. calm' = calm
      BY <2>3 DEF AlpacaChunk, MassiveRead, MassiveCommit
    <3>3. sync'["night"].on = sync["night"].on /\ (a # "night" => sync'["night"] = sync["night"])
      BY <3>1, Clock DEF Advances
    <3>4. LastPass' = LastPass
      BY <2>2, <3>3 DEF LastPass
    <3>5. PastNights'
      BY <1>1, <2>2, <3>2, <3>4, PastKept
    <3>6. ThisNight'
      <4>1. CASE a = "night"
        BY <1>1, <2>2, <3>1, <4>1, AdvanceKeepsNight
      <4>2. CASE a # "night"
        BY <1>1, <2>2, <3>3, <4>2, ThisKept
      <4>. QED  BY <4>1, <4>2
    <3>. QED  BY <3>5, <3>6
  <2>4. CASE SyncEnd(a)
    <3>1. CASE a = "night"
      BY <2>2, <2>4, <3>1, EndKeepsNights
    <3>2. CASE a = "boot"
      <4>1. sync'["night"] = sync["night"]
        BY <2>4, <3>2, Clock, EndAdvances
      <4>2. calm' = calm
        BY <2>4, <3>2 DEF SyncEnd
      <4>3. LastPass' = LastPass
        BY <2>2, <4>1 DEF LastPass
      <4>. QED  BY <1>1, <2>2, <4>1, <4>2, <4>3, PastKept, ThisKept
    <3>. QED  BY <3>1, <3>2 DEF Passes
  <2>. QED  BY <2>1, <2>3, <2>4
<1>8. CASE BootFill
  <2>1. /\ UNCHANGED <<available, day, night, calm, provider, phase>>
        /\ SyncBegin("boot", available, TRUE)
    BY <1>8 DEF BootFill, universe, fixed
  <2>2. sync'["night"] = sync["night"]
    <3>1. available \in SUBSET All /\ TRUE \in BOOLEAN /\ "boot" # "night"
      BY Tickets DEF TypesInv, LoadInv, UniverseTypeOK
    <3>. QED  BY <2>1, <3>1, Clock, BeginsWell
  <2>3. LastPass' = LastPass
    BY <2>1, <2>2 DEF LastPass
  <2>. QED  BY <1>1, <2>1, <2>2, <2>3, PastKept, ThisKept
<1>9. CASE Restart
  <2>1. calm' = 0 /\ sync'["night"] = NotSyncing /\ day' = day
    BY <1>9 DEF Restart
  <2>2. ThisNight'
    BY <2>1, NoPass DEF ThisNight
  <2>. QED  BY <1>1, <2>1, <2>2, PastKept
<1>. QED  BY <1>2, <1>3, <1>4, <1>5, <1>6, <1>7, <1>8, <1>9 DEF HistoryNext

-----------------------------------------------------------------------------
(* The window comes round *)

LEMMA ModUnique ==
  ASSUME NEW n \in Nat \ {0}, NEW k \in Int, NEW r \in 0 .. n - 1
  PROVE  (n * k + r) % n = r
<1>. DEFINE v == n * k + r
            q == v \div n
            m == v % n
            e == k - q
            w == n * e
<1>1. v \in Int /\ q \in Int /\ m \in 0 .. n - 1 /\ v = n * q + m
  OBVIOUS
<1>. HIDE DEF q, m
<1>2. e \in Int /\ w \in Int /\ w = n * k - n * q
  BY <1>1
<1>3. w = m - r
  BY <1>1, <1>2
<1>4. e >= 1 => w >= n
  BY <1>1
<1>5. e <= 0 - 1 => w <= 0 - n
  BY <1>1
<1>6. e = 0 => w = 0
  BY <1>1
<1>. HIDE DEF e, w
<1>7. e = 0
  BY <1>1, <1>2, <1>3, <1>4, <1>5
<1>. QED  BY <1>1, <1>3, <1>6, <1>7 DEF m

\* Windows of b places that start b further every time, over n places that wrap
\* round, have visited place p after ceil(n / b) of them.
LEMMA ComesRound ==
  ASSUME NEW n \in Nat \ {0}, NEW b \in Nat \ {0}, NEW p \in 0 .. n - 1, NEW E \in Int
  PROVE  \E j \in 0 .. ((n + b - 1) \div b) - 1 : (p - (((E + j) * b) % n)) % n < b
<1>. DEFINE P == (n + b - 1) \div b
            c == E * b
            u == p - c
            x == u % n
            a == u \div n
            j == x \div b
            r == x % b
<1>1. P \in Nat /\ P * b >= n
  BY Ceiling
<1>2. c \in Int /\ u \in Int
  OBVIOUS
<1>. HIDE DEF P, c
<1>3. x \in 0 .. n - 1 /\ a \in Int /\ u = n * a + x
  BY <1>2
<1>. HIDE DEF u, x, a
<1>4. j \in Int /\ r \in 0 .. b - 1 /\ x = b * j + r
  BY <1>3
<1>. HIDE DEF j, r
<1>5. j \in 0 .. P - 1
  <2>. DEFINE v == b * j
  <2>1. v \in Int /\ v <= x /\ x < v + b
    BY <1>3, <1>4
  <2>2. j < 0 => v <= 0 - b
    BY <1>4
  <2>3. j >= P => v >= P * b
    BY <1>1, <1>4
  <2>. HIDE DEF v
  <2>4. ~(j < 0)
    BY <1>3, <2>1, <2>2
  <2>5. ~(j >= P)
    <3>. DEFINE w == P * b
    <3>1. w \in Int /\ w >= n
      BY <1>1
    <3>. HIDE DEF w
    <3>2. j >= P => v >= w
      BY <2>3 DEF w
    <3>. QED  BY <1>3, <2>1, <3>1, <3>2
  <2>. QED  BY <1>1, <1>4, <2>4, <2>5
<1>. DEFINE s == (E + j) * b
            m == s % n
            f == s \div n
<1>6. s \in Int /\ s = c + b * j
  BY <1>4 DEF c
<1>. HIDE DEF s
<1>7. m \in Int /\ f \in Int /\ s = n * f + m
  <2>1. s \in Int
    BY <1>6
  <2>. QED  BY <2>1
<1>. HIDE DEF m, f
<1>8. p - m = n * (a + f) + r
  <2>. DEFINE h1 == n * a
              h2 == n * f
              h3 == b * j
  <2>1. h1 \in Int /\ h2 \in Int /\ h3 \in Int /\ n * (a + f) = h1 + h2
    BY <1>3, <1>4, <1>7
  <2>2. u = h1 + x /\ x = h3 + r /\ s = c + h3 /\ s = h2 + m /\ u = p - c
    BY <1>3, <1>4, <1>6, <1>7 DEF u
  <2>. HIDE DEF h1, h2, h3
  <2>3. p - m = h1 + h2 + r
    BY <1>2, <1>3, <1>4, <1>6, <1>7, <2>1, <2>2
  <2>. QED  BY <2>1, <2>3
<1>9. r \in 0 .. n - 1 /\ r < b
  <2>1. r <= x
    <3>. DEFINE v == b * j
    <3>1. v \in Int /\ v >= 0
      BY <1>4, <1>5
    <3>. HIDE DEF v
    <3>2. x = v + r
      BY <1>4 DEF v
    <3>. QED  BY <1>3, <1>4, <3>1, <3>2
  <2>. QED  BY <1>3, <1>4, <2>1
<1>10. (p - m) % n = r
  <2>1. a + f \in Int
    BY <1>3, <1>7
  <2>. QED  BY <1>8, <1>9, <2>1, ModUnique
<1>. QED  BY <1>5, <1>9, <1>10 DEF m, s, P

\* The nights of a period, the last of them the last, have given every ticker
\* its turn.
LEMMA EveryTurn ==
  ASSUME TypesInv, NEW s \in available
  PROVE  /\ Period \in Nat
         /\ \E k \in Nat : k < Period /\ s \in Turn(LastPass - k)
<1>1. available \in SUBSET All /\ LastPass \in Int /\ phase \in Nat /\ PerRun \in Nat \ {0}
  BY Clock, Calendar, Tickets DEF TypesInv, LoadInv, UniverseTypeOK
<1>2. CASE provider = "alpaca"
  <2>1. Period = 1 /\ 0 \in Nat /\ s \in Turn(LastPass - 0)
    BY <1>2 DEF Period, Turn
  <2>. QED  BY <2>1
<1>3. CASE provider # "alpaca"
  <2>. DEFINE n == Cardinality(available)
              p == Place(s, available)
              P == Period
              E == LastPass - P + 1 + phase
  <2>1. n \in Nat /\ p \in Nat /\ p < n
    BY <1>1, PlaceOf, Tickets
  <2>2. P = (n + PerRun - 1) \div PerRun
    BY <1>3 DEF Period
  <2>. HIDE DEF n, p, P
  <2>3. P \in Nat
    BY <1>1, <2>1, <2>2, Ceiling
  <2>4. E \in Int
    BY <1>1, <2>3
  <2>. HIDE DEF E
  <2>5. n \in Nat \ {0} /\ p \in 0 .. n - 1
    BY <2>1
  <2>6. PICK j \in 0 .. P - 1 : (p - (((E + j) * PerRun) % n)) % n < PerRun
    BY <1>1, <2>2, <2>4, <2>5, ComesRound
  <2>. DEFINE k == P - 1 - j
  <2>7. k \in Nat /\ k < P /\ LastPass - k + phase = E + j
    BY <1>1, <2>3 DEF E
  <2>. HIDE DEF k
  <2>8. s \in Turn(LastPass - k)
    BY <1>3, <2>6, <2>7 DEF Turn, n, p
  <2>. QED  BY <2>3, <2>7, <2>8 DEF P
<1>. QED  BY <1>2, <1>3

LEMMA PeriodCorrects == HistoryInv => CorrectedEveryPeriod
<1>. SUFFICES ASSUME TypesInv, PastNights, calm >= Period,
                     NEW s \in available, s \in Listed, NEW d \in TradingDays,
                     LastPass - Window + 2 <= d, d <= LastPass - Period + 1
              PROVE  rows[s][d] = "official"
  BY DEF HistoryInv, TypesInv, CorrectedEveryPeriod
<1>1. PICK k \in Nat : k < Period /\ s \in Turn(LastPass - k)
  BY EveryTurn
<1>2. Period \in Nat
  BY EveryTurn
<1>3. d \in Nat /\ day \in Nat /\ Window \in Nat /\ calm \in Nat /\ LastPass \in {day, day - 1}
  BY Clock, Calendar
<1>4. k < calm /\ day - Window + 1 <= d /\ d <= LastPass - k
  BY <1>1, <1>2, <1>3
<1>5. Corrected(rows, s, day - Window + 1, LastPass - k)
  BY <1>1, <1>4 DEF PastNights
<1>. QED  BY <1>4, <1>5 DEF Corrected

\* The strengthening of the invariants of the daily closes holds in every state.
THEOREM HistoryInvariance == HistorySpec => []HistoryInv
<1>1. HistoryInit => HistoryInv
  BY InitTypes, InitNights DEF HistoryInv, TypesInv
<1>2. HistoryInv /\ [HistoryNext]_historyVars => HistoryInv'
  <2>1. HistoryInv /\ [HistoryNext]_historyVars => TypesInv'
    BY NextTypes DEF HistoryInv, TypesInv
  <2>. QED  BY <2>1, NextNights DEF HistoryInv, TypesInv
<1>. QED  BY <1>1, <1>2, PTL DEF HistorySpec

\* "Every ticker is corrected every ceil(tickers / limit) days": once nothing has
\* disturbed reconcile_price_history for a period, every day of the window that a
\* period has passed since has its official close, for every ticker that trades.
THEOREM EveryPeriodCorrects == HistorySpec => []CorrectedEveryPeriod
BY HistoryInvariance, PeriodCorrects, PTL
=============================================================================
