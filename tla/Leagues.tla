------------------------------- MODULE Leagues -------------------------------
(***************************************************************************)
(* Leagues (league_service.py): create, join, leave and delete, run by the *)
(* threads of one worker.  Joining, leaving and deleting lock the league's *)
(* row before they look at its members; creating locks nothing, and the    *)
(* cap on a user's leagues is counted before any lock.                     *)
(*                                                                         *)
(* A membership row keeps its id and its joined_at, which the database     *)
(* fills with current_timestamp: the time its transaction began, not the   *)
(* time it was granted the lock or committed.                              *)
(***************************************************************************)
EXTENDS Naturals, FiniteSets

CONSTANTS
  Users, Threads,
  MaxMembers,     \* MAX_LEAGUE_MEMBERS
  MaxPerUser,     \* MAX_LEAGUES_PER_USER
  MaxRequests,    \* requests served (bound)
  NoUser, NoThread

\* Every request opens at most one league.
LeagueIds == 1 .. MaxRequests

NoLeague == 0

ASSUME CapAssumption == MaxMembers \in Nat \ {0} /\ MaxPerUser \in Nat \ {0}
ASSUME BoundAssumption == MaxRequests \in Nat
ASSUME UserAssumption == IsFiniteSet(Users) /\ NoUser \notin Users
ASSUME ThreadAssumption == IsFiniteSet(Threads) /\ NoThread \notin Threads

VARIABLES
  owner,        \* leagues.owner_id, NoUser where there is no row
  member,       \* league_memberships: league, user -> row id, 0 for none
  joinedAt,     \* league, user -> joined_at of that row
  nextLeague, nextMember,   \* the id sequences
  clock,        \* the database's clock
  lock,         \* the transaction that holds each league's row
  pc, req,      \* each thread: where it is, its request
  served        \* requests started

rows == <<owner, member, joinedAt, nextLeague, nextMember>>
vars == <<rows, clock, lock, pc, req, served>>

Request == [user : Users, league : LeagueIds \cup {NoLeague}, at : Nat]

Members(l)   == {u \in Users : member[l][u] # 0}
LeaguesOf(u) == {l \in LeagueIds : member[l][u] # 0}

Init ==
  /\ owner = [l \in LeagueIds |-> NoUser]
  /\ member = [l \in LeagueIds |-> [u \in Users |-> 0]]
  /\ joinedAt = [l \in LeagueIds |-> [u \in Users |-> 0]]
  /\ nextLeague = 1 /\ nextMember = 1 /\ clock = 0
  /\ lock = [l \in LeagueIds |-> NoThread]
  /\ pc = [t \in Threads |-> "idle"]
  /\ req = [t \in Threads |-> NoUser]
  /\ served = 0

-----------------------------------------------------------------------------
(* Transactions *)

\* A request's transaction starts: a membership it adds will carry this time.
Begin(t, l, u, league, at) ==
  /\ pc[t] = "idle" /\ served < MaxRequests
  /\ pc' = [pc EXCEPT ![t] = l]
  /\ req' = [req EXCEPT ![t] = [user |-> u, league |-> league, at |-> at]]
  /\ clock' = at
  /\ served' = served + 1
  /\ UNCHANGED <<rows, lock>>

\* The leagues whose id or join code anyone can name.
Known == {l \in LeagueIds : l < nextLeague}

\* The request is answered and its lock given back.
EndRequest(t) ==
  /\ pc' = [pc EXCEPT ![t] = "idle"]
  /\ req' = [req EXCEPT ![t] = NoUser]
  /\ lock' = [l \in LeagueIds |-> IF lock[l] = t THEN NoThread ELSE lock[l]]
  /\ UNCHANGED <<clock, served>>

Abort(t) == EndRequest(t) /\ UNCHANGED rows

UnlockedRead(l) == TRUE

\* with_for_update on the league's row waits for its holder.
LeagueFree(l) == lock[l] = NoThread

\* The row is locked, unless it is gone, or `refused` turns the request down.
LockLeague(t, from, refused, to) ==
  /\ pc[t] = from
  /\ LET l == req[t].league IN
     \/ owner[l] = NoUser /\ Abort(t)
     \/ owner[l] # NoUser /\ LeagueFree(l) /\ refused /\ Abort(t)
     \/ /\ owner[l] # NoUser /\ LeagueFree(l) /\ ~refused
        /\ lock' = [lock EXCEPT ![l] = t]
        /\ pc' = [pc EXCEPT ![t] = to]
        /\ UNCHANGED <<rows, clock, req, served>>

AddMember(l, u, at) ==
  /\ member' = [member EXCEPT ![l][u] = nextMember]
  /\ joinedAt' = [joinedAt EXCEPT ![l][u] = at]
  /\ nextMember' = nextMember + 1

-----------------------------------------------------------------------------
(* create_league and join_league *)

AtMostCap(u) == Cardinality(LeaguesOf(u)) <= MaxPerUser

\* _assert_under_league_cap
UnderCap(u) == Cardinality(LeaguesOf(u)) < MaxPerUser

CreateBegin(t) == \E u \in Users, at \in {clock, clock + 1} :
  UnderCap(u) /\ Begin(t, "create", u, NoLeague, at)

CreateCommit(t) ==
  /\ pc[t] = "create" /\ nextLeague \in LeagueIds
  /\ owner' = [owner EXCEPT ![nextLeague] = req[t].user]
  /\ AddMember(nextLeague, req[t].user, req[t].at)
  /\ nextLeague' = nextLeague + 1
  /\ EndRequest(t)

JoinBegin(t) == \E u \in Users, l \in Known, at \in {clock, clock + 1} :
  UnderCap(u) /\ Begin(t, "join", u, l, at)

HasRoom(l) == Cardinality(Members(l)) < MaxMembers

JoinLock(t) ==
  LockLeague(t, "join", req[t].user \in Members(req[t].league) \/ ~HasRoom(req[t].league),
             "joinCommit")

JoinCommit(t) ==
  /\ pc[t] = "joinCommit"
  /\ AddMember(req[t].league, req[t].user, req[t].at)
  /\ EndRequest(t)
  /\ UNCHANGED <<owner, nextLeague>>

-----------------------------------------------------------------------------
(* leave_league and delete_league *)

LeaveBegin(t) == \E u \in Users, l \in Known : Begin(t, "leave", u, l, clock)

LeaveLock(t) ==
  LockLeague(t, "leave", req[t].user \notin Members(req[t].league), "leaveCommit")

\* order_by(joined_at, id)
StoodLonger(l, u, v) ==
  \/ joinedAt[l][u] < joinedAt[l][v]
  \/ joinedAt[l][u] = joinedAt[l][v] /\ member[l][u] <= member[l][v]

OwnerStays(l, u) == {owner[l]}

\* The owner after u has left: the member who has stood longest inherits.
OwnerWithout(l, u) ==
  LET remaining == Members(l) \ {u} IN
  IF remaining = {} THEN {NoUser}
  ELSE IF owner[l] # u THEN {owner[l]}
  ELSE {v \in remaining : \A x \in remaining : StoodLonger(l, v, x)}

\* The last one out closes the league.
LeaveCommit(t) ==
  /\ pc[t] = "leaveCommit"
  /\ LET l == req[t].league
         u == req[t].user
     IN /\ member' = [member EXCEPT ![l][u] = 0]
        /\ joinedAt' = [joinedAt EXCEPT ![l][u] = 0]
        /\ \E next \in OwnerWithout(l, u) : owner' = [owner EXCEPT ![l] = next]
  /\ EndRequest(t)
  /\ UNCHANGED <<nextLeague, nextMember>>

DeleteBegin(t) == \E u \in Users, l \in Known : Begin(t, "delete", u, l, clock)

\* Owner only, and only once alone.
DeleteLock(t) ==
  LET l == req[t].league IN
  LockLeague(t, "delete", owner[l] # req[t].user \/ Cardinality(Members(l)) > 1, "deleteCommit")

\* The memberships go with the row.
DeleteCommit(t) ==
  /\ pc[t] = "deleteCommit"
  /\ LET l == req[t].league IN
     /\ owner' = [owner EXCEPT ![l] = NoUser]
     /\ member' = [member EXCEPT ![l] = [u \in Users |-> 0]]
     /\ joinedAt' = [joinedAt EXCEPT ![l] = [u \in Users |-> 0]]
  /\ EndRequest(t)
  /\ UNCHANGED <<nextLeague, nextMember>>

\* The connection drops or the process dies before the commit.
Fail(t) == pc[t] # "idle" /\ Abort(t)

-----------------------------------------------------------------------------
Arrive(t) == CreateBegin(t) \/ JoinBegin(t) \/ LeaveBegin(t) \/ DeleteBegin(t)

Advance(t) ==
  \/ CreateCommit(t) \/ JoinLock(t) \/ JoinCommit(t)
  \/ LeaveLock(t) \/ LeaveCommit(t) \/ DeleteLock(t) \/ DeleteCommit(t)

Next == \E t \in Threads : Arrive(t) \/ Advance(t) \/ Fail(t)

Spec == Init /\ [][Next]_vars

-----------------------------------------------------------------------------
(* Properties *)

LockPcs == {"join", "leave", "delete"}
CommitPcs == {"joinCommit", "leaveCommit", "deleteCommit"}
Pcs == {"idle", "create"} \cup LockPcs \cup CommitPcs

\* A request underway names a user, and one that locks names a league.
RequestTyped(t) ==
  /\ pc[t] # "idle" => req[t] \in Request
  /\ pc[t] \in LockPcs \cup CommitPcs => req[t].league \in LeagueIds

\* Every row, lock and register has its type.
TypeOK ==
  /\ owner \in [LeagueIds -> Users \cup {NoUser}]
  /\ member \in [LeagueIds -> [Users -> Nat]]
  /\ joinedAt \in [LeagueIds -> [Users -> Nat]]
  /\ nextLeague \in Nat \ {0} /\ nextMember \in Nat \ {0} /\ clock \in Nat
  /\ lock \in [LeagueIds -> Threads \cup {NoThread}]
  /\ pc \in [Threads -> Pcs] /\ req \in [Threads -> Request \cup {NoUser}]
  /\ served \in Nat
  /\ \A t \in Threads : RequestTyped(t)

\* No league ever has more members than the cap: the count and the insert are
\* one step under the league's row lock.
MemberCap == \A l \in LeagueIds : Cardinality(Members(l)) <= MaxMembers

\* Every league has an owner among its members, whoever leaves at whatever
\* moment: nobody owns a league from outside and none is left empty; and a
\* closed league keeps no member.
OwnerIsMember == \A l \in LeagueIds :
  IF owner[l] = NoUser THEN Members(l) = {} ELSE owner[l] \in Members(l)

\* A user can pass the per-user cap only by requests that were in flight
\* together: never by more than one league for each other thread.
OverCapBounded == \A u \in Users :
  Cardinality(LeaguesOf(u)) < MaxPerUser + Cardinality(Threads)

Book == INSTANCE LeagueBook WITH
  members <- [l \in LeagueIds |-> Members(l)],
  opened <- 1 .. (nextLeague - 1)

\* The service, with its locks and statements, implements the one-step book.
BookSpec == Book!Spec

-----------------------------------------------------------------------------
(* What the comments promise and the code breaks: TLC refutes each *)

\* "You can be in at most N leagues" (_assert_under_league_cap).
UserCap == \A u \in Users : Cardinality(LeaguesOf(u)) <= MaxPerUser

\* "The owner cannot leave" (docs/economy-and-leaderboards.md): the owner stops
\* being a member only when the league ends.
OwnerNeverLeaves == [][\A l \in LeagueIds :
  owner[l] # NoUser /\ owner[l] \notin Members(l)' => owner'[l] = NoUser]_<<owner, member>>

\* "Longest-standing remaining member inherits it" (leave_league): whoever
\* inherits joined before the other members.
LongestStandingInherits == [][\A l \in LeagueIds :
  owner[l] # NoUser /\ owner'[l] \notin {NoUser, owner[l]} =>
    \A u \in Members(l) \ {owner[l]} : member[l][owner'[l]] <= member[l][u]]_<<owner, member>>
=============================================================================
