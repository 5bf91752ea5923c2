---------------------------- MODULE LeaguesProofs ----------------------------
(***************************************************************************)
(* Theorems about Leagues, for every set of users and threads and every    *)
(* cap.                                                                    *)
(***************************************************************************)
EXTENDS Leagues, FiniteSetTheorems, TLAPS

\* The row a request is about to write exists, is locked by it, and is as the
\* request found it.
Checked(t) ==
  /\ pc[t] \in CommitPcs => owner[req[t].league] # NoUser /\ lock[req[t].league] = t
  /\ pc[t] = "joinCommit" => req[t].user \notin Members(req[t].league) /\ HasRoom(req[t].league)
  /\ pc[t] = "leaveCommit" => req[t].user \in Members(req[t].league)
  /\ pc[t] = "deleteCommit" => /\ owner[req[t].league] = req[t].user
                              /\ Cardinality(Members(req[t].league)) <= 1

\* Ids the sequence has not reached name no league.
Unopened == \A l \in LeagueIds : l >= nextLeague => owner[l] = NoUser

\* The inductive invariant.
IInv ==
  /\ TypeOK
  /\ \A t \in Threads : Checked(t)
  /\ Unopened
  /\ MemberCap
  /\ OwnerIsMember

\* A step of t leaves alone the registers of the other threads and the leagues
\* they have locked.
Untouched(t) ==
  /\ \A x \in Threads \ {t} : pc'[x] = pc[x] /\ req'[x] = req[x]
  /\ \A l \in LeagueIds : lock[l] \notin {t, NoThread} =>
       /\ lock'[l] = lock[l]
       /\ owner[l] # NoUser => owner'[l] = owner[l] /\ member'[l] = member[l]

-----------------------------------------------------------------------------
(* Members *)

\* A league has finitely many members, so they can be counted.
LEMMA MembersFinite ==
  ASSUME NEW l \in LeagueIds
  PROVE  IsFiniteSet(Members(l)) /\ Cardinality(Members(l)) \in Nat
<1>1. Members(l) \subseteq Users
  BY DEF Members
<1>2. IsFiniteSet(Members(l))
  BY <1>1, UserAssumption, FS_Subset
<1>. QED  BY <1>2, FS_CardinalityType

\* A membership added, one removed, all removed.
LEMMA MembersAfterAdd ==
  ASSUME TypeOK, NEW l \in LeagueIds, NEW u \in Users, NEW at, AddMember(l, u, at)
  PROVE  /\ Members(l)' = Members(l) \cup {u}
         /\ \A k \in LeagueIds \ {l} : Members(k)' = Members(k) /\ member'[k] = member[k]
<1>1. member \in [LeagueIds -> [Users -> Nat]] /\ nextMember \in Nat \ {0}
      /\ member' = [member EXCEPT ![l][u] = nextMember]
  BY DEF TypeOK, AddMember
<1>2. \A v \in Users : member'[l][v] = IF v = u THEN nextMember ELSE member[l][v]
  BY <1>1
<1>3. \A k \in LeagueIds \ {l} : member'[k] = member[k]
  BY <1>1
<1>. QED  BY <1>1, <1>2, <1>3 DEF Members

\* What the members of each league are once one has left (leave_league).
LEMMA MembersAfterRemove ==
  ASSUME TypeOK, NEW l \in LeagueIds, NEW u \in Users,
         member' = [member EXCEPT ![l][u] = 0]
  PROVE  /\ Members(l)' = Members(l) \ {u}
         /\ \A k \in LeagueIds \ {l} : Members(k)' = Members(k) /\ member'[k] = member[k]
<1>1. member \in [LeagueIds -> [Users -> Nat]]
  BY DEF TypeOK
<1>2. \A v \in Users : member'[l][v] = IF v = u THEN 0 ELSE member[l][v]
  BY <1>1
<1>3. \A k \in LeagueIds \ {l} : member'[k] = member[k]
  BY <1>1
<1>. QED  BY <1>2, <1>3 DEF Members

\* What the members are once a league is deleted with its memberships.
LEMMA MembersAfterCascade ==
  ASSUME TypeOK, NEW l \in LeagueIds, member' = [member EXCEPT ![l] = [u \in Users |-> 0]]
  PROVE  /\ Members(l)' = {}
         /\ \A k \in LeagueIds \ {l} : Members(k)' = Members(k) /\ member'[k] = member[k]
BY DEF TypeOK, Members

\* Each field of a request, with its type.
LEMMA RequestFields ==
  ASSUME TypeOK, NEW t \in Threads, pc[t] # "idle"
  PROVE  /\ req[t] \in Request /\ req[t].user \in Users /\ req[t].at \in Nat
         /\ pc[t] \in LockPcs \cup CommitPcs => req[t].league \in LeagueIds
BY DEF TypeOK, Request, RequestTyped

-----------------------------------------------------------------------------
(* Type correctness *)

\* The end of a request leaves every register and lock of its type.
LEMMA EndRequestType ==
  ASSUME TypeOK, NEW t \in Threads, EndRequest(t)
  PROVE  /\ lock' \in [LeagueIds -> Threads \cup {NoThread}]
         /\ pc' \in [Threads -> Pcs] /\ req' \in [Threads -> Request \cup {NoUser}]
         /\ clock' \in Nat /\ served' \in Nat
         /\ pc'[t] = "idle"
         /\ \A x \in Threads : RequestTyped(x)'
         /\ \A x \in Threads \ {t} : pc'[x] = pc[x] /\ req'[x] = req[x]
         /\ \A l \in LeagueIds : lock[l] \notin {t, NoThread} => lock'[l] = lock[l]
<1>. USE DEF TypeOK, EndRequest
<1>1. lock' \in [LeagueIds -> Threads \cup {NoThread}]
      /\ \A l \in LeagueIds : lock[l] \notin {t, NoThread} => lock'[l] = lock[l]
  OBVIOUS
<1>2. pc' \in [Threads -> Pcs] /\ req' \in [Threads -> Request \cup {NoUser}]
  BY DEF Pcs
<1>3. pc'[t] = "idle" /\ \A x \in Threads \ {t} : pc'[x] = pc[x] /\ req'[x] = req[x]
  OBVIOUS
<1>. QED  BY <1>1, <1>2, <1>3 DEF LockPcs, CommitPcs, RequestTyped

\* Adding a member keeps the types of the membership tables.
LEMMA AddMemberType ==
  ASSUME TypeOK, NEW l \in LeagueIds, NEW u \in Users, NEW at \in Nat, AddMember(l, u, at)
  PROVE  /\ member' \in [LeagueIds -> [Users -> Nat]]
         /\ joinedAt' \in [LeagueIds -> [Users -> Nat]] /\ nextMember' \in Nat \ {0}
BY DEF TypeOK, AddMember

\* A request that arrives keeps the inductive invariant.
LEMMA ArriveKeeps ==
  ASSUME TypeOK, NEW t \in Threads, Arrive(t)
  PROVE  TypeOK' /\ Untouched(t) /\ Checked(t)' /\ UNCHANGED rows
<1>1. PICK l \in {"create"} \cup LockPcs, u \in Users, g \in LeagueIds \cup {NoLeague}, at \in Nat :
        Begin(t, l, u, g, at) /\ (l \in LockPcs => g \in LeagueIds)
  <2>. USE DEF Known, LockPcs
  <2>1. clock \in Nat
    BY DEF TypeOK
  <2>2. CASE CreateBegin(t)
    BY <2>1, <2>2 DEF CreateBegin
  <2>3. CASE JoinBegin(t)
    BY <2>1, <2>3 DEF JoinBegin
  <2>4. CASE LeaveBegin(t)
    BY <2>1, <2>4 DEF LeaveBegin
  <2>5. CASE DeleteBegin(t)
    BY <2>1, <2>5 DEF DeleteBegin
  <2>. QED  BY <2>2, <2>3, <2>4, <2>5 DEF Arrive
<1>. DEFINE r == [user |-> u, league |-> g, at |-> at]
<1>2. r \in Request
  BY DEF Request
<1>3. /\ pc' = [pc EXCEPT ![t] = l] /\ req' = [req EXCEPT ![t] = r] /\ clock' = at
      /\ served' = served + 1 /\ UNCHANGED <<rows, lock>>
  BY <1>1 DEF Begin
<1>. HIDE DEF r
<1>4. /\ pc' \in [Threads -> Pcs] /\ req' \in [Threads -> Request \cup {NoUser}]
      /\ pc'[t] = l /\ req'[t] = r
      /\ \A x \in Threads \ {t} : pc'[x] = pc[x] /\ req'[x] = req[x]
  BY <1>2, <1>3 DEF TypeOK, Pcs
<1>5. \A x \in Threads : RequestTyped(x)'
  BY <1>1, <1>2, <1>4 DEF TypeOK, LockPcs, CommitPcs, RequestTyped, r
<1>6. TypeOK'
  BY <1>3, <1>4, <1>5 DEF TypeOK, rows
<1>. QED  BY <1>1, <1>3, <1>4, <1>6 DEF Untouched, Checked, LockPcs, CommitPcs, rows

\* A refused or failed request keeps the inductive invariant.
LEMMA AbortKeeps ==
  ASSUME TypeOK, NEW t \in Threads, Abort(t)
  PROVE  TypeOK' /\ Untouched(t) /\ Checked(t)' /\ UNCHANGED rows
BY EndRequestType DEF Abort, TypeOK, Untouched, Checked, CommitPcs, rows

\* Taking a league's lock.
LEMMA LockKeeps ==
  ASSUME TypeOK, NEW t \in Threads, NEW from \in LockPcs, NEW to \in CommitPcs,
         NEW refused \in BOOLEAN, LockLeague(t, from, refused, to), ~Abort(t)
  PROVE  /\ TypeOK' /\ Untouched(t) /\ UNCHANGED <<rows, req>> /\ ~refused
         /\ pc'[t] = to /\ owner[req[t].league] # NoUser /\ lock'[req[t].league] = t
<1>. DEFINE l == req[t].league
<1>1. /\ pc[t] = from /\ owner[l] # NoUser /\ LeagueFree(l) /\ ~refused
      /\ lock' = [lock EXCEPT ![l] = t] /\ pc' = [pc EXCEPT ![t] = to]
      /\ UNCHANGED <<rows, clock, req, served>>
  BY DEF LockLeague
<1>2. l \in LeagueIds
  BY <1>1, RequestFields DEF LockPcs
<1>3. req[t] \in Request
  BY <1>1, RequestFields DEF LockPcs
<1>. HIDE DEF l
<1>4. /\ lock' \in [LeagueIds -> Threads \cup {NoThread}] /\ lock'[l] = t
      /\ \A k \in LeagueIds : lock[k] \notin {t, NoThread} => lock'[k] = lock[k]
  BY <1>1, <1>2 DEF TypeOK, LeagueFree
<1>5. /\ pc' \in [Threads -> Pcs] /\ pc'[t] = to
      /\ \A x \in Threads \ {t} : pc'[x] = pc[x] /\ req'[x] = req[x]
  BY <1>1 DEF TypeOK, Pcs
<1>6. TypeOK'
  <2>1. \A x \in Threads : RequestTyped(x)'
    BY <1>1, <1>2, <1>3, <1>5 DEF TypeOK, RequestTyped, l
  <2>. QED  BY <1>1, <1>4, <1>5, <2>1 DEF TypeOK, rows
<1>. QED  BY <1>1, <1>4, <1>5, <1>6 DEF Untouched, rows, l
-----------------------------------------------------------------------------
(* Commits *)

\* A commit that changes one league keeps the properties of leagues if it
\* keeps those of that league.
LEMMA OneLeagueChanges ==
  ASSUME MemberCap, OwnerIsMember, NEW l \in LeagueIds,
         \A k \in LeagueIds \ {l} : Members(k)' = Members(k) /\ owner'[k] = owner[k],
         Cardinality(Members(l)') <= MaxMembers,
         owner'[l] = NoUser => Members(l)' = {},
         owner'[l] # NoUser => owner'[l] \in Members(l)'
  PROVE  MemberCap' /\ OwnerIsMember'
<1>1. MemberCap'
  <2>. SUFFICES ASSUME NEW k \in LeagueIds
                PROVE  Cardinality(Members(k)') <= MaxMembers
    BY DEF MemberCap
  <2>. QED  BY DEF MemberCap
<1>2. OwnerIsMember'
  <2>. SUFFICES ASSUME NEW k \in LeagueIds
                PROVE  IF owner'[k] = NoUser THEN Members(k)' = {} ELSE owner'[k] \in Members(k)'
    BY DEF OwnerIsMember
  <2>. QED  BY DEF OwnerIsMember
<1>. QED  BY <1>1, <1>2

\* What the end of a request and a changed league l leave alone.
LEMMA CommitUntouched ==
  ASSUME TypeOK, NEW t \in Threads, EndRequest(t), NEW l \in LeagueIds,
         lock[l] = t \/ owner[l] = NoUser,
         \A k \in LeagueIds \ {l} : owner'[k] = owner[k] /\ member'[k] = member[k]
  PROVE  Untouched(t) /\ Checked(t)'
<1>1. /\ pc'[t] = "idle" /\ \A x \in Threads \ {t} : pc'[x] = pc[x] /\ req'[x] = req[x]
      /\ \A k \in LeagueIds : lock[k] \notin {t, NoThread} => lock'[k] = lock[k]
  BY EndRequestType
<1>2. Checked(t)'
  BY <1>1 DEF Checked, CommitPcs
<1>3. ASSUME NEW k \in LeagueIds, lock[k] \notin {t, NoThread}, owner[k] # NoUser
      PROVE  owner'[k] = owner[k] /\ member'[k] = member[k]
  <2>1. k # l
    BY <1>3
  <2>. QED  BY <2>1
<1>. QED  BY <1>1, <1>2, <1>3 DEF Untouched

\* The commit of create_league keeps the inductive invariant and opens one
\* league in the book.
LEMMA CreateCommitKeeps ==
  ASSUME IInv, NEW t \in Threads, CreateCommit(t)
  PROVE  /\ TypeOK' /\ Untouched(t) /\ Checked(t)' /\ Unopened' /\ MemberCap' /\ OwnerIsMember'
         /\ \E l \in LeagueIds, u \in Users :
              /\ l = nextLeague /\ nextLeague' = l + 1
              /\ owner' = [owner EXCEPT ![l] = u] /\ Members(l)' = {u}
              /\ \A k \in LeagueIds \ {l} : Members(k)' = Members(k)
<1>. PICK l, u : l = nextLeague /\ u = req[t].user
  OBVIOUS
<1>1. TypeOK /\ MemberCap /\ OwnerIsMember /\ Unopened
  BY DEF IInv
<1>2. pc[t] = "create" /\ l \in LeagueIds /\ owner' = [owner EXCEPT ![l] = u]
      /\ AddMember(l, u, req[t].at) /\ nextLeague' = l + 1
      /\ l = nextLeague /\ EndRequest(t)
  BY DEF CreateCommit
<1>3. u \in Users /\ req[t].at \in Nat
  BY <1>1, <1>2, RequestFields
<1>4. owner[l] = NoUser /\ Members(l) = {}
  BY <1>1, <1>2 DEF Unopened, OwnerIsMember, LeagueIds
<1>5. /\ Members(l)' = {u}
      /\ \A k \in LeagueIds \ {l} : Members(k)' = Members(k) /\ member'[k] = member[k]
  BY <1>1, <1>2, <1>3, <1>4, MembersAfterAdd
<1>6. owner' \in [LeagueIds -> Users \cup {NoUser}] /\ owner'[l] = u
      /\ \A k \in LeagueIds \ {l} : owner'[k] = owner[k]
  BY <1>1, <1>2, <1>3 DEF TypeOK
<1>7. TypeOK'
  <2>1. nextLeague' \in Nat \ {0}
    BY <1>1, <1>2 DEF TypeOK
  <2>. QED  BY <1>1, <1>2, <1>3, <1>6, <2>1, AddMemberType, EndRequestType DEF TypeOK
<1>8. Untouched(t) /\ Checked(t)'
  BY <1>1, <1>2, <1>4, <1>5, <1>6, CommitUntouched
<1>9. Unopened'
  <2>. SUFFICES ASSUME NEW k \in LeagueIds, k >= nextLeague'
                PROVE  owner'[k] = NoUser
    BY DEF Unopened
  <2>1. k >= nextLeague /\ k # nextLeague
    BY <1>1, <1>2 DEF TypeOK, LeagueIds
  <2>. QED  BY <1>1, <1>6, <2>1 DEF Unopened
<1>10. Cardinality(Members(l)') <= MaxMembers
  <2>1. Cardinality({u}) = 1
    BY FS_Singleton
  <2>. QED  BY <1>5, <2>1, CapAssumption
<1>11. u # NoUser
  BY <1>3, UserAssumption
<1>12. MemberCap' /\ OwnerIsMember'
  BY <1>1, <1>2, <1>5, <1>6, <1>10, <1>11, OneLeagueChanges
<1>. QED  BY <1>2, <1>3, <1>5, <1>7, <1>8, <1>9, <1>12

\* The commit of join_league keeps the inductive invariant and is a join of
\* the book.
LEMMA JoinCommitKeeps ==
  ASSUME IInv, NEW t \in Threads, JoinCommit(t)
  PROVE  /\ TypeOK' /\ Untouched(t) /\ Checked(t)' /\ Unopened' /\ MemberCap' /\ OwnerIsMember'
         /\ \E l \in LeagueIds, u \in Users :
              /\ owner[l] # NoUser /\ u \notin Members(l) /\ HasRoom(l) /\ UNCHANGED <<owner, nextLeague>>
              /\ Members(l)' = Members(l) \cup {u}
              /\ \A k \in LeagueIds \ {l} : Members(k)' = Members(k)
<1>. PICK l, u : l = req[t].league /\ u = req[t].user
  OBVIOUS
<1>1. TypeOK /\ MemberCap /\ OwnerIsMember /\ Unopened /\ Checked(t)
  BY DEF IInv
<1>2. pc[t] = "joinCommit" /\ AddMember(l, u, req[t].at) /\ EndRequest(t)
      /\ UNCHANGED <<owner, nextLeague>>
  BY DEF JoinCommit
<1>3. u \in Users /\ req[t].at \in Nat /\ l \in LeagueIds
  BY <1>1, <1>2, RequestFields DEF CommitPcs
<1>4. owner[l] # NoUser /\ lock[l] = t /\ u \notin Members(l) /\ HasRoom(l)
  BY <1>1, <1>2 DEF Checked, CommitPcs
<1>5. /\ Members(l)' = Members(l) \cup {u}
      /\ \A k \in LeagueIds \ {l} : Members(k)' = Members(k) /\ member'[k] = member[k]
  BY <1>1, <1>2, <1>3, MembersAfterAdd
<1>6. TypeOK'
  BY <1>1, <1>2, <1>3, AddMemberType, EndRequestType DEF TypeOK
<1>7. Untouched(t) /\ Checked(t)'
  BY <1>1, <1>2, <1>3, <1>4, <1>5, CommitUntouched
<1>8. Unopened'
  BY <1>1, <1>2 DEF Unopened
<1>9. Cardinality(Members(l)') <= MaxMembers
  <2>1. IsFiniteSet(Members(l)) /\ Cardinality(Members(l)) \in Nat
    BY <1>3, MembersFinite
  <2>2. Cardinality(Members(l) \cup {u}) = Cardinality(Members(l)) + 1
    BY <1>4, <2>1, FS_AddElement
  <2>. QED  BY <1>4, <1>5, <2>1, <2>2, CapAssumption DEF HasRoom
<1>10. owner[l] \in Members(l)'
  BY <1>1, <1>3, <1>4, <1>5 DEF OwnerIsMember
<1>11. MemberCap' /\ OwnerIsMember'
  BY <1>1, <1>2, <1>3, <1>4, <1>5, <1>9, <1>10, OneLeagueChanges
<1>. QED  BY <1>2, <1>3, <1>4, <1>5, <1>6, <1>7, <1>8, <1>11

\* Whoever owns the league after u has left is one of those who stay.
LEMMA OwnerWithoutStays ==
  ASSUME TypeOK, OwnerIsMember, NEW l \in LeagueIds, owner[l] # NoUser,
         NEW u \in Users, NEW next \in OwnerWithout(l, u)
  PROVE  /\ next \in Users \cup {NoUser}
         /\ IF Members(l) \ {u} = {} THEN next = NoUser
            ELSE next \in Members(l) \ {u} /\ (owner[l] # u => next = owner[l])
BY DEF OwnerWithout, Members, OwnerIsMember, TypeOK

\* The commit of leave_league keeps the inductive invariant and is a leave of
\* the book, with or without a hand-over.
LEMMA LeaveCommitKeeps ==
  ASSUME IInv, NEW t \in Threads, LeaveCommit(t)
  PROVE  /\ TypeOK' /\ Untouched(t) /\ Checked(t)' /\ Unopened' /\ MemberCap' /\ OwnerIsMember'
         /\ \E l \in LeagueIds, u \in Users : \E next \in OwnerWithout(l, u) :
              /\ owner[l] # NoUser /\ u \in Members(l)
              /\ owner' = [owner EXCEPT ![l] = next] /\ UNCHANGED nextLeague
              /\ Members(l)' = Members(l) \ {u}
              /\ \A k \in LeagueIds \ {l} : Members(k)' = Members(k)
<1>. PICK l, u : l = req[t].league /\ u = req[t].user
  OBVIOUS
<1>1. TypeOK /\ MemberCap /\ OwnerIsMember /\ Unopened /\ Checked(t)
  BY DEF IInv
<1>2. /\ pc[t] = "leaveCommit" /\ EndRequest(t) /\ UNCHANGED <<nextLeague, nextMember>>
      /\ member' = [member EXCEPT ![l][u] = 0] /\ joinedAt' = [joinedAt EXCEPT ![l][u] = 0]
  BY DEF LeaveCommit
<1>3. PICK next \in OwnerWithout(l, u) : owner' = [owner EXCEPT ![l] = next]
  BY DEF LeaveCommit
<1>4. u \in Users /\ l \in LeagueIds
  BY <1>1, <1>2, RequestFields DEF CommitPcs
<1>5. owner[l] # NoUser /\ lock[l] = t /\ u \in Members(l)
  BY <1>1, <1>2 DEF Checked, CommitPcs
<1>6. /\ Members(l)' = Members(l) \ {u}
      /\ \A k \in LeagueIds \ {l} : Members(k)' = Members(k) /\ member'[k] = member[k]
  BY <1>1, <1>2, <1>4, MembersAfterRemove
<1>7. /\ next \in Users \cup {NoUser}
      /\ IF Members(l) \ {u} = {} THEN next = NoUser
         ELSE next \in Members(l) \ {u} /\ (owner[l] # u => next = owner[l])
  BY <1>1, <1>4, <1>5, OwnerWithoutStays
<1>8. owner' \in [LeagueIds -> Users \cup {NoUser}] /\ owner'[l] = next
      /\ \A k \in LeagueIds \ {l} : owner'[k] = owner[k]
  BY <1>1, <1>3, <1>4, <1>7 DEF TypeOK
<1>9. TypeOK'
  <2>1. member' \in [LeagueIds -> [Users -> Nat]] /\ joinedAt' \in [LeagueIds -> [Users -> Nat]]
    BY <1>1, <1>2, <1>4 DEF TypeOK
  <2>. QED  BY <1>1, <1>2, <1>8, <2>1, EndRequestType DEF TypeOK
<1>10. Untouched(t) /\ Checked(t)'
  BY <1>1, <1>2, <1>4, <1>5, <1>6, <1>8, CommitUntouched
<1>11. Unopened'
  <2>1. ~(l >= nextLeague)
    BY <1>1, <1>4, <1>5 DEF Unopened
  <2>. QED  BY <1>1, <1>2, <1>8, <2>1 DEF Unopened
<1>12. Cardinality(Members(l)') <= MaxMembers
  <2>1. IsFiniteSet(Members(l)) /\ Cardinality(Members(l)) \in Nat
    BY <1>4, MembersFinite
  <2>2. Cardinality(Members(l)) <= MaxMembers
    BY <1>1, <1>4 DEF MemberCap
  <2>3. Cardinality(Members(l) \ {u}) = Cardinality(Members(l)) - 1
    BY <1>5, <2>1, FS_RemoveElement
  <2>. QED  BY <1>6, <2>1, <2>2, <2>3, CapAssumption
<1>13. /\ owner'[l] = NoUser => Members(l)' = {}
       /\ owner'[l] # NoUser => owner'[l] \in Members(l)'
  <2>1. NoUser \notin Members(l)
    BY UserAssumption DEF Members
  <2>. QED  BY <1>6, <1>7, <1>8, <2>1
<1>14. MemberCap' /\ OwnerIsMember'
  BY <1>1, <1>4, <1>6, <1>8, <1>12, <1>13, OneLeagueChanges
<1>. QED  BY <1>2, <1>3, <1>4, <1>5, <1>6, <1>9, <1>10, <1>11, <1>14

\* The commit of delete_league keeps the inductive invariant and closes a
\* league in the book.
LEMMA DeleteCommitKeeps ==
  ASSUME IInv, NEW t \in Threads, DeleteCommit(t)
  PROVE  /\ TypeOK' /\ Untouched(t) /\ Checked(t)' /\ Unopened' /\ MemberCap' /\ OwnerIsMember'
         /\ \E l \in LeagueIds, u \in Users :
              /\ owner[l] = u /\ Members(l) = {u}
              /\ owner' = [owner EXCEPT ![l] = NoUser] /\ UNCHANGED nextLeague
              /\ Members(l)' = {}
              /\ \A k \in LeagueIds \ {l} : Members(k)' = Members(k)
<1>. PICK l, u : l = req[t].league /\ u = req[t].user
  OBVIOUS
<1>1. TypeOK /\ MemberCap /\ OwnerIsMember /\ Unopened /\ Checked(t)
  BY DEF IInv
<1>2. /\ pc[t] = "deleteCommit" /\ EndRequest(t) /\ UNCHANGED <<nextLeague, nextMember>>
      /\ owner' = [owner EXCEPT ![l] = NoUser]
      /\ member' = [member EXCEPT ![l] = [v \in Users |-> 0]]
      /\ joinedAt' = [joinedAt EXCEPT ![l] = [v \in Users |-> 0]]
  BY DEF DeleteCommit
<1>3. l \in LeagueIds /\ u \in Users
  BY <1>1, <1>2, RequestFields DEF CommitPcs
<1>4. owner[l] = u /\ lock[l] = t /\ Cardinality(Members(l)) <= 1
  BY <1>1, <1>2 DEF Checked, CommitPcs
<1>5. Members(l) = {u}
  <2>1. IsFiniteSet(Members(l)) /\ Cardinality(Members(l)) \in Nat
    BY <1>3, MembersFinite
  <2>2. u \in Members(l)
    BY <1>1, <1>3, <1>4, UserAssumption DEF OwnerIsMember
  <2>3. Cardinality(Members(l)) # 0
    BY <2>1, <2>2, FS_EmptySet
  <2>4. Cardinality(Members(l)) = 1
    BY <1>4, <2>1, <2>3
  <2>5. PICK x : Members(l) = {x}
    BY <2>1, <2>4, FS_Singleton
  <2>. QED  BY <2>2, <2>5
<1>6. /\ Members(l)' = {}
      /\ \A k \in LeagueIds \ {l} : Members(k)' = Members(k) /\ member'[k] = member[k]
  BY <1>1, <1>2, <1>3, MembersAfterCascade
<1>7. owner' \in [LeagueIds -> Users \cup {NoUser}] /\ owner'[l] = NoUser
      /\ \A k \in LeagueIds \ {l} : owner'[k] = owner[k]
  BY <1>1, <1>2, <1>3 DEF TypeOK
<1>8. TypeOK'
  <2>1. member' \in [LeagueIds -> [Users -> Nat]] /\ joinedAt' \in [LeagueIds -> [Users -> Nat]]
    BY <1>1, <1>2, <1>3 DEF TypeOK
  <2>. QED  BY <1>1, <1>2, <1>7, <2>1, EndRequestType DEF TypeOK
<1>9. Untouched(t) /\ Checked(t)'
  BY <1>1, <1>2, <1>3, <1>4, <1>6, <1>7, CommitUntouched
<1>10. Unopened'
  <2>. SUFFICES ASSUME NEW k \in LeagueIds, k >= nextLeague
                PROVE  owner'[k] = NoUser
    BY <1>2 DEF Unopened
  <2>. QED  BY <1>1, <1>7 DEF Unopened
<1>11. Cardinality(Members(l)') <= MaxMembers
  BY <1>6, FS_EmptySet, CapAssumption
<1>12. MemberCap' /\ OwnerIsMember'
  BY <1>1, <1>3, <1>6, <1>7, <1>11, OneLeagueChanges
<1>. QED  BY <1>2, <1>3, <1>4, <1>5, <1>6, <1>8, <1>9, <1>10, <1>12

-----------------------------------------------------------------------------
(* Locks *)

\* Whichever request takes the row, it writes nothing, and what it found holds
\* when it has the lock.
LEMMA LockStepKeeps ==
  ASSUME TypeOK, NEW t \in Threads, JoinLock(t) \/ LeaveLock(t) \/ DeleteLock(t)
  PROVE  TypeOK' /\ Untouched(t) /\ Checked(t)' /\ UNCHANGED rows
<1>1. CASE Abort(t)
  BY <1>1, AbortKeeps
<1>. DEFINE l == req[t].league
<1>2. CASE ~Abort(t) /\ JoinLock(t)
  <2>. DEFINE refused == req[t].user \in Members(l) \/ ~HasRoom(l)
  <2>1. refused \in BOOLEAN /\ LockLeague(t, "join", refused, "joinCommit")
    BY <1>2 DEF JoinLock
  <2>2. ~refused
    BY <1>2, <2>1, LockKeeps DEF LockPcs, CommitPcs
  <2>. HIDE DEF refused
  <2>3. /\ TypeOK' /\ Untouched(t) /\ UNCHANGED <<rows, req>>
        /\ pc'[t] = "joinCommit" /\ owner[l] # NoUser /\ lock'[l] = t
    BY <1>2, <2>1, LockKeeps DEF LockPcs, CommitPcs
  <2>. QED  BY <2>2, <2>3 DEF Checked, CommitPcs, rows, Members, HasRoom, refused
<1>3. CASE ~Abort(t) /\ LeaveLock(t)
  <2>. DEFINE refused == req[t].user \notin Members(l)
  <2>1. refused \in BOOLEAN /\ LockLeague(t, "leave", refused, "leaveCommit")
    BY <1>3 DEF LeaveLock
  <2>2. ~refused
    BY <1>3, <2>1, LockKeeps DEF LockPcs, CommitPcs
  <2>. HIDE DEF refused
  <2>3. /\ TypeOK' /\ Untouched(t) /\ UNCHANGED <<rows, req>>
        /\ pc'[t] = "leaveCommit" /\ owner[l] # NoUser /\ lock'[l] = t
    BY <1>3, <2>1, LockKeeps DEF LockPcs, CommitPcs
  <2>. QED  BY <2>2, <2>3 DEF Checked, CommitPcs, rows, Members, refused
<1>4. CASE ~Abort(t) /\ DeleteLock(t)
  <2>. DEFINE refused == owner[l] # req[t].user \/ Cardinality(Members(l)) > 1
  <2>1. refused \in BOOLEAN /\ LockLeague(t, "delete", refused, "deleteCommit")
    BY <1>4 DEF DeleteLock
  <2>2. ~refused
    BY <1>4, <2>1, LockKeeps DEF LockPcs, CommitPcs
  <2>. HIDE DEF refused
  <2>3. /\ TypeOK' /\ Untouched(t) /\ UNCHANGED <<rows, req>>
        /\ pc'[t] = "deleteCommit" /\ owner[l] # NoUser /\ lock'[l] = t
    BY <1>4, <2>1, LockKeeps DEF LockPcs, CommitPcs
  <2>4. l \in LeagueIds
    BY <1>4, RequestFields DEF DeleteLock, LockLeague, LockPcs
  <2>5. Cardinality(Members(l)) <= 1
    BY <2>2, <2>4, MembersFinite DEF refused
  <2>. QED  BY <2>2, <2>3, <2>5 DEF Checked, CommitPcs, rows, Members, refused
<1>. QED  BY <1>1, <1>2, <1>3, <1>4

-----------------------------------------------------------------------------
(* Every step *)

\* A step either leaves the tables alone or is one operation of the book.
LEMMA RowsKept ==
  ASSUME Unopened, MemberCap, OwnerIsMember, UNCHANGED rows
  PROVE  Unopened' /\ MemberCap' /\ OwnerIsMember' /\ UNCHANGED Book!bookVars
BY DEF rows, Unopened, MemberCap, OwnerIsMember, Members, Book!bookVars

\* A step that changes the members of one league only is, seen from the book,
\* an update of that entry.
LEMMA BookKept ==
  ASSUME NEW l \in LeagueIds, \A k \in LeagueIds \ {l} : Members(k)' = Members(k),
         NEW S, Members(l)' = S
  PROVE  [k \in LeagueIds |-> Members(k)]' = [[k \in LeagueIds |-> Members(k)] EXCEPT ![l] = S]
OBVIOUS

\* Every step of a thread keeps the inductive invariant and is a step or a
\* stutter of the book.
LEMMA StepKeeps ==
  ASSUME IInv, NEW t \in Threads, Arrive(t) \/ Advance(t) \/ Fail(t)
  PROVE  /\ TypeOK' /\ Untouched(t) /\ Checked(t)' /\ Unopened' /\ MemberCap' /\ OwnerIsMember'
         /\ [Book!Next]_Book!bookVars
<1>1. TypeOK /\ Unopened /\ MemberCap /\ OwnerIsMember
  BY DEF IInv
<1>2. CASE Arrive(t)
  BY <1>1, <1>2, ArriveKeeps, RowsKept
<1>3. CASE Fail(t)
  BY <1>1, <1>3, AbortKeeps, RowsKept DEF Fail
<1>4. CASE JoinLock(t) \/ LeaveLock(t) \/ DeleteLock(t)
  BY <1>1, <1>4, LockStepKeeps, RowsKept
<1>5. CASE CreateCommit(t)
  <2>1. PICK l \in LeagueIds, u \in Users :
          /\ l = nextLeague /\ nextLeague' = l + 1
          /\ owner' = [owner EXCEPT ![l] = u] /\ Members(l)' = {u}
          /\ \A k \in LeagueIds \ {l} : Members(k)' = Members(k)
    BY <1>5, CreateCommitKeeps
  <2>2. nextLeague \in Nat \ {0}
    BY <1>1 DEF TypeOK
  <2>3. /\ l \notin 1 .. (nextLeague - 1)
        /\ 1 .. (nextLeague' - 1) = (1 .. (nextLeague - 1)) \cup {l}
    BY <2>1, <2>2
  <2>4. Book!Open(l, u)
    BY <2>1, <2>3, BookKept DEF Book!Open
  <2>5. Book!Next
    BY <2>1, <2>4 DEF Book!Next
  <2>. QED  BY <1>5, <2>5, CreateCommitKeeps
<1>6. CASE JoinCommit(t)
  <2>1. PICK l \in LeagueIds, u \in Users :
          /\ owner[l] # NoUser /\ u \notin Members(l) /\ HasRoom(l) /\ UNCHANGED <<owner, nextLeague>>
          /\ Members(l)' = Members(l) \cup {u}
          /\ \A k \in LeagueIds \ {l} : Members(k)' = Members(k)
    BY <1>6, JoinCommitKeeps
  <2>2. Book!Join(l, u)
    <3>1. [k \in LeagueIds |-> Members(k)][l] = Members(l)
      OBVIOUS
    <3>2. [k \in LeagueIds |-> Members(k)]'
            = [[k \in LeagueIds |-> Members(k)] EXCEPT ![l] = @ \cup {u}]
      BY <2>1, <3>1, BookKept
    <3>3. /\ owner[l] # NoUser /\ u \notin [k \in LeagueIds |-> Members(k)][l]
          /\ Cardinality([k \in LeagueIds |-> Members(k)][l]) < MaxMembers
      BY <2>1, <3>1 DEF HasRoom
    <3>4. UNCHANGED owner /\ UNCHANGED (1 .. (nextLeague - 1))
      BY <2>1
    <3>5. Book!Cardinality([k \in LeagueIds |-> Members(k)][l]) < MaxMembers
      BY <3>3, Zenon DEF Book!Cardinality, Cardinality
    <3>. QED  BY <3>2, <3>3, <3>4, <3>5 DEF Book!Join
  <2>3. Book!Next
    BY <2>1, <2>2 DEF Book!Next
  <2>. QED  BY <1>6, <2>3, JoinCommitKeeps
<1>7. CASE LeaveCommit(t)
  <2>1. PICK l \in LeagueIds, u \in Users : \E next \in OwnerWithout(l, u) :
          /\ owner[l] # NoUser /\ u \in Members(l)
          /\ owner' = [owner EXCEPT ![l] = next] /\ UNCHANGED nextLeague
          /\ Members(l)' = Members(l) \ {u}
          /\ \A k \in LeagueIds \ {l} : Members(k)' = Members(k)
    BY <1>7, LeaveCommitKeeps
  <2>2. PICK next \in OwnerWithout(l, u) : owner' = [owner EXCEPT ![l] = next]
    BY <2>1
  <2>3. IF Members(l) \ {u} = {} THEN next = NoUser
        ELSE next \in Members(l) \ {u} /\ (owner[l] # u => next = owner[l])
    BY <1>1, <2>1, <2>2, OwnerWithoutStays
  <2>4. ASSUME Members(l) \ {u} = {} PROVE Book!Next
    <3>1. Members(l) = {u} /\ owner[l] = u
      BY <1>1, <2>1, <2>4 DEF OwnerIsMember
    <3>2. Book!Close(l, u)
      BY <2>1, <2>2, <2>3, <2>4, <3>1, BookKept DEF Book!Close
    <3>. QED  BY <2>1, <3>2 DEF Book!Next
  <2>5. ASSUME Members(l) \ {u} # {} PROVE Book!Next
    <3>1. Book!Leave(l, u)
      BY <2>1, <2>2, <2>3, <2>5, BookKept DEF Book!Leave
    <3>. QED  BY <2>1, <3>1 DEF Book!Next
  <2>. QED  BY <1>7, <2>4, <2>5, LeaveCommitKeeps
<1>8. CASE DeleteCommit(t)
  <2>1. PICK l \in LeagueIds, u \in Users :
          /\ owner[l] = u /\ Members(l) = {u}
          /\ owner' = [owner EXCEPT ![l] = NoUser] /\ UNCHANGED nextLeague
          /\ Members(l)' = {}
          /\ \A k \in LeagueIds \ {l} : Members(k)' = Members(k)
    BY <1>8, DeleteCommitKeeps
  <2>2. Book!Close(l, u)
    BY <2>1, BookKept DEF Book!Close
  <2>3. Book!Next
    BY <2>1, <2>2 DEF Book!Next
  <2>. QED  BY <1>8, <2>3, DeleteCommitKeeps
<1>. QED  BY <1>2, <1>3, <1>4, <1>5, <1>6, <1>7, <1>8 DEF Advance

\* What another thread has locked stays as it found it.
LEMMA OthersKeep ==
  ASSUME IInv, NEW t \in Threads, Untouched(t), NEW x \in Threads \ {t}
  PROVE  Checked(x)'
<1>1. Checked(x) /\ TypeOK
  BY DEF IInv
<1>2. pc'[x] = pc[x] /\ req'[x] = req[x]
  BY DEF Untouched
<1>3. CASE pc[x] \notin CommitPcs
  BY <1>2, <1>3 DEF Checked, CommitPcs
<1>4. CASE pc[x] \in CommitPcs
  <2>1. PICK l : l = req[x].league
    OBVIOUS
  <2>2. l \in LeagueIds /\ owner[l] # NoUser /\ lock[l] = x
    BY <1>1, <1>4, <2>1, RequestFields DEF Checked, CommitPcs
  <2>3. lock[l] \notin {t, NoThread}
    BY <2>2, ThreadAssumption
  <2>4. lock'[l] = x /\ owner'[l] = owner[l] /\ member'[l] = member[l]
    BY <2>2, <2>3 DEF Untouched
  <2>5. Members(l)' = Members(l) /\ HasRoom(l)' = HasRoom(l)
    BY <2>4 DEF Members, HasRoom
  <2>. QED  BY <1>1, <1>2, <2>1, <2>2, <2>4, <2>5 DEF Checked, Members, HasRoom
<1>. QED  BY <1>3, <1>4

\* The inductive invariant, and the book's initial condition, hold at the start.
LEMMA InitInv == Init => IInv /\ Book!Init
<1>. SUFFICES ASSUME Init PROVE IInv /\ Book!Init
  OBVIOUS
<1>1. TypeOK
  BY BoundAssumption DEF Init, TypeOK, RequestTyped, Pcs, CommitPcs, LockPcs
<1>2. \A l \in LeagueIds : Members(l) = {} /\ owner[l] = NoUser
  BY DEF Init, Members
<1>3. MemberCap
  BY <1>2, FS_EmptySet, CapAssumption DEF MemberCap
<1>4. Unopened /\ OwnerIsMember
  BY <1>2 DEF Unopened, OwnerIsMember
<1>5. \A t \in Threads : Checked(t)
  BY DEF Init, Checked, CommitPcs
<1>6. Book!Init
  BY <1>2 DEF Init, Book!Init
<1>. QED  BY <1>1, <1>3, <1>4, <1>5, <1>6 DEF IInv

\* Every step keeps the inductive invariant and implements the book.
LEMMA NextInv == IInv /\ [Next]_vars => IInv' /\ [Book!Next]_Book!bookVars
<1>. SUFFICES ASSUME IInv, [Next]_vars PROVE IInv' /\ [Book!Next]_Book!bookVars
  OBVIOUS
<1>1. CASE UNCHANGED vars
  <2>1. UNCHANGED rows /\ UNCHANGED <<clock, lock, pc, req, served>>
    BY <1>1 DEF vars
  <2>2. Unopened' /\ MemberCap' /\ OwnerIsMember' /\ UNCHANGED Book!bookVars
    BY <2>1, RowsKept DEF IInv
  <2>3. TypeOK'
    BY <2>1 DEF IInv, TypeOK, RequestTyped, rows
  <2>4. \A t \in Threads : Checked(t)'
    BY <2>1 DEF IInv, Checked, rows, Members, HasRoom
  <2>. QED  BY <2>2, <2>3, <2>4 DEF IInv
<1>2. CASE Next
  <2>1. PICK t \in Threads : Arrive(t) \/ Advance(t) \/ Fail(t)
    BY <1>2 DEF Next
  <2>2. \A x \in Threads : Checked(x)'
    BY <2>1, StepKeeps, OthersKeep
  <2>. QED  BY <2>1, <2>2, StepKeeps DEF IInv
<1>. QED  BY <1>1, <1>2

-----------------------------------------------------------------------------
(* Theorems *)

\* The inductive invariant: what a request found under the row's lock is still
\* so when it writes.
THEOREM Invariance == Spec => []IInv
<1>1. Init => IInv
  BY InitInv
<1>2. IInv /\ [Next]_vars => IInv'
  BY NextInv
<1>. QED  BY <1>1, <1>2, PTL DEF Spec

\* Every row, lock and register keeps its type.
THEOREM TypeCorrect == Spec => []TypeOK
<1>1. IInv => TypeOK
  BY DEF IInv
<1>. QED  BY <1>1, Invariance, PTL

\* However many join at once, no league outgrows its cap.
THEOREM CapHolds == Spec => []MemberCap
<1>1. IInv => MemberCap
  BY DEF IInv
<1>. QED  BY <1>1, Invariance, PTL

\* However requests interleave, a league's owner is one of its members and a
\* closed league has none.
THEOREM Owned == Spec => []OwnerIsMember
<1>1. IInv => OwnerIsMember
  BY DEF IInv
<1>. QED  BY <1>1, Invariance, PTL

\* The service with its locks implements the one-step league book.
THEOREM Refinement == Spec => BookSpec
<1>1. Init => Book!Init
  BY InitInv
<1>2. IInv /\ [Next]_vars => [Book!Next]_Book!bookVars
  BY NextInv
<1>. QED  BY <1>1, <1>2, Invariance, PTL DEF Spec, BookSpec, Book!Spec

-----------------------------------------------------------------------------
(* The cap on a user's leagues *)

\* The threads that have counted u's leagues and may yet add one.
Adding(u) == {t \in Threads : pc[t] \in {"create", "join", "joinCommit"} /\ req[t].user = u}

\* Who counted below the cap left room for all threads together.
RoomForAll == \A u \in Users :
  Cardinality(LeaguesOf(u)) + Cardinality(Adding(u)) < MaxPerUser + Cardinality(Threads)

LEMMA LeaguesFinite ==
  ASSUME NEW u \in Users
  PROVE  /\ IsFiniteSet(LeaguesOf(u)) /\ Cardinality(LeaguesOf(u)) \in Nat
         /\ IsFiniteSet(Adding(u)) /\ Cardinality(Adding(u)) \in Nat
         /\ Cardinality(Adding(u)) <= Cardinality(Threads) /\ Cardinality(Threads) \in Nat
<1>1. LeaguesOf(u) \subseteq LeagueIds /\ IsFiniteSet(LeagueIds)
  BY BoundAssumption, FS_Interval DEF LeaguesOf, LeagueIds
<1>2. Adding(u) \subseteq Threads
  BY DEF Adding
<1>3. IsFiniteSet(LeaguesOf(u)) /\ IsFiniteSet(Adding(u)) /\ Cardinality(Adding(u)) <= Cardinality(Threads)
  BY <1>1, <1>2, ThreadAssumption, FS_Subset
<1> QED BY <1>3, ThreadAssumption, FS_CardinalityType

\* What a request that ends, and the start and the lock of one, do to Adding.
LEMMA AddingAfterEnd ==
  ASSUME TypeOK, NEW t \in Threads, EndRequest(t), NEW u \in Users
  PROVE  Adding(u)' \subseteq Adding(u) \ {t}
BY DEF EndRequest, Adding, TypeOK

LEMMA AddingAfterBegin ==
  ASSUME TypeOK, NEW t \in Threads, NEW p, NEW v \in Users, NEW l, NEW at,
         Begin(t, p, v, l, at), NEW u \in Users, p \notin {"create", "join"} \/ v # u, p # "joinCommit"
  PROVE  Adding(u)' \subseteq Adding(u)
BY DEF Begin, Adding, TypeOK

LEMMA AddingAfterLock ==
  ASSUME TypeOK, NEW t \in Threads, NEW from, NEW refused, NEW to,
         LockLeague(t, from, refused, to), to \in CommitPcs, to = "joinCommit" => from = "join",
         NEW u \in Users
  PROVE  member' = member /\ Adding(u)' \subseteq Adding(u)
<1>1. CASE Abort(t)
  BY <1>1, AddingAfterEnd DEF Abort, rows
<1>2. CASE pc[t] = from /\ pc' = [pc EXCEPT ![t] = to] /\ UNCHANGED <<rows, clock, req, served>>
  <2>1. pc'[t] = to /\ \A x \in Threads \ {t} : pc'[x] = pc[x]
    BY <1>2 DEF TypeOK
  <2> QED BY <1>2, <2>1 DEF Adding, CommitPcs, rows
<1> QED BY <1>1, <1>2 DEF LockLeague

\* A step leaves u no more leagues and no more requests that may add one; or it
\* counts u's leagues and finds them below the cap; or such a request adds one.
LEMMA OneAtATime ==
  ASSUME TypeOK, NEW t \in Threads, Arrive(t) \/ Advance(t) \/ Fail(t), NEW u \in Users
  PROVE  \/ LeaguesOf(u)' \subseteq LeaguesOf(u) /\ Adding(u)' \subseteq Adding(u)
         \/ LeaguesOf(u)' = LeaguesOf(u) /\ Cardinality(LeaguesOf(u)) < MaxPerUser
         \/ t \in Adding(u) /\ Adding(u)' \subseteq Adding(u) \ {t}
            /\ \E l \in LeagueIds : LeaguesOf(u)' \subseteq LeaguesOf(u) \cup {l}
<1>1. member' = member => LeaguesOf(u)' = LeaguesOf(u)
  BY DEF LeaguesOf
<1>2. CASE CreateBegin(t) \/ JoinBegin(t)
  <2>0. PICK p \in {"create", "join"}, v \in Users : UnderCap(v) /\ \E l, at : Begin(t, p, v, l, at)
    BY <1>2 DEF CreateBegin, JoinBegin
  <2>1. PICK l, at : UnderCap(v) /\ Begin(t, p, v, l, at)
    BY <2>0
  <2>2. member' = member
    BY <2>1 DEF Begin, rows
  <2>3. CASE v = u
    BY <1>1, <2>1, <2>2, <2>3 DEF UnderCap
  <2>4. CASE v # u
    BY <1>1, <2>1, <2>2, <2>4, AddingAfterBegin
  <2> QED BY <2>3, <2>4
<1>3. CASE LeaveBegin(t) \/ DeleteBegin(t)
  <2>0. PICK p \in {"leave", "delete"}, v \in Users : \E l, at : Begin(t, p, v, l, at)
    BY <1>3 DEF LeaveBegin, DeleteBegin
  <2>1. PICK l, at : Begin(t, p, v, l, at)
    BY <2>0
  <2>2. member' = member
    BY <2>1 DEF Begin, rows
  <2> QED BY <1>1, <2>1, <2>2, AddingAfterBegin
<1>4. CASE JoinLock(t) \/ LeaveLock(t) \/ DeleteLock(t)
  BY <1>1, <1>4, AddingAfterLock DEF JoinLock, LeaveLock, DeleteLock, CommitPcs
<1>5. CASE Fail(t)
  BY <1>1, <1>5, AddingAfterEnd DEF Fail, Abort, rows
<1>6. CASE CreateCommit(t) \/ JoinCommit(t)
  <2>1. PICK l \in LeagueIds : AddMember(l, req[t].user, req[t].at)
    BY <1>6 DEF CreateCommit, JoinCommit, TypeOK, RequestTyped, CommitPcs
  <2>2. EndRequest(t) /\ pc[t] \in {"create", "joinCommit"}
    BY <1>6 DEF CreateCommit, JoinCommit
  <2>3. Adding(u)' \subseteq Adding(u) \ {t}
    BY <2>2, AddingAfterEnd
  <2>4. member' = [member EXCEPT ![l][req[t].user] = nextMember]
        /\ member \in [LeagueIds -> [Users -> Nat]]
    BY <2>1 DEF AddMember, TypeOK
  <2>5. CASE req[t].user = u
    <3>1. t \in Adding(u)
      BY <2>2, <2>5 DEF Adding
    <3>2. LeaguesOf(u)' \subseteq LeaguesOf(u) \cup {l}
      BY <2>4 DEF LeaguesOf
    <3> QED BY <2>3, <3>1, <3>2
  <2>6. CASE req[t].user # u
    <3>1. LeaguesOf(u)' \subseteq LeaguesOf(u)
      BY <2>4, <2>6 DEF LeaguesOf
    <3> QED BY <2>3, <3>1
  <2> QED BY <2>5, <2>6
<1>7. CASE LeaveCommit(t) \/ DeleteCommit(t)
  <2>1. EndRequest(t)
    BY <1>7 DEF LeaveCommit, DeleteCommit
  <2>2. LeaguesOf(u)' \subseteq LeaguesOf(u)
    <3>1. member \in [LeagueIds -> [Users -> Nat]]
      BY DEF TypeOK
    <3>2. \/ member' = [member EXCEPT ![req[t].league][req[t].user] = 0]
          \/ member' = [member EXCEPT ![req[t].league] = [v \in Users |-> 0]]
      BY <1>7 DEF LeaveCommit, DeleteCommit
    <3>3. \A l \in LeagueIds : member'[l][u] \in {member[l][u], 0}
      BY <3>1, <3>2
    <3> QED BY <3>3 DEF LeaguesOf
  <2> QED BY <2>1, <2>2, AddingAfterEnd
<1> QED BY <1>2, <1>3, <1>4, <1>5, <1>6, <1>7 DEF Arrive, Advance

LEMMA RoomForAllKept ==
  ASSUME TypeOK, RoomForAll, NEW t \in Threads, Arrive(t) \/ Advance(t) \/ Fail(t)
  PROVE  RoomForAll'
<1> SUFFICES ASSUME NEW u \in Users
             PROVE  Cardinality(LeaguesOf(u)') + Cardinality(Adding(u)')
                      < MaxPerUser + Cardinality(Threads)
  BY DEF RoomForAll
<1> DEFINE L == LeaguesOf(u)
           A == Adding(u)
<1>1. IsFiniteSet(L) /\ Cardinality(L) \in Nat /\ IsFiniteSet(A) /\ Cardinality(A) \in Nat
      /\ Cardinality(Threads) \in Nat /\ MaxPerUser \in Nat
  BY LeaguesFinite, CapAssumption
<1>2. Cardinality(L) + Cardinality(A) < MaxPerUser + Cardinality(Threads)
  BY DEF RoomForAll
<1>3. A' \subseteq Threads /\ IsFiniteSet(A') /\ Cardinality(A') \in Nat
      /\ Cardinality(A') <= Cardinality(Threads)
  <2>1. Adding(u)' \subseteq Threads
    BY DEF Adding
  <2> QED BY <2>1, ThreadAssumption, FS_Subset, FS_CardinalityType
<1>4. \/ L' \subseteq L /\ A' \subseteq A
      \/ L' = L /\ Cardinality(L) < MaxPerUser
      \/ t \in A /\ A' \subseteq A \ {t} /\ \E l \in LeagueIds : L' \subseteq L \cup {l}
  BY OneAtATime
<1>5. ASSUME NEW M, NEW B, M = L', B = A' PROVE Cardinality(M) + Cardinality(B) < MaxPerUser + Cardinality(Threads)
  <2>1. \/ M \subseteq L /\ B \subseteq A
        \/ M = L /\ Cardinality(L) < MaxPerUser
        \/ t \in A /\ B \subseteq A \ {t} /\ \E l \in LeagueIds : M \subseteq L \cup {l}
    BY <1>4, <1>5
  <2>2. Cardinality(B) \in Nat /\ Cardinality(B) <= Cardinality(Threads)
    BY <1>3, <1>5
  <2> HIDE DEF L, A
  <2>3. CASE M \subseteq L /\ B \subseteq A
    <3>1. Cardinality(M) \in Nat /\ Cardinality(M) <= Cardinality(L) /\ Cardinality(B) <= Cardinality(A)
      BY <1>1, <2>3, FS_Subset, FS_CardinalityType
    <3> QED BY <1>1, <1>2, <2>2, <3>1
  <2>4. CASE M = L /\ Cardinality(L) < MaxPerUser
    BY <1>1, <2>2, <2>4
  <2>5. CASE t \in A /\ B \subseteq A \ {t} /\ \E l \in LeagueIds : M \subseteq L \cup {l}
    <3>1. PICK l \in LeagueIds : M \subseteq L \cup {l}
      BY <2>5
    <3>2. IsFiniteSet(L \cup {l}) /\ Cardinality(L \cup {l}) <= Cardinality(L) + 1
      <4>1. IsFiniteSet(L \cup {l}) /\ Cardinality(L \cup {l})
              = IF l \in L THEN Cardinality(L) ELSE Cardinality(L) + 1
        BY <1>1, FS_AddElement, Zenon
      <4> QED BY <1>1, <4>1
    <3>3. IsFiniteSet(A \ {t}) /\ Cardinality(A \ {t}) = Cardinality(A) - 1
      BY <1>1, <2>5, FS_RemoveElement
    <3>4. Cardinality(M) \in Nat /\ Cardinality(M) <= Cardinality(L \cup {l})
      BY <3>1, <3>2, FS_Subset, FS_CardinalityType
    <3>5. Cardinality(B) <= Cardinality(A \ {t})
      BY <2>5, <3>3, FS_Subset
    <3>6. Cardinality(L \cup {l}) \in Nat
      BY <3>2, FS_CardinalityType
    <3> QED BY <1>1, <1>2, <2>2, <3>2, <3>3, <3>4, <3>5, <3>6
  <2> QED BY <2>1, <2>3, <2>4, <2>5
<1> QED BY <1>5

\* A user is over _assert_under_league_cap's limit by fewer leagues than there are
\* threads: each thread adds one league at most after it has counted them.
THEOREM OverCapIsBounded == Spec => []OverCapBounded
<1>1. Init => RoomForAll
  <2> SUFFICES ASSUME Init, NEW u \in Users
               PROVE  Cardinality(LeaguesOf(u)) + Cardinality(Adding(u)) < MaxPerUser + Cardinality(Threads)
    BY DEF RoomForAll
  <2>1. LeaguesOf(u) = {} /\ Adding(u) = {}
    BY DEF Init, LeaguesOf, Adding
  <2>2. Cardinality({}) = 0
    BY FS_EmptySet
  <2>3. Cardinality(Threads) \in Nat /\ MaxPerUser \in Nat \ {0}
    BY LeaguesFinite, CapAssumption
  <2> QED BY <2>1, <2>2, <2>3
<1>2. TypeOK /\ RoomForAll /\ [Next]_vars => RoomForAll'
  <2> SUFFICES ASSUME TypeOK, RoomForAll, [Next]_vars PROVE RoomForAll'
    OBVIOUS
  <2>1. CASE Next
    BY <2>1, RoomForAllKept DEF Next
  <2>2. CASE UNCHANGED vars
    BY <2>2 DEF vars, rows, RoomForAll, LeaguesOf, Adding
  <2> QED BY <2>1, <2>2
<1>3. RoomForAll => OverCapBounded
  <2> SUFFICES ASSUME RoomForAll, NEW u \in Users
               PROVE  Cardinality(LeaguesOf(u)) < MaxPerUser + Cardinality(Threads)
    BY DEF OverCapBounded
  <2>1. Cardinality(LeaguesOf(u)) + Cardinality(Adding(u)) < MaxPerUser + Cardinality(Threads)
    BY DEF RoomForAll
  <2> QED BY <2>1, LeaguesFinite, CapAssumption
<1> QED BY <1>1, <1>2, <1>3, TypeCorrect, PTL DEF Spec
=============================================================================
