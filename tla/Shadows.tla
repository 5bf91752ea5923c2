------------------------------- MODULE Shadows -------------------------------
(***************************************************************************)
(* Shadow links (shadow_service.py).  A subject invites a user to shadow   *)
(* him; the user accepts or declines; either side ends the link; after     *)
(* each trade of the subject his shadows are notified.                     *)
(*                                                                         *)
(* accept locks the link's row and re-reads it; every other request reads  *)
(* the link without a lock and decides on what it read.  Its UPDATE waits  *)
(* for the row's lock and writes the status it decided on, unless that is  *)
(* the one it read: an attribute set to its own value is not written.      *)
(*                                                                         *)
(* A link's id and its pair of users determine each other (a unique        *)
(* constraint), so links are named by their pairs here.                    *)
(***************************************************************************)
EXTENDS Naturals, FiniteSets

CONSTANTS
  Users, Threads,
  MaxShadows,     \* MAX_SHADOWS_PER_SUBJECT
  MaxFollowing,   \* MAX_FOLLOWING_PER_SHADOW
  MaxRequests,    \* requests served (bound)
  NoThread, NoRequest

ASSUME CapAssumption == MaxShadows \in Nat \ {0} /\ MaxFollowing \in Nat \ {0}
ASSUME BoundAssumption == MaxRequests \in Nat
ASSUME ThreadAssumption == NoThread \notin Threads /\ IsFiniteSet(Threads)

VARIABLES
  status,     \* shadow_links: the status of each pair's row, "NONE" without one
  notified,   \* notifications: the facts users have been told
  lock,       \* the transaction that holds each row
  pc, req,    \* each thread: where it is, its request and what it has read
  served      \* requests started

vars == <<status, notified, lock, pc, req, served>>

Links == {p \in Users \X Users : p[1] # p[2]}
Subject(p) == p[1]
Shadow(p) == p[2]

Status == {"PENDING", "ACCEPTED", "DECLINED", "REVOKED"}

Kinds == {"SHADOW_INVITE", "SHADOW_ACCEPTED", "SHADOW_TRADE"}
Notice(kind, to, about) == [kind |-> kind, to |-> to, about |-> about]

Request == [user : Users, link : Links, seen : Status \cup {"NONE"}, to : SUBSET Users]

ASSUME RequestAssumption == NoRequest \notin Request

Accepted == {p \in Links : status[p] = "ACCEPTED"}
ShadowsOf(u) == {p \in Accepted : Subject(p) = u}
FollowedBy(u) == {p \in Accepted : Shadow(p) = u}

\* Nobody has asked anybody yet, or one user has already invited all others.
Init ==
  /\ \E open \in {{}} \cup {{p \in Links : Subject(p) = u} : u \in Users} :
       /\ status = [p \in Links |-> IF p \in open THEN "PENDING" ELSE "NONE"]
       /\ notified = {Notice("SHADOW_INVITE", Shadow(p), p) : p \in open}
  /\ lock = [p \in Links |-> NoThread]
  /\ pc = [t \in Threads |-> "idle"]
  /\ req = [t \in Threads |-> NoRequest]
  /\ served = 0

-----------------------------------------------------------------------------
(* Requests *)

\* A request of u arrives that names link p.
Begin(t, l, u, p, to) ==
  /\ pc[t] = "idle" /\ served < MaxRequests
  /\ pc' = [pc EXCEPT ![t] = l]
  /\ req' = [req EXCEPT ![t] = [user |-> u, link |-> p, seen |-> status[p], to |-> to]]
  /\ served' = served + 1
  /\ UNCHANGED <<status, notified, lock>>

\* The session is removed and its locks given back.
EndRequest(t) ==
  /\ pc' = [pc EXCEPT ![t] = "idle"]
  /\ req' = [req EXCEPT ![t] = NoRequest]
  /\ lock' = [p \in Links |-> IF lock[p] = t THEN NoThread ELSE lock[p]]
  /\ UNCHANGED served

Abort(t) == EndRequest(t) /\ UNCHANGED <<status, notified>>

Goto(t, l) == pc' = [pc EXCEPT ![t] = l] /\ UNCHANGED <<status, notified, req, served>>

UnlockedRead(p) == TRUE

\* A row lock or an UPDATE waits for the row's holder.
LinkFree(p) == lock[p] = NoThread

\* The commit of a request that read its link without a lock.
SetStatus(t, new) == LET p == req[t].link IN
  /\ LinkFree(p)
  /\ status' = IF req[t].seen = new THEN status ELSE [status EXCEPT ![p] = new]

-----------------------------------------------------------------------------
(* invite, decline, remove_shadow, stop_following *)

\* A pair that has no link, or whose link was declined or revoked.
Invitable == {"NONE", "DECLINED", "REVOKED"}

InviteRead(t) == \E p \in Links :
  status[p] \in Invitable /\ Begin(t, "invite", Subject(p), p, {})

\* A second INSERT for the pair violates the constraint.
InviteCommit(t) == LET p == req[t].link IN
  /\ pc[t] = "invite"
  /\ IF req[t].seen = "NONE" /\ status[p] # "NONE" THEN Abort(t)
     ELSE /\ SetStatus(t, "PENDING")
          /\ notified' = notified \cup {Notice("SHADOW_INVITE", Shadow(p), p)}
          /\ EndRequest(t)

AnyLink(p) == status[p] # "NONE"

Declinable(p) == status[p] = "PENDING"

DeclineRead(t) == \E p \in Links :
  Declinable(p) /\ Begin(t, "decline", Shadow(p), p, {})

DeclineCommit(t) ==
  /\ pc[t] = "decline"
  /\ SetStatus(t, "DECLINED")
  /\ EndRequest(t)
  /\ UNCHANGED notified

\* remove_shadow by the subject, stop_following by the shadow.
EndRead(t) == \E p \in Links, u \in Users :
  /\ AnyLink(p) /\ u \in {Subject(p), Shadow(p)}
  /\ Begin(t, "end", u, p, {})

EndCommit(t) ==
  /\ pc[t] = "end"
  /\ SetStatus(t, "REVOKED")
  /\ EndRequest(t)
  /\ UNCHANGED notified

-----------------------------------------------------------------------------
(* accept *)

AcceptBegin(t) == \E p \in Links, u \in Users :
  AnyLink(p) /\ Begin(t, "accept", u, p, {})

Invited(u, p) == u = Shadow(p)

AcceptLock(t) == LET p == req[t].link IN
  /\ pc[t] = "accept" /\ LinkFree(p)
  /\ IF Invited(req[t].user, p) /\ status[p] = "PENDING"
     THEN lock' = [lock EXCEPT ![p] = t] /\ Goto(t, "countShadows")
     ELSE Abort(t)

AtMostCap(links, cap) == Cardinality(links) <= cap

HasRoom(links, cap) == Cardinality(links) < cap

\* The two counts are reads of their own, and lock nothing.
AcceptCountShadows(t) ==
  /\ pc[t] = "countShadows"
  /\ IF HasRoom(ShadowsOf(Subject(req[t].link)), MaxShadows)
     THEN Goto(t, "countFollowing") /\ UNCHANGED lock
     ELSE Abort(t)

AcceptCountFollowing(t) ==
  /\ pc[t] = "countFollowing"
  /\ IF HasRoom(FollowedBy(req[t].user), MaxFollowing)
     THEN Goto(t, "acceptCommit") /\ UNCHANGED lock
     ELSE Abort(t)

AcceptCommit(t) == LET p == req[t].link IN
  /\ pc[t] = "acceptCommit"
  /\ status' = [status EXCEPT ![p] = "ACCEPTED"]
  /\ notified' = notified \cup {Notice("SHADOW_ACCEPTED", Subject(p), p)}
  /\ EndRequest(t)

-----------------------------------------------------------------------------
(* notify_shadows, after a trade has committed *)

Everyone(u) == {p \in Links : Subject(p) = u /\ status[p] # "NONE"}

Audience(u) == ShadowsOf(u)

\* One of the links read stands for the request's link: the trade names none.
NotifyRead(t) == \E u \in Users : \E p \in Audience(u) :
  Begin(t, "notify", u, p, {Shadow(q) : q \in Audience(u)})

\* All the notifications of one trade are committed together.
NotifyCommit(t) ==
  /\ pc[t] = "notify"
  /\ notified' = notified \cup
       {Notice("SHADOW_TRADE", v, <<req[t].user, v>>) : v \in req[t].to}
  /\ EndRequest(t)
  /\ UNCHANGED status

\* The connection drops or the process dies before the commit.
Fail(t) == pc[t] # "idle" /\ Abort(t)

-----------------------------------------------------------------------------
Arrive(t) == InviteRead(t) \/ DeclineRead(t) \/ EndRead(t) \/ AcceptBegin(t) \/ NotifyRead(t)

Advance(t) ==
  \/ InviteCommit(t) \/ DeclineCommit(t) \/ EndCommit(t) \/ NotifyCommit(t)
  \/ AcceptLock(t) \/ AcceptCountShadows(t) \/ AcceptCountFollowing(t) \/ AcceptCommit(t)

Next == \E t \in Threads : Arrive(t) \/ Advance(t) \/ Fail(t)

Spec == Init /\ [][Next]_vars

-----------------------------------------------------------------------------
(* Properties *)

LockedPcs == {"countShadows", "countFollowing", "acceptCommit"}
OpenPcs == {"invite", "decline", "end", "accept", "notify"}

\* Every row, lock and register has its type.
TypeOK ==
  /\ status \in [Links -> Status \cup {"NONE"}]
  /\ notified \subseteq [kind : Kinds, to : Users, about : Links]
  /\ lock \in [Links -> Threads \cup {NoThread}]
  /\ pc \in [Threads -> {"idle"} \cup OpenPcs \cup LockedPcs]
  /\ req \in [Threads -> Request \cup {NoRequest}] /\ served \in Nat
  /\ \A t \in Threads : pc[t] = "idle" <=> req[t] = NoRequest

\* A link is accepted only by the invited user, and only while the invitation
\* stands: a decline or a revocation that has been answered is never followed
\* by an acceptance, however late the accept arrives.
AcceptedByInvitee == [][\A p \in Links :
  status[p] # "ACCEPTED" /\ status'[p] = "ACCEPTED" =>
    /\ status[p] = "PENDING"
    /\ \E t \in Threads : pc[t] = "acceptCommit" /\ req[t].user = Shadow(p)]_vars

\* Nobody hears of a user's trades who was not invited by him and has not
\* accepted, whatever became of the link since ("mutual opt-in links", README).
TradesToldToShadowsOnly == \A p \in Links :
  Notice("SHADOW_TRADE", Shadow(p), p) \in notified =>
    /\ Notice("SHADOW_INVITE", Shadow(p), p) \in notified
    /\ Notice("SHADOW_ACCEPTED", Subject(p), p) \in notified

\* The caps, as far as the code keeps them: accepts that counted before one
\* another's commit can pass a cap, by as many as can be in flight at a time and
\* no more.  With one thread these are the caps themselves.
CapsBounded == \A u \in Users : LET others == Cardinality(Threads) - 1 IN
  /\ Cardinality(ShadowsOf(u)) <= MaxShadows + others
  /\ Cardinality(FollowedBy(u)) <= MaxFollowing + others

\* An accepted link stops being one only by the choice of one of its two users:
\* the request that ends it, or one of theirs decided before the acceptance.
EndsByChoice == [][\A p \in Links :
  status[p] = "ACCEPTED" /\ status'[p] # "ACCEPTED" =>
    \E t \in Threads : /\ req[t] # NoRequest /\ req[t].link = p
                       /\ req[t].user \in {Subject(p), Shadow(p)}
                       /\ pc[t] = "end" \/ req[t].seen # "ACCEPTED"]_vars

-----------------------------------------------------------------------------
(* What the comments promise and the code breaks: TLC refutes each *)

\* "Enforces both caps under row locks so two concurrent accepts can't push
\* either side past its limit" (accept).
Caps == \A u \in Users :
  Cardinality(ShadowsOf(u)) <= MaxShadows /\ Cardinality(FollowedBy(u)) <= MaxFollowing

\* "Previously DECLINED/REVOKED - flip back to PENDING" (invite): an invitation
\* never takes an accepted link back to pending.
ReinvitesEndedOnly == [][\A p \in Links :
  status[p] # "PENDING" /\ status'[p] = "PENDING" => status[p] \in Invitable]_vars

\* "if link.status == ShadowStatus.PENDING" (decline): an answer already given
\* stands until one of the two users ends the link.
AcceptanceStands == [][\A p \in Links :
  status[p] = "ACCEPTED" /\ status'[p] # "ACCEPTED" => \E t \in Threads : pc[t] = "end"]_vars

\* "To every currently-accepted shadow" (notify_shadows): whoever is told of a
\* trade shadows the trader when he is told.
ToldWhileShadowing == [][\A p \in Links : LET notice == Notice("SHADOW_TRADE", Shadow(p), p) IN
  notice \in notified' \ notified => status[p] = "ACCEPTED"]_vars
=============================================================================
