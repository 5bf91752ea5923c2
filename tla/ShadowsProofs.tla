---------------------------- MODULE ShadowsProofs ----------------------------
(***************************************************************************)
(* Theorems about Shadows, for every number of users and threads and every *)
(* cap.                                                                    *)
(***************************************************************************)
EXTENDS Shadows, FiniteSetTheorems, TLAPS

Pcs == {"idle"} \cup OpenPcs \cup LockedPcs
NoticeSet == [kind : Kinds, to : Users, about : Links]

InviteNotice(p) == Notice("SHADOW_INVITE", Shadow(p), p)
AcceptNotice(p) == Notice("SHADOW_ACCEPTED", Subject(p), p)

\* What a request knows of its link: who may make it, and what it has read or
\* locked.
Knows(t) == LET p == req[t].link IN
  /\ pc[t] = "invite" => req[t].user = Subject(p) /\ req[t].seen \in Invitable
  /\ pc[t] = "decline" => req[t].user = Shadow(p) /\ req[t].seen = "PENDING"
  /\ pc[t] = "end" => req[t].user \in {Subject(p), Shadow(p)}
  /\ pc[t] \in {"decline", "end", "accept"} => status[p] # "NONE"
  /\ pc[t] \in LockedPcs =>
       lock[p] = t /\ status[p] = "PENDING" /\ req[t].user = Shadow(p)
  /\ pc[t] = "notify" => \A v \in req[t].to : LET q == <<req[t].user, v>> IN
       q \in Links /\ {InviteNotice(q), AcceptNotice(q)} \subseteq notified

\* The steps of a link's life that have been taken have been told.
LinksTold == \A p \in Links :
  /\ status[p] # "NONE" => InviteNotice(p) \in notified
  /\ status[p] = "ACCEPTED" => AcceptNotice(p) \in notified

\* The inductive invariant.
IInv == TypeOK /\ (\A t \in Threads : Knows(t)) /\ LinksTold /\ TradesToldToShadowsOnly

-----------------------------------------------------------------------------
(* Steps *)

\* Only the requests that decide write the link, and only when it is theirs.
Decides(t) == InviteCommit(t) \/ DeclineCommit(t) \/ EndCommit(t) \/ AcceptCommit(t)

\* The fields of a request.
LEMMA RequestFields ==
  ASSUME TypeOK, NEW t \in Threads, pc[t] # "idle"
  PROVE  /\ req[t] \in Request /\ req[t].user \in Users /\ req[t].link \in Links
         /\ req[t].seen \in Status \cup {"NONE"} /\ req[t].to \subseteq Users
BY RequestAssumption DEF TypeOK, Request

\* The links of a pair.
LEMMA LinkFields ==
  ASSUME NEW p \in Links
  PROVE  /\ Subject(p) \in Users /\ Shadow(p) \in Users /\ Subject(p) # Shadow(p)
         /\ p = <<Subject(p), Shadow(p)>>
         /\ InviteNotice(p) \in NoticeSet /\ AcceptNotice(p) \in NoticeSet
BY DEF Links, Subject, Shadow, InviteNotice, AcceptNotice, Notice, NoticeSet, Kinds

\* What any step of t does to the threads, the locks, the links and the
\* notifications.
LEMMA StepEffect ==
  ASSUME TypeOK, NEW t \in Threads, Arrive(t) \/ Advance(t) \/ Fail(t)
  PROVE  /\ \A x \in Threads \ {t} : pc'[x] = pc[x] /\ req'[x] = req[x]
         /\ \A p \in Links : lock[p] \notin {t, NoThread} => lock'[p] = lock[p]
         /\ \/ status' = status
            \/ /\ Decides(t) /\ pc[t] \in {"invite", "decline", "end", "acceptCommit"}
               /\ (pc[t] = "acceptCommit" \/ lock[req[t].link] = NoThread)
               /\ status' = [status EXCEPT ![req[t].link] =
                               CASE pc[t] = "invite" -> "PENDING"
                                 [] pc[t] = "decline" -> "DECLINED"
                                 [] pc[t] = "end" -> "REVOKED"
                                 [] pc[t] = "acceptCommit" -> "ACCEPTED"]
         /\ notified \subseteq notified'
<1>. USE DEF TypeOK
<1>1. CASE Abort(t)
  BY <1>1 DEF Abort, EndRequest
<1>2. CASE Arrive(t)
  BY <1>2 DEF Arrive, InviteRead, DeclineRead, EndRead, AcceptBegin, NotifyRead, Begin
<1>3. CASE ~Abort(t) /\ (AcceptLock(t) \/ AcceptCountShadows(t) \/ AcceptCountFollowing(t))
  BY <1>3 DEF AcceptLock, AcceptCountShadows, AcceptCountFollowing, Goto, LinkFree
<1>4. CASE ~Abort(t) /\ (InviteCommit(t) \/ DeclineCommit(t) \/ EndCommit(t))
  BY <1>4 DEF InviteCommit, DeclineCommit, EndCommit, EndRequest, SetStatus, LinkFree, Decides
<1>5. CASE AcceptCommit(t) \/ NotifyCommit(t)
  BY <1>5 DEF AcceptCommit, NotifyCommit, EndRequest, Decides
<1>. QED  BY <1>1, <1>2, <1>3, <1>4, <1>5 DEF Advance, Fail

-----------------------------------------------------------------------------
(* The inductive invariant *)

\* Every step keeps the types.
LEMMA StepType ==
  ASSUME TypeOK, NEW t \in Threads, Arrive(t) \/ Advance(t) \/ Fail(t), Knows(t)
  PROVE  TypeOK'
<1>. USE DEF TypeOK, OpenPcs, LockedPcs
<1>1. CASE EndRequest(t) /\ UNCHANGED <<status, notified>>
  BY <1>1 DEF EndRequest
<1>2. CASE Arrive(t)
  <2>1. ASSUME NEW l \in OpenPcs, NEW u \in Users, NEW p \in Links, NEW to \in SUBSET Users,
               Begin(t, l, u, p, to)
        PROVE  TypeOK'
    <3>. DEFINE r == [user |-> u, link |-> p, seen |-> status[p], to |-> to]
    <3>1. r \in Request /\ r # NoRequest
      BY RequestAssumption DEF Request
    <3>2. req' = [req EXCEPT ![t] = r] /\ pc' = [pc EXCEPT ![t] = l] /\ l # "idle"
      BY <2>1 DEF Begin
    <3>. HIDE DEF r
    <3>. QED  BY <2>1, <3>1, <3>2 DEF Begin
  <2>2. CASE InviteRead(t) \/ DeclineRead(t)
    BY <2>1, <2>2, LinkFields DEF InviteRead, DeclineRead
  <2>3. CASE EndRead(t) \/ AcceptBegin(t)
    BY <2>1, <2>3 DEF EndRead, AcceptBegin
  <2>4. CASE NotifyRead(t)
    <3>1. \A u \in Users : {Shadow(q) : q \in Audience(u)} \in SUBSET Users
                            /\ Audience(u) \subseteq Links
      BY LinkFields DEF Audience, ShadowsOf, Accepted
    <3>2. PICK u \in Users, p \in Links : Begin(t, "notify", u, p, {Shadow(q) : q \in Audience(u)})
      BY <2>4, <3>1 DEF NotifyRead
    <3>. DEFINE to == {Shadow(q) : q \in Audience(u)}
    <3>3. to \in SUBSET Users /\ Begin(t, "notify", u, p, to) /\ "notify" \in OpenPcs
      BY <3>1, <3>2
    <3>. HIDE DEF to
    <3>. QED  BY <2>1, <3>3
  <2>. QED  BY <1>2, <2>2, <2>3, <2>4 DEF Arrive
<1>3. CASE ~Abort(t) /\ (AcceptLock(t) \/ AcceptCountShadows(t) \/ AcceptCountFollowing(t))
  BY <1>3 DEF AcceptLock, AcceptCountShadows, AcceptCountFollowing, Goto
<1>4. CASE /\ ~Abort(t)
           /\ InviteCommit(t) \/ DeclineCommit(t) \/ EndCommit(t) \/ AcceptCommit(t)
  <2>1. req[t].link \in Links /\ EndRequest(t)
    BY <1>4, RequestFields DEF InviteCommit, DeclineCommit, EndCommit, AcceptCommit
  <2>2. status' \in [Links -> Status \cup {"NONE"}]
    BY <1>4, <2>1 DEF InviteCommit, DeclineCommit, EndCommit, AcceptCommit, SetStatus, Status
  <2>3. notified' \subseteq NoticeSet
    BY <1>4, <2>1, LinkFields
       DEF InviteCommit, DeclineCommit, EndCommit, AcceptCommit, InviteNotice, AcceptNotice, NoticeSet
  <2>. QED  BY <2>1, <2>2, <2>3 DEF EndRequest, NoticeSet
<1>5. ASSUME NotifyCommit(t), Knows(t)
      PROVE  TypeOK'
  <2>1. pc[t] = "notify" /\ req[t].user \in Users /\ req[t].to \subseteq Users
    BY <1>5, RequestFields DEF NotifyCommit
  <2>2. \A v \in req[t].to : Notice("SHADOW_TRADE", v, <<req[t].user, v>>) \in NoticeSet
    BY <1>5, <2>1 DEF Knows, Notice, NoticeSet, Kinds
  <2>3. notified' \subseteq NoticeSet
    <3>. DEFINE N == {Notice("SHADOW_TRADE", v, <<req[t].user, v>>) : v \in req[t].to}
    <3>1. notified \subseteq NoticeSet
      BY DEF NoticeSet
    <3>2. N \subseteq NoticeSet
      BY <2>2
    <3>3. notified' = notified \cup N
      BY <1>5 DEF NotifyCommit
    <3>. HIDE DEF N
    <3>. QED  BY <3>1, <3>2, <3>3
  <2>. QED  BY <1>5, <2>3 DEF NotifyCommit, EndRequest, NoticeSet
<1>. QED  BY <1>1, <1>2, <1>3, <1>4, <1>5 DEF Advance, Fail, Abort

\* A link that exists never disappears.
LEMMA LinksStay ==
  ASSUME TypeOK, NEW t \in Threads, Arrive(t) \/ Advance(t) \/ Fail(t)
  PROVE  \A p \in Links : status[p] # "NONE" => status'[p] # "NONE"
BY StepEffect, RequestFields DEF TypeOK

\* What another thread knows survives a step of t.
LEMMA OthersKnow ==
  ASSUME TypeOK, NEW t \in Threads, Arrive(t) \/ Advance(t) \/ Fail(t), Knows(t),
         NEW x \in Threads, x # t, Knows(x)
  PROVE  Knows(x)'
<1>. USE DEF LockedPcs, OpenPcs
<1>1. pc'[x] = pc[x] /\ req'[x] = req[x] /\ notified \subseteq notified'
  BY StepEffect
<1>2. CASE pc[x] \in LockedPcs
  <2>. DEFINE p == req[x].link
  <2>1. p \in Links /\ lock[p] = x /\ status[p] = "PENDING" /\ req[x].user = Shadow(p)
    BY <1>2, RequestFields DEF Knows
  <2>2. lock'[p] = x
    BY <2>1, StepEffect, ThreadAssumption
  <2>3. status'[p] = status[p]
    <3>1. pc[t] = "acceptCommit" => lock[req[t].link] = t
      BY DEF Knows
    <3>2. pc[t] # "idle" => req[t].link \in Links
      BY RequestFields
    <3>. QED  BY <2>1, <3>1, <3>2, StepEffect, ThreadAssumption DEF TypeOK
  <2>. QED  BY <1>1, <1>2, <2>1, <2>2, <2>3 DEF Knows
<1>3. CASE pc[x] \notin LockedPcs
  <2>1. pc[x] \in {"decline", "end", "accept"} => status'[req[x].link] # "NONE"
    BY LinksStay, RequestFields DEF Knows
  <2>. QED  BY <1>1, <1>3, <2>1 DEF Knows
<1>. QED  BY <1>2, <1>3

\* A step of t leaves it knowing what its next program point relies on.
LEMMA OwnKnows ==
  ASSUME TypeOK, LinksTold, NEW t \in Threads, Arrive(t) \/ Advance(t) \/ Fail(t), Knows(t)
  PROVE  Knows(t)'
<1>. USE DEF LockedPcs, OpenPcs
<1>0. /\ pc \in [Threads -> Pcs] /\ lock \in [Links -> Threads \cup {NoThread}]
      /\ req \in [Threads -> Request \cup {NoRequest}]
  BY DEF TypeOK, Pcs
<1>1. CASE EndRequest(t)
  <2>1. pc'[t] = "idle"
    BY <1>0, <1>1 DEF EndRequest
  <2>. QED  BY <2>1 DEF Knows
<1>2. CASE InviteRead(t) \/ DeclineRead(t) \/ EndRead(t) \/ AcceptBegin(t)
  <2>1. ASSUME NEW l \in OpenPcs \ {"notify"}, NEW u, NEW p, Begin(t, l, u, p, {})
        PROVE  /\ pc'[t] = l /\ req'[t].user = u /\ req'[t].link = p /\ req'[t].seen = status[p]
               /\ status' = status
    BY <1>0, <2>1 DEF Begin
  <2>2. CASE InviteRead(t)
    <3>1. PICK p \in Links : status[p] \in Invitable /\ Begin(t, "invite", Subject(p), p, {})
      BY <2>2 DEF InviteRead
    <3>2. /\ pc'[t] = "invite" /\ req'[t].user = Subject(p) /\ req'[t].link = p
          /\ req'[t].seen = status[p]
      BY <2>1, <3>1
    <3>. QED  BY <3>1, <3>2 DEF Knows
  <2>3. CASE DeclineRead(t)
    <3>1. PICK p \in Links : status[p] = "PENDING" /\ Begin(t, "decline", Shadow(p), p, {})
      BY <2>3 DEF DeclineRead, Declinable
    <3>2. /\ pc'[t] = "decline" /\ req'[t].user = Shadow(p) /\ req'[t].link = p
          /\ req'[t].seen = status[p] /\ status' = status
      BY <2>1, <3>1
    <3>. QED  BY <3>1, <3>2 DEF Knows
  <2>4. CASE EndRead(t)
    <3>1. PICK p \in Links, u \in Users :
            /\ status[p] # "NONE" /\ u \in {Subject(p), Shadow(p)} /\ Begin(t, "end", u, p, {})
      BY <2>4 DEF EndRead, AnyLink
    <3>2. pc'[t] = "end" /\ req'[t].user = u /\ req'[t].link = p /\ status' = status
      BY <2>1, <3>1
    <3>. QED  BY <3>1, <3>2 DEF Knows
  <2>5. CASE AcceptBegin(t)
    <3>1. PICK p \in Links, u \in Users : status[p] # "NONE" /\ Begin(t, "accept", u, p, {})
      BY <2>5 DEF AcceptBegin, AnyLink
    <3>2. pc'[t] = "accept" /\ req'[t].link = p /\ status' = status
      BY <2>1, <3>1
    <3>. QED  BY <3>1, <3>2 DEF Knows
  <2>. QED  BY <1>2, <2>2, <2>3, <2>4, <2>5
<1>3. CASE NotifyRead(t)
  <2>1. PICK u \in Users, p \in Links : Begin(t, "notify", u, p, {Shadow(q) : q \in Audience(u)})
    BY <1>3 DEF NotifyRead, Audience, ShadowsOf, Accepted
  <2>. DEFINE to == {Shadow(q) : q \in Audience(u)}
  <2>2. pc'[t] = "notify" /\ req'[t].user = u /\ req'[t].to = to /\ notified' = notified
    <3>1. Begin(t, "notify", u, p, to)
      BY <2>1
    <3>. HIDE DEF to
    <3>. QED  BY <1>0, <3>1 DEF Begin
  <2>3. ASSUME NEW v \in to
        PROVE  /\ <<u, v>> \in Links
               /\ {InviteNotice(<<u, v>>), AcceptNotice(<<u, v>>)} \subseteq notified
    <3>1. PICK q \in Links : v = Shadow(q) /\ Subject(q) = u /\ status[q] = "ACCEPTED"
      BY DEF Audience, ShadowsOf, Accepted
    <3>2. q = <<u, v>>
      BY <3>1, LinkFields
    <3>. QED  BY <3>1, <3>2 DEF LinksTold
  <2>. HIDE DEF to
  <2>. QED  BY <2>2, <2>3 DEF Knows
<1>4. CASE ~EndRequest(t) /\ AcceptLock(t)
  <2>1. /\ pc[t] = "accept" /\ pc'[t] = "countShadows" /\ req' = req /\ status' = status
        /\ lock' = [lock EXCEPT ![req[t].link] = t]
        /\ req[t].user = Shadow(req[t].link) /\ status[req[t].link] = "PENDING"
    BY <1>0, <1>4 DEF AcceptLock, Invited, Goto, Abort
  <2>2. lock'[req[t].link] = t
    BY <1>0, <2>1, RequestFields
  <2>. QED  BY <2>1, <2>2 DEF Knows
<1>5. CASE ~EndRequest(t) /\ (AcceptCountShadows(t) \/ AcceptCountFollowing(t))
  <2>1. /\ pc[t] \in LockedPcs /\ pc'[t] \in LockedPcs /\ UNCHANGED <<req, status, lock>>
    BY <1>0, <1>5 DEF AcceptCountShadows, AcceptCountFollowing, Goto, Abort
  <2>. QED  BY <2>1 DEF Knows
<1>. QED
  BY <1>1, <1>2, <1>3, <1>4, <1>5 DEF Arrive, Advance, Fail, Abort, InviteCommit, DeclineCommit,
    EndCommit, AcceptCommit, NotifyCommit

\* Every change of a link tells whom it should.
LEMMA StepTold ==
  ASSUME IInv, NEW t \in Threads, Arrive(t) \/ Advance(t) \/ Fail(t)
  PROVE  LinksTold' /\ TradesToldToShadowsOnly'
<1>. USE DEF LockedPcs, OpenPcs
<1>0. TypeOK /\ Knows(t) /\ LinksTold /\ TradesToldToShadowsOnly /\ status \in [Links -> Status \cup {"NONE"}]
  BY DEF IInv, TypeOK
<1>1. CASE UNCHANGED <<status, notified>>
  BY <1>0, <1>1 DEF LinksTold, TradesToldToShadowsOnly
<1>2. CASE ~Abort(t) /\ InviteCommit(t)
  <2>. DEFINE p == req[t].link
  <2>1. /\ p \in Links /\ pc[t] = "invite" /\ notified' = notified \cup {InviteNotice(p)}
        /\ \A q \in Links : q # p => status'[q] = status[q]
        /\ status'[p] \in {status[p], "PENDING"}
    BY <1>0, <1>2, RequestFields DEF InviteCommit, SetStatus, InviteNotice
  <2>. HIDE DEF p
  <2>2. LinksTold'
    BY <1>0, <2>1 DEF LinksTold
  <2>. QED  BY <1>0, <2>1, <2>2 DEF TradesToldToShadowsOnly, InviteNotice, Notice
<1>3. CASE DeclineCommit(t) \/ EndCommit(t)
  <2>. DEFINE p == req[t].link
  <2>1. /\ p \in Links /\ status[p] # "NONE" /\ notified' = notified
        /\ \A q \in Links : q # p => status'[q] = status[q]
        /\ status'[p] \in {status[p], "DECLINED", "REVOKED"}
    BY <1>0, <1>3, RequestFields DEF DeclineCommit, EndCommit, SetStatus, Knows
  <2>. HIDE DEF p
  <2>. QED  BY <1>0, <2>1 DEF LinksTold, TradesToldToShadowsOnly
<1>4. CASE AcceptCommit(t)
  <2>. DEFINE p == req[t].link
  <2>1. /\ p \in Links /\ status[p] # "NONE" /\ notified' = notified \cup {AcceptNotice(p)}
        /\ status' = [status EXCEPT ![p] = "ACCEPTED"]
    BY <1>0, <1>4, RequestFields DEF AcceptCommit, Knows, AcceptNotice
  <2>. HIDE DEF p
  <2>2. LinksTold'
    BY <1>0, <2>1 DEF LinksTold
  <2>. QED  BY <1>0, <2>1, <2>2 DEF TradesToldToShadowsOnly, AcceptNotice, Notice
<1>5. CASE NotifyCommit(t)
  <2>1. /\ pc[t] = "notify" /\ status' = status
        /\ notified' = notified \cup
             {Notice("SHADOW_TRADE", v, <<req[t].user, v>>) : v \in req[t].to}
    BY <1>5 DEF NotifyCommit
  <2>2. LinksTold'
    BY <1>0, <2>1 DEF LinksTold
  <2>3. ASSUME NEW p \in Links, Notice("SHADOW_TRADE", Shadow(p), p) \in notified',
               Notice("SHADOW_TRADE", Shadow(p), p) \notin notified
        PROVE  {InviteNotice(p), AcceptNotice(p)} \subseteq notified
    <3>1. PICK v \in req[t].to :
            Notice("SHADOW_TRADE", Shadow(p), p) = Notice("SHADOW_TRADE", v, <<req[t].user, v>>)
      BY <2>1, <2>3
    <3>2. p = <<req[t].user, v>>
      BY <3>1 DEF Notice
    <3>. QED  BY <1>0, <2>1, <3>2 DEF Knows
  <2>. QED  BY <1>0, <2>1, <2>2, <2>3 DEF TradesToldToShadowsOnly, InviteNotice, AcceptNotice
<1>6. CASE ~(InviteCommit(t) \/ DeclineCommit(t) \/ EndCommit(t) \/ AcceptCommit(t) \/ NotifyCommit(t))
  <2>1. UNCHANGED <<status, notified>>
    BY <1>6 DEF Arrive, InviteRead, DeclineRead, EndRead, AcceptBegin, NotifyRead, Begin, Advance,
      AcceptLock, AcceptCountShadows, AcceptCountFollowing, Goto, Fail, Abort
  <2>. QED  BY <1>1, <2>1
<1>. QED  BY <1>1, <1>2, <1>3, <1>4, <1>5, <1>6 DEF Abort

\* The inductive invariant holds at the start.
LEMMA InitIInv == Init => IInv
<1>. SUFFICES ASSUME Init PROVE IInv
  OBVIOUS
<1>1. PICK open \in SUBSET Links :
        /\ status = [p \in Links |-> IF p \in open THEN "PENDING" ELSE "NONE"]
        /\ notified = {InviteNotice(p) : p \in open}
  BY DEF Init, InviteNotice
<1>2. TypeOK
  <2>1. notified \subseteq NoticeSet
    BY <1>1, LinkFields
  <2>. QED  BY <1>1, <2>1 DEF Init, TypeOK, Status, OpenPcs, LockedPcs, NoticeSet
<1>3. \A t \in Threads : Knows(t)
  BY DEF Init, Knows, LockedPcs
<1>4. LinksTold
  BY <1>1 DEF LinksTold
<1>5. TradesToldToShadowsOnly
  BY <1>1 DEF TradesToldToShadowsOnly, InviteNotice, Notice
<1>. QED  BY <1>2, <1>3, <1>4, <1>5 DEF IInv

\* The inductive invariant holds of every reachable state.
THEOREM Invariance == Spec => []IInv
<1>1. IInv /\ [Next]_vars => IInv'
  <2>. SUFFICES ASSUME IInv, [Next]_vars PROVE IInv'
    OBVIOUS
  <2>1. CASE UNCHANGED vars
    BY <2>1 DEF vars, IInv, TypeOK, Knows, LinksTold, TradesToldToShadowsOnly
  <2>2. ASSUME NEW t \in Threads, Arrive(t) \/ Advance(t) \/ Fail(t)
        PROVE  IInv'
    <3>1. \A x \in Threads : Knows(x)'
      BY <2>2, OwnKnows, OthersKnow DEF IInv
    <3>2. TypeOK'
      BY <2>2, StepType DEF IInv
    <3>. QED  BY <2>2, <3>1, <3>2, StepTold DEF IInv
  <2>. QED  BY <2>1, <2>2 DEF Next
<1>. QED  BY <1>1, InitIInv, PTL DEF Spec

\* Every row, lock and register always has its type.
THEOREM TypeCorrect == Spec => []TypeOK
<1>1. IInv => TypeOK
  BY DEF IInv
<1>. QED  BY <1>1, Invariance, PTL

\* Only users who were invited and have accepted hear of a subject's trades.
THEOREM TradesStayPrivate == Spec => []TradesToldToShadowsOnly
<1>1. IInv => TradesToldToShadowsOnly
  BY DEF IInv
<1>. QED  BY <1>1, Invariance, PTL

-----------------------------------------------------------------------------
(* Who changes a link *)

\* Only the invited user accepts, and only while the invitation stands.
THEOREM OnlyInviteeAccepts == Spec => AcceptedByInvitee
<1>. DEFINE A == \A p \in Links :
       status[p] # "ACCEPTED" /\ status'[p] = "ACCEPTED" =>
         /\ status[p] = "PENDING"
         /\ \E t \in Threads : pc[t] = "acceptCommit" /\ req[t].user = Shadow(p)
<1>1. IInv /\ [Next]_vars => [A]_vars
  <2>. SUFFICES ASSUME IInv, NEW t \in Threads, Arrive(t) \/ Advance(t) \/ Fail(t),
                       NEW p \in Links, status[p] # "ACCEPTED", status'[p] = "ACCEPTED"
                PROVE  /\ status[p] = "PENDING"
                       /\ pc[t] = "acceptCommit" /\ req[t].user = Shadow(p)
    BY DEF Next
  <2>1. TypeOK /\ Knows(t) /\ status \in [Links -> Status \cup {"NONE"}]
    BY DEF IInv, TypeOK
  <2>2. pc[t] = "acceptCommit" /\ req[t].link = p
    BY <2>1, StepEffect
  <2>. QED  BY <2>1, <2>2 DEF Knows, LockedPcs
<1>. QED  BY <1>1, Invariance, PTL DEF Spec, AcceptedByInvitee

\* An accepted link ends only by the choice of one of its two users.
THEOREM LinksEndByChoice == Spec => EndsByChoice
<1>. DEFINE A == \A p \in Links :
       status[p] = "ACCEPTED" /\ status'[p] # "ACCEPTED" =>
         \E t \in Threads : /\ req[t] # NoRequest /\ req[t].link = p
                            /\ req[t].user \in {Subject(p), Shadow(p)}
                            /\ pc[t] = "end" \/ req[t].seen # "ACCEPTED"
<1>1. IInv /\ [Next]_vars => [A]_vars
  <2>. SUFFICES ASSUME IInv, NEW t \in Threads, Arrive(t) \/ Advance(t) \/ Fail(t),
                       NEW p \in Links, status[p] = "ACCEPTED", status'[p] # "ACCEPTED"
                PROVE  /\ req[t] # NoRequest /\ req[t].link = p
                       /\ req[t].user \in {Subject(p), Shadow(p)}
                       /\ pc[t] = "end" \/ req[t].seen # "ACCEPTED"
    BY DEF Next
  <2>1. TypeOK /\ Knows(t) /\ status \in [Links -> Status \cup {"NONE"}]
    BY DEF IInv, TypeOK
  <2>2. pc[t] \in {"invite", "decline", "end"} /\ req[t].link = p
    BY <2>1, StepEffect
  <2>3. req[t] # NoRequest
    BY <2>1, <2>2 DEF TypeOK
  <2>. QED  BY <2>1, <2>2, <2>3 DEF Knows, Invitable
<1>. QED  BY <1>1, Invariance, PTL DEF Spec, EndsByChoice

-----------------------------------------------------------------------------
(* The caps *)

\* The accepts that have counted a subject's shadows, or a user's subjects, and
\* not committed yet.
CountedShadows(u) ==
  {t \in Threads : pc[t] \in {"countFollowing", "acceptCommit"} /\ Subject(req[t].link) = u}
CountedFollowing(u) == {t \in Threads : pc[t] = "acceptCommit" /\ req[t].user = u}

\* Links counted and accepts on their way, against a cap.
Within(links, threads, cap) ==
  /\ IsFiniteSet(links)
  /\ Cardinality(links) + Cardinality(threads) <= cap + Cardinality(Threads) - 1

\* The bound survives an accept that has just counted, one that turns into a
\* link, and every step that only takes away.
LEMMA WithinStep ==
  ASSUME NEW A, NEW B \in SUBSET Threads, NEW C, NEW D \in SUBSET Threads, NEW cap \in Nat,
         Within(A, B, cap),
         \/ C \subseteq A /\ D \subseteq B
         \/ C = A /\ Cardinality(A) < cap
         \/ \E p, t : t \in B /\ C \subseteq A \cup {p} /\ D \subseteq B \ {t}
  PROVE  Within(C, D, cap)
<1>1. /\ IsFiniteSet(Threads) /\ Cardinality(Threads) \in Nat
      /\ IsFiniteSet(A) /\ Cardinality(A) \in Nat
      /\ IsFiniteSet(B) /\ Cardinality(B) \in Nat
      /\ IsFiniteSet(D) /\ Cardinality(D) \in Nat /\ Cardinality(D) <= Cardinality(Threads)
  BY ThreadAssumption, FS_CardinalityType, FS_Subset DEF Within
<1>2. Cardinality(A) + Cardinality(B) <= cap + Cardinality(Threads) - 1
  BY DEF Within
<1>3. CASE C \subseteq A /\ D \subseteq B
  <2>1. IsFiniteSet(C) /\ Cardinality(C) \in Nat /\ Cardinality(C) <= Cardinality(A)
    BY <1>1, <1>3, FS_Subset, FS_CardinalityType
  <2>2. Cardinality(D) <= Cardinality(B)
    BY <1>1, <1>3, FS_Subset
  <2>. QED  BY <1>1, <1>2, <2>1, <2>2 DEF Within
<1>4. CASE C = A /\ Cardinality(A) < cap
  BY <1>1, <1>4 DEF Within
<1>5. ASSUME NEW p, NEW t \in B, C \subseteq A \cup {p}, D \subseteq B \ {t}
      PROVE  Within(C, D, cap)
  <2>1. IsFiniteSet(A \cup {p}) /\ Cardinality(A \cup {p}) <= Cardinality(A) + 1
    <3>1. /\ IsFiniteSet(A \cup {p})
          /\ Cardinality(A \cup {p}) = IF p \in A THEN Cardinality(A) ELSE Cardinality(A) + 1
      BY <1>1, FS_AddElement
    <3>. QED  BY <1>1, <3>1
  <2>2. /\ IsFiniteSet(C) /\ Cardinality(C) \in Nat
        /\ Cardinality(A \cup {p}) \in Nat /\ Cardinality(C) <= Cardinality(A \cup {p})
    BY <1>5, <2>1, FS_Subset, FS_CardinalityType
  <2>3. IsFiniteSet(B \ {t}) /\ Cardinality(B \ {t}) = Cardinality(B) - 1
    BY <1>1, FS_RemoveElement
  <2>4. Cardinality(D) <= Cardinality(B \ {t})
    BY <1>5, <2>3, FS_Subset
  <2>. QED  BY <1>1, <1>2, <2>1, <2>2, <2>3, <2>4 DEF Within
<1>. QED  BY <1>3, <1>4, <1>5

\* A step other than the commit of an accept accepts no link.
LEMMA NoneAccepted ==
  ASSUME TypeOK, NEW t \in Threads, Arrive(t) \/ Advance(t) \/ Fail(t), pc[t] # "acceptCommit", NEW u
  PROVE  ShadowsOf(u)' \subseteq ShadowsOf(u) /\ FollowedBy(u)' \subseteq FollowedBy(u)
<1>1. \A p \in Links : status'[p] = "ACCEPTED" => status[p] = "ACCEPTED"
  BY StepEffect DEF TypeOK
<1>. QED  BY <1>1 DEF ShadowsOf, FollowedBy, Accepted

\* A step of t leaves every other accept where it is.
LEMMA OthersCounted ==
  ASSUME TypeOK, NEW t \in Threads, Arrive(t) \/ Advance(t) \/ Fail(t), NEW u
  PROVE  /\ CountedShadows(u)' \ {t} = CountedShadows(u) \ {t}
         /\ CountedFollowing(u)' \ {t} = CountedFollowing(u) \ {t}
BY StepEffect DEF CountedShadows, CountedFollowing

\* The bound on a subject's shadows and on the subjects a user follows.
CapInv(u) == /\ Within(ShadowsOf(u), CountedShadows(u), MaxShadows)
             /\ Within(FollowedBy(u), CountedFollowing(u), MaxFollowing)

LEMMA StepCap ==
  ASSUME IInv, NEW t \in Threads, Arrive(t) \/ Advance(t) \/ Fail(t), NEW u, CapInv(u)
  PROVE  CapInv(u)'
<1>. DEFINE A == ShadowsOf(u)    B == CountedShadows(u)
            E == FollowedBy(u)   F == CountedFollowing(u)
<1>0. /\ TypeOK /\ Knows(t) /\ pc \in [Threads -> Pcs] /\ status \in [Links -> Status \cup {"NONE"}]
      /\ MaxShadows \in Nat /\ MaxFollowing \in Nat
      /\ B \in SUBSET Threads /\ B' \in SUBSET Threads
      /\ F \in SUBSET Threads /\ F' \in SUBSET Threads
      /\ Within(A, B, MaxShadows) /\ Within(E, F, MaxFollowing)
  BY CapAssumption DEF IInv, TypeOK, Pcs, CapInv, CountedShadows, CountedFollowing
<1>1. /\ B' \ {t} = B \ {t} /\ F' \ {t} = F \ {t}
  BY <1>0, OthersCounted
<1>2. SUFFICES /\ \/ A' \subseteq A /\ B' \subseteq B
                  \/ A' = A /\ Cardinality(A) < MaxShadows
                  \/ \E p, x : x \in B /\ A' \subseteq A \cup {p} /\ B' \subseteq B \ {x}
               /\ \/ E' \subseteq E /\ F' \subseteq F
                  \/ E' = E /\ Cardinality(E) < MaxFollowing
                  \/ \E p, x : x \in F /\ E' \subseteq E \cup {p} /\ F' \subseteq F \ {x}
  <2>. HIDE DEF A, B, E, F
  <2>1. Within(A', B', MaxShadows) /\ Within(E', F', MaxFollowing)
    BY <1>0, <1>2, WithinStep
  <2>. QED  BY <2>1 DEF CapInv, A, B, E, F, Within
<1>3. CASE AcceptCommit(t)
  <2>. DEFINE p == req[t].link
  <2>1. /\ p \in Links /\ pc[t] = "acceptCommit" /\ pc'[t] = "idle" /\ req[t].user = Shadow(p)
        /\ status' = [status EXCEPT ![p] = "ACCEPTED"]
    BY <1>0, <1>3, RequestFields DEF AcceptCommit, EndRequest, Knows, LockedPcs
  <2>2. t \notin B' /\ t \notin F'
    BY <2>1 DEF CountedShadows, CountedFollowing
  <2>3. /\ u = Subject(p) => t \in B
        /\ u = Shadow(p) => t \in F
    BY <2>1 DEF CountedShadows, CountedFollowing
  <2>. HIDE DEF p
  <2>4. /\ A' \subseteq A \cup {p} /\ (u # Subject(p) => A' \subseteq A)
        /\ E' \subseteq E \cup {p} /\ (u # Shadow(p) => E' \subseteq E)
    BY <1>0, <2>1 DEF ShadowsOf, FollowedBy, Accepted
  <2>5. /\ B' \subseteq B \ {t} /\ F' \subseteq F \ {t}
    BY <1>1, <2>2
  <2>. HIDE DEF A, B, E, F
  <2>. QED  BY <2>3, <2>4, <2>5
<1>4. CASE ~AcceptCommit(t)
  <2>1. A' \subseteq A /\ E' \subseteq E
    <3>1. CASE pc[t] # "acceptCommit"
      BY <1>0, <3>1, NoneAccepted
    <3>2. CASE pc[t] = "acceptCommit"
      <4>1. status' = status
        BY <1>0, <1>4, <3>2, StepEffect
           DEF Decides, InviteCommit, DeclineCommit, EndCommit
      <4>. QED  BY <4>1 DEF ShadowsOf, FollowedBy, Accepted
    <3>. QED  BY <3>1, <3>2
  <2>2. CASE pc'[t] \notin {"countFollowing", "acceptCommit"}
    <3>1. t \notin B' /\ t \notin F'
      BY <2>2 DEF CountedShadows, CountedFollowing
    <3>. QED  BY <1>1, <2>1, <3>1
  <2>3. CASE ~EndRequest(t) /\ AcceptCountShadows(t)
    <3>1. /\ pc'[t] = "countFollowing" /\ UNCHANGED <<req, status>>
          /\ Cardinality(ShadowsOf(Subject(req[t].link))) < MaxShadows
      BY <1>0, <2>3 DEF AcceptCountShadows, HasRoom, Goto, Abort
    <3>2. A' = A /\ E' = E /\ t \notin F'
      BY <3>1 DEF ShadowsOf, FollowedBy, Accepted, CountedFollowing
    <3>3. CASE u = Subject(req[t].link)
      BY <1>1, <3>1, <3>2, <3>3
    <3>4. CASE u # Subject(req[t].link)
      <4>1. t \notin B'
        BY <3>1, <3>4 DEF CountedShadows
      <4>. QED  BY <1>1, <3>2, <4>1
    <3>. QED  BY <3>3, <3>4
  <2>4. CASE ~EndRequest(t) /\ AcceptCountFollowing(t)
    <3>1. /\ pc[t] = "countFollowing" /\ pc'[t] = "acceptCommit" /\ UNCHANGED <<req, status>>
          /\ Cardinality(FollowedBy(req[t].user)) < MaxFollowing
      BY <1>0, <2>4 DEF AcceptCountFollowing, HasRoom, Goto, Abort
    <3>2. A' = A /\ E' = E /\ (t \in B' => t \in B)
      BY <3>1 DEF ShadowsOf, FollowedBy, Accepted, CountedShadows
    <3>3. CASE u = req[t].user
      BY <1>1, <3>1, <3>2, <3>3
    <3>4. CASE u # req[t].user
      <4>1. t \notin F'
        BY <3>1, <3>4 DEF CountedFollowing
      <4>. QED  BY <1>1, <3>2, <4>1
    <3>. QED  BY <3>3, <3>4
  <2>5. \/ pc'[t] \notin {"countFollowing", "acceptCommit"}
        \/ ~EndRequest(t) /\ (AcceptCountShadows(t) \/ AcceptCountFollowing(t))
    BY <1>0, <1>4 DEF Arrive, InviteRead, DeclineRead, EndRead, AcceptBegin, NotifyRead, Begin,
      Advance, AcceptLock, AcceptCountShadows, AcceptCountFollowing, Goto, Fail, Abort, EndRequest,
      InviteCommit, DeclineCommit, EndCommit, NotifyCommit
  <2>. QED  BY <2>2, <2>3, <2>4, <2>5
<1>. QED  BY <1>3, <1>4

\* A cap is passed by no more than the accepts that can be in flight beside
\* the one that meets it.
THEOREM CapsHold == Spec => []CapsBounded
<1>. DEFINE J == \A u \in Users : CapInv(u)
<1>0. IsFiniteSet(Threads) /\ Cardinality(Threads) \in Nat
  BY ThreadAssumption, FS_CardinalityType
<1>1. Init => J
  <2>. SUFFICES ASSUME Init, NEW u \in Users PROVE CapInv(u)
    OBVIOUS
  <2>1. /\ ShadowsOf(u) = {} /\ FollowedBy(u) = {}
        /\ CountedShadows(u) = {} /\ CountedFollowing(u) = {}
    BY DEF Init, ShadowsOf, FollowedBy, Accepted, CountedShadows, CountedFollowing
  <2>. QED  BY <1>0, <2>1, FS_EmptySet, CapAssumption DEF CapInv, Within
<1>2. IInv /\ J /\ [Next]_vars => J'
  <2>. SUFFICES ASSUME IInv, J, [Next]_vars, NEW u \in Users PROVE CapInv(u)'
    OBVIOUS
  <2>0. CapInv(u)
    OBVIOUS
  <2>1. CASE UNCHANGED vars
    BY <2>0, <2>1 DEF vars, CapInv, Within, ShadowsOf, FollowedBy, Accepted, CountedShadows, CountedFollowing
  <2>. QED  BY <2>0, <2>1, StepCap DEF Next
<1>3. J => CapsBounded
  <2>. SUFFICES ASSUME NEW u \in Users, CapInv(u)
                PROVE  /\ Cardinality(ShadowsOf(u)) <= MaxShadows + (Cardinality(Threads) - 1)
                       /\ Cardinality(FollowedBy(u)) <= MaxFollowing + (Cardinality(Threads) - 1)
    BY DEF CapsBounded
  <2>1. \A S \in SUBSET Threads : Cardinality(S) \in Nat
    BY <1>0, FS_Subset, FS_CardinalityType
  <2>2. /\ Cardinality(CountedShadows(u)) \in Nat /\ Cardinality(CountedFollowing(u)) \in Nat
        /\ Cardinality(ShadowsOf(u)) \in Nat /\ Cardinality(FollowedBy(u)) \in Nat
    BY <2>1, FS_CardinalityType DEF CapInv, Within, CountedShadows, CountedFollowing
  <2>. QED  BY <1>0, <2>2, CapAssumption DEF CapInv, Within
<1>. QED  BY <1>1, <1>2, <1>3, Invariance, PTL DEF Spec
=============================================================================
