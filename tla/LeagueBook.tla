------------------------------ MODULE LeagueBook ------------------------------
(***************************************************************************)
(* What leagues promise, one operation at a time: a league has an owner    *)
(* among its members, never more members than the cap, closes with its     *)
(* last member, and is never reopened.  Leagues implements this with row   *)
(* locks and several statements per operation.                             *)
(***************************************************************************)
EXTENDS Naturals, FiniteSets

CONSTANTS Users, LeagueIds, MaxMembers, NoUser

VARIABLES owner, members, opened

bookVars == <<owner, members, opened>>

Init ==
  /\ owner = [l \in LeagueIds |-> NoUser]
  /\ members = [l \in LeagueIds |-> {}]
  /\ opened = {}

Open(l, u) ==
  /\ l \notin opened
  /\ owner' = [owner EXCEPT ![l] = u]
  /\ members' = [members EXCEPT ![l] = {u}]
  /\ opened' = opened \cup {l}

Join(l, u) ==
  /\ owner[l] # NoUser /\ u \notin members[l] /\ Cardinality(members[l]) < MaxMembers
  /\ members' = [members EXCEPT ![l] = @ \cup {u}]
  /\ UNCHANGED <<owner, opened>>

\* The owner's place goes to one who stays; anyone else's leaving keeps it.
Leave(l, u) == \E heir \in members[l] \ {u} :
  /\ u \in members[l]
  /\ owner[l] # u => heir = owner[l]
  /\ owner' = [owner EXCEPT ![l] = heir]
  /\ members' = [members EXCEPT ![l] = @ \ {u}]
  /\ UNCHANGED opened

\* The last member leaves, or the owner, alone, deletes the league.
Close(l, u) ==
  /\ owner[l] = u /\ members[l] = {u}
  /\ owner' = [owner EXCEPT ![l] = NoUser]
  /\ members' = [members EXCEPT ![l] = {}]
  /\ UNCHANGED opened

Next == \E l \in LeagueIds, u \in Users :
  Open(l, u) \/ Join(l, u) \/ Leave(l, u) \/ Close(l, u)

Spec == Init /\ [][Next]_bookVars
=============================================================================
