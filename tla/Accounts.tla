------------------------------ MODULE Accounts -------------------------------
(***************************************************************************)
(* One account from its first code to its sessions and what they protect:  *)
(* Verification and Sessions, with the watchlist (watchlist_service.py) as *)
(* the handler behind the token check.                                     *)
(*                                                                         *)
(* The watchlist has a cap and no constraint: a request looks for the      *)
(* stock, counts, looks for the symbol on the list and inserts, in         *)
(* statements of its own each.                                             *)
(***************************************************************************)
EXTENDS Sessions

CONSTANTS
  Symbols,
  Listed,       \* the symbols of available_stocks
  Cap,          \* the most items a watchlist may have
  FirstServed   \* requests served before a behaviour that starts verified (bound)

ASSUME CapAssumption == Listed \subseteq Symbols /\ Cap \in Nat \ {0} /\ FirstServed \in 0 .. MaxRequests

VARIABLE watchlist   \* the rows of the account

accountVars == <<vars, session, watchlist>>

\* An account that is new, or that its first code has made active and signed in.
AccountInit == \E done \in {0, 1} : LET first == [c \in CodeIds |-> IF c = 1 THEN done ELSE 0] IN
  /\ issued = done /\ createdAt = Zero /\ attempts = first
  /\ expiresAt = [c \in CodeIds |-> first[c] * Ttl] /\ consumed = [c \in CodeIds |-> first[c] = 1]
  /\ verified = (done = 1) /\ mailed = Issued /\ wrong = Zero /\ right = first /\ clock = 0
  /\ pc = [t \in Threads |-> "idle"] /\ req = [t \in Threads |-> NoRequest]
  /\ served = done * FirstServed /\ overlapped = FALSE
  /\ minted = done /\ SessionInit /\ watchlist = {}

Watched(s) == {w \in watchlist : w.sym = s}

\* Rows are told apart by the request that inserted them.
WatchBegin(t) == \E k \in Tokens, s \in Symbols, l \in {"count", "find"} :
  /\ Admit(t, l, k, [jti |-> k, sym |-> s, id |-> served])
  /\ UNCHANGED watchlist

Advance(t, l) ==
  /\ Goto(t, l, req[t])
  /\ UNCHANGED <<table, verified, mailed, history, session, watchlist>>

Refuse(t) ==
  /\ EndRequest(t)
  /\ UNCHANGED <<table, verified, mailed, history, session, watchlist>>

RoomUpToCap == Cardinality(watchlist) <= Cap

Room == Cardinality(watchlist) < Cap

\* add_to_watchlist: of a stock there is, while there is room.
AddCount(t) ==
  /\ pc[t] = "count"
  /\ IF req[t].sym \in Listed /\ Room THEN Advance(t, "lookup") ELSE Refuse(t)

AddLookup(t) ==
  pc[t] = "lookup" /\ IF Watched(req[t].sym) = {} THEN Advance(t, "insert row") ELSE Refuse(t)

AddInsert(t) ==
  /\ pc[t] = "insert row"
  /\ watchlist' = watchlist \cup {[id |-> req[t].id, sym |-> req[t].sym]}
  /\ Act(req[t].jti) /\ EndRequest(t)
  /\ UNCHANGED <<table, verified, mailed, history, password, minted, revoked>>

\* remove_from_watchlist: one row of the symbol, if it is still there.
RemoveFind(t) ==
  /\ pc[t] = "find"
  /\ \/ Watched(req[t].sym) = {} /\ Refuse(t)
     \/ \E w \in Watched(req[t].sym) :
          /\ Goto(t, "delete row", [jti |-> req[t].jti, row |-> w])
          /\ UNCHANGED <<table, verified, mailed, history, session, watchlist>>

RemoveDelete(t) ==
  /\ pc[t] = "delete row"
  /\ watchlist' = watchlist \ {req[t].row}
  /\ Act(req[t].jti) /\ EndRequest(t)
  /\ UNCHANGED <<table, verified, mailed, history, password, minted, revoked>>

AccountStep(t) ==
  \/ CodeStep(t) /\ UNCHANGED <<session, watchlist>>
  \/ (ActivateAndMint(t) \/ SessionNext(t)) /\ UNCHANGED watchlist
  \/ WatchBegin(t) \/ AddCount(t) \/ AddLookup(t) \/ AddInsert(t)
  \/ RemoveFind(t) \/ RemoveDelete(t)

AccountNext ==
  (\E t \in Threads : AccountStep(t)) \/ (Tick /\ UNCHANGED <<session, watchlist>>)

AccountSpec == AccountInit /\ [][AccountNext]_accountVars

-----------------------------------------------------------------------------
(* Properties *)

Row == [id : 0 .. MaxRequests, sym : Symbols]

\* A request that acts for a token acts for one that was minted.
AccountRequestAt(l) == CASE l \in Pcs -> RequestAt(l)
  [] l = "mint" -> {NoRequest}
  [] l = "reset" -> [jti : 1 .. minted, new : Passwords]
  [] l = "revoke" -> [jti : 1 .. minted, reset : BOOLEAN]
  [] l \in {"count", "lookup", "insert row", "find"} ->
       [jti : 1 .. minted, sym : Symbols, id : 0 .. MaxRequests]
  [] l = "delete row" -> [jti : 1 .. minted, row : Row]

AccountPcs == Pcs \cup
  {"mint", "reset", "revoke", "count", "lookup", "insert row", "find", "delete row"}

\* Codes, sessions, the watchlist and the requests in flight have their types.
AccountTypeOK ==
  /\ ColumnsOK
  /\ password \in Passwords /\ minted \in 0 .. MaxTokens /\ revoked \subseteq 1 .. minted
  /\ late \in [Tokens -> Nat] /\ watchlist \subseteq Row
  /\ pc \in [Threads -> AccountPcs] /\ req = [t \in Threads |-> req[t]]
  /\ \A t \in Threads : req[t] \in AccountRequestAt(pc[t])

\* "The account stays inactive until" the code is entered, and "a token is only
\* ever minted for a verified user" (generate_token): an account has no
\* token before one of its codes was accepted, however its requests interleave
\* and wherever they fail.
SessionNeedsProof ==
  minted > 0 => \E c \in Issued : right[c] > 0

\* A revoked token is refused: only requests that had passed the check before,
\* one a thread, still commit what they were asked.
LateWritesBounded == \A k \in Tokens : late[k] < Cardinality(Threads)

\* The cap is checked and not enforced, so it can be passed, but only by the
\* requests that were in flight at once, however adding and removing alternate.
ListOverCapBounded == Cardinality(watchlist) < Cap + Cardinality(Threads)

-----------------------------------------------------------------------------
(* What messages and checks promise and these interleavings break: TLC       *)
(* refutes each                                                              *)

\* "The item you are trying to add already exists in the watchlist".
WatchedOnce == \A s \in Symbols : Cardinality(Watched(s)) <= 1

\* "You have reached the maximum allowed number of items in your watchlist".
ListWithinCap == Cardinality(watchlist) <= Cap

\* "Password reset successfully, please sign in again" (reset_password): a reset
\* that changed the password and came to its end is answered so.  A logout, or
\* another reset, that used the token meanwhile makes its revocation fail.
ResetTold == [][\A t \in Threads :
  pc[t] = "revoke" /\ pc'[t] = "idle" /\ req[t].reset =>
    req[t].jti \in revoked' \ revoked]_accountVars
=============================================================================
