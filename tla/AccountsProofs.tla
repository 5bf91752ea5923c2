--------------------------- MODULE AccountsProofs ----------------------------
(***************************************************************************)
(* Theorems about Accounts, for every number of threads, codes, tokens and *)
(* symbols and every cap.                                                  *)
(***************************************************************************)
EXTENDS Accounts, FiniteSetTheorems, TLAPS

\* What a request does first: how it begins, and with what.
Begins(t, l, r) ==
  \/ l = "issue" /\ r = [at |-> clock]
  \/ l = "verify" /\ \E c \in Latest, guess \in mailed \cup {WrongGuess} :
       ~consumed[c] /\ r = Judgement(c, guess)
  \/ l = "mint" /\ r = NoRequest /\ verified
  \/ \E k \in Tokens : Accepted(k) /\
       \/ l = "revoke" /\ r = [jti |-> k, reset |-> FALSE]
       \/ \E new \in Passwords : l = "reset" /\ r = [jti |-> k, new |-> new]
       \/ \E s \in Symbols : l \in {"count", "find"} /\ r = [jti |-> k, sym |-> s, id |-> served]

\* An account that has answered a guess with yes.
Proven == \E c \in Issued : right[c] > 0

\* The requests in flight that have passed the check with k and may yet commit.
Held == {"reset", "count", "lookup", "insert row", "find", "delete row"}
Acting(k) == {t \in Threads : pc[t] \in Held /\ req[t].jti = k}

\* The requests that have found room on the watchlist.
Adding == {t \in Threads : pc[t] \in {"lookup", "insert row"}}

\* Only issued codes are sent and judged, and an expired or accepted one will be
\* consumed.
Judged(t) ==
  /\ pc[t] \in {"send", "verify"} => req[t].code \in Issued
  /\ pc[t] = "verify" => req[t].consume \/ (req[t].counts /\ ~req[t].yes)

\* A session, and the way to one, needs a proof.
ProofFirst ==
  (verified \/ minted > 0 \/ \E t \in Threads : pc[t] \in {"activate", "mint"}) => Proven

\* Guesses are answered for codes that exist, and a right one uses its code up.
Answered == \A c \in CodeIds :
  /\ right[c] > 0 => consumed[c]
  /\ c \notin Issued => wrong[c] = 0

\* No code is from the future.
Dated ==
  /\ \A c \in Issued : createdAt[c] <= clock
  /\ \A t \in Threads : pc[t] \in {"issue", "insert"} => req[t].at <= clock

LateBounded == \A k \in Tokens :
  IF k \in revoked THEN late[k] + Cardinality(Acting(k)) < Cardinality(Threads)
                   ELSE late[k] = 0

ListBounded ==
  /\ IsFiniteSet(watchlist)
  /\ Cardinality(watchlist) + Cardinality(Adding) < Cap + Cardinality(Threads)

\* While requests come one at a time, what a request has read is still so.
Alone == \A t, u \in Threads : pc[t] # "idle" /\ pc[u] # "idle" => t = u

Fresh(t) ==
  /\ pc[t] = "insert" => req[t].old = Live
  /\ pc[t] \in {"issue", "insert"} => \A c \in Issued : createdAt[c] <= req[t].at
  /\ pc[t] = "verify" => LET c == req[t].code IN
       /\ ~consumed[c] /\ req[t].attempts = attempts[c] + 1
       /\ req[t].yes => req[t].attempts <= MaxAttempts

AllCounted == \A c \in Issued : attempts[c] >= wrong[c] \/ consumed[c]

Serial == ~overlapped =>
  Alone /\ (\A t \in Threads : Fresh(t)) /\ AllCounted /\ Live \subseteq Latest

\* The inductive invariant.
IInv ==
  /\ AccountTypeOK /\ (\A t \in Threads : Judged(t))
  /\ ProofFirst /\ Answered /\ Dated /\ LateBounded /\ ListBounded /\ Serial

-----------------------------------------------------------------------------
(* Steps *)

\* What begins is one of seven requests, by a thread that was idle.
LEMMA BeginForm ==
  ASSUME AccountTypeOK, NEW t \in Threads, AccountStep(t), pc[t] = "idle"
  PROVE  /\ UNCHANGED <<table, verified, mailed, history, clock, session, watchlist>>
         /\ \E l, r : Begins(t, l, r) /\ Begin(t, l, r)
<1>. USE DEF Begins
<1>1. CASE ResendBegin(t) /\ UNCHANGED <<session, watchlist>>
  BY <1>1 DEF ResendBegin, Begin
<1>2. CASE VerifyRead(t) /\ UNCHANGED <<session, watchlist>>
  BY <1>2 DEF VerifyRead, Begin
<1>3. CASE (SigninBegin(t) \/ VerifyAgain(t)) /\ UNCHANGED watchlist
  BY <1>3 DEF SigninBegin, SignsIn, VerifyAgain, Begin
<1>4. CASE (LogoutBegin(t) \/ ResetBegin(t)) /\ UNCHANGED watchlist
  BY <1>4 DEF LogoutBegin, ResetBegin, Admit, Begin
<1>5. CASE WatchBegin(t)
  BY <1>5 DEF WatchBegin, Admit, Begin
<1>. QED
  BY <1>1, <1>2, <1>3, <1>4, <1>5 DEF AccountStep, CodeStep, SessionNext, IssueUpdate, IssueCommit,
    Send, VerifyCommit, Fail, ActivateAndMint, Activate, Mint, ResetCommit, Revoke, AddCount,
    AddLookup, AddInsert, RemoveFind, RemoveDelete

\* What a thread in the middle of a request does.
Goes(t) ==
  \/ IssueUpdate(t) /\ UNCHANGED <<session, watchlist>>
  \/ IssueCommit(t) /\ UNCHANGED <<session, watchlist>>
  \/ Send(t) /\ UNCHANGED <<session, watchlist>>
  \/ VerifyCommit(t) /\ UNCHANGED <<session, watchlist>>
  \/ Fail(t) /\ UNCHANGED <<session, watchlist>>
  \/ ActivateAndMint(t) /\ UNCHANGED watchlist
  \/ Mint(t) /\ UNCHANGED watchlist
  \/ ResetCommit(t) /\ UNCHANGED watchlist
  \/ Revoke(t) /\ UNCHANGED watchlist
  \/ AddCount(t) \/ AddLookup(t) \/ AddInsert(t) \/ RemoveFind(t) \/ RemoveDelete(t)

LEMMA GoForm ==
  ASSUME NEW t \in Threads, AccountStep(t), pc[t] # "idle"
  PROVE  Goes(t)
BY DEF AccountStep, CodeStep, SessionNext, Goes, ResendBegin, VerifyRead, SigninBegin, VerifyAgain,
  LogoutBegin, ResetBegin, WatchBegin, Admit, Begin

\* A step of t moves no other thread.
LEMMA OthersStay ==
  ASSUME AccountTypeOK, NEW t \in Threads, AccountStep(t)
  PROVE  /\ \A x \in Threads \ {t} : pc'[x] = pc[x] /\ req'[x] = req[x]
         /\ pc[t] # "idle" => overlapped' = overlapped /\ served' = served
         /\ clock' = clock
<1>. USE DEF AccountTypeOK
<1>1. CASE pc[t] = "idle"
  <2>1. PICK l, r : Begin(t, l, r)
    BY <1>1, BeginForm
  <2>. QED  BY <1>1, <2>1 DEF Begin
<1>2. CASE pc[t] # "idle"
  <2>1. \E l, r : Goto(t, l, r)
    BY <1>2, GoForm DEF Goes, IssueUpdate, IssueCommit, Send, VerifyCommit, Fail, ActivateAndMint,
      Activate, Mint, ResetCommit, Revoke, AddCount, AddLookup, AddInsert, RemoveFind, RemoveDelete,
      Advance, Refuse, EndRequest
  <2>. QED  BY <1>2, <2>1 DEF Goto
<1>. QED  BY <1>1, <1>2

-----------------------------------------------------------------------------
(* Types *)

\* The parts of AccountTypeOK: the threads, the sessions and the watchlist, the codes.
ThreadsOK ==
  /\ pc \in [Threads -> AccountPcs] /\ req = [t \in Threads |-> req[t]]
  /\ \A t \in Threads : req[t] \in AccountRequestAt(pc[t])
  /\ clock \in Nat /\ served \in 0 .. MaxRequests /\ overlapped \in BOOLEAN

SessionsOK ==
  /\ password \in Passwords /\ minted \in 0 .. MaxTokens /\ revoked \subseteq 1 .. minted
  /\ late \in [Tokens -> Nat] /\ watchlist \subseteq Row

CodesOK ==
  /\ issued \in 0 .. MaxCodes
  /\ createdAt \in [CodeIds -> Nat] /\ expiresAt \in [CodeIds -> Nat]
  /\ attempts \in [CodeIds -> Nat] /\ consumed \in [CodeIds -> BOOLEAN]
  /\ verified \in BOOLEAN /\ mailed \subseteq Issued
  /\ wrong \in [CodeIds -> Nat] /\ right \in [CodeIds -> Nat]

LEMMA TypeParts ==
  ASSUME AccountTypeOK
  PROVE  ThreadsOK /\ SessionsOK /\ CodesOK
BY DEF AccountTypeOK, ColumnsOK, ThreadsOK, SessionsOK, CodesOK

\* The count of late writes stays one, whichever token is used.
LEMMA ActTyped ==
  ASSUME late \in [Tokens -> Nat], NEW k, Act(k)
  PROVE  late' \in [Tokens -> Nat]
<1>1. [late EXCEPT ![k] = late[k] + 1] \in [Tokens -> Nat]
  <2>1. ASSUME NEW j \in Tokens
        PROVE  [late EXCEPT ![k] = late[k] + 1][j] \in Nat
    BY <2>1
  <2>. QED  BY <2>1
<1>. QED  BY <1>1 DEF Act

\* What a request in flight holds, by the point where it is.
LEMMA RequestFields ==
  ASSUME AccountTypeOK, NEW t \in Threads
  PROVE  /\ pc[t] \in AccountPcs
         /\ pc[t] = "issue" => req[t] \in [at : Nat]
         /\ pc[t] = "insert" => req[t] \in [at : Nat, old : SUBSET CodeIds, expires : Nat]
         /\ pc[t] = "send" => req[t] \in [code : CodeIds]
         /\ pc[t] \in {"verify", "activate"} => req[t] \in
              [code : CodeIds, yes : BOOLEAN, attempts : Nat, counts : BOOLEAN, consume : BOOLEAN]
         /\ pc[t] = "reset" => req[t] \in [jti : 1 .. minted, new : Passwords]
         /\ pc[t] = "revoke" => req[t] \in [jti : 1 .. minted, reset : BOOLEAN]
         /\ pc[t] \in {"count", "lookup", "insert row", "find"} =>
              req[t] \in [jti : 1 .. minted, sym : Symbols, id : 0 .. MaxRequests]
         /\ pc[t] = "delete row" => req[t] \in [jti : 1 .. minted, row : Row]
BY DEF AccountTypeOK, AccountRequestAt, RequestAt, Pcs

\* A request stays well-typed as tokens are minted.
LEMMA RequestsStay ==
  ASSUME minted \in Nat, minted' \in Nat, minted <= minted', NEW l \in AccountPcs
  PROVE  AccountRequestAt(l) \subseteq AccountRequestAt(l)'
<1>1. 1 .. minted \subseteq 1 .. minted'
  OBVIOUS
<1>2. CASE l \in Pcs
  BY <1>2 DEF AccountRequestAt, RequestAt
<1>3. CASE l = "mint"
  BY <1>3 DEF AccountRequestAt, Pcs
<1>4. CASE l = "reset"
  BY <1>1, <1>4 DEF AccountRequestAt, Pcs
<1>5. CASE l = "revoke"
  BY <1>1, <1>5 DEF AccountRequestAt, Pcs
<1>6. CASE l \in {"count", "lookup", "insert row", "find"}
  BY <1>1, <1>6 DEF AccountRequestAt, Pcs
<1>7. CASE l = "delete row"
  BY <1>1, <1>7 DEF AccountRequestAt, Pcs
<1>. QED  BY <1>2, <1>3, <1>4, <1>5, <1>6, <1>7 DEF AccountPcs

\* The codes that there are.
LEMMA CodeFields ==
  ASSUME AccountTypeOK, NEW c \in Issued
  PROVE  /\ c \in CodeIds /\ c \in Int
         /\ createdAt[c] \in Nat /\ attempts[c] \in Nat /\ wrong[c] \in Nat /\ right[c] \in Nat
<1>1. issued \in 0 .. MaxCodes /\ MaxCodes \in Nat
  BY TypeParts, BoundAssumption DEF CodesOK
<1>2. c \in CodeIds /\ c \in Int
  BY <1>1 DEF Issued, CodeIds
<1>. QED  BY <1>2, TypeParts DEF CodesOK

\* A request begins well-typed.
LEMMA BeginTyped ==
  ASSUME AccountTypeOK, NEW t, NEW l, NEW r, Begins(t, l, r), served + 1 \in 0 .. MaxRequests
  PROVE  l \in AccountPcs \ {"idle"} /\ r \in AccountRequestAt(l)
<1>1. CASE l = "issue" /\ r = [at |-> clock]
  BY <1>1, TypeParts DEF AccountRequestAt, AccountPcs, Pcs, RequestAt, ThreadsOK
<1>2. CASE l = "verify" /\ \E c \in Latest, guess \in mailed \cup {WrongGuess} :
             ~consumed[c] /\ r = Judgement(c, guess)
  <2>1. PICK c \in Latest, guess \in mailed \cup {WrongGuess} : r = Judgement(c, guess)
    BY <1>2
  <2>2. c \in CodeIds /\ attempts[c] + 1 \in Nat
    BY <2>1, CodeFields DEF Latest
  <2>3. r \in [code : CodeIds, yes : BOOLEAN, attempts : Nat, counts : BOOLEAN, consume : BOOLEAN]
    BY <2>1, <2>2 DEF Judgement, Counted, Consumes, Expired, TooMany
  <2>. QED  BY <1>2, <2>3 DEF AccountRequestAt, AccountPcs, Pcs, RequestAt
<1>3. CASE l = "mint" /\ r = NoRequest
  BY <1>3 DEF AccountRequestAt, AccountPcs, Pcs
<1>4. ASSUME NEW k \in Tokens, Accepted(k),
             \/ l = "revoke" /\ r = [jti |-> k, reset |-> FALSE]
             \/ \E new \in Passwords : l = "reset" /\ r = [jti |-> k, new |-> new]
             \/ \E s \in Symbols : l \in {"count", "find"} /\ r = [jti |-> k, sym |-> s, id |-> served]
      PROVE  l \in AccountPcs \ {"idle"} /\ r \in AccountRequestAt(l)
  <2>1. k \in 1 .. minted
    BY <1>4 DEF Accepted
  <2>2. CASE l = "revoke" /\ r = [jti |-> k, reset |-> FALSE]
    BY <2>1, <2>2 DEF AccountRequestAt, AccountPcs, Pcs
  <2>3. CASE \E new \in Passwords : l = "reset" /\ r = [jti |-> k, new |-> new]
    <3>1. r \in [jti : 1 .. minted, new : Passwords]
      BY <2>1, <2>3
    <3>. QED  BY <2>3, <3>1 DEF AccountRequestAt, AccountPcs, Pcs
  <2>4. CASE \E s \in Symbols : l \in {"count", "find"} /\ r = [jti |-> k, sym |-> s, id |-> served]
    <3>1. r \in [jti : 1 .. minted, sym : Symbols, id : 0 .. MaxRequests]
      BY <2>1, <2>4, TypeParts DEF ThreadsOK
    <3>. QED  BY <2>4, <3>1 DEF AccountRequestAt, AccountPcs, Pcs
  <2>. QED  BY <1>4, <2>2, <2>3, <2>4
<1>. QED  BY <1>1, <1>2, <1>3, <1>4 DEF Begins

\* A thread that goes on has a request of the right type.
LEMMA GotoTyped ==
  ASSUME AccountTypeOK, NEW t \in Threads, NEW l \in AccountPcs, NEW r, Goto(t, l, r),
         r \in AccountRequestAt(l)', minted' \in Nat, minted <= minted'
  PROVE  ThreadsOK'
<1>1. minted \in Nat
  BY DEF AccountTypeOK
<1>2. ASSUME NEW x \in Threads, NEW m \in AccountPcs, pc[x] = m
      PROVE  req[x] \in AccountRequestAt(m)'
  BY <1>1, <1>2, RequestsStay DEF AccountTypeOK
<1>3. /\ pc' \in [Threads -> AccountPcs] /\ req' = [x \in Threads |-> req'[x]]
      /\ \A x \in Threads : IF x = t THEN pc'[x] = l /\ req'[x] = r
                                     ELSE pc'[x] = pc[x] /\ req'[x] = req[x]
  BY DEF Goto, AccountTypeOK
<1>4. ASSUME NEW x \in Threads
      PROVE  (req[x] \in AccountRequestAt(pc[x]))'
  <2>1. ASSUME NEW m \in AccountPcs, pc'[x] = m
        PROVE  req'[x] \in AccountRequestAt(m)'
    BY <1>2, <1>3, <2>1 DEF AccountTypeOK
  <2>2. pc'[x] \in AccountPcs
    BY <1>3
  <2>. QED  BY <2>1, <2>2 DEF AccountRequestAt
<1>. QED  BY <1>3, <1>4 DEF Goto, AccountTypeOK, ColumnsOK, ThreadsOK

\* A thread that stops has no request.
LEMMA EndTyped ==
  ASSUME AccountTypeOK, NEW t \in Threads, EndRequest(t), minted' \in Nat, minted <= minted'
  PROVE  ThreadsOK'
<1>1. "idle" \in AccountPcs /\ NoRequest \in AccountRequestAt("idle")'
  BY DEF AccountPcs, Pcs, AccountRequestAt, RequestAt
<1>. QED  BY <1>1, GotoTyped DEF EndRequest

\* Every step keeps the types.
LEMMA StepType ==
  ASSUME AccountTypeOK, NEW t \in Threads, AccountStep(t), Judged(t)
  PROVE  AccountTypeOK'
<1>0. ThreadsOK /\ SessionsOK /\ CodesOK /\ minted \in Nat
  BY TypeParts, TokenAssumption DEF SessionsOK
<1>a. (ThreadsOK /\ SessionsOK /\ CodesOK)' => AccountTypeOK'
  BY DEF AccountTypeOK, ColumnsOK, ThreadsOK, SessionsOK, CodesOK
<1>b. UNCHANGED <<session, watchlist>> =>
        SessionsOK' /\ minted' = minted /\ minted' \in Nat /\ minted <= minted'
  BY <1>0 DEF SessionsOK, session
<1>c. UNCHANGED <<table, verified, mailed, history>> => CodesOK'
  BY <1>0 DEF CodesOK, table, history, Issued
<1>1. CASE pc[t] = "idle"
  <2>1. PICK l, r : Begins(t, l, r) /\ Begin(t, l, r)
    BY <1>1, BeginForm
  <2>2. UNCHANGED <<table, verified, mailed, history, clock, session, watchlist>>
    BY <1>1, BeginForm
  <2>3. l \in AccountPcs /\ r \in AccountRequestAt(l) /\ served' \in 0 .. MaxRequests
    BY <2>1, BeginTyped, BoundAssumption DEF Begin, AccountTypeOK, ColumnsOK
  <2>4. \A m : AccountRequestAt(m) = AccountRequestAt(m)'
    BY <2>2 DEF session, AccountRequestAt, RequestAt
  <2>5. ThreadsOK'
    BY <1>0, <2>1, <2>2, <2>3, <2>4 DEF Begin, ThreadsOK
  <2>. QED  BY <1>a, <1>b, <1>c, <2>2, <2>5
<1>2. CASE pc[t] # "idle"
  <2>0. Goes(t)
    BY <1>2, GoForm
  <2>1. CASE IssueUpdate(t) /\ UNCHANGED <<session, watchlist>>
    <3>. DEFINE r == [at |-> req[t].at, old |-> Supersedable, expires |-> clock + Ttl]
    <3>1. r \in [at : Nat, old : SUBSET CodeIds, expires : Nat]
      <4>1. Supersedable \subseteq CodeIds
        BY CodeFields DEF Supersedable, Live
      <4>2. clock + Ttl \in Nat
        BY <1>0, LimitAssumption DEF ThreadsOK
      <4>3. req[t].at \in Nat
        BY <2>1, RequestFields DEF IssueUpdate
      <4>. QED  BY <4>1, <4>2, <4>3
    <3>2. Goto(t, "insert", r) /\ UNCHANGED <<table, verified, mailed, history>>
      BY <2>1 DEF IssueUpdate
    <3>. HIDE DEF r
    <3>3. "insert" \in AccountPcs /\ r \in AccountRequestAt("insert")'
      BY <3>1 DEF AccountPcs, Pcs, AccountRequestAt, RequestAt
    <3>4. SessionsOK' /\ minted' = minted
      BY <1>b, <2>1
    <3>5. ThreadsOK'
      BY <1>0, <3>2, <3>3, <3>4, GotoTyped
    <3>. QED  BY <1>a, <1>c, <3>2, <3>4, <3>5
  <2>2. CASE IssueCommit(t) /\ UNCHANGED <<session, watchlist>>
    <3>. DEFINE new == issued + 1   r == [code |-> new]
    <3>1. /\ new \in CodeIds /\ Goto(t, "send", r) /\ issued' = new
          /\ UNCHANGED <<verified, mailed, history>>
          /\ createdAt' = [createdAt EXCEPT ![new] = req[t].at]
          /\ expiresAt' = [expiresAt EXCEPT ![new] = req[t].expires]
          /\ attempts' = [attempts EXCEPT ![new] = 0]
          /\ consumed' = [c \in CodeIds |-> consumed[c] \/ c \in req[t].old]
      BY <2>2 DEF IssueCommit
    <3>2. req[t].at \in Nat /\ req[t].expires \in Nat
      BY <2>2, RequestFields DEF IssueCommit
    <3>3. "send" \in AccountPcs /\ r \in AccountRequestAt("send")'
      BY <3>1 DEF AccountPcs, Pcs, AccountRequestAt, RequestAt
    <3>4. Issued \subseteq Issued'
      BY <3>1 DEF Issued, AccountTypeOK, ColumnsOK
    <3>5. CodesOK'
      <4>0. CodesOK
        BY <1>0
      <4>1. issued' \in 0 .. MaxCodes
        BY <3>1, BoundAssumption DEF CodeIds
      <4>2. createdAt' \in [CodeIds -> Nat] /\ expiresAt' \in [CodeIds -> Nat]
        BY <3>1, <3>2, <4>0 DEF CodesOK
      <4>3. attempts' \in [CodeIds -> Nat] /\ wrong' \in [CodeIds -> Nat] /\ right' \in [CodeIds -> Nat]
        BY <3>1, <4>0 DEF CodesOK, history
      <4>4. consumed' \in [CodeIds -> BOOLEAN]
        BY <3>1, Zenon
      <4>5. verified' \in BOOLEAN /\ mailed' \subseteq Issued'
        BY <3>1, <3>4, <4>0 DEF CodesOK
      <4>. QED  BY <4>1, <4>2, <4>3, <4>4, <4>5 DEF CodesOK
    <3>. HIDE DEF r
    <3>6. SessionsOK' /\ minted' = minted
      BY <1>b, <2>2
    <3>7. ThreadsOK'
      BY <1>0, <3>1, <3>3, <3>6, GotoTyped
    <3>. QED  BY <1>a, <3>5, <3>6, <3>7
  <2>3. CASE Send(t) /\ UNCHANGED <<session, watchlist>>
    <3>1. SessionsOK' /\ minted' = minted
      BY <1>b, <2>3
    <3>2. ThreadsOK'
      BY <1>0, <2>3, <3>1, EndTyped DEF Send
    <3>3. req[t].code \in Issued
      BY <2>3 DEF Send, Judged
    <3>. QED  BY <1>0, <1>a, <2>3, <3>1, <3>2, <3>3 DEF Send, CodesOK, table, history, Issued
  <2>4. CASE VerifyCommit(t) /\ UNCHANGED <<session, watchlist>>
    <3>1. /\ pc[t] = "verify" /\ req[t] \in
             [code : CodeIds, yes : BOOLEAN, attempts : Nat, counts : BOOLEAN, consume : BOOLEAN]
          /\ UNCHANGED <<issued, createdAt, expiresAt, verified, mailed>>
      BY <2>4, RequestFields DEF VerifyCommit
    <3>2. CodesOK'
      BY <1>0, <2>4, <3>1 DEF VerifyCommit, ConsumedAfter, CodesOK, Issued
    <3>3. "activate" \in AccountPcs /\ req[t] \in AccountRequestAt("activate")'
      BY <3>1 DEF AccountPcs, Pcs, AccountRequestAt, RequestAt
    <3>4. Goto(t, "activate", req[t]) \/ EndRequest(t)
      BY <2>4 DEF VerifyCommit
    <3>5. SessionsOK' /\ minted' = minted
      BY <1>b, <2>4
    <3>6. ThreadsOK'
      BY <1>0, <3>3, <3>4, <3>5, GotoTyped, EndTyped
    <3>. QED  BY <1>a, <3>2, <3>5, <3>6
  <2>5. CASE Fail(t) /\ UNCHANGED <<session, watchlist>>
    <3>1. SessionsOK' /\ minted' = minted
      BY <1>b, <2>5
    <3>2. ThreadsOK' /\ CodesOK'
      BY <1>0, <1>c, <2>5, <3>1, EndTyped DEF Fail
    <3>. QED  BY <1>a, <3>1, <3>2
  <2>6. CASE (ActivateAndMint(t) \/ Mint(t)) /\ UNCHANGED watchlist
    <3>1. EndRequest(t) /\ minted' \in minted .. MaxTokens
      BY <1>0, <2>6, TokenAssumption DEF ActivateAndMint, Activate, Mint, SessionsOK, Tokens
    <3>2. ThreadsOK'
      BY <1>0, <3>1, TokenAssumption, EndTyped
    <3>3. SessionsOK'
      <4>1. UNCHANGED <<password, revoked, late, watchlist>>
        BY <2>6 DEF ActivateAndMint, Mint
      <4>2. minted' \in 0 .. MaxTokens /\ 1 .. minted \subseteq 1 .. minted'
        BY <1>0, <3>1, TokenAssumption
      <4>. QED  BY <1>0, <4>1, <4>2 DEF SessionsOK
    <3>4. CodesOK'
      BY <1>0, <2>6 DEF ActivateAndMint, Activate, Mint, CodesOK, table, history, Issued
    <3>. QED  BY <1>a, <3>2, <3>3, <3>4
  <2>7. CASE ResetCommit(t) /\ UNCHANGED watchlist
    <3>. DEFINE r == [jti |-> req[t].jti, reset |-> TRUE]
    <3>1. /\ req[t] \in [jti : 1 .. minted, new : Passwords] /\ Goto(t, "revoke", r)
          /\ minted' = minted
      BY <2>7, RequestFields DEF ResetCommit
    <3>2. "revoke" \in AccountPcs /\ r \in AccountRequestAt("revoke")'
      BY <3>1 DEF AccountPcs, AccountRequestAt, Pcs
    <3>. HIDE DEF r
    <3>3. ThreadsOK'
      BY <1>0, <3>1, <3>2, GotoTyped
    <3>4. SessionsOK'
      <4>0. SessionsOK
        BY <1>0
      <4>1. password' \in Passwords /\ Act(req[t].jti) /\ UNCHANGED <<minted, revoked, watchlist>>
        BY <2>7, <3>1 DEF ResetCommit
      <4>2. late' \in [Tokens -> Nat]
        BY <4>0, <4>1, ActTyped DEF SessionsOK
      <4>. QED  BY <4>0, <4>1, <4>2 DEF SessionsOK
    <3>5. UNCHANGED <<table, verified, mailed, history>>
      BY <2>7 DEF ResetCommit
    <3>. QED  BY <1>a, <1>c, <3>3, <3>4, <3>5
  <2>8. CASE Revoke(t) /\ UNCHANGED watchlist
    <3>1. req[t].jti \in 1 .. minted /\ EndRequest(t) /\ minted' = minted
      BY <2>8, RequestFields DEF Revoke
    <3>2. ThreadsOK'
      BY <1>0, <3>1, EndTyped
    <3>3. SessionsOK'
      BY <1>0, <2>8, <3>1 DEF Revoke, SessionsOK
    <3>4. UNCHANGED <<table, verified, mailed, history>>
      BY <2>8 DEF Revoke
    <3>. QED  BY <1>a, <1>c, <3>2, <3>3, <3>4
  <2>9. CASE AddCount(t) \/ AddLookup(t)
    <3>1. req[t] \in [jti : 1 .. minted, sym : Symbols, id : 0 .. MaxRequests]
      BY <2>9, RequestFields DEF AddCount, AddLookup
    <3>2. UNCHANGED <<table, verified, mailed, history, session, watchlist>>
      BY <2>9 DEF AddCount, AddLookup, Advance, Refuse
    <3>3. PICK l \in {"lookup", "insert row"} : Goto(t, l, req[t]) \/ EndRequest(t)
      BY <2>9 DEF AddCount, AddLookup, Advance, Refuse
    <3>4. l \in AccountPcs /\ req[t] \in AccountRequestAt(l)'
      BY <3>1, <3>2 DEF AccountPcs, AccountRequestAt, Pcs, session
    <3>5. SessionsOK' /\ CodesOK' /\ minted' \in Nat /\ minted <= minted'
      BY <1>b, <1>c, <3>2
    <3>6. ThreadsOK'
      <4>1. CASE Goto(t, l, req[t])
        BY <3>4, <3>5, <4>1, GotoTyped
      <4>2. CASE EndRequest(t)
        BY <3>5, <4>2, EndTyped
      <4>. QED  BY <3>3, <4>1, <4>2
    <3>. QED  BY <1>a, <3>5, <3>6
  <2>10. CASE AddInsert(t)
    <3>1. req[t] \in [jti : 1 .. minted, sym : Symbols, id : 0 .. MaxRequests]
      BY <2>10, RequestFields DEF AddInsert
    <3>. DEFINE w == [id |-> req[t].id, sym |-> req[t].sym]
    <3>2. w \in Row /\ watchlist' = watchlist \cup {w}
      BY <2>10, <3>1 DEF AddInsert, Row
    <3>. HIDE DEF w
    <3>3. /\ EndRequest(t) /\ Act(req[t].jti)
          /\ UNCHANGED <<password, minted, revoked>>
          /\ UNCHANGED <<table, verified, mailed, history>>
      BY <2>10 DEF AddInsert
    <3>4. SessionsOK'
      BY <1>0, <3>1, <3>2, <3>3, ActTyped DEF SessionsOK
    <3>5. ThreadsOK'
      BY <1>0, <3>3, EndTyped
    <3>. QED  BY <1>a, <1>c, <3>3, <3>4, <3>5
  <2>11. CASE RemoveFind(t)
    <3>1. UNCHANGED <<table, verified, mailed, history, session, watchlist>>
      BY <2>11 DEF RemoveFind, Refuse
    <3>2. CASE EndRequest(t)
      <4>1. SessionsOK' /\ CodesOK' /\ minted' \in Nat /\ minted <= minted'
        BY <1>b, <1>c, <3>1
      <4>2. ThreadsOK'
        BY <1>0, <3>2, <4>1, EndTyped
      <4>. QED  BY <1>a, <4>1, <4>2
    <3>3. ASSUME NEW w \in Watched(req[t].sym), Goto(t, "delete row", [jti |-> req[t].jti, row |-> w])
          PROVE  AccountTypeOK'
      <4>. DEFINE r == [jti |-> req[t].jti, row |-> w]
      <4>1. w \in Row /\ req[t].jti \in 1 .. minted
        BY <2>11, RequestFields DEF RemoveFind, Watched, AccountTypeOK
      <4>2. "delete row" \in AccountPcs /\ r \in AccountRequestAt("delete row")'
        BY <3>1, <4>1 DEF AccountPcs, AccountRequestAt, Pcs, session, Row
      <4>3. Goto(t, "delete row", r)
        BY <3>3
      <4>. HIDE DEF r
      <4>4. SessionsOK' /\ CodesOK' /\ minted' \in Nat /\ minted <= minted'
        BY <1>b, <1>c, <3>1
      <4>5. ThreadsOK'
        BY <4>2, <4>3, <4>4, GotoTyped
      <4>. QED  BY <1>a, <4>4, <4>5
    <3>. QED  BY <2>11, <3>2, <3>3 DEF RemoveFind, Refuse
  <2>12. CASE RemoveDelete(t)
    <3>1. req[t].jti \in 1 .. minted
      BY <2>12, RequestFields DEF RemoveDelete
    <3>2. /\ EndRequest(t) /\ Act(req[t].jti) /\ watchlist' \subseteq watchlist
          /\ UNCHANGED <<password, minted, revoked>>
          /\ UNCHANGED <<table, verified, mailed, history>>
      BY <2>12 DEF RemoveDelete
    <3>3. SessionsOK'
      BY <1>0, <3>1, <3>2, ActTyped DEF SessionsOK
    <3>4. ThreadsOK'
      BY <1>0, <3>2, EndTyped
    <3>. QED  BY <1>a, <1>c, <3>2, <3>3, <3>4
  <2>. QED
    BY <2>0, <2>1, <2>2, <2>3, <2>4, <2>5, <2>6, <2>7, <2>8, <2>9, <2>10, <2>11, <2>12 DEF Goes
<1>. QED  BY <1>1, <1>2

-----------------------------------------------------------------------------
(* The inductive invariant *)

\* What only grows.
LEMMA Monotone ==
  ASSUME AccountTypeOK, NEW t \in Threads, AccountStep(t)
  PROVE  /\ issued \in Nat /\ issued' \in {issued, issued + 1} /\ Issued \subseteq Issued'
         /\ verified => verified'
         /\ \A c \in CodeIds : (consumed[c] => consumed'[c]) /\ right'[c] >= right[c]
<1>0. CodesOK
  BY TypeParts
<1>1. issued \in Nat
  BY <1>0, BoundAssumption DEF CodesOK
<1>2. CASE UNCHANGED <<table, verified, history>>
  BY <1>0, <1>1, <1>2 DEF table, history, Issued, CodesOK
<1>3. CASE IssueCommit(t)
  BY <1>0, <1>1, <1>3 DEF IssueCommit, history, Issued, CodesOK
<1>4. CASE VerifyCommit(t)
  <2>1. req[t].code \in CodeIds
    BY <1>4, RequestFields DEF VerifyCommit
  <2>. QED  BY <1>0, <1>1, <1>4, <2>1 DEF VerifyCommit, ConsumedAfter, Issued, CodesOK
<1>5. CASE Activate(t)
  BY <1>0, <1>1, <1>5 DEF Activate, table, history, Issued, CodesOK
<1>6. CASE pc[t] = "idle"
  BY <1>2, <1>6, BeginForm
<1>. QED
  BY <1>2, <1>3, <1>4, <1>5, <1>6, GoForm DEF Goes, IssueUpdate, Send, Fail, ActivateAndMint, Mint,
    ResetCommit, Revoke, AddCount, AddLookup, AddInsert, RemoveFind, RemoveDelete, Advance, Refuse

\* What a thread holds when it is sending or judging a code.
LEMMA StepJudged ==
  ASSUME AccountTypeOK, NEW t \in Threads, AccountStep(t), \A x \in Threads : Judged(x)
  PROVE  \A x \in Threads : Judged(x)'
<1>1. ASSUME NEW x \in Threads \ {t}
      PROVE  Judged(x)'
  BY OthersStay, Monotone DEF Judged
<1>2. ASSUME pc[t] = "idle"
      PROVE  Judged(t)'
  <2>1. PICK l, r : Begins(t, l, r) /\ Begin(t, l, r)
    BY <1>2, BeginForm
  <2>2. pc'[t] = l /\ req'[t] = r
    BY <2>1 DEF Begin, AccountTypeOK
  <2>3. CASE l \notin {"send", "verify"}
    BY <2>2, <2>3 DEF Judged
  <2>4. CASE l \in {"send", "verify"}
    <3>1. PICK c \in Latest, guess \in mailed \cup {WrongGuess} : l = "verify" /\ r = Judgement(c, guess)
      BY <2>1, <2>4 DEF Begins
    <3>2. c \in Issued
      BY DEF Latest
    <3>3. r.code = c /\ (r.consume \/ (r.counts /\ ~r.yes))
      BY <3>1 DEF Judgement, Consumes
    <3>. QED  BY <2>2, <3>1, <3>2, <3>3, Monotone DEF Judged
  <2>. QED  BY <2>3, <2>4
<1>3. ASSUME pc[t] # "idle"
      PROVE  Judged(t)'
  <2>1. CASE IssueCommit(t)
    <3>1. pc'[t] = "send" /\ req'[t].code = issued' /\ issued' = issued + 1
      BY <2>1 DEF IssueCommit, Goto, AccountTypeOK
    <3>2. issued' \in Issued'
      BY <3>1, Monotone DEF Issued
    <3>. QED  BY <3>1, <3>2 DEF Judged
  <2>2. CASE ~IssueCommit(t)
    <3>1. pc'[t] \notin {"send", "verify"}
      BY <1>3, <2>2, GoForm DEF Goes, IssueUpdate, IssueCommit, Send, VerifyCommit, Fail,
        ActivateAndMint, Activate, Mint, ResetCommit, Revoke, AddCount, AddLookup, AddInsert,
        RemoveFind, RemoveDelete, Advance, Refuse, EndRequest, Goto, AccountTypeOK
    <3>. QED  BY <3>1 DEF Judged
  <2>. QED  BY <2>1, <2>2
<1>. QED  BY <1>1, <1>2, <1>3

\* A session, and every way to one, comes after a yes.
LEMMA StepProof ==
  ASSUME AccountTypeOK, NEW t \in Threads, AccountStep(t), Judged(t), ProofFirst
  PROVE  ProofFirst'
<1>0. Proven => Proven'
  <2>1. ASSUME NEW c \in Issued, right[c] > 0
        PROVE  Proven'
    <3>1. c \in Issued' /\ c \in CodeIds /\ right'[c] >= right[c] /\ right[c] \in Nat
      BY Monotone, CodeFields
    <3>2. right'[c] > 0
      BY <2>1, <3>1, StepType, TypeParts DEF AccountTypeOK, ColumnsOK
    <3>. QED  BY <3>1, <3>2 DEF Proven
  <2>. QED  BY <2>1 DEF Proven
<1>1. CASE Proven
  BY <1>0, <1>1 DEF ProofFirst
<1>2. CASE ~Proven
  <2>1. /\ ~verified /\ minted = 0
        /\ \A x \in Threads : pc[x] \notin {"activate", "mint"}
    BY <1>2, TypeParts, TokenAssumption DEF ProofFirst, SessionsOK
  <2>2. CASE VerifyCommit(t) /\ req[t].yes
    <3>. DEFINE c == req[t].code
    <3>1. c \in Issued /\ right' = [right EXCEPT ![c] = right[c] + 1] /\ c \in Issued'
      BY <2>2, Monotone DEF VerifyCommit, Judged
    <3>2. right'[c] > 0
      BY <3>1, CodeFields, TypeParts DEF CodesOK
    <3>. QED  BY <3>1, <3>2 DEF ProofFirst, Proven
  <2>3. CASE ~(VerifyCommit(t) /\ req[t].yes)
    <3>1. /\ verified' = verified /\ pc'[t] \notin {"activate", "mint"}
    <4>1. CASE pc[t] = "idle"
      <5>1. PICK l, r : Begins(t, l, r) /\ Begin(t, l, r)
        BY <4>1, BeginForm
      <5>2. pc'[t] = l /\ l \notin {"activate", "mint"}
        BY <2>1, <5>1 DEF Begin, Begins, AccountTypeOK
      <5>. QED  BY <4>1, <5>2, BeginForm
    <4>2. CASE pc[t] # "idle"
      BY <2>1, <2>3, <4>2, GoForm DEF Goes, IssueUpdate, IssueCommit, Send, VerifyCommit, Fail,
        ActivateAndMint, Activate, Mint, ResetCommit, Revoke, AddCount, AddLookup, AddInsert,
        RemoveFind, RemoveDelete, Advance, Refuse, EndRequest, Goto, AccountTypeOK
    <4>. QED  BY <4>1, <4>2
    <3>2. minted' = minted
    <4>1. CASE pc[t] = "idle"
      BY <4>1, BeginForm DEF session
    <4>2. CASE pc[t] # "idle"
      BY <2>1, <4>2, GoForm DEF Goes, ActivateAndMint, Activate, Mint, ResetCommit, Revoke, AddCount,
        AddLookup, AddInsert, RemoveFind, RemoveDelete, Advance, Refuse, session
    <4>. QED  BY <4>1, <4>2
    <3>. QED  BY <2>1, <3>1, <3>2, OthersStay DEF ProofFirst
  <2>. QED  BY <2>2, <2>3
<1>. QED  BY <1>1, <1>2

\* A right guess uses its code up.
LEMMA StepAnswered ==
  ASSUME AccountTypeOK, NEW t \in Threads, AccountStep(t), Judged(t), Answered
  PROVE  Answered'
<1>0. CodesOK
  BY TypeParts
<1>1. CASE VerifyCommit(t)
  <2>. DEFINE c == req[t].code
  <2>1. c \in Issued /\ c \in CodeIds /\ issued' = issued
    BY <1>1, CodeFields DEF VerifyCommit, Judged
  <2>2. /\ consumed' = [consumed EXCEPT ![c] = consumed[c] \/ req[t].consume]
        /\ \/ req[t].consume /\ right' = [right EXCEPT ![c] = right[c] + 1] /\ wrong' = wrong
           \/ right' = right /\ wrong' = [wrong EXCEPT ![c] = wrong[c] + 1]
    BY <1>1 DEF VerifyCommit, ConsumedAfter, Judged
  <2>. HIDE DEF c
  <2>. QED  BY <1>0, <2>1, <2>2 DEF Answered, CodesOK, Issued
<1>2. CASE UNCHANGED history
  BY <1>2, Monotone DEF history, Answered
<1>3. CASE pc[t] = "idle"
  BY <1>2, <1>3, BeginForm
<1>. QED
  BY <1>1, <1>2, <1>3, GoForm DEF Goes, IssueUpdate, IssueCommit, Send, Fail, ActivateAndMint, Activate,
    Mint, ResetCommit, Revoke, AddCount, AddLookup, AddInsert, RemoveFind, RemoveDelete, Advance, Refuse

\* A code is dated by the clock its request read when it began.
LEMMA StepDated ==
  ASSUME AccountTypeOK, NEW t \in Threads, AccountStep(t), Dated
  PROVE  Dated'
<1>0. clock' = clock /\ clock \in Nat
  BY OthersStay, TypeParts DEF ThreadsOK
<1>1. CASE IssueCommit(t)
  <2>1. /\ issued' = issued + 1 /\ issued + 1 \in CodeIds
        /\ createdAt' = [createdAt EXCEPT ![issued + 1] = req[t].at] /\ pc[t] = "insert"
        /\ pc'[t] = "send"
    BY <1>1 DEF IssueCommit, Goto, AccountTypeOK
  <2>2. \A c \in Issued' : c \in Issued \/ c = issued + 1
    BY <2>1, Monotone DEF Issued
  <2>3. \A c \in Issued' : createdAt'[c] <= clock'
    BY <1>0, <2>1, <2>2, CodeFields, TypeParts DEF Dated, CodesOK, Issued
  <2>. QED  BY <1>0, <2>1, <2>3, OthersStay DEF Dated
<1>2. CASE ~IssueCommit(t)
  <2>1. UNCHANGED <<issued, createdAt>>
    <3>1. CASE pc[t] = "idle"
      BY <3>1, BeginForm DEF table
    <3>2. CASE pc[t] # "idle"
      BY <1>2, <3>2, GoForm DEF Goes, IssueUpdate, Send, VerifyCommit, Fail,
        ActivateAndMint, Activate, Mint, ResetCommit, Revoke, AddCount, AddLookup, AddInsert,
        RemoveFind, RemoveDelete, Advance, Refuse, table
    <3>. QED  BY <3>1, <3>2
  <2>2. pc'[t] \in {"issue", "insert"} => req'[t].at <= clock
    <3>1. CASE pc[t] = "idle"
      <4>1. PICK l, r : Begins(t, l, r) /\ Begin(t, l, r)
        BY <3>1, BeginForm
      <4>2. pc'[t] = l /\ req'[t] = r
        BY <4>1 DEF Begin, AccountTypeOK
      <4>3. l \in {"issue", "insert"} => r = [at |-> clock]
        BY <4>1 DEF Begins
      <4>. QED  BY <1>0, <4>2, <4>3
    <3>2. CASE IssueUpdate(t)
      BY <3>2 DEF IssueUpdate, Goto, AccountTypeOK, Dated
    <3>3. CASE pc[t] # "idle" /\ ~IssueUpdate(t)
      <4>1. pc'[t] \notin {"issue", "insert"}
        BY <3>3, GoForm DEF Goes, IssueCommit, Send, VerifyCommit, Fail,
          ActivateAndMint, Activate, Mint, ResetCommit, Revoke, AddCount, AddLookup, AddInsert,
          RemoveFind, RemoveDelete, Advance, Refuse, EndRequest, Goto, AccountTypeOK
      <4>. QED  BY <4>1
    <3>. QED  BY <3>1, <3>2, <3>3
  <2>. QED  BY <1>0, <2>1, <2>2, OthersStay DEF Dated, Issued
<1>. QED  BY <1>1, <1>2

-----------------------------------------------------------------------------
(* Counting threads *)

LEMMA SomeThreads ==
  ASSUME NEW S \in SUBSET Threads
  PROVE  /\ IsFiniteSet(S) /\ Cardinality(S) \in Nat /\ Cardinality(Threads) \in Nat
         /\ Cardinality(S) <= Cardinality(Threads)
         /\ \A R \in SUBSET S : Cardinality(R) <= Cardinality(S)
         /\ \A t \in S : Cardinality(S \ {t}) = Cardinality(S) - 1
<1>1. IsFiniteSet(S) /\ Cardinality(S) <= Cardinality(Threads)
  BY ThreadAssumption, FS_Subset
<1>2. Cardinality(S) \in Nat /\ Cardinality(Threads) \in Nat
  BY <1>1, ThreadAssumption, FS_CardinalityType
<1>3. \A R \in SUBSET S : Cardinality(R) <= Cardinality(S)
  BY <1>1, FS_Subset
<1>4. ASSUME NEW t \in S
      PROVE  Cardinality(S \ {t}) = Cardinality(S) - 1
  BY <1>1, FS_RemoveElement
<1>. QED  BY <1>1, <1>2, <1>3, <1>4

\* There is room for one more thread than those that leave one out.
LEMMA OneLeftOut ==
  ASSUME NEW S \in SUBSET Threads, NEW t \in Threads, t \notin S
  PROVE  Cardinality(S) < Cardinality(Threads)
<1>1. S \in SUBSET (Threads \ {t})
  OBVIOUS
<1>2. Cardinality(Threads \ {t}) = Cardinality(Threads) - 1 /\ Cardinality(Threads) \in Nat
  BY SomeThreads
<1>3. Cardinality(S) <= Cardinality(Threads \ {t}) /\ Cardinality(S) \in Nat
  BY <1>1, SomeThreads
<1>. QED  BY <1>2, <1>3

\* What a step does to the tokens: it may act with the token it holds and is
\* then done with it, or revoke it, or begin with one that is not revoked.
LEMMA TokenEffect ==
  ASSUME AccountTypeOK, NEW t \in Threads, AccountStep(t)
  PROVE  \/ /\ late' = late /\ revoked' = revoked
            /\ \A k \in revoked : Acting(k)' \subseteq Acting(k)
         \/ \E k \in Tokens \cap revoked :
              /\ late' = [late EXCEPT ![k] = late[k] + 1] /\ revoked' = revoked
              /\ t \in Acting(k) /\ \A j \in Tokens : Acting(j)' \subseteq Acting(j) \ {t}
         \/ \E k \in Tokens :
              /\ late' = late /\ revoked' = revoked \cup {k}
              /\ \A j \in Tokens : t \notin Acting(j) /\ Acting(j)' \subseteq Acting(j)
<1>0. 1 .. minted \subseteq Tokens
  BY TypeParts, TokenAssumption DEF SessionsOK, Tokens
<1>1. \A k : Acting(k)' \ {t} = Acting(k) \ {t}
  BY OthersStay DEF Acting
<1>2. CASE pc[t] = "idle"
  <2>1. PICK l, r : Begins(t, l, r) /\ Begin(t, l, r)
    BY <1>2, BeginForm
  <2>2. pc'[t] = l /\ req'[t] = r /\ late' = late /\ revoked' = revoked
    BY <1>2, <2>1, BeginForm DEF Begin, AccountTypeOK, session
  <2>3. l \in Held => r.jti \notin revoked
    <3>1. SUFFICES ASSUME l \in Held PROVE r.jti \notin revoked
      OBVIOUS
    <3>2. PICK k \in Tokens : Accepted(k) /\
            \/ r = [jti |-> k, reset |-> FALSE]
            \/ \E new \in Passwords : r = [jti |-> k, new |-> new]
            \/ \E s \in Symbols : r = [jti |-> k, sym |-> s, id |-> served]
      BY <2>1, <3>1 DEF Begins, Held
    <3>3. r.jti = k
      BY <3>2
    <3>. QED  BY <3>2, <3>3 DEF Accepted
  <2>4. \A k \in revoked : t \notin Acting(k)'
    BY <2>2, <2>3 DEF Acting
  <2>. QED  BY <1>1, <2>2, <2>4
<1>3. CASE pc'[t] \notin Held /\ late' = late /\ revoked' = revoked
  BY <1>1, <1>3 DEF Acting
<1>4. CASE Revoke(t)
  <2>1. /\ late' = late /\ revoked' = revoked \cup {req[t].jti} /\ req[t].jti \in Tokens
        /\ pc[t] = "revoke" /\ pc'[t] = "idle"
    BY <1>0, <1>4, RequestFields DEF Revoke, EndRequest, Goto, AccountTypeOK
  <2>2. \A j \in Tokens : t \notin Acting(j) /\ Acting(j)' \subseteq Acting(j)
    BY <1>1, <2>1 DEF Acting, Held
  <2>. QED  BY <2>1, <2>2
<1>5. CASE ResetCommit(t) \/ AddInsert(t) \/ RemoveDelete(t)
  <2>. DEFINE k == req[t].jti
  <2>1. k \in Tokens
    <3>1. k \in 1 .. minted
      BY <1>5, RequestFields DEF ResetCommit, AddInsert, RemoveDelete
    <3>. QED  BY <1>0, <3>1
  <2>2. Act(k) /\ revoked' = revoked /\ pc[t] \in Held
    BY <1>5 DEF ResetCommit, AddInsert, RemoveDelete, Held
  <2>3. pc'[t] \notin Held
    BY <1>5 DEF ResetCommit, AddInsert, RemoveDelete, Held, EndRequest, Goto, AccountTypeOK
  <2>4. t \in Acting(k) /\ \A j \in Tokens : Acting(j)' \subseteq Acting(j) \ {t}
    BY <1>1, <2>2, <2>3 DEF Acting
  <2>5. CASE k \in revoked
    BY <2>1, <2>2, <2>4, <2>5 DEF Act
  <2>6. CASE k \notin revoked
    <3>1. late' = late
      BY <2>2, <2>6 DEF Act
    <3>2. \A j \in revoked : Acting(j)' \subseteq Acting(j)
      BY <1>1, <2>3 DEF Acting
    <3>. QED  BY <2>2, <3>1, <3>2
  <2>. QED  BY <2>5, <2>6
<1>6. CASE AddCount(t) \/ AddLookup(t) \/ RemoveFind(t)
  <2>1. /\ late' = late /\ revoked' = revoked /\ pc[t] \in Held
        /\ pc'[t] = "idle" \/ req'[t].jti = req[t].jti
    <3>1. /\ late' = late /\ revoked' = revoked /\ pc[t] \in Held
      BY <1>6 DEF AddCount, AddLookup, RemoveFind, Advance, Refuse, session, Held
    <3>2. \/ EndRequest(t) \/ \E l : Goto(t, l, req[t])
          \/ \E l, w : Goto(t, l, [jti |-> req[t].jti, row |-> w])
      BY <1>6 DEF AddCount, AddLookup, RemoveFind, Advance, Refuse
    <3>3. CASE EndRequest(t)
      BY <3>1, <3>3 DEF EndRequest, Goto, AccountTypeOK
    <3>4. CASE \E l : Goto(t, l, req[t])
      BY <3>1, <3>4 DEF Goto, AccountTypeOK
    <3>5. CASE \E l, w : Goto(t, l, [jti |-> req[t].jti, row |-> w])
      <4>1. PICK l, w : Goto(t, l, [jti |-> req[t].jti, row |-> w])
        BY <3>5
      <4>2. req'[t] = [jti |-> req[t].jti, row |-> w]
        BY <4>1 DEF Goto, AccountTypeOK
      <4>. QED  BY <3>1, <4>2
    <3>. QED  BY <3>1, <3>2, <3>3, <3>4, <3>5
  <2>2. \A k : t \in Acting(k)' => t \in Acting(k)
    BY <2>1 DEF Acting, Held
  <2>. QED  BY <1>1, <2>1, <2>2
<1>7. CASE \/ IssueUpdate(t) /\ UNCHANGED session
           \/ IssueCommit(t) /\ UNCHANGED session
           \/ Send(t) /\ UNCHANGED session
           \/ VerifyCommit(t) /\ UNCHANGED session
           \/ Fail(t) /\ UNCHANGED session
           \/ ActivateAndMint(t)
           \/ Mint(t)
  BY <1>3, <1>7 DEF IssueUpdate, IssueCommit, Send, VerifyCommit, Fail, ActivateAndMint, Activate,
    Mint, EndRequest, Goto, AccountTypeOK, session, Held
<1>. QED  BY <1>2, <1>4, <1>5, <1>6, <1>7, GoForm DEF Goes

\* After a revocation, what is late and what may still be late are together fewer
\* than the threads.
LEMMA StepLate ==
  ASSUME AccountTypeOK, NEW t \in Threads, AccountStep(t), LateBounded
  PROVE  LateBounded'
<1>0. /\ late \in [Tokens -> Nat]
      /\ \A k : /\ Acting(k) \in SUBSET Threads /\ Cardinality(Acting(k)) \in Nat
                /\ \A R \in SUBSET Acting(k) : Cardinality(R) \in Nat /\ Cardinality(R) <= Cardinality(Acting(k))
                /\ t \in Acting(k) => Cardinality(Acting(k) \ {t}) = Cardinality(Acting(k)) - 1
                /\ t \notin Acting(k) => Cardinality(Acting(k)) < Cardinality(Threads)
  <2>1. ASSUME NEW k
        PROVE  /\ Acting(k) \in SUBSET Threads /\ Cardinality(Acting(k)) \in Nat
               /\ \A R \in SUBSET Acting(k) : Cardinality(R) \in Nat /\ Cardinality(R) <= Cardinality(Acting(k))
               /\ t \in Acting(k) => Cardinality(Acting(k) \ {t}) = Cardinality(Acting(k)) - 1
               /\ t \notin Acting(k) => Cardinality(Acting(k)) < Cardinality(Threads)
    <3>1. Acting(k) \in SUBSET Threads
      BY DEF Acting
    <3>. HIDE DEF Acting
    <3>. QED  BY <3>1, SomeThreads, OneLeftOut
  <2>. QED  BY <2>1, TypeParts DEF SessionsOK
<1>. SUFFICES ASSUME NEW k \in Tokens
              PROVE  IF k \in revoked'
                     THEN late'[k] + Cardinality(Acting(k)') < Cardinality(Threads)
                     ELSE late'[k] = 0
  BY DEF LateBounded
<1>1. Cardinality(Threads) \in Nat
  BY SomeThreads
<1>2. IF k \in revoked THEN late[k] + Cardinality(Acting(k)) < Cardinality(Threads) ELSE late[k] = 0
  BY DEF LateBounded
<1>3. CASE /\ late' = late /\ revoked' = revoked
           /\ \A j \in revoked : Acting(j)' \subseteq Acting(j)
  <2>1. CASE k \in revoked
    <3>1. Acting(k)' \in SUBSET Acting(k) /\ late'[k] = late[k] /\ late[k] \in Nat
      BY <1>0, <1>3, <2>1
    <3>2. Cardinality(Acting(k)') <= Cardinality(Acting(k)) /\ Cardinality(Acting(k)') \in Nat
      BY <1>0, <3>1
    <3>3. late[k] + Cardinality(Acting(k)) < Cardinality(Threads) /\ Cardinality(Acting(k)) \in Nat
      BY <1>0, <1>2, <2>1
    <3>. QED  BY <1>1, <1>3, <2>1, <3>1, <3>2, <3>3
  <2>2. CASE k \notin revoked
    BY <1>2, <1>3, <2>2
  <2>. QED  BY <2>1, <2>2
<1>4. CASE \E j \in Tokens \cap revoked :
              /\ late' = [late EXCEPT ![j] = late[j] + 1] /\ revoked' = revoked
              /\ t \in Acting(j) /\ \A i \in Tokens : Acting(i)' \subseteq Acting(i) \ {t}
  <2>1. PICK j \in Tokens \cap revoked :
              /\ late' = [late EXCEPT ![j] = late[j] + 1] /\ revoked' = revoked
              /\ t \in Acting(j) /\ \A i \in Tokens : Acting(i)' \subseteq Acting(i) \ {t}
    BY <1>4
  <2>2. CASE k = j
    <3>1. Acting(k) \ {t} \in SUBSET Acting(k) /\ Cardinality(Acting(k) \ {t}) = Cardinality(Acting(k)) - 1
      BY <1>0, <2>1, <2>2
    <3>2. Cardinality(Acting(k)') <= Cardinality(Acting(k) \ {t}) /\ Cardinality(Acting(k)') \in Nat
      <4>1. Acting(k) \ {t} \in SUBSET Threads /\ Acting(k)' \in SUBSET (Acting(k) \ {t})
        BY <1>0, <2>1
      <4>. HIDE DEF Acting
      <4>2. Cardinality(Acting(k)') <= Cardinality(Acting(k) \ {t})
        BY <4>1, SomeThreads
      <4>. QED  BY <1>0, <4>1, <4>2
    <3>3. late'[k] = late[k] + 1 /\ late[k] \in Nat
      BY <1>0, <2>1, <2>2
    <3>. QED  BY <1>0, <1>1, <1>2, <2>1, <2>2, <3>1, <3>2, <3>3
  <2>3. CASE k # j
    <3>1. late'[k] = late[k] /\ late[k] \in Nat
      BY <1>0, <2>1, <2>3
    <3>2. Acting(k)' \in SUBSET Acting(k)
      BY <2>1
    <3>3. /\ Cardinality(Acting(k)') <= Cardinality(Acting(k)) /\ Cardinality(Acting(k)') \in Nat
          /\ Cardinality(Acting(k)) \in Nat
      BY <1>0, <3>2
    <3>. QED  BY <1>1, <1>2, <2>1, <3>1, <3>3
  <2>. QED  BY <2>2, <2>3
<1>5. CASE \E j \in Tokens :
              /\ late' = late /\ revoked' = revoked \cup {j}
              /\ \A i \in Tokens : t \notin Acting(i) /\ Acting(i)' \subseteq Acting(i)
  <2>1. PICK j \in Tokens :
              /\ late' = late /\ revoked' = revoked \cup {j}
              /\ \A i \in Tokens : t \notin Acting(i) /\ Acting(i)' \subseteq Acting(i)
    BY <1>5
  <2>2. /\ Cardinality(Acting(k)') <= Cardinality(Acting(k)) /\ Cardinality(Acting(k)') \in Nat
        /\ Cardinality(Acting(k)) < Cardinality(Threads) /\ Cardinality(Acting(k)) \in Nat
        /\ late[k] \in Nat
    BY <1>0, <2>1
  <2>. QED  BY <1>1, <1>2, <2>1, <2>2
<1>. QED  BY <1>3, <1>4, <1>5, TokenEffect

\* Whoever finds room finds a list below the cap, and there are no more threads
\* to pass it than there are.
LEMMA StepList ==
  ASSUME AccountTypeOK, NEW t \in Threads, AccountStep(t), ListBounded
  PROVE  ListBounded'
<1>0. /\ Adding \in SUBSET Threads /\ Adding' \in SUBSET Threads /\ Cardinality(Threads) \in Nat
      /\ Cardinality(Adding) \in Nat /\ Cardinality(Adding') \in Nat
      /\ Cardinality(Adding') <= Cardinality(Threads) /\ Cap \in Nat
      /\ IsFiniteSet(watchlist) /\ Cardinality(watchlist) \in Nat
      /\ Cardinality(watchlist) + Cardinality(Adding) < Cap + Cardinality(Threads)
  <2>1. Adding \in SUBSET Threads /\ Adding' \in SUBSET Threads
    BY DEF Adding
  <2>. HIDE DEF Adding
  <2>. QED  BY <2>1, SomeThreads, CapAssumption, FS_CardinalityType DEF ListBounded
<1>1. Adding' \ {t} = Adding \ {t}
  BY OthersStay DEF Adding
<1>2. CASE AddCount(t) /\ Room /\ watchlist' = watchlist
  BY <1>0, <1>2 DEF Room, ListBounded
<1>3. CASE AddInsert(t)
  <2>. DEFINE w == [id |-> req[t].id, sym |-> req[t].sym]
  <2>1. watchlist' = watchlist \cup {w} /\ pc[t] = "insert row" /\ pc'[t] = "idle"
    BY <1>3 DEF AddInsert, EndRequest, Goto, AccountTypeOK
  <2>2. t \in Adding /\ Adding' \in SUBSET (Adding \ {t})
    BY <1>1, <2>1 DEF Adding
  <2>. HIDE DEF w, Adding
  <2>3. Cardinality(Adding \ {t}) = Cardinality(Adding) - 1 /\ Adding \ {t} \in SUBSET Threads
    BY <1>0, <2>2, SomeThreads
  <2>4. Cardinality(Adding') <= Cardinality(Adding) - 1
    BY <2>2, <2>3, SomeThreads
  <2>5. /\ IsFiniteSet(watchlist \cup {w})
        /\ Cardinality(watchlist \cup {w}) =
             IF w \in watchlist THEN Cardinality(watchlist) ELSE Cardinality(watchlist) + 1
    BY <1>0, FS_AddElement
  <2>6. /\ IsFiniteSet(watchlist') /\ Cardinality(watchlist') \in Nat
        /\ Cardinality(watchlist') <= Cardinality(watchlist) + 1
    <3>1. /\ IsFiniteSet(watchlist \cup {w}) /\ Cardinality(watchlist \cup {w}) \in Nat
          /\ Cardinality(watchlist \cup {w}) <= Cardinality(watchlist) + 1
      BY <1>0, <2>5, FS_CardinalityType
    <3>. QED  BY <2>1, <3>1
  <2>7. Cardinality(watchlist') + Cardinality(Adding') < Cap + Cardinality(Threads)
    BY <1>0, <2>4, <2>6
  <2>. QED  BY <2>6, <2>7 DEF ListBounded
<1>4. CASE watchlist' \subseteq watchlist /\ (t \in Adding' => t \in Adding)
  <2>1. IsFiniteSet(watchlist') /\ Cardinality(watchlist') <= Cardinality(watchlist)
        /\ Cardinality(watchlist') \in Nat
    BY <1>0, <1>4, FS_Subset, FS_CardinalityType
  <2>2. Adding' \in SUBSET Adding
    BY <1>1, <1>4
  <2>. HIDE DEF Adding
  <2>3. Cardinality(Adding') <= Cardinality(Adding)
    BY <1>0, <2>2, SomeThreads
  <2>. QED  BY <1>0, <2>1, <2>3 DEF ListBounded
<1>5. CASE pc[t] = "idle"
  <2>1. PICK l, r : Begins(t, l, r) /\ Begin(t, l, r)
    BY <1>5, BeginForm
  <2>2. pc'[t] = l /\ l \notin {"lookup", "insert row"}
    BY <2>1 DEF Begins, Begin, AccountTypeOK
  <2>. QED  BY <1>4, <1>5, <2>2, BeginForm DEF Adding
<1>6. CASE AddLookup(t)
  BY <1>4, <1>6 DEF AddLookup, Advance, Refuse, Adding
<1>7. CASE pc[t] # "idle" /\ ~(AddCount(t) /\ req[t].sym \in Listed /\ Room) /\ ~AddLookup(t) /\ ~AddInsert(t)
  <2>1. pc'[t] \notin {"lookup", "insert row"} /\ watchlist' \subseteq watchlist
    BY <1>7, GoForm DEF Goes, IssueUpdate, IssueCommit, Send, VerifyCommit, Fail,
      ActivateAndMint, Activate, Mint, ResetCommit, Revoke, AddCount,
      RemoveFind, RemoveDelete, Refuse, EndRequest, Goto, AccountTypeOK
  <2>. QED  BY <1>4, <2>1 DEF Adding
<1>. QED  BY <1>2, <1>3, <1>5, <1>6, <1>7 DEF AddCount, Advance

-----------------------------------------------------------------------------
(* One request at a time *)

\* A request that begins alone has read what there is.
LEMMA SerialBegins ==
  ASSUME AccountTypeOK, Dated, Serial, NEW t \in Threads, AccountStep(t), pc[t] = "idle"
  PROVE  Serial'
<1>. SUFFICES ASSUME ~overlapped'
              PROVE  Alone' /\ (\A x \in Threads : Fresh(x)') /\ AllCounted' /\ Live' \subseteq Latest'
  BY DEF Serial
<1>0. UNCHANGED <<issued, createdAt, attempts, consumed, wrong, clock>>
  BY BeginForm DEF table, history
<1>1. PICK l, r : Begins(t, l, r) /\ Begin(t, l, r)
  BY BeginForm
<1>2. ~overlapped /\ \A x \in Threads : pc[x] = "idle"
  BY <1>1 DEF Begin
<1>3. pc'[t] = l /\ req'[t] = r /\ \A x \in Threads : x # t => pc'[x] = "idle"
  BY <1>1, <1>2 DEF Begin, AccountTypeOK
<1>4. Alone'
  BY <1>3 DEF Alone
<1>5. AllCounted' /\ Live' \subseteq Latest'
  BY <1>0, <1>2 DEF Serial, AllCounted, Live, Latest, Issued, Older
<1>6. Fresh(t)'
  <2>1. CASE l \notin {"issue", "insert", "verify"}
    BY <1>3, <2>1 DEF Fresh
  <2>2. CASE l \in {"issue", "insert"}
    <3>1. l = "issue" /\ r = [at |-> clock]
      BY <1>1, <2>2 DEF Begins
    <3>. QED  BY <1>0, <1>3, <3>1 DEF Fresh, Dated, Issued
  <2>3. CASE l = "verify"
    <3>1. PICK c \in Latest, guess \in mailed \cup {WrongGuess} : ~consumed[c] /\ r = Judgement(c, guess)
      BY <1>1, <2>3 DEF Begins
    <3>2. /\ r.code = c /\ r.attempts = attempts[c] + 1
          /\ r.yes => ~(attempts[c] + 1 > MaxAttempts)
      BY <3>1 DEF Judgement, Counted, TooMany
    <3>3. attempts[c] \in Nat /\ MaxAttempts \in Nat
      BY CodeFields, LimitAssumption DEF Latest
    <3>. QED  BY <1>0, <1>3, <2>3, <3>1, <3>2, <3>3 DEF Fresh
  <2>. QED  BY <2>1, <2>2, <2>3
<1>7. \A x \in Threads : x # t => Fresh(x)'
  BY <1>3 DEF Fresh
<1>. QED  BY <1>4, <1>5, <1>6, <1>7

\* A code that is committed by the only request supersedes every other.
LEMMA SerialIssues ==
  ASSUME AccountTypeOK, Answered, NEW t \in Threads, IssueCommit(t), Fresh(t), AllCounted,
         Issued \subseteq Issued', issued \in Nat
  PROVE  AllCounted' /\ Live' \subseteq Latest'
<1>. DEFINE new == issued + 1
<1>1. /\ pc[t] = "insert" /\ new \in CodeIds /\ issued' = new /\ UNCHANGED <<wrong, right>>
      /\ createdAt' = [createdAt EXCEPT ![new] = req[t].at]
      /\ attempts' = [attempts EXCEPT ![new] = 0]
      /\ consumed' = [c \in CodeIds |-> consumed[c] \/ c \in req[t].old]
  BY DEF IssueCommit, history
<1>2. new \notin Issued /\ new \in Issued' /\ \A c \in Issued' : c \in Issued \/ c = new
  BY <1>1 DEF Issued
<1>3. ASSUME NEW c \in Issued
      PROVE  /\ c \in CodeIds /\ c <= new /\ c # new
             /\ createdAt'[c] = createdAt[c] /\ createdAt[c] <= req[t].at /\ createdAt[c] \in Nat
             /\ attempts'[c] = attempts[c] /\ consumed'[c]
  <2>1. c \in CodeIds /\ c <= new /\ c # new /\ createdAt[c] \in Nat
    BY CodeFields DEF Issued
  <2>2. consumed'[c]
    BY <1>1, <2>1 DEF Fresh, Live
  <2>3. createdAt'[c] = createdAt[c] /\ attempts'[c] = attempts[c]
    BY <1>1, <2>1, TypeParts DEF CodesOK
  <2>. QED  BY <1>1, <2>1, <2>2, <2>3 DEF Fresh
<1>4. createdAt'[new] = req[t].at /\ attempts'[new] = 0 /\ wrong'[new] = 0 /\ req[t].at \in Nat
  BY <1>1, <1>2, RequestFields, TypeParts DEF CodesOK, Answered
<1>5. AllCounted'
  BY <1>2, <1>3, <1>4 DEF AllCounted
<1>6. Live' \subseteq {new}
  BY <1>2, <1>3 DEF Live
<1>7. \A d \in Issued' : createdAt'[d] < createdAt'[new] \/ (createdAt'[d] = createdAt'[new] /\ d <= new)
  BY <1>2, <1>3, <1>4
<1>8. new \in Latest'
  BY <1>2, <1>7 DEF Latest, Older
<1>. QED  BY <1>5, <1>6, <1>8

\* What a verification that is alone writes back is one more than it found.
LEMMA SerialVerifies ==
  ASSUME AccountTypeOK, NEW t \in Threads, VerifyCommit(t), Judged(t), Fresh(t), AllCounted,
         Live \subseteq Latest
  PROVE  AllCounted' /\ Live' \subseteq Latest'
<1>. DEFINE c == req[t].code
<1>1. /\ c \in Issued /\ c \in CodeIds /\ pc[t] = "verify" /\ UNCHANGED <<issued, createdAt>>
      /\ attempts' = IF req[t].counts THEN [attempts EXCEPT ![c] = req[t].attempts] ELSE attempts
      /\ consumed' = [consumed EXCEPT ![c] = consumed[c] \/ req[t].consume]
      /\ wrong' = wrong \/ wrong' = [wrong EXCEPT ![c] = wrong[c] + 1]
  BY CodeFields DEF VerifyCommit, ConsumedAfter, Judged
<1>2. /\ req[t].consume \/ (req[t].counts /\ ~consumed[c])
      /\ req[t].attempts = attempts[c] + 1
  BY <1>1 DEF Judged, Fresh
<1>3. ASSUME NEW d \in Issued
      PROVE  attempts'[d] >= wrong'[d] \/ consumed'[d]
  <2>1. /\ d \in CodeIds /\ attempts[d] \in Nat /\ wrong[d] \in Nat
        /\ attempts[d] >= wrong[d] \/ consumed[d]
    BY CodeFields DEF AllCounted
  <2>2. CASE d = c
    <3>1. attempts'[c] = (IF req[t].counts THEN attempts[c] + 1 ELSE attempts[c])
      BY <1>1, <1>2, TypeParts DEF CodesOK
    <3>2. wrong'[c] = wrong[c] \/ wrong'[c] = wrong[c] + 1
      BY <1>1, TypeParts DEF CodesOK
    <3>3. req[t].consume => consumed'[c]
      BY <1>1, TypeParts DEF CodesOK
    <3>. QED  BY <1>2, <2>1, <2>2, <3>1, <3>2, <3>3
  <2>3. CASE d # c
    BY <1>1, <2>1, <2>3, TypeParts DEF CodesOK
  <2>. QED  BY <2>2, <2>3
<1>4. AllCounted'
  BY <1>1, <1>3 DEF AllCounted, Issued
<1>5. \A d \in CodeIds : consumed[d] => consumed'[d]
  BY <1>1, TypeParts DEF CodesOK
<1>6. Issued' = Issued /\ Latest' = Latest
  BY <1>1 DEF Issued, Latest, Older
<1>7. Live' \subseteq Live
  BY <1>5, <1>6, CodeFields DEF Live
<1>. QED  BY <1>4, <1>6, <1>7

\* A request that is alone stays so, and what it has read stays true.
LEMMA StepSerial ==
  ASSUME AccountTypeOK, Dated, Answered, Serial, NEW t \in Threads, AccountStep(t), Judged(t)
  PROVE  Serial'
<1>1. CASE pc[t] = "idle"
  BY <1>1, SerialBegins
<1>2. CASE pc[t] # "idle"
  <2>. SUFFICES ASSUME ~overlapped'
                PROVE  Alone' /\ (\A x \in Threads : Fresh(x)') /\ AllCounted' /\ Live' \subseteq Latest'
    BY DEF Serial
  <2>1. /\ Alone /\ (\A x \in Threads : Fresh(x)) /\ AllCounted /\ Live \subseteq Latest
        /\ \A x \in Threads : x # t => pc'[x] = "idle"
    BY <1>2, OthersStay DEF Serial, Alone
  <2>2. Alone' /\ \A x \in Threads : x # t => Fresh(x)'
    BY <2>1 DEF Alone, Fresh
  <2>3. CASE IssueCommit(t)
    <3>1. pc'[t] = "send"
      BY <2>3 DEF IssueCommit, Goto, AccountTypeOK
    <3>2. Fresh(t)'
      BY <3>1 DEF Fresh
    <3>. QED  BY <2>1, <2>2, <2>3, <3>2, SerialIssues, Monotone
  <2>4. CASE VerifyCommit(t)
    <3>1. pc'[t] \in {"activate", "idle"}
      BY <2>4 DEF VerifyCommit, EndRequest, Goto, AccountTypeOK
    <3>2. Fresh(t)'
      BY <3>1 DEF Fresh
    <3>. QED  BY <2>1, <2>2, <2>4, <3>2, SerialVerifies
  <2>5. CASE IssueUpdate(t)
    <3>1. /\ UNCHANGED <<issued, createdAt, attempts, consumed, wrong>>
          /\ pc[t] = "issue" /\ pc'[t] = "insert"
          /\ req'[t].at = req[t].at /\ req'[t].old = Live
      BY <2>5 DEF IssueUpdate, Goto, AccountTypeOK, table, history, Supersedable
    <3>2. Issued' = Issued /\ Live' = Live /\ Latest' = Latest /\ AllCounted'
      BY <2>1, <3>1 DEF Issued, Live, Latest, Older, AllCounted
    <3>3. Fresh(t)'
      BY <2>1, <3>1, <3>2 DEF Fresh
    <3>. QED  BY <2>1, <2>2, <3>2, <3>3
  <2>6. CASE ~IssueCommit(t) /\ ~VerifyCommit(t) /\ ~IssueUpdate(t)
    <3>1. /\ UNCHANGED <<issued, createdAt, attempts, consumed, wrong>>
          /\ pc'[t] \notin {"issue", "insert", "verify"}
      BY <1>2, <2>6, GoForm DEF Goes, Send, Fail, ActivateAndMint, Activate, Mint, ResetCommit, Revoke,
        AddCount, AddLookup, AddInsert, RemoveFind, RemoveDelete, Advance, Refuse, EndRequest, Goto,
        AccountTypeOK, table, history
    <3>2. Issued' = Issued /\ Live' = Live /\ Latest' = Latest /\ AllCounted'
      BY <2>1, <3>1 DEF Issued, Live, Latest, Older, AllCounted
    <3>3. Fresh(t)'
      BY <3>1 DEF Fresh
    <3>. QED  BY <2>1, <2>2, <3>2, <3>3
  <2>. QED  BY <2>3, <2>4, <2>5, <2>6
<1>. QED  BY <1>1, <1>2

-----------------------------------------------------------------------------
(* The inductive invariant holds at the start and is kept *)

LEMMA InitIInv == AccountInit => IInv
<1>. SUFFICES ASSUME AccountInit PROVE IInv
  OBVIOUS
<1>. DEFINE First(done) == [c \in CodeIds |-> IF c = 1 THEN done ELSE 0]
<1>1. PICK done \in {0, 1} :
        /\ issued = done /\ createdAt = Zero /\ attempts = First(done)
        /\ expiresAt = [c \in CodeIds |-> First(done)[c] * Ttl]
        /\ consumed = [c \in CodeIds |-> First(done)[c] = 1]
        /\ verified = (done = 1) /\ mailed = Issued /\ wrong = Zero /\ right = First(done) /\ clock = 0
        /\ pc = [t \in Threads |-> "idle"] /\ req = [t \in Threads |-> NoRequest]
        /\ served = done * FirstServed /\ overlapped = FALSE
        /\ minted = done /\ SessionInit /\ watchlist = {}
  BY DEF AccountInit
<1>2. 1 \in CodeIds /\ MaxCodes \in Nat /\ MaxTokens \in Nat \ {0} /\ MaxRequests \in Nat
  BY BoundAssumption, TokenAssumption DEF CodeIds
<1>3. First(done) \in [CodeIds -> {0, 1}] /\ First(done)[1] = done
      /\ \A c \in CodeIds : c # 1 => First(done)[c] = 0
  BY <1>1, <1>2
<1>. HIDE DEF First
<1>4. expiresAt \in [CodeIds -> Nat]
  <2>1. \A c \in CodeIds : First(done)[c] * Ttl \in Nat
    BY <1>3, LimitAssumption
  <2>. QED  BY <1>1, <2>1
<1>5. ColumnsOK
  <2>1. served \in 0 .. MaxRequests
    BY <1>1, <1>2, CapAssumption
  <2>2. issued \in 0 .. MaxCodes /\ verified \in BOOLEAN /\ mailed \subseteq Issued
    BY <1>1, <1>2, BoundAssumption
  <2>3. Zero \in [CodeIds -> Nat] /\ First(done) \in [CodeIds -> Nat]
    BY <1>3 DEF Zero
  <2>4. consumed \in [CodeIds -> BOOLEAN]
    BY <1>1
  <2>. QED  BY <1>1, <1>4, <2>1, <2>2, <2>3, <2>4 DEF ColumnsOK
<1>6. AccountTypeOK
  <2>1. \A t \in Threads : req[t] \in AccountRequestAt(pc[t])
    BY <1>1 DEF AccountRequestAt, RequestAt, Pcs
  <2>2. /\ password \in Passwords /\ minted \in 0 .. MaxTokens /\ revoked \subseteq 1 .. minted
        /\ late \in [Tokens -> Nat] /\ watchlist \subseteq Row
    BY <1>1, <1>2 DEF SessionInit
  <2>. QED  BY <1>1, <1>5, <2>1, <2>2 DEF AccountTypeOK, AccountPcs, Pcs
<1>7. \A t \in Threads : pc[t] = "idle"
  BY <1>1
<1>8. (\A t \in Threads : Judged(t) /\ Fresh(t)) /\ Alone
  BY <1>7 DEF Judged, Fresh, Alone
<1>9. \A c \in Issued : c = 1 /\ done = 1
  BY <1>1 DEF Issued
<1>10. ProofFirst
  <2>1. CASE done = 0
    <3>1. done # 1 /\ minted = 0
      BY <1>1, <2>1
    <3>2. verified = (done = 1)
      BY <1>1
    <3>3. ~verified
      BY <3>1, <3>2, Zenon
    <3>4. ~(minted > 0)
      BY <3>1
    <3>. QED  BY <1>7, <3>3, <3>4 DEF ProofFirst
  <2>2. CASE done = 1
    <3>1. 1 \in Issued /\ right[1] > 0
      BY <1>1, <1>3, <2>2 DEF Issued
    <3>. QED  BY <3>1 DEF ProofFirst, Proven
  <2>. QED  BY <2>1, <2>2
<1>11. Answered /\ AllCounted /\ Live = {}
  <2>1. \A c \in CodeIds : right[c] > 0 => consumed[c]
    <3>1. ASSUME NEW c \in CodeIds, right[c] > 0
          PROVE  First(done)[c] = 1
      BY <1>1, <1>3, <3>1
    <3>2. \A c \in CodeIds : consumed[c] = (First(done)[c] = 1)
      BY <1>1
    <3>. QED  BY <3>1, <3>2
  <2>2. \A c \in CodeIds : wrong[c] = 0
    BY <1>1 DEF Zero
  <2>3. \A c \in Issued : c \in CodeIds /\ consumed[c]
    BY <1>1, <1>2, <1>3, <1>9
  <2>. QED  BY <2>1, <2>2, <2>3 DEF Answered, AllCounted, Live
<1>12. Dated
  BY <1>1, <1>2, <1>7, <1>9 DEF Dated, Zero
<1>13. LateBounded
  BY <1>1 DEF LateBounded, SessionInit
<1>14. ListBounded
  <2>1. Adding = {}
    BY <1>7 DEF Adding
  <2>2. Cardinality(Threads) \in Nat /\ IsFiniteSet({}) /\ Cardinality({}) = 0
    BY SomeThreads, FS_EmptySet
  <2>. QED  BY <1>1, <2>1, <2>2, CapAssumption DEF ListBounded
<1>. QED  BY <1>6, <1>8, <1>10, <1>11, <1>12, <1>13, <1>14 DEF IInv, Serial

\* The clock leaves everything as it is.
LEMMA TickIInv ==
  ASSUME IInv, Tick, UNCHANGED <<session, watchlist>>
  PROVE  IInv'
<1>1. /\ UNCHANGED <<issued, createdAt, expiresAt, attempts, consumed, verified, mailed, wrong, right>>
      /\ UNCHANGED <<pc, req, served, overlapped, password, minted, revoked, late, watchlist>>
      /\ clock' = clock + 1 /\ clock \in Nat
  BY TypeParts DEF Tick, table, history, session, IInv, ThreadsOK
<1>2. AccountTypeOK'
  <2>1. Issued' = Issued /\ \A t \in Threads :
          (req[t] \in AccountRequestAt(pc[t])) <=> (req[t] \in AccountRequestAt(pc[t]))'
    BY <1>1 DEF Issued, AccountRequestAt, RequestAt
  <2>. QED  BY <1>1, <2>1 DEF IInv, AccountTypeOK, ColumnsOK
<1>3. Issued' = Issued /\ Live' = Live /\ Latest' = Latest
  BY <1>1 DEF Issued, Live, Latest, Older
<1>4. \A t \in Threads : (Judged(t) => Judged(t)') /\ (Fresh(t) => Fresh(t)')
  BY <1>1, <1>3 DEF Judged, Fresh
<1>5. ProofFirst' /\ Answered'
  BY <1>1, <1>3 DEF IInv, ProofFirst, Proven, Answered
<1>6. Dated'
  <2>1. \A c \in Issued : createdAt[c] \in Nat
    BY CodeFields DEF IInv
  <2>2. \A t \in Threads : pc[t] \in {"issue", "insert"} => req[t].at \in Nat
    BY RequestFields DEF IInv
  <2>. QED  BY <1>1, <1>3, <2>1, <2>2 DEF IInv, Dated
<1>7. LateBounded' /\ ListBounded'
  BY <1>1 DEF IInv, LateBounded, ListBounded, Acting, Adding
<1>8. Serial'
  BY <1>1, <1>3, <1>4 DEF IInv, Serial, Alone, AllCounted
<1>. QED  BY <1>2, <1>4, <1>5, <1>6, <1>7, <1>8 DEF IInv

LEMMA NextIInv == IInv /\ [AccountNext]_accountVars => IInv'
<1>. SUFFICES ASSUME IInv, [AccountNext]_accountVars PROVE IInv'
  OBVIOUS
<1>1. CASE UNCHANGED accountVars
  <2>1. /\ UNCHANGED <<issued, createdAt, expiresAt, attempts, consumed, verified, mailed, wrong, right>>
        /\ UNCHANGED <<pc, req, served, overlapped, password, minted, revoked, late, watchlist, clock>>
    BY <1>1 DEF accountVars, vars, table, history, session
  <2>2. AccountTypeOK'
    BY <2>1 DEF IInv, AccountTypeOK, ColumnsOK, Issued, AccountRequestAt, RequestAt
  <2>3. Issued' = Issued /\ Live' = Live /\ Latest' = Latest
    BY <2>1 DEF Issued, Live, Latest, Older
  <2>4. \A t \in Threads : (Judged(t) => Judged(t)') /\ (Fresh(t) => Fresh(t)')
    BY <2>1, <2>3 DEF Judged, Fresh
  <2>5. ProofFirst' /\ Answered' /\ Dated' /\ LateBounded' /\ ListBounded'
    BY <2>1, <2>3 DEF IInv, ProofFirst, Proven, Answered, Dated, LateBounded, ListBounded, Acting, Adding
  <2>6. Serial'
    BY <2>1, <2>3, <2>4 DEF IInv, Serial, Alone, AllCounted
  <2>. QED  BY <2>2, <2>4, <2>5, <2>6 DEF IInv
<1>2. CASE Tick /\ UNCHANGED <<session, watchlist>>
  BY <1>2, TickIInv
<1>3. CASE \E t \in Threads : AccountStep(t)
  BY <1>3, StepType, StepJudged, StepProof, StepAnswered, StepDated, StepLate, StepList, StepSerial DEF IInv
<1>. QED  BY <1>1, <1>2, <1>3 DEF AccountNext

-----------------------------------------------------------------------------
(* Theorems *)

\* The inductive invariant holds in every behaviour.
THEOREM Invariance == AccountSpec => []IInv
BY InitIInv, NextIInv, PTL DEF AccountSpec

\* Codes, sessions, requests and the watchlist keep their types.
THEOREM TypeCorrect == AccountSpec => []AccountTypeOK
<1>1. IInv => AccountTypeOK
  BY DEF IInv
<1>. QED  BY <1>1, Invariance, PTL

\* No token is minted before a code of the account was answered with yes, however
\* many requests run and wherever they fail (verify_email, signin, generate_token).
THEOREM SessionsNeedProof == AccountSpec => []SessionNeedsProof
<1>1. IInv => SessionNeedsProof
  BY DEF IInv, ProofFirst, Proven, SessionNeedsProof
<1>. QED  BY <1>1, Invariance, PTL

\* Fewer requests commit with a revoked token than there are threads: those that
\* had passed the check (jwt_required, the blocklist) before the revocation.
THEOREM LateWritesAreBounded == AccountSpec => []LateWritesBounded
<1>1. IInv => LateWritesBounded
  <2>. SUFFICES ASSUME IInv, NEW k \in Tokens PROVE late[k] < Cardinality(Threads)
    BY DEF LateWritesBounded
  <2>1. LateBounded /\ late[k] \in Nat
    BY TypeParts DEF IInv, SessionsOK
  <2>2. Acting(k) \in SUBSET Threads
    BY DEF Acting
  <2>3. Cardinality(Acting(k)) \in Nat /\ Cardinality(Threads) \in Nat
    BY <2>2, SomeThreads
  <2>4. k \notin revoked => late[k] = 0
    BY <2>1 DEF LateBounded
  <2>5. k \in revoked => late[k] + Cardinality(Acting(k)) < Cardinality(Threads)
    BY <2>1 DEF LateBounded
  <2>6. Cardinality(Threads) > 0
    BY <2>3, ThreadAssumption, FS_EmptySet
  <2>. QED  BY <2>1, <2>3, <2>4, <2>5, <2>6
<1>. QED  BY <1>1, Invariance, PTL

\* add_to_watchlist passes the cap by less than the number of threads.
THEOREM ListBoundHolds == AccountSpec => []ListOverCapBounded
<1>1. IInv => ListOverCapBounded
  <2>. SUFFICES ASSUME IInv PROVE ListOverCapBounded
    OBVIOUS
  <2>1. Adding \in SUBSET Threads
    BY DEF Adding
  <2>2. Cardinality(Adding) \in Nat /\ Cardinality(Threads) \in Nat
    BY <2>1, SomeThreads
  <2>3. /\ Cardinality(watchlist) \in Nat /\ Cap \in Nat
        /\ Cardinality(watchlist) + Cardinality(Adding) < Cap + Cardinality(Threads)
    BY FS_CardinalityType, CapAssumption DEF IInv, ListBounded
  <2>. QED  BY <2>2, <2>3 DEF ListOverCapBounded
<1>. QED  BY <1>1, Invariance, PTL

\* "Only the newest code works" (issue) as long as no two requests have overlapped.
THEOREM NewestOnly == AccountSpec => []OnlyNewestLive
<1>1. IInv => OnlyNewestLive
  BY DEF IInv, Serial, OnlyNewestLive
<1>. QED  BY <1>1, Invariance, PTL

\* A consumed code is consumed for ever: no late write of verify revives it.
THEOREM ConsumedForEver == AccountSpec => NoRevival
<1>1. IInv /\ [AccountNext]_accountVars => [\A c \in Issued : consumed[c] => consumed'[c]]_table
  <2>. SUFFICES ASSUME IInv, [AccountNext]_accountVars, NEW c \in Issued, consumed[c],
                       ~UNCHANGED table
                PROVE  consumed'[c]
    OBVIOUS
  <2>1. PICK t \in Threads : AccountStep(t)
    BY DEF AccountNext, Tick, accountVars, vars
  <2>. QED  BY <2>1, Monotone, CodeFields DEF IInv
<1>. QED  BY <1>1, Invariance, PTL DEF AccountSpec, NoRevival

\* A code is accepted once, and never after MAX_ATTEMPTS wrong guesses (verify), as
\* long as no two requests have overlapped.
THEOREM AcceptedOnceBeforeCap == AccountSpec => YesOnceBeforeCap
<1>1. IInv /\ [AccountNext]_accountVars => [~overlapped => \A c \in Issued :
        right'[c] > right[c] => right[c] = 0 /\ wrong[c] < MaxAttempts]_history
  <2>. SUFFICES ASSUME IInv, [AccountNext]_accountVars, ~overlapped, NEW c \in Issued, right'[c] > right[c]
                PROVE  right[c] = 0 /\ wrong[c] < MaxAttempts
    OBVIOUS
  <2>0. /\ AccountTypeOK /\ c \in CodeIds /\ right[c] \in Nat /\ wrong[c] \in Nat /\ attempts[c] \in Nat
        /\ MaxAttempts \in Nat
    BY CodeFields, LimitAssumption DEF IInv
  <2>1. right' # right
    BY <2>0
  <2>2. PICK t \in Threads : AccountStep(t)
    BY <2>1 DEF AccountNext, Tick, accountVars, vars, history
  <2>3. VerifyCommit(t) /\ req[t].yes
    <3>1. CASE pc[t] = "idle"
      BY <2>0, <2>1, <2>2, <3>1, BeginForm DEF history
    <3>2. CASE pc[t] # "idle"
      BY <2>1, <2>2, <3>2, GoForm DEF Goes, IssueUpdate, IssueCommit, Send, VerifyCommit, Fail, ActivateAndMint,
        Activate, Mint, ResetCommit, Revoke, AddCount, AddLookup, AddInsert, RemoveFind, RemoveDelete,
        Advance, Refuse, history
    <3>. QED  BY <3>1, <3>2
  <2>4. c = req[t].code
    BY <2>0, <2>3, TypeParts DEF VerifyCommit, CodesOK
  <2>5. Fresh(t) /\ AllCounted /\ Answered
    BY DEF IInv, Serial
  <2>6. ~consumed[c] /\ attempts[c] + 1 <= MaxAttempts
    BY <2>3, <2>4, <2>5 DEF VerifyCommit, Fresh
  <2>. QED  BY <2>0, <2>5, <2>6 DEF AllCounted, Answered
<1>. QED  BY <1>1, Invariance, PTL DEF AccountSpec, YesOnceBeforeCap
=============================================================================
