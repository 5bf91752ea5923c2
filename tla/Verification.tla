----------------------------- MODULE Verification -----------------------------
(***************************************************************************)
(* One account's e-mail verification codes (models/email_otp.py and the    *)
(* verification half of auth_service.py): codes are issued, mailed,        *)
(* guessed and superseded by the threads of one worker.                    *)
(*                                                                         *)
(* No request locks a code.  A request reads the newest code, works (a     *)
(* password hash is slow), then writes the absolute values it computed.    *)
(* The UPDATE that supersedes older codes works on the codes its statement *)
(* saw, and a code's created_at is the time its transaction began.         *)
(***************************************************************************)
EXTENDS Integers, FiniteSets

CONSTANTS
  Threads,
  MaxAttempts,   \* MAX_ATTEMPTS
  Ttl,           \* OTP_TTL_MINUTES, in ticks
  Second,        \* ticks in a second
  Cooldown,      \* RESEND_COOLDOWN_SECONDS, in seconds
  MaxCodes,      \* codes issued (bound)
  MaxRequests,   \* requests served (bound)
  MaxClock,      \* the last tick (bound)
  NoRequest

ASSUME LimitAssumption == MaxAttempts \in Nat \ {0} /\ Ttl \in Nat \ {0}
ASSUME CooldownAssumption == Second \in Nat \ {0} /\ Cooldown \in Nat \ {0}
ASSUME BoundAssumption == MaxCodes \in Nat \ {0} /\ MaxRequests \in Nat /\ MaxClock \in Nat
ASSUME ThreadAssumption == IsFiniteSet(Threads) /\ Threads # {}

VARIABLES
  issued,       \* the number of rows: codes are 1 .. issued, in id order
  createdAt, expiresAt, attempts, consumed,    \* the columns of each row
  verified,     \* users.is_verified
  mailed,       \* the codes that reached the user's inbox
  wrong, right, \* history: the guesses at each code answered with no, with yes
  clock,
  pc, req,      \* each thread: where it is, its request
  served,       \* requests started
  overlapped    \* history: two requests have been in flight at once

table   == <<issued, createdAt, expiresAt, attempts, consumed>>
history == <<wrong, right>>
vars    == <<table, verified, mailed, history, clock, pc, req, served, overlapped>>

CodeIds == 1 .. MaxCodes
Issued  == 1 .. issued
Live    == {c \in Issued : ~consumed[c]}

\* order_by(created_at desc, id desc)
Older(c, d) == createdAt[c] < createdAt[d] \/ (createdAt[c] = createdAt[d] /\ c <= d)

\* _latest: the newest row, if there is one.
Latest == {c \in Issued : \A d \in Issued : Older(d, c)}

\* A guess is one of the codes received, or none of the codes there are.
WrongGuess == 0

Zero == [c \in CodeIds |-> 0]

Init ==
  /\ issued = 0 /\ createdAt = Zero /\ expiresAt = Zero /\ attempts = Zero
  /\ consumed = [c \in CodeIds |-> FALSE]
  /\ verified = FALSE /\ mailed = {} /\ wrong = Zero /\ right = Zero /\ clock = 0
  /\ pc = [t \in Threads |-> "idle"] /\ req = [t \in Threads |-> NoRequest]
  /\ served = 0 /\ overlapped = FALSE

-----------------------------------------------------------------------------
(* Requests *)

Begin(t, l, r) ==
  /\ pc[t] = "idle" /\ served < MaxRequests
  /\ pc' = [pc EXCEPT ![t] = l] /\ req' = [req EXCEPT ![t] = r]
  /\ served' = served + 1
  /\ overlapped' = (overlapped \/ \E u \in Threads : pc[u] # "idle")
  /\ UNCHANGED <<table, verified, mailed, history, clock>>

Goto(t, l, r) ==
  /\ pc' = [pc EXCEPT ![t] = l] /\ req' = [req EXCEPT ![t] = r]
  /\ UNCHANGED <<clock, served, overlapped>>

EndRequest(t) == Goto(t, "idle", NoRequest)

-----------------------------------------------------------------------------
(* resend_verification, send_verification_code, issue *)

\* int() rounds the seconds left down: less than one counts as none.
CoolingDown(c) == Cooldown * Second - (clock - createdAt[c]) >= Second

ResendBegin(t) ==
  /\ ~verified /\ \A c \in Latest : ~CoolingDown(c)
  /\ Begin(t, "issue", [at |-> clock])

SupersedeNone == {}

\* The UPDATE's WHERE clause, as its statement sees the table.
Supersedable == Live

IssueUpdate(t) ==
  /\ pc[t] = "issue"
  /\ Goto(t, "insert", [at |-> req[t].at, old |-> Supersedable, expires |-> clock + Ttl])
  /\ UNCHANGED <<table, verified, mailed, history>>

\* The supersession and the new code are committed together.
IssueCommit(t) == LET new == issued + 1 IN
  /\ pc[t] = "insert" /\ new \in CodeIds
  /\ issued' = new
  /\ createdAt' = [createdAt EXCEPT ![new] = req[t].at]
  /\ expiresAt' = [expiresAt EXCEPT ![new] = req[t].expires]
  /\ attempts' = [attempts EXCEPT ![new] = 0]
  /\ consumed' = [c \in CodeIds |-> consumed[c] \/ c \in req[t].old]
  /\ Goto(t, "send", [code |-> new])
  /\ UNCHANGED <<verified, mailed, history>>

\* EmailService never raises: a code that could not be sent is only logged.
Send(t) ==
  /\ pc[t] = "send"
  /\ mailed' \in {mailed, mailed \cup {req[t].code}}
  /\ EndRequest(t)
  /\ UNCHANGED <<table, verified, history>>

-----------------------------------------------------------------------------
(* verify_email, verify *)

Expired(c) == expiresAt[c] <= clock

OverCapByOne(n) == n > MaxAttempts + 1

TooMany(n) == n > MaxAttempts

Counted(n) == n + 1

\* An expired, burned or used code is consumed.
Consumes(c, n, guess) == Expired(c) \/ TooMany(n) \/ guess = c

\* What verify will answer and write, from the newest code as it read it.
Judgement(c, guess) ==
  LET n == Counted(attempts[c]) IN
  [code |-> c,
   yes  |-> ~Expired(c) /\ ~TooMany(n) /\ guess = c,
   counts   |-> ~Expired(c),
   attempts |-> n,
   consume  |-> Consumes(c, n, guess)]

VerifyRead(t) ==
  /\ ~verified
  /\ \E c \in Latest, guess \in mailed \cup {WrongGuess} :
       ~consumed[c] /\ Begin(t, "verify", Judgement(c, guess))

WriteBack(c, consume) == consume

\* consumed_at is written only where verify has set it.
ConsumedAfter(c, consume) == consumed[c] \/ consume

\* The UPDATE writes the columns verify changed, whatever they hold by now.
VerifyCommit(t) == LET r == req[t] c == r.code IN
  /\ pc[t] = "verify"
  /\ attempts' = IF r.counts THEN [attempts EXCEPT ![c] = r.attempts] ELSE attempts
  /\ consumed' = [consumed EXCEPT ![c] = ConsumedAfter(c, r.consume)]
  /\ IF r.yes
     THEN right' = [right EXCEPT ![c] = @ + 1] /\ Goto(t, "activate", r) /\ UNCHANGED wrong
     ELSE wrong' = [wrong EXCEPT ![c] = @ + 1] /\ EndRequest(t) /\ UNCHANGED right
  /\ UNCHANGED <<issued, createdAt, expiresAt, verified, mailed>>

\* A transaction of its own sets is_verified.
Activate(t) ==
  /\ pc[t] = "activate"
  /\ verified' = TRUE
  /\ EndRequest(t)
  /\ UNCHANGED <<table, mailed, history>>

-----------------------------------------------------------------------------
\* The connection drops or the process dies; what is committed stays.
Fail(t) ==
  /\ pc[t] # "idle" /\ EndRequest(t)
  /\ UNCHANGED <<table, verified, mailed, history>>

Tick ==
  /\ clock < MaxClock /\ clock' = clock + 1
  /\ UNCHANGED <<table, verified, mailed, history, pc, req, served, overlapped>>

CodeStep(t) ==
  \/ ResendBegin(t) \/ IssueUpdate(t) \/ IssueCommit(t) \/ Send(t)
  \/ VerifyRead(t) \/ VerifyCommit(t) \/ Fail(t)

Next == (\E t \in Threads : CodeStep(t) \/ Activate(t)) \/ Tick

Spec == Init /\ [][Next]_vars

-----------------------------------------------------------------------------
(* Properties *)

RequestAt(l) == CASE l = "idle" -> {NoRequest}
  [] l = "issue"  -> [at : Nat]
  [] l = "insert" -> [at : Nat, old : SUBSET CodeIds, expires : Nat]
  [] l = "send"   -> [code : CodeIds]
  [] l \in {"verify", "activate"} ->
       [code : CodeIds, yes : BOOLEAN, attempts : Nat, counts : BOOLEAN, consume : BOOLEAN]

Pcs == {"idle", "issue", "insert", "send", "verify", "activate"}

ColumnsOK ==
  /\ issued \in 0 .. MaxCodes
  /\ createdAt \in [CodeIds -> Nat] /\ expiresAt \in [CodeIds -> Nat]
  /\ attempts \in [CodeIds -> Nat] /\ consumed \in [CodeIds -> BOOLEAN]
  /\ verified \in BOOLEAN /\ mailed \subseteq Issued
  /\ wrong \in [CodeIds -> Nat] /\ right \in [CodeIds -> Nat]
  /\ clock \in Nat /\ served \in 0 .. MaxRequests /\ overlapped \in BOOLEAN

\* Every column and register has its type.
TypeOK ==
  /\ ColumnsOK
  /\ pc \in [Threads -> Pcs] /\ req = [t \in Threads |-> req[t]]
  /\ \A t \in Threads : req[t] \in RequestAt(pc[t])

\* Superseded, used or burned is for ever: no late write of a slow verification
\* brings a code back to life.
NoRevival == [][\A c \in Issued : consumed[c] => consumed'[c]]_table

\* "Supersede anything still outstanding so only the newest code works" (issue):
\* true while requests come one at a time, failures halfway included.
OnlyNewestLive == ~overlapped => Live \subseteq Latest

\* The attempt cap bites and a code is of "single use" (docs/email-verification.md):
\* a guess is answered with yes at most once, and never after MAX_ATTEMPTS wrong
\* ones, whatever fails in between, while requests come one at a time.
YesOnceBeforeCap == [][~overlapped => \A c \in Issued :
  right'[c] > right[c] => right[c] = 0 /\ wrong[c] < MaxAttempts]_history

-----------------------------------------------------------------------------
(* What the comments promise and the code breaks: TLC refutes each *)

\* "Supersede anything still outstanding so only the newest code works", for
\* requests that overlap too.
OnlyNewestEver == Live \subseteq Latest

\* "Every wrong guess is counted", for requests that overlap too.
CountedAlways == \A c \in Issued : attempts[c] >= wrong[c] \/ consumed[c]

\* "Floor between sends" of RESEND_COOLDOWN_SECONDS (email_otp.py).
CooldownFloor == ~overlapped => \A c, d \in Issued : c < d =>
  createdAt[d] - createdAt[c] >= Cooldown * Second

\* "Activate the account behind email if code is its live OTP" (verify_email):
\* once a code has been accepted the account is active or about to be.
RightCodeActivates == (\E c \in Issued : right[c] > 0) =>
  verified \/ \E t \in Threads : pc[t] = "activate"
=============================================================================
