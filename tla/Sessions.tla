------------------------------ MODULE Sessions -------------------------------
(***************************************************************************)
(* The sessions of the account whose codes Verification issues: sign-in    *)
(* and the tokens it mints, the check of a token before a handler runs,    *)
(* logout and password reset (auth_service.py, auth_routes.py,             *)
(* revokedtoken.py).                                                       *)
(*                                                                         *)
(* A token is not stored: it is good until its id is in revoked_tokens,    *)
(* which is looked up once, before the handler.  A reset commits the new   *)
(* password and then, in another transaction, the revocation.              *)
(***************************************************************************)
EXTENDS Verification

CONSTANTS
  Passwords,
  MaxTokens     \* tokens minted (bound)

ASSUME TokenAssumption == MaxTokens \in Nat \ {0} /\ Passwords # {}

VARIABLES
  password,     \* users.password_hash
  minted,       \* tokens are numbered 1 .. minted
  revoked,      \* revoked_tokens
  late          \* history: token -> commits made with it after its revocation

session == <<password, minted, revoked, late>>

Tokens == 1 .. MaxTokens

SessionInit ==
  /\ password \in Passwords /\ revoked = {} /\ late = [k \in Tokens |-> 0]

-----------------------------------------------------------------------------
(* signin, verify_email once more, generate_token *)

SignsInUnverified(p) == p = password

\* No session for an account that is not verified.
SignsIn(p) == p = password /\ verified

SigninBegin(t) ==
  /\ \E p \in Passwords : SignsIn(p)
  /\ Begin(t, "mint", NoRequest)
  /\ UNCHANGED session

\* To verify a verified account is a success, whatever code is given.
VerifyAgain(t) == verified /\ Begin(t, "mint", NoRequest) /\ UNCHANGED session

Mint(t) ==
  /\ pc[t] = "mint" /\ minted < MaxTokens
  /\ minted' = minted + 1
  /\ EndRequest(t)
  /\ UNCHANGED <<table, verified, mailed, history, password, revoked, late>>

\* The account becomes active; its token is minted, if the answer gets through.
ActivateAndMint(t) ==
  /\ Activate(t)
  /\ minted' \in {minted} \cup ({minted + 1} \cap Tokens)
  /\ UNCHANGED <<password, revoked, late>>

-----------------------------------------------------------------------------
(* jwt_required and the blocklist *)

Signed(k) == k \in 1 .. minted

Accepted(k) == k \in (1 .. minted) \ revoked

\* A request passes the check with token k and goes on to its handler.
Admit(t, l, k, r) == Accepted(k) /\ Begin(t, l, r) /\ UNCHANGED session

\* A commit made on behalf of token k.
Act(k) == late' = IF k \in revoked THEN [late EXCEPT ![k] = @ + 1] ELSE late

-----------------------------------------------------------------------------
(* logout, reset_password *)

LogoutBegin(t) == \E k \in Tokens : Admit(t, "revoke", k, [jti |-> k, reset |-> FALSE])

\* The old password is compared with the one just read; with a wrong one the
\* token is revoked all the same.
ResetBegin(t) == \E k \in Tokens, old, new \in Passwords :
  IF old = password THEN Admit(t, "reset", k, [jti |-> k, new |-> new])
                    ELSE Admit(t, "revoke", k, [jti |-> k, reset |-> FALSE])

ResetCommit(t) ==
  /\ pc[t] = "reset"
  /\ password' = req[t].new
  /\ Act(req[t].jti)
  /\ Goto(t, "revoke", [jti |-> req[t].jti, reset |-> TRUE])
  /\ UNCHANGED <<table, verified, mailed, history, minted, revoked>>

\* The unique index refuses the second revocation of a token: that request fails.
Revoke(t) ==
  /\ pc[t] = "revoke"
  /\ revoked' = revoked \cup {req[t].jti}
  /\ EndRequest(t)
  /\ UNCHANGED <<table, verified, mailed, history, password, minted, late>>

SessionNext(t) ==
  \/ SigninBegin(t) \/ VerifyAgain(t) \/ Mint(t)
  \/ LogoutBegin(t) \/ ResetBegin(t) \/ ResetCommit(t) \/ Revoke(t)
=============================================================================
