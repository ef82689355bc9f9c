------------------------------ MODULE Sessions ------------------------------
(***************************************************************************)
(* Accounts and refresh tokens (auth/auth.service.ts,                      *)
(* users/users.repository.ts): registration, login, rotation, logout.      *)
(*                                                                         *)
(* Every database call is a step of a request and the requests of all      *)
(* replicas interleave.  A token is its jti: the signed JWT, its hash and  *)
(* the password are right by assumption, and a request that is turned down *)
(* at its first lookup changes nothing and is left out.  No code clears    *)
(* users.active, so the checks of it are always passed.                    *)
(***************************************************************************)
EXTENDS Naturals, FiniteSets

CONSTANTS Emails,            \* normalised email addresses
          Requests,          \* concurrent requests
          NONE,              \* no token, no row
          MaxRefreshTokens,  \* bound: tokens issued
          MaxFailures        \* bound: failing calls and lost answers

ASSUME BoundsAssumption == MaxRefreshTokens \in Nat /\ MaxFailures \in Nat

Jtis == 1 .. MaxRefreshTokens

\* family: the token of the login or registration it descends from.
Rows == [user : Emails, revoked : BOOLEAN, expired : BOOLEAN, family : Jtis]

ASSUME NoneAssumption == NONE \notin Nat \cup Emails \cup Rows

VARIABLES
  users,          \* [email -> rows of users with it]
  refreshTokens,  \* [jti -> row of refresh_tokens, or NONE]
  call,           \* [request -> the call it makes next]
  email,          \* [request -> the address it is about]
  token,          \* [request -> the refresh token it presents]
  known,          \* tokens that were answered to a client
  failures,
  late,           \* history: [request -> its token was revoked when it came in]
  overlaps,       \* history: [family -> rotations of a token that was revoked]
  ended           \* history: [family -> logouts answered with revoked: true]

database == <<users, refreshTokens>>
request == <<call, email, token, late>>
history == <<overlaps, ended>>
sessionVars == <<database, request, known, failures, history>>

Calls == {"idle", "create", "issue", "find", "rotate", "revoke"}

SessionsTypeOK ==
  /\ users \in [Emails -> Nat]
  /\ refreshTokens \in [Jtis -> Rows \cup {NONE}]
  /\ call \in [Requests -> Calls]
  /\ email \in [Requests -> Emails \cup {NONE}]
  /\ token \in [Requests -> Jtis \cup {NONE}]
  /\ known \subseteq Jtis /\ failures \in 0 .. MaxFailures
  /\ late \in [Requests -> BOOLEAN]
  /\ overlaps \in [Jtis -> Nat] /\ ended \in [Jtis -> Nat]
  /\ \A r \in Requests :
       call[r] \in {"rotate", "revoke"} => refreshTokens[token[r]] \in Rows

SessionsInit ==
  /\ users = [e \in Emails |-> 0]
  /\ refreshTokens = [t \in Jtis |-> NONE]
  /\ call = [r \in Requests |-> "idle"]
  /\ email = [r \in Requests |-> NONE]
  /\ token = [r \in Requests |-> NONE]
  /\ known = {} /\ failures = 0
  /\ late = [r \in Requests |-> FALSE]
  /\ overlaps = [f \in Jtis |-> 0] /\ ended = [f \in Jtis |-> 0]

\* The request makes its next call; an answered request forgets its input.
Goto(r, p) == /\ call' = [call EXCEPT ![r] = p]
              /\ UNCHANGED <<email, token, late>>
Done(r) == /\ call' = [call EXCEPT ![r] = "idle"]
           /\ email' = [email EXCEPT ![r] = NONE]
           /\ token' = [token EXCEPT ![r] = NONE]
           /\ late' = [late EXCEPT ![r] = FALSE]

\* randomUUID: an id no row has.
Unused(t) == /\ t \in Jtis /\ refreshTokens[t] = NONE
             /\ \A u \in 1 .. (t - 1) : refreshTokens[u] # NONE

\* The answer reaches the client, or is lost.
Answer(t) == \/ known' = known \cup {t} /\ UNCHANGED failures
             \/ failures < MaxFailures /\ failures' = failures + 1 /\ UNCHANGED known

-----------------------------------------------------------------------------
(* register and login *)

\* No account has the address: hash the password, then create the user.
Register(r, e) ==
  /\ call[r] = "idle" /\ users[e] = 0
  /\ call' = [call EXCEPT ![r] = "create"]
  /\ email' = [email EXCEPT ![r] = e]
  /\ UNCHANGED <<database, token, late, known, failures, history>>

\* The insert without the unique constraint on users.email.
InsertsBlindly(r) ==
  /\ call[r] = "create"
  /\ users' = [users EXCEPT ![email[r]] = @ + 1]
  /\ Goto(r, "issue")
  /\ UNCHANGED <<refreshTokens, known, failures, history>>

\* register returns the new user and issues no tokens.
CreatesOnly(r) ==
  /\ call[r] = "create" /\ users[email[r]] = 0
  /\ users' = [users EXCEPT ![email[r]] = 1]
  /\ Done(r)
  /\ UNCHANGED <<refreshTokens, known, failures, history>>

CreateUser(r) ==
  /\ call[r] = "create" /\ users[email[r]] = 0
  /\ users' = [users EXCEPT ![email[r]] = 1]
  /\ Goto(r, "issue")
  /\ UNCHANGED <<refreshTokens, known, failures, history>>

\* Another request has created the account meanwhile: 409.
CreateConflict(r) ==
  /\ call[r] = "create" /\ users[email[r]] > 0
  /\ Done(r)
  /\ UNCHANGED <<database, known, failures, history>>

Login(r, e) ==
  /\ call[r] = "idle" /\ users[e] > 0
  /\ call' = [call EXCEPT ![r] = "issue"]
  /\ email' = [email EXCEPT ![r] = e]
  /\ UNCHANGED <<database, token, late, known, failures, history>>

NewRow(e, f) == [user |-> e, revoked |-> FALSE, expired |-> FALSE, family |-> f]

\* issueTokenPair without a rotated token: the record starts a family.
CreateToken(r, t) ==
  /\ call[r] = "issue" /\ Unused(t)
  /\ refreshTokens' = [refreshTokens EXCEPT ![t] = NewRow(email[r], t)]
  /\ Done(r) /\ Answer(t)
  /\ UNCHANGED <<users, history>>

-----------------------------------------------------------------------------
(* refresh and logout *)

\* The JWT's signature, type and expiry are verified before any query.
Present(r, t, p) ==
  /\ call[r] = "idle" /\ t \in known /\ ~refreshTokens[t].expired
  /\ call' = [call EXCEPT ![r] = p]
  /\ token' = [token EXCEPT ![r] = t]
  /\ late' = [late EXCEPT ![r] = refreshTokens[t].revoked]
  /\ UNCHANGED <<database, email, known, failures, history>>

Refresh(r, t) == Present(r, t, "find")
Logout(r, t) == Present(r, t, "revoke")

\* The check of revokedAt is missing.
AnyUnexpired(row) == ~row.expired

Usable(row) == ~row.revoked /\ ~row.expired

FindRefreshToken(r) ==
  /\ call[r] = "find" /\ Usable(refreshTokens[token[r]])
  /\ Goto(r, "rotate")
  /\ UNCHANGED <<database, known, failures, history>>

FindRejects(r) ==
  /\ call[r] = "find" /\ ~Usable(refreshTokens[token[r]])
  /\ Done(r)
  /\ UNCHANGED <<database, known, failures, history>>

\* The successor is stored and the old record is left as it is.
KeepsOld(old, t) ==
  [refreshTokens EXCEPT ![t] = NewRow(refreshTokens[old].user, refreshTokens[old].family)]

\* One transaction: the old record is revoked, whether or not it was, and
\* its successor is stored.
Rotated(old, t) ==
  [refreshTokens EXCEPT ![old].revoked = TRUE,
                        ![t] = NewRow(refreshTokens[old].user, refreshTokens[old].family)]

RotateRefreshToken(r, t) ==
  LET old == token[r]
  IN  /\ call[r] = "rotate" /\ Unused(t)
      /\ refreshTokens' = Rotated(old, t)
      /\ overlaps' = [overlaps EXCEPT ![refreshTokens[old].family] =
                        @ + IF refreshTokens[old].revoked THEN 1 ELSE 0]
      /\ Done(r) /\ Answer(t)
      /\ UNCHANGED <<users, ended>>

\* updateMany ... revokedAt: null; count > 0 is answered as revoked.
RevokeRefreshToken(r) ==
  LET old == token[r]
  IN  /\ call[r] = "revoke"
      /\ refreshTokens' = [refreshTokens EXCEPT ![old].revoked = TRUE]
      /\ ended' = [ended EXCEPT ![refreshTokens[old].family] =
                     @ + IF refreshTokens[old].revoked THEN 0 ELSE 1]
      /\ Done(r)
      /\ UNCHANGED <<users, known, failures, overlaps>>

-----------------------------------------------------------------------------
\* A call fails or the process dies: the request ends where it is.
Fails(r) ==
  /\ call[r] # "idle" /\ failures < MaxFailures
  /\ failures' = failures + 1
  /\ Done(r)
  /\ UNCHANGED <<database, known, history>>

\* expiresAt and the JWT's exp pass.
Expire(t) ==
  /\ t \in known /\ ~refreshTokens[t].expired
  /\ refreshTokens' = [refreshTokens EXCEPT ![t].expired = TRUE]
  /\ UNCHANGED <<users, request, known, failures, history>>

Step(r) == \/ \E e \in Emails : Register(r, e) \/ Login(r, e)
           \/ CreateUser(r) \/ CreateConflict(r)
           \/ \E t \in Jtis : CreateToken(r, t) \/ RotateRefreshToken(r, t)
           \/ \E t \in Jtis : Refresh(r, t) \/ Logout(r, t)
           \/ FindRefreshToken(r) \/ FindRejects(r) \/ RevokeRefreshToken(r)
           \/ Fails(r)

SessionsNext == (\E r \in Requests : Step(r)) \/ (\E t \in Jtis : Expire(t))

SessionsSpec == SessionsInit /\ [][SessionsNext]_sessionVars

-----------------------------------------------------------------------------
(* Properties *)

\* However registrations of one address interleave, one account exists
\* (AuthService.register looks the address up before it creates the user).
OneAccountPerEmail == \A e \in Emails : users[e] <= 1

\* Accounts that never had a token and get none from a request in progress.
Tokenless == {e \in Emails : /\ users[e] > 0
                             /\ \A t \in Jtis : refreshTokens[t] = NONE \/ refreshTokens[t].user # e
                             /\ \A r \in Requests : call[r] # "issue" \/ email[r] # e}

\* register commits the account before it issues tokens: an account nobody
\* was given a token for is the remainder of a request that failed in
\* between, one for each failure, and never of a lost race between two
\* registrations.
TokenlessExplained == Cardinality(Tokenless) <= failures

Members(f) == {t \in Jtis : refreshTokens[t] # NONE /\ refreshTokens[t].family = f}
Live(f) == {t \in Members(f) : ~refreshTokens[t].revoked}

\* The live tokens of a login are accounted for: rotation replaces one by one,
\* a logout that answers revoked: true ends exactly one, and only a rotation
\* that overlapped another rotation or a logout of its token adds one.
SessionsAccounted ==
  \A f \in Jtis : Members(f) # {} =>
    Cardinality(Live(f)) + ended[f] = 1 + overlaps[f]

\* A refresh that comes in after its token was revoked, by a rotation or a
\* logout, never gets to rotate it: what overlaps is what was under way.
RevokedIsRefused == \A r \in Requests : call[r] = "rotate" => ~late[r]

\* A record once revoked or expired stays so, and its owner and login do not
\* change: rotation and logout write no other record (rotateRefreshToken,
\* revokeRefreshToken).
RevocationIsFinal ==
  [][\A t \in Jtis : refreshTokens[t] # NONE =>
       /\ refreshTokens'[t] # NONE
       /\ refreshTokens[t].revoked => refreshTokens'[t].revoked
       /\ refreshTokens[t].expired => refreshTokens'[t].expired
       /\ refreshTokens'[t].user = refreshTokens[t].user
       /\ refreshTokens'[t].family = refreshTokens[t].family]_sessionVars

=============================================================================
