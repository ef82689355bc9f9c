--------------------------- MODULE SessionsProofs ---------------------------
(***************************************************************************)
(* Sessions for any addresses, requests, tokens and faults: one account    *)
(* per address, revoked tokens are refused, revocation is final, accounts  *)
(* without a token and the live tokens of a login are accounted for.       *)
(***************************************************************************)
EXTENDS Sessions, FiniteSetTheorems, TLAPS

\* What a request works on exists: the address of a registration or a login,
\* the record of a token that is known or presented.
Presenting == {"find", "rotate", "revoke"}
KnownStored == \A t \in known : refreshTokens[t] \in Rows
Holds(r) ==
  /\ call[r] \in {"create", "issue"} => email[r] \in Emails
  /\ call[r] \in Presenting => token[r] \in Jtis /\ refreshTokens[token[r]] \in Rows

\* A token that was revoked when its request came in still is, and such a
\* request does not get beyond the check of its token.
LateStays(r) ==
  /\ call[r] \in Presenting /\ late[r] => refreshTokens[token[r]].revoked
  /\ call[r] = "rotate" => ~late[r]

Fits(r) == Holds(r) /\ LateStays(r)
IInv == /\ SessionsTypeOK /\ KnownStored /\ OneAccountPerEmail
        /\ \A r \in Requests : Fits(r)

\* A stored record stays stored, and stays revoked or expired once it is.
Advances(t) == refreshTokens[t] \in Rows =>
  /\ refreshTokens'[t] \in Rows
  /\ refreshTokens[t].revoked => refreshTokens'[t].revoked
  /\ refreshTokens[t].expired => refreshTokens'[t].expired
  /\ refreshTokens'[t].user = refreshTokens[t].user
  /\ refreshTokens'[t].family = refreshTokens[t].family

TokensType == refreshTokens \in [Jtis -> Rows \cup {NONE}]

-----------------------------------------------------------------------------
(* The refresh_tokens table *)

\* issueTokenPair builds a record that is neither revoked nor expired.
LEMMA NewRowType ==
  ASSUME NEW e \in Emails, NEW f \in Jtis
  PROVE  NewRow(e, f) \in Rows
BY DEF NewRow, Rows

\* Storing a record under an unused id changes no stored record.
LEMMA StoreAdvances ==
  ASSUME TokensType, NEW t \in Jtis, refreshTokens[t] = NONE, NEW row \in Rows,
         refreshTokens' = [refreshTokens EXCEPT ![t] = row]
  PROVE  TokensType' /\ \A u \in Jtis : Advances(u)
<1>1. TokensType'
  BY DEF TokensType
<1>2. ASSUME NEW u \in Jtis, refreshTokens[u] \in Rows
      PROVE  refreshTokens'[u] = refreshTokens[u]
  BY <1>2, NoneAssumption DEF TokensType
<1> QED BY <1>1, <1>2 DEF Advances

\* Setting revokedAt changes nothing else.
LEMMA RevokeAdvances ==
  ASSUME TokensType, NEW old \in Jtis, refreshTokens[old] \in Rows,
         refreshTokens' = [refreshTokens EXCEPT ![old].revoked = TRUE]
  PROVE  TokensType' /\ \A u \in Jtis : Advances(u)
BY DEF TokensType, Advances, Rows

\* The passage of expiresAt changes nothing else.
LEMMA ExpireAdvances ==
  ASSUME TokensType, NEW old \in Jtis, refreshTokens[old] \in Rows,
         refreshTokens' = [refreshTokens EXCEPT ![old].expired = TRUE]
  PROVE  TokensType' /\ \A u \in Jtis : Advances(u)
BY DEF TokensType, Advances, Rows

\* rotateRefreshToken revokes the old record and stores one new record.
LEMMA RotateAdvances ==
  ASSUME TokensType, NEW old \in Jtis, refreshTokens[old] \in Rows,
         NEW t \in Jtis, refreshTokens[t] = NONE, refreshTokens' = Rotated(old, t)
  PROVE  TokensType' /\ (\A u \in Jtis : Advances(u)) /\ refreshTokens'[t] \in Rows
<1> DEFINE row == NewRow(refreshTokens[old].user, refreshTokens[old].family)
<1>1. row \in Rows
  BY NewRowType DEF Rows
<1>2. old # t
  BY NoneAssumption
<1> HIDE DEF row
<1>3. refreshTokens' = [refreshTokens EXCEPT ![old].revoked = TRUE, ![t] = row]
  BY DEF Rotated, row
<1>4. refreshTokens'[t] = row /\ refreshTokens'[old] = [refreshTokens[old] EXCEPT !.revoked = TRUE]
  BY <1>2, <1>3 DEF TokensType
<1>5. ASSUME NEW u \in Jtis, u # old, u # t
      PROVE  refreshTokens'[u] = refreshTokens[u]
  BY <1>3, <1>5 DEF TokensType
<1>6. refreshTokens'[old] \in Rows
  BY <1>4 DEF Rows
<1>7. TokensType'
  BY <1>1, <1>3, <1>4, <1>5, <1>6 DEF TokensType
<1>8. ASSUME NEW u \in Jtis PROVE Advances(u)
  <2>1. CASE u = old
    BY <2>1, <1>4, <1>6 DEF Advances, Rows
  <2>2. CASE u = t
    BY <2>2, NoneAssumption DEF Advances
  <2>3. CASE u # old /\ u # t
    BY <2>3, <1>5 DEF Advances
  <2> QED BY <2>1, <2>2, <2>3
<1> QED BY <1>1, <1>4, <1>7, <1>8

\* A table left alone.
LEMMA SameAdvances ==
  ASSUME TokensType, refreshTokens' = refreshTokens
  PROVE  TokensType' /\ \A u \in Jtis : Advances(u)
BY DEF TokensType, Advances

-----------------------------------------------------------------------------
(* Requests *)

\* What a request holds survives the steps of the others.
LEMMA OthersKeep ==
  ASSUME \A u \in Jtis : Advances(u), NEW r, Fits(r),
         call'[r] = call[r], email'[r] = email[r],
         token'[r] = token[r], late'[r] = late[r]
  PROVE  Fits(r)'
BY DEF Fits, Holds, LateStays, Advances

\* A request that moves to another call with what it holds.
LEMMA GotoKeeps ==
  ASSUME SessionsTypeOK, \A u \in Jtis : Advances(u), \A q \in Requests : Fits(q),
         NEW r \in Requests, NEW p \in Calls, Goto(r, p),
         p = "issue" => email[r] \in Emails,
         p \in Presenting => call[r] \in Presenting,
         p = "rotate" => ~late[r], p # "create"
  PROVE  \A q \in Requests : Fits(q)'
<1>1. ASSUME NEW q \in Requests, q # r PROVE Fits(q)'
  BY <1>1, OthersKeep DEF Goto, SessionsTypeOK
<1>2. call'[r] = p /\ email' = email /\ token' = token /\ late' = late
  BY DEF Goto, SessionsTypeOK
<1>3. Fits(r)'
  BY <1>2 DEF Fits, Holds, LateStays, Advances, Presenting
<1> QED BY <1>1, <1>3

\* An answered request holds nothing.
LEMMA DoneKeeps ==
  ASSUME SessionsTypeOK, \A u \in Jtis : Advances(u), \A q \in Requests : Fits(q),
         NEW r \in Requests, Done(r)
  PROVE  \A q \in Requests : Fits(q)'
<1>1. ASSUME NEW q \in Requests, q # r PROVE Fits(q)'
  BY <1>1, OthersKeep DEF Done, SessionsTypeOK
<1>2. call'[r] = "idle"
  BY DEF Done, SessionsTypeOK
<1>3. Fits(r)'
  BY <1>2 DEF Fits, Holds, LateStays, Presenting
<1> QED BY <1>1, <1>3

\* No step touches the requests.
LEMMA RequestsKept ==
  ASSUME \A u \in Jtis : Advances(u), \A q \in Requests : Fits(q), UNCHANGED request
  PROVE  \A q \in Requests : Fits(q)'
BY OthersKeep DEF request

\* Known tokens stay stored, a newly answered one included.
LEMMA KnownKept ==
  ASSUME known \subseteq Jtis, KnownStored, \A u \in Jtis : Advances(u),
         \A t \in known' : t \in known \/ refreshTokens'[t] \in Rows
  PROVE  KnownStored'
BY DEF KnownStored, Advances

-----------------------------------------------------------------------------
(* The invariant *)

\* The types of everything but the token table.
RestType == /\ users \in [Emails -> Nat]
            /\ call \in [Requests -> Calls]
            /\ email \in [Requests -> Emails \cup {NONE}]
            /\ token \in [Requests -> Jtis \cup {NONE}]
            /\ known \subseteq Jtis /\ failures \in 0 .. MaxFailures
            /\ late \in [Requests -> BOOLEAN]
            /\ overlaps \in [Jtis -> Nat] /\ ended \in [Jtis -> Nat]

\* TypeOK consists of its parts, and follows from them after a step.
LEMMA TypeParts == SessionsTypeOK => TokensType /\ RestType
BY DEF SessionsTypeOK, TokensType, RestType

\* The invariant after a step, from its parts.
LEMMA IInvParts ==
  ASSUME TokensType', RestType', \A r \in Requests : Fits(r)', KnownStored', OneAccountPerEmail'
  PROVE  IInv'
BY DEF IInv, SessionsTypeOK, TokensType, RestType, Fits, Holds, Presenting

\* What Done and Answer leave well typed.
LEMMA DoneType ==
  ASSUME RestType, NEW r \in Requests, Done(r)
  PROVE  /\ call' \in [Requests -> Calls]
         /\ email' \in [Requests -> Emails \cup {NONE}]
         /\ token' \in [Requests -> Jtis \cup {NONE}]
         /\ late' \in [Requests -> BOOLEAN]
BY DEF RestType, Done, Calls

\* An answered token is known, a lost answer is counted.
LEMMA AnswerType ==
  ASSUME RestType, NEW t \in Jtis, Answer(t)
  PROVE  known' \subseteq Jtis /\ known' \subseteq known \cup {t} /\ failures' \in 0 .. MaxFailures
BY BoundsAssumption DEF RestType, Answer

\* The first step of a request: a row of users is looked up.
LEMMA BeginKeeps ==
  ASSUME IInv, NEW r \in Requests, NEW e \in Emails, NEW p \in {"create", "issue"},
         call' = [call EXCEPT ![r] = p], email' = [email EXCEPT ![r] = e],
         UNCHANGED <<database, token, late, known, failures, history>>
  PROVE  IInv'
<1>1. TokensType' /\ \A u \in Jtis : Advances(u)
  BY TypeParts, SameAdvances DEF IInv, database
<1>2. ASSUME NEW q \in Requests PROVE Fits(q)'
  <2>1. CASE q # r
    BY <1>1, <2>1, OthersKeep DEF IInv, SessionsTypeOK
  <2>2. CASE q = r
    BY <2>2 DEF IInv, SessionsTypeOK, Fits, Holds, LateStays, Presenting
  <2> QED BY <2>1, <2>2
<1>3. RestType'
  BY TypeParts DEF IInv, RestType, Calls, database, history
<1>4. KnownStored' /\ OneAccountPerEmail'
  BY DEF IInv, KnownStored, OneAccountPerEmail, database
<1> QED BY <1>1, <1>2, <1>3, <1>4, IInvParts

\* A refresh or a logout comes in with a known token.
LEMMA PresentKeeps ==
  ASSUME IInv, NEW r \in Requests, NEW t \in Jtis, NEW p \in {"find", "revoke"},
         Present(r, t, p)
  PROVE  IInv'
<1>1. TokensType' /\ \A u \in Jtis : Advances(u)
  BY TypeParts, SameAdvances DEF IInv, Present, database
<1>2. ASSUME NEW q \in Requests PROVE Fits(q)'
  <2>1. CASE q # r
    BY <1>1, <2>1, OthersKeep DEF IInv, SessionsTypeOK, Present
  <2>2. CASE q = r
    BY <2>2 DEF IInv, SessionsTypeOK, KnownStored, Fits, Holds, LateStays, Presenting, Present, database
  <2> QED BY <2>1, <2>2
<1>3. refreshTokens[t] \in Rows
  BY DEF IInv, KnownStored, Present
<1>4. refreshTokens[t].revoked \in BOOLEAN
  BY <1>3 DEF Rows
<1>5. late' \in [Requests -> BOOLEAN]
  BY <1>4, TypeParts DEF IInv, RestType, Present
<1>6. RestType'
  BY <1>5, TypeParts DEF IInv, RestType, Calls, Present, database, history
<1>7. KnownStored' /\ OneAccountPerEmail'
  BY DEF IInv, KnownStored, OneAccountPerEmail, Present, database
<1> QED BY <1>1, <1>2, <1>6, <1>7, IInvParts

\* A request ends without a write.
LEMMA EndKeeps ==
  ASSUME IInv, NEW r \in Requests, Done(r), failures' \in 0 .. MaxFailures,
         UNCHANGED <<database, known, history>>
  PROVE  IInv'
<1>1. TokensType' /\ \A u \in Jtis : Advances(u)
  BY TypeParts, SameAdvances DEF IInv, database
<1>2. \A q \in Requests : Fits(q)'
  BY <1>1, DoneKeeps DEF IInv
<1>3. RestType'
  BY TypeParts, DoneType DEF IInv, RestType, database, history
<1>4. KnownStored' /\ OneAccountPerEmail'
  BY DEF IInv, KnownStored, OneAccountPerEmail, database
<1> QED BY <1>1, <1>2, <1>3, <1>4, IInvParts

\* The invariant holds of every step of a request.
LEMMA StepKeeps ==
  ASSUME IInv, NEW r \in Requests, Step(r)
  PROVE  IInv'
<1>0. TokensType /\ RestType /\ Fits(r) /\ \A q \in Requests : Fits(q)
  BY TypeParts DEF IInv
<1>1. ASSUME NEW e \in Emails, Register(r, e) \/ Login(r, e) PROVE IInv'
  <2>1. CASE Register(r, e)
    BY <2>1, BeginKeeps DEF Register
  <2>2. CASE Login(r, e)
    BY <2>2, BeginKeeps DEF Login
  <2> QED BY <1>1, <2>1, <2>2
<1>2. CASE CreateUser(r)
  <2>1. email[r] \in Emails
    BY <1>0, <1>2 DEF CreateUser, Fits, Holds
  <2>2. TokensType' /\ \A u \in Jtis : Advances(u)
    BY <1>0, <1>2, SameAdvances DEF CreateUser
  <2>3. \A q \in Requests : Fits(q)'
    BY <1>0, <1>2, <2>1, <2>2, GotoKeeps DEF IInv, CreateUser, Calls, Presenting
  <2>4. RestType'
    BY <1>0, <1>2, <2>1 DEF RestType, CreateUser, Goto, Calls, history
  <2>5. OneAccountPerEmail'
    BY <1>0, <1>2 DEF IInv, RestType, OneAccountPerEmail, CreateUser
  <2>6. KnownStored'
    BY <1>2 DEF IInv, KnownStored, CreateUser
  <2> QED BY <2>2, <2>3, <2>4, <2>5, <2>6, IInvParts
<1>3. CASE CreateConflict(r) \/ FindRejects(r)
  BY <1>0, <1>3, EndKeeps DEF CreateConflict, FindRejects, RestType
<1>4. CASE Fails(r)
  <2>1. failures' \in 0 .. MaxFailures
    BY <1>0, <1>4, BoundsAssumption DEF Fails, RestType
  <2> QED BY <1>4, <2>1, EndKeeps DEF Fails
<1>5. ASSUME NEW t \in Jtis, CreateToken(r, t) PROVE IInv'
  <2>1. NewRow(email[r], t) \in Rows
    BY <1>0, <1>5, NewRowType DEF CreateToken, Fits, Holds
  <2>2. TokensType' /\ \A u \in Jtis : Advances(u)
    BY <1>0, <1>5, <2>1, StoreAdvances DEF CreateToken, Unused
  <2>3. \A q \in Requests : Fits(q)'
    BY <1>0, <1>5, <2>2, DoneKeeps DEF IInv, CreateToken
  <2>4. refreshTokens'[t] \in Rows
    BY <1>0, <1>5, <2>1 DEF CreateToken, TokensType
  <2>5. KnownStored'
    BY <1>0, <1>5, <2>2, <2>4, AnswerType, KnownKept DEF IInv, RestType, CreateToken
  <2>6. RestType'
    BY <1>0, <1>5, DoneType, AnswerType DEF RestType, CreateToken, history
  <2>7. OneAccountPerEmail'
    BY <1>5 DEF IInv, OneAccountPerEmail, CreateToken
  <2> QED BY <2>2, <2>3, <2>5, <2>6, <2>7, IInvParts
<1>6. ASSUME NEW t \in Jtis, RotateRefreshToken(r, t) PROVE IInv'
  <2>1. token[r] \in Jtis /\ refreshTokens[token[r]] \in Rows
    BY <1>0, <1>6 DEF RotateRefreshToken, Fits, Holds, Presenting
  <2>2. TokensType' /\ (\A u \in Jtis : Advances(u)) /\ refreshTokens'[t] \in Rows
    BY <1>0, <1>6, <2>1, RotateAdvances DEF RotateRefreshToken, Unused
  <2>3. \A q \in Requests : Fits(q)'
    BY <1>0, <1>6, <2>2, DoneKeeps DEF IInv, RotateRefreshToken
  <2>4. KnownStored'
    BY <1>0, <1>6, <2>2, AnswerType, KnownKept DEF IInv, RestType, RotateRefreshToken
  <2>5. overlaps' \in [Jtis -> Nat]
    BY <1>0, <1>6, <2>1 DEF RestType, RotateRefreshToken, Rows
  <2>6. RestType'
    BY <1>0, <1>6, <2>5, DoneType, AnswerType DEF RestType, RotateRefreshToken
  <2>7. OneAccountPerEmail'
    BY <1>6 DEF IInv, OneAccountPerEmail, RotateRefreshToken
  <2> QED BY <2>2, <2>3, <2>4, <2>6, <2>7, IInvParts
<1>7. ASSUME NEW t \in Jtis, Refresh(r, t) \/ Logout(r, t) PROVE IInv'
  BY <1>7, PresentKeeps DEF Refresh, Logout
<1>8. CASE FindRefreshToken(r)
  <2>1. call[r] = "find" /\ ~late[r]
    BY <1>0, <1>8 DEF FindRefreshToken, Usable, Fits, LateStays, Presenting
  <2>2. TokensType' /\ \A u \in Jtis : Advances(u)
    BY <1>0, <1>8, SameAdvances DEF FindRefreshToken, database
  <2>3. \A q \in Requests : Fits(q)'
    BY <1>0, <1>8, <2>1, <2>2, GotoKeeps DEF IInv, FindRefreshToken, Calls, Presenting
  <2>4. RestType'
    BY <1>0, <1>8 DEF RestType, FindRefreshToken, Goto, Calls, database, history
  <2>5. KnownStored' /\ OneAccountPerEmail'
    BY <1>8 DEF IInv, KnownStored, OneAccountPerEmail, FindRefreshToken, database
  <2> QED BY <2>2, <2>3, <2>4, <2>5, IInvParts
<1>9. CASE RevokeRefreshToken(r)
  <2>1. token[r] \in Jtis /\ refreshTokens[token[r]] \in Rows
    BY <1>0, <1>9 DEF RevokeRefreshToken, Fits, Holds, Presenting
  <2>2. TokensType' /\ \A u \in Jtis : Advances(u)
    BY <1>0, <1>9, <2>1, RevokeAdvances DEF RevokeRefreshToken
  <2>3. \A q \in Requests : Fits(q)'
    BY <1>0, <1>9, <2>2, DoneKeeps DEF IInv, RevokeRefreshToken
  <2>4. KnownStored'
    BY <1>0, <1>9, <2>2, KnownKept DEF IInv, RestType, RevokeRefreshToken
  <2>5. ended' \in [Jtis -> Nat]
    BY <1>0, <1>9, <2>1 DEF RestType, RevokeRefreshToken, Rows
  <2>6. RestType'
    BY <1>0, <1>9, <2>5, DoneType DEF RestType, RevokeRefreshToken
  <2>7. OneAccountPerEmail'
    BY <1>9 DEF IInv, OneAccountPerEmail, RevokeRefreshToken
  <2> QED BY <2>2, <2>3, <2>4, <2>6, <2>7, IInvParts
<1> QED BY <1>1, <1>2, <1>3, <1>4, <1>5, <1>6, <1>7, <1>8, <1>9 DEF Step

\* The invariant holds initially.
LEMMA InitIInv == SessionsInit => IInv
<1> SUFFICES ASSUME SessionsInit PROVE IInv
  OBVIOUS
<1>1. SessionsTypeOK
  BY BoundsAssumption DEF SessionsInit, SessionsTypeOK, Calls
<1> QED BY <1>1 DEF SessionsInit, IInv, KnownStored, OneAccountPerEmail, Fits, Holds, LateStays, Presenting

\* A token expires.
LEMMA ExpireKeeps ==
  ASSUME IInv, NEW t \in Jtis, Expire(t)
  PROVE  IInv'
<1>1. TokensType' /\ \A u \in Jtis : Advances(u)
  BY TypeParts, ExpireAdvances DEF IInv, KnownStored, Expire
<1>2. \A q \in Requests : Fits(q)'
  BY <1>1, RequestsKept DEF IInv, Expire
<1>3. RestType'
  BY TypeParts DEF IInv, RestType, Expire, request, history
<1>4. KnownStored'
  BY <1>1, TypeParts, KnownKept DEF IInv, RestType, Expire
<1>5. OneAccountPerEmail'
  BY DEF IInv, OneAccountPerEmail, Expire
<1> QED BY <1>1, <1>2, <1>3, <1>4, <1>5, IInvParts

\* Every step keeps the invariant.
LEMMA NextIInv == IInv /\ [SessionsNext]_sessionVars => IInv'
<1> SUFFICES ASSUME IInv, [SessionsNext]_sessionVars PROVE IInv'
  OBVIOUS
<1>1. CASE UNCHANGED sessionVars
  <2>1. TokensType' /\ \A u \in Jtis : Advances(u)
    BY <1>1, TypeParts, SameAdvances DEF IInv, sessionVars, database
  <2>2. \A q \in Requests : Fits(q)'
    BY <1>1, <2>1, RequestsKept DEF IInv, sessionVars
  <2>3. RestType'
    BY <1>1, TypeParts DEF IInv, RestType, sessionVars, database, request, history
  <2>4. KnownStored' /\ OneAccountPerEmail'
    BY <1>1 DEF IInv, KnownStored, OneAccountPerEmail, sessionVars, database
  <2> QED BY <2>1, <2>2, <2>3, <2>4, IInvParts
<1>2. CASE SessionsNext
  BY <1>2, StepKeeps, ExpireKeeps DEF SessionsNext
<1> QED BY <1>1, <1>2

\* The inductive invariant is invariant.
THEOREM Invariance == SessionsSpec => []IInv
BY InitIInv, NextIInv, PTL DEF SessionsSpec

-----------------------------------------------------------------------------
(* The properties *)

\* Accounts, tokens and requests stay well typed.
THEOREM TypeCorrect == SessionsSpec => []SessionsTypeOK
<1>1. IInv => SessionsTypeOK
  BY DEF IInv
<1> QED BY <1>1, Invariance, PTL

\* However many registrations of one address interleave between the lookup and
\* the insert of AuthService.register, one account exists.
THEOREM OneAccount == SessionsSpec => []OneAccountPerEmail
<1>1. IInv => OneAccountPerEmail
  BY DEF IInv
<1> QED BY <1>1, Invariance, PTL

\* A refresh that comes in after its token was revoked never rotates it.
THEOREM RefusesRevoked == SessionsSpec => []RevokedIsRefused
<1>1. IInv => RevokedIsRefused
  BY DEF IInv, RevokedIsRefused, Fits, LateStays
<1> QED BY <1>1, Invariance, PTL

\* Every step leaves the stored records stored, revoked and expired.
LEMMA TableAdvances ==
  ASSUME IInv, [SessionsNext]_sessionVars
  PROVE  \A u \in Jtis : Advances(u)
<1>0. TokensType /\ RestType /\ \A r \in Requests : Fits(r)
  BY TypeParts DEF IInv
<1>1. CASE UNCHANGED refreshTokens
  BY <1>0, <1>1, SameAdvances
<1>2. ASSUME NEW r \in Requests, NEW t \in Jtis, CreateToken(r, t)
      PROVE  \A u \in Jtis : Advances(u)
  <2>1. NewRow(email[r], t) \in Rows
    BY <1>0, <1>2, NewRowType DEF CreateToken, Fits, Holds
  <2> QED BY <1>0, <1>2, <2>1, StoreAdvances DEF CreateToken, Unused
<1>3. ASSUME NEW r \in Requests, NEW t \in Jtis, RotateRefreshToken(r, t)
      PROVE  \A u \in Jtis : Advances(u)
  <2>1. token[r] \in Jtis /\ refreshTokens[token[r]] \in Rows
    BY <1>0, <1>3 DEF RotateRefreshToken, Fits, Holds, Presenting
  <2> QED BY <1>0, <1>3, <2>1, RotateAdvances DEF RotateRefreshToken, Unused
<1>4. ASSUME NEW r \in Requests, RevokeRefreshToken(r)
      PROVE  \A u \in Jtis : Advances(u)
  <2>1. token[r] \in Jtis /\ refreshTokens[token[r]] \in Rows
    BY <1>0, <1>4 DEF RevokeRefreshToken, Fits, Holds, Presenting
  <2> QED BY <1>0, <1>4, <2>1, RevokeAdvances DEF RevokeRefreshToken
<1>5. ASSUME NEW t \in Jtis, Expire(t) PROVE \A u \in Jtis : Advances(u)
  BY <1>0, <1>5, ExpireAdvances DEF IInv, KnownStored, Expire
<1> QED BY <1>1, <1>2, <1>3, <1>4, <1>5
        DEF SessionsNext, Step, sessionVars, database, Register, Login, CreateUser, CreateConflict,
            Refresh, Logout, Present, FindRefreshToken, FindRejects, Fails

\* No step of a rotation, a logout or any other request un-revokes a record or
\* changes whose it is.
THEOREM RevocationFinal == SessionsSpec => RevocationIsFinal
<1> DEFINE Final == \A t \in Jtis : refreshTokens[t] # NONE =>
             /\ refreshTokens'[t] # NONE
             /\ refreshTokens[t].revoked => refreshTokens'[t].revoked
             /\ refreshTokens[t].expired => refreshTokens'[t].expired
             /\ refreshTokens'[t].user = refreshTokens[t].user
             /\ refreshTokens'[t].family = refreshTokens[t].family
<1>1. IInv /\ [SessionsNext]_sessionVars => [Final]_sessionVars
  <2> SUFFICES ASSUME IInv, [SessionsNext]_sessionVars, NEW t \in Jtis, refreshTokens[t] # NONE
               PROVE  /\ refreshTokens'[t] # NONE
                      /\ refreshTokens[t].revoked => refreshTokens'[t].revoked
                      /\ refreshTokens[t].expired => refreshTokens'[t].expired
                      /\ refreshTokens'[t].user = refreshTokens[t].user
                      /\ refreshTokens'[t].family = refreshTokens[t].family
    OBVIOUS
  <2>1. refreshTokens[t] \in Rows
    BY TypeParts DEF IInv, TokensType
  <2> QED BY <2>1, TableAdvances, NoneAssumption DEF Advances
<1> QED BY <1>1, Invariance, PTL DEF SessionsSpec, RevocationIsFinal

-----------------------------------------------------------------------------
(* Accounts without a token *)

TokenlessCounted == IsFiniteSet(Tokenless) /\ Cardinality(Tokenless) <= failures

\* An account other than x becomes tokenless only by being created or by
\* losing the request that was about to issue its tokens: records stay.
LEMMA TokenlessBut ==
  ASSUME IInv, [SessionsNext]_sessionVars, NEW x,
         \A e \in Emails : e # x /\ users'[e] > 0 => users[e] > 0,
         \A q \in Requests : call[q] = "issue" /\ email[q] # x
                               => call'[q] = "issue" /\ email'[q] = email[q]
  PROVE  Tokenless' \subseteq Tokenless \cup {x}
<1> SUFFICES ASSUME NEW e \in Tokenless', e # x
             PROVE  e \in Tokenless
  OBVIOUS
<1>1. e \in Emails /\ users[e] > 0
  BY DEF Tokenless
<1>2. ASSUME NEW t \in Jtis, refreshTokens[t] # NONE PROVE refreshTokens[t].user # e
  <2>1. refreshTokens[t] \in Rows
    BY <1>2, TypeParts DEF IInv, TokensType
  <2>2. refreshTokens'[t] # NONE /\ refreshTokens'[t].user = refreshTokens[t].user
    BY <2>1, TableAdvances, NoneAssumption DEF Advances
  <2> QED BY <2>2 DEF Tokenless
<1>3. ASSUME NEW q \in Requests, call[q] = "issue" PROVE email[q] # e
  BY <1>3 DEF Tokenless
<1> QED BY <1>1, <1>2, <1>3 DEF Tokenless

\* Nothing is added.
LEMMA TokenlessSame ==
  ASSUME TokenlessCounted, Tokenless' \subseteq Tokenless, failures \in Nat, failures' \in Nat, failures' >= failures
  PROVE  TokenlessCounted'
<1>1. IsFiniteSet(Tokenless') /\ Cardinality(Tokenless') <= Cardinality(Tokenless)
  BY FS_Subset DEF TokenlessCounted
<1>2. Cardinality(Tokenless) \in Nat /\ Cardinality(Tokenless') \in Nat
  BY <1>1, FS_CardinalityType DEF TokenlessCounted
<1> QED BY <1>1, <1>2 DEF TokenlessCounted

\* One failure leaves at most one account behind.
LEMMA TokenlessOneMore ==
  ASSUME TokenlessCounted, NEW x, Tokenless' \subseteq Tokenless \cup {x},
         failures \in Nat, failures' = failures + 1
  PROVE  TokenlessCounted'
<1> DEFINE S == Tokenless \cup {x}
<1>1. IsFiniteSet(S) /\ Cardinality(S) = IF x \in Tokenless THEN Cardinality(Tokenless)
                                                            ELSE Cardinality(Tokenless) + 1
  BY FS_AddElement DEF TokenlessCounted
<1>2. Cardinality(Tokenless) \in Nat
  BY FS_CardinalityType DEF TokenlessCounted
<1>3. IsFiniteSet(Tokenless') /\ Cardinality(Tokenless') <= Cardinality(S) /\ Cardinality(Tokenless') \in Nat
  BY <1>1, FS_Subset, FS_CardinalityType
<1> HIDE DEF S
<1> QED BY <1>1, <1>2, <1>3 DEF TokenlessCounted

\* Every step counts the accounts it leaves without a token.
LEMMA TokenlessStep == IInv /\ TokenlessCounted /\ [SessionsNext]_sessionVars => TokenlessCounted'
<1> SUFFICES ASSUME IInv, TokenlessCounted, [SessionsNext]_sessionVars
             PROVE  TokenlessCounted'
  OBVIOUS
<1>0. /\ RestType /\ failures \in Nat /\ \A r \in Requests : Fits(r)
  BY TypeParts, BoundsAssumption DEF IInv, RestType
<1>1. ASSUME UNCHANGED users, failures' \in Nat, failures' >= failures,
             \A q \in Requests : call[q] = "issue" => call'[q] = "issue" /\ email'[q] = email[q]
      PROVE  TokenlessCounted'
  <2>1. Tokenless' \subseteq Tokenless \cup {NONE}
    BY <1>1, TokenlessBut
  <2>2. Tokenless' \subseteq Tokenless
    BY <2>1, NoneAssumption DEF Tokenless
  <2> QED BY <1>0, <1>1, <2>2, TokenlessSame
<1>2. ASSUME NEW r \in Requests, NEW e \in Emails, Register(r, e) \/ Login(r, e)
      PROVE  TokenlessCounted'
  <2>1. UNCHANGED <<users, failures>>
    BY <1>2 DEF Register, Login, database
  <2>2. \A q \in Requests : call[q] = "issue" => call'[q] = "issue" /\ email'[q] = email[q]
    BY <1>0, <1>2 DEF Register, Login, RestType
  <2>3. failures' \in Nat /\ failures' >= failures
    BY <1>0, <2>1
  <2> QED BY <1>1, <2>1, <2>2, <2>3
<1>3. ASSUME NEW r \in Requests, CreateUser(r)
      PROVE  TokenlessCounted'
  <2>1. /\ email[r] \in Emails /\ call' = [call EXCEPT ![r] = "issue"]
        /\ users' = [users EXCEPT ![email[r]] = 1] /\ UNCHANGED <<email, failures>>
    BY <1>0, <1>3 DEF CreateUser, Goto, Fits, Holds
  <2>2. /\ \A e \in Emails : e # email[r] /\ users'[e] > 0 => users[e] > 0
        /\ \A q \in Requests : call[q] = "issue" => call'[q] = "issue" /\ email'[q] = email[q]
        /\ call'[r] = "issue"
    BY <1>0, <2>1 DEF RestType
  <2>3. Tokenless' \subseteq Tokenless \cup {email[r]}
    BY <2>2, TokenlessBut
  <2>4. email[r] \notin Tokenless'
    BY <2>1, <2>2 DEF Tokenless
  <2>5. Tokenless' \subseteq Tokenless /\ failures' \in Nat /\ failures' >= failures
    BY <1>0, <2>1, <2>3, <2>4
  <2> QED BY <1>0, <2>5, TokenlessSame
<1>4. ASSUME NEW r \in Requests, call[r] # "issue", Done(r), UNCHANGED users,
             failures' \in Nat, failures' >= failures
      PROVE  TokenlessCounted'
  <2>1. \A q \in Requests : call[q] = "issue" => call'[q] = "issue" /\ email'[q] = email[q]
    BY <1>0, <1>4 DEF Done, RestType
  <2> QED BY <1>1, <1>4, <2>1
<1>5. ASSUME NEW r \in Requests, NEW t \in Jtis, CreateToken(r, t)
      PROVE  TokenlessCounted'
  <2>1. /\ call[r] = "issue" /\ email[r] \in Emails /\ UNCHANGED users
        /\ refreshTokens' = [refreshTokens EXCEPT ![t] = NewRow(email[r], t)]
    BY <1>0, <1>5 DEF CreateToken, Fits, Holds
  <2>2. failures' \in Nat /\ failures' >= failures
    BY <1>0, <1>5 DEF CreateToken, Answer
  <2>3. \A q \in Requests : call[q] = "issue" /\ email[q] # email[r]
                               => call'[q] = "issue" /\ email'[q] = email[q]
    BY <1>0, <1>5 DEF CreateToken, Done, RestType
  <2>4. Tokenless' \subseteq Tokenless \cup {email[r]}
    BY <2>1, <2>3, TokenlessBut
  <2>5. refreshTokens'[t] # NONE /\ refreshTokens'[t].user = email[r]
    <3>1. refreshTokens'[t] = NewRow(email[r], t)
      BY <2>1, TypeParts DEF IInv, TokensType
    <3>2. NewRow(email[r], t) \in Rows
      BY <2>1, NewRowType
    <3>3. NewRow(email[r], t).user = email[r]
      BY DEF NewRow
    <3> QED BY <3>1, <3>2, <3>3, NoneAssumption
  <2>6. email[r] \notin Tokenless'
    BY <2>5 DEF Tokenless
  <2>7. Tokenless' \subseteq Tokenless
    BY <2>4, <2>6
  <2> QED BY <1>0, <2>2, <2>7, TokenlessSame
<1>6. ASSUME NEW r \in Requests, NEW t \in Jtis, RotateRefreshToken(r, t)
      PROVE  TokenlessCounted'
  <2>1. call[r] # "issue" /\ Done(r) /\ UNCHANGED users
    BY <1>6 DEF RotateRefreshToken
  <2>2. failures' \in Nat /\ failures' >= failures
    BY <1>0, <1>6 DEF RotateRefreshToken, Answer
  <2> QED BY <1>4, <2>1, <2>2
<1>7. ASSUME NEW r \in Requests, CreateConflict(r) \/ FindRejects(r) \/ RevokeRefreshToken(r)
      PROVE  TokenlessCounted'
  <2>1. call[r] # "issue" /\ Done(r) /\ UNCHANGED <<users, failures>>
    BY <1>7 DEF CreateConflict, FindRejects, RevokeRefreshToken, database
  <2>2. failures' \in Nat /\ failures' >= failures
    BY <1>0, <2>1
  <2> QED BY <1>4, <2>1, <2>2
<1>8. ASSUME NEW r \in Requests, NEW t \in Jtis, Refresh(r, t) \/ Logout(r, t)
      PROVE  TokenlessCounted'
  <2>1. UNCHANGED <<users, failures>>
    BY <1>8 DEF Refresh, Logout, Present, database
  <2>2. \A q \in Requests : call[q] = "issue" => call'[q] = "issue" /\ email'[q] = email[q]
    BY <1>0, <1>8 DEF Refresh, Logout, Present, RestType
  <2>3. failures' \in Nat /\ failures' >= failures
    BY <1>0, <2>1
  <2> QED BY <1>1, <2>1, <2>2, <2>3
<1>9. ASSUME NEW r \in Requests, FindRefreshToken(r)
      PROVE  TokenlessCounted'
  <2>1. UNCHANGED <<users, failures>>
    BY <1>9 DEF FindRefreshToken, database
  <2>2. \A q \in Requests : call[q] = "issue" => call'[q] = "issue" /\ email'[q] = email[q]
    BY <1>0, <1>9 DEF FindRefreshToken, Goto, RestType
  <2>3. failures' \in Nat /\ failures' >= failures
    BY <1>0, <2>1
  <2> QED BY <1>1, <2>1, <2>2, <2>3
<1>10. ASSUME NEW r \in Requests, Fails(r)
       PROVE  TokenlessCounted'
  <2>1. failures' = failures + 1 /\ UNCHANGED users /\ Done(r)
    BY <1>10 DEF Fails, database
  <2>2. \A q \in Requests : call[q] = "issue" /\ email[q] # email[r]
                               => call'[q] = "issue" /\ email'[q] = email[q]
    BY <1>0, <2>1 DEF Done, RestType
  <2>3. Tokenless' \subseteq Tokenless \cup {email[r]}
    BY <2>1, <2>2, TokenlessBut
  <2> QED BY <1>0, <2>1, <2>3, TokenlessOneMore
<1>11. CASE (\E t \in Jtis : Expire(t)) \/ UNCHANGED sessionVars
  <2>1. UNCHANGED <<users, failures, call, email>>
    BY <1>11 DEF Expire, request, sessionVars, database
  <2>2. failures' \in Nat /\ failures' >= failures
    BY <1>0, <2>1
  <2> QED BY <1>1, <2>1, <2>2
<1> QED
  BY <1>2, <1>3, <1>5, <1>6, <1>7, <1>8, <1>9, <1>10, <1>11 DEF SessionsNext, Step

\* register commits the account before it issues tokens: accounts that nobody
\* was given a token for are at most as many as calls failed, however many
\* registrations and logins interleave.
THEOREM TokenlessAccounts == SessionsSpec => []TokenlessExplained
<1>1. SessionsInit => TokenlessCounted
  <2> SUFFICES ASSUME SessionsInit PROVE TokenlessCounted
    OBVIOUS
  <2>1. Tokenless = {}
    BY DEF SessionsInit, Tokenless
  <2> QED BY <2>1, FS_EmptySet DEF SessionsInit, TokenlessCounted
<1>2. TokenlessCounted => TokenlessExplained
  BY DEF TokenlessCounted, TokenlessExplained
<1> QED BY <1>1, <1>2, InitIInv, NextIInv, TokenlessStep, PTL DEF SessionsSpec

-----------------------------------------------------------------------------
(* The live tokens of a login *)

\* A family is started by the token it is named after, and nothing is counted
\* for one that is not.
Families ==
  /\ \A t \in Jtis : refreshTokens[t] \in Rows => refreshTokens[refreshTokens[t].family] \in Rows
  /\ \A f \in Jtis : refreshTokens[f] = NONE => ended[f] = 0 /\ overlaps[f] = 0

SInv == Families /\ SessionsAccounted

\* Tokens are finitely many, so that the live ones can be counted.
LEMMA LiveFacts ==
  ASSUME NEW f \in Jtis
  PROVE  /\ IsFiniteSet(Live(f)) /\ Cardinality(Live(f)) \in Nat
         /\ \A t : t \in Live(f) <=> t \in Jtis /\ refreshTokens[t] # NONE /\ refreshTokens[t].family = f /\ ~refreshTokens[t].revoked
         /\ \A t : t \in Live(f)' <=> t \in Jtis /\ refreshTokens'[t] # NONE /\ refreshTokens'[t].family = f /\ ~refreshTokens'[t].revoked
         /\ \A t : t \in Members(f) <=> t \in Jtis /\ refreshTokens[t] # NONE /\ refreshTokens[t].family = f
         /\ \A t : t \in Members(f)' <=> t \in Jtis /\ refreshTokens'[t] # NONE /\ refreshTokens'[t].family = f
<1>1. IsFiniteSet(Jtis)
  BY BoundsAssumption, FS_Interval DEF Jtis
<1>2. Live(f) \subseteq Jtis
  BY DEF Live, Members
<1>3. IsFiniteSet(Live(f))
  BY <1>1, <1>2, FS_Subset
<1>4. Cardinality(Live(f)) \in Nat
  BY <1>3, FS_CardinalityType
<1> QED BY <1>3, <1>4 DEF Live, Members

\* A stored record is one that is not NONE.
LEMMA Stored ==
  ASSUME TokensType, NEW t \in Jtis
  PROVE  refreshTokens[t] \in Rows <=> refreshTokens[t] # NONE
BY NoneAssumption DEF TokensType

\* A family none of whose records is touched stays accounted for.
LEMMA FamilyUntouched ==
  ASSUME SessionsAccounted, NEW f \in Jtis,
         \A t \in Jtis : \/ refreshTokens'[t] = refreshTokens[t]
                         \/ /\ refreshTokens[t] = NONE \/ refreshTokens[t].family # f
                            /\ refreshTokens'[t] = NONE \/ refreshTokens'[t].family # f
                         \/ /\ refreshTokens[t] # NONE /\ refreshTokens'[t] # NONE
                            /\ refreshTokens'[t].family = refreshTokens[t].family
                            /\ refreshTokens'[t].revoked = refreshTokens[t].revoked,
         ended'[f] = ended[f], overlaps'[f] = overlaps[f], Members(f)' # {}
  PROVE  Cardinality(Live(f)') + ended'[f] = 1 + overlaps'[f]
<1>1. Live(f)' = Live(f)
  <2>1. ASSUME NEW t \in Jtis PROVE t \in Live(f)' <=> t \in Live(f)
    BY LiveFacts
  <2>2. Live(f)' \subseteq Jtis /\ Live(f) \subseteq Jtis
    BY DEF Live, Members
  <2> QED BY <2>1, <2>2
<1>2. Members(f) # {}
  BY LiveFacts
<1> QED BY <1>1, <1>2 DEF SessionsAccounted

\* The table is left alone, or a record expires.
LEMMA SessionsSame ==
  ASSUME IInv, SInv, TokensType', UNCHANGED history,
         \A t \in Jtis : \/ refreshTokens'[t] = refreshTokens[t]
                         \/ /\ refreshTokens[t] \in Rows /\ refreshTokens'[t] \in Rows
                            /\ refreshTokens'[t].family = refreshTokens[t].family
                            /\ refreshTokens'[t].revoked = refreshTokens[t].revoked
  PROVE  SInv'
<1>1. \A f \in Jtis : ended'[f] = ended[f] /\ overlaps'[f] = overlaps[f]
  BY DEF history
<1>2. SessionsAccounted'
  <2> SUFFICES ASSUME NEW f \in Jtis, Members(f)' # {}
               PROVE  Cardinality(Live(f)') + ended'[f] = 1 + overlaps'[f]
    BY DEF SessionsAccounted
  <2> QED BY <1>1, FamilyUntouched, NoneAssumption DEF SInv
<1>3. \A t \in Jtis : refreshTokens[t] \in Rows <=> refreshTokens'[t] \in Rows
  OBVIOUS
<1>4. \A t \in Jtis : refreshTokens[t] = NONE <=> refreshTokens'[t] = NONE
  BY NoneAssumption
<1>5. \A t \in Jtis : refreshTokens[t] \in Rows => refreshTokens[t].family \in Jtis /\ refreshTokens'[t].family = refreshTokens[t].family
  BY DEF Rows
<1>6. Families'
  BY <1>1, <1>3, <1>4, <1>5 DEF SInv, Families
<1> QED BY <1>2, <1>6 DEF SInv

\* register and login: a new family with one live token.
LEMMA CreateAccounted ==
  ASSUME IInv, SInv, NEW r \in Requests, NEW t \in Jtis, CreateToken(r, t)
  PROVE  SInv'
<1>0. TokensType /\ Fits(r)
  BY TypeParts DEF IInv
<1>1. /\ refreshTokens[t] = NONE /\ email[r] \in Emails /\ UNCHANGED <<ended, overlaps>>
      /\ refreshTokens' = [refreshTokens EXCEPT ![t] = NewRow(email[r], t)]
  BY <1>0 DEF CreateToken, Unused, history, Fits, Holds
<1>2. NewRow(email[r], t) \in Rows /\ NewRow(email[r], t).family = t /\ ~NewRow(email[r], t).revoked
  BY <1>1, NewRowType DEF NewRow
<1>3. /\ refreshTokens'[t] \in Rows /\ refreshTokens'[t] # NONE /\ refreshTokens'[t].family = t /\ ~refreshTokens'[t].revoked
      /\ \A u \in Jtis : u # t => refreshTokens'[u] = refreshTokens[u]
  BY <1>0, <1>1, <1>2, NoneAssumption DEF TokensType
<1>4. \A u \in Jtis : refreshTokens[u] \in Rows => refreshTokens[u].family # t /\ refreshTokens[u].family \in Jtis
  BY <1>1, NoneAssumption DEF SInv, Families, Rows
<1>5. Families'
  BY <1>1, <1>3, <1>4 DEF SInv, Families
<1>6. Live(t)' = {t}
  BY <1>0, <1>3, <1>4, LiveFacts, Stored
<1>7. ended'[t] = 0 /\ overlaps'[t] = 0
  BY <1>1 DEF SInv, Families
<1>8. Cardinality(Live(t)') + ended'[t] = 1 + overlaps'[t]
  BY <1>6, <1>7, FS_Singleton
<1>9. ASSUME NEW f \in Jtis, f # t, Members(f)' # {}
      PROVE  Cardinality(Live(f)') + ended'[f] = 1 + overlaps'[f]
  BY <1>1, <1>3, <1>9, FamilyUntouched DEF SInv
<1>10. SessionsAccounted'
  BY <1>8, <1>9 DEF SessionsAccounted
<1> QED BY <1>5, <1>10 DEF SInv

\* refresh: the old token is replaced, or, when another request has revoked it
\* since it was found, joined by its successor.
LEMMA RotateAccounted ==
  ASSUME IInv, SInv, NEW r \in Requests, NEW t \in Jtis, RotateRefreshToken(r, t)
  PROVE  SInv'
<1>a. PICK old \in Jtis : old = token[r] /\ refreshTokens[old] \in Rows
  BY DEF IInv, RotateRefreshToken, Fits, Holds, Presenting
<1>b. PICK f \in Jtis : f = refreshTokens[old].family
  BY <1>a DEF Rows
<1>0. TokensType /\ RestType /\ refreshTokens[old] \in Rows
  BY <1>a, TypeParts DEF IInv
<1>1. /\ refreshTokens[t] = NONE /\ old # t /\ refreshTokens' = Rotated(old, t) /\ UNCHANGED ended
      /\ overlaps' = [overlaps EXCEPT ![f] = @ + IF refreshTokens[old].revoked THEN 1 ELSE 0]
  BY <1>0, <1>a, <1>b, NoneAssumption DEF RotateRefreshToken, Unused
<1>2. refreshTokens[old].family = f /\ refreshTokens[old].user \in Emails /\ refreshTokens[old].revoked \in BOOLEAN
  BY <1>0, <1>b DEF Rows
<1>3. /\ refreshTokens'[t] = NewRow(refreshTokens[old].user, f)
      /\ refreshTokens'[old] = [refreshTokens[old] EXCEPT !.revoked = TRUE]
      /\ \A u \in Jtis : u # old /\ u # t => refreshTokens'[u] = refreshTokens[u]
  BY <1>0, <1>1, <1>2 DEF Rotated, TokensType
<1>4. /\ refreshTokens'[t] \in Rows /\ refreshTokens'[t] # NONE /\ refreshTokens'[t].family = f /\ ~refreshTokens'[t].revoked
  BY <1>2, <1>3, NewRowType, NoneAssumption DEF NewRow
<1>5. /\ refreshTokens'[old] \in Rows /\ refreshTokens'[old] # NONE /\ refreshTokens'[old].family = f /\ refreshTokens'[old].revoked
  BY <1>0, <1>2, <1>3, NoneAssumption DEF Rows
<1>6. /\ \A g \in Jtis : g # f => overlaps'[g] = overlaps[g]
      /\ overlaps'[f] = overlaps[f] + IF refreshTokens[old].revoked THEN 1 ELSE 0
  BY <1>0, <1>1, <1>2 DEF RestType
<1>7. Families'
  <2>1. refreshTokens[f] \in Rows /\ f # t
    BY <1>0, <1>1, <1>2, NoneAssumption DEF SInv, Families
  <2>2. \A u \in Jtis : refreshTokens[u] \in Rows => refreshTokens'[u] \in Rows
    BY <1>3, <1>4, <1>5
  <2>3. \A u \in Jtis : refreshTokens[u] \in Rows => refreshTokens[u].family \in Jtis
    BY DEF Rows
  <2>4. \A u \in Jtis : refreshTokens'[u] \in Rows => refreshTokens'[refreshTokens'[u].family] \in Rows
    BY <1>0, <1>2, <1>3, <1>4, <1>5, <2>1, <2>2, <2>3 DEF SInv, Families
  <2>5. \A g \in Jtis : refreshTokens'[g] = NONE => refreshTokens[g] = NONE /\ g # f
    BY <1>3, <1>4, <1>5, <2>1, <2>2, NoneAssumption
  <2> QED BY <1>1, <1>6, <2>4, <2>5 DEF SInv, Families
<1>8. ASSUME NEW g \in Jtis, g # f, Members(g)' # {}
      PROVE  Cardinality(Live(g)') + ended'[g] = 1 + overlaps'[g]
  <2>1. ASSUME NEW u \in Jtis
        PROVE  \/ refreshTokens'[u] = refreshTokens[u]
               \/ /\ refreshTokens[u] = NONE \/ refreshTokens[u].family # g
                  /\ refreshTokens'[u] = NONE \/ refreshTokens'[u].family # g
               \/ /\ refreshTokens[u] # NONE /\ refreshTokens'[u] # NONE
                  /\ refreshTokens'[u].family = refreshTokens[u].family
                  /\ refreshTokens'[u].revoked = refreshTokens[u].revoked
    BY <1>1, <1>2, <1>3, <1>4, <1>5, <1>8
  <2>2. ended'[g] = ended[g] /\ overlaps'[g] = overlaps[g]
    BY <1>1, <1>6, <1>8
  <2>3. SessionsAccounted
    BY DEF SInv
  <2> QED BY <1>8, <2>1, <2>2, <2>3, FamilyUntouched
<1>9. Live(f)' = (Live(f) \ {old}) \cup {t}
  <2>1. ASSUME NEW u \in Jtis PROVE u \in Live(f)' <=> u \in (Live(f) \ {old}) \cup {t}
    <3>1. CASE u = old
      BY <1>1, <1>5, <3>1 DEF Live, Members
    <3>2. CASE u = t
      BY <1>4, <3>2 DEF Live, Members
    <3>3. CASE u # old /\ u # t
      <4>1. refreshTokens'[u] = refreshTokens[u]
        BY <1>3, <3>3
      <4>2. u \in Live(f)' <=> u \in Live(f)
        BY <4>1 DEF Live, Members
      <4> QED BY <3>3, <4>2
    <3> QED BY <3>1, <3>2, <3>3
  <2>2. Live(f)' \subseteq Jtis /\ Live(f) \subseteq Jtis
    BY DEF Live, Members
  <2> QED BY <2>1, <2>2
<1>10. old \in Live(f) <=> ~refreshTokens[old].revoked
  <2>1. refreshTokens[old] # NONE
    BY <1>0, NoneAssumption
  <2> QED BY <1>2, <2>1 DEF Live, Members
<1>11. t \notin Live(f) \ {old}
  BY <1>1 DEF Live, Members
<1>12. /\ IsFiniteSet(Live(f)) /\ Cardinality(Live(f)) \in Nat
       /\ IsFiniteSet(Live(f) \ {old})
       /\ Cardinality(Live(f) \ {old}) = IF old \in Live(f) THEN Cardinality(Live(f)) - 1
                                                             ELSE Cardinality(Live(f))
  <2>1. IsFiniteSet(Live(f)) /\ Cardinality(Live(f)) \in Nat
    BY LiveFacts
  <2> QED BY <2>1, FS_RemoveElement
<1>13. Cardinality(Live(f)') = Cardinality(Live(f) \ {old}) + 1
  BY <1>9, <1>11, <1>12, FS_AddElement
<1>14. Cardinality(Live(f)) + ended[f] = 1 + overlaps[f]
  <2>1. old \in Members(f)
    BY <1>0, <1>2, NoneAssumption DEF Members
  <2> QED BY <1>2, <2>1 DEF SInv, SessionsAccounted
<1>15. overlaps[f] \in Nat /\ ended[f] \in Nat
  BY <1>0, <1>2 DEF RestType
<1>16. Cardinality(Live(f)') + ended'[f] = 1 + overlaps'[f]
  <2>1. CASE refreshTokens[old].revoked
    BY <1>1, <1>6, <1>10, <1>12, <1>13, <1>14, <1>15, <2>1
  <2>2. CASE ~refreshTokens[old].revoked
    BY <1>1, <1>6, <1>10, <1>12, <1>13, <1>14, <1>15, <2>2
  <2> QED BY <2>1, <2>2
<1>17. SessionsAccounted'
  BY <1>8, <1>16 DEF SessionsAccounted
<1> QED BY <1>7, <1>17 DEF SInv

\* logout: what is answered as revoked was a live token.
LEMMA RevokeAccounted ==
  ASSUME IInv, SInv, NEW r \in Requests, RevokeRefreshToken(r)
  PROVE  SInv'
<1>a. PICK old \in Jtis : old = token[r] /\ refreshTokens[old] \in Rows
  BY DEF IInv, RevokeRefreshToken, Fits, Holds, Presenting
<1>b. PICK f \in Jtis : f = refreshTokens[old].family
  BY <1>a DEF Rows
<1>0. TokensType /\ RestType /\ refreshTokens[old] \in Rows
  BY <1>a, TypeParts DEF IInv
<1>1. /\ refreshTokens' = [refreshTokens EXCEPT ![old].revoked = TRUE] /\ UNCHANGED overlaps
      /\ ended' = [ended EXCEPT ![f] = @ + IF refreshTokens[old].revoked THEN 0 ELSE 1]
  BY <1>a, <1>b DEF RevokeRefreshToken
<1>2. refreshTokens[old].family = f /\ refreshTokens[old].revoked \in BOOLEAN
  BY <1>0, <1>b DEF Rows
<1>3. /\ refreshTokens'[old] = [refreshTokens[old] EXCEPT !.revoked = TRUE]
      /\ \A u \in Jtis : u # old => refreshTokens'[u] = refreshTokens[u]
  BY <1>0, <1>1 DEF TokensType
<1>4. /\ refreshTokens'[old] \in Rows /\ refreshTokens'[old] # NONE /\ refreshTokens'[old].family = f /\ refreshTokens'[old].revoked
  BY <1>0, <1>2, <1>3, NoneAssumption DEF Rows
<1>5. /\ \A g \in Jtis : g # f => ended'[g] = ended[g]
      /\ ended'[f] = ended[f] + IF refreshTokens[old].revoked THEN 0 ELSE 1
  BY <1>0, <1>1, <1>2 DEF RestType
<1>6. Families'
  <2>1. \A u \in Jtis : /\ refreshTokens'[u] \in Rows <=> refreshTokens[u] \in Rows
                        /\ refreshTokens[u] \in Rows => refreshTokens'[u].family = refreshTokens[u].family /\ refreshTokens[u].family \in Jtis
    BY <1>0, <1>3, <1>4 DEF Rows
  <2>2. \A g \in Jtis : refreshTokens'[g] = NONE => refreshTokens[g] = NONE
    BY <1>3, <1>4
  <2>3. refreshTokens[f] # NONE
    BY <1>0, <1>2, NoneAssumption DEF SInv, Families
  <2> QED BY <1>1, <1>5, <2>1, <2>2, <2>3 DEF SInv, Families
<1>7. ASSUME NEW g \in Jtis, g # f, Members(g)' # {}
      PROVE  Cardinality(Live(g)') + ended'[g] = 1 + overlaps'[g]
  <2>1. ASSUME NEW u \in Jtis
        PROVE  \/ refreshTokens'[u] = refreshTokens[u]
               \/ /\ refreshTokens[u] = NONE \/ refreshTokens[u].family # g
                  /\ refreshTokens'[u] = NONE \/ refreshTokens'[u].family # g
               \/ /\ refreshTokens[u] # NONE /\ refreshTokens'[u] # NONE
                  /\ refreshTokens'[u].family = refreshTokens[u].family
                  /\ refreshTokens'[u].revoked = refreshTokens[u].revoked
    BY <1>2, <1>3, <1>4, <1>7
  <2>2. ended'[g] = ended[g] /\ overlaps'[g] = overlaps[g]
    BY <1>1, <1>5, <1>7
  <2>3. SessionsAccounted
    BY DEF SInv
  <2> QED BY <1>7, <2>1, <2>2, <2>3, FamilyUntouched
<1>8. Live(f)' = Live(f) \ {old}
  <2>1. ASSUME NEW u \in Jtis PROVE u \in Live(f)' <=> u \in Live(f) \ {old}
    <3>1. CASE u = old
      BY <1>4, <3>1 DEF Live, Members
    <3>2. CASE u # old
      <4>1. refreshTokens'[u] = refreshTokens[u]
        BY <1>3, <3>2
      <4>2. u \in Live(f)' <=> u \in Live(f)
        BY <4>1 DEF Live, Members
      <4> QED BY <3>2, <4>2
    <3> QED BY <3>1, <3>2
  <2>2. Live(f)' \subseteq Jtis /\ Live(f) \subseteq Jtis
    BY DEF Live, Members
  <2> QED BY <2>1, <2>2
<1>9. old \in Live(f) <=> ~refreshTokens[old].revoked
  <2>1. refreshTokens[old] # NONE
    BY <1>0, NoneAssumption
  <2> QED BY <1>2, <2>1 DEF Live, Members
<1>10. /\ Cardinality(Live(f)) \in Nat
       /\ Cardinality(Live(f)') = IF old \in Live(f) THEN Cardinality(Live(f)) - 1
                                                      ELSE Cardinality(Live(f))
  <2>1. IsFiniteSet(Live(f)) /\ Cardinality(Live(f)) \in Nat
    BY LiveFacts
  <2> QED BY <1>8, <2>1, FS_RemoveElement
<1>11. Cardinality(Live(f)) + ended[f] = 1 + overlaps[f]
  <2>1. old \in Members(f)
    BY <1>0, <1>2, NoneAssumption DEF Members
  <2> QED BY <1>2, <2>1 DEF SInv, SessionsAccounted
<1>12. overlaps[f] \in Nat /\ ended[f] \in Nat
  BY <1>0, <1>2 DEF RestType
<1>13. Cardinality(Live(f)') + ended'[f] = 1 + overlaps'[f]
  <2>1. CASE refreshTokens[old].revoked
    BY <1>1, <1>5, <1>9, <1>10, <1>11, <1>12, <2>1
  <2>2. CASE ~refreshTokens[old].revoked
    BY <1>1, <1>5, <1>9, <1>10, <1>11, <1>12, <2>2
  <2> QED BY <2>1, <2>2
<1>14. SessionsAccounted'
  BY <1>7, <1>13 DEF SessionsAccounted
<1> QED BY <1>6, <1>14 DEF SInv

\* Every step keeps the account of the sessions.
LEMMA SessionsStep == IInv /\ SInv /\ [SessionsNext]_sessionVars => SInv'
<1> SUFFICES ASSUME IInv, SInv, [SessionsNext]_sessionVars
             PROVE  SInv'
  OBVIOUS
<1>0. TokensType /\ TokensType'
  BY NextIInv, TypeParts DEF IInv, TokensType, SessionsTypeOK
<1>1. ASSUME UNCHANGED <<refreshTokens, history>> PROVE SInv'
  BY <1>0, <1>1, SessionsSame
<1>2. ASSUME NEW t \in Jtis, Expire(t) PROVE SInv'
  <2>1. refreshTokens[t] \in Rows /\ refreshTokens' = [refreshTokens EXCEPT ![t].expired = TRUE] /\ UNCHANGED history
    BY <1>2 DEF Expire, IInv, KnownStored
  <2>2. /\ refreshTokens'[t] = [refreshTokens[t] EXCEPT !.expired = TRUE]
        /\ \A u \in Jtis : u # t => refreshTokens'[u] = refreshTokens[u]
    BY <1>0, <2>1 DEF TokensType
  <2>3. refreshTokens'[t].family = refreshTokens[t].family /\ refreshTokens'[t].revoked = refreshTokens[t].revoked
    BY <2>1, <2>2 DEF Rows
  <2>4. refreshTokens'[t] \in Rows
    BY <1>0, <2>1, ExpireAdvances DEF Advances
  <2> QED BY <1>0, <2>1, <2>2, <2>3, <2>4, SessionsSame
<1>3. ASSUME NEW r \in Requests, Step(r) PROVE SInv'
  <2>1. ASSUME NEW t \in Jtis, CreateToken(r, t) PROVE SInv'
    BY <2>1, CreateAccounted
  <2>2. ASSUME NEW t \in Jtis, RotateRefreshToken(r, t) PROVE SInv'
    BY <2>2, RotateAccounted
  <2>3. CASE RevokeRefreshToken(r)
    BY <2>3, RevokeAccounted
  <2>4. ASSUME NEW e \in Emails, Register(r, e) \/ Login(r, e) PROVE SInv'
    BY <1>1, <2>4 DEF Register, Login, database
  <2>5. ASSUME NEW t \in Jtis, Refresh(r, t) \/ Logout(r, t) PROVE SInv'
    BY <1>1, <2>5 DEF Refresh, Logout, Present, database
  <2>6. CASE CreateUser(r) \/ CreateConflict(r) \/ FindRefreshToken(r) \/ FindRejects(r) \/ Fails(r)
    BY <1>1, <2>6 DEF CreateUser, CreateConflict, FindRefreshToken, FindRejects, Fails, database
  <2> QED BY <1>3, <2>1, <2>2, <2>3, <2>4, <2>5, <2>6 DEF Step
<1>4. CASE UNCHANGED sessionVars
  BY <1>1, <1>4 DEF sessionVars, database
<1> QED BY <1>2, <1>3, <1>4 DEF SessionsNext

\* However rotations and logouts of one login interleave, its live tokens are
\* the one it started with, less the logouts that answered revoked: true, plus
\* the rotations that overlapped another rotation or a logout of their token
\* (rotateRefreshToken updates the old record without looking at revokedAt).
THEOREM LiveTokensAccounted == SessionsSpec => []SessionsAccounted
<1>1. SessionsInit => SInv
  <2> SUFFICES ASSUME SessionsInit PROVE SInv
    OBVIOUS
  <2>1. \A t \in Jtis : refreshTokens[t] = NONE /\ ended[t] = 0 /\ overlaps[t] = 0
    BY DEF SessionsInit
  <2>2. \A f \in Jtis : Members(f) = {}
    BY <2>1 DEF Members
  <2> QED BY <2>1, <2>2, NoneAssumption DEF SInv, Families, SessionsAccounted
<1>2. SInv => SessionsAccounted
  BY DEF SInv
<1> QED BY <1>1, <1>2, InitIInv, NextIInv, SessionsStep, PTL DEF SessionsSpec
=============================================================================
