---------------------------- MODULE AccessTokens ----------------------------
(***************************************************************************)
(* A user's role and the access tokens that carry it: UsersService changes *)
(* the role in the database, AuthService signs what it has read of it, and *)
(* JwtAuthGuard trusts the claim until the token expires.                  *)
(*                                                                         *)
(* ADMIN and MANAGER are alike to what is scoped by role: both are STAFF.  *)
(***************************************************************************)
EXTENDS Integers, FiniteSets

CONSTANTS AccessTtl,   \* JWT_ACCESS_TTL_SECONDS, in ticks
          NULL,
          MaxTime,     \* bound: ticks
          MaxTokens,   \* bound: access tokens of the user
          MaxChanges   \* bound: changes of the role

ASSUME TtlAssumption == AccessTtl \in Nat \ {0}
ASSUME TokenBoundsAssumption == {MaxTime, MaxTokens, MaxChanges} \subseteq Nat
ASSUME TokenNullAssumption == NULL \notin Nat

VARIABLES
  now,
  role,      \* users.role
  held,      \* history: [role -> when the user last had it, or NULL]
  changes,
  reading,   \* the user a login or refresh has read and signs next, or NULL
  tokens     \* access tokens the client has

tokenVars == <<now, role, held, changes, reading, tokens>>

Roles == {"USER", "STAFF"}
Times == 0 .. MaxTime

TokenTypeOK ==
  /\ now \in Times /\ role \in Roles /\ changes \in 0 .. MaxChanges
  /\ held \in [Roles -> Times \cup {NULL}]
  /\ reading \in [role : Roles, read : Times] \cup {NULL}
  /\ tokens \subseteq [role : Roles, read : Times, issued : Times]

TokenInit ==
  /\ now = 0 /\ role \in Roles /\ changes = 0
  /\ held = [r \in Roles |-> IF r = role THEN 0 ELSE NULL]
  /\ reading = NULL /\ tokens = {}

Tick ==
  /\ now < MaxTime
  /\ now' = now + 1
  /\ held' = [held EXCEPT ![role] = now + 1]
  /\ UNCHANGED <<role, changes, reading, tokens>>

\* PATCH /users/:id/role; nothing is revoked.
UpdateRole(r) ==
  /\ changes < MaxChanges /\ r # role
  /\ role' = r /\ changes' = changes + 1
  /\ held' = [held EXCEPT ![r] = now]
  /\ UNCHANGED <<now, reading, tokens>>

\* login and refresh read the user, then verify a hash for as long as it takes.
ReadUser ==
  /\ reading = NULL /\ Cardinality(tokens) < MaxTokens
  /\ reading' = [role |-> role, read |-> now]
  /\ UNCHANGED <<now, role, held, changes, tokens>>

\* issueTokenPair signs the role that was read.
SignAccessToken ==
  /\ reading # NULL
  /\ tokens' = tokens \cup {[role |-> reading.role, read |-> reading.read, issued |-> now]}
  /\ reading' = NULL
  /\ UNCHANGED <<now, role, held, changes>>

\* The guard decodes the token without looking at its exp.
SignedOnly(t) == t \in tokens

\* jwtService.verifyAsync: the signature is right and exp has not come.
Verifies(t) == t \in tokens /\ now < t.issued + AccessTtl

TokenStep == Tick \/ ReadUser \/ SignAccessToken \/ \E r \in Roles : UpdateRole(r)

=============================================================================
