--------------------------- MODULE Authentication ---------------------------
(***************************************************************************)
(* AuthenticationService with JwtHandler and AccessControl: who may do     *)
(* what, with which token, until when.                                     *)
(*                                                                         *)
(* A token is its payload.  HS256 is deterministic, so two tokens with     *)
(* equal payloads are the same string, and the set of revoked strings is a *)
(* set of payloads.  A string the service did not sign is never accepted   *)
(* and is left out, apart from NoToken.                                    *)
(*                                                                         *)
(* The module has no step of its own beyond the clock: the callers are in  *)
(* RestApi.  Time is system_clock in whole seconds, as in the payload.     *)
(***************************************************************************)
EXTENDS Naturals

CONSTANTS
  User,          \* registered user names
  Registered,    \* the roles they are registered with
  AccessExpiry,  \* m_accessTokenExpiry
  RefreshExpiry, \* m_refreshTokenExpiry
  MaxTime        \* bound: the last second

Role == {"Admin", "Operator", "Viewer"}

ASSUME AuthAssumption == /\ Registered \subseteq Role
                         /\ AccessExpiry \in Nat
                         /\ RefreshExpiry \in Nat
                         /\ MaxTime \in Nat

VARIABLES
  clock,   \* seconds since the service was created
  users,   \* m_users: the role of each user
  revoked  \* m_revokedTokens

authVars == <<clock, users, revoked>>

Resource == {"devices", "sensors", "automation", "metrics"}

Token == [sub : User, role : Role, iat : Nat, exp : Nat]
NoToken == [none |-> TRUE]

AuthTypeOK == /\ clock \in 0..MaxTime
              /\ users \in [User -> Role]
              /\ revoked \subseteq Token

\* RegisterUser has been called for each user before requests come in: a user
\* keeps the role of that call, as a second one for the name is refused.
AuthInit == /\ clock = 0
            /\ users \in [User -> Registered]
            /\ revoked = {}

----------------------------------------------------------------------------
(* JwtHandler *)

\* Mutant of Generate: the times of the payload are rounded up to the hour.
GenerateRounded(claims, life, now) ==
  [sub |-> claims.sub, role |-> claims.role, iat |-> MaxTime, exp |-> MaxTime + life]

Generate(claims, life, now) ==
  [sub |-> claims.sub, role |-> claims.role, iat |-> now, exp |-> now + life]

\* A token is still good in the second in which it expires.
Verify(t) == t # NoToken /\ clock <= t.exp

----------------------------------------------------------------------------
(* AccessControl *)

CanAccess(role, resource, permission) ==
  \/ role = "Admin"
  \/ role = "Operator" /\ resource # "users" /\ permission \in {"Read", "Write"}
  \/ /\ role = "Viewer"
     /\ resource \in {"devices", "sensors", "metrics"}
     /\ permission = "Read"

----------------------------------------------------------------------------
(* AuthenticationService: what the operations read and write.  The clock may *)
(* pass into the next second between two readings of one operation.          *)

Ticks(later) == /\ later \in {clock, clock + 1}
                /\ later <= MaxTime

ValidateToken(t) == t \notin revoked /\ Verify(t)

\* Login reads the clock for each of the two tokens.
Login(u, later) ==
  LET claims == [sub |-> u, role |-> users[u]]
  IN  {Generate(claims, AccessExpiry, clock), Generate(claims, RefreshExpiry, later)}

\* RefreshToken does not look which of the two tokens it got, and returns an
\* access token alone.
Refreshes(t) == Verify(t) /\ t \notin revoked

\* Mutant of RefreshToken: the empty m_refreshToken is handed out as well.
RefreshTokenPair(t, later) == {Generate(t, AccessExpiry, later), NoToken}

RefreshToken(t, later) == {Generate(t, AccessExpiry, later)}

Logout(t) == revoked' = revoked \cup {t}

\* The second passes.
Tick == /\ clock < MaxTime
        /\ clock' = clock + 1
        /\ UNCHANGED <<users, revoked>>
=============================================================================
