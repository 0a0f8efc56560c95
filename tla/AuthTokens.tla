----------------------------- MODULE AuthTokens -----------------------------
(***************************************************************************)
(* The server's side of a session: access tokens that carry the role and   *)
(* expire, and refresh tokens, rows of table refresh_tokens, that Login    *)
(* inserts, RefreshToken rotates and Logout revokes.  Every statement of a *)
(* request is a step; requests interleave.                                 *)
(*                                                                         *)
(* A refresh token is the clock in nanoseconds: two requests may draw the  *)
(* same one ("clash"), and the UNIQUE token_hash refuses the second.       *)
(* A definition Name_Variant is Name with a plausible bug in it.           *)
(***************************************************************************)
EXTENDS Integers, FiniteSets

CONSTANTS
    User, NoUser,
    Req,          \* request slots
    Token,        \* refresh tokens that can ever be drawn
    NoToken,
    AccessLife,   \* life of an access token, in ticks (15 minutes)
    RefreshLife,  \* life of a refresh token (7 days)
    CheckTime,    \* the longest time from reading an account to signing for it
    MaxClock,     \* bound: ticks
    Faults        \* subset of {"database", "clash", "network"}

ASSUME AuthAssumption ==
    /\ NoUser \notin User /\ NoToken \notin Token /\ IsFiniteSet(Req)
    /\ AccessLife \in Nat /\ RefreshLife \in Nat /\ CheckTime \in Nat /\ MaxClock \in Nat
    /\ Faults \subseteq {"database", "clash", "network"}

VARIABLES
    clock,
    role,       \* users.role
    lastAdmin,  \* history: when the user was last an admin
    rt,         \* table refresh_tokens
    jwts,       \* access tokens handed out, until they expire
    req,        \* request slots
    redeemed,   \* history: how often a refresh token was exchanged
    handed,     \* history: how often a refresh token was handed out
    unrevoked   \* history: tokens whose revocation by a rotation failed

history == <<redeemed, handed, unrevoked>>
authVars == <<clock, role, lastAdmin, rt, jwts, req, history>>

Role == {"user", "admin"}
Jwt == [user: User, role: Role, exp: Nat]
NoJwt == [user |-> NoUser, role |-> "user", exp |-> 0]
TokenRow == [status: {"none", "live", "revoked"}, user: User \cup {NoUser}, exp: Nat]
NoRow == [status |-> "none", user |-> NoUser, exp |-> 0]

\* "refused" is a verdict on what was presented, "failed" the error of a statement.
Request == [pc: {"idle", "bcrypt", "lookup", "revoke", "mint", "insert", "logout",
                 "ok", "refused", "failed"},
            user: User \cup {NoUser}, role: Role,
            since: 0..MaxClock,           \* when the account was read
            tok: Token \cup {NoToken},    \* the token presented
            new: Token \cup {NoToken},    \* the token drawn
            jwt: Jwt \cup {NoJwt}]
Before(pc, u, ro, t) ==
    [pc |-> pc, user |-> u, role |-> ro, since |-> 0, tok |-> t, new |-> NoToken, jwt |-> NoJwt]
Checking(u) == [Before("bcrypt", u, role[u], NoToken) EXCEPT !.since = clock]
Signed(pc, t, n, j) ==
    [pc |-> pc, user |-> NoUser, role |-> "user", since |-> 0, tok |-> t, new |-> n, jwt |-> j]
Done(pc) == Before(pc, NoUser, "user", NoToken)
Idle == Done("idle")

AuthTypeOK ==
    /\ clock \in 0..MaxClock
    /\ role \in [User -> Role] /\ lastAdmin \in [User -> 0..MaxClock]
    /\ rt \in [Token -> TokenRow]
    /\ jwts \in SUBSET Jwt
    /\ req \in [Req -> Request]
    /\ redeemed \in [Token -> Nat] /\ handed \in [Token -> Nat]
    /\ unrevoked \in SUBSET Token

\* Accounts exist; any of them may be an admin.
AuthInit ==
    /\ clock = 0
    /\ role \in [User -> Role]
    /\ lastAdmin = [u \in User |-> 0]
    /\ rt = [t \in Token |-> NoRow]
    /\ jwts = {}
    /\ req = [r \in Req |-> Idle]
    /\ redeemed = [t \in Token |-> 0]
    /\ handed = [t \in Token |-> 0]
    /\ unrevoked = {}

At(r, pc) == req[r].pc = pc
Refuse(r) == req' = [req EXCEPT ![r] = Done("refused")]
Fail(r) == req' = [req EXCEPT ![r] = Done("failed")]
DbFails == "database" \in Faults

\* The role is fixed when the token is signed; nothing looks it up later.
SignedFor_Long(u, ro) == [user |-> u, role |-> ro, exp |-> clock + 2 * AccessLife]
SignedFor(u, ro) == [user |-> u, role |-> ro, exp |-> clock + AccessLife]

\* The time stamps requests may draw.
Drawable(r) ==
    {t \in Token : rt[t].status = "none" /\ ("clash" \in Faults \/ \A q \in Req : req[q].new # t)}

Drawn(r, u, ro) ==
    \E t \in Drawable(r) :
        req' = [req EXCEPT ![r] = Signed("insert", req[r].tok, t, SignedFor(u, ro))]

-----------------------------------------------------------------------------
(* Login: read the account, compare the password (bcrypt), sign, insert. *)

\* The account with its role is read.
BeginLogin(r) ==
    /\ At(r, "idle")
    /\ \E u \in User : req' = [req EXCEPT ![r] = Checking(u)]
    /\ UNCHANGED <<clock, role, lastAdmin, rt, jwts, history>>

\* A wrong password is refused; the account may not have been readable.
CheckPassword(r) ==
    /\ At(r, "bcrypt")
    /\ Drawn(r, req[r].user, req[r].role) \/ Refuse(r) \/ (DbFails /\ Fail(r))
    /\ UNCHANGED <<clock, role, lastAdmin, rt, jwts, history>>

(* RefreshToken: look up, revoke, read the role and sign, insert. *)

Present(r, t, pc) ==
    /\ At(r, "idle")
    /\ req' = [req EXCEPT ![r] = Before(pc, NoUser, "user", t)]
    /\ UNCHANGED <<clock, role, lastAdmin, rt, jwts, history>>

\* A client presents any token ever handed out, its own one twice included.
BeginRefresh(r) == \E t \in Token : handed[t] > 0 /\ Present(r, t, "lookup")
BeginLogout(r) == \E t \in Token : handed[t] > 0 /\ Present(r, t, "logout")

Usable_Revoked(t) == rt[t].status # "none" /\ clock <= rt[t].exp
Usable(t) == rt[t].status = "live" /\ clock <= rt[t].exp

LookUp(r) ==
    /\ At(r, "lookup")
    /\ \/ /\ Usable(req[r].tok)
          /\ req' = [req EXCEPT ![r] = Before("revoke", rt[req[r].tok].user, "user", req[r].tok)]
       \/ ~Usable(req[r].tok) /\ Refuse(r)
       \/ DbFails /\ Fail(r)
    /\ UNCHANGED <<clock, role, lastAdmin, rt, jwts, history>>

\* The error of the UPDATE is ignored.
RevokeOld_Forgotten(r) ==
    /\ At(r, "revoke")
    /\ req' = [req EXCEPT ![r].pc = "mint"]
    /\ UNCHANGED <<clock, role, lastAdmin, rt, jwts, history>>

RevokeOld(r) ==
    /\ At(r, "revoke")
    /\ \/ rt' = [rt EXCEPT ![req[r].tok].status = "revoked"] /\ UNCHANGED unrevoked
       \/ DbFails /\ unrevoked' = unrevoked \cup {req[r].tok} /\ UNCHANGED rt
    /\ req' = [req EXCEPT ![r].pc = "mint"]
    /\ UNCHANGED <<clock, role, lastAdmin, jwts, redeemed, handed>>

ReadRoleAndSign(r) ==
    /\ At(r, "mint")
    /\ \/ Drawn(r, req[r].user, role[req[r].user])
       \/ DbFails /\ Fail(r)
    /\ UNCHANGED <<clock, role, lastAdmin, rt, jwts, history>>

Taken_Upsert(t) == FALSE
Taken(t) == rt[t].status # "none"

\* The row is inserted and the pair handed out; a taken hash (UNIQUE) or a
\* statement fails the request, and by then the old token is revoked.
InsertToken(r) ==
    /\ At(r, "insert")
    /\ LET n == req[r].new IN
       \/ /\ ~Taken(n)
          /\ rt' = [rt EXCEPT ![n] = [status |-> "live", user |-> req[r].jwt.user,
                                      exp |-> clock + RefreshLife]]
          /\ jwts' = jwts \cup {req[r].jwt}
          /\ redeemed' = [t \in Token |-> redeemed[t] + IF t = req[r].tok THEN 1 ELSE 0]
          /\ handed' = [handed EXCEPT ![n] = @ + 1]
          /\ req' = [req EXCEPT ![r] = Signed("ok", NoToken, n, req[r].jwt)]
       \/ /\ Taken(n) \/ DbFails
          /\ Fail(r)
          /\ UNCHANGED <<rt, jwts, redeemed, handed>>
    /\ UNCHANGED <<clock, role, lastAdmin, unrevoked>>

\* Logout answers 200 whatever the UPDATE does.
RevokeForLogout(r) ==
    /\ At(r, "logout")
    /\ \/ rt' = [rt EXCEPT ![req[r].tok].status = "revoked"]
       \/ DbFails /\ UNCHANGED rt
    /\ req' = [req EXCEPT ![r] = Done("ok")]
    /\ UNCHANGED <<clock, role, lastAdmin, jwts, history>>

-----------------------------------------------------------------------------
\* The answer leaves the server, whether or not it arrives.
Answered(r) ==
    /\ req[r].pc \in {"ok", "refused", "failed"}
    /\ req' = [req EXCEPT ![r] = Idle]
    /\ UNCHANGED <<clock, role, lastAdmin, rt, jwts, history>>

\* The request never comes, or its connection breaks: its context ends, and the
\* statements it still has to make with it.
Break(r) ==
    /\ "network" \in Faults
    /\ req[r].pc \in {"bcrypt", "lookup", "revoke", "mint", "insert", "logout"}
    /\ req' = [req EXCEPT ![r] = Idle]
    /\ UNCHANGED <<clock, role, lastAdmin, rt, jwts, history>>

\* An admin changes a role (UpdateUserRole): access tokens are not touched.
SetRole ==
    /\ \E u \in User, ro \in Role :
         /\ ro # role[u]
         /\ role' = [role EXCEPT ![u] = ro]
         /\ lastAdmin' = IF role[u] = "admin" THEN [lastAdmin EXCEPT ![u] = clock] ELSE lastAdmin
    /\ UNCHANGED <<clock, rt, jwts, req, history>>

\* A login signs within CheckTime (the comparison is CPU time only).
Tick ==
    /\ clock < MaxClock
    /\ \A r \in Req : At(r, "bcrypt") => clock < req[r].since + CheckTime
    /\ clock' = clock + 1
    /\ jwts' = {j \in jwts : j.exp > clock + 1}
    /\ UNCHANGED <<role, lastAdmin, rt, req, history>>

Serve(r) == \/ CheckPassword(r) \/ LookUp(r) \/ RevokeOld(r) \/ ReadRoleAndSign(r)
            \/ InsertToken(r) \/ RevokeForLogout(r)

AuthNext ==
    \/ \E r \in Req : \/ BeginLogin(r) \/ BeginRefresh(r) \/ BeginLogout(r)
                      \/ Serve(r) \/ Answered(r) \/ Break(r)
    \/ SetRole \/ Tick

AuthSpec == AuthInit /\ [][AuthNext]_authVars

-----------------------------------------------------------------------------
\* What the middleware accepts: the signature and the expiry, no look-up.
Accepted(j) == j \in jwts /\ j.exp > clock
ActsAsAdmin(j) == Accepted(j) /\ j.role = "admin"

\* Whoever passes the Admin middleware is an admin or was one less than the life
\* of an access token and the time of a login ago, however logins, refreshes and
\* changes of role interleave: RefreshToken reads the role anew.
StaleRoleBounded ==
    \A j \in jwts : ActsAsAdmin(j) =>
        role[j.user] = "admin" \/ clock < lastAdmin[j.user] + CheckTime + AccessLife

\* No two answers carry the same refresh token, equal time stamps included
\* (and the state is of its type).
NoSharedToken == AuthTypeOK /\ \A t \in Token : handed[t] <= 1

\* A token that was exchanged is dead, unless its UPDATE, whose error is
\* ignored, failed.
RedeemedIsRevoked ==
    \A t \in Token \ unrevoked : redeemed[t] > 0 => rt[t].status = "revoked"

\* A token is exchanged by requests that overlap only, each once: the first of
\* them to revoke it shuts out whoever looks it up later (RefreshToken).
Exchanging(t) == {r \in Req : req[r].tok = t /\ req[r].pc \in {"revoke", "mint", "insert"}}
ExchangesOverlap ==
    \A t \in Token \ unrevoked : redeemed[t] + Cardinality(Exchanging(t)) <= Cardinality(Req)

\* A revoked token stays revoked: no later insert of the same hash revives it.
RevokedForGood ==
    [][\A t \in Token : rt[t].status = "revoked" => rt'[t].status = "revoked"]_authVars

=============================================================================
