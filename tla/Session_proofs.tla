---------------------------- MODULE Session_proofs ----------------------------
(***************************************************************************)
(* What AuthTokens promises of refresh tokens and of roles, and what       *)
(* WebSession promises of the store that the calls of a page share, for    *)
(* any users, any number of racing requests and tokens and all failures.   *)
(***************************************************************************)
EXTENDS WebSession, FiniteSetTheorems, TLAPS

-----------------------------------------------------------------------------
(* Types, and what makes them hold. *)

\* A request has the token, the user and the signature that its step needs.
Equipped ==
    \A r \in Req :
        /\ req[r].pc \in {"lookup", "revoke", "logout"} => req[r].tok \in Token
        /\ req[r].pc \in {"bcrypt", "revoke", "mint"} => req[r].user \in User
        /\ req[r].pc = "insert" => req[r].new \in Token /\ req[r].jwt \in Jwt
\* A row that is there belongs to somebody.
Owned == \A t \in Token : rt[t].status # "none" => rt[t].user \in User
\* A token is handed out with its row, hence once; and only rows are revoked.
Counted ==
    \A t \in Token : handed[t] <= 1 /\ (rt[t].status = "none" => handed[t] = 0)
Presented ==
    \A r \in Req : req[r].pc \in {"revoke", "logout"} => rt[req[r].tok].status # "none"
Typed == AuthTypeOK /\ Equipped /\ Owned /\ Counted /\ Presented

LEMMA InitTyped == AuthInit => Typed
BY AuthAssumption DEF AuthInit, Typed, AuthTypeOK, Equipped, Owned, Counted, Presented, Request, Idle,
   Done, Before, NoJwt, Jwt, TokenRow, NoRow, Role

\* The requests that the steps write.
LEMMA DoneTyped ==
    ASSUME Typed, NEW r \in Req, NEW pc \in {"idle", "ok", "refused", "failed"}, req' = [req EXCEPT ![r] = Done(pc)]
    PROVE  req' \in [Req -> Request] /\ Equipped'
BY AuthAssumption DEF Typed, AuthTypeOK, Done, Before, Request, Role, NoJwt, Equipped

LEMMA RefuseTyped ==
    ASSUME Typed, NEW r \in Req, Refuse(r) \/ Fail(r)
    PROVE  /\ req' \in [Req -> Request] /\ Equipped'
           /\ req'[r].pc \in {"refused", "failed"} /\ \A q \in Req : q # r => req'[q] = req[q]
<1>1. req' \in [Req -> Request] /\ Equipped' BY DoneTyped DEF Refuse, Fail
<1> QED BY <1>1 DEF Refuse, Fail, Done, Before, Typed, AuthTypeOK

LEMMA BeforeTyped ==
    ASSUME Typed, NEW r \in Req, NEW pc \in {"bcrypt", "lookup", "revoke", "mint", "logout"},
           NEW u \in User \cup {NoUser}, NEW ro \in Role, NEW t \in Token \cup {NoToken},
           pc \in {"lookup", "revoke", "logout"} => t \in Token,
           pc \in {"bcrypt", "revoke", "mint"} => u \in User,
           req' = [req EXCEPT ![r] = Before(pc, u, ro, t)]
    PROVE  req' \in [Req -> Request] /\ Equipped'
<1>1. Before(pc, u, ro, t) \in Request BY AuthAssumption DEF Before, Request, NoJwt
<1> QED BY <1>1 DEF Typed, AuthTypeOK, Equipped, Before

LEMMA CheckingTyped ==
    ASSUME Typed, NEW r \in Req, NEW u \in User, req' = [req EXCEPT ![r] = Checking(u)]
    PROVE  /\ req' \in [Req -> Request] /\ Equipped'
           /\ req'[r].pc = "bcrypt" /\ req'[r].user = u /\ req'[r].role = role[u]
           /\ req'[r].since = clock /\ req'[r].tok = NoToken
           /\ \A q \in Req : q # r => req'[q] = req[q]
<1>1. /\ Checking(u) \in Request /\ Checking(u).pc = "bcrypt" /\ Checking(u).user = u
      /\ Checking(u).role = role[u] /\ Checking(u).since = clock /\ Checking(u).tok = NoToken
  BY AuthAssumption DEF Checking, Before, Request, NoJwt, Typed, AuthTypeOK
<1> QED BY <1>1 DEF Typed, AuthTypeOK, Equipped

LEMMA DrawnTyped ==
    ASSUME Typed, NEW r \in Req, NEW u \in User, NEW ro \in Role, Drawn(r, u, ro)
    PROVE  req' \in [Req -> Request] /\ Equipped' /\ req'[r].pc = "insert"
           /\ \A q \in Req : q # r => req'[q] = req[q]
<1>1. PICK t \in Drawable(r) :
        req' = [req EXCEPT ![r] = Signed("insert", req[r].tok, t, SignedFor(u, ro))]
  BY DEF Drawn
<1>2. t \in Token BY DEF Drawable
<1>3. SignedFor(u, ro) \in Jwt BY AuthAssumption DEF Typed, AuthTypeOK, SignedFor, Jwt
<1>4. Signed("insert", req[r].tok, t, SignedFor(u, ro)) \in Request
  BY <1>2, <1>3, AuthAssumption DEF Typed, AuthTypeOK, Signed, Request, Role
<1> QED BY <1>1, <1>2, <1>3, <1>4 DEF Typed, AuthTypeOK, Equipped, Signed

\* What an UPDATE that revokes leaves of the rows, whether or not it works.
LEMMA RevokeRows ==
    ASSUME Typed, NEW k, rt' = [rt EXCEPT ![k].status = "revoked"] \/ UNCHANGED rt
    PROVE  /\ rt' \in [Token -> TokenRow]
           /\ \A t \in Token : rt'[t].user = rt[t].user /\ rt'[t].status \in {rt[t].status, "revoked"}
           /\ \A t \in Token : t # k => rt'[t].status = rt[t].status
<1>1. rt \in [Token -> TokenRow] BY DEF Typed, AuthTypeOK
<1>2. CASE UNCHANGED rt BY <1>1, <1>2
<1>3. CASE rt' = [rt EXCEPT ![k].status = "revoked"]
  <2>1. \A row \in TokenRow : LET cut == [row EXCEPT !.status = "revoked"] IN
          cut \in TokenRow /\ cut.user = row.user /\ cut.status = "revoked"
    BY DEF TokenRow
  <2>2. rt' = [t \in Token |-> IF t = k THEN [rt[t] EXCEPT !.status = "revoked"] ELSE rt[t]]
    BY <1>1, <1>3
  <2> QED BY <1>1, <2>1, <2>2
<1> QED BY <1>2, <1>3

\* Every step keeps the types.
LEMMA StepTyped == Typed /\ [AuthNext]_authVars => Typed'
<1> SUFFICES ASSUME Typed, [AuthNext]_authVars PROVE Typed'
  OBVIOUS
<1>1. ASSUME NEW r \in Req, BeginLogin(r) PROVE Typed'
  <2>1. PICK u \in User : req' = [req EXCEPT ![r] = Checking(u)]
    BY <1>1 DEF BeginLogin
  <2> QED BY <1>1, <2>1, CheckingTyped DEF BeginLogin, Typed, AuthTypeOK, Owned, Counted, Presented, history
<1>2. ASSUME NEW r \in Req, CheckPassword(r) PROVE Typed'
  <2>1. req' \in [Req -> Request] /\ Equipped' /\ req'[r].pc \in {"insert", "refused", "failed"}
        /\ \A q \in Req : q # r => req'[q] = req[q]
    <3>1. CASE Drawn(r, req[r].user, req[r].role)
      BY <1>2, <3>1, DrawnTyped DEF CheckPassword, At, Typed, AuthTypeOK, Equipped, Request
    <3>2. CASE Refuse(r) \/ Fail(r) BY <3>2, RefuseTyped
    <3> QED BY <1>2, <3>1, <3>2 DEF CheckPassword
  <2> QED BY <1>2, <2>1 DEF CheckPassword, Typed, AuthTypeOK, Owned, Counted, Presented, history
<1>3. ASSUME NEW r \in Req, BeginRefresh(r) PROVE Typed'
  <2>1. PICK t \in Token : handed[t] > 0 /\ Present(r, t, "lookup") BY <1>3 DEF BeginRefresh
  <2>2. req' \in [Req -> Request] /\ Equipped' BY <2>1, BeforeTyped DEF Present, Role
  <2> QED BY <2>1, <2>2 DEF Present, Typed, AuthTypeOK, Owned, Counted, Presented, history, Before
<1>4. ASSUME NEW r \in Req, BeginLogout(r) PROVE Typed'
  <2>1. PICK t \in Token : handed[t] > 0 /\ Present(r, t, "logout") BY <1>4 DEF BeginLogout
  <2>2. req' \in [Req -> Request] /\ Equipped' BY <2>1, BeforeTyped DEF Present, Role
  <2> QED BY <2>1, <2>2 DEF Present, Typed, AuthTypeOK, Owned, Counted, Presented, history, Before
<1>5. ASSUME NEW r \in Req, LookUp(r) PROVE Typed'
  <2>1. CASE Refuse(r) \/ Fail(r)
    BY <1>5, <2>1, RefuseTyped DEF LookUp, Typed, AuthTypeOK, Owned, Counted, Presented, history
  <2>2. CASE Usable(req[r].tok)
             /\ req' = [req EXCEPT ![r] = Before("revoke", rt[req[r].tok].user, "user", req[r].tok)]
    <3>1. req[r].tok \in Token BY <1>5 DEF LookUp, At, Typed, Equipped
    <3>2. rt[req[r].tok].user \in User /\ rt[req[r].tok].status # "none"
      BY <2>2, <3>1 DEF Typed, Owned, Usable
    <3>3. req' \in [Req -> Request] /\ Equipped' BY <2>2, <3>1, <3>2, BeforeTyped DEF Role
    <3> QED BY <1>5, <2>2, <3>2, <3>3 DEF LookUp, Before, Typed, AuthTypeOK, Owned, Counted, Presented, history
  <2> QED BY <1>5, <2>1, <2>2 DEF LookUp
<1>6. ASSUME NEW r \in Req, RevokeOld(r) PROVE Typed'
  <2>1. req[r].tok \in Token /\ req[r].user \in User /\ rt[req[r].tok].status # "none"
    BY <1>6 DEF RevokeOld, At, Typed, Equipped, Presented
  <2>2. req' \in [Req -> Request] /\ Equipped'
    BY <1>6, <2>1 DEF RevokeOld, Typed, AuthTypeOK, Request, Equipped
  <2>3. rt' \in [Token -> TokenRow] /\ unrevoked' \in SUBSET Token
    BY <1>6, <2>1, RevokeRows DEF RevokeOld, Typed, AuthTypeOK
  <2>4. \A t \in Token : (rt'[t].status = "none" <=> rt[t].status = "none") /\ rt'[t].user = rt[t].user
    BY <1>6, <2>1, RevokeRows DEF RevokeOld
  <2>5. Presented'
    BY <1>6, <2>1, <2>4 DEF RevokeOld, Typed, AuthTypeOK, Presented, Equipped
  <2> QED BY <1>6, <2>2, <2>3, <2>4, <2>5 DEF RevokeOld, Typed, AuthTypeOK, Owned, Counted
<1>7. ASSUME NEW r \in Req, ReadRoleAndSign(r) PROVE Typed'
  <2>1. req' \in [Req -> Request] /\ Equipped' /\ req'[r].pc \in {"insert", "refused", "failed"}
        /\ \A q \in Req : q # r => req'[q] = req[q]
    <3>1. CASE Drawn(r, req[r].user, role[req[r].user])
      BY <1>7, <3>1, DrawnTyped DEF ReadRoleAndSign, At, Typed, AuthTypeOK, Equipped
    <3>2. CASE Fail(r) BY <3>2, RefuseTyped
    <3> QED BY <1>7, <3>1, <3>2 DEF ReadRoleAndSign
  <2> QED BY <1>7, <2>1 DEF ReadRoleAndSign, Typed, AuthTypeOK, Owned, Counted, Presented, history
<1>8. ASSUME NEW r \in Req, InsertToken(r) PROVE Typed'
  <2> DEFINE n == req[r].new
  <2>1. n \in Token /\ req[r].jwt \in Jwt BY <1>8 DEF InsertToken, At, Typed, Equipped
  <2>2. CASE Fail(r) /\ UNCHANGED <<rt, jwts, redeemed, handed>>
    BY <1>8, <2>2, RefuseTyped DEF InsertToken, Typed, AuthTypeOK, Owned, Counted, Presented
  <2>3. CASE /\ ~Taken(n)
             /\ rt' = [rt EXCEPT ![n] = [status |-> "live", user |-> req[r].jwt.user, exp |-> clock + RefreshLife]]
             /\ jwts' = jwts \cup {req[r].jwt}
             /\ redeemed' = [t \in Token |-> redeemed[t] + IF t = req[r].tok THEN 1 ELSE 0]
             /\ handed' = [handed EXCEPT ![n] = @ + 1]
             /\ req' = [req EXCEPT ![r] = Signed("ok", NoToken, n, req[r].jwt)]
    <3>1. rt[n].status = "none" /\ handed[n] = 0 BY <2>1, <2>3 DEF Taken, Typed, Counted
    <3>2. rt' \in [Token -> TokenRow]
      BY <2>1, <2>3, AuthAssumption DEF Typed, AuthTypeOK, TokenRow, Jwt
    <3>3. Signed("ok", NoToken, n, req[r].jwt) \in Request BY <2>1, AuthAssumption DEF Signed, Request, Role
    <3>4. req' \in [Req -> Request] /\ Equipped'
      BY <2>3, <3>3 DEF Typed, AuthTypeOK, Equipped, Signed
    <3>5. redeemed' \in [Token -> Nat] /\ handed' \in [Token -> Nat]
      BY <2>1, <2>3 DEF Typed, AuthTypeOK
    <3>6. Owned' BY <2>1, <2>3 DEF Typed, AuthTypeOK, Owned, Jwt
    <3>7. Counted' BY <2>1, <2>3, <3>1 DEF Typed, AuthTypeOK, Counted
    <3>8. Presented' BY <2>1, <2>3 DEF Typed, AuthTypeOK, Presented, Signed, Equipped
    <3> QED BY <1>8, <2>1, <2>3, <3>2, <3>4, <3>5, <3>6, <3>7, <3>8 DEF InsertToken, Typed, AuthTypeOK
  <2> QED BY <1>8, <2>2, <2>3 DEF InsertToken
<1>9. ASSUME NEW r \in Req, RevokeForLogout(r) PROVE Typed'
  <2>1. req[r].tok \in Token /\ rt[req[r].tok].status # "none"
    BY <1>9 DEF RevokeForLogout, At, Typed, Equipped, Presented
  <2>2. req' \in [Req -> Request] /\ Equipped' BY <1>9, DoneTyped DEF RevokeForLogout
  <2>3. rt' \in [Token -> TokenRow]
    BY <1>9, RevokeRows DEF RevokeForLogout
  <2>4. \A t \in Token : (rt'[t].status = "none" <=> rt[t].status = "none") /\ rt'[t].user = rt[t].user
    BY <1>9, <2>1, RevokeRows DEF RevokeForLogout
  <2>5. Presented'
    BY <1>9, <2>4 DEF RevokeForLogout, Typed, AuthTypeOK, Presented, Equipped, Done, Before
  <2> QED BY <1>9, <2>2, <2>3, <2>4, <2>5 DEF RevokeForLogout, Typed, AuthTypeOK, Owned, Counted, history
<1>10. ASSUME NEW r \in Req, Answered(r) \/ Break(r) PROVE Typed'
  BY <1>10, DoneTyped DEF Answered, Break, Idle, Done, Before, Typed, AuthTypeOK, Owned, Counted, Presented, history
<1>11. ASSUME SetRole PROVE Typed'
  BY <1>11 DEF SetRole, Typed, AuthTypeOK, Equipped, Owned, Counted, Presented, history
<1>12. ASSUME Tick PROVE Typed'
  <2>1. clock' \in 0..MaxClock BY <1>12, AuthAssumption DEF Tick, Typed, AuthTypeOK
  <2> QED BY <1>12, <2>1 DEF Tick, Typed, AuthTypeOK, Equipped, Owned, Counted, Presented, history
<1>13. ASSUME UNCHANGED authVars PROVE Typed'
  BY <1>13 DEF authVars, history, Typed, AuthTypeOK, Equipped, Owned, Counted, Presented
<1> QED BY <1>1, <1>2, <1>3, <1>4, <1>5, <1>6, <1>7, <1>8, <1>9, <1>10, <1>11, <1>12, <1>13
        DEF AuthNext, Serve

\* Every reachable state is well typed.
THEOREM AlwaysTyped == AuthSpec => []Typed
BY InitTyped, StepTyped, PTL DEF AuthSpec

\* NoSharedToken: no two answers carry the same refresh token, however many requests draw
\* the same time stamp.
THEOREM TokensNotShared == AuthSpec => []NoSharedToken
<1>1. Typed => NoSharedToken BY DEF Typed, Counted, NoSharedToken
<1> QED BY <1>1, AlwaysTyped, PTL

-----------------------------------------------------------------------------
(* A rotation revokes before it signs. *)

\* Dead, or its UPDATE has failed.
Dead(t) == rt[t].status = "revoked" \/ t \in unrevoked
Rotated ==
    /\ \A t \in Token : redeemed[t] > 0 => Dead(t)
    /\ \A r \in Req : req[r].pc = "bcrypt" => req[r].tok \notin Token
    /\ \A r \in Req : req[r].pc \in {"mint", "insert"} /\ req[r].tok \in Token => Dead(req[r].tok)

\* What one step does to the rows: the revoked stay so, and what was counted as
\* failed too.
LEMMA DeadStaysDead ==
    ASSUME Typed, [AuthNext]_authVars
    PROVE  /\ \A t \in Token : rt[t].status = "revoked" => rt'[t].status = "revoked"
           /\ unrevoked \subseteq unrevoked'
<1>1. ASSUME NEW r \in Req, RevokeOld(r) PROVE \A t \in Token : rt[t].status = "revoked" => rt'[t].status = "revoked"
  BY <1>1, RevokeRows DEF RevokeOld
<1>2. ASSUME NEW r \in Req, InsertToken(r) PROVE \A t \in Token : rt[t].status = "revoked" => rt'[t].status = "revoked"
  BY <1>2 DEF InsertToken, Taken, Typed, AuthTypeOK
<1>3. ASSUME NEW r \in Req, RevokeForLogout(r)
      PROVE  \A t \in Token : rt[t].status = "revoked" => rt'[t].status = "revoked"
  BY <1>3, RevokeRows DEF RevokeForLogout
<1>4. (\E r \in Req : RevokeOld(r) \/ InsertToken(r) \/ RevokeForLogout(r)) \/ UNCHANGED rt
  BY DEF AuthNext, Serve, BeginLogin, BeginRefresh, BeginLogout, Present, CheckPassword, LookUp, ReadRoleAndSign,
         Answered, Break, SetRole, Tick, authVars
<1>5. unrevoked \subseteq unrevoked'
  BY DEF AuthNext, Serve, BeginLogin, BeginRefresh, BeginLogout, Present, CheckPassword, LookUp, RevokeOld,
         ReadRoleAndSign, InsertToken, RevokeForLogout, Answered, Break, SetRole, Tick, authVars, history
<1> QED BY <1>1, <1>2, <1>3, <1>4, <1>5

\* A step in which a request comes to sign with a dead token or with none, and
\* only those who sign redeem.
RotatesRightly ==
    /\ \A r \in Req : req'[r].pc = "bcrypt" => req'[r].tok \notin Token
    /\ \A r \in Req : req'[r].pc \in {"mint", "insert"} /\ req'[r].tok \in Token =>
          \/ req[r].pc \in {"bcrypt", "mint", "insert"} /\ req'[r].tok = req[r].tok
          \/ Dead(req[r].tok)'
    /\ \A t \in Token : redeemed'[t] > 0 =>
          redeemed[t] > 0 \/ \E r \in Req : req[r].pc = "insert" /\ req[r].tok = t

LEMMA RotatesOn == Typed /\ Rotated /\ [AuthNext]_authVars /\ RotatesRightly => Rotated'
<1> SUFFICES ASSUME Typed, Rotated, [AuthNext]_authVars, RotatesRightly PROVE Rotated'
  OBVIOUS
<1>1. \A t \in Token : Dead(t) => Dead(t)' BY DeadStaysDead DEF Dead
<1> QED BY <1>1 DEF Rotated, RotatesRightly

LEMMA StepRotated == Typed /\ Rotated /\ [AuthNext]_authVars => Rotated'
<1> SUFFICES ASSUME Typed, Rotated, [AuthNext]_authVars PROVE RotatesRightly
  BY RotatesOn
<1>2. ASSUME NEW r \in Req, BeginLogin(r) PROVE RotatesRightly
  <2>1. PICK u \in User : req' = [req EXCEPT ![r] = Checking(u)] BY <1>2 DEF BeginLogin
  <2>2. req'[r].pc = "bcrypt" /\ req'[r].tok = NoToken /\ \A q \in Req : q # r => req'[q] = req[q]
    BY <2>1, CheckingTyped
  <2> QED BY <1>2, <2>2, AuthAssumption DEF BeginLogin, RotatesRightly, Rotated, history
<1>3. ASSUME NEW r \in Req, BeginRefresh(r) \/ BeginLogout(r) \/ Answered(r) \/ Break(r) PROVE RotatesRightly
  BY <1>3, AuthAssumption
     DEF BeginRefresh, BeginLogout, Present, Answered, Break, RotatesRightly, Rotated, Typed, AuthTypeOK, Before, Idle, Done, history
<1>4. ASSUME NEW r \in Req, CheckPassword(r) PROVE RotatesRightly
  BY <1>4 DEF CheckPassword, At, Drawn, Signed, Refuse, Fail, Done, Before, RotatesRightly, Rotated, Typed, AuthTypeOK, history
<1>5. ASSUME NEW r \in Req, LookUp(r) PROVE RotatesRightly
  BY <1>5 DEF LookUp, Refuse, Fail, Done, Before, RotatesRightly, Rotated, Typed, AuthTypeOK, history
<1>6. ASSUME NEW r \in Req, RevokeOld(r) PROVE RotatesRightly
  <2>1. req[r].tok \in Token BY <1>6 DEF RevokeOld, At, Typed, Equipped
  <2>2. Dead(req[r].tok)' BY <1>6, <2>1 DEF RevokeOld, Dead, Typed, AuthTypeOK, TokenRow
  <2>3. req'[r].tok = req[r].tok /\ req'[r].pc = "mint" /\ \A q \in Req : q # r => req'[q] = req[q]
    BY <1>6 DEF RevokeOld, Typed, AuthTypeOK, Request
  <2> QED BY <1>6, <2>2, <2>3 DEF RevokeOld, RotatesRightly, Rotated
<1>7. ASSUME NEW r \in Req, ReadRoleAndSign(r) PROVE RotatesRightly
  BY <1>7 DEF ReadRoleAndSign, At, Drawn, Signed, Refuse, Fail, Done, Before, RotatesRightly, Rotated, Typed, AuthTypeOK, history
<1>8. ASSUME NEW r \in Req, InsertToken(r) PROVE RotatesRightly
  <2>1. \A q \in Req : req'[q].pc \in {"ok", "failed"} \/ req'[q] = req[q]
    BY <1>8 DEF InsertToken, Signed, Fail, Done, Before, Typed, AuthTypeOK
  <2>2. \A t \in Token : t # req[r].tok => redeemed'[t] = redeemed[t]
    BY <1>8 DEF InsertToken, Typed, AuthTypeOK
  <2> QED BY <1>8, <2>1, <2>2 DEF InsertToken, At, RotatesRightly, Rotated
<1>9. ASSUME NEW r \in Req, RevokeForLogout(r) PROVE RotatesRightly
  BY <1>9 DEF RevokeForLogout, Done, Before, RotatesRightly, Rotated, Typed, AuthTypeOK, history
<1>10. CASE SetRole \/ Tick \/ UNCHANGED authVars
  BY <1>10 DEF SetRole, Tick, authVars, history, RotatesRightly, Rotated
<1> QED BY <1>2, <1>3, <1>4, <1>5, <1>6, <1>7, <1>8, <1>9, <1>10 DEF AuthNext, Serve

LEMMA InitRotated == AuthInit => Rotated
BY DEF AuthInit, Rotated, Idle, Done, Before

LEMMA AlwaysRotated == AuthSpec => []Rotated
<1>1. Typed /\ Rotated /\ [AuthNext]_authVars => (Typed /\ Rotated)' BY StepTyped, StepRotated
<1> QED BY <1>1, InitTyped, InitRotated, PTL DEF AuthSpec

\* RedeemedIsRevoked: a token that was exchanged is dead, unless its UPDATE, whose
\* error is ignored, failed.
THEOREM ExchangedIsDead == AuthSpec => []RedeemedIsRevoked
<1>1. Rotated => RedeemedIsRevoked BY DEF Rotated, Dead, RedeemedIsRevoked
<1> QED BY <1>1, AlwaysRotated, PTL

\* RevokedForGood: no step of any request revives a revoked token.
THEOREM RevokedStaysRevoked == AuthSpec => RevokedForGood
<1>1. Typed /\ [AuthNext]_authVars =>
        [\A t \in Token : rt[t].status = "revoked" => rt'[t].status = "revoked"]_authVars
  BY DeadStaysDead
<1> QED BY <1>1, AlwaysTyped, PTL DEF AuthSpec, RevokedForGood

-----------------------------------------------------------------------------
(* Exchanges of one token. *)

\* Once a token is revoked nobody begins to exchange it, and who redeems it is done.
LEMMA ExchangesEnd ==
    ASSUME Typed, Rotated, [AuthNext]_authVars, NEW t \in Token, rt'[t].status = "revoked"
    PROVE  \/ Exchanging(t)' \subseteq Exchanging(t) /\ redeemed'[t] = redeemed[t]
           \/ \E r \in Exchanging(t) :
                 Exchanging(t)' \subseteq Exchanging(t) \ {r} /\ redeemed'[t] = redeemed[t] + 1
<1> DEFINE Shrinks == Exchanging(t)' \subseteq Exchanging(t) /\ redeemed'[t] = redeemed[t]
<1>0. ASSUME NEW r \in Req, BeginLogin(r) PROVE Shrinks
  BY <1>0, CheckingTyped DEF BeginLogin, Exchanging, history
<1>1. ASSUME NEW r \in Req, BeginRefresh(r) \/ BeginLogout(r) \/ Answered(r) \/ Break(r) PROVE Shrinks
  BY <1>1 DEF BeginRefresh, BeginLogout, Present, Answered, Break, Before, Idle, Done, Typed, AuthTypeOK,
              Exchanging, history
<1>2. ASSUME NEW r \in Req, CheckPassword(r) PROVE Shrinks
  BY <1>2 DEF CheckPassword, At, Drawn, Signed, Refuse, Fail, Done, Before, Typed, AuthTypeOK, Rotated, Exchanging, history
<1>3. ASSUME NEW r \in Req, LookUp(r) PROVE Shrinks
  <2>1. req[r].tok = t => ~Usable(t) BY <1>3 DEF LookUp, Usable
  <2> QED BY <1>3, <2>1 DEF LookUp, Refuse, Fail, Done, Before, Typed, AuthTypeOK, Exchanging, history
<1>4. ASSUME NEW r \in Req, RevokeOld(r) PROVE Shrinks
  <2>1. req'[r].tok = req[r].tok /\ req[r].pc = "revoke" /\ \A q \in Req : q # r => req'[q] = req[q]
    BY <1>4 DEF RevokeOld, At, Typed, AuthTypeOK, Request
  <2> QED BY <1>4, <2>1 DEF RevokeOld, Exchanging
<1>5. ASSUME NEW r \in Req, ReadRoleAndSign(r) PROVE Shrinks
  BY <1>5 DEF ReadRoleAndSign, At, Drawn, Signed, Fail, Done, Before, Typed, AuthTypeOK, Exchanging, history
<1>6. ASSUME NEW r \in Req, InsertToken(r)
      PROVE  Shrinks \/ (/\ r \in Exchanging(t) /\ Exchanging(t)' \subseteq Exchanging(t) \ {r}
                         /\ redeemed'[t] = redeemed[t] + 1)
  <2>1. req'[r].pc \in {"ok", "failed"} /\ \A q \in Req : q # r => req'[q] = req[q]
    BY <1>6 DEF InsertToken, Signed, Fail, Done, Before, Typed, AuthTypeOK
  <2>2. Exchanging(t)' \subseteq Exchanging(t) \ {r} BY <2>1 DEF Exchanging
  <2>3. \/ redeemed'[t] = redeemed[t]
        \/ req[r].tok = t /\ redeemed'[t] = redeemed[t] + 1
    BY <1>6 DEF InsertToken, Typed, AuthTypeOK
  <2>4. req[r].tok = t => r \in Exchanging(t) BY <1>6 DEF InsertToken, At, Exchanging
  <2> QED BY <2>2, <2>3, <2>4
<1>7. ASSUME NEW r \in Req, RevokeForLogout(r) PROVE Shrinks
  BY <1>7 DEF RevokeForLogout, Done, Before, Typed, AuthTypeOK, Exchanging, history
<1>8. CASE SetRole \/ Tick \/ UNCHANGED authVars
  BY <1>8 DEF SetRole, Tick, authVars, history, Exchanging
<1> QED BY <1>0, <1>1, <1>2, <1>3, <1>4, <1>5, <1>6, <1>7, <1>8 DEF AuthNext, Serve

LEMMA ExchangingFinite ==
    \A t : /\ IsFiniteSet(Exchanging(t)) /\ Cardinality(Exchanging(t)) \in Nat
          /\ Cardinality(Exchanging(t)) <= Cardinality(Req) /\ Cardinality(Req) \in Nat
BY AuthAssumption, FS_Subset, FS_CardinalityType DEF Exchanging

LEMMA StepOverlaps == Typed /\ Rotated /\ ExchangesOverlap /\ [AuthNext]_authVars => ExchangesOverlap'
<1> SUFFICES ASSUME Typed, Rotated, ExchangesOverlap, [AuthNext]_authVars,
                    NEW t \in Token \ unrevoked'
             PROVE  redeemed'[t] + Cardinality(Exchanging(t)') <= Cardinality(Req)
  BY DEF ExchangesOverlap
<1>1. t \notin unrevoked BY DeadStaysDead
<1>2. Typed' /\ Rotated' BY StepTyped, StepRotated
<1>3. redeemed[t] \in Nat /\ redeemed'[t] \in Nat BY <1>2 DEF Typed, AuthTypeOK
<1>4. /\ IsFiniteSet(Exchanging(t)') /\ Cardinality(Exchanging(t)') \in Nat
      /\ Cardinality(Exchanging(t)') <= Cardinality(Req) /\ Cardinality(Req) \in Nat
  BY AuthAssumption, FS_Subset, FS_CardinalityType DEF Exchanging
<1>5. CASE rt'[t].status # "revoked"
  <2>1. redeemed'[t] = 0 BY <1>2, <1>3, <1>5 DEF Rotated, Dead
  <2> QED BY <1>4, <2>1
<1>6. CASE rt'[t].status = "revoked"
  <2>1. redeemed[t] + Cardinality(Exchanging(t)) <= Cardinality(Req) BY <1>1 DEF ExchangesOverlap
  <2>2. IsFiniteSet(Exchanging(t)) /\ Cardinality(Exchanging(t)) \in Nat BY ExchangingFinite
  <2>3. CASE Exchanging(t)' \subseteq Exchanging(t) /\ redeemed'[t] = redeemed[t]
    <3>1. Cardinality(Exchanging(t)') <= Cardinality(Exchanging(t)) BY <2>2, <2>3, FS_Subset
    <3> QED BY <1>3, <1>4, <2>1, <2>2, <2>3, <3>1
  <2>4. ASSUME NEW r \in Exchanging(t), Exchanging(t)' \subseteq Exchanging(t) \ {r},
               redeemed'[t] = redeemed[t] + 1
        PROVE  redeemed'[t] + Cardinality(Exchanging(t)') <= Cardinality(Req)
    <3>1. /\ IsFiniteSet(Exchanging(t) \ {r})
          /\ Cardinality(Exchanging(t) \ {r}) = Cardinality(Exchanging(t)) - 1
      BY <2>2, FS_RemoveElement
    <3>2. Cardinality(Exchanging(t)') <= Cardinality(Exchanging(t)) - 1 BY <2>4, <3>1, FS_Subset
    <3> QED BY <1>3, <1>4, <2>1, <2>2, <2>4, <3>2
  <2> QED BY <1>6, <2>3, <2>4, ExchangesEnd
<1> QED BY <1>5, <1>6

\* ExchangesOverlap: a token is exchanged by overlapping requests only, each once,
\* so never more often than there are requests at a time.
THEOREM ExchangesAlwaysOverlap == AuthSpec => []ExchangesOverlap
<1>1. AuthInit => ExchangesOverlap
  <2> SUFFICES ASSUME AuthInit, NEW t \in Token PROVE redeemed[t] + Cardinality(Exchanging(t)) <= Cardinality(Req)
    BY DEF ExchangesOverlap
  <2>1. redeemed[t] = 0 BY DEF AuthInit
  <2> QED BY <2>1, ExchangingFinite
<1>2. Typed /\ Rotated /\ ExchangesOverlap /\ [AuthNext]_authVars => (Typed /\ Rotated /\ ExchangesOverlap)'
  BY StepTyped, StepRotated, StepOverlaps
<1> QED BY <1>1, <1>2, InitTyped, InitRotated, PTL DEF AuthSpec

-----------------------------------------------------------------------------
(* Roles. *)

\* A signature says admin only of one who is an admin, or ceased to be one while
\* the login was under way or later; none lives longer than its life.
Founded(j) ==
    /\ j.exp <= clock + AccessLife
    /\ j.role = "admin" => role[j.user] = "admin" \/ j.exp <= lastAdmin[j.user] + CheckTime + AccessLife
RolesFounded ==
    /\ \A j \in jwts : Founded(j)
    /\ \A r \in Req : req[r].pc = "insert" => Founded(req[r].jwt)
    /\ \A r \in Req : req[r].pc = "bcrypt" =>
          /\ req[r].since <= clock /\ clock <= req[r].since + CheckTime
          /\ req[r].role = "admin" => role[req[r].user] = "admin" \/ lastAdmin[req[r].user] >= req[r].since

LEMMA SignedFounded ==
    ASSUME Typed, NEW u \in User, NEW ro \in Role,
           ro = "admin" => role[u] = "admin" \/ clock <= lastAdmin[u] + CheckTime
    PROVE  Founded(SignedFor(u, ro))
BY AuthAssumption DEF Typed, AuthTypeOK, Founded, SignedFor

\* A step that changes no role and no time, hands out what was signed, and signs
\* what is founded.
SignsRightly ==
    /\ UNCHANGED <<clock, role, lastAdmin>>
    /\ \A j \in jwts' : j \in jwts \/ \E r \in Req : req[r].pc = "insert" /\ j = req[r].jwt
    /\ \A r \in Req :
          \/ req'[r] = req[r]
          \/ req'[r].pc \notin {"insert", "bcrypt"}
          \/ req'[r].pc = "insert" /\ Founded(req[r].jwt)'
          \/ req'[r].pc = "bcrypt" /\ req'[r].role = role[req'[r].user] /\ req'[r].since = clock

LEMMA SignsOn == Typed /\ RolesFounded /\ SignsRightly => RolesFounded'
BY AuthAssumption DEF Typed, AuthTypeOK, RolesFounded, SignsRightly, Founded

LEMMA StepFounded == Typed /\ RolesFounded /\ [AuthNext]_authVars => RolesFounded'
<1> SUFFICES ASSUME Typed, RolesFounded, [AuthNext]_authVars PROVE RolesFounded'
  OBVIOUS
<1>2. ASSUME NEW r \in Req, NEW u \in User, NEW ro \in Role, Drawn(r, u, ro),
             ro = "admin" => role[u] = "admin" \/ clock <= lastAdmin[u] + CheckTime,
             UNCHANGED <<clock, role, lastAdmin, jwts>>
      PROVE  SignsRightly
  <2>1. \A q \in Req : req'[q] = req[q] \/ (req'[q].pc = "insert" /\ req'[q].jwt = SignedFor(u, ro))
    BY <1>2 DEF Drawn, Signed, Typed, AuthTypeOK
  <2>2. Founded(SignedFor(u, ro)) BY <1>2, SignedFounded
  <2>3. \A q \in Req : req'[q].jwt = SignedFor(u, ro) => Founded(req[q].jwt)' BY <1>2, <2>2 DEF Founded
  <2> QED BY <1>2, <2>1, <2>3 DEF SignsRightly
<1>3. ASSUME NEW r \in Req, Refuse(r) \/ Fail(r), UNCHANGED <<clock, role, lastAdmin, jwts>> PROVE SignsRightly
  BY <1>3 DEF SignsRightly, Refuse, Fail, Done, Before, Typed, AuthTypeOK
<1>4. ASSUME NEW r \in Req, BeginLogin(r) PROVE SignsRightly
  <2>1. PICK u \in User : req' = [req EXCEPT ![r] = Checking(u)] BY <1>4 DEF BeginLogin
  <2>2. /\ req'[r].pc = "bcrypt" /\ req'[r].role = role[req'[r].user] /\ req'[r].since = clock
        /\ \A q \in Req : q # r => req'[q] = req[q]
    BY <2>1, CheckingTyped
  <2> QED BY <1>4, <2>2 DEF SignsRightly, BeginLogin
<1>5. ASSUME NEW r \in Req, BeginRefresh(r) \/ BeginLogout(r) \/ Answered(r) \/ Break(r) PROVE SignsRightly
  BY <1>5 DEF SignsRightly, BeginRefresh, BeginLogout, Answered, Break, Present, Before, Idle, Done, Typed, AuthTypeOK
<1>6. ASSUME NEW r \in Req, CheckPassword(r) PROVE SignsRightly
  <2>1. req[r].user \in User /\ req[r].role \in Role
    BY <1>6 DEF CheckPassword, At, Typed, AuthTypeOK, Equipped, Request
  <2>2. req[r].role = "admin" => role[req[r].user] = "admin" \/ clock <= lastAdmin[req[r].user] + CheckTime
    BY <1>6, <2>1, AuthAssumption DEF CheckPassword, At, RolesFounded, Typed, AuthTypeOK, Request
  <2> QED BY <1>2, <1>3, <1>6, <2>1, <2>2 DEF CheckPassword
<1>7. ASSUME NEW r \in Req, LookUp(r) PROVE SignsRightly
  BY <1>7 DEF SignsRightly, LookUp, Refuse, Fail, Done, Before, Typed, AuthTypeOK
<1>8. ASSUME NEW r \in Req, RevokeOld(r) PROVE SignsRightly
  <2>1. \A q \in Req : req'[q] = req[q] \/ req'[q].pc = "mint"
    BY <1>8 DEF RevokeOld, Typed, AuthTypeOK, Request
  <2> QED BY <1>8, <2>1 DEF SignsRightly, RevokeOld
<1>9. ASSUME NEW r \in Req, ReadRoleAndSign(r) PROVE SignsRightly
  <2>1. req[r].user \in User /\ role[req[r].user] \in Role
    BY <1>9 DEF ReadRoleAndSign, At, Typed, AuthTypeOK, Equipped
  <2> QED BY <1>2, <1>3, <1>9, <2>1 DEF ReadRoleAndSign
<1>10. ASSUME NEW r \in Req, InsertToken(r) PROVE SignsRightly
  <2>1. \A q \in Req : req'[q] = req[q] \/ req'[q].pc \in {"ok", "failed"}
    BY <1>10 DEF InsertToken, Signed, Fail, Done, Before, Typed, AuthTypeOK
  <2> QED BY <1>10, <2>1 DEF SignsRightly, InsertToken, At
<1>11. ASSUME NEW r \in Req, RevokeForLogout(r) PROVE SignsRightly
  BY <1>11 DEF SignsRightly, RevokeForLogout, Done, Before, Typed, AuthTypeOK
<1>12. ASSUME SetRole PROVE RolesFounded'
  <2>1. PICK u \in User, ro \in Role :
           /\ ro # role[u] /\ role' = [role EXCEPT ![u] = ro]
           /\ lastAdmin' = IF role[u] = "admin" THEN [lastAdmin EXCEPT ![u] = clock] ELSE lastAdmin
    BY <1>12 DEF SetRole
  <2>2. ASSUME NEW j \in Jwt, Founded(j) PROVE Founded(j)'
    BY <1>12, <2>1, <2>2, AuthAssumption DEF SetRole, Founded, Typed, AuthTypeOK, Jwt, Role
  <2>3. \A r \in Req : req[r].pc = "bcrypt" => req[r].user \in User BY DEF Typed, Equipped
  <2>4. \A r \in Req : req[r].pc = "insert" => req[r].jwt \in Jwt BY DEF Typed, Equipped
  <2>5. jwts \subseteq Jwt BY DEF Typed, AuthTypeOK
  <2>6. \A r \in Req : req[r].pc = "bcrypt" =>
          /\ clock <= req[r].since + CheckTime
          /\ req[r].role = "admin" => role'[req[r].user] = "admin" \/ lastAdmin'[req[r].user] >= req[r].since
    <3>1. \A r \in Req : req[r].pc = "bcrypt" => req[r].since <= clock BY DEF RolesFounded
    <3> QED BY <2>1, <2>3, <3>1 DEF RolesFounded, Typed, AuthTypeOK, Role, Request
  <2> QED BY <1>12, <2>2, <2>4, <2>5, <2>6 DEF SetRole, RolesFounded
<1>13. ASSUME Tick PROVE RolesFounded'
  <2>1. ASSUME NEW j \in Jwt, Founded(j) PROVE Founded(j)'
    BY <1>13, <2>1, AuthAssumption DEF Tick, Founded, Typed, AuthTypeOK, Jwt
  <2>2. \A r \in Req : req[r].pc = "insert" => req[r].jwt \in Jwt BY DEF Typed, Equipped
  <2>3. jwts' \subseteq jwts /\ jwts \subseteq Jwt BY <1>13 DEF Tick, Typed, AuthTypeOK
  <2>4. \A r \in Req : req[r].pc = "bcrypt" =>
          req[r].since <= clock + 1 /\ clock + 1 <= req[r].since + CheckTime
    BY <1>13, AuthAssumption DEF Tick, At, RolesFounded, Typed, AuthTypeOK, Request
  <2> QED BY <1>13, <2>1, <2>2, <2>3, <2>4 DEF Tick, RolesFounded
<1>14. CASE UNCHANGED authVars
  BY <1>14 DEF authVars, RolesFounded, Founded
<1> QED BY SignsOn, <1>4, <1>5, <1>6, <1>7, <1>8, <1>9, <1>10, <1>11, <1>12, <1>13, <1>14 DEF AuthNext, Serve

\* StaleRoleBounded: whoever passes as an admin is one, or was one less than the
\* life of an access token and the time of a login ago.
THEOREM RolesAreRecent == AuthSpec => []StaleRoleBounded
<1>1. AuthInit => RolesFounded BY DEF AuthInit, RolesFounded, Idle, Done, Before
<1>2. Typed /\ RolesFounded /\ [AuthNext]_authVars => (Typed /\ RolesFounded)' BY StepTyped, StepFounded
<1>3. Typed /\ RolesFounded => StaleRoleBounded
  BY AuthAssumption DEF Typed, AuthTypeOK, Jwt, RolesFounded, Founded, StaleRoleBounded, ActsAsAdmin, Accepted
<1> QED BY <1>1, <1>2, <1>3, InitTyped, PTL DEF AuthSpec

-----------------------------------------------------------------------------
(***************************************************************************)
(* The page.  A step of it is told by what it does to the call and to the  *)
(* server's slot of that call, and to the store.                           *)
(***************************************************************************)
\* The call has presented the token it notes.
Presenting(r) == call[r].pc \in {"refreshing", "logout"}
\* A pair of tokens is on its way to the call.
Awaited(r) == call[r].pc \in {"refreshing", "login"} /\ req[r].pc = "ok"

\* What a call and its slot of the server are doing fits together.
CallsMatch ==
    \A r \in Req :
        /\ call[r].pc \in {"idle", "sent"} => req[r] = Idle
        /\ call[r].pc = "refreshing" => req[r].pc \in {"lookup", "revoke", "mint", "insert", "ok", "refused", "failed"}
        /\ call[r].pc = "login" => req[r].pc \in {"bcrypt", "insert", "ok", "refused", "failed"} /\ req[r].tok = NoToken
        /\ call[r].pc = "logout" => req[r].pc \in {"logout", "ok"}
        /\ call[r].pc = "dropped" => req[r].pc # "idle"
        /\ Presenting(r) => call[r].refreshToken \in Token /\ req[r].tok \in {NoToken, call[r].refreshToken}

\* What the store holds and the calls present are tokens of the server.
TokensIssued ==
    /\ ~LoggedIn => store = Cleared
    /\ LoggedIn => store.refresh \in Token /\ rt[store.refresh].status # "none" /\ handed[store.refresh] > 0
    /\ \A r \in Req : req[r].tok \in Token => rt[req[r].tok].status # "none"
    /\ \A r \in Req : Presenting(r) => rt[call[r].refreshToken].status # "none"

\* A pair on its way is live, its halves belong together, and nobody else has it.
PairsFresh ==
    \A r \in Req : Awaited(r) =>
        /\ req[r].new \in Token /\ req[r].jwt \in Jwt
        /\ handed[req[r].new] > 0 /\ rt[req[r].new].status = "live" /\ rt[req[r].new].user = req[r].jwt.user
        /\ req[r].new # store.refresh
        /\ \A q \in Req : req[q].tok # req[r].new /\ (Presenting(q) => call[q].refreshToken # req[r].new)
        /\ \A q \in Req : Awaited(q) /\ req[q].new = req[r].new => q = r

\* A token in the store that is not live any more is being exchanged or given back.
StoreLives ==
    /\ LoggedIn => \/ rt[store.refresh].status = "live" \/ store.refresh \in cutOff
                   \/ \E r \in Req : Presenting(r) /\ call[r].refreshToken = store.refresh
    /\ \A r \in Req : call[r].pc = "dropped" /\ req[r].tok \in Token =>
          req[r].tok \in cutOff \/ req[r].tok # store.refresh
    /\ leaving => \A r \in Req : call[r].pc = "logout" => call[r].refreshToken # store.refresh

StorePaired == LoggedIn => store.access.user = rt[store.refresh].user
\* A token that the server refuses is of no use any more.
TokensSpent ==
    \A r \in Req : call[r].pc = "refreshing" /\ req[r].pc = "refused" => ~Usable(call[r].refreshToken)

WebTyped == Typed /\ WebTypeOK
WebInv == WebTyped /\ CallsMatch /\ TokensIssued /\ PairsFresh /\ StoreLives /\ StorePaired /\ TokensSpent

LEMMA WebInit == Init => WebInv
<1> SUFFICES ASSUME Init PROVE WebInv
  OBVIOUS
<1>1. Typed BY InitTyped DEF Init
<1>2. WebTypeOK
  BY <1>1, AuthAssumption DEF Typed, WebTypeOK, Init, Store, Cleared, NoJwt, Call, NoCall
<1>3. \A r \in Req : call[r].pc = "idle" /\ req[r] = Idle BY DEF Init, AuthInit, NoCall
<1>4. ~LoggedIn /\ store = Cleared /\ leaving = FALSE BY DEF Init, Cleared, LoggedIn
<1>5. \A r \in Req : req[r].tok = NoToken BY <1>3 DEF Idle, Done, Before
<1> QED
  BY <1>1, <1>2, <1>3, <1>4, <1>5, AuthAssumption
     DEF WebInv, WebTyped, CallsMatch, TokensIssued, PairsFresh, StoreLives, StorePaired, TokensSpent, Presenting, Awaited

\* The server still has what it had, and what was of no use stays so.
LEMMA RowsStay ==
    ASSUME Typed, [AuthNext]_authVars
    PROVE  \A t \in Token : rt[t].status # "none" =>
              /\ rt'[t].status \in {rt[t].status, "revoked"}
              /\ rt'[t].user = rt[t].user
              /\ handed[t] > 0 => handed'[t] > 0
              /\ ~Usable(t) => ~Usable(t)'
<1> USE DEF Typed, AuthTypeOK
<1>1. ASSUME NEW r \in Req, RevokeOld(r) \/ RevokeForLogout(r), NEW t \in Token
      PROVE  /\ rt'[t].status \in {rt[t].status, "revoked"} /\ rt'[t].user = rt[t].user /\ rt'[t].exp = rt[t].exp
             /\ UNCHANGED <<handed, clock>>
  BY <1>1 DEF RevokeOld, RevokeForLogout, history, TokenRow
<1>2. ASSUME NEW r \in Req, InsertToken(r), NEW t \in Token, rt[t].status # "none"
      PROVE  rt'[t] = rt[t] /\ handed'[t] = handed[t] /\ UNCHANGED clock
  <2>1. req[r].new \in Token BY <1>2 DEF InsertToken, At, Equipped
  <2> QED BY <1>2, <2>1 DEF InsertToken, Taken
<1>3. CASE Tick
  BY <1>3 DEF Tick, history, Usable, TokenRow
<1>4. (\E r \in Req : RevokeOld(r) \/ InsertToken(r) \/ RevokeForLogout(r)) \/ Tick \/ UNCHANGED <<rt, handed, clock>>
  BY DEF AuthNext, Serve, BeginLogin, BeginRefresh, BeginLogout, Present, CheckPassword, LookUp, ReadRoleAndSign,
         Answered, Break, SetRole, authVars, history
<1>5. CASE UNCHANGED <<rt, handed, clock>> BY <1>5 DEF Usable
<1>6. ASSUME NEW r \in Req, RevokeOld(r) \/ RevokeForLogout(r) \/ InsertToken(r), NEW t \in Token, rt[t].status # "none"
      PROVE  /\ rt'[t].status \in {rt[t].status, "revoked"} /\ rt'[t].user = rt[t].user
             /\ (handed[t] > 0 => handed'[t] > 0) /\ (~Usable(t) => ~Usable(t)')
  BY <1>1, <1>2, <1>6 DEF Usable
<1> QED BY <1>3, <1>4, <1>5, <1>6

-----------------------------------------------------------------------------
(* The steps of the page. *)

\* The call has its answer, or nothing is under way for it; the store stays, or is cleared.
Quits(r) ==
    /\ call'[r].pc \in {"idle", "sent"} /\ req'[r] = Idle
    /\ store' = Cleared \/ (UNCHANGED <<store, leaving>> /\ ~Presenting(r))
\* The page does not wait for the call any longer, whatever the server does with it.
Drops(r) ==
    /\ call'[r].pc = "dropped" /\ UNCHANGED req
    /\ call[r].pc \in {"refreshing", "login", "logout"}
    /\ store' = Cleared \/ (UNCHANGED <<store, leaving>> /\ ~Presenting(r))
\* The call presents what the store holds.
Presents(r) ==
    /\ call[r].pc \in {"idle", "sent"} /\ UNCHANGED <<store, leaving>>
    /\ store.refresh \in Token /\ LoggedIn
    /\ call'[r].refreshToken = store.refresh
    /\ \/ call'[r].pc = "refreshing" /\ req'[r] = Before("lookup", NoUser, "user", store.refresh)
       \/ call'[r].pc = "logout" /\ req'[r] = Before("logout", NoUser, "user", store.refresh) /\ ~leaving
\* The pair that the call awaits comes into the store.
Takes(r) ==
    /\ Awaited(r) /\ call'[r].pc \in {"idle", "sent"} /\ req'[r] = Idle /\ UNCHANGED leaving
    /\ \E u \in User : store' = [access |-> req[r].jwt, refresh |-> req[r].new, user |-> u]
LogsIn(r) ==
    /\ call[r].pc = "idle" /\ UNCHANGED <<store, leaving>>
    /\ call'[r].pc = "login" /\ req'[r].pc = "bcrypt" /\ req'[r].tok = NoToken

\* A turn of the page for one call.
Turn(r) ==
    /\ \A q \in Req \ {r} : call'[q] = call[q] /\ req'[q] = req[q]
    /\ UNCHANGED <<rt, handed, clock, cutOff>>
    /\ Quits(r) \/ Drops(r) \/ Presents(r) \/ Takes(r) \/ LogsIn(r)

LEMMA LoggedInHolds ==
    ASSUME WebTyped, TokensIssued, store.refresh # NoToken
    PROVE  store.refresh \in Token /\ LoggedIn /\ handed[store.refresh] > 0
BY DEF WebTyped, WebTypeOK, Store, TokensIssued, Cleared

\* Of the page's own steps: what they are for the server, that they keep the
\* types, and that each is a turn.
PageStep(r) ==
    \/ Send(r) \/ Settle(r) \/ StartRefresh(r) \/ NoRefreshToken(r) \/ RejectRetry(r)
    \/ RefreshOk(r) \/ RefreshWithoutUser(r) \/ RefreshFailed(r) \/ RefreshLost(r)
    \/ SubmitLogin(r) \/ LoginOk(r) \/ LoginRefused(r) \/ LoginFailed(r) \/ LoginLost(r)
    \/ LogoutOnProfile(r) \/ LogoutSettled(r) \/ LogoutLost(r) \/ DropAnswer(r)

LEMMA NextSteps ==
    [Next]_vars => \/ \E r \in Req : PageStep(r) \/ (Serve(r) /\ UNCHANGED webVars)
                   \/ LogoutInHeader \/ Reload \/ (Tick /\ UNCHANGED webVars) \/ UNCHANGED vars
BY DEF Next, React, PageStep

LEMMA PageIsAClient ==
    ASSUME WebInv, NEW r \in Req, PageStep(r)
    PROVE  \/ UNCHANGED authVars \/ BeginLogin(r) \/ BeginRefresh(r) \/ BeginLogout(r)
           \/ Answered(r) \/ Break(r)
<1> USE DEF WebInv
<1>1. CASE StartRefresh(r) BY <1>1, LoggedInHolds DEF StartRefresh, BeginRefresh
<1>2. CASE LogoutOnProfile(r) BY <1>2 DEF LogoutOnProfile, BeginLogout, TokensIssued
<1>3. CASE SubmitLogin(r) BY <1>3 DEF SubmitLogin
<1>4. CASE DropAnswer(r) BY <1>4 DEF DropAnswer
<1>5. ASSUME TakeAnswer(r), ServerStill, At(r, "ok") \/ At(r, "refused") \/ At(r, "failed") PROVE Answered(r)
  BY <1>5 DEF TakeAnswer, ServerStill, Answered, At
<1>6. CASE RefreshOk(r) \/ RefreshWithoutUser(r) \/ RefreshFailed(r) \/ LoginOk(r) \/ LoginRefused(r)
           \/ LoginFailed(r) \/ LogoutSettled(r)
  BY <1>5, <1>6 DEF RefreshOk, RefreshWithoutUser, RefreshFailed, LoginOk, LoginRefused, LoginFailed, LogoutSettled
<1>8. CASE RefreshLost(r) \/ LoginLost(r) \/ LogoutLost(r)
  BY <1>8 DEF RefreshLost, LoginLost, LogoutLost, Drop
<1>7. CASE Send(r) \/ Settle(r) \/ NoRefreshToken(r) \/ RejectRetry(r)
  BY <1>7 DEF Send, Settle, NoRefreshToken, RejectRetry
<1> QED BY <1>1, <1>2, <1>3, <1>4, <1>6, <1>7, <1>8 DEF PageStep

\* UsesServer, step by step: whatever the page does is something a client may do.
LEMMA StepIsAuth == WebInv /\ [Next]_vars => [AuthNext]_authVars
<1> SUFFICES ASSUME WebInv, [Next]_vars PROVE [AuthNext]_authVars
  OBVIOUS
<1>1. ASSUME NEW r \in Req, PageStep(r) PROVE [AuthNext]_authVars BY <1>1, PageIsAClient DEF AuthNext
<1>2. CASE LogoutInHeader \/ Reload \/ UNCHANGED vars BY <1>2 DEF LogoutInHeader, Reload, vars
<1> QED BY <1>1, <1>2, NextSteps DEF AuthNext

\* A call goes on, and with the refresh token it presents.
LEMMA CallGoesOn ==
    ASSUME call \in [Req -> Call], NEW r \in Req, NEW pc \in {"sent", "login"},
           \/ call' = [call EXCEPT ![r].pc = pc]
           \/ call' = [call EXCEPT ![r].pc = pc, ![r].denied = TRUE]
           \/ \E j \in Jwt : call' = [call EXCEPT ![r].pc = pc, ![r].header = j]
    PROVE  call' \in [Req -> Call] /\ call'[r].pc = pc /\ \A q \in Req \ {r} : call'[q] = call[q]
<1>1. call[r] \in Call OBVIOUS
<1>2. ASSUME NEW j \in Jwt
      PROVE  /\ [call[r] EXCEPT !.pc = pc] \in Call
             /\ [call[r] EXCEPT !.pc = pc, !.denied = TRUE] \in Call
             /\ [call[r] EXCEPT !.pc = pc, !.header = j] \in Call
  BY <1>1 DEF Call
<1>3. [call[r] EXCEPT !.pc = pc] \in Call /\ [call[r] EXCEPT !.pc = pc, !.denied = TRUE] \in Call
  BY <1>1 DEF Call
<1>4. PICK c \in Call : call' = [call EXCEPT ![r] = c] /\ c.pc = pc
  <2>1. CASE call' = [call EXCEPT ![r].pc = pc] BY <1>1, <1>3, <2>1 DEF Call
  <2>2. CASE call' = [call EXCEPT ![r].pc = pc, ![r].denied = TRUE] BY <1>1, <1>3, <2>2 DEF Call
  <2>3. ASSUME NEW j \in Jwt, call' = [call EXCEPT ![r].pc = pc, ![r].header = j]
        PROVE  \E c \in Call : call' = [call EXCEPT ![r] = c] /\ c.pc = pc
    <3> DEFINE d == [call[r] EXCEPT !.pc = pc, !.header = j]
    <3>1. d \in Call BY <1>2
    <3>2. call' = [call EXCEPT ![r] = d] BY <2>3
    <3>3. d.pc = pc BY <1>1 DEF Call
    <3> QED BY <3>1, <3>2, <3>3
  <2> QED BY <2>1, <2>2, <2>3
<1> QED BY <1>4

LEMMA CallPresents ==
    ASSUME call \in [Req -> Call], NEW r \in Req, NEW pc \in {"refreshing", "logout"}, NEW t \in Token,
           \/ call' = [call EXCEPT ![r].pc = pc, ![r].refreshToken = t]
           \/ call' = [call EXCEPT ![r].pc = pc, ![r].retried = TRUE, ![r].refreshToken = t]
    PROVE  /\ call' \in [Req -> Call] /\ call'[r].pc = pc /\ \A q \in Req \ {r} : call'[q] = call[q]
           /\ call'[r].refreshToken = t
<1>1. call[r] \in Call OBVIOUS
<1>2. /\ [call[r] EXCEPT !.pc = pc, !.refreshToken = t] \in Call
      /\ [call[r] EXCEPT !.pc = pc, !.retried = TRUE, !.refreshToken = t] \in Call
  BY <1>1 DEF Call
<1>3. PICK c \in Call : call' = [call EXCEPT ![r] = c] /\ c.pc = pc /\ c.refreshToken = t BY <1>1, <1>2 DEF Call
<1> QED BY <1>3

LEMMA PageTurns ==
    ASSUME WebInv, NEW r \in Req, PageStep(r)
    PROVE  Turn(r) /\ WebTypeOK'
<1> USE DEF WebInv
<1>0. AuthTypeOK'
  BY StepTyped, PageIsAClient DEF WebTyped, AuthNext, Typed
<1>a. call \in [Req -> Call] /\ store \in Store /\ leaving \in BOOLEAN /\ loggedOut \in SUBSET Token
      /\ cutOff \in SUBSET Token /\ req \in [Req -> Request]
  BY DEF WebTyped, WebTypeOK, AuthTypeOK
<1>b. Cleared \in Store /\ \A j \in Jwt, t \in Token, u \in User : [access |-> j, refresh |-> t, user |-> u] \in Store
  BY DEF Cleared, Store, NoJwt
<1>c. /\ (call[r].pc \in {"idle", "sent"} => req[r] = Idle)
      /\ (Awaited(r) => req[r].jwt \in Jwt /\ req[r].new \in Token)
  BY DEF CallsMatch, PairsFresh
<1> DEFINE Writes(pc) == call' \in [Req -> Call] /\ call'[r].pc = pc /\ \A q \in Req \ {r} : call'[q] = call[q]
<1>e. ASSUME UNCHANGED req \/ \E d : req' = [req EXCEPT ![r] = d] PROVE \A q \in Req \ {r} : req'[q] = req[q]
  BY <1>a, <1>e
<1>f. ASSUME TakeAnswer(r), ServerStill
      PROVE  req'[r] = Idle /\ (\A q \in Req \ {r} : req'[q] = req[q]) /\ UNCHANGED <<rt, handed, clock>>
  BY <1>a, <1>f DEF TakeAnswer, ServerStill, history
<1>g. ASSUME Finish(r), store' \in Store, leaving' \in BOOLEAN, loggedOut' \in SUBSET Token, UNCHANGED cutOff
      PROVE  call'[r].pc = "idle" /\ (\A q \in Req \ {r} : call'[q] = call[q]) /\ WebTypeOK'
  BY <1>0, <1>a, <1>g DEF Finish, NoCall, Call, NoJwt, WebTypeOK
<1>h. ASSUME GiveUp PROVE store' = Cleared /\ store' \in Store /\ leaving' \in BOOLEAN
  BY <1>b, <1>h, WebAssumption DEF GiveUp, ClearAuth
<1>i. ASSUME Drop(r)
      PROVE  /\ Writes("dropped") /\ UNCHANGED <<rt, handed, clock, req>>
             /\ \A q \in Req \ {r} : req'[q] = req[q]
  BY <1>a, <1>i DEF Drop, Call, NoJwt, NoCall, authVars, history
<1>j. ASSUME ClearSettled PROVE store' = Cleared /\ UNCHANGED <<leaving, cutOff>> /\ loggedOut' \in SUBSET Token
  BY <1>a, <1>j DEF ClearSettled, ClearAuth, TokensIssued
<1>1. CASE Send(r)
  <2>2. Writes("sent")
    BY <1>1, <1>a, <1>c DEF Send, Call, NoJwt, Store, NoCall
  <2>3. ~Presenting(r) BY <1>1 DEF Send, CallAt, Presenting
  <2>4. UNCHANGED <<rt, handed, clock, req, store, leaving, loggedOut, cutOff>> BY <1>1 DEF Send, authVars, history
  <2>5. req'[r] = Idle BY <1>1, <1>c, <2>4 DEF Send, CallAt
  <2> QED BY <1>a, <1>0, <1>e, <2>2, <2>3, <2>4, <2>5 DEF WebTypeOK, Turn, Quits
<1>2. CASE Settle(r) \/ RejectRetry(r)
  <2>1. call[r].pc = "sent" /\ Finish(r) /\ UNCHANGED <<rt, handed, clock, req, store, leaving, loggedOut, cutOff>>
    BY <1>2 DEF Settle, RejectRetry, CallAt, authVars, history
  <2> QED BY <1>a, <1>c, <1>e, <1>g, <2>1 DEF Turn, Quits, Presenting
<1>3. CASE StartRefresh(r)
  <2>1. store.refresh \in Token /\ LoggedIn BY <1>3, LoggedInHolds DEF StartRefresh
  <2>3. Writes("refreshing") /\ call'[r].refreshToken = store.refresh
    <3>1. call' = [call EXCEPT ![r].pc = "refreshing", ![r].retried = TRUE, ![r].refreshToken = store.refresh]
      BY <1>3 DEF StartRefresh
    <3> QED BY <1>a, <2>1, <3>1, CallPresents
  <2>4. UNCHANGED <<rt, handed, clock, store, leaving, loggedOut, cutOff>> /\ call[r].pc = "sent"
        /\ req' = [req EXCEPT ![r] = Before("lookup", NoUser, "user", store.refresh)]
    BY <1>3 DEF StartRefresh, Present, history, MayRefresh, CallAt
  <2> QED BY <1>a, <1>0, <1>e, <2>1, <2>3, <2>4 DEF WebTypeOK, Turn, Presents
<1>4. CASE NoRefreshToken(r)
  <2>1. call[r].pc = "sent" /\ Finish(r) /\ GiveUp /\ UNCHANGED <<rt, handed, clock, req, loggedOut, cutOff>>
    BY <1>4 DEF NoRefreshToken, MayRefresh, CallAt, authVars, history
  <2> QED BY <1>a, <1>c, <1>e, <1>g, <1>h, <2>1 DEF Turn, Quits
<1>5. CASE RefreshOk(r)
  <2>1. Awaited(r) /\ TakeAnswer(r) /\ ServerStill /\ UNCHANGED <<leaving, loggedOut, cutOff>>
    BY <1>5 DEF RefreshOk, Awaited, CallAt, At
  <2>3. Writes("sent")
    <3>1. req[r].jwt \in Jwt BY <1>c, <2>1
    <3>2. call' = [call EXCEPT ![r].pc = "sent", ![r].header = req[r].jwt] BY <1>5 DEF RefreshOk
    <3> QED BY <1>a, <3>1, <3>2, CallGoesOn
  <2>4. store.user \in User /\ store' = [access |-> req[r].jwt, refresh |-> req[r].new, user |-> store.user]
    BY <1>5, <1>a DEF RefreshOk, LoggedIn, Store
  <2>5. store' \in Store BY <1>b, <1>c, <2>1, <2>4
  <2> QED BY <1>a, <1>0, <1>f, <2>1, <2>3, <2>4, <2>5 DEF WebTypeOK, Turn, Takes
<1>6. CASE RefreshWithoutUser(r) \/ RefreshFailed(r)
  <2>1. Finish(r) /\ GiveUp /\ TakeAnswer(r) /\ ServerStill /\ UNCHANGED <<loggedOut, cutOff>>
    BY <1>6 DEF RefreshWithoutUser, RefreshFailed
  <2> QED BY <1>a, <1>f, <1>g, <1>h, <2>1 DEF Turn, Quits
<1>7. CASE SubmitLogin(r)
  <2>2. Writes("login") BY <1>7, <1>a, CallGoesOn DEF SubmitLogin
  <2>3. UNCHANGED <<rt, handed, clock, store, leaving, loggedOut, cutOff>> /\ call[r].pc = "idle"
    BY <1>7 DEF SubmitLogin, BeginLogin, history, CallAt
  <2>4. PICK u \in User : req' = [req EXCEPT ![r] = Checking(u)]
    BY <1>7 DEF SubmitLogin, BeginLogin
  <2>5. req'[r].pc = "bcrypt" /\ req'[r].tok = NoToken BY <2>4, CheckingTyped DEF WebTyped
  <2> QED BY <1>a, <1>0, <1>e, <2>2, <2>3, <2>4, <2>5 DEF WebTypeOK, Turn, LogsIn
<1>8. CASE LoginOk(r)
  <2>1. Awaited(r) /\ Finish(r) /\ TakeAnswer(r) /\ ServerStill /\ UNCHANGED <<leaving, loggedOut, cutOff>>
    BY <1>8 DEF LoginOk, Awaited, CallAt, At
  <2>2. req[r].jwt.user \in User /\ store' = [access |-> req[r].jwt, refresh |-> req[r].new, user |-> req[r].jwt.user]
    BY <1>8, <1>c, <2>1 DEF LoginOk, Jwt
  <2>3. store' \in Store BY <1>b, <1>c, <2>1, <2>2
  <2> QED BY <1>a, <1>f, <1>g, <2>1, <2>2, <2>3 DEF Turn, Takes
<1>9. CASE LoginRefused(r)
  <2>2. Writes("sent") BY <1>9, <1>a, CallGoesOn DEF LoginRefused
  <2>3. TakeAnswer(r) /\ ServerStill /\ UNCHANGED <<store, leaving, loggedOut, cutOff>> /\ ~Presenting(r)
    BY <1>9 DEF LoginRefused, Presenting, CallAt
  <2> QED BY <1>a, <1>0, <1>f, <2>2, <2>3 DEF WebTypeOK, Turn, Quits
<1>10. CASE LoginFailed(r)
  <2>1. Finish(r) /\ TakeAnswer(r) /\ ServerStill /\ UNCHANGED <<store, leaving, loggedOut, cutOff>> /\ ~Presenting(r)
    BY <1>10 DEF LoginFailed, Presenting, CallAt
  <2> QED BY <1>a, <1>f, <1>g, <2>1 DEF Turn, Quits
<1>14. CASE LoginLost(r)
  <2>1. Drop(r) /\ UNCHANGED <<store, leaving, loggedOut, cutOff>> /\ call[r].pc = "login"
    BY <1>14 DEF LoginLost, CallAt
  <2> QED BY <1>a, <1>0, <1>i, <2>1 DEF WebTypeOK, Turn, Drops, Presenting
<1>15. CASE RefreshLost(r)
  <2>1. Drop(r) /\ GiveUp /\ UNCHANGED <<loggedOut, cutOff>> /\ call[r].pc = "refreshing"
    BY <1>15 DEF RefreshLost, CallAt
  <2> QED BY <1>a, <1>0, <1>h, <1>i, <2>1 DEF WebTypeOK, Turn, Drops
<1>11. CASE LogoutOnProfile(r)
  <2>1. store.refresh \in Token /\ LoggedIn BY <1>11 DEF LogoutOnProfile, TokensIssued
  <2>3. Writes("logout") /\ call'[r].refreshToken = store.refresh
    BY <1>11, <1>a, <2>1, CallPresents DEF LogoutOnProfile
  <2>4. UNCHANGED <<rt, handed, clock, store, leaving, loggedOut, cutOff>> /\ call[r].pc = "idle" /\ ~leaving
        /\ req' = [req EXCEPT ![r] = Before("logout", NoUser, "user", store.refresh)]
    BY <1>11 DEF LogoutOnProfile, Present, history, CallAt
  <2> QED BY <1>a, <1>0, <1>e, <2>1, <2>3, <2>4 DEF WebTypeOK, Turn, Presents
<1>12. CASE LogoutSettled(r)
  <2>1. Finish(r) /\ TakeAnswer(r) /\ ServerStill BY <1>12 DEF LogoutSettled
  <2>2. store' = Cleared /\ UNCHANGED <<leaving, cutOff>> /\ loggedOut' \in SUBSET Token
    BY <1>12, <1>j DEF LogoutSettled
  <2> QED BY <1>a, <1>b, <1>f, <1>g, <2>1, <2>2 DEF Turn, Quits
<1>16. CASE LogoutLost(r)
  <2>1. Drop(r) /\ store' = Cleared /\ UNCHANGED <<leaving, cutOff>> /\ loggedOut' \in SUBSET Token
        /\ call[r].pc = "logout"
    BY <1>16, <1>j DEF LogoutLost, CallAt
  <2> QED BY <1>a, <1>b, <1>0, <1>i, <2>1 DEF WebTypeOK, Turn, Drops
<1>13. CASE DropAnswer(r)
  <2>1. Finish(r) /\ UNCHANGED <<rt, handed, clock, store, leaving, loggedOut, cutOff>> /\ ~Presenting(r)
        /\ req' = [req EXCEPT ![r] = Idle]
    BY <1>13 DEF DropAnswer, Answered, Break, history, Presenting, CallAt
  <2> QED BY <1>a, <1>e, <1>g, <2>1 DEF Turn, Quits
<1> QED BY <1>1, <1>2, <1>3, <1>4, <1>5, <1>6, <1>7, <1>8, <1>9, <1>10, <1>11, <1>12, <1>13,
           <1>14, <1>15, <1>16 DEF PageStep

-----------------------------------------------------------------------------
(* The steps of the server, of the page load, and of the log out in the header. *)

Works(r) ==
    /\ UNCHANGED <<rt, handed>> /\ req'[r].tok \in {req[r].tok, NoToken}
    /\ \/ req[r].pc = "bcrypt" /\ req'[r].pc \in {"insert", "refused", "failed"}
       \/ req[r].pc = "mint" /\ req'[r].pc \in {"insert", "failed"}
       \/ req[r].pc = "lookup" /\ req'[r].pc \in {"revoke", "failed"}
       \/ req[r].pc = "lookup" /\ req'[r].pc = "refused" /\ ~Usable(req[r].tok)
       \/ req[r].pc = "insert" /\ req'[r].pc = "failed"
Revokes(r) ==
    /\ UNCHANGED handed /\ req'[r].tok \in {req[r].tok, NoToken}
    /\ \/ req[r].pc = "revoke" /\ req'[r].pc = "mint"
       \/ req[r].pc = "logout" /\ req'[r].pc = "ok"
    /\ req[r].tok \in Token
    /\ \/ rt' = [rt EXCEPT ![req[r].tok].status = "revoked"]
       \/ DbFails /\ UNCHANGED rt
Inserts(r) ==
    /\ req[r].pc = "insert" /\ req[r].new \in Token /\ req[r].jwt \in Jwt
    /\ req'[r] = Signed("ok", NoToken, req[r].new, req[r].jwt)
    /\ rt[req[r].new].status = "none"
    /\ rt'[req[r].new].status = "live" /\ rt'[req[r].new].user = req[r].jwt.user
    /\ \A t \in Token \ {req[r].new} : rt'[t] = rt[t]
    /\ handed'[req[r].new] > 0

\* A statement of a request.
Served(r) ==
    /\ \A q \in Req \ {r} : req'[q] = req[q]
    /\ UNCHANGED clock
    /\ Works(r) \/ Revokes(r) \/ Inserts(r)

LEMMA ServeServes == ASSUME WebInv, NEW r \in Req, Serve(r) PROVE Served(r)
<1>a. Typed BY DEF WebInv, WebTyped
<1>b. req \in [Req -> Request] /\ rt \in [Token -> TokenRow] BY <1>a DEF Typed, AuthTypeOK
<1>1. ASSUME NEW u, NEW ro, Drawn(r, u, ro)
      PROVE  (\A q \in Req \ {r} : req'[q] = req[q]) /\ req'[r].pc = "insert" /\ req'[r].tok = req[r].tok
  BY <1>b, <1>1 DEF Drawn, Signed
<1>2. ASSUME Refuse(r)
      PROVE  (\A q \in Req \ {r} : req'[q] = req[q]) /\ req'[r].pc = "refused" /\ req'[r].tok = NoToken
  BY <1>b, <1>2 DEF Refuse, Done, Before
<1>9. ASSUME Fail(r)
      PROVE  (\A q \in Req \ {r} : req'[q] = req[q]) /\ req'[r].pc = "failed" /\ req'[r].tok = NoToken
  BY <1>b, <1>9 DEF Fail, Done, Before
<1>3. CASE CheckPassword(r)
  BY <1>1, <1>2, <1>3, <1>9 DEF CheckPassword, At, Served, Works, history
<1>4. CASE LookUp(r)
  <2>1. CASE Usable(req[r].tok)
             /\ req' = [req EXCEPT ![r] = Before("revoke", rt[req[r].tok].user, "user", req[r].tok)]
    BY <1>b, <1>4, <2>1 DEF LookUp, At, Served, Works, Before, history
  <2>2. CASE (~Usable(req[r].tok) /\ Refuse(r)) \/ Fail(r)
    BY <1>2, <1>4, <1>9, <2>2 DEF LookUp, At, Served, Works, history
  <2> QED BY <1>4, <2>1, <2>2 DEF LookUp
<1>5. CASE RevokeOld(r)
  <2>1. req[r].tok \in Token BY <1>5, <1>a DEF RevokeOld, At, Typed, Equipped
  <2>2. (\A q \in Req \ {r} : req'[q] = req[q]) /\ req'[r].pc = "mint" /\ req'[r].tok = req[r].tok
    BY <1>5, <1>b DEF RevokeOld, Request
  <2> QED BY <1>5, <2>1, <2>2 DEF RevokeOld, At, Served, Revokes
<1>6. CASE ReadRoleAndSign(r)
  BY <1>1, <1>6, <1>9 DEF ReadRoleAndSign, At, Served, Works, history
<1>7. CASE InsertToken(r)
  <2>1. req[r].new \in Token /\ req[r].jwt \in Jwt BY <1>7, <1>a DEF InsertToken, At, Typed, Equipped
  <2>2. CASE Fail(r) /\ UNCHANGED <<rt, jwts, redeemed, handed>>
    BY <1>7, <1>9, <2>2 DEF InsertToken, At, Served, Works
  <2>3. CASE /\ ~Taken(req[r].new)
             /\ rt' = [rt EXCEPT ![req[r].new] = [status |-> "live", user |-> req[r].jwt.user, exp |-> clock + RefreshLife]]
             /\ handed' = [handed EXCEPT ![req[r].new] = @ + 1]
             /\ req' = [req EXCEPT ![r] = Signed("ok", NoToken, req[r].new, req[r].jwt)]
    <3>2. handed'[req[r].new] > 0 BY <1>a, <2>1, <2>3 DEF Typed, AuthTypeOK
    <3>3. rt'[req[r].new] = [status |-> "live", user |-> req[r].jwt.user, exp |-> clock + RefreshLife]
          /\ \A t \in Token \ {req[r].new} : rt'[t] = rt[t]
      BY <1>b, <2>1, <2>3
    <3>4. req'[r] = Signed("ok", NoToken, req[r].new, req[r].jwt) /\ \A q \in Req \ {r} : req'[q] = req[q]
      BY <1>b, <2>3
    <3> QED BY <1>7, <2>1, <2>3, <3>2, <3>3, <3>4 DEF InsertToken, At, Served, Inserts, Taken
  <2> QED BY <1>7, <2>2, <2>3 DEF InsertToken
<1>8. CASE RevokeForLogout(r)
  <2>1. req[r].tok \in Token BY <1>8, <1>a DEF RevokeForLogout, At, Typed, Equipped
  <2>2. (\A q \in Req \ {r} : req'[q] = req[q]) /\ req'[r].pc = "ok" /\ req'[r].tok = NoToken
    BY <1>8, <1>b DEF RevokeForLogout, Done, Before
  <2> QED BY <1>8, <2>1, <2>2 DEF RevokeForLogout, At, Served, Revokes, history
<1> QED BY <1>3, <1>4, <1>5, <1>6, <1>7, <1>8 DEF Serve

\* The page load: nothing is awaited any more; of a refresh cut off the token is noted.
Loads ==
    /\ leaving /\ UNCHANGED <<rt, handed, clock, req, store>> /\ leaving' = FALSE
    /\ \A r \in Req : call'[r].pc = IF req[r].pc = "idle" THEN "idle" ELSE "dropped"
    /\ cutOff \subseteq cutOff' /\ \A r \in Req : call[r].pc = "refreshing" => call[r].refreshToken \in cutOff'
\* The store is cleared; the rest stays.
Clears == UNCHANGED <<rt, handed, clock, req, call, leaving, cutOff>> /\ store' = Cleared
\* Only time passes.
Waits == UNCHANGED <<rt, handed, req, store, call, leaving, cutOff>>

\* Every step, told in these terms.
Told ==
    \/ \E r \in Req : Turn(r) \/ (Served(r) /\ UNCHANGED <<store, call, leaving, cutOff>>)
    \/ Loads \/ Clears \/ Waits

LEMMA StepTold == WebInv /\ [Next]_vars => Told /\ WebTyped'
<1> SUFFICES ASSUME WebInv, [Next]_vars PROVE Told /\ WebTyped'
  OBVIOUS
<1>0. Typed' BY StepTyped, StepIsAuth DEF WebInv, WebTyped
<1>1. ASSUME NEW r \in Req, PageStep(r) PROVE Told /\ WebTyped'
  BY <1>0, <1>1, PageTurns DEF Told, WebTyped
<1>2. ASSUME UNCHANGED webVars PROVE WebTypeOK'
  BY <1>0, <1>2 DEF webVars, WebTypeOK, Typed, WebInv, WebTyped
<1>3. ASSUME NEW r \in Req, Serve(r), UNCHANGED webVars PROVE Told /\ WebTyped'
  BY <1>0, <1>2, <1>3, ServeServes DEF Told, WebTyped, webVars
<1>4. CASE LogoutInHeader
  <2>1. store.refresh \in Token BY <1>4 DEF LogoutInHeader, WebInv, TokensIssued
  <2>2. WebTypeOK'
    BY <1>0, <1>4, <2>1 DEF LogoutInHeader, ClearAuth, Cleared, Store, NoJwt, WebTypeOK, Typed, WebInv, WebTyped
  <2>3. Clears BY <1>4 DEF LogoutInHeader, ClearAuth, Clears, authVars, history
  <2> QED BY <1>0, <2>2, <2>3 DEF Told, WebTyped
<1>5. CASE Reload
  <2>1. \A r \in Req : call[r].pc = "refreshing" => call[r].refreshToken \in Token
    BY DEF WebInv, CallsMatch, Presenting
  <2>2. cutOff \subseteq cutOff' /\ \A r \in Req : call[r].pc = "refreshing" => call[r].refreshToken \in cutOff'
    BY <1>5 DEF Reload, CallAt
  <2>3. cutOff' \in SUBSET Token BY <1>5, <2>1 DEF Reload, CallAt, WebInv, WebTyped, WebTypeOK
  <2>4. \A pc \in {"idle", "dropped"} : [NoCall EXCEPT !.pc = pc] \in Call /\ [NoCall EXCEPT !.pc = pc].pc = pc
    BY DEF NoCall, Call, NoJwt
  <2>5. call' = [r \in Req |-> [NoCall EXCEPT !.pc = IF At(r, "idle") THEN "idle" ELSE "dropped"]]
    BY <1>5 DEF Reload
  <2>6. call' \in [Req -> Call] /\ \A r \in Req : call'[r].pc = IF At(r, "idle") THEN "idle" ELSE "dropped"
    BY <2>4, <2>5
  <2>7. WebTypeOK' BY <1>0, <1>5, <2>3, <2>6 DEF Reload, WebTypeOK, Typed, WebInv, WebTyped
  <2>8. Loads BY <1>5, <2>2, <2>6 DEF Reload, Loads, At, authVars, history
  <2> QED BY <1>0, <2>7, <2>8 DEF Told, WebTyped
<1>6. CASE (Tick /\ UNCHANGED webVars) \/ UNCHANGED vars
  BY <1>0, <1>2, <1>6 DEF Tick, vars, webVars, authVars, history, Told, Waits, WebTyped
<1> QED BY <1>1, <1>3, <1>4, <1>5, <1>6, NextSteps

-----------------------------------------------------------------------------
(* Each conjunct of the invariant, across the steps. *)

\* What Idle and a request just presented hold.
LEMMA Slots ==
    /\ Idle.pc = "idle" /\ Idle.tok = NoToken
    /\ \A pc, u, ro, t : Before(pc, u, ro, t).pc = pc /\ Before(pc, u, ro, t).tok = t
    /\ \A pc, t, n, j : /\ Signed(pc, t, n, j).pc = pc /\ Signed(pc, t, n, j).tok = t
                        /\ Signed(pc, t, n, j).new = n /\ Signed(pc, t, n, j).jwt = j
BY DEF Idle, Done, Before, Signed

LEMMA StepMatch == ASSUME WebInv, Told PROVE CallsMatch'
<1> USE Slots DEF WebInv
<1>a. CallsMatch OBVIOUS
<1>1. ASSUME NEW r \in Req, Turn(r) PROVE CallsMatch'
  <2>1. CASE Quits(r) \/ Takes(r) BY <1>a, <1>1, <2>1 DEF Turn, Quits, Takes, CallsMatch, Presenting
  <2>4. CASE Drops(r) BY <1>a, <1>1, <2>4 DEF Turn, Drops, CallsMatch, Presenting
  <2>2. CASE Presents(r) BY <1>a, <1>1, <2>2 DEF Turn, Presents, CallsMatch, Presenting
  <2>3. CASE LogsIn(r) BY <1>a, <1>1, <2>3 DEF Turn, LogsIn, CallsMatch, Presenting
  <2> QED BY <1>1, <2>1, <2>2, <2>3, <2>4 DEF Turn
<1>2. ASSUME NEW r \in Req, Served(r), UNCHANGED <<store, call, leaving, cutOff>> PROVE CallsMatch'
  <2>1. CASE Works(r) BY <1>a, <1>2, <2>1 DEF Served, Works, CallsMatch, Presenting
  <2>2. CASE Revokes(r) BY <1>a, <1>2, <2>2 DEF Served, Revokes, CallsMatch, Presenting
  <2>3. CASE Inserts(r) BY <1>a, <1>2, <2>3 DEF Served, Inserts, CallsMatch, Presenting
  <2> QED BY <1>2, <2>1, <2>2, <2>3 DEF Served
<1>3. CASE Loads
  <2>1. \A r \in Req : call[r].pc \in {"idle", "sent", "refreshing", "login", "logout", "dropped"}
    BY DEF WebTyped, WebTypeOK, Call
  <2>2. \A r \in Req : req[r].pc = "idle" => req[r] = Idle BY <1>a, <2>1 DEF CallsMatch
  <2> QED BY <1>3, <2>2 DEF Loads, CallsMatch, Presenting
<1>4. CASE Clears BY <1>a, <1>4 DEF Clears, CallsMatch, Presenting
<1>5. CASE Waits BY <1>a, <1>5 DEF Waits, CallsMatch, Presenting
<1> QED BY <1>1, <1>2, <1>3, <1>4, <1>5 DEF Told

\* Rows that are there, in the shape that the steps below need it.
LEMMA Rows ==
    ASSUME WebInv, [Next]_vars
    PROVE  \A t \in Token : rt[t].status # "none" =>
              /\ rt'[t].status # "none" /\ rt'[t].user = rt[t].user
              /\ rt'[t].status \in {rt[t].status, "revoked"}
              /\ (handed[t] > 0 => handed'[t] > 0) /\ (~Usable(t) => ~Usable(t)')
BY RowsStay, StepIsAuth DEF WebInv, WebTyped

LEMMA StepIssued == ASSUME WebInv, Told, [Next]_vars PROVE TokensIssued'
<1> USE Slots, AuthAssumption DEF WebInv
<1>a. TokensIssued OBVIOUS
<1>b. \A r \in Req : Presenting(r) => call[r].refreshToken \in Token BY DEF CallsMatch
<1>c. \A t \in Token : rt[t].status # "none" => rt'[t].status # "none" /\ (handed[t] > 0 => handed'[t] > 0) BY Rows
<1>d. Cleared.user = NoUser /\ Cleared.refresh = NoToken BY DEF Cleared
<1>1. ASSUME NEW r \in Req, Turn(r) PROVE TokensIssued'
  <2>1. CASE Quits(r)
    BY <1>a, <1>b, <1>c, <1>d, <1>1, <2>1 DEF Turn, Quits, TokensIssued, Presenting, LoggedIn
  <2>5. CASE Drops(r)
    BY <1>a, <1>b, <1>c, <1>d, <1>1, <2>5 DEF Turn, Drops, TokensIssued, Presenting, LoggedIn
  <2>2. CASE Presents(r)
    BY <1>a, <1>b, <1>c, <1>1, <2>2 DEF Turn, Presents, TokensIssued, Presenting, LoggedIn
  <2>3. CASE Takes(r)
    <3>1. req[r].new \in Token /\ rt[req[r].new].status = "live" /\ handed[req[r].new] > 0
      BY <2>3 DEF Takes, PairsFresh
    <3> QED BY <1>a, <1>b, <1>c, <1>1, <2>3, <3>1 DEF Turn, Takes, TokensIssued, Presenting, LoggedIn
  <2>4. CASE LogsIn(r)
    BY <1>a, <1>b, <1>c, <1>1, <2>4 DEF Turn, LogsIn, TokensIssued, Presenting, LoggedIn
  <2> QED BY <1>1, <2>1, <2>2, <2>3, <2>4, <2>5 DEF Turn
<1>2. ASSUME NEW r \in Req, Served(r), UNCHANGED <<store, call, leaving, cutOff>> PROVE TokensIssued'
  <2>1. req'[r].tok \in {req[r].tok, NoToken} BY <1>2 DEF Served, Works, Revokes, Inserts
  <2> QED BY <1>a, <1>b, <1>c, <1>2, <2>1 DEF Served, TokensIssued, Presenting, LoggedIn
<1>3. CASE Loads BY <1>a, <1>3 DEF Loads, TokensIssued, Presenting, LoggedIn
<1>4. CASE Clears BY <1>a, <1>d, <1>4 DEF Clears, TokensIssued, Presenting, LoggedIn
<1>5. CASE Waits BY <1>a, <1>5 DEF Waits, TokensIssued, Presenting, LoggedIn
<1> QED BY <1>1, <1>2, <1>3, <1>4, <1>5 DEF Told

LEMMA StepFresh == ASSUME WebInv, Told, [Next]_vars PROVE PairsFresh'
<1> USE Slots, AuthAssumption DEF WebInv
<1>a. PairsFresh /\ TokensIssued /\ CallsMatch OBVIOUS
<1>d. Cleared.user = NoUser /\ Cleared.refresh = NoToken BY DEF Cleared
<1>1. ASSUME NEW r \in Req, Turn(r) PROVE PairsFresh'
  <2>1. ~Awaited(r)' BY <1>1 DEF Turn, Quits, Drops, Presents, Takes, LogsIn, Awaited
  <2>2. \A p \in Req : Awaited(p)' => p # r /\ Awaited(p) /\ req'[p] = req[p]
    BY <1>1, <2>1 DEF Turn, Awaited
  <2>3. \A p \in Req : Awaited(p)' => req'[p].new # store'.refresh
    <3>1. CASE Takes(r) BY <1>a, <2>2, <3>1 DEF Takes, PairsFresh
    <3>2. CASE ~Takes(r) BY <1>a, <1>d, <1>1, <2>2, <3>2 DEF Turn, Quits, Drops, Presents, LogsIn, PairsFresh
    <3> QED BY <3>1, <3>2
  <2>4. req'[r].tok \in {NoToken, req[r].tok, store.refresh} /\ (Presenting(r)' => call'[r].refreshToken = store.refresh)
    BY <1>1 DEF Turn, Quits, Drops, Presents, Takes, LogsIn, Presenting
  <2>5. \A p \in Req : Awaited(p)' =>
          \A q \in Req : req'[q].tok # req'[p].new /\ (Presenting(q)' => call'[q].refreshToken # req'[p].new)
    BY <1>a, <1>1, <2>2, <2>4 DEF Turn, PairsFresh, Presenting
  <2> QED BY <1>a, <1>1, <2>2, <2>3, <2>5 DEF Turn, PairsFresh
<1>2. ASSUME NEW r \in Req, Served(r), UNCHANGED <<store, call, leaving, cutOff>> PROVE PairsFresh'
  <2>1. CASE Works(r) \/ Revokes(r)
    <3>1. \A p \in Req : Awaited(p)' => p # r /\ Awaited(p) /\ req'[p] = req[p]
      BY <1>a, <1>2, <2>1 DEF Served, Works, Revokes, Awaited, CallsMatch
    <3>2. \A p \in Req : Awaited(p) /\ p # r => rt'[req[p].new] = rt[req[p].new]
      <4>1. CASE UNCHANGED rt BY <4>1
      <4>2. CASE rt' = [rt EXCEPT ![req[r].tok].status = "revoked"]
        BY <1>a, <4>2 DEF PairsFresh, WebTyped, Typed, AuthTypeOK
      <4> QED BY <2>1, <4>1, <4>2 DEF Works, Revokes
    <3>3. req'[r].tok \in {req[r].tok, NoToken} /\ UNCHANGED handed BY <2>1 DEF Works, Revokes
    <3> QED BY <1>a, <1>2, <3>1, <3>2, <3>3 DEF Served, PairsFresh, Presenting
  <2>2. CASE Inserts(r)
    <3> DEFINE n == req[r].new
    <3>1. \A p \in Req : Awaited(p)' /\ p # r => Awaited(p) /\ req'[p] = req[p] /\ req[p].new # n
      BY <1>a, <1>2, <2>2 DEF Served, Inserts, Awaited, PairsFresh
    <3>2. n # store.refresh
      BY <1>a, <1>d, <2>2 DEF Inserts, TokensIssued
    <3>3. \A q \in Req : req[q].tok # n /\ (Presenting(q) => call[q].refreshToken # n)
      BY <1>a, <2>2 DEF Inserts, TokensIssued
    <3>4. n \in Token /\ req'[r].new = n /\ req'[r].jwt = req[r].jwt /\ req[r].jwt \in Jwt /\ handed'[n] > 0
          /\ rt'[n].status = "live" /\ rt'[n].user = req[r].jwt.user /\ req'[r].tok = NoToken
      BY <2>2 DEF Inserts
    <3>5. \A p \in Req : Awaited(p) => handed'[req[p].new] > 0
      BY <1>a, Rows DEF PairsFresh
    <3> HIDE DEF n
    <3>6. \A p \in Req : Awaited(p)' /\ p # r =>
            /\ req'[p].new \in Token /\ req'[p].jwt \in Jwt /\ handed'[req'[p].new] > 0
            /\ rt'[req'[p].new].status = "live" /\ rt'[req'[p].new].user = req'[p].jwt.user
            /\ req'[p].new # store'.refresh
            /\ \A q \in Req : req'[q].tok # req'[p].new /\ (Presenting(q)' => call'[q].refreshToken # req'[p].new)
      <4> SUFFICES ASSUME NEW p \in Req, Awaited(p)', p # r
                   PROVE  /\ req'[p].new \in Token /\ req'[p].jwt \in Jwt /\ handed'[req'[p].new] > 0
                          /\ rt'[req'[p].new].status = "live" /\ rt'[req'[p].new].user = req'[p].jwt.user
                          /\ req'[p].new # store'.refresh
                          /\ \A q \in Req : req'[q].tok # req'[p].new
                                            /\ (Presenting(q)' => call'[q].refreshToken # req'[p].new)
        OBVIOUS
      <4>1. Awaited(p) /\ req'[p] = req[p] /\ req[p].new # n BY <3>1
      <4>2. req[p].new \in Token /\ rt'[req[p].new] = rt[req[p].new]
        BY <1>a, <2>2, <4>1 DEF PairsFresh, Inserts, n
      <4>3. \A q \in Req : req'[q].tok \in {req[q].tok, NoToken} BY <1>2, <3>4 DEF Served
      <4> QED BY <1>a, <1>2, <3>5, <4>1, <4>2, <4>3 DEF PairsFresh, Presenting
    <3>7. \A q \in Req : req'[q].tok # n /\ (Presenting(q)' => call'[q].refreshToken # n)
      BY <1>2, <3>3, <3>4 DEF Served, Presenting
    <3>8. \A p, q \in Req : Awaited(p)' /\ Awaited(q)' /\ req'[q].new = req'[p].new => q = p
      BY <1>a, <3>1, <3>4 DEF PairsFresh
    <3> QED BY <1>2, <3>2, <3>4, <3>6, <3>7, <3>8 DEF PairsFresh
  <2> QED BY <1>2, <2>1, <2>2 DEF Served
<1>3. CASE Loads BY <1>3 DEF Loads, PairsFresh, Awaited
<1>4. CASE Clears BY <1>a, <1>d, <1>4 DEF Clears, PairsFresh, Awaited, Presenting
<1>5. CASE Waits BY <1>a, <1>5 DEF Waits, PairsFresh, Awaited, Presenting
<1> QED BY <1>1, <1>2, <1>3, <1>4, <1>5 DEF Told

LEMMA StepLives == ASSUME WebInv, Told, [Next]_vars PROVE StoreLives'
<1> USE Slots, AuthAssumption DEF WebInv
<1>a. PairsFresh /\ TokensIssued /\ CallsMatch /\ StoreLives OBVIOUS
<1>d. Cleared.user = NoUser /\ Cleared.refresh = NoToken BY DEF Cleared
<1>1. ASSUME NEW r \in Req, Turn(r) PROVE StoreLives'
  <2>1. CASE Quits(r) /\ UNCHANGED <<store, leaving>> /\ ~Presenting(r)
    BY <1>a, <1>1, <2>1 DEF Turn, Quits, StoreLives, Presenting, LoggedIn
  <2>2. CASE Quits(r) /\ store' = Cleared
    <3>1. \A q \in Req : Presenting(q)' => call'[q].refreshToken \in Token
      BY <1>a, <1>1, <2>2 DEF Turn, Quits, Presenting, CallsMatch
    <3> QED BY <1>d, <2>2, <3>1 DEF StoreLives, Presenting, LoggedIn
  <2>6. CASE Drops(r) /\ UNCHANGED <<store, leaving>> /\ ~Presenting(r)
    <3>1. req[r].tok = NoToken BY <1>a, <2>6 DEF Drops, Presenting, CallsMatch
    <3> QED BY <1>a, <1>1, <2>6, <3>1 DEF Turn, Drops, StoreLives, Presenting, LoggedIn
  <2>7. CASE Drops(r) /\ store' = Cleared
    <3>1. \A q \in Req : Presenting(q)' => call'[q].refreshToken \in Token
      BY <1>a, <1>1, <2>7 DEF Turn, Drops, Presenting, CallsMatch
    <3> QED BY <1>d, <2>7, <3>1 DEF StoreLives, Presenting, LoggedIn
  <2>3. CASE Presents(r)
    <3>1. Presenting(r)' /\ call'[r].refreshToken = store'.refresh BY <2>3 DEF Presents, Presenting
    <3> QED BY <1>a, <1>1, <2>3, <3>1 DEF Turn, Presents, StoreLives
  <2>4. CASE Takes(r)
    <3>1. rt[req[r].new].status = "live"
          /\ \A q \in Req : req[q].tok # req[r].new /\ (Presenting(q) => call[q].refreshToken # req[r].new)
      BY <1>a, <2>4 DEF Takes, PairsFresh
    <3>2. store'.refresh = req[r].new BY <2>4 DEF Takes
    <3> QED BY <1>1, <2>4, <3>1, <3>2 DEF Turn, Takes, StoreLives, Presenting
  <2>5. CASE LogsIn(r)
    BY <1>a, <1>1, <2>5 DEF Turn, LogsIn, StoreLives, Presenting, LoggedIn
  <2> QED BY <1>1, <2>1, <2>2, <2>3, <2>4, <2>5, <2>6, <2>7 DEF Turn, Quits, Drops
<1>2. ASSUME NEW r \in Req, Served(r), UNCHANGED <<store, call, leaving, cutOff>> PROVE StoreLives'
  <2>1. req'[r].tok \in {req[r].tok, NoToken} BY <1>2 DEF Served, Works, Revokes, Inserts
  <2>2. ASSUME LoggedIn, rt[store.refresh].status = "live", rt'[store.refresh].status # "live"
        PROVE  store.refresh \in cutOff \/ \E q \in Req : Presenting(q) /\ call[q].refreshToken = store.refresh
    <3>1. store.refresh \in Token BY <1>a, <2>2 DEF TokensIssued
    <3>2. Revokes(r) /\ req[r].tok = store.refresh
      BY <1>2, <2>2, <3>1 DEF Served, Works, Revokes, Inserts, WebTyped, Typed, AuthTypeOK
    <3>3. call[r].pc \in {"idle", "sent", "refreshing", "login", "logout", "dropped"}
      BY DEF WebTyped, WebTypeOK, Call
    <3>4. call[r].pc \in {"refreshing", "logout", "dropped"}
      BY <1>a, <3>1, <3>2, <3>3 DEF Revokes, CallsMatch
    <3> QED BY <1>a, <3>1, <3>2, <3>4 DEF CallsMatch, StoreLives, Presenting
  <2>3. LoggedIn' => \/ rt'[store'.refresh].status = "live" \/ store'.refresh \in cutOff'
                     \/ \E q \in Req : Presenting(q)' /\ call'[q].refreshToken = store'.refresh
    BY <1>a, <1>2, <2>2 DEF StoreLives, LoggedIn, Presenting
  <2>4. \A q \in Req : call'[q].pc = "dropped" /\ req'[q].tok \in Token =>
          req'[q].tok \in cutOff' \/ req'[q].tok # store'.refresh
    BY <1>a, <1>2, <2>1 DEF Served, StoreLives
  <2> QED BY <1>a, <1>2, <2>3, <2>4 DEF StoreLives
<1>3. CASE Loads
  <2>1. \A r \in Req : Presenting(r) => call[r].pc = "logout" \/ call[r].refreshToken \in cutOff'
    BY <1>3 DEF Loads, Presenting
  <2>2. LoggedIn => rt[store.refresh].status = "live" \/ store.refresh \in cutOff'
    BY <1>a, <1>3, <2>1 DEF Loads, StoreLives
  <2>3. \A r \in Req : call'[r].pc = "dropped" /\ req'[r].tok \in Token =>
          req'[r].tok \in cutOff' \/ req'[r].tok # store'.refresh
    <3> SUFFICES ASSUME NEW r \in Req, req[r].tok \in Token PROVE req[r].tok \in cutOff' \/ req[r].tok # store.refresh
      BY <1>3 DEF Loads
    <3>1. call[r].pc \in {"idle", "sent", "refreshing", "login", "logout", "dropped"}
      BY DEF WebTyped, WebTypeOK, Call
    <3>2. call[r].pc \in {"refreshing", "logout", "dropped"} BY <1>a, <3>1 DEF CallsMatch
    <3>3. Presenting(r) => req[r].tok = call[r].refreshToken BY <1>a DEF CallsMatch
    <3> QED BY <1>a, <1>3, <2>1, <3>2, <3>3 DEF Loads, StoreLives, Presenting
  <2> QED BY <1>3, <2>2, <2>3 DEF Loads, StoreLives, LoggedIn
<1>4. CASE Clears
  <2>1. \A r \in Req : call[r].pc = "logout" => call[r].refreshToken \in Token BY <1>a DEF CallsMatch, Presenting
  <2> QED BY <1>d, <1>4, <2>1 DEF Clears, StoreLives, LoggedIn
<1>5. CASE Waits BY <1>a, <1>5 DEF Waits, StoreLives, Presenting, LoggedIn
<1> QED BY <1>1, <1>2, <1>3, <1>4, <1>5 DEF Told

LEMMA StepPaired == ASSUME WebInv, Told, [Next]_vars PROVE StorePaired'
<1> USE DEF WebInv
<1>1. CASE UNCHANGED store
  <2>1. LoggedIn => store.refresh \in Token /\ rt'[store.refresh].user = rt[store.refresh].user
    BY Rows DEF TokensIssued
  <2> QED BY <1>1, <2>1 DEF StorePaired, LoggedIn
<1>2. CASE store' = Cleared BY <1>2 DEF StorePaired, LoggedIn, Cleared
<1>3. ASSUME NEW r \in Req, Turn(r), Takes(r) PROVE StorePaired'
  BY <1>3 DEF Turn, Takes, PairsFresh, StorePaired
<1>4. ASSUME NEW r \in Req, Turn(r), ~Takes(r) PROVE UNCHANGED store \/ store' = Cleared
  BY <1>4 DEF Turn, Quits, Drops, Presents, LogsIn
<1>5. CASE Loads \/ Clears \/ Waits BY <1>1, <1>2, <1>5 DEF Loads, Clears, Waits
<1> QED BY <1>1, <1>2, <1>3, <1>4, <1>5 DEF Told

LEMMA StepSpent == ASSUME WebInv, Told, [Next]_vars PROVE TokensSpent'
<1> USE Slots DEF WebInv
<1> SUFFICES ASSUME NEW r \in Req, call'[r].pc = "refreshing", req'[r].pc = "refused"
             PROVE  ~Usable(call[r].refreshToken)'
  BY DEF TokensSpent
<1>1. call[r].pc = "refreshing" /\ call'[r] = call[r]
  <2>1. ASSUME NEW q \in Req, Turn(q) PROVE q # r
    BY <2>1 DEF Turn, Quits, Drops, Presents, Takes, LogsIn
  <2>2. ~Loads BY DEF Loads
  <2> QED BY <2>1, <2>2 DEF Told, Turn, Clears, Waits
<1> DEFINE t == call[r].refreshToken
<1>2. t \in Token /\ rt[t].status # "none" BY <1>1 DEF Presenting, CallsMatch, TokensIssued
<1>3. ~Usable(t)
  <2>1. CASE req[r].pc = "refused" BY <1>1, <2>1 DEF TokensSpent
  <2>2. CASE req[r].pc # "refused"
    <3>1. ASSUME NEW q \in Req, Turn(q) PROVE FALSE
      BY <1>1, <2>2, <3>1 DEF Turn, Quits, Drops, Presents, Takes, LogsIn
    <3>2. Served(r) BY <2>2, <3>1 DEF Told, Served, Loads, Clears, Waits
    <3>3. req[r].pc = "lookup" /\ ~Usable(req[r].tok)
      BY <1>1, <3>2 DEF Served, Works, Revokes, Inserts, CallsMatch
    <3>4. req[r].tok = t
      BY <1>1, <3>3, AuthAssumption DEF CallsMatch, Presenting, WebTyped, Typed, Equipped
    <3> QED BY <3>3, <3>4
  <2> QED BY <2>1, <2>2
<1> QED BY <1>1, <1>2, <1>3, Rows

LEMMA WebStep == WebInv /\ [Next]_vars => WebInv'
<1> SUFFICES ASSUME WebInv, [Next]_vars PROVE WebInv'
  OBVIOUS
<1>1. Told /\ WebTyped' BY StepTold
<1> QED BY <1>1, StepMatch, StepIssued, StepFresh, StepLives, StepPaired, StepSpent DEF WebInv

THEOREM WebAlways == Spec => []WebInv
BY WebInit, WebStep, PTL DEF Spec

-----------------------------------------------------------------------------
(* What it is for. *)

\* UsesServer: the page is a client as AuthTokens allows them, so all that is
\* proved of the server holds of the two together.
THEOREM PageUsesServer == Spec => UsesServer
<1>1. Init => AuthInit BY DEF Init
<1> QED BY <1>1, StepIsAuth, WebAlways, PTL DEF Spec, UsesServer, AuthSpec

\* LogoutSticks: after a log out no answer brings a token back into the store.
THEOREM LogoutsStick == Spec => []LogoutSticks
<1>1. WebInv => LogoutSticks BY DEF WebInv, WebTyped, TokensIssued, LogoutSticks
<1> QED BY <1>1, WebAlways, PTL

\* PairedTokens: the two tokens in the store belong to one account.
THEOREM StoreHoldsPairs == Spec => []PairedTokens
<1>1. WebInv => PairedTokens BY DEF WebInv, WebTyped, TokensIssued, StorePaired, LogoutSticks, PairedTokens
<1> QED BY <1>1, WebAlways, PTL

\* AtRestTokenLives: when no call is under way the server still takes the
\* refresh token in the store, or a page load cut its exchange off.
THEOREM RestingTokenLives == Spec => []AtRestTokenLives
<1>1. WebInv => AtRestTokenLives BY DEF WebInv, StoreLives, AtRestTokenLives, CallAt, Presenting
<1> QED BY <1>1, WebAlways, PTL

\* LogOutHasCause: the page gives up a usable refresh token unasked only for a call
\* whose own token another call has replaced, or that got no verdict on its token.
THEOREM LogOutsHaveCauses == Spec => LogOutHasCause
<1> DEFINE Caused ==
        LoggedIn /\ Usable(store.refresh) /\ store' = Cleared /\ store.refresh \notin loggedOut'
          => \E r \in Req : /\ CallAt(r, "refreshing") /\ ~CallAt(r, "refreshing")'
                            /\ call[r].refreshToken # store.refresh \/ ~At(r, "refused")
<1>1. WebInv /\ [Next]_vars => [Caused]_vars
  <2> SUFFICES ASSUME WebInv, [Next]_vars, LoggedIn, Usable(store.refresh), store' = Cleared, store.refresh \notin loggedOut'
               PROVE  \E r \in Req : /\ CallAt(r, "refreshing") /\ ~CallAt(r, "refreshing")'
                                     /\ call[r].refreshToken # store.refresh \/ ~At(r, "refused")
    OBVIOUS
  <2>1. store.refresh \in Token /\ store # Cleared BY AuthAssumption DEF WebInv, TokensIssued, LoggedIn, Cleared
  <2>2. ASSUME NEW r \in Req, RefreshFailed(r) \/ RefreshLost(r)
        PROVE  /\ CallAt(r, "refreshing") /\ ~CallAt(r, "refreshing")'
               /\ call[r].refreshToken # store.refresh \/ ~At(r, "refused")
    <3>1. call[r].pc = "refreshing" BY <2>2 DEF RefreshFailed, RefreshLost, CallAt
    <3>2. req[r].pc = "refused" => ~Usable(call[r].refreshToken) BY <3>1 DEF WebInv, TokensSpent
    <3>3. call'[r].pc \in {"idle", "dropped"}
      BY <2>2 DEF RefreshFailed, RefreshLost, Finish, Drop, NoCall, WebInv, WebTyped, WebTypeOK
    <3> QED BY <3>1, <3>2, <3>3 DEF CallAt, At
  <2>3. ASSUME NEW r \in Req, PageStep(r) PROVE RefreshFailed(r) \/ RefreshLost(r)
    <3>1. \A a, b, u : [access |-> a, refresh |-> b, user |-> u] = Cleared => u = NoUser BY DEF Cleared
    <3>2. ~RefreshOk(r) BY <3>1 DEF RefreshOk, LoggedIn
    <3>3. ~LoginOk(r)
      <4>1. CASE LoginOk(r)
        <5>1. req[r].jwt.user \in User
          BY <4>1 DEF LoginOk, CallAt, At, WebInv, PairsFresh, Awaited, Jwt
        <5> QED BY <3>1, <4>1, <5>1, AuthAssumption DEF LoginOk
      <4> QED BY <4>1
    <3>4. ~LogoutSettled(r) /\ ~LogoutLost(r) BY DEF LogoutSettled, LogoutLost, ClearSettled
    <3> QED BY <2>1, <2>3, <3>2, <3>3, <3>4, AuthAssumption
            DEF PageStep, Send, Settle, StartRefresh, NoRefreshToken, RejectRetry, RefreshWithoutUser, SubmitLogin,
                LoginRefused, LoginFailed, LoginLost, LogoutOnProfile, DropAnswer
  <2>4. ~LogoutInHeader BY DEF LogoutInHeader
  <2>5. ~Reload /\ ~UNCHANGED webVars /\ ~UNCHANGED vars BY <2>1 DEF Reload, webVars, vars
  <2> QED BY <2>2, <2>3, <2>4, <2>5, NextSteps
<1> QED BY <1>1, WebAlways, PTL DEF Spec, LogOutHasCause

=============================================================================
