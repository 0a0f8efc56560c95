----------------------------- MODULE WebSession -----------------------------
(***************************************************************************)
(* The clients' side of a session, composed with the server of AuthTokens: *)
(* one store (zustand, mirrored in localStorage) that all calls of the     *)
(* page share, and the axios interceptors that attach the access token,    *)
(* answer a 401 with a refresh and one retry, and give up by clearing the  *)
(* store.  The page's calls overlap; a JavaScript turn is one step.        *)
(*                                                                         *)
(* Slot r of the page uses slot r of the server for its refresh, login and *)
(* logout requests.                                                        *)
(***************************************************************************)
EXTENDS AuthTokens

CONSTANT
    Reloads   \* {TRUE}: the web client, which leaves for /login by a page load;
              \* {FALSE}: the mobile client, which stays; BOOLEAN: either

ASSUME WebAssumption == Reloads \subseteq BOOLEAN /\ Reloads # {}

VARIABLES
    store,     \* access token, refresh token and user of the page
    call,      \* calls of the page
    leaving,   \* a page load of /login has been asked for
    loggedOut, \* history: refresh tokens the user logged out with
    cutOff     \* history: refresh tokens whose exchange a page load cut off

webVars == <<store, call, leaving, loggedOut, cutOff>>
vars == <<authVars, webVars>>

Store == [access: Jwt \cup {NoJwt}, refresh: Token \cup {NoToken}, user: User \cup {NoUser}]
Cleared == [access |-> NoJwt, refresh |-> NoToken, user |-> NoUser]
Call == [pc: {"idle", "sent", "refreshing", "login", "logout", "dropped"},
         header: Jwt \cup {NoJwt},     \* the access token attached
         refreshToken: Token \cup {NoToken},  \* the one that it presents
         retried: BOOLEAN,             \* original._retry
         denied: BOOLEAN]              \* a wrong password: 401 whatever the token
NoCall == [pc |-> "idle", header |-> NoJwt, refreshToken |-> NoToken,
           retried |-> FALSE, denied |-> FALSE]

WebTypeOK ==
    /\ AuthTypeOK
    /\ store \in Store /\ call \in [Req -> Call]
    /\ leaving \in BOOLEAN /\ loggedOut \in SUBSET Token /\ cutOff \in SUBSET Token

Init ==
    /\ AuthInit
    /\ store = Cleared
    /\ call = [r \in Req |-> NoCall]
    /\ leaving = FALSE /\ loggedOut = {} /\ cutOff = {}

CallAt(r, pc) == call[r].pc = pc
Finish(r) == call' = [call EXCEPT ![r] = NoCall]
LoggedIn == store.user # NoUser
\* The server's slot r is free again once the page has its answer.
TakeAnswer(r) == req' = [req EXCEPT ![r] = Idle]
ServerStill == UNCHANGED <<clock, role, lastAdmin, rt, jwts, history>>

\* The page hears of an error, or of no answer in time, and turns to other things;
\* the server may have done, may still do, or never do what it was asked.
NetworkFails == "network" \in Faults
Drop(r) ==
    /\ NetworkFails
    /\ call' = [call EXCEPT ![r] = [NoCall EXCEPT !.pc = "dropped"]]
    /\ UNCHANGED authVars

\* Bound: a request is made only while every busy slot can draw a token.
EnoughTokens ==
    Cardinality({t \in Token : rt[t].status = "none"}) > Cardinality({r \in Req : ~CallAt(r, "idle")})

ClearAuth == store' = Cleared
GiveUp == ClearAuth /\ leaving' \in Reloads

-----------------------------------------------------------------------------
\* The request interceptor attaches what the store holds now.
Send(r) ==
    /\ CallAt(r, "idle") /\ LoggedIn /\ ~leaving /\ EnoughTokens
    /\ call' = [call EXCEPT ![r] = [NoCall EXCEPT !.pc = "sent", !.header = store.access]]
    /\ UNCHANGED <<authVars, store, leaving, loggedOut, cutOff>>

Unauthorized(r) == call[r].denied \/ ~Accepted(call[r].header)

\* Any answer but a 401, or none at all, is passed on.
Settle(r) ==
    /\ CallAt(r, "sent") /\ (NetworkFails \/ ~Unauthorized(r))
    /\ Finish(r)
    /\ UNCHANGED <<authVars, store, leaving, loggedOut, cutOff>>

MayRefresh_Always(r) == CallAt(r, "sent") /\ Unauthorized(r)
MayRefresh(r) == CallAt(r, "sent") /\ Unauthorized(r) /\ ~call[r].retried

StartRefresh_Unchecked(r) ==
    /\ MayRefresh(r)
    /\ Present(r, store.refresh, "lookup")
    /\ call' = [call EXCEPT ![r].pc = "refreshing", ![r].retried = TRUE,
                            ![r].refreshToken = store.refresh]
    /\ UNCHANGED <<store, leaving, loggedOut, cutOff>>

\* 401 for the first time: the refresh token is read from the store and sent.
StartRefresh(r) ==
    /\ MayRefresh(r) /\ store.refresh # NoToken
    /\ Present(r, store.refresh, "lookup")
    /\ call' = [call EXCEPT ![r].pc = "refreshing", ![r].retried = TRUE,
                            ![r].refreshToken = store.refresh]
    /\ UNCHANGED <<store, leaving, loggedOut, cutOff>>

NoRefreshToken(r) ==
    /\ MayRefresh(r) /\ store.refresh = NoToken
    /\ GiveUp /\ Finish(r)
    /\ UNCHANGED <<authVars, loggedOut, cutOff>>

RejectRetry_ClearsStore(r) ==
    /\ CallAt(r, "sent") /\ Unauthorized(r) /\ call[r].retried
    /\ GiveUp /\ Finish(r)
    /\ UNCHANGED <<authVars, loggedOut, cutOff>>

\* A call that waits for the refresh of another one.
RejectRetry_Waits(r) ==
    /\ CallAt(r, "sent") /\ Unauthorized(r) /\ call[r].retried /\ store.refresh = NoToken
    /\ Finish(r)
    /\ UNCHANGED <<authVars, store, leaving, loggedOut, cutOff>>

\* 401 again after the retry: the error is passed on.
RejectRetry(r) ==
    /\ CallAt(r, "sent") /\ Unauthorized(r) /\ call[r].retried
    /\ Finish(r)
    /\ UNCHANGED <<authVars, store, leaving, loggedOut, cutOff>>

RefreshOk_AccessOnly(r) ==
    /\ CallAt(r, "refreshing") /\ At(r, "ok") /\ LoggedIn
    /\ store' = [store EXCEPT !.access = req[r].jwt]
    /\ call' = [call EXCEPT ![r].pc = "sent", ![r].header = req[r].jwt]
    /\ TakeAnswer(r) /\ ServerStill
    /\ UNCHANGED <<leaving, loggedOut, cutOff>>

\* setAccessToken and setAuth in one turn, then the call is sent again.
RefreshOk(r) ==
    /\ CallAt(r, "refreshing") /\ At(r, "ok") /\ LoggedIn
    /\ store' = [access |-> req[r].jwt, refresh |-> req[r].new, user |-> store.user]
    /\ call' = [call EXCEPT ![r].pc = "sent", ![r].header = req[r].jwt]
    /\ TakeAnswer(r) /\ ServerStill
    /\ UNCHANGED <<leaving, loggedOut, cutOff>>

RefreshWithoutUser_KeepsTokens(r) ==
    /\ CallAt(r, "refreshing") /\ At(r, "ok") /\ ~LoggedIn
    /\ store' = [store EXCEPT !.access = req[r].jwt, !.refresh = req[r].new]
    /\ Finish(r) /\ TakeAnswer(r) /\ ServerStill
    /\ UNCHANGED <<leaving, loggedOut, cutOff>>

\* The user has logged out meanwhile: setAuth reads user.role of null and
\* throws, and the catch block clears what was stored.
RefreshWithoutUser(r) ==
    /\ CallAt(r, "refreshing") /\ At(r, "ok") /\ ~LoggedIn
    /\ GiveUp /\ Finish(r) /\ TakeAnswer(r) /\ ServerStill
    /\ UNCHANGED <<loggedOut, cutOff>>

\* Anything but a pair of tokens: log out and leave for /login.  The server
\* answers 401 to a failing statement, too.
RefreshFailed(r) ==
    /\ CallAt(r, "refreshing") /\ (At(r, "refused") \/ At(r, "failed"))
    /\ GiveUp /\ Finish(r) /\ TakeAnswer(r) /\ ServerStill
    /\ UNCHANGED <<loggedOut, cutOff>>

\* The catch block takes an error of the network for a refusal.
RefreshLost(r) ==
    /\ CallAt(r, "refreshing")
    /\ GiveUp /\ Drop(r)
    /\ UNCHANGED <<loggedOut, cutOff>>

-----------------------------------------------------------------------------
\* The login page is open to whoever is logged in, too; its button is disabled
\* while a login is under way.
SubmitLogin(r) ==
    /\ CallAt(r, "idle") /\ ~leaving /\ EnoughTokens
    /\ \A q \in Req : ~CallAt(q, "login")
    /\ BeginLogin(r)
    /\ call' = [call EXCEPT ![r].pc = "login"]
    /\ UNCHANGED <<store, leaving, loggedOut, cutOff>>

LoginOk(r) ==
    /\ CallAt(r, "login") /\ At(r, "ok")
    /\ store' = [access |-> req[r].jwt, refresh |-> req[r].new, user |-> req[r].jwt.user]
    /\ Finish(r) /\ TakeAnswer(r) /\ ServerStill
    /\ UNCHANGED <<leaving, loggedOut, cutOff>>

\* A wrong password is a 401 like any other: the interceptor refreshes and
\* retries, or gives up.
LoginRefused(r) ==
    /\ CallAt(r, "login") /\ At(r, "refused")
    /\ call' = [call EXCEPT ![r].pc = "sent", ![r].denied = TRUE]
    /\ TakeAnswer(r) /\ ServerStill
    /\ UNCHANGED <<store, leaving, loggedOut, cutOff>>

\* A failing statement is a 500: the form shows an error.
LoginFailed(r) ==
    /\ CallAt(r, "login") /\ At(r, "failed")
    /\ Finish(r) /\ TakeAnswer(r) /\ ServerStill
    /\ UNCHANGED <<store, leaving, loggedOut, cutOff>>

LoginLost(r) ==
    /\ CallAt(r, "login") /\ Drop(r)
    /\ UNCHANGED <<store, leaving, loggedOut, cutOff>>

\* Log out in the page header: the server is not told.
LogoutInHeader ==
    /\ LoggedIn
    /\ ClearAuth
    /\ loggedOut' = loggedOut \cup {store.refresh}
    /\ UNCHANGED <<authVars, call, leaving, cutOff>>

\* Log out on the profile page: the server is told, then the store cleared.
LogoutOnProfile(r) ==
    /\ CallAt(r, "idle") /\ LoggedIn /\ ~leaving
    /\ Present(r, store.refresh, "logout")
    /\ call' = [call EXCEPT ![r].pc = "logout", ![r].refreshToken = store.refresh]
    /\ UNCHANGED <<store, leaving, loggedOut, cutOff>>

\* onSettled: the store is cleared whatever became of the call.
ClearSettled ==
    /\ ClearAuth
    /\ loggedOut' = IF LoggedIn THEN loggedOut \cup {store.refresh} ELSE loggedOut
    /\ UNCHANGED <<leaving, cutOff>>
LogoutSettled(r) ==
    /\ CallAt(r, "logout") /\ At(r, "ok")
    /\ ClearSettled /\ Finish(r) /\ TakeAnswer(r) /\ ServerStill
LogoutLost(r) == CallAt(r, "logout") /\ ClearSettled /\ Drop(r)

-----------------------------------------------------------------------------
\* The page load ends every call of the old page; the server's answers to
\* them are dropped.
Reload ==
    /\ leaving
    /\ leaving' = FALSE
    /\ call' = [r \in Req |-> [NoCall EXCEPT !.pc = IF At(r, "idle") THEN "idle" ELSE "dropped"]]
    /\ cutOff' = cutOff \cup {call[r].refreshToken : r \in {q \in Req : CallAt(q, "refreshing")}}
    /\ UNCHANGED <<authVars, store, loggedOut>>

DropAnswer(r) ==
    /\ CallAt(r, "dropped")
    /\ (Answered(r) \/ Break(r)) /\ Finish(r)
    /\ UNCHANGED <<store, leaving, loggedOut, cutOff>>

\* What happens by itself: the server's steps and the page's reactions.
React(r) ==
    \/ Settle(r) \/ StartRefresh(r) \/ NoRefreshToken(r) \/ RejectRetry(r)
    \/ RefreshOk(r) \/ RefreshWithoutUser(r) \/ RefreshFailed(r) \/ RefreshLost(r)
    \/ LoginOk(r) \/ LoginRefused(r) \/ LoginFailed(r) \/ LoginLost(r)
    \/ LogoutSettled(r) \/ LogoutLost(r) \/ DropAnswer(r)
    \/ (Serve(r) /\ UNCHANGED webVars)

Next ==
    \/ \E r \in Req : React(r) \/ Send(r) \/ SubmitLogin(r) \/ LogoutOnProfile(r)
    \/ LogoutInHeader \/ Reload
    \/ (Tick /\ UNCHANGED webVars)

Spec == Init /\ [][Next]_vars
FairSpec == Spec /\ (\A r \in Req : WF_vars(React(r))) /\ WF_vars(Reload)

-----------------------------------------------------------------------------
\* Once the user is logged out no token comes back into the store, not even
\* with the answer of a refresh that was under way (and the state is of its type).
LogoutSticks == WebTypeOK /\ (~LoggedIn => store = Cleared)

\* Both tokens in the store belong to one account, although a refresh that one
\* user started may be answered after another one has logged in; and logouts stick.
PairedTokens == LogoutSticks /\ (LoggedIn => store.access.user = rt[store.refresh].user)

\* When no call is under way, the refresh token in the store is one the server
\* has not revoked: every rotation the server made arrived in the store, in an
\* order that leaves a live one there, unless the page was left for /login while
\* that very token was being exchanged.
AtRestTokenLives ==
    LoggedIn /\ ~leaving /\ (\A r \in Req : CallAt(r, "idle")) =>
        rt[store.refresh].status = "live" \/ store.refresh \in cutOff

\* Without the user's asking, a usable refresh token leaves the store only with
\* a refresh that ends, and not on the server's verdict on that token: another
\* call has put it there in place of the one presented, or the network or a
\* statement failed, which the interceptor takes for a refusal.
LogOutHasCause ==
    [][LoggedIn /\ Usable(store.refresh) /\ store' = Cleared /\ store.refresh \notin loggedOut'
         => \E r \in Req : /\ CallAt(r, "refreshing") /\ ~CallAt(r, "refreshing")'
                           /\ call[r].refreshToken # store.refresh \/ ~At(r, "refused")]_vars

\* The page is one of the clients AuthTokens allows for: it presents only tokens
\* that it was handed, so what the server promises holds of the two together.
UsesServer == AuthSpec

\* Every call is answered or rejected: a 401 is retried once.
CallsSettle == \A r \in Req : ~CallAt(r, "idle") ~> CallAt(r, "idle")

\* docs/api.md: an expired access token is replaced without a new login, so
\* only a logout takes a usable refresh token out of the store.
NoNeedlessLogout ==
    [][LoggedIn /\ Usable(store.refresh) /\ store' = Cleared => store.refresh \in loggedOut']_vars

=============================================================================
