---------------------------- MODULE AccountPages ----------------------------
(***************************************************************************)
(* The shell of the web client: the routes and their guards, the landing   *)
(* page, the forms that log in and register, the two ways to log out and   *)
(* the profile, whose list of images is cached under a key that does not   *)
(* name the user.  Several people use one tab after another, and answers   *)
(* arrive after the page that asked has been left.  How a 401 is answered  *)
(* by a refresh is in WebSession.                                          *)
(* A definition Name_Variant is Name with a plausible bug in it.           *)
(***************************************************************************)
EXTENDS Accounts, QueryCache

CONSTANTS
    AdminAccount,
    Occasion      \* bound: the accounts there are at the beginning, the pages that
                  \* are visited, the passwords typed and the slots for calls

VARIABLES
    occasion,  \* rigid: one of Occasion
    accounts,  \* server
    user,      \* the store: who is logged in, and with it the tokens
    path,      \* the page
    fields, errors, busy,  \* of the form that is shown: what is typed, loading
    mine,      \* cache: the list of the profile; an answer is whose list it is
    asker,     \* whose token went with its fetch
    tagsAsked,  \* the tags of the front page were asked for without a token
    sessionCall,  \* calls under way
    leaving,   \* a page load of /login has been asked for
    intent,    \* history: what was last asked for: an account, or to be logged out
    crossed,   \* history: that was asked while a call of the session was under way
    inherited  \* history: the list shown was asked for by another user

view == <<path, fields, errors, busy>>
fetches == <<mine, asker, tagsAsked, inherited>>
accountVars == <<occasion, accounts, user, view, fetches, sessionCall, leaving, intent, crossed>>

Public == {"landing", "login", "register", "lost"}
Protected == {"gallery", "profile", "admin"}
Path == Public \cup Protected
Blank == [who |-> NoUser, password |-> ""]
NoSessionCall == [kind |-> "idle", who |-> NoUser, good |-> FALSE, pc |-> "idle", here |-> FALSE]

AccountTypeOK ==
    /\ accounts \subseteq Account /\ user \in Account \cup {NoUser}
    /\ path \in Path
    /\ fields \in [who: Account \cup {NoUser}, password: {"", "wrong", "right"}]
    /\ errors \in {"none", "fields", "form"} /\ busy \in BOOLEAN
    /\ mine.data \in Account \cup {NoData} /\ asker \in Account \cup {NoUser}
    /\ \A s \in occasion.slots : /\ sessionCall[s].kind \in {"idle", "login", "register", "logout"}
                       /\ sessionCall[s].pc \in {"idle", "sent", "ok", "refused", "failed"}
    /\ tagsAsked \in BOOLEAN /\ leaving \in BOOLEAN /\ crossed \in BOOLEAN /\ inherited \in BOOLEAN

AccountInit ==
    /\ occasion \in Occasion
    /\ accounts = occasion.registered /\ user = NoUser
    /\ path = "landing" /\ fields = Blank /\ errors = "none" /\ busy = FALSE
    /\ mine = Empty /\ asker = NoUser /\ tagsAsked = TRUE
    /\ sessionCall = [s \in occasion.slots |-> NoSessionCall]
    /\ leaving = FALSE /\ intent = NoUser /\ crossed = FALSE /\ inherited = FALSE

-----------------------------------------------------------------------------
\* ProtectedRoute and AdminRoute: where a path leads for who is logged in.
AdminRoute_Missing(p, u) == p
AdminRoute(p, u) == IF p = "admin" /\ u # AdminAccount THEN "gallery" ELSE p
ProtectedRoute(p, u) == IF p \in Protected /\ u = NoUser THEN "login" ELSE AdminRoute(p, u)

\* The profile asks for its list whenever it is mounted, the front page for the
\* tags, which are for users only.
Mount_Cached(p, u) ==
    /\ IF p = "profile" /\ mine.data = NoData /\ Resting(mine)
       THEN mine' = Observed(mine) /\ asker' = u /\ inherited' = FALSE
       ELSE UNCHANGED <<mine, asker, inherited>>
    /\ tagsAsked' = (tagsAsked \/ (p = "landing" /\ u = NoUser))
Mount(p, u) ==
    /\ IF p = "profile"
       THEN /\ mine' = Observed(mine)
            /\ asker' = IF Resting(mine) THEN u ELSE asker
            /\ inherited' = (~Resting(mine) /\ asker # u)
       ELSE UNCHANGED <<mine, asker, inherited>>
    /\ tagsAsked' = (tagsAsked \/ (p = "landing" /\ u = NoUser))

\* The path is p and the user u: the page of the route is mounted, unless it is
\* the one that is shown, and a page that is left takes its form with it.
Route(p, u, ops) ==
    LET q == ProtectedRoute(p, u) IN
    /\ user' = u
    /\ path' = q
    /\ IF q = path
       THEN sessionCall' = ops /\ UNCHANGED fetches
       ELSE sessionCall' = [s \in occasion.slots |-> [ops[s] EXCEPT !.here = FALSE]] /\ Mount(q, u)
Stays(p, u) == ProtectedRoute(p, u) = path
FreshForm == fields' = Blank /\ errors' = "none" /\ busy' = FALSE

\* The links and buttons of a page.
HomeLinks == IF user = NoUser THEN {"login", "register"} ELSE {"gallery"}   \* LandingPage
Menu == {"gallery", "profile"} \cup (IF user = AdminAccount THEN {"admin"} ELSE {})  \* AppLayout
Links ==
    CASE path = "landing" -> HomeLinks
      [] path \in {"login", "register"} -> {"login", "register"}
      [] path = "lost" -> {"landing"}
      [] path = "profile" -> {"gallery"}
      [] path = "gallery" -> {"profile", "landing"}
      [] path = "admin" -> Menu
Follow(p) ==
    /\ ~leaving /\ p \in Links /\ p # path
    /\ Route(p, user, sessionCall) /\ FreshForm
    /\ UNCHANGED <<accounts, leaving, intent, crossed>>
\* The history of the browser leads to any page.
Navigate(p) ==
    /\ ~leaving /\ ~Stays(p, user)
    /\ Route(p, user, sessionCall) /\ FreshForm
    /\ UNCHANGED <<accounts, leaving, intent, crossed>>

\* A call of the session is under way.
UnderWay == \E s \in occasion.slots : sessionCall[s].kind \in {"login", "logout"}

\* A page load (the link to the front page on the forms, or window.location):
\* the store is read back, all else begins anew and no answer arrives any more.
PageLoad(p) ==
    /\ path' = ProtectedRoute(p, user) /\ FreshForm
    /\ sessionCall' = [s \in occasion.slots |-> NoSessionCall]
    /\ mine' = (IF path' = "profile" THEN Observed(Empty) ELSE Empty)
    /\ asker' = (IF path' = "profile" THEN user ELSE NoUser)
    /\ tagsAsked' = (path' = "landing" /\ user = NoUser)
    /\ leaving' = FALSE /\ inherited' = FALSE
    /\ crossed' = (crossed \/ UnderWay)
    /\ intent' = IF UnderWay THEN NoUser ELSE intent
    /\ UNCHANGED <<accounts, user>>
ReloadPage == PageLoad(IF leaving THEN "login" ELSE path)
GoHome == ~leaving /\ path \in {"login", "register"} /\ PageLoad("landing")

-----------------------------------------------------------------------------
Ask(s, kind, who, good) ==
    /\ ~leaving /\ sessionCall[s] = NoSessionCall
    /\ sessionCall' = [sessionCall EXCEPT ![s] = [kind |-> kind, who |-> who, good |-> good,
                                pc |-> "sent", here |-> TRUE]]
Want(who) == crossed' = UnderWay /\ intent' = IF UnderWay THEN NoUser ELSE who

\* Bound: a form is filled once.
TypeForm(f) ==
    /\ path \in {"login", "register"} /\ ~leaving /\ fields = Blank
    /\ fields' = f
    /\ UNCHANGED <<accounts, user, path, errors, busy, fetches, sessionCall, leaving, intent, crossed>>

\* validate, and setErrors with what it found.
Valid == fields.who # NoUser /\ fields.password # ""
\* handleSubmit up to its await; the button is disabled while busy.
SubmitForm(s) ==
    /\ path \in {"login", "register"} /\ ~busy /\ ~leaving
    /\ IF Valid
       THEN /\ Ask(s, path, fields.who, fields.password = "right")
            /\ errors' = "none" /\ busy' = TRUE
            /\ IF path = "login" THEN Want(fields.who) ELSE UNCHANGED <<intent, crossed>>
       ELSE errors' = "fields" /\ UNCHANGED <<busy, sessionCall, intent, crossed>>
    /\ UNCHANGED <<accounts, user, path, fields, fetches, leaving>>

\* Log out on the profile; in the header of the admin pages, at once and
\* without a call.
LogoutOnProfile(s) ==
    /\ path = "profile" /\ Ask(s, "logout", user, TRUE)
    /\ Want(NoUser)
    /\ UNCHANGED <<accounts, user, view, fetches, leaving>>
HandleLogout ==
    /\ path = "admin" /\ ~leaving
    /\ Route("login", NoUser, sessionCall) /\ FreshForm /\ Want(NoUser)
    /\ UNCHANGED <<accounts, leaving>>

-----------------------------------------------------------------------------
\* The server, or the network when it fails.
Work(s) ==
    /\ sessionCall[s].pc = "sent"
    /\ \/ /\ sessionCall[s].kind = "login"
          /\ sessionCall' = [sessionCall EXCEPT ![s].pc =
                      IF sessionCall[s].who \in accounts /\ sessionCall[s].good THEN "ok" ELSE "refused"]
          /\ UNCHANGED accounts
       \/ /\ sessionCall[s].kind = "register"
          /\ sessionCall' = [sessionCall EXCEPT ![s].pc = IF sessionCall[s].who \in accounts THEN "refused" ELSE "ok"]
          /\ accounts' = accounts \cup {sessionCall[s].who}
       \/ /\ sessionCall[s].kind = "logout"
          /\ sessionCall' = [sessionCall EXCEPT ![s].pc = "ok"] /\ UNCHANGED accounts
    /\ UNCHANGED <<user, view, fetches, leaving, intent, crossed>>
NoAnswer(s) ==
    /\ sessionCall[s].pc \in {"sent", "ok"}
    /\ sessionCall' = [sessionCall EXCEPT ![s].pc = "failed"]
    /\ UNCHANGED <<accounts, user, view, fetches, leaving, intent, crossed>>

Without(s) == [sessionCall EXCEPT ![s] = NoSessionCall]
\* finally: loading ends, and the form stays when the page does.
Settled(s, p, u) ==
    /\ Route(p, u, Without(s))
    /\ IF Stays(p, u)
       THEN busy' = (busy /\ ~sessionCall[s].here) /\ UNCHANGED <<fields, errors>>
       ELSE FreshForm
\* setAuth, then to the gallery, on whichever page the user is by now.
HasLoggedIn(s) ==
    /\ sessionCall[s].kind = "login" /\ sessionCall[s].pc = "ok"
    /\ Settled(s, "gallery", sessionCall[s].who)
    /\ UNCHANGED <<accounts, leaving, intent, crossed>>
HasRegistered(s) ==
    /\ sessionCall[s].kind = "register" /\ sessionCall[s].pc = "ok"
    /\ Settled(s, "login", user)
    /\ UNCHANGED <<accounts, leaving, intent, crossed>>
\* A refused login is a 401: whoever is not logged in is sent to /login by a
\* page load, which takes the message away.
Rejected_StaysBusy(s) ==
    /\ sessionCall[s].kind \in {"login", "register"} /\ sessionCall[s].pc \in {"refused", "failed"}
    /\ errors' = IF sessionCall[s].here THEN "form" ELSE errors
    /\ leaving' = (leaving \/ (sessionCall[s].kind = "login" /\ sessionCall[s].pc = "refused" /\ user = NoUser))
    /\ intent' = IF sessionCall[s].kind = "login" /\ ~crossed THEN user ELSE intent
    /\ sessionCall' = Without(s)
    /\ UNCHANGED <<accounts, user, path, fields, busy, fetches, crossed>>
Rejected(s) ==
    /\ sessionCall[s].kind \in {"login", "register"} /\ sessionCall[s].pc \in {"refused", "failed"}
    /\ errors' = IF sessionCall[s].here THEN "form" ELSE errors
    /\ busy' = (busy /\ ~sessionCall[s].here)
    /\ leaving' = (leaving \/ (sessionCall[s].kind = "login" /\ sessionCall[s].pc = "refused" /\ user = NoUser))
    /\ intent' = IF sessionCall[s].kind = "login" /\ ~crossed THEN user ELSE intent
    /\ sessionCall' = Without(s)
    /\ UNCHANGED <<accounts, user, path, fields, fetches, crossed>>
\* logoutMutation, onSettled: whoever is logged in by now is logged out.
LogoutSettled_OnSuccess(s) ==
    /\ sessionCall[s].kind = "logout" /\ sessionCall[s].pc \in {"ok", "failed"}
    /\ IF sessionCall[s].pc = "ok" THEN Settled(s, "login", NoUser) ELSE Settled(s, path, user)
    /\ UNCHANGED <<accounts, leaving, intent, crossed>>
LogoutSettled(s) ==
    /\ sessionCall[s].kind = "logout" /\ sessionCall[s].pc \in {"ok", "failed"}
    /\ Settled(s, "login", NoUser)
    /\ UNCHANGED <<accounts, leaving, intent, crossed>>

ServeMine ==
    /\ mine.flight = "asked" /\ mine' = Served(mine, asker)
    /\ UNCHANGED <<accounts, user, view, asker, tagsAsked, sessionCall, leaving, intent, crossed, inherited>>
LandMine ==
    /\ Aged(mine) /\ mine' = Landed(mine) /\ asker' = NoUser
    /\ UNCHANGED <<accounts, user, view, tagsAsked, sessionCall, leaving, intent, crossed, inherited>>
\* The list of before stays, whoever it belongs to.
FetchFails ==
    /\ mine.flight = "asked" /\ mine' = Failed(mine) /\ asker' = NoUser
    /\ inherited' = (inherited \/ mine.data \notin {user, NoData})
    /\ UNCHANGED <<accounts, user, view, tagsAsked, sessionCall, leaving, intent, crossed>>
\* A 401: whoever is not logged in by now is sent to /login, from any page; for
\* the others the interceptor asks again.
RefuseTags_Ignored ==
    /\ tagsAsked /\ tagsAsked' = FALSE
    /\ UNCHANGED <<accounts, user, view, mine, asker, sessionCall, leaving, intent, crossed, inherited>>
RefuseTags ==
    /\ tagsAsked /\ tagsAsked' = FALSE
    /\ leaving' = (leaving \/ user = NoUser)
    /\ UNCHANGED <<accounts, user, view, mine, asker, sessionCall, intent, crossed, inherited>>

Filled == [who: Account, password: occasion.passwords]
AccountNext ==
    /\ \/ \E p \in occasion.paths : Follow(p) \/ Navigate(p)
       \/ ReloadPage \/ GoHome \/ HandleLogout
       \/ \E f \in Filled : TypeForm(f)
       \/ \E s \in occasion.slots :
             \/ SubmitForm(s) \/ LogoutOnProfile(s)
             \/ Work(s) \/ NoAnswer(s)
             \/ HasLoggedIn(s) \/ HasRegistered(s) \/ Rejected(s) \/ LogoutSettled(s)
       \/ ServeMine \/ LandMine \/ FetchFails \/ RefuseTags
    /\ UNCHANGED occasion
AccountSpec == AccountInit /\ [][AccountNext]_accountVars

-----------------------------------------------------------------------------
\* The front page is for users: once the answer about its tags is there, a visitor
\* is on the way to the login form (LandingPage.tsx:208-211, router.go:108-110,
\* client.ts:50-54).
FrontPageNeedsUser == path = "landing" /\ ~tagsAsked /\ ~leaving => user # NoUser

\* A page behind a guard is never shown to somebody it is not for, whatever
\* late answer changed the session (ProtectedRoute.tsx, AdminRoute.tsx).
GuardsHold ==
    /\ path \in Protected => user # NoUser
    /\ path = "admin" => user = AdminAccount

\* The profile at rest lists the images of whoever is logged in, though the key
\* of the list does not name them: only the fetch of a predecessor that is still
\* under way, or a fetch that fails, leaves the list of another
\* (ProfilePage.tsx:111-114).
OwnListShown ==
    path = "profile" /\ Resting(mine) /\ ~inherited => mine.data \in {user, NoData}

\* Once all is answered the session is what was asked for last, except where
\* logins and logouts overlapped: then the last answer decides, and a logout
\* takes with it whoever has logged in meanwhile (AuthPage.tsx:144-160,
\* ProfilePage.tsx:120-129).
SessionAsAsked == ~crossed /\ ~UnderWay => user = intent

\* The form waits exactly while the submission of this very form is under way,
\* however it ends (AuthPage.tsx:144-160, :226-240).
BusyTellsSubmission == busy <=> \E s \in occasion.slots : sessionCall[s].here /\ sessionCall[s].kind \in {"login", "register"}

\* Guards, front page, session, form and list hold together, through late answers,
\* page loads and accounts that follow one another in one tab (App.tsx:36-66,
\* AuthPage.tsx:144-160, ProfilePage.tsx:111-129).
AccountsHold ==
    /\ GuardsHold /\ FrontPageNeedsUser /\ SessionAsAsked
    /\ BusyTellsSubmission /\ OwnListShown

=============================================================================
