------------------------------ MODULE TwoTabs -------------------------------
(***************************************************************************)
(* Several tabs of the web client over one localStorage.  A tab reads it   *)
(* when it is loaded and writes it whenever its own session changes; it    *)
(* never hears of what another tab has written.  The server exchanges a    *)
(* refresh token once.  A pair is an access token and the refresh token    *)
(* handed out with it; the calls within one tab are in WebSession.         *)
(* A definition Name_Variant is Name with a plausible bug in it.           *)
(***************************************************************************)
EXTENDS Accounts, Integers, Sequences

CONSTANTS
    Tab,
    MaxPair,       \* bound: pairs handed out; 0 is none
    MaxLost        \* bound: answers lost

VARIABLES
    owner,     \* server: whose pair it is, in the order they were handed out
    live,      \* server: pairs whose refresh token was neither exchanged nor revoked
    storage,   \* localStorage
    tab,       \* the store of each tab
    request,   \* the call each tab has under way
    lost,      \* number of answers lost
    undone,    \* history: pairs exchanged or revoked, and by which tab
    orphaned,  \* history: pairs exchanged for one that no tab has kept
    mixed      \* history: pairs kept beside a user who logged in while they were
               \* asked for, and those they were exchanged for

tokens == <<owner, live>>
tabVars == <<tokens, storage, tab, request, lost, undone, orphaned, mixed>>

Pair == 1..MaxPair
Session == [pair: 0..MaxPair, user: Account \cup {NoUser}]
None == [pair |-> 0, user |-> NoUser]
\* The call of a tab: the pair it has sent, and the one that is answered.
NoRequest == [pc |-> "idle", from |-> 0, pair |-> 0]
LoggedIn(t) == tab[t] # None

TabsTypeOK ==
    /\ owner \in Seq(Account) /\ Len(owner) <= MaxPair
    /\ live \subseteq DOMAIN owner
    /\ storage \in Session /\ tab \in [Tab -> Session]
    /\ \A t \in Tab : request[t].pc \in {"idle", "refresh", "ok", "refused"}
    /\ undone \subseteq Pair \X Tab /\ orphaned \cup mixed \subseteq Pair /\ lost \in 0..MaxLost

TabsInit ==
    /\ owner = <<>> /\ live = {}
    /\ storage = None /\ tab = [t \in Tab |-> None]
    /\ request = [t \in Tab |-> NoRequest]
    /\ lost = 0 /\ undone = {} /\ orphaned = {} /\ mixed = {}

\* setAuth and clearAuth: the store of the tab and, in the same turn, the storage.
SetAuth(t, s) == tab' = [tab EXCEPT ![t] = s] /\ storage' = s
ClearAuth(t) == SetAuth(t, None)
\* getStored, when the page is loaded.
GetStored(t, stored) == tab' = [tab EXCEPT ![t] = stored]

NextPair == Len(owner) + 1
HandOut(u) == NextPair \in Pair /\ owner' = Append(owner, u)

-----------------------------------------------------------------------------
\* The pair that is exchanged for an answer which does not arrive.
Unanswered(t) == IF request[t].pc = "ok" THEN {request[t].from} ELSE {}

Reload(t) ==
    /\ GetStored(t, storage) /\ request' = [request EXCEPT ![t] = NoRequest]
    /\ orphaned' = orphaned \cup Unanswered(t)
    /\ UNCHANGED <<tokens, storage, lost, undone, mixed>>

\* A login, from its form: two steps of the server and the page in one.  A refresh
\* of the tab may be under way, since before the logout.
Login(t, u) ==
    /\ ~LoggedIn(t)
    /\ HandOut(u) /\ live' = live \cup {NextPair}
    /\ SetAuth(t, [pair |-> NextPair, user |-> u])
    /\ UNCHANGED <<request, lost, undone, orphaned, mixed>>
\* The profile revokes the refresh token, the header of the admin pages does not.
Logout(t, revokes) ==
    /\ LoggedIn(t)
    /\ IF revokes THEN live' = live \ {tab[t].pair} /\ undone' = undone \cup {<<tab[t].pair, t>>}
       ELSE UNCHANGED <<live, undone>>
    /\ ClearAuth(t)
    /\ UNCHANGED <<owner, request, lost, orphaned, mixed>>
\* A 401 in a tab without a token clears the storage of all of them.
NoToken(t) ==
    /\ ~LoggedIn(t) /\ ClearAuth(t)
    /\ UNCHANGED <<tokens, request, lost, undone, orphaned, mixed>>

\* The access token has expired: a request is answered 401, and the refresh
\* token of the pair is sent.  It may have expired at any time.
\* Bound: one refresh of a tab at a time.
AskRefresh(t) ==
    /\ LoggedIn(t) /\ request[t] = NoRequest
    /\ request' = [request EXCEPT ![t] = [pc |-> "refresh", from |-> tab[t].pair, pair |-> 0]]
    /\ UNCHANGED <<tokens, storage, tab, lost, undone, orphaned, mixed>>
\* Refresh: the token is exchanged once.
Exchange(t) ==
    /\ request[t].pc = "refresh"
    /\ IF request[t].from \in live
       THEN /\ HandOut(owner[request[t].from])
            /\ live' = (live \ {request[t].from}) \cup {NextPair}
            /\ undone' = undone \cup {<<request[t].from, t>>}
            /\ request' = [request EXCEPT ![t].pc = "ok", ![t].pair = NextPair]
       ELSE /\ request' = [request EXCEPT ![t].pc = "refused"]
            /\ UNCHANGED <<owner, live, undone>>
    /\ UNCHANGED <<storage, tab, lost, orphaned, mixed>>

\* The tokens of the answer, beside the user the tab has by now.
RefreshOk_AccessOnly(t) ==
    /\ request[t].pc = "ok" /\ request' = [request EXCEPT ![t] = NoRequest]
    /\ UNCHANGED <<tokens, storage, tab, lost, undone, orphaned, mixed>>
RefreshOk_StoredUser(t) ==
    /\ request[t].pc = "ok" /\ LoggedIn(t)
    /\ SetAuth(t, [pair |-> request[t].pair, user |-> storage.user])
    /\ request' = [request EXCEPT ![t] = NoRequest]
    /\ UNCHANGED <<tokens, lost, undone, orphaned, mixed>>
RefreshOk(t) ==
    /\ request[t].pc = "ok" /\ LoggedIn(t)
    /\ SetAuth(t, [pair |-> request[t].pair, user |-> tab[t].user])
    /\ mixed' = IF tab[t].pair # request[t].from \/ request[t].from \in mixed
                THEN mixed \cup {request[t].pair} ELSE mixed
    /\ request' = [request EXCEPT ![t] = NoRequest]
    /\ UNCHANGED <<tokens, lost, undone, orphaned>>
\* The catch block: the storage of all tabs is cleared, and this one loaded anew.
\* An answer for a tab that has logged out ends here as well: setAuth throws for
\* the user that is missing.
RefreshFailed(t) ==
    /\ request[t].pc = "refused" \/ (request[t].pc = "ok" /\ ~LoggedIn(t))
    /\ request' = [request EXCEPT ![t] = NoRequest]
    /\ orphaned' = orphaned \cup Unanswered(t)
    /\ ClearAuth(t)
    /\ UNCHANGED <<tokens, lost, undone, mixed>>
\* The call fails without a verdict, before the server's exchange or after it.
LoseRefresh(t) ==
    /\ request[t].pc \in {"refresh", "ok"} /\ lost < MaxLost /\ lost' = lost + 1
    /\ request' = [request EXCEPT ![t].pc = "refused"]
    /\ orphaned' = orphaned \cup Unanswered(t)
    /\ UNCHANGED <<tokens, storage, tab, undone, mixed>>

TabsNext ==
    \E t \in Tab :
        \/ Reload(t) \/ AskRefresh(t) \/ Exchange(t) \/ RefreshOk(t)
        \/ RefreshFailed(t) \/ LoseRefresh(t) \/ NoToken(t)
        \/ \E u \in Account : Login(t, u)
        \/ \E revokes \in BOOLEAN : Logout(t, revokes)
TabsSpec == TabsInit /\ [][TabsNext]_tabVars

-----------------------------------------------------------------------------
\* The tokens in the storage are usable, whichever tabs have written them, but
\* while the answer that replaces them is on its way to a tab, or was lost on
\* that way (authStore.ts:27, client.ts:37-41).
StoredTokenLives ==
    storage # None /\ storage.pair \notin live =>
        storage.pair \in orphaned \/ \E t \in Tab : request[t].pc = "ok" /\ request[t].from = storage.pair

\* A tab at rest loses its refresh token only to another tab, which has
\* exchanged or revoked the token they share, or with a lost answer
\* (authStore.ts:36-43).
LostToAnotherTab ==
    \A t \in Tab :
        LoggedIn(t) /\ request[t] = NoRequest /\ tab[t].pair \notin live =>
            \/ \E u \in Tab \ {t} : <<tab[t].pair, u>> \in undone
            \/ tab[t].pair \in orphaned

\* Whatever the tabs write over one another, the tokens they keep and store
\* belong to the user beside them, but for those a tab was answered after another
\* login in it: that user is stored beside the tokens of the one before, and
\* beside all they are exchanged for (client.ts:37-41, authStore.ts:45-50).
TokensOfTheirUser ==
    \A s \in {storage} \cup {tab[t] : t \in Tab} : s # None => owner[s.pair] = s.user \/ s.pair \in mixed

\* All of it: the tabs agree on the tokens as far as they can without hearing of each other.
TabsAgree == StoredTokenLives /\ LostToAnotherTab /\ TokensOfTheirUser

=============================================================================
