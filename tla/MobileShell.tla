---------------------------- MODULE MobileShell -----------------------------
(***************************************************************************)
(* The shell of the mobile app: the session in memory and its copy in      *)
(* AsyncStorage, whose writes nobody waits for; the root stack of screens, *)
(* on which navigate puts another screen unless it is the top one; and the *)
(* two effects and the timer that follow the session.  The process may be  *)
(* killed at any time, and is started again.                               *)
(* A definition Name_Variant is Name with a plausible bug in it.           *)
(***************************************************************************)
EXTENDS Accounts, Integers, Sequences, SequencesExt

CONSTANTS
    Line,          \* bound: calls under way
    MaxDepth,      \* bound: the root stack
    MaxWrites,     \* bound: writes that AsyncStorage has still to do
    MaxKills       \* bound: kills of the process

VARIABLES
    isLoading,   \* nothing is rendered before hydrate is done
    holder,      \* the store: who is logged in, and with it the tokens
    disk, writes,  \* AsyncStorage, and the writes it has still to do
    stack,       \* the root stack, the screen shown last; empty while loading
    timer,       \* the timeout of 50 ms is running
    phoneCall,   \* calls under way
    kills,
    wanted,      \* history: what was last asked for: an account, or to be logged out
    overlapped,  \* history: that was asked while a call of the session was under way
    forgotten,   \* history: a write died with its process
    wentBack     \* history: the tabs are shown because somebody logged out went back

app == <<isLoading, stack, timer, wentBack>>
store == <<holder, disk, writes>>
shellVars == <<app, store, phoneCall, kills, wanted, overlapped, forgotten>>

Who == Account \cup {NoUser}
Screen == {"Landing", "Login", "Register", "MainTabs"}
NoPhoneCall == [kind |-> "idle", who |-> NoUser]

ShellTypeOK ==
    /\ isLoading \in BOOLEAN /\ holder \in Who /\ disk \in Who /\ writes \in Seq(Who)
    /\ stack \in Seq(Screen) /\ Len(stack) <= MaxDepth /\ (isLoading <=> stack = <<>>)
    /\ timer \in BOOLEAN /\ kills \in 0..MaxKills /\ wanted \in Who
    /\ \A s \in Line : phoneCall[s].kind \in {"idle", "login", "register", "logout"}
    /\ overlapped \in BOOLEAN /\ forgotten \in BOOLEAN /\ wentBack \in BOOLEAN

ShellInit ==
    /\ isLoading = TRUE /\ holder = NoUser /\ disk = NoUser /\ writes = <<>>
    /\ stack = <<>> /\ timer = FALSE
    /\ phoneCall = [s \in Line |-> NoPhoneCall] /\ kills = 0
    /\ wanted = NoUser /\ overlapped = FALSE /\ forgotten = FALSE /\ wentBack = FALSE

Top == IF stack = <<>> THEN "nothing" ELSE Last(stack)
\* navigation.navigate of the root stack.
NavigateTo(st, screen) == IF Last(st) = screen THEN st ELSE Append(st, screen)

\* MainTabs, mounted or told of a logout, leads to the front page.
GuardTabs_OnLogout(st, before, u) ==
    IF u = NoUser /\ before # NoUser /\ "MainTabs" \in ToSet(st) THEN NavigateTo(st, "Landing") ELSE st
GuardTabs(st, before, u) ==
    IF u = NoUser /\ (before # NoUser \/ Last(st) = "MainTabs") /\ "MainTabs" \in ToSet(st)
    THEN NavigateTo(st, "Landing") ELSE st

-----------------------------------------------------------------------------
\* hydrate, and the first rendering: the front page, whoever is logged in.
Hydrate ==
    /\ isLoading /\ writes = <<>>
    /\ isLoading' = FALSE /\ holder' = disk /\ stack' = <<"Landing">>
    /\ UNCHANGED <<disk, writes, timer, phoneCall, kills, wanted, overlapped, forgotten, wentBack>>
\* The process is killed; the system starts it again.
Kill ==
    /\ ~isLoading /\ kills < MaxKills /\ kills' = kills + 1
    /\ isLoading' = TRUE /\ holder' = NoUser /\ stack' = <<>> /\ timer' = FALSE
    /\ phoneCall' = [s \in Line |-> NoPhoneCall]
    /\ \E n \in 0..Len(writes) :
          /\ writes' = SubSeq(writes, 1, n)
          /\ forgotten' = (forgotten \/ n < Len(writes))
    /\ overlapped' = (overlapped \/ \E s \in Line : phoneCall[s].kind # "idle")
    /\ wentBack' = FALSE /\ UNCHANGED <<disk, wanted>>
\* setItem and removeItem are done in order, some time later.
Persist ==
    /\ writes # <<>> /\ disk' = Head(writes) /\ writes' = Tail(writes)
    /\ UNCHANGED <<app, holder, phoneCall, kills, wanted, overlapped, forgotten>>

\* setAuth and clearAuth, with the effects of the rendering that follows; the
\* handler itself has brought the stack to st.
SetUser_MemoryOnly(u, st) ==
    /\ holder' = u /\ UNCHANGED <<disk, writes>>
    /\ timer' = (timer \/ (holder = NoUser /\ u # NoUser))
    /\ stack' = GuardTabs(st, holder, u)
    /\ wentBack' = (wentBack /\ u = NoUser /\ stack' = stack)
    /\ UNCHANGED <<isLoading, kills, forgotten>>
SetUser(u, st) ==
    /\ holder' = u /\ writes' = Append(writes, u) /\ UNCHANGED disk
    /\ timer' = (timer \/ (holder = NoUser /\ u # NoUser))
    /\ stack' = GuardTabs(st, holder, u)
    /\ wentBack' = (wentBack /\ u = NoUser /\ stack' = stack)
    /\ UNCHANGED <<isLoading, kills, forgotten>>

\* RootNavigator: to the tabs, whatever became of the session meanwhile.
TimerFires ==
    /\ timer /\ timer' = FALSE
    /\ stack' = GuardTabs(NavigateTo(stack, "MainTabs"), holder, holder)
    /\ wentBack' = FALSE
    /\ UNCHANGED <<isLoading, store, phoneCall, kills, wanted, overlapped, forgotten>>

-----------------------------------------------------------------------------
\* The links: an image of the front page leads to the tabs, or to the login.
ScreenLinks ==
    CASE Top = "Landing" -> {"Login", "Register", IF holder = NoUser THEN "Login" ELSE "MainTabs"}
      [] Top = "Login" -> {"Register"}
      [] OTHER -> {}
TapLink(screen) ==
    /\ screen \in ScreenLinks
    /\ stack' = NavigateTo(stack, screen) /\ wentBack' = FALSE
    /\ UNCHANGED <<isLoading, timer, store, phoneCall, kills, wanted, overlapped, forgotten>>
\* The button in the header, the gesture, or the link of the registration.
GoBack ==
    /\ Len(stack) > 1 /\ stack' = Front(stack)
    /\ wentBack' = (holder = NoUser /\ Last(stack') = "MainTabs")
    /\ UNCHANGED <<isLoading, timer, store, phoneCall, kills, wanted, overlapped, forgotten>>

PhoneCalls == \E s \in Line : phoneCall[s].kind \in {"login", "logout"}
PhoneWants(u) == overlapped' = PhoneCalls /\ wanted' = IF PhoneCalls THEN NoUser ELSE u
Dial(s, kind, u) ==
    /\ phoneCall[s] = NoPhoneCall /\ phoneCall' = [phoneCall EXCEPT ![s] = [kind |-> kind, who |-> u]]
    /\ UNCHANGED <<app, store, kills, forgotten>>

\* The buttons of the two forms wait for their calls.
\* Bound: also another form of the same kind does, on the stack or popped off it.
SendLogin(s, u) ==
    /\ Top = "Login" /\ (\A r \in Line : phoneCall[r].kind # "login")
    /\ Dial(s, "login", u) /\ PhoneWants(u)
SendRegister(s) ==
    /\ Top = "Register" /\ (\A r \in Line : phoneCall[r].kind # "register")
    /\ Dial(s, "register", NoUser) /\ UNCHANGED <<wanted, overlapped>>
\* handleLogout of the profile, which waits for the server first.
TapLogout(s) ==
    /\ Top = "MainTabs" /\ Dial(s, "logout", NoUser) /\ PhoneWants(NoUser)

Done(s) == phoneCall' = [phoneCall EXCEPT ![s] = NoPhoneCall]
PhoneLoggedIn(s) ==
    /\ phoneCall[s].kind = "login" /\ Done(s) /\ SetUser(phoneCall[s].who, stack)
    /\ UNCHANGED <<wanted, overlapped>>
\* Onwards to the login, from whichever screen is shown by now.
PhoneRegistered(s) ==
    /\ phoneCall[s].kind = "register" /\ Done(s)
    /\ stack' = NavigateTo(stack, "Login") /\ wentBack' = FALSE
    /\ UNCHANGED <<isLoading, timer, store, kills, wanted, overlapped, forgotten>>
\* The message is shown until something is typed.
PhoneRejected(s) ==
    /\ phoneCall[s].kind \in {"login", "register"} /\ Done(s)
    /\ wanted' = IF phoneCall[s].kind = "login" /\ ~overlapped THEN holder ELSE wanted
    /\ UNCHANGED <<app, store, kills, overlapped, forgotten>>
\* Answered or not.
PhoneLoggedOut_StaysOnError(s) ==
    /\ phoneCall[s].kind = "logout" /\ Done(s)
    /\ \/ SetUser(NoUser, NavigateTo(stack, "Landing"))
       \/ UNCHANGED <<app, store, kills, forgotten>>
    /\ UNCHANGED <<wanted, overlapped>>
PhoneLoggedOut(s) ==
    /\ phoneCall[s].kind = "logout" /\ Done(s)
    /\ SetUser(NoUser, NavigateTo(stack, "Landing"))
    /\ UNCHANGED <<wanted, overlapped>>

ShellNext ==
    /\ \/ Hydrate \/ Kill \/ Persist \/ TimerFires \/ GoBack
       \/ \E screen \in Screen : TapLink(screen)
       \/ \E s \in Line :
             \/ \E u \in Account : SendLogin(s, u)
             \/ SendRegister(s) \/ TapLogout(s)
             \/ PhoneLoggedIn(s) \/ PhoneRegistered(s) \/ PhoneRejected(s) \/ PhoneLoggedOut(s)
    /\ Len(stack') <= MaxDepth /\ Len(writes') <= MaxWrites
ShellSpec == ShellInit /\ [][ShellNext]_shellVars

-----------------------------------------------------------------------------
\* The tabs are shown to nobody who is logged out, though the timer may fire
\* after a logout; but the way back from the front page leads to them
\* (RootNavigator.tsx:43-47, :85-92).
TabsNeedLogin == Top = "MainTabs" => holder # NoUser \/ wentBack

\* Once all is answered and written, the session, also that of a process
\* started anew, is the one last asked for, unless logins and logouts
\* overlapped or a process was killed before its write was done
\* (store/authStore.ts:29-56).
SessionKept ==
    ~isLoading /\ ~PhoneCalls /\ ~overlapped /\ ~forgotten => holder = wanted

\* The tabs and the session of the phone, through late answers, the timer, the way
\* back and processes that are killed (RootNavigator.tsx:34-92,
\* store/authStore.ts:29-56).
ShellHolds == TabsNeedLogin /\ SessionKept

=============================================================================
