------------------------------- MODULE MCPages -------------------------------
(***************************************************************************)
(* The pages of the web client, the screens of the mobile app and the      *)
(* monitor, in one run.  They share nothing, so a behaviour is a visit to  *)
(* one of them, while the others stay blank.  The modules it extends are   *)
(* those that are also proved about; the figures are here only.            *)
(***************************************************************************)
EXTENDS Comments, TwoTabs, MobileUpload, AccountPages, MobileShell, Screens

VARIABLES
    visit,   \* rigid: the part
    xSample, xUploads, xRange, xTrend, xTooltip, xReplaced   \* the figures

figureVars == <<xSample, xUploads, xRange, xTrend, xTooltip, xReplaced>>
sessionVars == <<tabVars, uploadVars, accountVars, shellVars>>
screenVars == <<galleryVars, detailVars, officeVars, feedVars, landingVars, hostVars>>

Users == {
    [does |-> {"tick", "delete"}, own |-> {3}],
    [does |-> {"tick", "open"}, own |-> {}],
    [does |-> {"tick", "mode"}, own |-> {}],
    [does |-> {"delete", "haste"}, own |-> {1, 2}],
    [does |-> {"rename", "mode"}, own |-> {1, 2}],
    [does |-> {"open", "lossy"}, own |-> {1, 2}],
    [does |-> {"drag", "delete", "mode"}, own |-> {2}],
    [does |-> {"filter", "delete"}, own |-> {1, 2}]}

Looks == {
    [mobile |-> FALSE, clicks |-> 2, adds |-> FALSE, trouble |-> {}],
    [mobile |-> FALSE, clicks |-> 1, adds |-> TRUE, trouble |-> {"elsewhere"}],
    [mobile |-> TRUE, clicks |-> 2, adds |-> FALSE, trouble |-> {"elsewhere", "lost"}]}

AuthorOf(c) == IF c = "web" THEN "alice" ELSE "root"
TextsOf(c) == IF c = "web" THEN {"w1", "w2"} ELSE {"m1"}
Talks == {
    [who |-> {"web"}, slots |-> {1, 2}, texts |-> {"w1", "w2"}, old |-> {}],
    [who |-> {"phone"}, slots |-> {1, 2}, texts |-> {"m1"}, old |-> {}],
    [who |-> {"web", "phone"}, slots |-> {1}, texts |-> {"w1", "m1"}, old |-> {}],
    [who |-> {"web", "phone"}, slots |-> {1, 2}, texts |-> {},
     old |-> {[id |-> 1, by |-> "alice", text |-> "w1"], [id |-> 2, by |-> "root", text |-> "m1"]}]}

Wanted == {<<"image", 1>>}
Things == {<<"user", 1>>, <<"image", 1>>, <<"image", 2>>, <<"tag", 1>>}
Duties == {{"roles", "haste"}, {"roles", "leisure"}, {"images", "leisure"}, {"tags", "haste"},
           {"phone"}}

Visits == {
    [registered |-> {"root"}, paths |-> {"landing", "login", "register"},
     passwords |-> {"right", "wrong"}, slots |-> {1}],
    [registered |-> {"root"}, paths |-> {"login", "register"},
     passwords |-> {"right"}, slots |-> {1, 2}],
    [registered |-> {"root", "alice"}, paths |-> {"login", "profile"},
     passwords |-> {"right"}, slots |-> {1}],
    [registered |-> {"root", "alice"}, paths |-> {"lost", "gallery", "profile", "admin"},
     passwords |-> {"right"}, slots |-> {1}]}

Weeks == {[d \in 1..9 |-> d], [d \in 1..9 |-> d % 3]}
Days == {[of |-> "days", changed |-> c, by |-> by, hour |-> h, week |-> w] :
            c \in 0..9, by \in {-1, 1}, h \in {0, 1, 12, 22, 23}, w \in Weeks}
Sizes == {<<1, 1, 1, 1, 1>>, <<3, 2, 2, 1, 0>>, <<1, 2, 3, 4, 9>>}
Types == {t \in [1..5 -> 1..5] : \A n \in 1..5 : t[n] = 1 \/ \E m \in 1..(n - 1) : t[m] >= t[n] - 1}
Images == {[n \in 1..5 |-> [type |-> t[n], size |-> z[n]]] : t \in Types, z \in Sizes}
Samples ==
    {d \in Days : d.hour < 24 + (IF d.changed = 9 THEN d.by ELSE 0)}
        \cup [of: {"types"}, images: {<<>>} \cup Images]
        \cup [of: {"size"}, bytes: 0..600]
        \cup [of: {"quota"}, admin: BOOLEAN, used: {0, 1, 4, 5, 499, 994, 995, 996, 999, 1000, 1001, 1050}]
        \cup [of: {"curve"}, data: UNION {[1..n -> {0, 1, 3}] : n \in 0..4} \cup [1..8 -> {0, 9}]]
        \cup [of: {"chart"}]

Figured == INSTANCE Figures WITH
    Sample <- Samples, PageLimit <- 30, TopTypes <- 4, FeedLength <- 3, Kilo <- 8,
    Button <- {"7d", "30d", "90d"}, MaxUploads <- 1,
    sample <- xSample, uploads <- xUploads, range <- xRange, trend <- xTrend,
    tooltip <- xTooltip, replaced <- xReplaced

\* No comments, no tabs, no upload, nobody at the web client or the phone.
NoTalk ==
    /\ scene = 0 /\ exists = FALSE /\ rows = {} /\ draft = 0 /\ comments = 0 /\ call = 0
    /\ posted = {} /\ typed = {} /\ replaced = {} /\ waited = {} /\ refused = {}
    /\ insisted = {} /\ cutOff = 0 /\ deaf = {} /\ removed = {}
NoTabs == TabsInit
NoUpload == UploadInit
NoAccount ==
    /\ occasion = [slots |-> {}] /\ accounts = {} /\ user = NoUser /\ path = "landing"
    /\ fields = 0 /\ errors = "none" /\ busy = FALSE /\ mine = Empty /\ asker = NoUser
    /\ tagsAsked = TRUE /\ sessionCall = <<>> /\ leaving = FALSE
    /\ intent = NoUser /\ crossed = FALSE /\ inherited = FALSE
NoShell == ShellInit
\* A page nobody visits is blank.
NoGallery ==
    /\ gUser = 0 /\ gAlive = {} /\ gRenamed = {} /\ gScreen = "none" /\ gKey = 0
    /\ gSelecting = FALSE /\ gSelected = {} /\ gOverride = 0 /\ gList = 0 /\ gOp = 0
    /\ gOvertaken = FALSE /\ gNarrowed = FALSE
NoDetail ==
    /\ dScene = 0 /\ dExists = FALSE /\ dTags = {} /\ dMarks = {} /\ dOpen = FALSE
    /\ dImage = 0 /\ dKnown = 0 /\ dCall = 0 /\ dClicks = 0 /\ dMissed = {}
NoOffice ==
    /\ oDuty = {} /\ oValue = 0 /\ oVersion = 0 /\ oPlace = "none" /\ oPage = 0
    /\ oSearch = FALSE /\ oForm = 0 /\ oPalette = FALSE /\ oCache = <<>> /\ oOp = 0
    /\ oWish = 0 /\ oUnsure = {} /\ oMissed = {} /\ oStrayed = FALSE
NoFeed ==
    /\ fAlive = {} /\ fPage = 0 /\ fFiltered = FALSE /\ fQuery = Empty /\ fImages = <<>>
    /\ fPrevPage = 0 /\ fAdded = {} /\ fLost = {}
NoLanding ==
    /\ lSignedIn = FALSE /\ lAlive = {} /\ lScreen = "none" /\ lView = 0 /\ lFiltered = FALSE
    /\ lTags = 0 /\ lList = 0 /\ lExiting = 0 /\ lChanged = FALSE
NoHost == Host!Init
NoFigures ==
    /\ xSample = 0 /\ xUploads = 0 /\ xRange = 0 /\ xTrend = 0 /\ xTooltip = 0 /\ xReplaced = 0

Visited == {"gallery", "detail", "admin", "lists", "landing", "monitor", "figures", "comments",
            "tabs", "upload", "account", "shell"}
PagesInit ==
    /\ visit \in Visited
    /\ IF visit = "gallery" THEN Gallery!Init ELSE NoGallery
    /\ IF visit = "detail" THEN Detail!Init ELSE NoDetail
    /\ IF visit = "admin" THEN Office!Init ELSE NoOffice
    /\ IF visit = "lists" THEN Feed!Init ELSE NoFeed
    /\ IF visit = "landing" THEN Landing!Init ELSE NoLanding
    /\ IF visit = "monitor" THEN Host!Init ELSE NoHost
    /\ IF visit = "figures" THEN Figured!Init ELSE NoFigures
    /\ IF visit = "comments" THEN Init ELSE NoTalk
    /\ IF visit = "tabs" THEN TabsInit ELSE NoTabs
    /\ IF visit = "upload" THEN UploadInit ELSE NoUpload
    /\ IF visit = "account" THEN AccountInit ELSE NoAccount
    /\ IF visit = "shell" THEN ShellInit ELSE NoShell

\* One part moves.
ScreenStep ==
    \/ /\ visit = "gallery" /\ Gallery!Next
       /\ UNCHANGED <<detailVars, officeVars, feedVars, landingVars, hostVars>>
    \/ /\ visit = "detail" /\ Detail!Next
       /\ UNCHANGED <<galleryVars, officeVars, feedVars, landingVars, hostVars>>
    \/ /\ visit = "admin" /\ Office!Next
       /\ UNCHANGED <<galleryVars, detailVars, feedVars, landingVars, hostVars>>
    \/ /\ visit = "lists" /\ Feed!Next
       /\ UNCHANGED <<galleryVars, detailVars, officeVars, landingVars, hostVars>>
    \/ /\ visit = "landing" /\ Landing!Next
       /\ UNCHANGED <<galleryVars, detailVars, officeVars, feedVars, hostVars>>
    \/ /\ visit = "monitor" /\ Host!Next
       /\ UNCHANGED <<galleryVars, detailVars, officeVars, feedVars, landingVars>>
SessionStep ==
    \/ visit = "tabs" /\ TabsNext /\ UNCHANGED <<uploadVars, accountVars, shellVars>>
    \/ visit = "upload" /\ UploadNext /\ UNCHANGED <<tabVars, accountVars, shellVars>>
    \/ visit = "account" /\ AccountNext /\ UNCHANGED <<tabVars, uploadVars, shellVars>>
    \/ visit = "shell" /\ ShellNext /\ UNCHANGED <<tabVars, uploadVars, accountVars>>
PagesNext ==
    \/ ScreenStep /\ UNCHANGED <<visit, vars, sessionVars, figureVars>>
    \/ SessionStep /\ UNCHANGED <<visit, vars, screenVars, figureVars>>
    \/ /\ visit = "comments" /\ Next
       /\ UNCHANGED <<visit, sessionVars, screenVars, figureVars>>
    \/ /\ visit = "figures" /\ Figured!Next
       /\ UNCHANGED <<visit, vars, sessionVars, screenVars>>

Pages ==
    PagesInit /\ [][PagesNext]_<<visit, vars, sessionVars, screenVars, figureVars>>

-----------------------------------------------------------------------------
\* The types of the part visited, with what is stated beside them.
PagesTypeOK ==
    /\ visit = "gallery" => Gallery!TypeOK
    /\ visit = "detail" => Detail!TypeOK
    /\ visit = "admin" => Office!TypeOK
    /\ visit = "lists" => Feed!TypeOK
    /\ visit = "landing" => Landing!TypeOK
    /\ visit = "monitor" => Host!TypeOK
    /\ visit = "comments" => TypeOK
    /\ visit = "account" => AccountTypeOK
    /\ visit = "tabs" => TabsTypeOK
    /\ visit = "upload" => UploadTypeOK
    /\ visit = "shell" => ShellTypeOK
    /\ visit = "figures" => Figured!TypeOK

\* The figures of the profile and of the dashboard are those of the rows they are
\* computed from: the curve counts the images of each of the last seven days, and none
\* twice, though where the clocks change a day may be missing or one too early be taken;
\* the types are the largest by size, in that order; sizes and the ring tell the bytes
\* and the quota; and curves stay inside their boxes (ProfilePage.tsx:133-167,
\* DashboardPage.tsx:25-142).
FiguresAreTrue ==
    /\ PagesTypeOK
    /\ visit = "figures" =>
          /\ Figured!DaysCounted /\ Figured!TypesRanked /\ Figured!SizesTold
          /\ Figured!RingTellsQuota /\ Figured!CurvesInBox /\ Figured!TooltipOfChart

=============================================================================
