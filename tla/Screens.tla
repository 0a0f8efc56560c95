------------------------------- MODULE Screens -------------------------------
(***************************************************************************)
(* The gallery, the page of an image, the pages of an administrator, the   *)
(* endless lists of the phone, the front page and the monitor, each with   *)
(* constants and variables of its own: they share nothing but the query    *)
(* client.  What their users must be able to rely on is stated once.       *)
(***************************************************************************)
EXTENDS Integers, Sequences, FiniteSets, QueryCache, Listings

CONSTANTS
    Calls,           \* bound: calls under way on one page
    GalleryImages, GalleryKept, GalleryPageSize, GalleryUsers,
    DetailListed, DetailCustom, DetailScenes,
    OfficeThings, OfficeStock, OfficeFound, OfficeTableSize, OfficeRecentSize,
    OfficeDots, OfficeColors, OfficeDuties, OfficeMaxTags,
    FeedImages, FeedStock, FeedMatches, FeedPageSize,
    LandingImages, LandingStock, LandingTagged, LandingLimit,
    HostDayLength, HostPeriods, HostKept, HostMaxTime

VARIABLES
    gUser, gAlive, gRenamed, gScreen, gKey, gSelecting, gSelected, gOverride, gList,
    gOp, gOvertaken, gNarrowed,                                      \* the gallery
    dScene, dExists, dTags, dMarks, dOpen, dImage, dKnown, dCall, dClicks, dMissed,
                                                                     \* an image
    oDuty, oValue, oVersion, oPlace, oPage, oSearch, oForm, oPalette, oCache, oOp,
    oWish, oUnsure, oMissed, oStrayed,                               \* the office
    fAlive, fPage, fFiltered, fQuery, fImages, fPrevPage, fAdded, fLost, \* the feed
    lSignedIn, lAlive, lScreen, lView, lFiltered, lTags, lList, lExiting, lChanged,
                                                                     \* the front page
    hNow, hMetrics, hJob, hCollected                                 \* the host

galleryVars == <<gUser, gAlive, gRenamed, gScreen, gKey, gSelecting, gSelected, gOverride,
                 gList, gOp, gOvertaken, gNarrowed>>
detailVars == <<dScene, dExists, dTags, dMarks, dOpen, dImage, dKnown, dCall, dClicks, dMissed>>
officeVars == <<oDuty, oValue, oVersion, oPlace, oPage, oSearch, oForm, oPalette, oCache,
                oOp, oWish, oUnsure, oMissed, oStrayed>>
feedVars == <<fAlive, fPage, fFiltered, fQuery, fImages, fPrevPage, fAdded, fLost>>
landingVars == <<lSignedIn, lAlive, lScreen, lView, lFiltered, lTags, lList, lExiting, lChanged>>
hostVars == <<hNow, hMetrics, hJob, hCollected>>

Gallery == INSTANCE GalleryPage WITH
    Image <- GalleryImages, Kept <- GalleryKept, PageSize <- GalleryPageSize,
    Slot <- Calls, Users <- GalleryUsers,
    user <- gUser, alive <- gAlive, renamed <- gRenamed, screen <- gScreen, key <- gKey,
    selecting <- gSelecting, selected <- gSelected, override <- gOverride, list <- gList,
    op <- gOp, overtaken <- gOvertaken, narrowed <- gNarrowed

Detail == INSTANCE ImageDetail WITH
    Listed <- DetailListed, Custom <- DetailCustom, Slot <- Calls, Scene <- DetailScenes,
    scene <- dScene, exists <- dExists, tags <- dTags, marks <- dMarks, open <- dOpen,
    image <- dImage, known <- dKnown, call <- dCall, clicks <- dClicks, missed <- dMissed

Office == INSTANCE AdminPages WITH
    Thing <- OfficeThings, Stock <- OfficeStock, Found <- OfficeFound,
    TableSize <- OfficeTableSize, RecentSize <- OfficeRecentSize, Dot <- OfficeDots,
    Custom <- OfficeColors, Slot <- Calls, Duty <- OfficeDuties, MaxTags <- OfficeMaxTags,
    duty <- oDuty, value <- oValue, version <- oVersion, place <- oPlace, page <- oPage,
    search <- oSearch, form <- oForm, palette <- oPalette, cache <- oCache, op <- oOp,
    wish <- oWish, unsure <- oUnsure, missed <- oMissed, strayed <- oStrayed

Feed == INSTANCE MobileLists WITH
    Image <- FeedImages, Stock <- FeedStock, Matches <- FeedMatches, PageSize <- FeedPageSize,
    alive <- fAlive, page <- fPage, filtered <- fFiltered, query <- fQuery,
    allImages <- fImages, prevPage <- fPrevPage, added <- fAdded, lost <- fLost

Landing == INSTANCE LandingPage WITH
    Image <- LandingImages, Stock <- LandingStock, Tagged <- LandingTagged,
    Limit <- LandingLimit,
    signedIn <- lSignedIn, alive <- lAlive, screen <- lScreen, view <- lView,
    filtered <- lFiltered, tags <- lTags, list <- lList, exiting <- lExiting,
    changed <- lChanged

Host == INSTANCE Monitor WITH
    DayLength <- HostDayLength, Period <- HostPeriods, Kept <- HostKept,
    MaxTime <- HostMaxTime,
    now <- hNow, metrics <- hMetrics, job <- hJob, collected <- hCollected

\* Lists are finite, a page has room for a row (24, 20, 5 and the like in the
\* code), and a thing is known by a number: a higher one is newer.  There is an
\* administrator, so the tables are of something.  What means that nothing was
\* answered is not an answer.
ASSUME GalleryAssumption ==
    /\ IsFiniteSet(GalleryImages) /\ GalleryImages \subseteq Int
    /\ GalleryPageSize \in Nat \ {0}

ASSUME OfficeAssumption ==
    /\ IsFiniteSet(OfficeThings) /\ OfficeThings # {}
    /\ OfficeThings \subseteq {"user", "image", "tag"} \X Int
    /\ OfficeTableSize \in Nat \ {0} /\ OfficeRecentSize \in Nat
    /\ OfficeDots # {} /\ "password" \notin OfficeDots \cup OfficeColors

ASSUME FeedAssumption ==
    /\ IsFiniteSet(FeedImages) /\ FeedImages \subseteq Int
    /\ FeedStock \subseteq FeedImages /\ FeedPageSize \in Nat \ {0}
    /\ NoData \notin [items: Seq(FeedImages), total: Nat]

ASSUME LandingAssumption ==
    /\ IsFiniteSet(LandingImages) /\ LandingImages \subseteq Int
    /\ LandingStock \subseteq LandingImages /\ LandingLimit \in Nat
    /\ NoData \notin [total: Nat, items: Seq(LandingImages), torn: BOOLEAN]

\* A day has a length, and no range is longer than rows are kept: 1, 7 or 30 days of
\* 90 (monitor/main.go:76-79, :117).
ASSUME HostAssumption ==
    /\ HostDayLength \in Nat \ {0} /\ HostKept \in Nat
    /\ \A range \in HostPeriods : range \in Nat /\ range <= HostKept

-----------------------------------------------------------------------------
\* All pages side by side, each with its own user.
Screens ==
    Gallery!Spec /\ Detail!Spec /\ Office!Spec /\ Feed!Spec /\ Landing!Spec /\ Host!Spec

\* What a list or a table shows once it is at rest: the server's rows, no page
\* beyond the last, images of the endless list in order and a gap or a double
\* only from a change between two pages.  What can be clicked tells the state it
\* stands for: ticks and the selection bar, lit and offered tags.  The exceptions
\* are stated with each part.
ScreensAreTrue ==
    /\ Gallery!HonestList /\ Gallery!PageInRange /\ Gallery!TicksMatchMode
    /\ Detail!LitTagsTellClicks /\ Detail!AddedTagsOffered
    /\ Office!AsAsked /\ Office!EmptyOnlyAfterDeletion
    /\ Feed!JoinedInOrder /\ Feed!ShiftsExplained
    /\ Landing!FrontPageHonest /\ Landing!PicksOfTheTag
    /\ Host!HistoryReaches

=============================================================================
