---------------------------- MODULE MobileLists -----------------------------
(***************************************************************************)
(* The two endless lists of the mobile app, the front page and the         *)
(* gallery: pages are asked for one by one as the end is reached, and an   *)
(* effect of the rendering joins them, while others upload and delete.     *)
(* Every page is asked for under a key of its own, for refreshKey counts   *)
(* up whenever page is 1 again.  A higher number is a newer image.         *)
(* A definition Name_Variant is Name with a plausible bug in it.           *)
(***************************************************************************)
EXTENDS Integers, Sequences, FiniteSets, Functions, QueryCache, Listings

CONSTANTS
    Image, Stock,  \* the images, and those there are at the beginning
    Matches,       \* those the filter keeps
    PageSize       \* 20 in the code

VARIABLES
    alive,               \* server
    page, filtered,      \* and refreshKey: the key of the page shown
    query,               \* cache: its entry
    allImages, prevPage, \* the joined list
    added, lost          \* history: images uploaded and deleted since page 1 was asked for

history == <<added, lost>>
vars == <<alive, page, filtered, query, allImages, prevPage, history>>

TypeOK ==
    /\ alive \subseteq Image /\ page \in Nat \ {0} /\ filtered \in BOOLEAN
    /\ query.flight \in {"none", "asked", "answered"}
    /\ Range(allImages) \subseteq Image /\ prevPage \in 0..page + Cardinality(Image)
    /\ added \subseteq Image /\ lost \subseteq Image

\* ListPublicImages: the newest first.
Matching == Descending({i \in alive : filtered => i \in Matches})
Truth ==
    LET n == Len(Matching)  end == page * PageSize
    IN  [items |-> SubSeq(Matching, end - PageSize + 1, IF end < n THEN end ELSE n), total |-> n]

\* newItems and total: none while there is no answer, or for good when the
\* fetch failed.
NewItems(e) == IF e.data = NoData THEN <<>> ELSE e.data.items
Total == IF query.data = NoData THEN 0 ELSE query.data.total
IsRefreshing == Loading(query) /\ allImages = <<>>

\* The rendering with page p and entry e, and its effect.
Effect(p, e) ==
    /\ page' = p /\ query' = e
    /\ allImages' = IF p = 1 THEN NewItems(e)
                    ELSE IF p > prevPage THEN allImages \o NewItems(e) ELSE allImages
    /\ prevPage' = IF NewItems(e) # <<>> THEN p ELSE prevPage

Init ==
    /\ alive = Stock /\ page = 1 /\ filtered = FALSE
    /\ query = Observed(Empty) /\ allImages = <<>> /\ prevPage = 0
    /\ added = {} /\ lost = {}

\* A word of the search or a tag: resetList of the gallery, handleSearch and
\* handleTag of the front page.
ResetList ==
    /\ filtered' = ~filtered /\ Effect(1, Observed(Empty))
    /\ added' = {} /\ lost' = {} /\ UNCHANGED alive
\* handleRefresh, when the list is pulled down.
HandleRefresh_KeepsPage ==
    /\ Effect(page, Observed(Empty))
    /\ added' = {} /\ lost' = {} /\ UNCHANGED <<alive, filtered>>
HandleRefresh ==
    /\ Effect(1, Observed(Empty))
    /\ added' = {} /\ lost' = {} /\ UNCHANGED <<alive, filtered>>

\* onEndReached: nothing while a page is loading, for then total is 0.
OnEndReached_KnowsTotal ==
    /\ ~IsRefreshing /\ Len(allImages) < Len(Matching)
    /\ Effect(page + 1, Observed(Empty)) /\ UNCHANGED <<alive, filtered, history>>
OnEndReached ==
    /\ ~IsRefreshing /\ Len(allImages) < Total
    /\ Effect(page + 1, Observed(Empty)) /\ UNCHANGED <<alive, filtered, history>>

Serve ==
    /\ query.flight = "asked" /\ query' = Served(query, Truth)
    /\ UNCHANGED <<alive, page, filtered, allImages, prevPage, history>>
Land == Aged(query) /\ Effect(page, Landed(query)) /\ UNCHANGED <<alive, filtered, history>>
FetchFails ==
    /\ query.flight = "asked" /\ Effect(page, Failed(query))
    /\ UNCHANGED <<alive, filtered, history>>

Local == UNCHANGED <<page, filtered, query, allImages, prevPage>>
Upload(i) ==
    /\ \A j \in Stock \cup alive : i > j
    /\ alive' = alive \cup {i} /\ added' = added \cup {i} /\ UNCHANGED lost /\ Local
Delete(i) ==
    /\ i \in alive /\ alive' = alive \ {i} /\ lost' = lost \cup {i} /\ UNCHANGED added /\ Local

Next ==
    \/ ResetList \/ HandleRefresh \/ OnEndReached
    \/ Serve \/ Land \/ FetchFails
    \/ \E i \in Image : Upload(i) \/ Delete(i)
Spec == Init /\ [][Next]_vars

-----------------------------------------------------------------------------
\* However often the end is reached and the list pulled, the joined list has
\* no gap and nothing twice as long as the images are the same: once a page has
\* landed it is all of the first pages (GalleryScreen.tsx:41-53, :106).
JoinedInOrder ==
    added = {} /\ lost = {} =>
        /\ Len(allImages) <= Len(Matching) /\ allImages = SubSeq(Matching, 1, Len(allImages))
        /\ Resting(query) /\ query.data # NoData =>
              Len(allImages) = IF page * PageSize < Len(Matching) THEN page * PageSize
                               ELSE Len(Matching)

\* Offsets shift while one scrolls: an image is listed twice only if one was
\* uploaded meanwhile, and left out only if one was deleted
\* (GalleryScreen.tsx:41-48, image_service.go:405-456).
ShiftsExplained ==
    /\ added = {} => \A m, n \in DOMAIN allImages : allImages[m] = allImages[n] => m = n
    /\ lost = {} => \A i \in Range(Matching) \ added :
          (\E j \in Range(allImages) : j < i) => i \in Range(allImages)

=============================================================================
