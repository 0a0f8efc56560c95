---------------------------- MODULE LandingPage -----------------------------
(***************************************************************************)
(* The front page: the newest public images as a cloud or as a grid, the   *)
(* number of all of them, and tags to filter by, while others upload and   *)
(* delete.  The server counts and reads the rows in two statements.  Its   *)
(* tags are for users only: asking for them takes a visitor who is not     *)
(* logged in to the login page.                                            *)
(*                                                                         *)
(* A higher number is a newer image.                                       *)
(* A definition Name_Variant is Name with a plausible bug in it.           *)
(***************************************************************************)
EXTENDS Integers, Sequences, FiniteSets, Functions, QueryCache, Listings

CONSTANTS
    Image, Stock,  \* all images, and those there are at the beginning
    Tagged,        \* images with the tag that can be asked for
    Limit          \* 40 in the code

VARIABLES
    signedIn,      \* rigid
    alive,         \* server: public images
    screen,        \* "landing", "detail" or "login"
    view, filtered,\* "3d" or "grid"; the tag is asked for
    tags,          \* "asked", "listed" or "refused"
    list,          \* cache: filtered or not, the images and their number
    exiting,       \* the images of the view that is fading out, NoData when none is
    changed        \* history: the images may have changed since the list shown was asked for

vars == <<signedIn, alive, screen, view, filtered, tags, list, exiting, changed>>

Matching(k) == IF k THEN alive \cap Tagged ELSE alive
\* ListPublicImages reads the rows after it has counted them.
NewestFirst == [images \in SUBSET Image |-> Descending(images)]
Rows(k) ==
    LET all == NewestFirst[Matching(k)]
    IN  SubSeq(all, 1, IF Len(all) < Limit THEN Len(all) ELSE Limit)
Counted(e) == e.flight = "asked" /\ e.answer # NoData

\* The key of the list has the tag in it.
FilterKey_NoTag(f) == FALSE
FilterKey(f) == f
Shown == list[FilterKey(filtered)]
images == IF Shown.data = NoData THEN <<>> ELSE Shown.data.items
total == IF Shown.data = NoData THEN 0 ELSE Shown.data.total
\* A click picks from the cloud, which is there once there is something to show,
\* or from the grid; the view that fades out is drawn as it was, and the other
\* one waits for it.
Cloud == IF Loading(Shown) THEN {} ELSE Range(images)
Grid == Range(images)
Drawn == IF view = "3d" THEN Cloud ELSE Grid
Pickable ==
    IF screen # "landing" THEN {}
    ELSE IF exiting # NoData THEN exiting ELSE Drawn

TypeOK ==
    /\ signedIn \in BOOLEAN /\ alive \subseteq Image
    /\ screen \in {"landing", "detail", "login"}
    /\ view \in {"3d", "grid"} /\ filtered \in BOOLEAN
    /\ tags \in {"asked", "listed", "refused"}
    /\ \A k \in BOOLEAN : list[k].flight \in {"none", "asked", "answered"}
    /\ changed \in BOOLEAN

Fresh == [k \in BOOLEAN |-> IF k = FilterKey(FALSE) THEN Observed(Empty) ELSE Empty]
Init ==
    /\ signedIn \in BOOLEAN
    /\ alive = Stock
    /\ screen = "landing" /\ view = "3d" /\ filtered = FALSE /\ tags = "asked"
    /\ list = Fresh /\ exiting = NoData /\ changed = FALSE

-----------------------------------------------------------------------------
\* Back to a view that is fading out, it is drawn live again.
SetView(v) ==
    /\ screen = "landing" /\ v # view
    /\ view' = v
    /\ exiting' = IF exiting = NoData THEN Drawn ELSE NoData
    /\ UNCHANGED <<signedIn, alive, screen, filtered, tags, list, changed>>
ExitDone ==
    /\ exiting # NoData /\ exiting' = NoData
    /\ UNCHANGED <<signedIn, alive, screen, view, filtered, tags, list, changed>>

\* A tag that is lit is put out by its click.
SetTagFilter ==
    /\ screen = "landing" /\ tags = "listed"
    /\ filtered' = ~filtered
    /\ LET k == FilterKey(filtered') IN
       /\ changed' = (Counted(list[k]) \/ Aged(list[k]))
       /\ list' = [list EXCEPT ![k] = Observed(@)]
    /\ UNCHANGED <<signedIn, alive, screen, view, tags, exiting>>

\* handlePick: the page of the image, or the form that logs in.
HandlePick(i) ==
    /\ i \in Pickable
    /\ screen' = (IF signedIn THEN "detail" ELSE "login") /\ exiting' = NoData
    /\ UNCHANGED <<signedIn, alive, view, filtered, tags, list, changed>>
\* From the page of an image the history leads back and the cache is kept, from
\* the form a link that loads the page.
Return ==
    /\ screen # "landing" /\ screen' = "landing"
    /\ view' = "3d" /\ filtered' = FALSE /\ tags' = "asked"
    /\ LET k == FilterKey(FALSE) IN
       IF signedIn THEN /\ list' = [list EXCEPT ![k] = Observed(@)]
                        /\ changed' = (Counted(list[k]) \/ Aged(list[k]))
       ELSE list' = Fresh /\ changed' = FALSE
    /\ UNCHANGED <<signedIn, alive, exiting>>

-----------------------------------------------------------------------------
\* Others upload and delete: the count of an answer may be of before, its rows
\* of after.  Bound: one change.
Tear(l) == [k \in BOOLEAN |-> IF Counted(l[k]) THEN [l[k] EXCEPT !.answer.torn = TRUE] ELSE l[k]]
Change(now) ==
    /\ alive = Stock /\ alive' = now
    /\ list' = Tear(list) /\ changed' = TRUE
    /\ UNCHANGED <<signedIn, screen, view, filtered, tags, exiting>>
Upload(i) == i \notin alive /\ (\A j \in Stock : i > j) /\ Change(alive \cup {i})
Delete(i) == i \in alive \cap Stock /\ Change(alive \ {i})

Fetching == UNCHANGED <<signedIn, alive, screen, view, filtered, tags, exiting>>
Count(k) ==
    /\ list[k].flight = "asked" /\ ~Counted(list[k])
    /\ list' = [list EXCEPT ![k].answer =
                  [total |-> Cardinality(Matching(k)), items |-> <<>>, torn |-> FALSE]]
    /\ UNCHANGED changed /\ Fetching
ReadRows(k) ==
    /\ Counted(list[k])
    /\ list' = [list EXCEPT ![k] = Served(@, [@.answer EXCEPT !.items = Rows(k)])]
    /\ UNCHANGED changed /\ Fetching
Land(k) ==
    /\ Aged(list[k]) /\ list' = [list EXCEPT ![k] = Landed(@)]
    /\ UNCHANGED changed /\ Fetching
FetchFails(k) ==
    /\ list[k].flight = "asked" /\ list' = [list EXCEPT ![k] = Failed(@)]
    /\ changed' = TRUE /\ Fetching

ListTags ==
    /\ tags = "asked" /\ signedIn /\ tags' = "listed"
    /\ UNCHANGED <<signedIn, alive, screen, view, filtered, list, exiting, changed>>
\* The 401 of a visitor: a page load, also when the form is there already.
RefuseTags ==
    /\ tags = "asked" /\ ~signedIn /\ tags' = "refused"
    /\ screen' = "login" /\ list' = [k \in BOOLEAN |-> Empty] /\ exiting' = NoData
    /\ UNCHANGED <<signedIn, alive, view, filtered, changed>>

Next ==
    \/ \E v \in {"3d", "grid"} : SetView(v)
    \/ ExitDone \/ SetTagFilter \/ Return \/ ListTags \/ RefuseTags
    \/ \E i \in Image : HandlePick(i) \/ Upload(i) \/ Delete(i)
    \/ \E k \in BOOLEAN : Count(k) \/ ReadRows(k) \/ Land(k) \/ FetchFails(k)
Spec == Init /\ [][Next]_vars

-----------------------------------------------------------------------------
\* Once the list is at rest and nothing has changed meanwhile, the newest
\* images are there and their number is right; and an answer has as many
\* images as it says, unless a change came between its two statements
\* (image_service.go:433-443, LandingPage.tsx:203-215).
FrontPageHonest ==
    screen = "landing" =>
        /\ Resting(Shown) /\ ~changed =>
              images = Rows(filtered) /\ total = Cardinality(Matching(filtered))
        /\ Shown.data # NoData /\ ~Shown.data.torn =>
              Len(images) = IF total < Limit THEN total ELSE Limit

\* What can be picked has the tag that is lit, unless the view it is in is
\* fading out (LandingPage.tsx:203-206, :316-353, :387-401).
PicksOfTheTag == filtered /\ exiting = NoData => Pickable \subseteq Tagged

=============================================================================
