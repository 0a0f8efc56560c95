---------------------------- MODULE GalleryPage -----------------------------
(***************************************************************************)
(* The gallery of the web client, and the deletion asked from the page of  *)
(* an image: one user, who is the only one to change the images, browses   *)
(* pages of all images or of their own, filters, ticks, drags, renames,    *)
(* deletes one or many, opens an image and comes back, while answers       *)
(* arrive late, or not at all.                                             *)
(*                                                                         *)
(* A higher number is a newer image.  The filter stands for the search     *)
(* text, which takes the user to page 1, and for the tag and the order,    *)
(* which do not.                                                           *)
(* A definition Name_Variant is Name with a plausible bug in it.           *)
(***************************************************************************)
EXTENDS Integers, Sequences, FiniteSets, Functions, QueryCache, Listings

CONSTANTS
    Image,         \* the images
    Kept,          \* images the filter keeps
    PageSize,      \* 24 in the code
    Slot,          \* bound: calls that change something under way at a time,
                   \* only slot 1 unless the user is in haste
    Users          \* bound: the user is one of these: what they do besides
                   \* browsing, and the images that are theirs

VARIABLES
    user,                 \* rigid: one of Users
    alive, renamed,       \* server: images that exist, images with another name
    screen,               \* "gallery" or "detail"
    key,                  \* mode, page and filter: the key of the list shown
    selecting, selected,  \* selectionMode and selected
    override,             \* orderOverride, <<>> when there is none
    list,                 \* cache: the list for each key
    op,                   \* calls under way
    overtaken,            \* history: the list shown may be older than a change
                          \* that was already answered, and is not fetched again
    narrowed              \* history: the mode or the tag changed since page 1 was last set

server == <<alive, renamed>>
local == <<screen, key, selecting, selected, override>>
vars == <<user, server, local, list, op, overtaken, narrowed>>

LastPage(total) == (total + PageSize - 1) \div PageSize
Page == 1..LastPage(Cardinality(Image)) + 1   \* one too many
Key == [mine: BOOLEAN, page: Page, filtered: BOOLEAN]
Home(mine) == [mine |-> mine, page |-> 1, filtered |-> FALSE]
Idle == [kind |-> "idle", ids |-> {}, mine |-> FALSE, pc |-> "idle", here |-> FALSE]

\* What the server answers for a key.
Matching(k) ==
    {i \in alive : (k.mine => i \in user.own) /\ (k.filtered => i \in Kept)}
NewestFirst == [images \in SUBSET Image |-> Descending(images)]
Truth(k) ==
    LET rows == NewestFirst[Matching(k)]
        from == (k.page - 1) * PageSize + 1
        to == IF k.page * PageSize < Len(rows) THEN k.page * PageSize ELSE Len(rows)
    IN  [items |-> SubSeq(rows, from, to), total |-> Len(rows),
         names |-> Range(SubSeq(rows, from, to)) \cap renamed]

Here == screen = "gallery"
Shown == list[key].data
RawImages == IF Shown = NoData THEN <<>> ELSE Shown.items
Total == IF Shown = NoData THEN 0 ELSE Shown.total
\* images: the dragged order, of what the answer still has.
Images ==
    IF override = <<>> THEN RawImages
    ELSE SelectSeq(override, LAMBDA i : i \in Range(RawImages))
Cards == IF Here /\ ~Loading(list[key]) THEN Range(Images) ELSE {}

TypeOK ==
    /\ alive \subseteq Image /\ renamed \subseteq Image
    /\ screen \in {"gallery", "detail"} /\ key \in Key
    /\ selecting \in BOOLEAN /\ selected \subseteq Image
    /\ Range(override) \subseteq Image
    /\ DOMAIN list = Key /\ \A k \in Key : list[k].flight \in {"none", "asked", "answered"}
    /\ \A s \in Slot : op[s].kind \in {"idle", "delete", "rename", "batch", "detail"}
    /\ overtaken \in BOOLEAN /\ narrowed \in BOOLEAN

Init ==
    /\ user \in Users
    /\ alive = Image /\ renamed = {}
    /\ screen = "gallery" /\ key = Home(FALSE)
    /\ selecting = FALSE /\ selected = {} /\ override = <<>>
    /\ list = [k \in Key |-> IF k = Home(FALSE) THEN Observed(Empty) ELSE Empty]
    /\ op = [s \in Slot |-> Idle]
    /\ overtaken = FALSE /\ narrowed = FALSE

-----------------------------------------------------------------------------
\* Another key is shown.  Bound: the cache keeps the list shown last and the
\* new one; the others are collected.
ShowKey(k) ==
    /\ key' = k
    /\ list' = [x \in Key |-> IF x = k THEN Observed(list[k])
                              ELSE IF x = key THEN list[x] ELSE Empty]
    /\ overtaken' = Aged(list[k])
    \* useMutation takes the options of the latest rendering.
    /\ op' = [s \in Slot |-> IF op[s].kind \in {"delete", "rename"} /\ op[s].here
                             THEN [op[s] EXCEPT !.mine = k.mine] ELSE op[s]]

Browse == UNCHANGED <<server, screen, selecting, selected, override>>

\* The sidebar: all images or one's own; page, ticks and order stay.
SwitchMode ==
    /\ Here /\ ShowKey([key EXCEPT !.mine = ~key.mine])
    /\ narrowed' = TRUE /\ Browse
\* A tag of the sidebar, or the order: the page stays.
FilterByTag ==
    /\ Here /\ ShowKey([key EXCEPT !.filtered = ~key.filtered])
    /\ narrowed' = TRUE /\ Browse
Search ==
    /\ Here /\ ShowKey([key EXCEPT !.filtered = ~key.filtered, !.page = 1])
    /\ narrowed' = FALSE /\ Browse

PagerShown == Here /\ Total > PageSize
PrevPage ==
    /\ PagerShown /\ key.page # 1
    /\ ShowKey([key EXCEPT !.page = key.page - 1])
    /\ UNCHANGED narrowed /\ Browse
NextPage_OffByOne ==
    /\ PagerShown /\ key.page <= LastPage(Total)
    /\ ShowKey([key EXCEPT !.page = key.page + 1])
    /\ UNCHANGED narrowed /\ Browse
NextPage ==
    /\ PagerShown /\ key.page < LastPage(Total)
    /\ ShowKey([key EXCEPT !.page = key.page + 1])
    /\ UNCHANGED narrowed /\ Browse

-----------------------------------------------------------------------------
\* What a click can do on a row of the list and on a card of the grid.
ListRow(i) ==
    {"check", "drag", "copy", "delete"} \cup (IF selecting THEN {} ELSE {"open"})
        \cup (IF key.mine THEN {"rename"} ELSE {})
GridCard(i) ==
    {"check", "drag", "copy", "delete"} \cup (IF selecting THEN {} ELSE {"open"})
        \cup (IF key.mine THEN {"rename"} ELSE {})
\* The buttons of the view can be clicked at any time, and change nothing else.
View == {"grid", "masonry", "list"}
Offers(what, i) ==
    i \in Cards /\ \E view \in View : what \in IF view = "list" THEN ListRow(i) ELSE GridCard(i)

Still == UNCHANGED <<server, screen, key, list, op, overtaken, narrowed>>

ToggleSelect_KeepsMode(i) ==
    /\ Offers("check", i)
    /\ selected' = IF i \in selected THEN selected \ {i} ELSE selected \cup {i}
    /\ selecting' = TRUE
    /\ UNCHANGED override /\ Still
ToggleSelect(i) ==
    /\ Offers("check", i)
    /\ selected' = IF i \in selected THEN selected \ {i} ELSE selected \cup {i}
    /\ selecting' = (selected' # {})
    /\ UNCHANGED override /\ Still

ClearSelection ==
    /\ Here /\ selecting
    /\ selected' = {} /\ selecting' = FALSE
    /\ UNCHANGED override /\ Still

\* handleDragEnd and arrayMove.
Drag(i, j) ==
    /\ Offers("drag", i) /\ j \in Cards /\ i # j
    /\ LET others == SelectSeq(Images, LAMBDA x : x # i)
           to == CHOOSE n \in DOMAIN Images : Images[n] = j
       IN  override' = SubSeq(others, 1, to - 1) \o <<i>> \o SubSeq(others, to, Len(others))
    /\ UNCHANGED <<selecting, selected>> /\ Still

-----------------------------------------------------------------------------
Free(s) == op[s].kind = "idle" /\ (s = 1 \/ "haste" \in user.does)
With(s, kind, ids) ==
    [op EXCEPT ![s] = [kind |-> kind, ids |-> ids, mine |-> key.mine,
                       pc |-> "sent", here |-> TRUE]]
Send(s, kind, ids) ==
    /\ Free(s) /\ op' = With(s, kind, ids)
    /\ UNCHANGED <<server, local, list, overtaken, narrowed>>

\* The page of an image takes the place of this one, which is unmounted with
\* these calls under way.
Leave(calls) ==
    /\ screen' = "detail"
    /\ key' = Home(key.mine) /\ selecting' = FALSE /\ selected' = {} /\ override' = <<>>
    /\ list' = [k \in Key |-> IF k = key \/ k = key' THEN list[k] ELSE Empty]
    /\ op' = [s \in Slot |-> [calls[s] EXCEPT !.here = FALSE]]
    /\ UNCHANGED <<server>> /\ overtaken' = FALSE /\ narrowed' = FALSE
Open(i) == Offers("open", i) /\ Leave(op)

\* The click that confirms goes on to the card, which opens unless something
\* is ticked: React hands it from the bubble to the card it was written in.
Delete(s, i) ==
    /\ Offers("delete", i) /\ Free(s)
    /\ IF selecting THEN Send(s, "delete", {i}) ELSE Leave(With(s, "delete", {i}))
Rename(s, i) == Offers("rename", i) /\ i \notin Shown.names /\ Send(s, "rename", {i})
\* handleBatchDelete: the ticks of all pages and of both modes.
BatchDelete(s) == Here /\ selecting /\ selected # {} /\ Send(s, "batch", selected)

\* Back to it: ArrowLeft to the mode one came from, Escape and links to all images.
Return(mine) ==
    /\ screen = "detail" /\ mine \in {key.mine, FALSE}
    /\ screen' = "gallery" /\ ShowKey(Home(mine))
    /\ UNCHANGED <<server, selecting, selected, override, narrowed>>
\* The deletion button of the page of an image.
DeleteOpened(s, i) == screen = "detail" /\ i \in alive /\ Send(s, "detail", {i})

-----------------------------------------------------------------------------
\* The server: one image at a time, nothing for an image that is gone or that
\* belongs to somebody else.
Work(s) ==
    /\ op[s].pc = "sent"
    /\ \E i \in op[s].ids :
        /\ IF i \notin alive \cap user.own THEN UNCHANGED server
           ELSE IF op[s].kind = "rename" THEN renamed' = renamed \cup {i} /\ UNCHANGED alive
           ELSE alive' = alive \ {i} /\ UNCHANGED renamed
        /\ op' = [op EXCEPT ![s].ids = @ \ {i},
                            ![s].pc = IF op[s].ids # {i} THEN "sent"
                                      ELSE IF op[s].kind = "batch" \/ i \in alive \cap user.own
                                      THEN "ok" ELSE "refused"]
    /\ UNCHANGED <<local, list, overtaken, narrowed>>

Finish(s) == op' = [op EXCEPT ![s] = Idle]

\* A list that is shown is fetched again, one that is not will be when it is.
Invalidate(mine) ==
    IF Here /\ key.mine = mine
    THEN /\ list' = [list EXCEPT ![key] = Renewed(@)]
         /\ overtaken' = (Loading(list[key]) /\ (overtaken \/ Aged(list[key])))
    ELSE /\ overtaken' = (overtaken \/ Here)
         /\ UNCHANGED list

Succeed_NoInvalidate(s) ==
    /\ op[s].pc = "ok" /\ op[s].kind \in {"delete", "rename"}
    /\ Finish(s)
    /\ UNCHANGED <<server, local, list, overtaken, narrowed>>
\* deleteMutation and renameMutation.
Succeed(s) ==
    /\ op[s].pc = "ok" /\ op[s].kind \in {"delete", "rename"}
    /\ Finish(s) /\ Invalidate(op[s].mine)
    /\ UNCHANGED <<server, local, narrowed>>

\* The end of handleBatchDelete: all ticks go, also those set meanwhile.
BatchDone(s) ==
    /\ op[s].pc = "ok" /\ op[s].kind = "batch"
    /\ Finish(s) /\ Invalidate(op[s].mine)
    /\ IF op[s].here THEN selected' = {} /\ selecting' = FALSE
       ELSE UNCHANGED <<selected, selecting>>
    /\ UNCHANGED <<server, screen, key, override, narrowed>>

\* deleteMutation of the page of an image: to all images, wherever the user
\* is by now; no list is invalidated.
OpenedDeleted(s) ==
    /\ op[s].pc = "ok" /\ op[s].kind = "detail"
    /\ LET k == IF Here THEN [key EXCEPT !.mine = FALSE] ELSE Home(FALSE)
       IN  IF Here /\ k = key
           THEN Finish(s) /\ overtaken' = TRUE /\ UNCHANGED <<key, list>>
           ELSE /\ key' = k
                /\ list' = [x \in Key |-> IF x = k THEN Observed(list[k])
                                          ELSE IF x = key THEN list[x] ELSE Empty]
                /\ overtaken' = Aged(list[k])
                /\ op' = [t \in Slot |->
                     IF t = s THEN Idle
                     ELSE IF op[t].kind \in {"delete", "rename"} /\ op[t].here
                     THEN [op[t] EXCEPT !.mine = FALSE] ELSE op[t]]
    /\ screen' = "gallery"
    /\ narrowed' = (narrowed \/ Here)
    /\ UNCHANGED <<server, selecting, selected, override>>

\* A message at most.
Refuse(s) ==
    /\ op[s].pc = "refused" /\ Finish(s)
    /\ UNCHANGED <<server, local, list, overtaken, narrowed>>
LoseAnswer(s) ==
    /\ op[s].pc = "ok" /\ Finish(s) /\ overtaken' = TRUE
    /\ UNCHANGED <<server, local, list, narrowed>>

Serve(k) ==
    /\ list[k].flight = "asked"
    /\ list' = [list EXCEPT ![k] = Served(@, Truth(k))]
    /\ UNCHANGED <<server, local, op, overtaken, narrowed>>
Land(k) ==
    /\ Aged(list[k])
    /\ list' = [list EXCEPT ![k] = Landed(@)]
    /\ UNCHANGED <<server, local, op, overtaken, narrowed>>
FetchFails(k) ==
    /\ list[k].flight = "asked"
    /\ list' = [list EXCEPT ![k] = Failed(@)]
    /\ overtaken' = (overtaken \/ k = key)
    /\ UNCHANGED <<server, local, op, narrowed>>

-----------------------------------------------------------------------------
User ==
    \/ PrevPage \/ NextPage
    \/ "mode" \in user.does /\ SwitchMode
    \/ "filter" \in user.does /\ (FilterByTag \/ Search)
    \/ \E i \in Image :
          \/ "tick" \in user.does /\ ToggleSelect(i)
          \/ "drag" \in user.does /\ \E j \in Image : Drag(i, j)
          \/ "open" \in user.does /\ Open(i)
    \/ ClearSelection
    \/ \E s \in Slot :
          \/ BatchDelete(s)
          \/ \E i \in Image :
                \/ "delete" \in user.does /\ Delete(s, i)
                \/ "rename" \in user.does /\ Rename(s, i)
                \/ "open" \in user.does /\ DeleteOpened(s, i)
    \/ \E mine \in BOOLEAN : Return(mine)

Call(s) ==
    \/ Work(s) \/ Succeed(s) \/ BatchDone(s) \/ OpenedDeleted(s) \/ Refuse(s)
    \/ "lossy" \in user.does /\ LoseAnswer(s)
Fetch(k) ==
    \/ Serve(k) \/ Land(k)
    \/ "lossy" \in user.does /\ FetchFails(k)

Next ==
    /\ User \/ (\E s \in Slot : Call(s)) \/ (\E k \in Key : Fetch(k))
    /\ UNCHANGED user
Spec == Init /\ [][Next]_vars

-----------------------------------------------------------------------------
\* A list at rest, with no call under way, is what the server has, unless a
\* change was answered that this list was not fetched again for
\* (GalleryPage.tsx:291-309, :355-365).
HonestList ==
    Here /\ ~overtaken /\ Resting(list[key]) /\ (\A s \in Slot : op[s] = Idle)
        => Shown = Truth(key)

\* A card opens its image exactly when nothing is ticked, whatever page or
\* mode the ticks were set in (GalleryPage.tsx:343-352).
TicksMatchMode == selecting <=> selected # {}

\* The pager never leads past the last page: only a tag, the mode or a
\* deletion leaves the user there (GalleryPage.tsx:611-635).
PageInRange ==
    Here /\ ~narrowed /\ alive = Image /\ Shown # NoData => key.page \in 1..LastPage(Total) \cup {1}

=============================================================================
