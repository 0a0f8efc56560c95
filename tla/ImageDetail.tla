----------------------------- MODULE ImageDetail ----------------------------
(***************************************************************************)
(* The page of an image, of the web client and of the mobile app: the user *)
(* clicks tags, adds one of their own, deletes the image and leaves; calls *)
(* overlap and each answer makes the page fetch again.  Somebody else may  *)
(* delete the image.                                                       *)
(* A definition Name_Variant is Name with a plausible bug in it.           *)
(***************************************************************************)
EXTENDS Integers, FiniteSets, QueryCache

CONSTANTS
    Listed, Custom,  \* tags there are, and those the user may add
    Slot,            \* bound: calls under way
    Scene            \* bound: which client, how often a tag is clicked, whether
                     \* tags are added, and what may go wrong: answers get lost,
                     \* or somebody else deletes the image

VARIABLES
    scene,         \* rigid: one of Scene
    exists, tags, marks,  \* server: the image, the tags, the user's marks on it
    open,          \* the page is shown; otherwise the gallery is
    image, known,  \* cache: the image with its marks, the list of tags
    call,
    clicks,        \* history: clicks on each tag less those that were refused
    missed         \* history: queries whose data may lack a change of the user

server == <<exists, tags, marks>>
vars == <<scene, server, open, image, known, call, clicks, missed>>

Tag == Listed \cup Custom
NoCall == [kind |-> "idle", tag |-> "", pc |-> "idle"]

TypeOK ==
    /\ exists \in BOOLEAN /\ open \in BOOLEAN
    /\ tags \subseteq Tag /\ marks \subseteq tags
    /\ image.data = NoData \/ image.data \subseteq Tag
    /\ known.data = NoData \/ known.data \subseteq tags
    /\ \A s \in Slot : call[s].pc \in {"idle", "sent", "insert", "ok", "refused"}
    /\ clicks \in [Tag -> Int] /\ missed \subseteq {"image", "tags"}

Init ==
    /\ scene \in Scene
    /\ exists = TRUE /\ tags = Listed /\ marks = {}
    /\ open = TRUE
    /\ image = Observed(Empty) /\ known = Observed(Empty)
    /\ call = [s \in Slot |-> NoCall]
    /\ clicks = [t \in Tag |-> 0] /\ missed = {}

\* Until there is an answer there is nothing to click.
Shown == open /\ image.data # NoData

Send(s, kind, t) ==
    /\ Shown /\ call[s].kind = "idle"
    /\ call' = [call EXCEPT ![s] = [kind |-> kind, tag |-> t, pc |-> "sent"]]
    /\ UNCHANGED <<scene, server, open, image, known, missed>>

\* A click on a TagButton or TagChip: any tag of the list, also one that is
\* being toggled.
Toggle(s, t) ==
    /\ known.data # NoData /\ t \in known.data /\ clicks[t] < scene.clicks
    /\ clicks' = [clicks EXCEPT ![t] = @ + 1] /\ Send(s, "toggle", t)
\* The web page also takes names that are not in the list.
AddTag(s, t) == scene.adds /\ ~scene.mobile /\ t \in Custom \ tags /\ Send(s, "add", t) /\ UNCHANGED clicks
Delete(s) ==
    /\ \A r \in Slot : call[r].kind # "delete"
    /\ Send(s, "delete", "") /\ UNCHANGED clicks

\* Escape, the arrows and the links: the page is unmounted, its answers still
\* arrive.  Back again, both queries are asked.
Leave ==
    /\ open /\ open' = FALSE
    /\ UNCHANGED <<scene, server, image, known, call, clicks, missed>>
Enter ==
    /\ ~open /\ open' = TRUE
    /\ image' = Observed(image) /\ known' = Observed(known)
    /\ missed' = {q \in {"image", "tags"} : Aged(IF q = "image" THEN image ELSE known)}
    /\ UNCHANGED <<scene, server, call, clicks>>

-----------------------------------------------------------------------------
\* ToggleTag: a DELETE, and an INSERT when it deleted nothing; without the
\* image, or beside another INSERT of the same mark, the INSERT is refused.
Goto(s, pc) == call' = [call EXCEPT ![s].pc = pc]
Unmark_Only(s) ==
    /\ call[s].kind = "toggle" /\ call[s].pc = "sent"
    /\ marks' = marks \ {call[s].tag} /\ Goto(s, "ok")
    /\ UNCHANGED <<scene, exists, tags, open, image, known, clicks, missed>>
Unmark(s) ==
    /\ call[s].kind = "toggle" /\ call[s].pc = "sent"
    /\ marks' = marks \ {call[s].tag}
    /\ Goto(s, IF call[s].tag \in marks THEN "ok" ELSE "insert")
    /\ UNCHANGED <<scene, exists, tags, open, image, known, clicks, missed>>
Mark(s) ==
    /\ call[s].pc = "insert"
    /\ IF exists /\ call[s].tag \notin marks
       THEN marks' = marks \cup {call[s].tag} /\ Goto(s, "ok") /\ UNCHANGED clicks
       ELSE /\ Goto(s, "refused") /\ UNCHANGED marks
            /\ clicks' = [clicks EXCEPT ![call[s].tag] = @ - 1]
    /\ UNCHANGED <<scene, exists, tags, open, image, known, missed>>
\* AddTags makes the tag; its link is refused by the table and the error dropped.
MakeTag(s) ==
    /\ call[s].kind = "add" /\ call[s].pc = "sent"
    /\ tags' = tags \cup {call[s].tag} /\ Goto(s, "ok")
    /\ UNCHANGED <<scene, exists, marks, open, image, known, clicks, missed>>
Gone == exists' = FALSE /\ marks' = {}
Erase(s) ==
    /\ call[s].kind = "delete" /\ call[s].pc = "sent"
    /\ IF exists THEN Gone /\ Goto(s, "ok")
       ELSE Goto(s, "refused") /\ UNCHANGED <<exists, marks, clicks>>
    /\ UNCHANGED <<scene, tags, open, image, known, clicks, missed>>
EraseElsewhere ==
    /\ "elsewhere" \in scene.trouble /\ exists /\ Gone
    /\ UNCHANGED <<scene, tags, open, image, known, call, clicks, missed>>

-----------------------------------------------------------------------------
Finish(s) == call' = [call EXCEPT ![s] = NoCall]
\* The first fetch of an entry is kept, and one that is not shown is not
\* fetched again.
Misses(q, entry) ==
    ~open \/ (Loading(entry) /\ (Aged(entry) \/ q \in missed))
Again(q, entry) == IF Misses(q, entry) THEN missed \cup {q} ELSE missed \ {q}
Refetch(entry) == IF open THEN Renewed(entry) ELSE entry

Toggled_KeepsFetch(s) ==
    /\ call[s].kind = "toggle" /\ call[s].pc = "ok"
    /\ image' = (IF open THEN Observed(image) ELSE image)
    /\ missed' = Again("image", image) /\ Finish(s)
    /\ UNCHANGED <<scene, server, open, known, clicks>>
\* toggleMutation
Toggled(s) ==
    /\ call[s].kind = "toggle" /\ call[s].pc = "ok"
    /\ image' = Refetch(image) /\ missed' = Again("image", image) /\ Finish(s)
    /\ UNCHANGED <<scene, server, open, known, clicks>>
Added_ImageOnly(s) ==
    /\ call[s].kind = "add" /\ call[s].pc = "ok"
    /\ image' = Refetch(image) /\ missed' = Again("image", image) /\ Finish(s)
    /\ UNCHANGED <<scene, server, open, known, clicks>>
\* addTagMutation
Added(s) ==
    /\ call[s].kind = "add" /\ call[s].pc = "ok"
    /\ image' = Refetch(image) /\ known' = Refetch(known) /\ Finish(s)
    /\ missed' = {q \in {"image", "tags"} : Misses(q, IF q = "image" THEN image ELSE known)}
    /\ UNCHANGED <<scene, server, open, clicks>>
\* deleteMutation: to the gallery, or back, wherever the user is by now.
Deleted(s) ==
    /\ call[s].kind = "delete" /\ call[s].pc = "ok"
    /\ open' = FALSE /\ Finish(s)
    /\ UNCHANGED <<scene, server, image, known, clicks, missed>>
\* No onError: nothing happens.
Refuse(s) ==
    /\ call[s].pc = "refused" /\ Finish(s)
    /\ UNCHANGED <<scene, server, open, image, known, clicks, missed>>
LoseAnswer(s) ==
    /\ "lost" \in scene.trouble /\ call[s].pc = "ok" /\ Finish(s) /\ missed' = {"image", "tags"}
    /\ UNCHANGED <<scene, server, open, image, known, clicks>>

\* GetImage.
Serve ==
    /\ image.flight = "asked" /\ exists
    /\ image' = Served(image, marks)
    /\ UNCHANGED <<scene, exists, tags, marks, open, known, call, clicks, missed>>
NotFound ==
    /\ image.flight = "asked" /\ ~exists
    /\ image' = Failed(image)
    /\ UNCHANGED <<scene, server, open, known, call, clicks, missed>>
Land ==
    /\ Aged(image) /\ image' = Landed(image)
    /\ UNCHANGED <<scene, server, open, known, call, clicks, missed>>
FetchTags ==
    /\ \/ known.flight = "asked" /\ known' = Served(known, tags)
       \/ Aged(known) /\ known' = Landed(known)
    /\ UNCHANGED <<scene, server, open, image, call, clicks, missed>>

Next ==
    \/ \E s \in Slot :
          \/ \E t \in Tag : Toggle(s, t) \/ AddTag(s, t)
          \/ Delete(s) \/ Unmark(s) \/ Mark(s) \/ MakeTag(s) \/ Erase(s)
          \/ Toggled(s) \/ Added(s) \/ Deleted(s) \/ Refuse(s) \/ LoseAnswer(s)
    \/ Leave \/ Enter \/ EraseElsewhere
    \/ Serve \/ NotFound \/ Land \/ FetchTags
Spec == Init /\ [][Next]_vars

-----------------------------------------------------------------------------
AtRest == open /\ Resting(image) /\ Resting(known) /\ \A s \in Slot : call[s] = NoCall

\* At rest, however the clicks, their statements and the fetches after them
\* overlapped, a tag is lit exactly when it was clicked an odd number of times,
\* refused clicks apart (ImageDetailPage.tsx:219-222).
LitTagsTellClicks ==
    AtRest /\ exists /\ "image" \notin missed =>
        \A t \in Tag : (t \in image.data) <=> (clicks[t] % 2 = 1)

\* At rest all tags the user has added can be clicked
\* (ImageDetailPage.tsx:224-231).
AddedTagsOffered == AtRest /\ "tags" \notin missed => known.data = tags

=============================================================================
