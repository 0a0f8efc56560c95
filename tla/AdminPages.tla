----------------------------- MODULE AdminPages -----------------------------
(***************************************************************************)
(* The pages of an administrator: the dashboard with its recent users, the *)
(* tables of users and of images, and the tags; on the phone, one screen   *)
(* with a tab of users and a tab of images.  One administrator chooses     *)
(* roles, deletes and creates, and walks between the pages while calls are *)
(* under way; each page makes its own lists be fetched again, and only     *)
(* those.                                                                  *)
(*                                                                         *)
(* A thing is <<kind, number>>; a higher number is newer.  It is what its  *)
(* list shows of it: a role, a colour, or that it is there.                *)
(* A definition Name_Variant is Name with a plausible bug in it.           *)
(***************************************************************************)
EXTENDS Integers, Sequences, FiniteSets, Functions, QueryCache, Listings

CONSTANTS
    Thing,      \* users, images and tags
    Stock,      \* what they are at the beginning: things that exist
    Found,      \* things a search finds
    TableSize,  \* 20 in the code
    RecentSize, \* 5 in the code
    Dot, Custom,  \* the colours offered, and others
    Slot,       \* bound: calls under way, 1 when there is no haste
    Duty,       \* bound: what the administrator works on, one of these sets,
                \* and whether in haste (calls overlap) or at leisure (searches,
                \* resets passwords, opens the palette, meets failing fetches), or
                \* on the phone
    MaxTags     \* bound: tags.id

Role == {"user", "admin"}
Gone == "gone"
NoName == 0

VARIABLES
    duty,          \* rigid: one of Duty
    value, version,   \* server: what each thing is; tags made again have another id
    place,         \* the page
    page, search,  \* of a table
    form,          \* of the tags: name, newColor and customColor
    palette,       \* the dashboard's command palette is open
    cache,         \* the lists
    op,            \* calls under way
    wish,          \* history: what each thing was last asked to be
    unsure,        \* history: things asked for twice at the same time, deleted
                   \* by a row that was out of date, or whose request failed
    missed,        \* history: lists shown that may lack a change
    strayed        \* history: rows were deleted under the page shown,
                   \* or it was chosen when the total was out of date

server == <<value, version>>
local == <<place, page, search, form, palette>>
ghost == <<wish, unsure, missed, strayed>>
vars == <<duty, server, local, cache, op, ghost>>

Web == {"dashboard", "users", "images", "tags"}
Tabs == {"userTab", "imageTab"}
Place == Web \cup Tabs
Kind == {"user", "image", "tag"}
Of(kind) == {t \in Thing : t[1] = kind}
LastPage(n, size) == (n + size - 1) \div size
Page == 1..LastPage(Cardinality(Thing), TableSize)
Query == [of: {"recent", "users", "images", "tags"} \cup Tabs, page: Page, search: BOOLEAN]
First(of) == [of |-> of, page |-> 1, search |-> FALSE]
Blank == [name |-> NoName, dot |-> CHOOSE c \in Dot : TRUE, custom |-> ""]
NoOp == [pc |-> "idle", thing |-> <<"none", 0>>, want |-> "", version |-> 0, from |-> ""]

\* The list a page asks for.
Lists(p, n, s) ==
    CASE p = "dashboard" -> First("recent")
      [] p \in {"tags"} \cup Tabs -> First(p)
      [] OTHER -> [of |-> p, page |-> n, search |-> s]
Asked == Lists(place, page, search)
KindOf(q) ==
    CASE q.of \in {"recent", "users", "userTab"} -> "user"
      [] q.of \in {"images", "imageTab"} -> "image"
      [] OTHER -> "tag"

\* ListUsers, ListAllImages and List of the tags.
Matching(q) ==
    {t \in Of(KindOf(q)) : value[t] # Gone /\ (q.search => t \in Found)}
NewestFirst == [numbers \in SUBSET {t[2] : t \in Thing} |-> Descending(numbers)]
Truth(q) ==
    LET all == NewestFirst[{t[2] : t \in Matching(q)}]
        size == CASE q.of = "recent" -> RecentSize
                  [] q.of \in {"users", "images"} -> TableSize
                  [] OTHER -> Len(all)   \* the phone asks for 100
        to == IF q.page * size < Len(all) THEN q.page * size ELSE Len(all)
        rows == {<<KindOf(q), n>> : n \in Range(SubSeq(all, (q.page - 1) * size + 1, to))}
    IN  [rows |-> [t \in rows |-> value[t]], version |-> [t \in rows |-> version[t]],
         total |-> Len(all)]

\* Bound: the cache keeps the list shown and the one shown before it.
Entry(q) == IF q \in DOMAIN cache THEN cache[q] ELSE Empty
Shown == Entry(Asked).data
Rows == IF Shown = NoData THEN {} ELSE DOMAIN Shown.rows

TypeOK ==
    /\ value \in [Thing -> Role \cup Dot \cup Custom \cup {"there", Gone}]
    /\ version \in [Thing -> 0..MaxTags]
    /\ place \in Place /\ page \in Page /\ search \in BOOLEAN
    /\ form.name \in {NoName} \cup {t[2] : t \in Of("tag")} /\ form.dot \in Dot
    /\ palette \in BOOLEAN /\ (palette => place = "dashboard")
    /\ \A s \in Slot : op[s].pc \in {"idle", "sent", "ok"}
    /\ DOMAIN cache \subseteq Query
    /\ \A q \in DOMAIN cache : cache[q].flight \in {"none", "asked", "answered"}
    /\ unsure \subseteq Thing /\ missed \subseteq Query /\ strayed \in BOOLEAN

Begins(d) ==
    CASE "phone" \in d -> "userTab"
      [] "roles" \in d -> "dashboard"
      [] "images" \in d -> "images"
      [] OTHER -> "tags"
Init ==
    /\ duty \in Duty
    /\ value = [t \in Thing |-> IF t \notin Stock THEN Gone
                                ELSE IF t[1] = "user" THEN "user"
                                ELSE IF t[1] = "image" THEN "there" ELSE Blank.dot]
    /\ version = [t \in Thing |-> 0]
    /\ place = Begins(duty) /\ page = 1 /\ search = FALSE
    /\ form = Blank /\ palette = FALSE
    /\ cache = [q \in {Lists(Begins(duty), 1, FALSE)} |-> Observed(Empty)]
    /\ op = [s \in Slot |-> NoOp]
    /\ wish = [t \in Thing |-> ""] /\ unsure = {} /\ missed = {} /\ strayed = FALSE

-----------------------------------------------------------------------------
\* A list comes into view: it is fetched, or its fetch joined.
Open(q) ==
    /\ cache' = [x \in {q, Asked} |-> IF x = q THEN Observed(Entry(q)) ELSE Entry(x)]
    /\ missed' = IF Aged(Entry(q)) THEN {q} ELSE {}
Show(q) == Open(q) /\ strayed' = FALSE

\* Commands of the palette, items of the menu, links: the page is mounted anew.
Commands == Web \ {"dashboard"}
Visit(p) ==
    /\ p # place /\ p \in Web /\ place \in Web /\ (p \in Commands \/ ~palette)
    /\ (p = "dashboard" \/ p = "users") => "roles" \in duty
    /\ p = "images" => "images" \in duty
    /\ p = "tags" => "tags" \in duty
    /\ place' = p /\ page' = 1 /\ search' = FALSE /\ form' = Blank /\ palette' = FALSE
    /\ Show(Lists(p, 1, FALSE))
    /\ op' = [s \in Slot |-> [op[s] EXCEPT !.from = IF @ = "form" THEN "left" ELSE @]]
    /\ UNCHANGED <<server, wish, unsure>>
\* The tabs of the phone: only the list of the one that is shown is enabled.
SetTab(p) ==
    /\ place \in Tabs /\ p \in Tabs \ {place}
    /\ place' = p /\ Show(Lists(p, 1, FALSE))
    /\ UNCHANGED <<server, page, search, form, palette, op, wish, unsure>>
\* Cmd-K opens and closes it, Escape and a click beside it close it.
TogglePalette ==
    /\ place = "dashboard" /\ palette' = ~palette
    /\ UNCHANGED <<server, place, page, search, form, cache, op, ghost>>

InTable == place \in {"users", "images"}
Total == IF Shown = NoData THEN 0 ELSE Shown.total
\* The table marks the last page there is when its page is beyond it.
Marked == IF page > LastPage(Total, TableSize) THEN LastPage(Total, TableSize) ELSE page
GoToPage(n) ==
    /\ InTable /\ n \in 1..LastPage(Total, TableSize) \ {Marked}
    /\ page' = n /\ Open(Lists(place, n, search))
    /\ strayed' = (Total > Cardinality(Matching(Asked)))
    /\ UNCHANGED <<server, place, search, form, palette, op, wish, unsure>>
Search_KeepsPage ==
    /\ InTable
    /\ search' = ~search /\ Show(Lists(place, page, ~search))
    /\ UNCHANGED <<server, place, page, form, palette, op, wish, unsure>>
Search ==
    /\ InTable
    /\ search' = ~search /\ page' = 1 /\ Show(Lists(place, 1, ~search))
    /\ UNCHANGED <<server, place, form, palette, op, wish, unsure>>

\* The form of a tag: a name, one of the dots, or a colour of one's own.
EditForm(f) ==
    /\ place = "tags" /\ form # f
    /\ \/ f.name # NoName /\ f = [form EXCEPT !.name = f.name]
       \/ f = [form EXCEPT !.dot = f.dot, !.custom = ""]
       \/ f.custom # "" /\ f = [form EXCEPT !.custom = f.custom]
    /\ form' = f
    /\ UNCHANGED <<server, place, page, search, palette, cache, op, ghost>>
\* What the preview shows.
ActiveColor == IF form.custom # "" THEN form.custom ELSE form.dot

-----------------------------------------------------------------------------
Free(s) == op[s].pc = "idle" /\ (s = 1 \/ "haste" \in duty)
Pending(t) == \E s \in Slot : op[s].pc = "sent" /\ op[s].thing = t
Ask(s, t, want, sent, ver, from) ==
    /\ op' = [op EXCEPT ![s] = [pc |-> "sent", thing |-> t, want |-> sent,
                                version |-> ver, from |-> from]]
    /\ wish' = [wish EXCEPT ![t] = want]
    /\ unsure' = IF Pending(t) \/ (want = Gone /\ ver # version[t]) THEN unsure \cup {t} ELSE unsure \ {t}
    /\ UNCHANGED <<server, local, cache, missed, strayed>>

\* What can be done with a row of each list.
UserRow == {"role", "password"}
ImageRow == {"delete"}
Offered == [dashboard |-> {"role"}, users |-> {"role", "password"}, images |-> {"delete"},
            tags |-> {"delete"}, userTab |-> UserRow, imageTab |-> ImageRow]

\* The role of a row, on the dashboard or in the table of users.
UpdateRole(s, t, role) ==
    /\ Free(s) /\ "role" \in Offered[place] /\ ~palette
    /\ t \in Rows /\ role # Shown.rows[t]
    /\ Ask(s, t, role, role, 0, place)
\* handleResetPassword, with a password long enough: no list shows it.
ResetPassword(s, t) ==
    /\ Free(s) /\ "password" \in Offered[place] /\ t \in Rows
    /\ op' = [op EXCEPT ![s] = [pc |-> "sent", thing |-> t, want |-> "password",
                                version |-> 0, from |-> place]]
    /\ UNCHANGED <<server, local, cache, ghost>>
DeleteRow(s, t) ==
    /\ Free(s) /\ "delete" \in Offered[place] /\ t \in Rows
    /\ Ask(s, t, Gone, Gone, Shown.version[t], place)

\* handleCreate: the button waits for the tag that is being created.
Creating == \E s \in Slot : op[s].from = "form"
CreateTag_DotOnly(s) ==
    /\ Free(s) /\ place = "tags" /\ form.name # NoName /\ ~Creating
    /\ Ask(s, <<"tag", form.name>>, ActiveColor, form.dot, 0, "form")
CreateTag(s) ==
    /\ Free(s) /\ place = "tags" /\ form.name # NoName /\ ~Creating
    /\ Ask(s, <<"tag", form.name>>, ActiveColor, ActiveColor, 0, "form")

-----------------------------------------------------------------------------
\* UpdateUserRole, ResetUserPassword, ForceDeleteImage, and Create and Delete
\* of the tags: one statement each.
Work(s) ==
    LET t == op[s].thing  want == op[s].want  isTag == t[1] = "tag" IN
    /\ op[s].pc = "sent"
    /\ IF want = "password" \/ (want = Gone /\ isTag /\ op[s].version # version[t])
       THEN UNCHANGED server
       ELSE /\ value' = [value EXCEPT ![t] = want]
            /\ version' = [version EXCEPT ![t] = IF isTag /\ value[t] = Gone /\ want # Gone
                                                 THEN @ + 1 ELSE @]
            /\ version'[t] <= MaxTags
    /\ strayed' = (strayed \/ (want = Gone /\ value[t] # Gone))
    /\ op' = [op EXCEPT ![s].pc = "ok"]
    /\ UNCHANGED <<local, cache, wish, unsure, missed>>

\* The request fails without effect: it never reaches the server, or its
\* statement fails there.  Most of these calls do not even say so.
RequestFails(s) ==
    /\ op[s].pc = "sent"
    /\ unsure' = IF op[s].want = "password" THEN unsure ELSE unsure \cup {op[s].thing}
    /\ op' = [op EXCEPT ![s] = NoOp]
    /\ UNCHANGED <<server, local, cache, wish, missed, strayed>>

\* What a success makes be fetched again.
Invalidated_ByTable(o) ==
    {q \in Query : KindOf(q) = o.thing[1] /\ q.of \notin {"recent"} \cup Tabs}
Invalidated(o) ==
    CASE o.from = "dashboard" -> {First("recent")}
      [] o.from \in Tabs -> IF o.want = "password" THEN {} ELSE {First(o.from)}
      [] OTHER -> {q \in Query : KindOf(q) = o.thing[1] /\ q.of \notin {"recent"} \cup Tabs}
\* The list shown lacks a change for good when it is not the one that the page
\* of the call invalidates, or when its first fetch is kept.
FromHere(o) == o.from = place \/ (place = "tags" /\ o.from \in {"form", "left"})
LacksChange(o) ==
    KindOf(Asked) = o.thing[1] /\ (~FromHere(o) \/ (Loading(Entry(Asked)) /\ Aged(Entry(Asked))))

Succeed_KeepsLists(s) ==
    /\ op[s].pc = "ok"
    /\ form' = IF op[s].from = "form" THEN [form EXCEPT !.name = NoName, !.custom = ""] ELSE form
    /\ op' = [op EXCEPT ![s] = NoOp]
    /\ UNCHANGED <<server, place, page, search, palette, cache, wish, unsure, missed, strayed>>
\* onSuccess; that of a creation also empties the form, whatever is in it.
Succeed(s) ==
    /\ op[s].pc = "ok"
    /\ cache' = IF Asked \in Invalidated(op[s]) THEN [cache EXCEPT ![Asked] = Renewed(@)] ELSE cache
    /\ missed' = IF LacksChange(op[s]) THEN missed \cup {Asked}
                 ELSE IF Asked \in Invalidated(op[s]) /\ ~Loading(Entry(Asked)) THEN missed \ {Asked}
                 ELSE missed
    /\ form' = IF op[s].from = "form" THEN [form EXCEPT !.name = NoName, !.custom = ""] ELSE form
    /\ op' = [op EXCEPT ![s] = NoOp]
    /\ UNCHANGED <<server, place, page, search, palette, wish, unsure, strayed>>
\* The answer of a request that took effect never arrives.
LoseAnswer(s) ==
    /\ op[s].pc = "ok"
    /\ missed' = missed \cup {Asked}
    /\ op' = [op EXCEPT ![s] = NoOp]
    /\ UNCHANGED <<server, local, cache, wish, unsure, strayed>>

Serve(q) ==
    /\ cache[q].flight = "asked"
    /\ cache' = [cache EXCEPT ![q] = Served(@, Truth(q))]
    /\ UNCHANGED <<server, local, op, ghost>>
Land(q) ==
    /\ Aged(cache[q])
    /\ cache' = [cache EXCEPT ![q] = Landed(@)]
    /\ UNCHANGED <<server, local, op, ghost>>
\* The fetch and its retry failed.
FetchFails(q) ==
    /\ cache[q].flight = "asked"
    /\ cache' = [cache EXCEPT ![q] = Failed(@)] /\ missed' = missed \cup {q}
    /\ UNCHANGED <<server, local, op, wish, unsure, strayed>>

Form == [name: {NoName} \cup {t[2] : t \in Of("tag")}, dot: Dot, custom: Custom \cup {""}]
User ==
    \/ \E p \in Place : Visit(p) \/ SetTab(p)
    \/ "leisure" \in duty /\ (TogglePalette \/ Search)
    \/ \E n \in Page : GoToPage(n)
    \/ "tags" \in duty /\ \E f \in Form : EditForm(f)
    \/ \E s \in Slot :
          \/ CreateTag(s)
          \/ \E t \in Thing :
                \/ DeleteRow(s, t)
                \/ "leisure" \in duty /\ ResetPassword(s, t)
                \/ \E role \in Role : UpdateRole(s, t, role)
Next ==
    /\ \/ User
       \/ \E s \in Slot : Work(s) \/ RequestFails(s) \/ Succeed(s) \/ LoseAnswer(s)
       \/ \E q \in DOMAIN cache : Serve(q) \/ Land(q) \/ ("leisure" \in duty /\ FetchFails(q))
    /\ UNCHANGED duty
Spec == Init /\ [][Next]_vars

-----------------------------------------------------------------------------
AtRest == Resting(Entry(Asked)) /\ Shown # NoData /\ Asked \notin missed /\ \A s \in Slot : op[s] = NoOp

\* At rest a page shows what the server has, also where a request failed; and it
\* shows the roles that were chosen and the tags with the colours of the preview,
\* and nothing that was deleted, on whichever page that was asked for, except where
\* the request failed, two requests for the same thing overlapped, or a tag made
\* again was deleted by the row of its predecessor (DashboardPage.tsx:264-270,
\* UserManagementPage.tsx:17-35, TagManagePage.tsx:43-63).
AsAsked ==
    AtRest =>
        /\ \A t \in Rows : Shown.rows[t] = value[t]
        /\ \A t \in Of(KindOf(Asked)) \ unsure :
              /\ t \in Rows /\ wish[t] # "" => Shown.rows[t] = wish[t]
              /\ wish[t] = Gone => t \notin Rows

\* A table at rest is empty only when nothing matches, or after rows were
\* deleted under it or under the page it was reached from (ImageManagementPage.tsx:8-30, :48-57).
EmptyOnlyAfterDeletion ==
    InTable /\ AtRest /\ Rows = {} /\ Matching(Asked) # {} => strayed

=============================================================================
