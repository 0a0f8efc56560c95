------------------------------ MODULE TagMarks ------------------------------
(***************************************************************************)
(* Tags and the marks users put on images with them: the tables tags and   *)
(* image_tags, and the handlers that change them.  A handler is a sequence *)
(* of statements; requests interleave.  A client names a tag by an id it   *)
(* once read, so the tag may be gone, or exist again under another id.     *)
(*                                                                         *)
(* A definition Name_Variant is Name with a plausible bug in it.           *)
(***************************************************************************)
EXTENDS Integers, FiniteSets

CONSTANTS
    Image, NoImage, User, NoUser,
    Name,       \* names of tags
    Req,        \* request slots
    MaxId,      \* bound: tags.id
    MaxChanges, \* bound: images deleted
    Faults      \* subset of {"database"}

ASSUME TagAssumption ==
    /\ NoImage \notin Image /\ NoUser \notin User
    /\ MaxId \in Nat /\ MaxChanges \in Nat
    /\ Faults \subseteq {"database"}

VARIABLES
    image,  \* images: "public" (no handler writes another is_public), "hidden"
            \* (deleted_at is set) or "gone"
    tagId,  \* tags: the id under a name, 0 if there is none
    lastId, \* the sequence of tags.id
    marks,  \* image_tags
    told,   \* history: answers "added" less answers "removed" since the mark was cleared
    req,
    changes

vars == <<image, tagId, lastId, marks, told, req, changes>>

TagId == 1..MaxId
Mark == Image \X TagId \X User
Request == [pc: {"idle", "unmark", "mark", "addcheck", "upsert", "link",
                 "removecheck", "remove", "ok", "refused"},
            image: Image \cup {NoImage}, tag: 0..MaxId, user: User \cup {NoUser},
            todo: SUBSET Name, asked: SUBSET Name]
Idle == [pc |-> "idle", image |-> NoImage, tag |-> 0, user |-> NoUser, todo |-> {}, asked |-> {}]

TypeOK ==
    /\ image \in [Image -> {"public", "hidden", "gone"}]
    /\ tagId \in [Name -> 0..MaxId] /\ lastId \in 0..MaxId
    /\ marks \subseteq Mark /\ told \in [Mark -> -1..2]
    /\ req \in [Req -> Request]
    /\ \A r \in Req :
         /\ req[r].pc \in {"unmark", "mark"} => req[r].tag # 0 /\ req[r].user \in User
         /\ req[r].pc \notin {"idle", "ok", "refused"} => req[r].image \in Image
    /\ changes \in 0..MaxChanges

Init ==
    /\ image = [i \in Image |-> "public"]
    /\ tagId = [n \in Name |-> 0] /\ lastId = 0
    /\ marks = {} /\ told = [m \in Mark |-> 0]
    /\ req = [r \in Req |-> Idle]
    /\ changes = 0

At(r, pc) == req[r].pc = pc
DbFails == "database" \in Faults
Answer(r, how) == req' = [req EXCEPT ![r].pc = how]
Goto(r, pc) == Answer(r, pc)
Issued == 1..lastId
Exists(i) == image[i] # "gone"
Live(i) == image[i] = "public"
TagExists(t) == \E n \in Name : tagId[n] = t
Asks(r, q) == At(r, "idle") /\ req' = [req EXCEPT ![r] = q]
Clear(gone) ==
    /\ marks' = marks \ gone
    /\ told' = [m \in Mark |-> IF m \in gone THEN 0 ELSE told[m]]
Tables == <<image, tagId, lastId, marks, told, changes>>

-----------------------------------------------------------------------------
(* ToggleTag: any logged-in user, any image: DELETE, and if no row was     *)
(* there, INSERT.                                                          *)

BeginToggle_IdNotRequired(r) ==
    /\ \E i \in Image, t \in 0..lastId, u \in User :
         Asks(r, [Idle EXCEPT !.pc = "unmark", !.image = i, !.tag = t, !.user = u])
    /\ UNCHANGED Tables

BeginToggle(r) ==
    /\ \E i \in Image, t \in Issued, u \in User :
         Asks(r, [Idle EXCEPT !.pc = "unmark", !.image = i, !.tag = t, !.user = u])
    /\ UNCHANGED Tables

Wanted(r) == <<req[r].image, req[r].tag, req[r].user>>

Unmark(r) ==
    /\ At(r, "unmark")
    /\ \/ /\ Wanted(r) \in marks
          /\ marks' = marks \ {Wanted(r)} /\ told' = [told EXCEPT ![Wanted(r)] = @ - 1]
          /\ Answer(r, "ok")
       \/ /\ Wanted(r) \notin marks
          /\ Goto(r, "mark")
          /\ UNCHANGED <<marks, told>>
       \/ /\ DbFails
          /\ Answer(r, "refused")
          /\ UNCHANGED <<marks, told>>
    /\ UNCHANGED <<image, tagId, lastId, changes>>

\* The primary key and the foreign keys accept the row.
Insertable_NoForeignKey(m) == m \notin marks
Insertable(m) == m \notin marks /\ Exists(m[1]) /\ TagExists(m[2])

InsertMark_OnConflictDoNothing(r) ==
    /\ At(r, "mark")
    /\ Insertable(Wanted(r)) \/ Wanted(r) \in marks
    /\ marks' = marks \cup {Wanted(r)}
    /\ told' = [told EXCEPT ![Wanted(r)] = @ + 1]
    /\ Answer(r, "ok")
    /\ UNCHANGED <<image, tagId, lastId, changes>>

InsertMark(r) ==
    /\ At(r, "mark")
    /\ \/ /\ Insertable(Wanted(r))
          /\ marks' = marks \cup {Wanted(r)} /\ told' = [told EXCEPT ![Wanted(r)] = @ + 1]
          /\ Answer(r, "ok")
       \/ /\ ~Insertable(Wanted(r)) \/ DbFails
          /\ Answer(r, "refused")
          /\ UNCHANGED <<marks, told>>
    /\ UNCHANGED <<image, tagId, lastId, changes>>

-----------------------------------------------------------------------------
(* AddTags: the image must be public; each name is created if need be and  *)
(* linked, and the errors of both statements are ignored.                  *)

BeginAddTags(r) ==
    /\ \E i \in Image, names \in SUBSET Name \ {{}} :
         Asks(r, [Idle EXCEPT !.pc = "addcheck", !.image = i, !.todo = names, !.asked = names])
    /\ UNCHANGED Tables

\* IsImagePublic: false, too, when its statement fails.
CheckPublic(r, here, next) ==
    /\ At(r, here)
    /\ \/ image[req[r].image] = "public" /\ Goto(r, next)
       \/ (image[req[r].image] # "public" \/ DbFails) /\ Answer(r, "refused")
    /\ UNCHANGED Tables

\* INSERT ... ON CONFLICT (name) DO UPDATE: the id of the name, new or not.
Upsert(n) ==
    \/ tagId[n] # 0 /\ UNCHANGED <<tagId, lastId>>
    \/ /\ tagId[n] = 0 /\ lastId < MaxId
       /\ tagId' = [tagId EXCEPT ![n] = lastId + 1]
       /\ lastId' = lastId + 1

UpsertTag(r) ==
    /\ At(r, "upsert")
    /\ \E n \in req[r].todo :
         \/ /\ Upsert(n)
            /\ req' = [req EXCEPT ![r].pc = "link", ![r].todo = @ \ {n}, ![r].tag = tagId'[n]]
         \/ /\ DbFails
            /\ req' = [req EXCEPT ![r].pc = IF req[r].todo = {n} THEN "ok" ELSE "upsert",
                                  ![r].todo = @ \ {n}]
            /\ UNCHANGED <<tagId, lastId>>
    /\ UNCHANGED <<image, marks, told, changes>>

\* The INSERT names no user_id, which is part of the primary key and so NOT
\* NULL: no row is ever added, and the error is ignored.
Link(r) ==
    /\ At(r, "link")
    /\ Goto(r, IF req[r].todo = {} THEN "ok" ELSE "upsert")
    /\ UNCHANGED Tables

(* RemoveTag: the image must be public; the marks of all users go. *)

BeginRemoveTag(r) ==
    /\ \E i \in Image, t \in Issued :
         Asks(r, [Idle EXCEPT !.pc = "removecheck", !.image = i, !.tag = t])
    /\ UNCHANGED Tables

RemoveMarks(r) ==
    /\ At(r, "remove")
    /\ \/ /\ Clear({m \in Mark : m[1] = req[r].image /\ m[2] = req[r].tag})
          /\ Answer(r, "ok")
       \/ /\ DbFails
          /\ Answer(r, "refused")
          /\ UNCHANGED <<marks, told>>
    /\ UNCHANGED <<image, tagId, lastId, changes>>

Respond(r) ==
    /\ req[r].pc \in {"ok", "refused"}
    /\ req' = [req EXCEPT ![r] = Idle]
    /\ UNCHANGED Tables

-----------------------------------------------------------------------------
(* Handlers of one statement. *)

CreateTag ==
    /\ \E n \in Name : Upsert(n)
    /\ UNCHANGED <<image, marks, told, req, changes>>

\* ON DELETE CASCADE takes the marks of the tag along.
DeleteTag ==
    /\ \E n \in Name :
         /\ tagId[n] # 0
         /\ tagId' = [tagId EXCEPT ![n] = 0]
         /\ Clear({m \in Mark : m[2] = tagId[n]})
    /\ UNCHANGED <<image, lastId, req, changes>>

\* HardDelete, with the cascade.
DeleteImage ==
    /\ changes < MaxChanges /\ changes' = changes + 1
    /\ \E i \in Image :
         /\ Live(i)
         /\ image' = [image EXCEPT ![i] = "gone"]
         /\ Clear({m \in Mark : m[1] = i})
    /\ UNCHANGED <<tagId, lastId, req>>

\* ForceDeleteImage: the row stays, and its marks with it.
HideImage ==
    /\ changes < MaxChanges /\ changes' = changes + 1
    /\ \E i \in Image : image' = [image EXCEPT ![i] = IF @ = "gone" THEN @ ELSE "hidden"]
    /\ UNCHANGED <<tagId, lastId, marks, told, req>>

Next ==
    \/ \E r \in Req :
         \/ BeginToggle(r) \/ Unmark(r) \/ InsertMark(r)
         \/ BeginAddTags(r) \/ CheckPublic(r, "addcheck", "upsert") \/ UpsertTag(r) \/ Link(r)
         \/ BeginRemoveTag(r) \/ CheckPublic(r, "removecheck", "remove") \/ RemoveMarks(r)
         \/ Respond(r)
    \/ CreateTag \/ DeleteTag \/ DeleteImage \/ HideImage

Spec == Init /\ [][Next]_vars

-----------------------------------------------------------------------------
\* The answers to toggles add up to what is stored: no toggle is lost or counted
\* twice, although toggles of one mark race between their DELETE and their
\* INSERT, and other requests clear or cascade in between.
TogglesCount == \A m \in Mark : told[m] = IF m \in marks THEN 1 ELSE 0

\* A mark hangs on an image and a tag that exist: a stale tag id marks nothing,
\* and a tag created anew under an old name inherits nothing (and the state is
\* of its type).
Attached == \A m \in marks : Exists(m[1]) /\ TagExists(m[2])
MarksAttached == TypeOK /\ Attached

\* Every statement is one step of the board or none.
Board == INSTANCE MarkBoard WITH
    images <- {i \in Image : Exists(i)},
    tags <- {t \in TagId : TagExists(t)}
ImplementsBoard == Board!Spec

\* docs/api.md, "add tags": an answered request leaves the image tagged.
AddedTagsLinked ==
    \A r \in Req : At(r, "ok") /\ req[r].asked # {} =>
        \A n \in req[r].asked : \E m \in marks : m[1] = req[r].image /\ m[2] = tagId[n]

=============================================================================
