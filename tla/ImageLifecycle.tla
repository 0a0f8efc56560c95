--------------------------- MODULE ImageLifecycle ---------------------------
(***************************************************************************)
(* Upload, deletion and download of images: three stores (the rows of      *)
(* table images, the column users.storage_used and the object store) that  *)
(* every request updates one after the other, without a transaction, while *)
(* other requests run.                                                     *)
(*                                                                         *)
(* Each request is a Go handler of its own; a step of it ends at a         *)
(* statement on the database or a call of the storage.  An image is        *)
(* identified by its storage key, which holds the user and the clock in    *)
(* nanoseconds: two uploads are taken to have different keys.              *)
(*                                                                         *)
(* A definition Name_Variant is Name with a plausible bug in it; nothing   *)
(* uses it, it is there to show which property would notice.               *)
(***************************************************************************)
EXTENDS Integers, FiniteSets, FiniteSetsExt

CONSTANTS
    User,        \* accounts
    Admin,       \* those whose access token carries role = admin
    NoUser,      \* value of a user field that holds nothing
    Req,         \* request slots: the requests the server runs at once
    Image,       \* images that can ever be created
    NoImage,     \* value of an image field that holds nothing
    Size,        \* sizes of the files clients send
    MaxSize,     \* UPLOAD_MAX_SIZE_MB; 0 switches the check off
    Quota,       \* STORAGE_QUOTA_GB, for users who are not admin
    MaxFiles,    \* bound: files in one form, ids in one batch
    OnDisk,      \* TRUE: LocalStorage, which ignores the request's context
    Faults       \* the kinds of failure that may happen

FaultKind == {"storage",     \* a storage call fails, with or without effect
              "database",    \* a statement fails without effect
              "lostack",     \* a statement takes effect and reports an error
              "disconnect",  \* the client goes away: the context is cancelled
              "crash"}       \* the server process dies

ASSUME ConstAssumption ==
    /\ Admin \subseteq User
    /\ NoUser \notin User
    /\ NoImage \notin Image
    /\ IsFiniteSet(Req) /\ IsFiniteSet(Image)
    /\ Size \subseteq Nat
    /\ MaxSize \in Nat /\ Quota \in Nat /\ MaxFiles \in Nat
    /\ OnDisk \in BOOLEAN
    /\ Faults \subseteq FaultKind

VARIABLES
    row,      \* table images: the row of each image
    used,     \* users.storage_used
    objects,  \* object store: the keys that hold an object
    req,      \* what each request slot is doing
    unacked,  \* history: images whose INSERT took effect and reported an error
    slipped   \* history: what a failure has left undone, "charge" or "object"

vars == <<row, used, objects, req, unacked, slipped>>
history == <<unacked, slipped>>

Object == Image \X {"orig", "thumb"}
Orig(i) == <<i, "orig">>
Thumb(i) == <<i, "thumb">>

\* "none": no such id yet; "hidden": deleted_at is set; "gone": deleted
Status == {"none", "live", "hidden", "gone"}
Row == [status: Status, owner: User \cup {NoUser},
        size: Size \cup {0}, thumb: BOOLEAN]
NoRow == [status |-> "none", owner |-> NoUser, size |-> 0, thumb |-> FALSE]
GoneRow == [NoRow EXCEPT !.status = "gone"]

UploadPc == {"put", "thumbnail", "insert", "undo", "undoThumb"}
RemovePc == {"remove", "removeThumb"}
Pc == {"idle", "file", "charge", "pick", "refund", "fetch"} \cup UploadPc \cup RemovePc

Request == [pc: Pc, user: User \cup {NoUser}, img: Image \cup {NoImage},
            size: Size \cup {0}, thumb: BOOLEAN,
            left: 0..MaxFiles,   \* files of the form not yet stored
            todo: SUBSET Image,  \* ids not yet deleted
            cut: BOOLEAN]        \* the context is cancelled
Idle == [pc |-> "idle", user |-> NoUser, img |-> NoImage, size |-> 0,
         thumb |-> FALSE, left |-> 0, todo |-> {}, cut |-> FALSE]

TypeOK ==
    /\ row \in [Image -> Row]
    /\ used \in [User -> Nat]
    /\ objects \in SUBSET Object
    /\ req \in [Req -> Request]
    /\ unacked \in SUBSET Image /\ slipped \in SUBSET {"charge", "object"}

\* The database at first start: no image, every storage_used is 0.
Init ==
    /\ row = [i \in Image |-> NoRow]
    /\ used = [u \in User |-> 0]
    /\ objects = {}
    /\ req = [r \in Req |-> Idle]
    /\ unacked = {} /\ slipped = {}

At(r, pc) == req[r].pc = pc
Goto(r, pc) == req' = [req EXCEPT ![r].pc = pc]
Respond(r) == req' = [req EXCEPT ![r] = Idle]
Slips(what) == slipped' = slipped \cup {what}

-----------------------------------------------------------------------------
(***************************************************************************)
(* What a call of a store may report.  A cancelled context makes pgx and   *)
(* minio-go return at once with an error; os.Create and os.Remove do not   *)
(* look at it.                                                             *)
(***************************************************************************)
DbWorks(r) == ~req[r].cut
DbFails(r) == req[r].cut \/ "database" \in Faults
DbLosesAck(r) == ~req[r].cut /\ "lostack" \in Faults
StorageWorks(r) == OnDisk \/ ~req[r].cut
StorageFails(r) == ~StorageWorks(r) \/ "storage" \in Faults

PutWorks(r, o) == StorageWorks(r) /\ objects' = objects \cup {o} /\ UNCHANGED slipped

PutFails(r, o) ==
    /\ StorageFails(r)
    /\ \/ UNCHANGED <<objects, slipped>>
       \/ "storage" \in Faults /\ objects' = objects \cup {o} /\ Slips("object")

\* The error of Delete is ignored by every caller.
Remove(r, o) ==
    \/ /\ StorageWorks(r) \/ "storage" \in Faults
       /\ objects' = objects \ {o} /\ UNCHANGED slipped
    \/ StorageFails(r) /\ UNCHANGED objects /\ Slips("object")

-----------------------------------------------------------------------------
(***************************************************************************)
(* Upload: the handler stores the files of the form one after the other    *)
(* and stops with a 400 at the first that fails.                           *)
(***************************************************************************)
BeginUpload(r) ==
    /\ At(r, "idle")
    /\ \E u \in User, n \in 1..MaxFiles :
         req' = [req EXCEPT ![r] = [Idle EXCEPT !.pc = "file", !.user = u, !.left = n]]
    /\ UNCHANGED <<row, used, objects, history>>

\* The request after the current file: the next one, or the response.
FileDone(r) ==
    IF req[r].left > 1
    THEN [Idle EXCEPT !.pc = "file", !.user = req[r].user,
                      !.left = req[r].left - 1, !.cut = req[r].cut]
    ELSE Idle

\* A part of the form that cannot be opened is skipped.
SkipFile(r) ==
    /\ At(r, "file")
    /\ "storage" \in Faults
    /\ req' = [req EXCEPT ![r] = FileDone(r)]
    /\ UNCHANGED <<row, used, objects, history>>

TooLarge(s) == MaxSize > 0 /\ s > MaxSize
OverQuota_SizeNotAdded(u, s) == u \notin Admin /\ used[u] >= Quota
OverQuota(u, s) == u \notin Admin /\ used[u] + s > Quota
InUse(i) == \/ row[i].status # "none"
            \/ \E o \in objects : o[1] = i
            \/ \E r \in Req : req[r].img = i

\* Size, content and quota are checked; storage_used is read, not reserved.
AcceptFile(r) ==
    /\ At(r, "file")
    /\ req[r].user \in Admin \/ DbWorks(r)
    /\ \E s \in Size, i \in Image :
         /\ ~TooLarge(s)
         /\ ~OverQuota(req[r].user, s)
         /\ ~InUse(i)
         /\ req' = [req EXCEPT ![r].pc = "put", ![r].img = i, ![r].size = s]
    /\ UNCHANGED <<row, used, objects, history>>

\* Too large, not an image, over the quota, or the quota cannot be read.
RefuseFile(r) ==
    /\ At(r, "file")
    /\ Respond(r)
    /\ UNCHANGED <<row, used, objects, history>>

PutOriginal_ErrorIgnored(r) ==
    /\ At(r, "put")
    /\ PutWorks(r, Orig(req[r].img)) \/ PutFails(r, Orig(req[r].img))
    /\ Goto(r, "thumbnail")
    /\ UNCHANGED <<row, used, unacked>>

PutOriginal(r) ==
    /\ At(r, "put")
    /\ \/ PutWorks(r, Orig(req[r].img)) /\ Goto(r, "thumbnail")
       \/ PutFails(r, Orig(req[r].img)) /\ Respond(r)
    /\ UNCHANGED <<row, used, unacked>>

MakeThumbnail_ErrorIgnored(r) ==
    /\ At(r, "thumbnail")
    /\ PutWorks(r, Thumb(req[r].img)) \/ PutFails(r, Thumb(req[r].img))
    /\ req' = [req EXCEPT ![r].pc = "insert", ![r].thumb = TRUE]
    /\ UNCHANGED <<row, used, unacked>>

\* No thumbnail is made of a file that cannot be decoded, and one that cannot
\* be stored is left out: neither fails the upload.
MakeThumbnail(r) ==
    /\ At(r, "thumbnail")
    /\ \/ /\ PutWorks(r, Thumb(req[r].img))
          /\ req' = [req EXCEPT ![r].pc = "insert", ![r].thumb = TRUE]
       \/ /\ UNCHANGED <<objects, slipped>> \/ PutFails(r, Thumb(req[r].img))
          /\ Goto(r, "insert")
    /\ UNCHANGED <<row, used, unacked>>

NewRow(r) == [status |-> "live", owner |-> req[r].user,
              size |-> req[r].size, thumb |-> req[r].thumb]

InsertRow(r) ==
    /\ At(r, "insert")
    /\ \/ /\ DbWorks(r)
          /\ row' = [row EXCEPT ![req[r].img] = NewRow(r)]
          /\ Goto(r, "charge")
          /\ UNCHANGED history
       \/ DbFails(r) /\ Goto(r, "undo") /\ UNCHANGED <<row, history>>
       \/ /\ DbLosesAck(r)
          /\ row' = [row EXCEPT ![req[r].img] = NewRow(r)]
          /\ unacked' = unacked \cup {req[r].img} /\ Slips("charge")
          /\ Goto(r, "undo")
    /\ UNCHANGED <<used, objects>>

UndoOriginal_ForgetsThumbnail(r) ==
    /\ At(r, "undo")
    /\ Remove(r, Orig(req[r].img))
    /\ Respond(r)
    /\ UNCHANGED <<row, used, unacked>>

\* The insert failed: the objects are deleted and the form is given up.
UndoOriginal(r) ==
    /\ At(r, "undo")
    /\ Remove(r, Orig(req[r].img))
    /\ IF req[r].thumb THEN Goto(r, "undoThumb") ELSE Respond(r)
    /\ UNCHANGED <<row, used, unacked>>

UndoThumbnail(r) ==
    /\ At(r, "undoThumb")
    /\ Remove(r, Thumb(req[r].img))
    /\ Respond(r)
    /\ UNCHANGED <<row, used, unacked>>

Charge_OnlyWithThumbnail(r) ==
    /\ At(r, "charge")
    /\ used' = [used EXCEPT ![req[r].user] = @ + IF req[r].thumb THEN req[r].size ELSE 0]
    /\ req' = [req EXCEPT ![r] = FileDone(r)]
    /\ UNCHANGED <<row, objects, history>>

\* storage_used + size; the error is ignored.
Charge(r) ==
    /\ At(r, "charge")
    /\ LET charged == [used EXCEPT ![req[r].user] = @ + req[r].size]
       IN  \/ (DbWorks(r) \/ DbLosesAck(r)) /\ used' = charged /\ UNCHANGED slipped
           \/ DbFails(r) /\ UNCHANGED used /\ Slips("charge")
    /\ req' = [req EXCEPT ![r] = FileDone(r)]
    /\ UNCHANGED <<row, objects, unacked>>

-----------------------------------------------------------------------------
(***************************************************************************)
(* Deletion by the owner, of one image or a batch.  The row goes first,    *)
(* then the objects, then the size is taken off storage_used.              *)
(***************************************************************************)
BeginDelete(r) ==
    /\ At(r, "idle")
    /\ \E u \in User, ids \in SUBSET {i \in Image : row[i].status # "none"} :
         /\ Cardinality(ids) \in 1..MaxFiles
         /\ req' = [req EXCEPT ![r] = [Idle EXCEPT !.pc = "pick", !.user = u, !.todo = ids]]
    /\ UNCHANGED <<row, used, objects, history>>

IdDone_KeepsId(r, i) == [req[r] EXCEPT !.pc = "pick", !.img = NoImage]

\* The request after id i: the next id of the batch, or the response.
IdDone(r, i) ==
    IF req[r].todo # {i}
    THEN [Idle EXCEPT !.pc = "pick", !.user = req[r].user,
                      !.todo = req[r].todo \ {i}, !.cut = req[r].cut]
    ELSE Idle

Deletable_Hidden(r, i) ==
    row[i].status \in {"live", "hidden"} /\ row[i].owner = req[r].user
Deletable(r, i) == row[i].status = "live" /\ row[i].owner = req[r].user

DeleteRow(r) ==
    /\ At(r, "pick")
    /\ \E i \in req[r].todo :
         \/ /\ Deletable(r, i) /\ DbWorks(r)
            /\ row' = [row EXCEPT ![i] = GoneRow]
            /\ req' = [req EXCEPT ![r].pc = "remove", ![r].img = i,
                                  ![r].size = row[i].size, ![r].thumb = row[i].thumb]
            /\ UNCHANGED slipped
         \/ /\ Deletable(r, i) /\ DbLosesAck(r)
            /\ row' = [row EXCEPT ![i] = GoneRow]
            /\ req' = [req EXCEPT ![r] = IdDone(r, i)]
            /\ Slips("object")
         \/ /\ ~Deletable(r, i) \/ DbFails(r)
            /\ req' = [req EXCEPT ![r] = IdDone(r, i)]
            /\ UNCHANGED <<row, slipped>>
    /\ UNCHANGED <<used, objects, unacked>>

RemoveOriginal_ForgetsThumbnail(r) ==
    /\ At(r, "remove")
    /\ Remove(r, Orig(req[r].img))
    /\ Goto(r, "refund")
    /\ UNCHANGED <<row, used, unacked>>

RemoveOriginal(r) ==
    /\ At(r, "remove")
    /\ Remove(r, Orig(req[r].img))
    /\ Goto(r, IF req[r].thumb THEN "removeThumb" ELSE "refund")
    /\ UNCHANGED <<row, used, unacked>>

RemoveThumbnail(r) ==
    /\ At(r, "removeThumb")
    /\ Remove(r, Thumb(req[r].img))
    /\ Goto(r, "refund")
    /\ UNCHANGED <<row, used, unacked>>

Monus_Unfloored(a, b) == a - b

\* GREATEST(storage_used - size, 0); the error is ignored.
Monus(a, b) == IF a >= b THEN a - b ELSE 0

Refund(r) ==
    /\ At(r, "refund")
    /\ LET refunded == [used EXCEPT ![req[r].user] = Monus(@, req[r].size)]
       IN  \/ (DbWorks(r) \/ DbLosesAck(r)) /\ used' = refunded
           \/ DbFails(r) /\ UNCHANGED used
    /\ req' = [req EXCEPT ![r] = IdDone(r, req[r].img)]
    /\ UNCHANGED <<row, objects, history>>

\* An admin's deletion only sets deleted_at: one statement, no object removed
\* and nothing refunded.
ForceDelete ==
    /\ \E i \in Image :
         /\ row[i].status \in {"live", "hidden"}
         /\ row' = [row EXCEPT ![i].status = "hidden"]
    /\ UNCHANGED <<used, objects, req, history>>

-----------------------------------------------------------------------------
(***************************************************************************)
(* Download: the row is read, then its original is fetched by URL.  The    *)
(* status of the storage's answer is not looked at, so the error page of a *)
(* missing object is served as the file.                                   *)
(***************************************************************************)
BeginDownload(r) ==
    /\ At(r, "idle")
    /\ \E i \in Image :
         /\ row[i].status = "live"
         /\ req' = [req EXCEPT ![r] = [Idle EXCEPT !.pc = "fetch", !.img = i]]
    /\ UNCHANGED <<row, used, objects, history>>

FetchObject(r) ==
    /\ At(r, "fetch")
    /\ Respond(r)
    /\ UNCHANGED <<row, used, objects, history>>

ServesErrorPage(r) == At(r, "fetch") /\ ~OnDisk /\ Orig(req[r].img) \notin objects

-----------------------------------------------------------------------------
Disconnect(r) ==
    /\ "disconnect" \in Faults
    /\ ~At(r, "idle") /\ ~req[r].cut
    /\ req' = [req EXCEPT ![r].cut = TRUE]
    /\ UNCHANGED <<row, used, objects, history>>

\* Kill, or a shutdown that does not wait long enough: the next process starts
\* on the same stores and repairs nothing.
Crash ==
    /\ "crash" \in Faults
    /\ \E r \in Req : ~At(r, "idle")
    /\ req' = [r \in Req |-> Idle]
    /\ slipped' = {"charge", "object"}
    /\ UNCHANGED <<row, used, objects, unacked>>

\* What the handler of a request does once the request is there.
Work(r) ==
    \/ SkipFile(r) \/ AcceptFile(r) \/ RefuseFile(r) \/ PutOriginal(r)
    \/ MakeThumbnail(r) \/ InsertRow(r) \/ UndoOriginal(r) \/ UndoThumbnail(r)
    \/ Charge(r) \/ DeleteRow(r) \/ RemoveOriginal(r) \/ RemoveThumbnail(r)
    \/ Refund(r) \/ FetchObject(r)

Arrive(r) == BeginUpload(r) \/ BeginDelete(r) \/ BeginDownload(r)

Next ==
    \/ \E r \in Req : Arrive(r) \/ Work(r) \/ Disconnect(r)
    \/ ForceDelete
    \/ Crash

Spec == Init /\ [][Next]_vars

\* The Go scheduler runs every handler, and each call it makes returns.
FairSpec == Spec /\ \A r \in Req : WF_vars(Work(r))

-----------------------------------------------------------------------------
(***************************************************************************)
(* Properties.                                                             *)
(***************************************************************************)
Stored(i) == row[i].status \in {"live", "hidden"}

\* Every image of the catalogue can be shown: the objects its row names are
\* in the store, whatever other uploads, undos, deletions, failures and restarts
\* do.  It rests on the order of Upload (objects before row) and of HardDelete
\* (row before objects).  The exception is an image whose INSERT reported an
\* error and took effect: Upload deletes its objects.
NoDanglingRow ==
    \A i \in Image \ unacked : Stored(i) =>
        /\ Orig(i) \in objects
        /\ row[i].thumb => Thumb(i) \in objects

\* The request is still to give object o a row or to delete it.
Holds(r, o) ==
    /\ req[r].img = o[1]
    /\ \/ o[2] = "orig" /\ req[r].pc \in {"thumbnail", "insert", "undo", "remove"}
       \/ o[2] = "thumb" /\ req[r].thumb
          /\ req[r].pc \in {"insert", "undo", "undoThumb", "remove", "removeThumb"}

Named(o) == Stored(o[1]) /\ (o[2] = "thumb" => row[o[1]].thumb)

\* No object is orphaned: each is named by a row, or some request still has to
\* insert its row or to delete it (Upload's clean-up, HardDelete), unless a call
\* of the storage failed, a DELETE lost its answer or the server died.
NoOrphanObject ==
    \/ "object" \in slipped
    \/ \A o \in objects : Named(o) \/ \E r \in Req : Holds(r, o)

\* What a user has stored, and what the user's requests at pcs are about to add or to refund.
Bytes(u) ==
    SumFunction([i \in Image |-> IF Stored(i) /\ row[i].owner = u THEN row[i].size ELSE 0])
InFlight(u, pcs) ==
    SumFunction([r \in Req |-> IF req[r].user = u /\ req[r].pc \in pcs THEN req[r].size ELSE 0])

\* The largest file that anyone who has a quota can store.
LargestFile == Max({0} \cup {s \in Size : ~TooLarge(s) /\ s <= Quota})

\* Concurrent uploads may pass the check together, but never by more than one
\* largest file for each other request: storage_used and all that is admitted
\* stay within the quota plus that much, through failures and restarts.
QuotaOvershootBounded ==
    \A u \in User \ Admin :
        used[u] + InFlight(u, {"put", "thumbnail", "insert", "charge"})
            <= Quota + (Cardinality(Req) - 1) * LargestFile

\* storage_used never falls below what is stored, hidden images included: the
\* charge comes after the row and the refund is floored at 0, yet no order of
\* uploads and deletions makes bytes free of charge, as long as every charge
\* was made.
NeverUndercounts ==
    \/ "charge" \in slipped
    \/ \A u \in User : Bytes(u) + InFlight(u, RemovePc \cup {"refund"})
                         <= used[u] + InFlight(u, {"charge"})

\* A download serves an error page as the image only if the image was deleted
\* after its row was read.
ErrorPageOnlyAfterDelete ==
    \A r \in Req : ServesErrorPage(r) /\ req[r].img \notin unacked =>
        row[req[r].img].status = "gone"

\* The service implements the catalogue: through undos, failed calls, crashes
\* and deletions an image is shown only with its bytes, and never comes back.
\* An image whose upload was answered by an error counts as never published.
Shown(i) ==
    IF i \in unacked \/ row[i].status = "none" THEN "absent"
    ELSE IF row[i].status = "live" THEN "shown"
    ELSE IF row[i].status = "gone" THEN "erased" ELSE "hidden"
Catalog == INSTANCE ImageCatalog WITH
    state <- [i \in Image |-> Shown(i)],
    owner <- [i \in Image |-> IF i \in unacked THEN NoUser ELSE row[i].owner],
    bytes <- {i \in Image : Orig(i) \in objects}
ImplementsCatalog == Catalog!Spec

\* The bytes of a deleted image leave the store for good, unless a call of the
\* storage failed, a DELETE lost its answer or the server died.
DeletedObjectsGo ==
    \A i \in Image : row[i].status = "gone" ~>
        "object" \in slipped \/ (Orig(i) \notin objects /\ Thumb(i) \notin objects)

\* Every request is answered.
RequestsAnswered == \A r \in Req : ~At(r, "idle") ~> At(r, "idle")

=============================================================================
