------------------------ MODULE ImageLifecycle_proofs ------------------------
(***************************************************************************)
(* Proofs about ImageLifecycle, for all users, images, request slots,      *)
(* sizes, quotas and kinds of failure.                                     *)
(***************************************************************************)
EXTENDS ImageLifecycle, SumTheorems

USE DEF At, Goto, Respond, Orig, Thumb, Object

LEMMA SizeIsNat == \A s \in Size \cup {0} : s \in Nat
  BY ConstAssumption

LEMMA IdleTyped == Idle \in Request
  BY ConstAssumption DEF Idle, Request, Pc, UploadPc, RemovePc

\* The request after a file or an id is a request.
LEMMA NextRequestTyped ==
    ASSUME TypeOK, NEW r \in Req, NEW i
    PROVE  FileDone(r) \in Request /\ IdDone(r, i) \in Request
<1>1. req[r] \in Request
  BY DEF TypeOK
<1>2. ASSUME req[r].left > 1
      PROVE  req[r].left - 1 \in 0..MaxFiles
  BY <1>1, <1>2, ConstAssumption DEF Request
<1>3. FileDone(r) \in Request
  BY ZenonT(40), <1>1, <1>2, IdleTyped DEF FileDone, Idle, Request, Pc
<1>4. req[r].todo \ {i} \in SUBSET Image
  BY <1>1 DEF Request
<1>5. IdDone(r, i) \in Request
  BY ZenonT(40), <1>1, <1>4, IdleTyped DEF IdDone, Idle, Request, Pc
<1> QED BY <1>3, <1>5

\* Goto keeps a request a request, for every value of pc.
LEMMA GotoTyped ==
    ASSUME TypeOK, NEW r \in Req, NEW pc \in Pc, Goto(r, pc)
    PROVE  req' \in [Req -> Request]
  BY SMTT(30) DEF TypeOK, Request

LEMMA RespondTyped ==
    ASSUME TypeOK, NEW r \in Req, Respond(r)
    PROVE  req' \in [Req -> Request]
  BY IdleTyped DEF TypeOK

LEMMA ObjectCallsTyped ==
    ASSUME TypeOK, NEW r \in Req, NEW o \in Object
    PROVE  /\ PutWorks(r, o) => objects' \in SUBSET Object
           /\ PutFails(r, o) => objects' \in SUBSET Object
           /\ Remove(r, o) => objects' \in SUBSET Object
  BY DEF TypeOK, PutWorks, PutFails, Remove

\* While a request holds an image, img is one.  This is what makes the keys
\* that a step stores and deletes, and the row it writes, well defined.
ImgPc == UploadPc \cup RemovePc \cup {"refund", "fetch", "charge"}
UserPc == {"file", "charge", "pick", "refund"} \cup UploadPc \cup RemovePc
HeldImage ==
    \A r \in Req : /\ req[r].pc \in ImgPc => req[r].img \in Image
                   /\ req[r].pc \in UserPc => req[r].user \in User

TypeInv == TypeOK /\ HeldImage

LEMMA TypeInit == Init => TypeInv
<1> SUFFICES ASSUME Init PROVE TypeInv
  OBVIOUS
<1>1. NoRow \in Row
  BY DEF NoRow, Row, Status
<1>2. TypeOK
  BY <1>1, IdleTyped DEF Init, TypeOK
<1>3. HeldImage
  BY DEF Init, HeldImage, Idle, ImgPc, UserPc, UploadPc, RemovePc
<1> QED BY <1>2, <1>3 DEF TypeInv

\* What a step of request r does to req: r holds what its new pc needs.
LEMMA HeldStep ==
    ASSUME TypeInv, NEW r \in Req, NEW q \in Request,
           req' = [req EXCEPT ![r] = q],
           q.pc \in ImgPc => q.img \in Image,
           q.pc \in UserPc => q.user \in User
    PROVE  req' \in [Req -> Request] /\ HeldImage'
  BY DEF TypeInv, TypeOK, HeldImage

LEMMA IdleHeld ==
    /\ Idle.pc \in ImgPc => Idle.img \in Image
    /\ Idle.pc \in UserPc => Idle.user \in User
  BY DEF Idle, ImgPc, UserPc, UploadPc, RemovePc

LEMMA RespondHeld ==
    ASSUME TypeInv, NEW r \in Req, Respond(r)
    PROVE  req' \in [Req -> Request] /\ HeldImage'
  BY HeldStep, IdleTyped, IdleHeld

\* The next file or id needs only the user, which the request still has.
LEMMA NextRequestHeld ==
    ASSUME TypeInv, NEW r \in Req, NEW i, req[r].user \in User
    PROVE  /\ FileDone(r).pc \in ImgPc => FileDone(r).img \in Image
           /\ FileDone(r).pc \in UserPc => FileDone(r).user \in User
           /\ IdDone(r, i).pc \in ImgPc => IdDone(r, i).img \in Image
           /\ IdDone(r, i).pc \in UserPc => IdDone(r, i).user \in User
  BY IdleHeld DEF FileDone, IdDone, Idle, ImgPc, UserPc, UploadPc, RemovePc

\* Between two steps of one file a request keeps its image and its user.
LEMMA GotoHeld ==
    ASSUME TypeInv, NEW r \in Req, NEW pc \in Pc, Goto(r, pc),
           req[r].img \in Image, req[r].user \in User
    PROVE  req' \in [Req -> Request] /\ HeldImage'
<1>1. [req[r] EXCEPT !.pc = pc] \in Request
  BY DEF TypeInv, TypeOK, Request
<1> QED BY <1>1 DEF TypeInv, TypeOK, HeldImage, Request

\* A call of the storage slips, at most, to an object that is left.
LEMMA StorageCallsSlip ==
    ASSUME NEW r \in Req, NEW o
    PROVE  /\ PutWorks(r, o) \/ PutFails(r, o) \/ Remove(r, o) =>
                UNCHANGED slipped \/ Slips("object")
  BY DEF PutWorks, PutFails, Remove

LEMMA HistoryStep ==
    TypeInv /\ [Next]_vars =>
        unacked' \in SUBSET Image /\ slipped' \in SUBSET {"charge", "object"}
<1> SUFFICES ASSUME TypeInv, [Next]_vars
             PROVE  unacked' \in SUBSET Image /\ slipped' \in SUBSET {"charge", "object"}
  OBVIOUS
<1> USE DEF TypeInv, TypeOK
<1>1. ASSUME NEW r \in Req, Work(r)
      PROVE  /\ UNCHANGED unacked \/ (At(r, "insert") /\ unacked' = unacked \cup {req[r].img})
             /\ UNCHANGED slipped \/ Slips("object") \/ Slips("charge")
  <2>1. CASE PutOriginal(r) \/ MakeThumbnail(r) \/ UndoOriginal(r) \/ UndoThumbnail(r)
               \/ RemoveOriginal(r) \/ RemoveThumbnail(r)
    BY <2>1, StorageCallsSlip
       DEF PutOriginal, MakeThumbnail, UndoOriginal, UndoThumbnail, RemoveOriginal, RemoveThumbnail
  <2>2. CASE InsertRow(r)
    BY <2>2 DEF InsertRow, history
  <2>3. CASE Charge(r) \/ DeleteRow(r)
    BY <2>3 DEF Charge, DeleteRow
  <2>4. CASE SkipFile(r) \/ AcceptFile(r) \/ RefuseFile(r) \/ Refund(r) \/ FetchObject(r)
    BY <2>4 DEF SkipFile, AcceptFile, RefuseFile, Refund, FetchObject, history
  <2> QED BY <1>1, <2>1, <2>2, <2>3, <2>4 DEF Work
<1>2. ASSUME NEW r \in Req, Work(r)
      PROVE  unacked' \in SUBSET Image /\ slipped' \in SUBSET {"charge", "object"}
  BY <1>1, <1>2 DEF HeldImage, ImgPc, UploadPc, Slips
<1>3. ASSUME NEW r \in Req, Arrive(r) \/ Disconnect(r)
      PROVE  UNCHANGED history
  BY <1>3 DEF Arrive, BeginUpload, BeginDelete, BeginDownload, Disconnect
<1>4. CASE ForceDelete \/ Crash \/ UNCHANGED vars
  BY <1>4 DEF ForceDelete, Crash, vars, history
<1> QED BY <1>2, <1>3, <1>4 DEF Next, history

LEMMA TypeStep == TypeInv /\ [Next]_vars => TypeInv'
<1> SUFFICES ASSUME TypeInv, [Next]_vars PROVE TypeInv'
  OBVIOUS
<1>0. unacked' \in SUBSET Image /\ slipped' \in SUBSET {"charge", "object"}
  BY HistoryStep
<1> USE <1>0 DEF TypeInv
<1>1. ASSUME NEW r \in Req, Arrive(r) PROVE TypeInv'
  <2>1. CASE BeginUpload(r)
    <3>1. PICK u \in User, n \in 1..MaxFiles :
            req' = [req EXCEPT ![r] = [Idle EXCEPT !.pc = "file", !.user = u, !.left = n]]
      BY <2>1 DEF BeginUpload
    <3>2. n \in 0..MaxFiles
      BY ConstAssumption
    <3>3. [Idle EXCEPT !.pc = "file", !.user = u, !.left = n] \in Request
      BY <3>2, IdleTyped DEF Request, Pc
    <3> QED BY <2>1, <3>1, <3>3, HeldStep
            DEF BeginUpload, TypeOK, Idle, ImgPc, UserPc, UploadPc, RemovePc
  <2>2. CASE BeginDelete(r)
    <3>1. PICK u \in User, ids \in SUBSET Image :
            req' = [req EXCEPT ![r] = [Idle EXCEPT !.pc = "pick", !.user = u, !.todo = ids]]
      BY <2>2 DEF BeginDelete
    <3>2. [Idle EXCEPT !.pc = "pick", !.user = u, !.todo = ids] \in Request
      BY IdleTyped DEF Request, Pc
    <3> QED BY <2>2, <3>1, <3>2, HeldStep
            DEF BeginDelete, TypeOK, Idle, ImgPc, UserPc, UploadPc, RemovePc
  <2>3. CASE BeginDownload(r)
    <3>1. PICK i \in Image : req' = [req EXCEPT ![r] = [Idle EXCEPT !.pc = "fetch", !.img = i]]
      BY <2>3 DEF BeginDownload
    <3>2. [Idle EXCEPT !.pc = "fetch", !.img = i] \in Request
      BY IdleTyped DEF Request, Pc
    <3> QED BY <2>3, <3>1, <3>2, HeldStep
            DEF BeginDownload, TypeOK, Idle, ImgPc, UserPc, UploadPc, RemovePc
  <2> QED BY <1>1, <2>1, <2>2, <2>3 DEF Arrive
<1>2. ASSUME NEW r \in Req, Work(r) PROVE TypeInv'
  <2> USE <1>2
  <2>0. req[r] \in Request
    BY DEF TypeOK
  <2>1. CASE SkipFile(r)
    <3>1. req[r].user \in User
      BY <2>1 DEF SkipFile, HeldImage, UserPc
    <3> QED BY <2>1, <3>1, HeldStep, NextRequestTyped, NextRequestHeld DEF SkipFile, TypeOK
  <2>2. CASE AcceptFile(r)
    <3>1. PICK s \in Size, i \in Image :
            req' = [req EXCEPT ![r].pc = "put", ![r].img = i, ![r].size = s]
      BY <2>2 DEF AcceptFile
    <3>2. req[r].user \in User
      BY <2>2 DEF AcceptFile, HeldImage, UserPc
    <3>3. req' = [req EXCEPT ![r] = [@ EXCEPT !.pc = "put", !.img = i, !.size = s]]
      BY <3>1
    <3>4. [req[r] EXCEPT !.pc = "put", !.img = i, !.size = s] \in Request
      BY <2>0 DEF Request, Pc, UploadPc
    <3> QED BY <2>0, <2>2, <3>2, <3>3, <3>4, HeldStep DEF AcceptFile, TypeOK, Request
  <2>3. CASE RefuseFile(r)
    BY <2>3, RespondHeld DEF RefuseFile, TypeOK
  <2>4. CASE PutOriginal(r)
    <3>1. req[r].img \in Image /\ req[r].user \in User
      BY <2>4 DEF PutOriginal, HeldImage, ImgPc, UserPc, UploadPc
    <3>2. objects' \in SUBSET Object
      BY <2>4, <3>1, ObjectCallsTyped DEF PutOriginal
    <3>3. req' \in [Req -> Request] /\ HeldImage'
      BY <2>4, <3>1, GotoHeld, RespondHeld DEF PutOriginal, Pc, UploadPc
    <3> QED BY <2>4, <3>2, <3>3 DEF PutOriginal, TypeOK
  <2>5. CASE MakeThumbnail(r)
    <3>1. req[r].img \in Image /\ req[r].user \in User
      BY <2>5 DEF MakeThumbnail, HeldImage, ImgPc, UserPc, UploadPc
    <3>2. objects' \in SUBSET Object
      BY <2>5, <3>1, ObjectCallsTyped DEF MakeThumbnail, TypeOK
    <3>3. CASE req' = [req EXCEPT ![r].pc = "insert", ![r].thumb = TRUE]
      <4>1. req' = [req EXCEPT ![r] = [@ EXCEPT !.pc = "insert", !.thumb = TRUE]]
        BY <3>3
      <4>2. [req[r] EXCEPT !.pc = "insert", !.thumb = TRUE] \in Request
        BY <2>0 DEF Request, Pc, UploadPc
      <4>3. req' \in [Req -> Request] /\ HeldImage'
        BY <2>0, <3>1, <4>1, <4>2, HeldStep DEF Request
      <4> QED BY <2>5, <3>2, <4>3 DEF MakeThumbnail, TypeOK
    <3>4. CASE Goto(r, "insert")
      <4>1. req' \in [Req -> Request] /\ HeldImage'
        BY <3>1, <3>4, GotoHeld DEF Pc, UploadPc
      <4> QED BY <2>5, <3>2, <4>1 DEF MakeThumbnail, TypeOK
    <3> QED BY <2>5, <3>3, <3>4 DEF MakeThumbnail
  <2>6. CASE InsertRow(r)
    <3>1. req[r].img \in Image /\ req[r].user \in User
      BY <2>6 DEF InsertRow, HeldImage, ImgPc, UserPc, UploadPc
    <3>2. NewRow(r) \in Row
      BY <2>0, <3>1 DEF NewRow, Row, Request, Status
    <3>3. row' \in [Image -> Row]
      BY <2>6, <3>2 DEF InsertRow, TypeOK
    <3>4. req' \in [Req -> Request] /\ HeldImage'
      BY <2>6, <3>1, GotoHeld DEF InsertRow, Pc, UploadPc
    <3> QED BY <2>6, <3>3, <3>4 DEF InsertRow, TypeOK
  <2>7. CASE UndoOriginal(r)
    <3>1. req[r].img \in Image /\ req[r].user \in User
      BY <2>7 DEF UndoOriginal, HeldImage, ImgPc, UserPc, UploadPc
    <3>2. objects' \in SUBSET Object
      BY <2>7, <3>1, ObjectCallsTyped DEF UndoOriginal
    <3>3. req' \in [Req -> Request] /\ HeldImage'
      BY <2>7, <3>1, GotoHeld, RespondHeld DEF UndoOriginal, Pc, UploadPc
    <3> QED BY <2>7, <3>2, <3>3 DEF UndoOriginal, TypeOK
  <2>8. CASE UndoThumbnail(r)
    <3>1. req[r].img \in Image
      BY <2>8 DEF UndoThumbnail, HeldImage, ImgPc, UploadPc
    <3>2. objects' \in SUBSET Object
      BY <2>8, <3>1, ObjectCallsTyped DEF UndoThumbnail
    <3> QED BY <2>8, <3>2, RespondHeld DEF UndoThumbnail, TypeOK
  <2>9. CASE Charge(r)
    <3>1. req[r].user \in User
      BY <2>9 DEF Charge, HeldImage, UserPc
    <3>2. req[r].size \in Nat
      BY <2>0, SizeIsNat DEF Request
    <3>3. used' \in [User -> Nat]
      BY <2>9, <3>1, <3>2 DEF Charge, TypeOK
    <3>4. FileDone(r) \in Request
      BY NextRequestTyped
    <3>5. /\ FileDone(r).pc \in ImgPc => FileDone(r).img \in Image
          /\ FileDone(r).pc \in UserPc => FileDone(r).user \in User
      BY <3>1, NextRequestHeld
    <3>6. req' \in [Req -> Request] /\ HeldImage'
      BY <2>9, <3>4, <3>5, HeldStep DEF Charge
    <3> QED BY <2>9, <3>3, <3>6 DEF Charge, TypeOK
  <2>10. CASE DeleteRow(r)
    <3>1. req[r].user \in User
      BY <2>10 DEF DeleteRow, HeldImage, UserPc
    <3>2. PICK i \in req[r].todo :
            \/ /\ row' = [row EXCEPT ![i] = GoneRow]
               /\ req' = [req EXCEPT ![r].pc = "remove", ![r].img = i,
                                     ![r].size = row[i].size, ![r].thumb = row[i].thumb]
            \/ /\ row' = [row EXCEPT ![i] = GoneRow] \/ UNCHANGED row
               /\ req' = [req EXCEPT ![r] = IdDone(r, i)]
      BY <2>10 DEF DeleteRow
    <3>3. i \in Image
      BY <2>0, <3>2 DEF Request
    <3>4. GoneRow \in Row
      BY DEF GoneRow, NoRow, Row, Status
    <3>5. row' \in [Image -> Row]
      BY <3>2, <3>4 DEF TypeOK
    <3>6. CASE req' = [req EXCEPT ![r] = IdDone(r, i)]
      <4>1. req' \in [Req -> Request] /\ HeldImage'
        BY <3>1, <3>6, HeldStep, NextRequestTyped, NextRequestHeld
      <4> QED BY <2>10, <3>5, <4>1 DEF DeleteRow, TypeOK
    <3>7. CASE req' = [req EXCEPT ![r].pc = "remove", ![r].img = i,
                                  ![r].size = row[i].size, ![r].thumb = row[i].thumb]
      <4> DEFINE q == [req[r] EXCEPT !.pc = "remove", !.img = i,
                                     !.size = row[i].size, !.thumb = row[i].thumb]
      <4>1. req' = [req EXCEPT ![r] = q]
        BY <3>7
      <4>2. row[i] \in Row
        BY <3>3 DEF TypeOK
      <4>3. q \in Request
        BY <2>0, <3>3, <4>2 DEF Request, Row, Pc, RemovePc
      <4>4. q.img \in Image /\ q.user \in User
        BY <2>0, <3>1, <3>3 DEF Request
      <4> HIDE DEF q
      <4>5. req' \in [Req -> Request] /\ HeldImage'
        BY <4>1, <4>3, <4>4, HeldStep
      <4> QED BY <2>10, <3>5, <4>5 DEF DeleteRow, TypeOK
    <3> QED BY <3>2, <3>6, <3>7
  <2>11. CASE RemoveOriginal(r)
    <3>1. req[r].img \in Image /\ req[r].user \in User
      BY <2>11 DEF RemoveOriginal, HeldImage, ImgPc, UserPc, RemovePc
    <3>2. objects' \in SUBSET Object
      BY <2>11, <3>1, ObjectCallsTyped DEF RemoveOriginal
    <3>3. req' \in [Req -> Request] /\ HeldImage'
      BY <2>11, <3>1, GotoHeld DEF RemoveOriginal, Pc, RemovePc
    <3> QED BY <2>11, <3>2, <3>3 DEF RemoveOriginal, TypeOK
  <2>12. CASE RemoveThumbnail(r)
    <3>1. req[r].img \in Image /\ req[r].user \in User
      BY <2>12 DEF RemoveThumbnail, HeldImage, ImgPc, UserPc, RemovePc
    <3>2. objects' \in SUBSET Object
      BY <2>12, <3>1, ObjectCallsTyped DEF RemoveThumbnail
    <3>3. req' \in [Req -> Request] /\ HeldImage'
      BY <2>12, <3>1, GotoHeld DEF RemoveThumbnail, Pc
    <3> QED BY <2>12, <3>2, <3>3 DEF RemoveThumbnail, TypeOK
  <2>13. CASE Refund(r)
    <3>1. req[r].user \in User
      BY <2>13 DEF Refund, HeldImage, UserPc
    <3>2. req[r].size \in Nat
      BY <2>0, SizeIsNat DEF Request
    <3>3. used' \in [User -> Nat]
      BY <2>13, <3>1, <3>2 DEF Refund, Monus, TypeOK
    <3> DEFINE next == IdDone(r, req[r].img)
    <3>4. next \in Request
      BY NextRequestTyped
    <3>5. /\ next.pc \in ImgPc => next.img \in Image
          /\ next.pc \in UserPc => next.user \in User
      BY <3>1, NextRequestHeld
    <3>6. req' \in [Req -> Request] /\ HeldImage'
      BY <2>13, <3>4, <3>5, HeldStep DEF Refund
    <3> QED BY <2>13, <3>3, <3>6 DEF Refund, TypeOK
  <2>14. CASE FetchObject(r)
    BY <2>14, RespondHeld DEF FetchObject, TypeOK
  <2> QED BY <2>1, <2>2, <2>3, <2>4, <2>5, <2>6, <2>7, <2>8, <2>9, <2>10,
             <2>11, <2>12, <2>13, <2>14 DEF Work
<1>3. ASSUME NEW r \in Req, Disconnect(r) PROVE TypeInv'
  <2>1. req[r] \in Request /\ [req[r] EXCEPT !.cut = TRUE] \in Request
    BY DEF TypeOK, Request
  <2>2. req' = [req EXCEPT ![r] = [@ EXCEPT !.cut = TRUE]]
    BY <1>3 DEF Disconnect
  <2>3. req' \in [Req -> Request] /\ HeldImage'
    BY <2>1, <2>2, HeldStep DEF HeldImage, Request
  <2> QED BY <1>3, <2>3 DEF Disconnect, TypeOK
<1>4. CASE ForceDelete
  BY <1>4 DEF ForceDelete, TypeOK, HeldImage, Row, Status
<1>5. CASE Crash
  BY <1>5, IdleTyped, IdleHeld DEF Crash, TypeOK, HeldImage
<1>6. CASE UNCHANGED vars
  BY <1>6 DEF vars, TypeOK, HeldImage
<1> QED BY <1>1, <1>2, <1>3, <1>4, <1>5, <1>6 DEF Next

\* Every reachable state is well typed, storage_used never negative among it:
\* GREATEST(..., 0) is what keeps it so (image_service.go, HardDelete).
THEOREM TypeCorrect == Spec => []TypeOK
<1>1. Init => TypeInv
  BY TypeInit
<1>2. TypeInv /\ [Next]_vars => TypeInv'
  BY TypeStep
<1>3. TypeInv => TypeOK
  BY DEF TypeInv
<1> QED BY <1>1, <1>2, <1>3, PTL DEF Spec

-----------------------------------------------------------------------------
(***************************************************************************)
(* NoDanglingRow is not inductive: it holds because the requests that are  *)
(* about to write or to delete an object own its image.                    *)
(***************************************************************************)
Uploading(r) == req[r].pc \in UploadPc
Removing(r) == req[r].pc \in RemovePc

RowsHaveObjects ==
    \A i \in Image \ unacked : Stored(i) =>
        Orig(i) \in objects /\ (row[i].thumb => Thumb(i) \in objects)

\* No row yet of what is being uploaded, no row any more of what is removed.
RowsOfRequests ==
    \A r \in Req :
        /\ Uploading(r) => row[req[r].img].status = "none" \/ req[r].img \in unacked
        /\ req[r].pc \in {"put", "thumbnail", "insert"} => row[req[r].img].status = "none"
        /\ Removing(r) => row[req[r].img].status = "gone"

\* Before the insert, what the row will name is in the store.
ObjectsBeforeRow ==
    \A r \in Req :
        /\ req[r].pc \in {"thumbnail", "insert"} => Orig(req[r].img) \in objects
        /\ req[r].pc = "insert" /\ req[r].thumb => Thumb(req[r].img) \in objects
        /\ req[r].pc \in {"file", "put", "thumbnail"} => ~req[r].thumb

\* Two uploads have different keys.
UploadsApart ==
    \A r, q \in Req : Uploading(r) /\ Uploading(q) /\ req[r].img = req[q].img => r = q

Ownership == RowsHaveObjects /\ RowsOfRequests /\ ObjectsBeforeRow /\ UploadsApart
OwnInv == TypeInv /\ Ownership

LEMMA OwnInit == Init => Ownership
  BY DEF Init, Ownership, RowsHaveObjects, RowsOfRequests, ObjectsBeforeRow, UploadsApart,
         Stored, NoRow, Idle, Uploading, Removing, UploadPc, RemovePc

\* A request that becomes q, where q neither uploads nor removes, takes no
\* part in the ownership any more.
LEMMA ReleaseKeeps ==
    ASSUME OwnInv, NEW r \in Req, NEW q, q.pc \notin UploadPc \cup RemovePc,
           q.thumb = FALSE,
           req' = [req EXCEPT ![r] = q], UNCHANGED <<row, objects, unacked>>
    PROVE  Ownership'
  BY DEF OwnInv, TypeInv, TypeOK, Ownership, RowsHaveObjects, RowsOfRequests,
         ObjectsBeforeRow, UploadsApart, Stored, Uploading, Removing, UploadPc, RemovePc

LEMMA NextRequestReleases ==
    ASSUME NEW r \in Req, NEW i
    PROVE  /\ FileDone(r).pc \notin UploadPc \cup RemovePc
           /\ IdDone(r, i).pc \notin UploadPc \cup RemovePc
           /\ Idle.pc \notin UploadPc \cup RemovePc
           /\ ~FileDone(r).thumb /\ ~IdDone(r, i).thumb /\ ~Idle.thumb
  BY DEF FileDone, IdDone, Idle, UploadPc, RemovePc

LEMMA OwnStep ==
    ASSUME OwnInv, [Next]_vars
    PROVE  Ownership'
<1> USE DEF OwnInv, TypeInv, TypeOK, history
<1> USE DEF Ownership, RowsHaveObjects, RowsOfRequests, ObjectsBeforeRow, UploadsApart,
            Stored, Uploading, Removing, UploadPc, RemovePc
<1>1. ASSUME NEW r \in Req, Arrive(r) PROVE Ownership'
  <2>1. CASE BeginUpload(r)
    <3>1. PICK u \in User, n \in 1..MaxFiles :
            req' = [req EXCEPT ![r] = [Idle EXCEPT !.pc = "file", !.user = u, !.left = n]]
      BY <2>1 DEF BeginUpload
    <3> QED BY <2>1, <3>1, ReleaseKeeps DEF BeginUpload, Idle
  <2>2. CASE BeginDelete(r)
    <3>1. PICK u \in User, ids \in SUBSET Image :
            req' = [req EXCEPT ![r] = [Idle EXCEPT !.pc = "pick", !.user = u, !.todo = ids]]
      BY <2>2 DEF BeginDelete
    <3> QED BY <2>2, <3>1, ReleaseKeeps DEF BeginDelete, Idle
  <2>3. CASE BeginDownload(r)
    <3>1. PICK i \in Image : req' = [req EXCEPT ![r] = [Idle EXCEPT !.pc = "fetch", !.img = i]]
      BY <2>3 DEF BeginDownload
    <3> QED BY <2>3, <3>1, ReleaseKeeps DEF BeginDownload, Idle
  <2> QED BY <1>1, <2>1, <2>2, <2>3 DEF Arrive
<1>2. ASSUME NEW r \in Req, Work(r) PROVE Ownership'
  <2>1. CASE SkipFile(r)
    BY SMTT(30), <2>1, ReleaseKeeps, NextRequestReleases DEF SkipFile
  <2>2. CASE AcceptFile(r)
    <3>1. PICK s \in Size, i \in Image :
            /\ row[i].status = "none"
            /\ \A q \in Req : req[q].img # i
            /\ req' = [req EXCEPT ![r].pc = "put", ![r].img = i, ![r].size = s]
      BY <2>2 DEF AcceptFile, InUse
    <3>2. UNCHANGED <<row, objects, unacked>> /\ req[r].pc = "file"
      BY <2>2 DEF AcceptFile
    <3>3. RowsHaveObjects' /\ RowsOfRequests'
      BY <3>1, <3>2
    <3>5. /\ req'[r].pc = "put" /\ req'[r].img = i /\ req'[r].thumb = req[r].thumb
          /\ \A q \in Req : q # r => req'[q] = req[q] /\ req'[q].img # i
      BY <3>1 DEF Request
    <3>4. ObjectsBeforeRow'
      BY <3>2, <3>5
    <3>6. UploadsApart'
      BY <3>5
    <3> QED BY <3>3, <3>4, <3>6
  <2>3. CASE RefuseFile(r)
    BY ZenonT(40), <2>3, ReleaseKeeps, NextRequestReleases DEF RefuseFile
  <2>4. CASE PutOriginal(r)
    <3> DEFINE i == req[r].img
    <3>1. i \in Image /\ row[i].status = "none"
      BY <2>4 DEF PutOriginal, HeldImage, ImgPc
    <3>2. objects \subseteq objects' /\ UNCHANGED <<row, unacked>>
      BY <2>4 DEF PutOriginal, PutWorks, PutFails
    <3>3. CASE Respond(r)
      BY <3>2, <3>3 DEF Idle
    <3>4. CASE PutWorks(r, Orig(i)) /\ Goto(r, "thumbnail")
      BY <2>4, <3>2, <3>4 DEF PutOriginal, PutWorks
    <3> QED BY <2>4, <3>3, <3>4 DEF PutOriginal
  <2>5. CASE MakeThumbnail(r)
    <3> DEFINE i == req[r].img
    <3>1. Orig(i) \in objects /\ row[i].status = "none"
      BY <2>5 DEF MakeThumbnail
    <3>2. objects \subseteq objects' /\ UNCHANGED <<row, unacked>>
      BY <2>5 DEF MakeThumbnail, PutWorks, PutFails
    <3>3. CASE /\ PutWorks(r, Thumb(i))
               /\ req' = [req EXCEPT ![r].pc = "insert", ![r].thumb = TRUE]
      <4>1. Thumb(i) \in objects'
        BY <3>3 DEF PutWorks
      <4>2. \A q \in Req : q # r => req'[q] = req[q]
        BY <3>3
      <4>3. req'[r].pc = "insert" /\ req'[r].img = i
        BY <3>3 DEF Request
      <4>4. RowsHaveObjects' /\ RowsOfRequests'
        BY <2>5, <3>2, <4>2, <4>3 DEF MakeThumbnail
      <4>5. ObjectsBeforeRow'
        BY <2>5, <3>1, <3>2, <4>1, <4>2, <4>3 DEF MakeThumbnail
      <4>6. req[r].pc = "thumbnail"
        BY <2>5 DEF MakeThumbnail
      <4>7. UploadsApart'
        BY <4>2, <4>3, <4>6
      <4> QED BY <4>4, <4>5, <4>7
    <3>4. CASE Goto(r, "insert")
      BY <2>5, <3>1, <3>2, <3>4 DEF MakeThumbnail
    <3> QED BY <2>5, <3>3, <3>4 DEF MakeThumbnail
  <2>6. CASE InsertRow(r)
    <3> DEFINE i == req[r].img
    <3>1. i \in Image /\ row[i].status = "none"
      BY <2>6 DEF InsertRow, HeldImage, ImgPc
    <3>2. Orig(i) \in objects /\ (req[r].thumb => Thumb(i) \in objects)
      BY <2>6 DEF InsertRow
    <3>3. CASE row' = [row EXCEPT ![i] = NewRow(r)] /\ Goto(r, "charge") /\ UNCHANGED unacked
      <4>1. \A q \in Req : Uploading(q)' => Uploading(q) /\ q # r
        BY <3>3
      <4>2. \A q \in Req : Uploading(q)' => req[q].img # i
        BY <2>6, <4>1 DEF InsertRow
      <4>3. \A q \in Req : Removing(q)' => Removing(q) /\ req[q].img # i
        BY <3>1, <3>3
      <4>4. RowsHaveObjects'
        BY <2>6, <3>1, <3>2, <3>3 DEF InsertRow, NewRow
      <4>5. RowsOfRequests'
        BY <3>3, <4>1, <4>2, <4>3
      <4>6. ObjectsBeforeRow' /\ UploadsApart'
        BY <2>6, <3>3, <4>1 DEF InsertRow
      <4> QED BY <4>4, <4>5, <4>6
    <3>4. CASE Goto(r, "undo") /\ UNCHANGED <<row, unacked>>
      BY <2>6, <3>4 DEF InsertRow
    <3>5. CASE /\ row' = [row EXCEPT ![i] = NewRow(r)]
               /\ unacked' = unacked \cup {i}
               /\ Goto(r, "undo")
      <4>1. \A q \in Req : q # r => req'[q] = req[q]
        BY <3>5
      <4>2. req'[r].pc = "undo" /\ req'[r].img = i
        BY <3>5 DEF Request
      <4>3. \A q \in Req : q # r /\ Uploading(q) => req[q].img # i
        BY <2>6 DEF InsertRow
      <4>4. \A q \in Req : Removing(q) => req[q].img # i
        BY <3>1
      <4>5. RowsHaveObjects'
        BY <2>6, <3>5 DEF InsertRow
      <4>6. RowsOfRequests'
        BY <3>5, <4>1, <4>2, <4>3, <4>4
      <4>7. ObjectsBeforeRow' /\ UploadsApart'
        BY <2>6, <3>5, <4>1, <4>2 DEF InsertRow
      <4> QED BY <4>5, <4>6, <4>7
    <3> QED BY <2>6, <3>3, <3>4, <3>5 DEF InsertRow
  <2>7. CASE UndoOriginal(r)
    <3> DEFINE i == req[r].img
    <3>1. i \in Image /\ (row[i].status = "none" \/ i \in unacked)
      BY <2>7 DEF UndoOriginal, HeldImage, ImgPc
    <3>2. objects' = objects \/ objects' = objects \ {Orig(i)}
      BY <2>7 DEF UndoOriginal, Remove
    <3>3. \A q \in Req : q # r /\ Uploading(q) => req[q].img # i
      BY <2>7 DEF UndoOriginal
    <3>4. RowsHaveObjects'
      BY <2>7, <3>1, <3>2 DEF UndoOriginal
    <3>5. CASE Goto(r, "undoThumb")
      BY <2>7, <3>1, <3>2, <3>3, <3>4, <3>5 DEF UndoOriginal
    <3>6. CASE Respond(r)
      BY <2>7, <3>1, <3>2, <3>3, <3>4, <3>6 DEF UndoOriginal, Idle
    <3> QED BY <2>7, <3>5, <3>6 DEF UndoOriginal
  <2>8. CASE UndoThumbnail(r)
    BY <2>8 DEF UndoThumbnail, Remove, Idle
  <2>9. CASE Charge(r)
    BY <2>9, ReleaseKeeps, NextRequestReleases DEF Charge
  <2>10. CASE DeleteRow(r)
    <3>1. PICK i \in req[r].todo :
            \/ /\ row[i].status = "live"
               /\ row' = [row EXCEPT ![i] = GoneRow]
               /\ req' = [req EXCEPT ![r].pc = "remove", ![r].img = i,
                                     ![r].size = row[i].size, ![r].thumb = row[i].thumb]
            \/ req' = [req EXCEPT ![r] = IdDone(r, i)] /\ UNCHANGED row
            \/ /\ row[i].status = "live"
               /\ row' = [row EXCEPT ![i] = GoneRow]
               /\ req' = [req EXCEPT ![r] = IdDone(r, i)]
      BY <2>10 DEF DeleteRow, Deletable
    <3>2. CASE req' = [req EXCEPT ![r] = IdDone(r, i)] /\ UNCHANGED row
      BY <2>10, <3>2, ReleaseKeeps, NextRequestReleases DEF DeleteRow
    <3>3. CASE /\ row[i].status = "live"
               /\ row' = [row EXCEPT ![i] = GoneRow]
               /\ req' = [req EXCEPT ![r].pc = "remove", ![r].img = i,
                                     ![r].size = row[i].size, ![r].thumb = row[i].thumb]
      <4>1. i \in Image
        BY DEF Request
      <4>2. GoneRow.status = "gone"
        BY DEF GoneRow, NoRow
      <4>3. \A q \in Req : Uploading(q) /\ req[q].img = i =>
                               i \in unacked /\ req[q].pc \in {"undo", "undoThumb"}
        BY <3>3
      <4>4. RowsHaveObjects'
        BY <2>10, <3>3, <4>1, <4>2 DEF DeleteRow
      <4>5. RowsOfRequests'
        BY <2>10, <3>3, <4>1, <4>2, <4>3 DEF DeleteRow
      <4>6. ObjectsBeforeRow' /\ UploadsApart'
        <5>1. req'[r].pc = "remove" /\ \A q \in Req : q # r => req'[q] = req[q]
          BY <3>3
        <5>2. UNCHANGED <<objects, unacked>>
          BY <2>10 DEF DeleteRow
        <5>3. ObjectsBeforeRow'
          BY <5>1, <5>2
        <5> QED BY <5>1, <5>3
      <4> QED BY <4>4, <4>5, <4>6
    <3>4. CASE /\ row[i].status = "live"
               /\ row' = [row EXCEPT ![i] = GoneRow]
               /\ req' = [req EXCEPT ![r] = IdDone(r, i)]
      <4>1. i \in Image
        BY DEF Request
      <4>2. GoneRow.status = "gone"
        BY DEF GoneRow, NoRow
      <4>3. IdDone(r, i).pc \notin UploadPc \cup RemovePc /\ ~IdDone(r, i).thumb
        BY NextRequestReleases
      <4>4. \A q \in Req : q # r => req'[q] = req[q]
        BY <3>4
      <4>5. req'[r] = IdDone(r, i)
        BY <3>4
      <4>6. \A q \in Req : req[q].pc \in {"put", "thumbnail", "insert"} => req[q].img # i
        BY <3>4
      <4>7. RowsHaveObjects'
        BY <2>10, <3>4, <4>1, <4>2 DEF DeleteRow
      <4>8. RowsOfRequests'
        BY <2>10, <3>4, <4>1, <4>2, <4>3, <4>4, <4>5, <4>6 DEF DeleteRow
      <4>9. ObjectsBeforeRow' /\ UploadsApart'
        BY <2>10, <4>3, <4>4, <4>5 DEF DeleteRow
      <4> QED BY <4>7, <4>8, <4>9
    <3> QED BY <3>1, <3>2, <3>3, <3>4
  <2>11. CASE RemoveOriginal(r)
    BY <2>11 DEF RemoveOriginal, Remove
  <2>12. CASE RemoveThumbnail(r)
    BY <2>12 DEF RemoveThumbnail, Remove
  <2>13. CASE Refund(r)
    BY ZenonT(40), <2>13, ReleaseKeeps, NextRequestReleases DEF Refund
  <2>14. CASE FetchObject(r)
    BY SMTT(30), <2>14, ReleaseKeeps, NextRequestReleases DEF FetchObject
  <2> QED BY <1>2, <2>1, <2>2, <2>3, <2>4, <2>5, <2>6, <2>7, <2>8, <2>9, <2>10,
             <2>11, <2>12, <2>13, <2>14 DEF Work
<1>3. ASSUME NEW r \in Req, Disconnect(r) PROVE Ownership'
  BY <1>3 DEF Disconnect
<1>4. CASE ForceDelete
  BY <1>4 DEF ForceDelete
<1>5. CASE Crash
  BY <1>5 DEF Crash, Idle
<1>6. CASE UNCHANGED vars
  BY <1>6 DEF vars
<1> QED BY <1>1, <1>2, <1>3, <1>4, <1>5, <1>6 DEF Next

\* NoDanglingRow for every number of users, images and concurrent requests and
\* for every combination of failures and restarts: the order objects-row-charge
\* of Upload and row-objects-refund of HardDelete is right, but for an INSERT
\* that took effect and reported an error.
THEOREM DanglingFree == Spec => []NoDanglingRow
<1>1. Init => OwnInv
  BY TypeInit, OwnInit DEF OwnInv
<1>2. OwnInv /\ [Next]_vars => OwnInv'
  BY TypeStep, OwnStep DEF OwnInv
<1>3. OwnInv => NoDanglingRow
  BY DEF OwnInv, Ownership, RowsHaveObjects, NoDanglingRow
<1> QED BY <1>1, <1>2, <1>3, PTL DEF Spec

-----------------------------------------------------------------------------
(***************************************************************************)
(* ImageLifecycle implements ImageCatalog.                                 *)
(***************************************************************************)
Owner(i) == IF i \in unacked THEN NoUser ELSE row[i].owner
CatState == [i \in Image |-> Shown(i)]
CatOwner == [i \in Image |-> Owner(i)]
CatBytes == {i \in Image : Orig(i) \in objects}
CatVars == <<CatState, CatOwner, CatBytes>>

\* Rows that are not there have no owner, and an INSERT that reported an error
\* has left a row, though it may be deleted since.
RowsOwned ==
    /\ \A i \in Image : row[i].status \in {"none", "gone"} => row[i].owner = NoUser
    /\ \A i \in unacked : row[i].status # "none"
CatInv == OwnInv /\ RowsOwned

\* What a step does to the rows.
LEMMA RowSteps ==
    ASSUME OwnInv, [Next]_vars
    PROVE  \/ UNCHANGED <<row, unacked>>
           \/ \E r \in Req : InsertRow(r) \/ DeleteRow(r)
           \/ ForceDelete
  BY DEF Next, vars, history, Arrive, Work, BeginUpload, BeginDelete, BeginDownload, SkipFile, AcceptFile, RefuseFile,
         PutOriginal, MakeThumbnail, UndoOriginal, UndoThumbnail, Charge, RemoveOriginal, RemoveThumbnail,
         Refund, FetchObject, Disconnect, Crash

\* An insert writes the row of the image that its request holds, which was
\* not there, and whose bytes are stored.
LEMMA InsertWrites ==
    ASSUME OwnInv, NEW r \in Req, InsertRow(r)
    PROVE  /\ req[r].img \in Image /\ req[r].user \in User
           /\ row[req[r].img].status = "none" /\ Orig(req[r].img) \in objects
           /\ UNCHANGED objects
           /\ \/ UNCHANGED <<row, unacked>>
              \/ row' = [row EXCEPT ![req[r].img] = NewRow(r)]
                 /\ (UNCHANGED unacked \/ unacked' = unacked \cup {req[r].img})
<1>1. req[r].img \in Image /\ req[r].user \in User
  BY DEF InsertRow, OwnInv, TypeInv, HeldImage, ImgPc, UserPc, UploadPc
<1>2. row[req[r].img].status = "none" /\ Orig(req[r].img) \in objects
  BY DEF InsertRow, OwnInv, Ownership, RowsOfRequests, ObjectsBeforeRow
<1> QED BY <1>1, <1>2 DEF InsertRow, history

LEMMA DeleteWrites ==
    ASSUME OwnInv, NEW r \in Req, DeleteRow(r)
    PROVE  /\ UNCHANGED <<objects, unacked>>
           /\ \/ UNCHANGED row
              \/ \E i \in Image : row[i].status = "live" /\ row' = [row EXCEPT ![i] = GoneRow]
<1>1. req[r].todo \subseteq Image
  BY DEF OwnInv, TypeInv, TypeOK, Request
<1> QED BY <1>1 DEF DeleteRow, Deletable

LEMMA StepOwned == ASSUME CatInv, [Next]_vars PROVE CatInv'
<1>1. OwnInv'
  BY TypeStep, OwnStep DEF CatInv, OwnInv
<1>2. row \in [Image -> Row] /\ unacked \subseteq Image /\ RowsOwned /\ OwnInv
  BY DEF CatInv, OwnInv, TypeInv, TypeOK
<1>3. ASSUME UNCHANGED <<row, unacked>> PROVE RowsOwned'
  <2>1. row' = row /\ unacked' = unacked
    BY <1>3
  <2> QED BY <1>2, <2>1 DEF RowsOwned
<1>4. ASSUME NEW r \in Req, InsertRow(r) PROVE RowsOwned'
  <2>1. PICK i \in Image : i = req[r].img
    BY <1>2, <1>4, InsertWrites
  <2>2. \/ UNCHANGED <<row, unacked>>
        \/ row' = [row EXCEPT ![i] = NewRow(r)] /\ (UNCHANGED unacked \/ unacked' = unacked \cup {i})
    BY <1>2, <1>4, <2>1, InsertWrites
  <2>3. NewRow(r).status = "live"
    BY DEF NewRow
  <2> QED BY <1>2, <2>2, <2>3 DEF RowsOwned
<1>5. ASSUME NEW r \in Req, DeleteRow(r) PROVE RowsOwned'
  <2>1. GoneRow.status = "gone" /\ GoneRow.owner = NoUser
    BY DEF GoneRow, NoRow
  <2>2. /\ UNCHANGED unacked
        /\ \/ UNCHANGED row
           \/ \E i \in Image : row[i].status = "live" /\ row' = [row EXCEPT ![i] = GoneRow]
    BY <1>2, <1>5, DeleteWrites
  <2> QED BY <1>2, <2>1, <2>2 DEF RowsOwned
<1>6. ASSUME ForceDelete PROVE RowsOwned'
  <2>1. UNCHANGED unacked
    BY <1>6 DEF ForceDelete, history
  <2>2. PICK i \in Image : row[i].status \in {"live", "hidden"} /\ row' = [row EXCEPT ![i].status = "hidden"]
    BY <1>6 DEF ForceDelete
  <2>3. row'[i].status = "hidden" /\ \A j \in Image \ {i} : row'[j] = row[j]
    BY <1>2, <2>2 DEF Row
  <2> QED BY <1>2, <2>1, <2>3 DEF RowsOwned
<1> QED BY <1>1, <1>2, <1>3, <1>4, <1>5, <1>6, RowSteps DEF CatInv

\* Where one image changes, the others look as before.
LEMMA OneImageChanges ==
    ASSUME NEW i \in Image,
           \A j \in Image \ {i} : row'[j] = row[j] /\ (j \in unacked' <=> j \in unacked)
    PROVE  /\ CatState' = [CatState EXCEPT ![i] = Shown(i)']
           /\ CatOwner' = [CatOwner EXCEPT ![i] = Owner(i)']
<1>1. \A j \in Image \ {i} : Shown(j)' = Shown(j) BY DEF Shown
<1>2. \A j \in Image \ {i} : Owner(j)' = Owner(j) BY DEF Owner
<1>3. CatState' = [CatState EXCEPT ![i] = Shown(i)'] BY <1>1 DEF CatState
<1>4. CatOwner' = [CatOwner EXCEPT ![i] = Owner(i)'] BY <1>2 DEF CatOwner
<1> QED BY <1>3, <1>4

\* An insert publishes, unless it reports an error.
LEMMA InsertPublishes ==
    ASSUME CatInv, NEW r \in Req, InsertRow(r)
    PROVE  (\E i \in Image : Catalog!Publish(i)) \/ UNCHANGED CatVars
<1> USE DEF CatInv
<1>0. PICK i \in Image : i = req[r].img
  BY InsertWrites
<1>9. /\ req[r].user \in User
      /\ row[i].status = "none" /\ Orig(i) \in objects
      /\ UNCHANGED objects
      /\ \/ UNCHANGED <<row, unacked>>
         \/ row' = [row EXCEPT ![i] = NewRow(r)] /\ (UNCHANGED unacked \/ unacked' = unacked \cup {i})
  BY <1>0, InsertWrites
<1>1. i \in Image /\ i \notin unacked /\ row[i].owner = NoUser
  BY <1>9 DEF RowsOwned
<1>2. Shown(i) = "absent" /\ Owner(i) = NoUser
  BY <1>1, <1>9 DEF Shown, Owner
<1>3. CatBytes' = CatBytes /\ i \in CatBytes
  BY <1>1, <1>9 DEF CatBytes
<1>4. CASE UNCHANGED <<row, unacked>>
  BY <1>3, <1>4 DEF CatVars, CatState, CatOwner, Shown, Owner
<1>5. CASE row' = [row EXCEPT ![i] = NewRow(r)] /\ unacked' = unacked \cup {i}
  <2>1. Shown(i)' = "absent" /\ Owner(i)' = NoUser
    BY <1>5 DEF Shown, Owner
  <2>2. CatState' = [CatState EXCEPT ![i] = "absent"] /\ CatOwner' = [CatOwner EXCEPT ![i] = NoUser]
    BY <1>1, <1>5, <2>1, OneImageChanges
  <2> QED BY <1>1, <1>2, <1>3, <2>2 DEF CatVars, CatState, CatOwner
<1>6. CASE row' = [row EXCEPT ![i] = NewRow(r)] /\ UNCHANGED unacked
  <2>1. row'[i] = NewRow(r)
    BY <1>1, <1>6 DEF OwnInv, TypeInv, TypeOK
  <2>2. Shown(i)' = "shown" /\ Owner(i)' = req[r].user
    BY <1>1, <1>6, <2>1 DEF Shown, Owner, NewRow
  <2>3. CatState' = [CatState EXCEPT ![i] = "shown"] /\ CatOwner' = [CatOwner EXCEPT ![i] = req[r].user]
    BY <1>1, <1>6, <2>2, OneImageChanges
  <2>4. Catalog!Publish(i)
    BY <1>1, <1>2, <1>3, <1>9, <2>3 DEF Catalog!Publish, CatState, CatOwner, CatBytes, Owner
  <2> QED BY <1>1, <2>4
<1> QED BY <1>4, <1>5, <1>6, <1>9

\* A deletion erases, and an admin's hides, what is shown.
LEMMA DeleteErases ==
    ASSUME CatInv, NEW r \in Req, DeleteRow(r)
    PROVE  (\E i \in Image : Catalog!Erase(i)) \/ UNCHANGED CatVars
<1> USE DEF CatInv
<1>1. CASE UNCHANGED row
  BY <1>1, DeleteWrites DEF CatVars, CatState, CatOwner, CatBytes, Shown, Owner
<1>2. CASE ~UNCHANGED row
  <2>1. PICK i \in Image : row[i].status = "live" /\ row' = [row EXCEPT ![i] = GoneRow]
    BY <1>2, DeleteWrites
  <2>2. UNCHANGED <<objects, unacked>>
    BY DeleteWrites
  <2>3. row'[i].status = "gone" /\ row'[i].owner = NoUser
    BY <2>1 DEF GoneRow, NoRow, OwnInv, TypeInv, TypeOK
  <2>4. CatState' = [CatState EXCEPT ![i] = Shown(i)'] /\ CatOwner' = [CatOwner EXCEPT ![i] = Owner(i)']
    BY <2>1, <2>2, OneImageChanges
  <2>5. CatBytes' = CatBytes
    BY <2>2 DEF CatBytes
  <2>6. CASE i \in unacked
    <3>1. Shown(i)' = Shown(i) /\ Owner(i)' = Owner(i)
      BY <2>2, <2>6 DEF Shown, Owner
    <3> QED BY <2>4, <2>5, <3>1 DEF CatVars, CatState, CatOwner
  <2>7. CASE i \notin unacked
    <3>1. Shown(i) = "shown" /\ Shown(i)' = "erased" /\ Owner(i)' = NoUser
      BY <2>1, <2>2, <2>3, <2>7 DEF Shown, Owner
    <3>2. Catalog!Erase(i)
      BY <2>4, <2>5, <3>1 DEF Catalog!Erase, CatState, CatOwner, CatBytes, Owner
    <3> QED BY <3>2
  <2> QED BY <2>6, <2>7
<1> QED BY <1>1, <1>2

LEMMA ForceDeleteHides ==
    ASSUME CatInv, ForceDelete
    PROVE  (\E i \in Image : Catalog!Hide(i)) \/ UNCHANGED CatVars
<1> USE DEF CatInv
<1>1. PICK i \in Image : /\ row[i].status \in {"live", "hidden"}
                         /\ row' = [row EXCEPT ![i].status = "hidden"]
  BY DEF ForceDelete
<1>2. UNCHANGED <<objects, unacked>>
  BY DEF ForceDelete, history
<1>3. row'[i].status = "hidden" /\ row'[i].owner = row[i].owner
  BY <1>1 DEF OwnInv, TypeInv, TypeOK, Row
<1>4. CatState' = [CatState EXCEPT ![i] = Shown(i)'] /\ CatOwner' = [CatOwner EXCEPT ![i] = Owner(i)']
  BY <1>1, <1>2, OneImageChanges
<1>5. CatBytes' = CatBytes /\ Owner(i)' = Owner(i)
  BY <1>2, <1>3 DEF CatBytes, Owner
<1>6. CASE i \in unacked \/ row[i].status = "hidden"
  <2>1. Shown(i)' = Shown(i)
    BY <1>2, <1>3, <1>6 DEF Shown
  <2> QED BY <1>4, <1>5, <2>1 DEF CatVars, CatState, CatOwner
<1>7. CASE i \notin unacked /\ row[i].status = "live"
  <2>1. Shown(i) = "shown" /\ Shown(i)' = "hidden"
    BY <1>2, <1>3, <1>7 DEF Shown
  <2>2. CatOwner' = CatOwner
    BY <1>4, <1>5 DEF CatOwner
  <2>3. Catalog!Hide(i)
    BY <1>4, <1>5, <2>1, <2>2 DEF Catalog!Hide, CatState, CatOwner, CatBytes, Owner
  <2> QED BY <2>3
<1> QED BY <1>1, <1>6, <1>7

\* Calls of the storage store and drop the bytes of images that the catalogue does
\* not show; thumbnails are none of its business.
LEMMA ObjectsOnCatalog ==
    ASSUME CatInv, UNCHANGED <<row, unacked>>,
           \/ UNCHANGED objects
           \/ \E i \in Image : objects' \in {objects \cup {Thumb(i)}, objects \ {Thumb(i)}}
           \/ \E i \in Image : Shown(i) = "absent" /\ objects' = objects \cup {Orig(i)}
           \/ \E i \in Image : Shown(i) \in {"absent", "erased"} /\ objects' = objects \ {Orig(i)}
    PROVE  Catalog!Next \/ UNCHANGED CatVars
<1>1. UNCHANGED <<CatState, CatOwner>>
  BY DEF CatState, CatOwner, Shown, Owner
<1>2. CASE \/ UNCHANGED objects
           \/ \E i \in Image : objects' \in {objects \cup {Thumb(i)}, objects \ {Thumb(i)}}
  <2>1. CatBytes' = CatBytes BY <1>2 DEF CatBytes
  <2> QED BY <1>1, <2>1 DEF CatVars
<1>3. ASSUME NEW i \in Image, Shown(i) = "absent", objects' = objects \cup {Orig(i)}
      PROVE  Catalog!Store(i)
  <2>1. CatBytes' = CatBytes \cup {i} BY <1>3 DEF CatBytes
  <2> QED BY <1>1, <1>3, <2>1 DEF Catalog!Store, CatState, CatOwner, CatBytes, Owner
<1>4. ASSUME NEW i \in Image, Shown(i) \in {"absent", "erased"}, objects' = objects \ {Orig(i)}
      PROVE  Catalog!Drop(i)
  <2>1. CatBytes' = CatBytes \ {i} BY <1>4 DEF CatBytes
  <2> QED BY <1>1, <1>4, <2>1 DEF Catalog!Drop, CatState, CatOwner, CatBytes, Owner
<1> QED BY <1>2, <1>3, <1>4 DEF Catalog!Next

\* Uploads put and undo what has no row or an unacknowledged one, and deletions
\* remove what is gone.
LEMMA StorageSteps ==
    ASSUME CatInv, NEW r \in Req,
           \/ PutOriginal(r) \/ MakeThumbnail(r) \/ UndoOriginal(r) \/ UndoThumbnail(r)
           \/ RemoveOriginal(r) \/ RemoveThumbnail(r)
    PROVE  Catalog!Next \/ UNCHANGED CatVars
<1> USE DEF CatInv, OwnInv
<1>1. UNCHANGED <<row, unacked>>
  BY DEF PutOriginal, MakeThumbnail, UndoOriginal, UndoThumbnail, RemoveOriginal, RemoveThumbnail
<1>2. PICK i \in Image : i = req[r].img
  BY DEF PutOriginal, MakeThumbnail, UndoOriginal, UndoThumbnail, RemoveOriginal, RemoveThumbnail,
         TypeInv, HeldImage, ImgPc, UploadPc, RemovePc
<1>3. CASE MakeThumbnail(r) \/ UndoThumbnail(r) \/ RemoveThumbnail(r)
  <2>1. objects' \in {objects, objects \cup {Thumb(i)}, objects \ {Thumb(i)}}
    BY <1>2, <1>3 DEF MakeThumbnail, UndoThumbnail, RemoveThumbnail, PutWorks, PutFails, Remove
  <2> QED BY <1>1, <1>2, <2>1, ObjectsOnCatalog
<1>4. CASE PutOriginal(r)
  <2>1. row[i].status = "none"
    BY <1>2, <1>4 DEF PutOriginal, Ownership, RowsOfRequests
  <2>2. Shown(i) = "absent"
    BY <2>1 DEF Shown
  <2>3. objects' \in {objects, objects \cup {Orig(i)}}
    BY <1>2, <1>4 DEF PutOriginal, PutWorks, PutFails
  <2> QED BY <1>1, <1>2, <2>2, <2>3, ObjectsOnCatalog
<1>5. CASE UndoOriginal(r) \/ RemoveOriginal(r)
  <2>1. row[i].status \in {"none", "gone"} \/ i \in unacked
    BY <1>2, <1>5 DEF UndoOriginal, RemoveOriginal, Ownership, RowsOfRequests, Uploading, Removing, UploadPc, RemovePc
  <2>2. Shown(i) \in {"absent", "erased"}
    BY <2>1 DEF Shown
  <2>3. objects' \in {objects, objects \ {Orig(i)}}
    BY <1>2, <1>5 DEF UndoOriginal, RemoveOriginal, Remove
  <2> QED BY <1>1, <1>2, <2>2, <2>3, ObjectsOnCatalog
<1> QED BY <1>3, <1>4, <1>5

\* Every step of the service is a step of the catalogue or leaves it alone.
LEMMA StepOnCatalog == ASSUME CatInv, [Next]_vars PROVE Catalog!Next \/ UNCHANGED CatVars
<1>1. ASSUME NEW r \in Req, InsertRow(r) \/ DeleteRow(r) PROVE Catalog!Next \/ UNCHANGED CatVars
  BY <1>1, InsertPublishes, DeleteErases DEF Catalog!Next
<1>2. CASE ForceDelete
  BY <1>2, ForceDeleteHides DEF Catalog!Next
<1>3. ASSUME NEW r \in Req,
             \/ PutOriginal(r) \/ MakeThumbnail(r) \/ UndoOriginal(r) \/ UndoThumbnail(r)
             \/ RemoveOriginal(r) \/ RemoveThumbnail(r)
      PROVE  Catalog!Next \/ UNCHANGED CatVars
  BY <1>3, StorageSteps
<1>4. CASE UNCHANGED <<row, objects, unacked>>
  BY <1>4, ObjectsOnCatalog
<1> QED BY <1>1, <1>2, <1>3, <1>4
        DEF Next, vars, history, Arrive, Work, BeginUpload, BeginDelete, BeginDownload, SkipFile, AcceptFile, RefuseFile,
            Charge, Refund, FetchObject, Disconnect, Crash

LEMMA AlwaysCatalogued == Spec => []CatInv
<1>1. Init => CatInv
  BY TypeInit, OwnInit DEF CatInv, OwnInv, Init, RowsOwned, NoRow
<1>2. CatInv /\ [Next]_vars => CatInv'
  BY StepOwned
<1> QED BY <1>1, <1>2, PTL DEF Spec

\* ImplementsCatalog: the three stores, with their races, failures and restarts,
\* implement the catalogue, whose images are published with their bytes, erased or
\* hidden once, and never come back.
THEOREM ServiceImplementsCatalog == Spec => ImplementsCatalog
<1>1. Init => Catalog!Init
  BY DEF Init, Catalog!Init, Shown, Owner, NoRow
<1>2. CatInv /\ [Next]_vars => [Catalog!Next]_(Catalog!catalogVars)
  BY StepOnCatalog DEF Catalog!catalogVars, CatVars, CatState, CatOwner, CatBytes, Owner
<1> QED BY <1>1, <1>2, AlwaysCatalogued, PTL
        DEF Spec, ImplementsCatalog, Catalog!Spec

-----------------------------------------------------------------------------
(***************************************************************************)
(* NoOrphanObject: an object that comes into the store, or whose row goes, *)
(* is in the hands of the request that brought that about.                 *)
(***************************************************************************)
Kept(o) == Named(o) \/ \E r \in Req : Holds(r, o)
OrphanInv == OwnInv /\ NoOrphanObject
HoldPc == {"thumbnail", "insert", "undo", "undoThumb", "remove", "removeThumb"}

\* What a failure has left undone is never taken back.
LEMMA SlipsStay == ASSUME TypeOK, [Next]_vars PROVE slipped \subseteq slipped'
<1>1. ASSUME NEW r \in Req, Arrive(r) \/ Disconnect(r) PROVE slipped \subseteq slipped'
  BY <1>1 DEF Arrive, BeginUpload, BeginDelete, BeginDownload, Disconnect, history
<1>2. ASSUME NEW r \in Req, SkipFile(r) \/ AcceptFile(r) \/ RefuseFile(r) \/ Refund(r) \/ FetchObject(r)
      PROVE  slipped \subseteq slipped'
  BY <1>2 DEF SkipFile, AcceptFile, RefuseFile, Refund, FetchObject, history
<1>3. ASSUME NEW r \in Req, PutOriginal(r) \/ MakeThumbnail(r) PROVE slipped \subseteq slipped'
  BY <1>3 DEF PutOriginal, MakeThumbnail, PutWorks, PutFails, Slips
<1>4. ASSUME NEW r \in Req, UndoOriginal(r) \/ UndoThumbnail(r) \/ RemoveOriginal(r) \/ RemoveThumbnail(r)
      PROVE  slipped \subseteq slipped'
  BY <1>4 DEF UndoOriginal, UndoThumbnail, RemoveOriginal, RemoveThumbnail, Remove, Slips
<1>5. ASSUME NEW r \in Req, InsertRow(r) \/ Charge(r) \/ DeleteRow(r) PROVE slipped \subseteq slipped'
  BY <1>5 DEF InsertRow, Charge, DeleteRow, Slips, history
<1>6. CASE ForceDelete \/ Crash \/ UNCHANGED vars
  BY <1>6 DEF ForceDelete, Crash, vars, history, TypeOK
<1> QED BY <1>1, <1>2, <1>3, <1>4, <1>5, <1>6 DEF Next, Work

\* A request that holds nothing may become anything.
LEMMA FreeHandStep ==
    ASSUME NoOrphanObject, NEW r \in Req, req[r].pc \notin HoldPc,
           \A q \in Req \ {r} : req'[q] = req[q],
           UNCHANGED <<row, objects>>, slipped \subseteq slipped'
    PROVE  NoOrphanObject'
  BY DEF NoOrphanObject, Named, Stored, Holds, HoldPc

\* Where one request moves, what it does not hold stays kept while its row stays.
LEMMA OthersKept ==
    ASSUME NoOrphanObject, "object" \notin slipped, NEW r \in Req,
           \A q \in Req \ {r} : req'[q] = req[q],
           NEW o \in objects, ~Holds(r, o), row'[o[1]] = row[o[1]]
    PROVE  Kept(o)'
  BY DEF NoOrphanObject, Named, Stored, Holds, Kept

LEMMA OrphanStep == ASSUME OrphanInv, [Next]_vars PROVE NoOrphanObject'
<1>1. /\ TypeInv /\ TypeOK /\ Ownership /\ OwnInv /\ NoOrphanObject
      /\ row \in [Image -> Row] /\ req \in [Req -> Request] /\ objects \subseteq Object
  BY DEF OrphanInv, OwnInv, TypeInv, TypeOK
<1>2. slipped \subseteq slipped'
  BY <1>1, SlipsStay
<1>3. ASSUME NEW r \in Req, Arrive(r) \/ SkipFile(r) \/ AcceptFile(r) \/ RefuseFile(r) \/ Charge(r) \/ Refund(r) \/ FetchObject(r)
      PROVE  NoOrphanObject'
  <2>1. req[r].pc \notin HoldPc /\ UNCHANGED <<row, objects>>
    BY <1>3 DEF HoldPc, At, Arrive, BeginUpload, BeginDelete, BeginDownload, SkipFile, AcceptFile, RefuseFile,
                Charge, Refund, FetchObject, history
  <2>2. \A q \in Req \ {r} : req'[q] = req[q]
    BY <1>1, <1>3 DEF Arrive, BeginUpload, BeginDelete, BeginDownload, SkipFile, AcceptFile, RefuseFile,
                      Charge, Refund, FetchObject, Respond
  <2> QED BY <1>1, <1>2, <2>1, <2>2, FreeHandStep
<1>4. ASSUME NEW r \in Req, PutOriginal(r) PROVE NoOrphanObject'
  <2> SUFFICES ASSUME "object" \notin slipped', NEW o \in objects' PROVE Kept(o)'
    BY DEF NoOrphanObject, Kept
  <2>1. \A q \in Req \ {r} : req'[q] = req[q]
    BY <1>1, <1>4 DEF PutOriginal, Goto, Respond
  <2>2. CASE o \in objects
    BY <1>1, <1>2, <1>4, <2>1, <2>2, OthersKept DEF PutOriginal, At, Holds
  <2>3. CASE o \notin objects
    <3>1. o = Orig(req[r].img) /\ Goto(r, "thumbnail")
      BY <1>1, <1>4, <2>3 DEF PutOriginal, PutWorks, PutFails, Slips, TypeOK
    <3>2. req'[r].pc = "thumbnail" /\ req'[r].img = req[r].img
      BY <1>1, <3>1 DEF Goto, Request
    <3> QED BY <3>1, <3>2 DEF Holds, Kept, Orig
  <2> QED BY <2>2, <2>3
<1>5. ASSUME NEW r \in Req, MakeThumbnail(r) PROVE NoOrphanObject'
  <2> SUFFICES ASSUME "object" \notin slipped', NEW o \in objects' PROVE Kept(o)'
    BY DEF NoOrphanObject, Kept
  <2>1. \A q \in Req \ {r} : req'[q] = req[q]
    BY <1>1, <1>5 DEF MakeThumbnail, Goto
  <2>2. req'[r].pc = "insert" /\ req'[r].img = req[r].img /\ req[r].pc = "thumbnail"
    BY <1>1, <1>5 DEF MakeThumbnail, Goto, Request, At
  <2>3. CASE o \in objects /\ ~Holds(r, o)
    BY <1>1, <1>2, <1>5, <2>1, <2>3, OthersKept DEF MakeThumbnail
  <2>4. CASE o \in objects /\ Holds(r, o)
    BY <2>2, <2>4 DEF Holds, Kept
  <2>5. CASE o \notin objects
    <3>1. o = Thumb(req[r].img) /\ req' = [req EXCEPT ![r].pc = "insert", ![r].thumb = TRUE]
      BY <1>1, <1>5, <2>5 DEF MakeThumbnail, PutWorks, PutFails, Slips, TypeOK
    <3>2. req'[r].thumb
      BY <1>1, <3>1 DEF Request
    <3> QED BY <2>2, <3>1, <3>2 DEF Holds, Kept, Thumb
  <2> QED BY <2>3, <2>4, <2>5
<1>6. ASSUME NEW r \in Req, InsertRow(r) PROVE NoOrphanObject'
  <2> SUFFICES ASSUME "object" \notin slipped', NEW o \in objects' PROVE Kept(o)'
    BY DEF NoOrphanObject, Kept
  <2>1. \A q \in Req \ {r} : req'[q] = req[q]
    BY <1>1, <1>6 DEF InsertRow, Goto
  <2>2. o \in objects /\ o[1] \in Image
    BY <1>1, <1>6 DEF InsertRow, Object
  <2>3. PICK i \in Image : i = req[r].img /\ row[i].status = "none"
    BY <1>1, <1>6, InsertWrites
  <2>4. CASE UNCHANGED row /\ Goto(r, "undo")
    <3>1. req'[r].pc = "undo" /\ req'[r].img = req[r].img /\ req'[r].thumb = req[r].thumb
      BY <1>1, <2>4 DEF Goto, Request
    <3>2. CASE Holds(r, o)
      BY <1>6, <3>1, <3>2 DEF InsertRow, At, Holds, Kept
    <3>3. CASE ~Holds(r, o)
      BY <1>1, <1>2, <2>1, <2>2, <2>4, <3>3, OthersKept
    <3> QED BY <3>2, <3>3
  <2>5. CASE row' = [row EXCEPT ![i] = NewRow(r)]
    <3>1. row'[i].status = "live" /\ row'[i].thumb = req[r].thumb
      BY <1>1, <2>5 DEF NewRow
    <3>2. CASE Holds(r, o)
      BY <2>3, <3>1, <3>2 DEF Holds, Named, Stored, Kept
    <3>3. CASE ~Holds(r, o) /\ o[1] # i
      BY <1>1, <1>2, <2>1, <2>2, <2>5, <3>3, OthersKept
    <3>4. CASE ~Holds(r, o) /\ o[1] = i
      <4>1. PICK q \in Req : Holds(q, o)
        BY <1>1, <1>2, <2>2, <2>3, <3>4 DEF NoOrphanObject, Named, Stored
      <4> QED BY <2>1, <3>4, <4>1 DEF Holds, Kept
    <3> QED BY <3>2, <3>3, <3>4
  <2> QED BY <1>6, <2>3, <2>4, <2>5 DEF InsertRow
<1>7. ASSUME NEW r \in Req, UndoOriginal(r) \/ RemoveOriginal(r) PROVE NoOrphanObject'
  <2> SUFFICES ASSUME "object" \notin slipped', NEW o \in objects' PROVE Kept(o)'
    BY DEF NoOrphanObject, Kept
  <2>1. \A q \in Req \ {r} : req'[q] = req[q]
    BY <1>1, <1>7 DEF UndoOriginal, RemoveOriginal, Goto, Respond
  <2>2. UNCHANGED row /\ objects' = objects \ {Orig(req[r].img)} /\ o # Orig(req[r].img) /\ o \in objects
    BY <1>1, <1>7 DEF UndoOriginal, RemoveOriginal, Remove, Slips, TypeOK
  <2>3. CASE Holds(r, o)
    <3>1. o[2] = "thumb" /\ o[1] = req[r].img /\ req[r].thumb
      BY <1>1, <1>7, <2>2, <2>3 DEF Holds, Orig, Object
    <3>2. req'[r].pc \in {"undoThumb", "removeThumb"} /\ req'[r].img = req[r].img /\ req'[r].thumb
      BY <1>1, <1>7, <3>1 DEF UndoOriginal, RemoveOriginal, Goto, Request
    <3> QED BY <3>1, <3>2 DEF Holds, Kept
  <2>4. CASE ~Holds(r, o)
    BY <1>1, <1>2, <2>1, <2>2, <2>4, OthersKept
  <2> QED BY <2>3, <2>4
<1>8. ASSUME NEW r \in Req, UndoThumbnail(r) \/ RemoveThumbnail(r) PROVE NoOrphanObject'
  <2> SUFFICES ASSUME "object" \notin slipped', NEW o \in objects' PROVE Kept(o)'
    BY DEF NoOrphanObject, Kept
  <2>1. \A q \in Req \ {r} : req'[q] = req[q]
    BY <1>1, <1>8 DEF UndoThumbnail, RemoveThumbnail, Goto, Respond
  <2>2. UNCHANGED row /\ o # Thumb(req[r].img) /\ o \in objects
    BY <1>1, <1>8 DEF UndoThumbnail, RemoveThumbnail, Remove, Slips, TypeOK
  <2>3. ~Holds(r, o)
    BY <1>1, <1>8, <2>2 DEF UndoThumbnail, RemoveThumbnail, At, Holds, Thumb, Object
  <2> QED BY <1>1, <1>2, <2>1, <2>2, <2>3, OthersKept
<1>9. ASSUME NEW r \in Req, DeleteRow(r) PROVE NoOrphanObject'
  <2> SUFFICES ASSUME "object" \notin slipped', NEW o \in objects' PROVE Kept(o)'
    BY DEF NoOrphanObject, Kept
  <2>1. req[r].pc = "pick" /\ o \in objects /\ o[1] \in Image /\ o[2] \in {"orig", "thumb"}
    BY <1>1, <1>9 DEF DeleteRow, At, Object
  <2>2. ~Holds(r, o)
    BY <2>1 DEF Holds
  <2>3. PICK i \in req[r].todo :
          \/ /\ row' = [row EXCEPT ![i] = GoneRow]
             /\ req' = [req EXCEPT ![r].pc = "remove", ![r].img = i,
                                   ![r].size = row[i].size, ![r].thumb = row[i].thumb]
          \/ req' = [req EXCEPT ![r] = IdDone(r, i)] /\ UNCHANGED row
    BY <1>1, <1>9 DEF DeleteRow, Slips, TypeOK
  <2>4. \A q \in Req \ {r} : req'[q] = req[q]
    BY <1>1, <2>3
  <2>5. CASE row'[o[1]] = row[o[1]]
    BY <1>1, <1>2, <2>1, <2>2, <2>4, <2>5, OthersKept
  <2>6. CASE row'[o[1]] # row[o[1]]
    <3>1. o[1] = i /\ req' = [req EXCEPT ![r].pc = "remove", ![r].img = i,
                                         ![r].size = row[i].size, ![r].thumb = row[i].thumb]
      BY <1>1, <2>1, <2>3, <2>6
    <3>2. req'[r].pc = "remove" /\ req'[r].img = i /\ req'[r].thumb = row[i].thumb
      BY <1>1, <3>1 DEF Request
    <3>3. CASE Named(o)
      BY <2>1, <3>1, <3>2, <3>3 DEF Named, Holds, Kept
    <3>4. CASE ~Named(o)
      BY <1>1, <1>2, <2>1, <2>2, <2>4, <3>4 DEF NoOrphanObject, Holds, Kept
    <3> QED BY <3>3, <3>4
  <2> QED BY <2>5, <2>6
<1>10. CASE ForceDelete
  <2>1. UNCHANGED <<objects, req, slipped>>
    BY <1>10 DEF ForceDelete, history
  <2>2. \A i \in Image : Stored(i) => Stored(i)' /\ row'[i].thumb = row[i].thumb
    BY <1>1, <1>10 DEF ForceDelete, Stored, Row
  <2>3. \A o \in objects : Named(o) => Named(o)'
    BY <1>1, <2>2 DEF Named, Object
  <2> QED BY <1>1, <2>1, <2>3 DEF NoOrphanObject, Holds
<1>11. CASE Crash
  BY <1>11 DEF Crash, NoOrphanObject
<1>12. ASSUME NEW r \in Req, Disconnect(r) PROVE NoOrphanObject'
  <2>1. UNCHANGED <<row, objects, slipped>>
    BY <1>12 DEF Disconnect, history
  <2>2. \A q \in Req : req'[q].pc = req[q].pc /\ req'[q].img = req[q].img /\ req'[q].thumb = req[q].thumb
    BY <1>1, <1>12 DEF Disconnect, Request
  <2> QED BY <1>1, <2>1, <2>2 DEF NoOrphanObject, Named, Stored, Holds
<1>13. CASE UNCHANGED vars
  BY <1>1, <1>13 DEF vars, NoOrphanObject, Named, Stored, Holds
<1> QED BY <1>3, <1>4, <1>5, <1>6, <1>7, <1>8, <1>9, <1>10, <1>11, <1>12, <1>13 DEF Next, Work

\* NoOrphanObject: for every number of users, images and concurrent requests no
\* object is left that no row names and no request is about to deal with, unless a
\* call of the storage failed, a DELETE lost its answer or the server died.
THEOREM OrphanFree == Spec => []NoOrphanObject
<1>1. Init => OrphanInv
  BY TypeInit, OwnInit DEF OrphanInv, OwnInv, Init, NoOrphanObject
<1>2. OrphanInv /\ [Next]_vars => OrphanInv'
  BY OrphanStep, TypeStep, OwnStep DEF OrphanInv, OwnInv
<1>3. OrphanInv => NoOrphanObject
  BY DEF OrphanInv
<1> QED BY <1>1, <1>2, <1>3, PTL DEF Spec

-----------------------------------------------------------------------------
(***************************************************************************)
(* ErrorPageOnlyAfterDelete: a row that was read is there or deleted, and  *)
(* while it is there so is its original.                                   *)
(***************************************************************************)
FetchesRows == \A r \in Req : At(r, "fetch") => req[r].img \in Image /\ row[req[r].img].status # "none"

\* A row that was written never becomes one that is not there.
LEMMA RowsStay ==
    ASSUME OwnInv, [Next]_vars, NEW i \in Image, row[i].status # "none"
    PROVE  row'[i].status # "none"
<1>1. row \in [Image -> Row]
  BY DEF OwnInv, TypeInv, TypeOK
<1>2. CASE UNCHANGED row
  BY <1>2
<1>3. ASSUME NEW r \in Req, InsertRow(r) PROVE row'[i].status # "none"
  BY <1>1, <1>3, InsertWrites
<1>4. ASSUME NEW r \in Req, DeleteRow(r) PROVE row'[i].status # "none"
  <2>1. GoneRow.status = "gone"
    BY DEF GoneRow, NoRow
  <2> QED BY <1>1, <1>4, <2>1, DeleteWrites
<1>5. CASE ForceDelete
  <2>1. PICK j \in Image : row' = [row EXCEPT ![j].status = "hidden"]
    BY <1>5 DEF ForceDelete
  <2> QED BY <1>1, <2>1 DEF Row
<1> QED BY <1>2, <1>3, <1>4, <1>5, RowSteps

LEMMA FetchStep == ASSUME OwnInv, FetchesRows, [Next]_vars PROVE FetchesRows'
<1>1. req \in [Req -> Request]
  BY DEF OwnInv, TypeInv, TypeOK
<1>2. SUFFICES ASSUME NEW q \in Req, At(q, "fetch")' PROVE (req[q].img \in Image /\ row[req[q].img].status # "none")'
  BY DEF FetchesRows
<1>3. CASE At(q, "fetch") /\ req'[q].img = req[q].img
  <2>1. PICK i \in Image : i = req[q].img /\ row[i].status # "none"
    BY <1>3 DEF FetchesRows
  <2> QED BY <1>3, <2>1, RowsStay
<1>4. ASSUME BeginDownload(q) PROVE (req[q].img \in Image /\ row[req[q].img].status # "none")'
  <2>1. PICK i \in Image : row[i].status = "live" /\ req' = [req EXCEPT ![q] = [Idle EXCEPT !.pc = "fetch", !.img = i]]
    BY <1>4 DEF BeginDownload
  <2>2. req'[q].img = i
    BY <1>1, <2>1 DEF Idle
  <2> QED BY <2>1, <2>2, RowsStay
<1>5. BeginDownload(q) \/ (At(q, "fetch") /\ req'[q].img = req[q].img)
  <2>1. CASE req'[q] = req[q]
    BY <1>2, <2>1 DEF At
  <2>2. CASE req'[q] # req[q]
    <3>1. FileDone(q).pc # "fetch" /\ Idle.pc # "fetch" /\ \A i : IdDone(q, i).pc # "fetch"
      BY DEF FileDone, IdDone, Idle
    <3>2. ASSUME NEW r \in Req, Arrive(r) PROVE r = q
      BY <1>1, <2>2, <3>2 DEF Arrive, BeginUpload, BeginDelete, BeginDownload
    <3>3. ASSUME NEW r \in Req, Work(r) PROVE r = q
      BY <1>1, <2>2, <3>3 DEF Work, SkipFile, AcceptFile, RefuseFile, PutOriginal, MakeThumbnail, InsertRow, UndoOriginal,
         UndoThumbnail, Charge, DeleteRow, RemoveOriginal, RemoveThumbnail, Refund, FetchObject, Goto, Respond
    <3>4. ~Work(q)
      <4>1. ~SkipFile(q) /\ ~RefuseFile(q) /\ ~Charge(q) /\ ~Refund(q) /\ ~FetchObject(q)
        BY <1>1, <1>2, <3>1 DEF SkipFile, RefuseFile, Charge, Refund, FetchObject, Respond, At
      <4>2. ~PutOriginal(q) /\ ~InsertRow(q)
        BY <1>1, <1>2, <3>1 DEF PutOriginal, InsertRow, Goto, Respond, At, Request
      <4>5. ~AcceptFile(q)
        <5>1. ASSUME NEW s, NEW i, req' = [req EXCEPT ![q].pc = "put", ![q].img = i, ![q].size = s] PROVE req'[q].pc = "put"
          BY <1>1, <5>1 DEF Request
        <5> QED BY <1>2, <5>1 DEF AcceptFile, At
      <4>6. ~MakeThumbnail(q)
        <5>1. ASSUME req' = [req EXCEPT ![q].pc = "insert", ![q].thumb = TRUE] PROVE req'[q].pc = "insert"
          BY <1>1, <5>1 DEF Request
        <5> QED BY <1>1, <1>2, <5>1 DEF MakeThumbnail, Goto, At, Request
      <4>3. ~UndoOriginal(q) /\ ~UndoThumbnail(q) /\ ~RemoveOriginal(q) /\ ~RemoveThumbnail(q)
        BY <1>1, <1>2, <3>1 DEF UndoOriginal, UndoThumbnail, RemoveOriginal, RemoveThumbnail, Goto, Respond, At, Request
      <4>4. ~DeleteRow(q)
        <5>1. ASSUME NEW i, req' = [req EXCEPT ![q].pc = "remove", ![q].img = i,
                                               ![q].size = row[i].size, ![q].thumb = row[i].thumb]
              PROVE  req'[q].pc = "remove"
          BY <1>1, <5>1 DEF Request
        <5>2. ASSUME NEW i, req' = [req EXCEPT ![q] = IdDone(q, i)] PROVE req'[q].pc # "fetch"
          BY <1>1, <3>1, <5>2
        <5> QED BY <1>2, <5>1, <5>2 DEF DeleteRow, At
      <4> QED BY <4>1, <4>2, <4>3, <4>4, <4>5, <4>6 DEF Work
    <3>5. ~BeginUpload(q) /\ ~BeginDelete(q)
      BY <1>1, <1>2 DEF BeginUpload, BeginDelete, At, Idle
    <3>6. ASSUME NEW r \in Req, Disconnect(r) PROVE At(q, "fetch") /\ req'[q].img = req[q].img
      BY <1>1, <1>2, <3>6 DEF Disconnect, At, Request
    <3>7. ~Crash
      BY <1>2, <3>1 DEF Crash, At
    <3>8. ~ForceDelete /\ ~UNCHANGED vars
      BY <2>2 DEF ForceDelete, vars
    <3> QED BY <3>2, <3>3, <3>4, <3>5, <3>6, <3>7, <3>8 DEF Next, Arrive
  <2> QED BY <2>1, <2>2
<1> QED BY <1>3, <1>4, <1>5

\* ErrorPageOnlyAfterDelete: for every number of requests and under all failures, a
\* download serves the storage's error page only of an image that was deleted
\* after its row was read.
THEOREM ErrorPagesExplained == Spec => []ErrorPageOnlyAfterDelete
<1>1. Init => OwnInv /\ FetchesRows
  BY TypeInit, OwnInit DEF OwnInv, Init, FetchesRows, At, Idle
<1>2. OwnInv /\ FetchesRows /\ [Next]_vars => (OwnInv /\ FetchesRows)'
  BY TypeStep, OwnStep, FetchStep DEF OwnInv
<1>3. OwnInv /\ FetchesRows => ErrorPageOnlyAfterDelete
  <2> SUFFICES ASSUME OwnInv, FetchesRows, NEW r \in Req, ServesErrorPage(r), req[r].img \notin unacked
               PROVE  row[req[r].img].status = "gone"
    BY DEF ErrorPageOnlyAfterDelete
  <2>1. req[r].img \in Image \ unacked /\ row[req[r].img].status # "none" /\ Orig(req[r].img) \notin objects
    BY DEF ServesErrorPage, FetchesRows
  <2>2. ~Stored(req[r].img)
    BY <2>1 DEF OwnInv, Ownership, RowsHaveObjects
  <2>3. row[req[r].img].status \in Status
    BY <2>1 DEF OwnInv, TypeInv, TypeOK, Row
  <2> QED BY <2>1, <2>2, <2>3 DEF Stored, Status
<1> QED BY <1>1, <1>2, <1>3, PTL DEF Spec

-----------------------------------------------------------------------------
(***************************************************************************)
(* The quota.  A request adds to a sum over all requests no more than what *)
(* it holds, so a step is judged by what it changes of one request.        *)
(***************************************************************************)
Amount(q, u, pcs) == IF q.user = u /\ q.pc \in pcs THEN q.size ELSE 0
Amounts(u, pcs) == [r \in Req |-> Amount(req[r], u, pcs)]

LEMMA AmountsTyped ==
    ASSUME TypeOK, NEW u, NEW pcs
    PROVE  /\ Amounts(u, pcs) \in [Req -> Nat] /\ InFlight(u, pcs) = SumFunction(Amounts(u, pcs))
           /\ InFlight(u, pcs) \in Nat
<1>1. \A r \in Req : Amount(req[r], u, pcs) \in Nat
  BY SizeIsNat DEF TypeOK, Request, Amount
<1>2. Amounts(u, pcs) \in [Req -> Nat]
  BY <1>1 DEF Amounts
<1>3. InFlight(u, pcs) = SumFunction(Amounts(u, pcs))
  BY DEF InFlight, Amounts, Amount
<1> QED BY <1>2, <1>3, SumFunctionType, ConstAssumption

LEMMA InFlightStep ==
    ASSUME TypeOK, TypeOK', NEW r \in Req, \A q \in Req \ {r} : req'[q] = req[q], NEW u, NEW pcs
    PROVE  /\ InFlight(u, pcs)' + Amount(req[r], u, pcs) = InFlight(u, pcs) + Amount(req'[r], u, pcs)
           /\ InFlight(u, pcs) \in Nat /\ InFlight(u, pcs)' \in Nat
           /\ Amount(req[r], u, pcs) \in Nat /\ Amount(req'[r], u, pcs) \in Nat
<1> DEFINE f == Amounts(u, pcs)
           g == [q \in Req |-> Amount(req'[q], u, pcs)]
<1>1. f \in [Req -> Nat] /\ InFlight(u, pcs) = SumFunction(f) /\ InFlight(u, pcs) \in Nat
  BY AmountsTyped
<1>2. g \in [Req -> Nat]
  <2>1. \A q \in Req : Amount(req'[q], u, pcs) \in Nat
    BY SizeIsNat DEF TypeOK, Request, Amount
  <2> QED BY <2>1
<1>3. InFlight(u, pcs)' = SumFunction(g)
  BY DEF InFlight, Amount
<1>4. \A q \in Req \ {r} : f[q] = g[q]
  BY DEF Amounts
<1>5. f[r] = Amount(req[r], u, pcs) /\ g[r] = Amount(req'[r], u, pcs)
  BY DEF Amounts
<1> HIDE DEF f, g
<1>6. SumFunction(g) + f[r] = SumFunction(f) + g[r]
  BY <1>1, <1>2, <1>4, SumChange, ConstAssumption
<1>7. SumFunction(g) \in Nat
  BY <1>2, SumFunctionType, ConstAssumption
<1> QED BY <1>1, <1>2, <1>3, <1>5, <1>6, <1>7

\* LargestFile is a size, and the largest that passes both checks.
LEMMA LargestFileIs ==
    /\ LargestFile \in Nat
    /\ \A s \in Size : ~TooLarge(s) /\ s <= Quota => s <= LargestFile
    /\ LargestFile <= Quota
<1> DEFINE F == {0} \cup {s \in Size : ~TooLarge(s) /\ s <= Quota}
           T == {n \in Nat : \A s \in F : s <= n}
<1>1. F \subseteq Nat /\ 0 \in F /\ \A s \in F : s <= Quota
  <2>1. F \subseteq Nat
    <3> SUFFICES ASSUME NEW s \in F PROVE s \in Nat
      OBVIOUS
    <3>1. s = 0 \/ s \in Size
      OBVIOUS
    <3> QED BY <3>1, ConstAssumption
  <2>2. 0 <= Quota
    BY ConstAssumption
  <2> QED BY <2>1, <2>2, Zenon
<1>2. Quota \in T
  BY <1>1, ConstAssumption
<1>3. PICK m \in T : \A k \in T : m <= k
  <2>1. T \subseteq Nat
    OBVIOUS
  <2> HIDE DEF T
  <2> QED BY <1>2, <2>1, LeastNat
<1>4. m \in F
  <2> SUFFICES ASSUME m \notin F PROVE FALSE
    OBVIOUS
  <2>1. m \in Nat /\ m # 0 /\ \A s \in F : s <= m /\ s # m
    BY <1>1, <1>3
  <2>2. m - 1 \in T
    BY <1>1, <2>1
  <2> QED BY <1>3, <2>1, <2>2
<1>5. \A s \in F : m >= s
  BY <1>1, <1>3
<1>6. LargestFile \in F /\ \A s \in F : LargestFile >= s
  <2>1. LargestFile = CHOOSE x \in F : \A y \in F : x >= y
    BY DEF LargestFile, Max
  <2> HIDE DEF F
  <2> QED BY <1>4, <1>5, <2>1
<1> QED BY <1>1, <1>6

AdmittedPc == {"put", "thumbnail", "insert", "charge"}
Room == (Cardinality(Req) - 1) * LargestFile
\* What is admitted for a user with a quota is no larger than the largest file.
SizesFit == \A r \in Req : req[r].pc \in AdmittedPc /\ req[r].user \notin Admin => req[r].size <= LargestFile
QuotaInv == TypeInv /\ SizesFit /\ QuotaOvershootBounded

LEMMA RoomIsInt == Room \in Int /\ (Req # {} => Room >= 0)
<1>1. Cardinality(Req) \in Nat /\ (Req # {} => Cardinality(Req) >= 1) /\ LargestFile \in Nat
  BY FS_CardinalityType, FS_EmptySet, LargestFileIs, ConstAssumption
<1> QED BY <1>1 DEF Room

LEMMA QuotaIs ==
    QuotaOvershootBounded <=> \A u \in User \ Admin : used[u] + InFlight(u, AdmittedPc) <= Quota + Room
  BY DEF QuotaOvershootBounded, AdmittedPc, Room

LEMMA QuotaInit == Init => SizesFit /\ QuotaOvershootBounded
<1> SUFFICES ASSUME Init PROVE SizesFit /\ QuotaOvershootBounded
  OBVIOUS
<1>1. SizesFit
  BY DEF Init, Idle, SizesFit, AdmittedPc
<1>2. ASSUME NEW u \in User PROVE used[u] + InFlight(u, AdmittedPc) = 0
  <2>1. TypeOK
    BY TypeInit DEF TypeInv
  <2>2. \A r \in Req : Amounts(u, AdmittedPc)[r] = 0
    BY DEF Amounts, Amount, Init, Idle, AdmittedPc
  <2>3. InFlight(u, AdmittedPc) = 0
    BY <2>1, <2>2, AmountsTyped, SumOfZeros, ConstAssumption
  <2> QED BY <2>3 DEF Init
<1>3. Quota + Room >= 0
  <2>1. CASE Req # {}
    BY <2>1, RoomIsInt, ConstAssumption
  <2>2. CASE Req = {}
    <3>1. Room = -LargestFile
      BY <2>2, FS_EmptySet, LargestFileIs DEF Room
    <3> QED BY <3>1, LargestFileIs, ConstAssumption
  <2> QED BY <2>1, <2>2
<1> QED BY <1>1, <1>2, <1>3, QuotaIs, RoomIsInt, ConstAssumption

\* A step of r that admits nothing, and charges nothing.
Settles(r) ==
    /\ \A q \in Req \ {r} : req'[q] = req[q]
    /\ req'[r].pc \in AdmittedPc =>
         req[r].pc \in AdmittedPc /\ req'[r].user = req[r].user /\ req'[r].size = req[r].size

LEMMA QuotaSettles ==
    ASSUME QuotaInv, TypeInv', NEW r \in Req, Settles(r), \A u \in User : used'[u] <= used[u]
    PROVE  QuotaInv'
<1>1. SizesFit'
  BY DEF QuotaInv, SizesFit, Settles
<1>2. ASSUME NEW u \in User \ Admin PROVE used'[u] + InFlight(u, AdmittedPc)' <= Quota + Room
  <2>1. /\ InFlight(u, AdmittedPc)' + Amount(req[r], u, AdmittedPc)
             = InFlight(u, AdmittedPc) + Amount(req'[r], u, AdmittedPc)
        /\ InFlight(u, AdmittedPc) \in Nat /\ InFlight(u, AdmittedPc)' \in Nat
        /\ Amount(req[r], u, AdmittedPc) \in Nat /\ Amount(req'[r], u, AdmittedPc) \in Nat
    BY InFlightStep DEF QuotaInv, TypeInv, Settles
  <2>2. Amount(req'[r], u, AdmittedPc) <= Amount(req[r], u, AdmittedPc)
    BY <2>1 DEF Amount, Settles
  <2>3. used[u] + InFlight(u, AdmittedPc) <= Quota + Room
    BY QuotaIs DEF QuotaInv
  <2>4. used[u] \in Nat /\ used'[u] \in Nat /\ used'[u] <= used[u]
    BY DEF QuotaInv, TypeInv, TypeOK
  <2> QED BY <2>1, <2>2, <2>3, <2>4, RoomIsInt, ConstAssumption
<1>3. QuotaOvershootBounded'
  BY <1>2 DEF QuotaOvershootBounded, AdmittedPc, Room
<1> QED BY <1>1, <1>3 DEF QuotaInv

\* The check was made against what was charged; what the others have in flight
\* is at most a largest file each.
LEMMA QuotaAccept ==
    ASSUME QuotaInv, TypeInv', NEW r \in Req, AcceptFile(r)
    PROVE  QuotaInv'
<1>1. PICK s \in Size, i \in Image :
        /\ ~TooLarge(s) /\ ~OverQuota(req[r].user, s)
        /\ req' = [req EXCEPT ![r].pc = "put", ![r].img = i, ![r].size = s]
  BY DEF AcceptFile
<1>2. req[r].pc = "file" /\ UNCHANGED used
  BY DEF AcceptFile
<1>3. /\ req'[r].pc = "put" /\ req'[r].size = s /\ req'[r].user = req[r].user
      /\ \A q \in Req \ {r} : req'[q] = req[q]
  BY <1>1 DEF QuotaInv, TypeInv, TypeOK, Request
<1>4. req[r].user \in User /\ s \in Nat
  BY <1>2, ConstAssumption DEF QuotaInv, TypeInv, HeldImage, UserPc
<1>5. req[r].user \notin Admin => used[req[r].user] + s <= Quota /\ s <= Quota
  <2>1. used[req[r].user] \in Nat
    BY <1>4 DEF QuotaInv, TypeInv, TypeOK
  <2> QED BY <1>1, <1>4, <2>1, ConstAssumption DEF OverQuota
<1>6. SizesFit'
  <2>1. req[r].user \notin Admin => s <= LargestFile
    BY <1>1, <1>5, LargestFileIs
  <2> QED BY <1>3, <2>1 DEF QuotaInv, SizesFit
<1>7. ASSUME NEW u \in User \ Admin PROVE used'[u] + InFlight(u, AdmittedPc)' <= Quota + Room
  <2>1. /\ InFlight(u, AdmittedPc)' + Amount(req[r], u, AdmittedPc)
             = InFlight(u, AdmittedPc) + Amount(req'[r], u, AdmittedPc)
        /\ InFlight(u, AdmittedPc) \in Nat /\ InFlight(u, AdmittedPc)' \in Nat
    BY <1>3, InFlightStep DEF QuotaInv, TypeInv
  <2>2. Amount(req[r], u, AdmittedPc) = 0
    BY <1>2 DEF Amount, AdmittedPc
  <2>3. Amount(req'[r], u, AdmittedPc) = IF req[r].user = u THEN s ELSE 0
    BY <1>3 DEF Amount, AdmittedPc
  <2>4. used[u] + InFlight(u, AdmittedPc) <= Quota + Room /\ used[u] \in Nat
    BY QuotaIs DEF QuotaInv, TypeInv, TypeOK
  <2>5. CASE req[r].user # u
    BY <1>2, <2>1, <2>2, <2>3, <2>4, <2>5
  <2>6. CASE req[r].user = u
    <3>1. \A q \in Req : Amounts(u, AdmittedPc)[q] <= LargestFile
      BY LargestFileIs DEF Amounts, Amount, QuotaInv, SizesFit
    <3>2. Amounts(u, AdmittedPc)[r] = 0
      BY <2>2 DEF Amounts
    <3>3. InFlight(u, AdmittedPc) <= Room
      BY <3>1, <3>2, AmountsTyped, SumOfOthers, LargestFileIs, ConstAssumption DEF Room, QuotaInv, TypeInv
    <3>4. InFlight(u, AdmittedPc)' = InFlight(u, AdmittedPc) + s
      BY <1>4, <2>1, <2>2, <2>3, <2>6
    <3>5. used[u] + s <= Quota
      BY <1>5, <2>6
    <3> QED BY <1>2, <1>4, <2>1, <2>4, <3>3, <3>4, <3>5, RoomIsInt, ConstAssumption
  <2> QED BY <2>5, <2>6
<1>8. QuotaOvershootBounded'
  BY <1>7 DEF QuotaOvershootBounded, AdmittedPc, Room
<1> QED BY <1>6, <1>8 DEF QuotaInv

\* What is charged was in flight.
LEMMA QuotaCharge ==
    ASSUME QuotaInv, TypeInv', NEW r \in Req, Charge(r)
    PROVE  QuotaInv'
<1>1. req[r].pc = "charge" /\ req' = [req EXCEPT ![r] = FileDone(r)]
  BY DEF Charge
<1>2. req[r].user \in User /\ req[r].size \in Nat
  BY <1>1, SizeIsNat DEF QuotaInv, TypeInv, TypeOK, HeldImage, UserPc, Request
<1>3. /\ req'[r] = FileDone(r) /\ FileDone(r).pc \notin AdmittedPc
      /\ \A q \in Req \ {r} : req'[q] = req[q]
  BY <1>1 DEF QuotaInv, TypeInv, TypeOK, FileDone, Idle, AdmittedPc
<1>4. SizesFit'
  BY <1>3 DEF QuotaInv, SizesFit
<1>5. ASSUME NEW u \in User \ Admin PROVE used'[u] + InFlight(u, AdmittedPc)' <= Quota + Room
  <2>1. /\ InFlight(u, AdmittedPc)' + Amount(req[r], u, AdmittedPc)
             = InFlight(u, AdmittedPc) + Amount(req'[r], u, AdmittedPc)
        /\ InFlight(u, AdmittedPc) \in Nat /\ InFlight(u, AdmittedPc)' \in Nat
    BY <1>3, InFlightStep DEF QuotaInv, TypeInv
  <2>2. Amount(req[r], u, AdmittedPc) = IF req[r].user = u THEN req[r].size ELSE 0
    BY <1>1 DEF Amount, AdmittedPc
  <2>3. Amount(req'[r], u, AdmittedPc) = 0
    BY <1>3 DEF Amount
  <2>4. used[u] + InFlight(u, AdmittedPc) <= Quota + Room /\ used[u] \in Nat
    BY QuotaIs DEF QuotaInv, TypeInv, TypeOK
  <2>5. used'[u] = used[u] \/ (u = req[r].user /\ used'[u] = used[u] + req[r].size)
    BY <1>2 DEF Charge, QuotaInv, TypeInv, TypeOK
  <2> QED BY <1>2, <2>1, <2>2, <2>3, <2>4, <2>5, RoomIsInt, ConstAssumption
<1>6. QuotaOvershootBounded'
  BY <1>5 DEF QuotaOvershootBounded, AdmittedPc, Room
<1> QED BY <1>4, <1>6 DEF QuotaInv

\* What each step makes of the request that takes it.
LEMMA OnlyOne ==
    ASSUME TypeOK, NEW r \in Req, NEW q, req' = [req EXCEPT ![r] = q]
    PROVE  req'[r] = q /\ \A p \in Req \ {r} : req'[p] = req[p]
  BY DEF TypeOK

LEMMA GoesTo ==
    ASSUME TypeOK, NEW r \in Req, NEW pc, Goto(r, pc)
    PROVE  /\ req'[r].pc = pc /\ req'[r].user = req[r].user /\ req'[r].size = req[r].size
           /\ \A p \in Req \ {r} : req'[p] = req[p]
  BY DEF TypeOK, Request

LEMMA NextRequestHolds ==
    ASSUME NEW r \in Req, NEW i
    PROVE  FileDone(r).pc \in {"file", "idle"} /\ IdDone(r, i).pc \in {"pick", "idle"} /\ Idle.pc = "idle"
  BY DEF FileDone, IdDone, Idle

LEMMA ArriveSettles ==
    ASSUME TypeOK, NEW r \in Req, Arrive(r)
    PROVE  /\ \A p \in Req \ {r} : req'[p] = req[p]
           /\ req[r].pc = "idle" /\ req'[r].pc \in {"file", "pick", "fetch"}
           /\ UNCHANGED <<row, used, objects, history>>
<1>1. CASE BeginUpload(r)
  <2>1. PICK u \in User, n \in 1..MaxFiles :
          req' = [req EXCEPT ![r] = [Idle EXCEPT !.pc = "file", !.user = u, !.left = n]]
    BY <1>1 DEF BeginUpload
  <2>2. req'[r].pc = "file" /\ \A p \in Req \ {r} : req'[p] = req[p]
    <3> DEFINE q == [Idle EXCEPT !.pc = "file", !.user = u, !.left = n]
    <3>1. q.pc = "file"
      BY DEF Idle
    <3>2. req' = [req EXCEPT ![r] = q]
      BY <2>1
    <3> HIDE DEF q
    <3> QED BY <3>1, <3>2 DEF TypeOK
  <2> QED BY <1>1, <2>2 DEF BeginUpload, At
<1>2. CASE BeginDelete(r)
  <2>1. PICK u \in User, ids \in SUBSET Image :
          req' = [req EXCEPT ![r] = [Idle EXCEPT !.pc = "pick", !.user = u, !.todo = ids]]
    BY <1>2 DEF BeginDelete
  <2>2. req'[r].pc = "pick" /\ \A p \in Req \ {r} : req'[p] = req[p]
    <3> DEFINE q == [Idle EXCEPT !.pc = "pick", !.user = u, !.todo = ids]
    <3>1. q.pc = "pick"
      BY DEF Idle
    <3>2. req' = [req EXCEPT ![r] = q]
      BY <2>1
    <3> HIDE DEF q
    <3> QED BY <3>1, <3>2 DEF TypeOK
  <2> QED BY <1>2, <2>2 DEF BeginDelete, At
<1>3. CASE BeginDownload(r)
  <2>1. PICK i \in Image : req' = [req EXCEPT ![r] = [Idle EXCEPT !.pc = "fetch", !.img = i]]
    BY <1>3 DEF BeginDownload
  <2>2. req'[r].pc = "fetch" /\ \A p \in Req \ {r} : req'[p] = req[p]
    <3> DEFINE q == [Idle EXCEPT !.pc = "fetch", !.img = i]
    <3>1. q.pc = "fetch"
      BY DEF Idle
    <3>2. req' = [req EXCEPT ![r] = q]
      BY <2>1
    <3> HIDE DEF q
    <3> QED BY <3>1, <3>2 DEF TypeOK
  <2> QED BY <1>3, <2>2 DEF BeginDownload, At
<1> QED BY <1>1, <1>2, <1>3 DEF Arrive

LEMMA DisconnectSettles ==
    ASSUME TypeOK, NEW r \in Req, Disconnect(r)
    PROVE  /\ \A p \in Req \ {r} : req'[p] = req[p]
           /\ req'[r].pc = req[r].pc /\ req'[r].user = req[r].user /\ req'[r].size = req[r].size
           /\ UNCHANGED <<row, used, objects, history>>
  BY DEF TypeOK, Request, Disconnect

\* The steps of an upload up to the insert.
LEMMA UploadSettles ==
    ASSUME TypeOK, NEW r \in Req, PutOriginal(r) \/ MakeThumbnail(r)
    PROVE  /\ \A p \in Req \ {r} : req'[p] = req[p]
           /\ req[r].pc \in {"put", "thumbnail"} /\ req'[r].pc \in {"thumbnail", "insert", "idle"}
           /\ req'[r].pc # "idle" => req'[r].user = req[r].user /\ req'[r].size = req[r].size
           /\ UNCHANGED <<row, used, unacked>>
<1>1. CASE PutOriginal(r)
  <2>1. CASE Goto(r, "thumbnail")
    BY <1>1, <2>1, GoesTo DEF PutOriginal
  <2>2. CASE Respond(r)
    BY <1>1, <2>2, OnlyOne, NextRequestHolds DEF PutOriginal
  <2> QED BY <1>1, <2>1, <2>2 DEF PutOriginal
<1>2. CASE MakeThumbnail(r)
  <2>1. CASE req' = [req EXCEPT ![r].pc = "insert", ![r].thumb = TRUE]
    BY <1>2, <2>1 DEF MakeThumbnail, TypeOK, Request
  <2>2. CASE Goto(r, "insert")
    BY <1>2, <2>2, GoesTo DEF MakeThumbnail
  <2> QED BY <1>2, <2>1, <2>2 DEF MakeThumbnail
<1> QED BY <1>1, <1>2

\* The steps that undo an upload.
LEMMA UndoSettles ==
    ASSUME TypeOK, NEW r \in Req, UndoOriginal(r) \/ UndoThumbnail(r)
    PROVE  /\ \A p \in Req \ {r} : req'[p] = req[p]
           /\ req[r].pc \in {"undo", "undoThumb"} /\ req'[r].pc \in {"undoThumb", "idle"}
           /\ UNCHANGED <<row, used, unacked>>
<1>1. UNCHANGED <<row, used, unacked>> /\ req[r].pc \in {"undo", "undoThumb"} /\ (Goto(r, "undoThumb") \/ Respond(r))
  BY DEF UndoOriginal, UndoThumbnail
<1> QED BY <1>1, GoesTo, OnlyOne, NextRequestHolds

\* The steps that remove the objects of a deleted image.
LEMMA RemoveSettles ==
    ASSUME TypeOK, NEW r \in Req, RemoveOriginal(r) \/ RemoveThumbnail(r)
    PROVE  /\ \A p \in Req \ {r} : req'[p] = req[p]
           /\ req[r].pc \in RemovePc /\ req'[r].pc \in {"removeThumb", "refund"}
           /\ req'[r].user = req[r].user /\ req'[r].size = req[r].size
           /\ UNCHANGED <<row, used, unacked>>
<1>1. UNCHANGED <<row, used, unacked>> /\ req[r].pc \in RemovePc /\ (Goto(r, "removeThumb") \/ Goto(r, "refund"))
  BY DEF RemoveOriginal, RemoveThumbnail, RemovePc
<1> QED BY <1>1, GoesTo

\* The steps that end a file, an id or the request without a store being written.
LEMMA EndSettles ==
    ASSUME TypeOK, NEW r \in Req, SkipFile(r) \/ RefuseFile(r) \/ FetchObject(r)
    PROVE  /\ \A p \in Req \ {r} : req'[p] = req[p]
           /\ req[r].pc \in {"file", "fetch"} /\ req'[r].pc \in {"file", "idle"}
           /\ UNCHANGED <<row, used, objects, history>>
<1>1. req' = [req EXCEPT ![r] = FileDone(r)] \/ req' = [req EXCEPT ![r] = Idle]
  BY DEF SkipFile, RefuseFile, FetchObject
<1> QED BY <1>1, OnlyOne, NextRequestHolds DEF SkipFile, RefuseFile, FetchObject

LEMMA InsertSettles ==
    ASSUME TypeOK, NEW r \in Req, InsertRow(r)
    PROVE  /\ \A p \in Req \ {r} : req'[p] = req[p]
           /\ req[r].pc = "insert" /\ req'[r].pc \in {"charge", "undo"}
           /\ req'[r].user = req[r].user /\ req'[r].size = req[r].size
           /\ UNCHANGED used
<1>1. req[r].pc = "insert" /\ UNCHANGED used /\ (Goto(r, "charge") \/ Goto(r, "undo"))
  BY DEF InsertRow
<1> QED BY <1>1, GoesTo

LEMMA DeleteSettles ==
    ASSUME TypeOK, NEW r \in Req, DeleteRow(r)
    PROVE  /\ \A p \in Req \ {r} : req'[p] = req[p]
           /\ req[r].pc = "pick" /\ req'[r].pc \in {"remove", "pick", "idle"}
           /\ UNCHANGED used
<1>1. PICK i \in req[r].todo :
        \/ req' = [req EXCEPT ![r].pc = "remove", ![r].img = i,
                              ![r].size = row[i].size, ![r].thumb = row[i].thumb]
        \/ req' = [req EXCEPT ![r] = IdDone(r, i)]
  BY DEF DeleteRow
<1>2. CASE req' = [req EXCEPT ![r] = IdDone(r, i)]
  BY <1>2, OnlyOne, NextRequestHolds DEF DeleteRow
<1>3. CASE req' = [req EXCEPT ![r].pc = "remove", ![r].img = i,
                              ![r].size = row[i].size, ![r].thumb = row[i].thumb]
  BY <1>3 DEF DeleteRow, TypeOK, Request
<1> QED BY <1>1, <1>2, <1>3

LEMMA RefundSettles ==
    ASSUME TypeInv, NEW r \in Req, Refund(r)
    PROVE  /\ \A p \in Req \ {r} : req'[p] = req[p]
           /\ req[r].pc = "refund" /\ req'[r].pc \in {"pick", "idle"}
           /\ req[r].user \in User /\ req[r].size \in Nat
           /\ \/ UNCHANGED used
              \/ used' = [used EXCEPT ![req[r].user] = Monus(@, req[r].size)]
           /\ UNCHANGED <<row, objects, history>>
<1>1. req[r].pc = "refund" /\ req' = [req EXCEPT ![r] = IdDone(r, req[r].img)]
  BY DEF Refund
<1>2. req[r].user \in User /\ req[r].size \in Nat
  BY <1>1, SizeIsNat DEF TypeInv, TypeOK, HeldImage, UserPc, Request
<1>3. UNCHANGED <<row, objects, history>>
      /\ (UNCHANGED used \/ used' = [used EXCEPT ![req[r].user] = Monus(@, req[r].size)])
  BY DEF Refund
<1>4. req'[r] = IdDone(r, req[r].img) /\ \A p \in Req \ {r} : req'[p] = req[p]
  BY <1>1, OnlyOne DEF TypeInv
<1> QED BY <1>1, <1>2, <1>3, <1>4, NextRequestHolds

LEMMA QuotaStep == ASSUME QuotaInv, TypeInv', [Next]_vars PROVE QuotaInv'
<1> USE DEF QuotaInv, TypeInv
<1>1. \A u \in User : used[u] \in Nat
  BY DEF TypeOK
<1>2. ASSUME NEW r \in Req, Arrive(r) PROVE QuotaInv'
  <2>1. Settles(r) /\ UNCHANGED used
    BY <1>2, ArriveSettles DEF Settles, AdmittedPc
  <2> QED BY <1>1, <2>1, QuotaSettles
<1>3. ASSUME NEW r \in Req, Disconnect(r) PROVE QuotaInv'
  <2>1. Settles(r) /\ UNCHANGED used
    BY <1>3, DisconnectSettles DEF Settles, AdmittedPc
  <2> QED BY <1>1, <2>1, QuotaSettles
<1>4. ASSUME NEW r \in Req, PutOriginal(r) \/ MakeThumbnail(r) PROVE QuotaInv'
  <2>1. Settles(r) /\ UNCHANGED used
    BY <1>4, UploadSettles DEF Settles, AdmittedPc
  <2> QED BY <1>1, <2>1, QuotaSettles
<1>5. ASSUME NEW r \in Req, UndoOriginal(r) \/ UndoThumbnail(r) PROVE QuotaInv'
  <2>1. Settles(r) /\ UNCHANGED used
    BY <1>5, UndoSettles DEF Settles, AdmittedPc
  <2> QED BY <1>1, <2>1, QuotaSettles
<1>6. ASSUME NEW r \in Req, RemoveOriginal(r) \/ RemoveThumbnail(r) PROVE QuotaInv'
  <2>1. Settles(r) /\ UNCHANGED used
    BY <1>6, RemoveSettles DEF Settles, AdmittedPc
  <2> QED BY <1>1, <2>1, QuotaSettles
<1>7. ASSUME NEW r \in Req, SkipFile(r) \/ RefuseFile(r) \/ FetchObject(r) PROVE QuotaInv'
  <2>1. Settles(r) /\ UNCHANGED used
    BY <1>7, EndSettles DEF Settles, AdmittedPc
  <2> QED BY <1>1, <2>1, QuotaSettles
<1>8. ASSUME NEW r \in Req, InsertRow(r) PROVE QuotaInv'
  <2>1. Settles(r) /\ UNCHANGED used
    BY <1>8, InsertSettles DEF Settles, AdmittedPc
  <2> QED BY <1>1, <2>1, QuotaSettles
<1>9. ASSUME NEW r \in Req, DeleteRow(r) PROVE QuotaInv'
  <2>1. Settles(r) /\ UNCHANGED used
    BY <1>9, DeleteSettles DEF Settles, AdmittedPc
  <2> QED BY <1>1, <2>1, QuotaSettles
<1>10. ASSUME NEW r \in Req, Refund(r) PROVE QuotaInv'
  <2>1. Settles(r)
    BY <1>10, RefundSettles DEF Settles, AdmittedPc
  <2>2. ASSUME NEW u \in User PROVE used'[u] <= used[u]
    BY <1>1, <1>10, RefundSettles DEF TypeOK, Monus
  <2> QED BY <2>1, <2>2, QuotaSettles
<1>11. ASSUME NEW r \in Req, Work(r) PROVE QuotaInv'
  BY <1>4, <1>5, <1>6, <1>7, <1>8, <1>9, <1>10, <1>11, QuotaAccept, QuotaCharge DEF Work
<1>12. CASE UNCHANGED <<used, req>>
  BY <1>12 DEF SizesFit, QuotaOvershootBounded, InFlight
<1>13. CASE Crash
  <2>1. SizesFit'
    BY <1>13 DEF Crash, SizesFit, Idle, AdmittedPc
  <2>2. ASSUME NEW u \in User \ Admin PROVE used'[u] + InFlight(u, AdmittedPc)' <= Quota + Room
    <3>1. used[u] + InFlight(u, AdmittedPc) <= Quota + Room /\ InFlight(u, AdmittedPc) \in Nat
      BY QuotaIs, AmountsTyped
    <3> DEFINE g == [q \in Req |-> Amount(req'[q], u, AdmittedPc)]
    <3>2. \A q \in Req : g[q] = 0
      BY <1>13 DEF Crash, Idle, Amount, AdmittedPc
    <3>3. InFlight(u, AdmittedPc)' = SumFunction(g)
      BY DEF InFlight, Amount
    <3>4. g \in [Req -> Nat]
      BY <3>2
    <3> HIDE DEF g
    <3>5. InFlight(u, AdmittedPc)' = 0
      BY <3>2, <3>3, <3>4, SumOfZeros, ConstAssumption
    <3>6. UNCHANGED used
      BY <1>13 DEF Crash
    <3> QED BY <1>1, <3>1, <3>5, <3>6, RoomIsInt, ConstAssumption
  <2>3. QuotaOvershootBounded'
    BY <2>2 DEF QuotaOvershootBounded, AdmittedPc, Room
  <2> QED BY <2>1, <2>3
<1>14. CASE ForceDelete \/ UNCHANGED vars
  BY <1>12, <1>14 DEF ForceDelete, vars
<1> QED BY <1>2, <1>3, <1>11, <1>13, <1>14 DEF Next

\* QuotaOvershootBounded: for every number of users and of requests at once, and under
\* all failures, what is stored and admitted passes the quota by less than one
\* largest file for each request.
THEOREM QuotaNearlyKept == Spec => []QuotaOvershootBounded
<1>1. Init => QuotaInv
  BY TypeInit, QuotaInit DEF QuotaInv
<1>2. QuotaInv /\ [Next]_vars => QuotaInv'
  BY QuotaStep, TypeStep DEF QuotaInv
<1>3. QuotaInv => QuotaOvershootBounded
  BY DEF QuotaInv
<1> QED BY <1>1, <1>2, <1>3, PTL DEF Spec

-----------------------------------------------------------------------------
(***************************************************************************)
(* What is stored is charged for.  The books of a user compare what the    *)
(* rows say, and what is about to be refunded, with storage_used and what  *)
(* is about to be charged.                                                 *)
(***************************************************************************)
RefundPc == RemovePc \cup {"refund"}
Balanced(u) == Bytes(u) + InFlight(u, RefundPc) <= used[u] + InFlight(u, {"charge"})
BooksInv == OwnInv /\ NeverUndercounts

RowSize(w, u) == IF w.status \in {"live", "hidden"} /\ w.owner = u THEN w.size ELSE 0

LEMMA BooksAre == NeverUndercounts <=> "charge" \in slipped \/ \A u \in User : Balanced(u)
  BY DEF NeverUndercounts, Balanced, RefundPc

LEMMA RowSizes == ASSUME TypeOK, NEW u
    PROVE /\ [i \in Image |-> RowSize(row[i], u)] \in [Image -> Nat]
          /\ Bytes(u) = SumFunction([i \in Image |-> RowSize(row[i], u)])
          /\ Bytes(u) \in Nat
<1>1. \A i \in Image : RowSize(row[i], u) \in Nat
  BY SizeIsNat DEF TypeOK, Row, RowSize
<1>2. [i \in Image |-> RowSize(row[i], u)] \in [Image -> Nat]
  BY <1>1
<1>3. Bytes(u) = SumFunction([i \in Image |-> RowSize(row[i], u)])
  BY DEF Bytes, Stored, RowSize
<1> QED BY <1>2, <1>3, SumFunctionType, ConstAssumption

\* Where one row changes, so much changes of what a user has stored.
LEMMA BytesStep ==
    ASSUME TypeOK, TypeOK', NEW i \in Image, \A j \in Image \ {i} : row'[j] = row[j], NEW u
    PROVE  /\ Bytes(u)' + RowSize(row[i], u) = Bytes(u) + RowSize(row'[i], u)
           /\ Bytes(u) \in Nat /\ Bytes(u)' \in Nat
           /\ RowSize(row[i], u) \in Nat /\ RowSize(row'[i], u) \in Nat
<1> DEFINE f == [j \in Image |-> RowSize(row[j], u)]
           g == [j \in Image |-> RowSize(row'[j], u)]
<1>1. f \in [Image -> Nat] /\ Bytes(u) = SumFunction(f) /\ Bytes(u) \in Nat
  BY RowSizes
<1>2. g \in [Image -> Nat]
  <2>1. \A j \in Image : RowSize(row'[j], u) \in Nat
    BY SizeIsNat DEF TypeOK, Row, RowSize
  <2> QED BY <2>1
<1>3. Bytes(u)' = SumFunction(g)
  BY DEF Bytes, Stored, RowSize
<1>4. \A j \in Image \ {i} : f[j] = g[j]
  OBVIOUS
<1>5. f[i] = RowSize(row[i], u) /\ g[i] = RowSize(row'[i], u)
  OBVIOUS
<1> HIDE DEF f, g
<1>6. SumFunction(g) + f[i] = SumFunction(f) + g[i]
  BY <1>1, <1>2, <1>4, SumChange, ConstAssumption
<1>7. SumFunction(g) \in Nat
  BY <1>2, SumFunctionType, ConstAssumption
<1> QED BY <1>1, <1>2, <1>3, <1>5, <1>6, <1>7

LEMMA SameRows == ASSUME UNCHANGED row, NEW u PROVE Bytes(u)' = Bytes(u)
  BY DEF Bytes, Stored

\* A step of r that neither begins a refund nor ends a charge.
Idles(r) ==
    /\ \A q \in Req \ {r} : req'[q] = req[q]
    /\ req'[r].pc \in RefundPc =>
         req[r].pc \in RefundPc /\ req'[r].user = req[r].user /\ req'[r].size = req[r].size
    /\ req[r].pc = "charge" =>
         req'[r].pc = "charge" /\ req'[r].user = req[r].user /\ req'[r].size = req[r].size

LEMMA IdlesBalanced ==
    ASSUME TypeOK, TypeOK', NEW r \in Req, Idles(r), UNCHANGED <<row, used>>, NEW u \in User, Balanced(u)
    PROVE  Balanced(u)'
<1>1. /\ InFlight(u, RefundPc)' + Amount(req[r], u, RefundPc) = InFlight(u, RefundPc) + Amount(req'[r], u, RefundPc)
      /\ InFlight(u, RefundPc) \in Nat /\ InFlight(u, RefundPc)' \in Nat
      /\ Amount(req[r], u, RefundPc) \in Nat /\ Amount(req'[r], u, RefundPc) \in Nat
  BY InFlightStep DEF Idles
<1>2. /\ InFlight(u, {"charge"})' + Amount(req[r], u, {"charge"})
           = InFlight(u, {"charge"}) + Amount(req'[r], u, {"charge"})
      /\ InFlight(u, {"charge"}) \in Nat /\ InFlight(u, {"charge"})' \in Nat
      /\ Amount(req[r], u, {"charge"}) \in Nat /\ Amount(req'[r], u, {"charge"}) \in Nat
  BY InFlightStep DEF Idles
<1>3. Amount(req'[r], u, RefundPc) <= Amount(req[r], u, RefundPc)
  BY <1>1 DEF Amount, Idles
<1>4. Amount(req[r], u, {"charge"}) <= Amount(req'[r], u, {"charge"})
  BY <1>2 DEF Amount, Idles
<1>5. Bytes(u)' = Bytes(u) /\ Bytes(u) \in Nat /\ used'[u] = used[u] /\ used[u] \in Nat
  BY SameRows, RowSizes DEF TypeOK
<1> QED BY <1>1, <1>2, <1>3, <1>4, <1>5 DEF Balanced

\* The row that an insert writes is about to be charged for.
LEMMA InsertBalanced ==
    ASSUME OwnInv, TypeOK', NEW r \in Req, InsertRow(r), "charge" \notin slipped', NEW u \in User, Balanced(u)
    PROVE  Balanced(u)'
<1> USE DEF OwnInv, TypeInv
<1>1. UNCHANGED used /\ req[r].pc = "insert" /\ \A q \in Req \ {r} : req'[q] = req[q]
  BY InsertSettles
<1>2. CASE Goto(r, "undo") /\ UNCHANGED row
  <2>1. req'[r].pc = "undo"
    BY <1>2, GoesTo
  <2>2. Idles(r)
    BY <1>1, <2>1 DEF Idles, RefundPc, RemovePc
  <2> QED BY <1>1, <1>2, <2>2, IdlesBalanced
<1>3. CASE Goto(r, "charge") /\ row' = [row EXCEPT ![req[r].img] = NewRow(r)]
  <2>1. /\ req'[r].pc = "charge" /\ req'[r].user = req[r].user /\ req'[r].size = req[r].size
    BY <1>3, GoesTo
  <2>2. PICK i \in Image : i = req[r].img /\ row[i].status = "none"
    BY InsertWrites
  <2>3. row'[i] = NewRow(r) /\ \A j \in Image \ {i} : row'[j] = row[j]
    BY <1>3, <2>2 DEF TypeOK
  <2>4. Bytes(u)' + RowSize(row[i], u) = Bytes(u) + RowSize(row'[i], u) /\ Bytes(u) \in Nat /\ Bytes(u)' \in Nat
    BY <2>3, BytesStep
  <2>5. RowSize(row[i], u) = 0 /\ RowSize(row'[i], u) = IF req[r].user = u THEN req[r].size ELSE 0
    BY <2>2, <2>3 DEF RowSize, NewRow
  <2>6. /\ InFlight(u, RefundPc)' + Amount(req[r], u, RefundPc)
             = InFlight(u, RefundPc) + Amount(req'[r], u, RefundPc)
        /\ InFlight(u, RefundPc) \in Nat /\ InFlight(u, RefundPc)' \in Nat
    BY <1>1, InFlightStep
  <2>7. /\ InFlight(u, {"charge"})' + Amount(req[r], u, {"charge"})
             = InFlight(u, {"charge"}) + Amount(req'[r], u, {"charge"})
        /\ InFlight(u, {"charge"}) \in Nat /\ InFlight(u, {"charge"})' \in Nat
    BY <1>1, InFlightStep
  <2>8. Amount(req[r], u, RefundPc) = 0 /\ Amount(req'[r], u, RefundPc) = 0 /\ Amount(req[r], u, {"charge"}) = 0
    BY <1>1, <2>1 DEF Amount, RefundPc, RemovePc
  <2>9. Amount(req'[r], u, {"charge"}) = IF req[r].user = u THEN req[r].size ELSE 0
    BY <2>1 DEF Amount
  <2>10. used[u] \in Nat /\ used'[u] = used[u] /\ req[r].size \in Nat
    BY <1>1, SizeIsNat DEF TypeOK, Request
  <2> QED BY <2>4, <2>5, <2>6, <2>7, <2>8, <2>9, <2>10 DEF Balanced
<1> QED BY <1>2, <1>3 DEF InsertRow, Slips

\* What a deletion takes off the rows is about to be refunded to the same user,
\* unless the answer of the DELETE is lost: then it is not refunded at all.
LEMMA DeleteBalanced ==
    ASSUME OwnInv, TypeOK', NEW r \in Req, DeleteRow(r), NEW u \in User, Balanced(u)
    PROVE  Balanced(u)'
<1> USE DEF OwnInv, TypeInv
<1>1. UNCHANGED used /\ req[r].pc = "pick" /\ req'[r].pc \in {"remove", "pick", "idle"}
      /\ \A q \in Req \ {r} : req'[q] = req[q]
  BY DeleteSettles
<1>2. PICK i \in req[r].todo :
        \/ /\ Deletable(r, i) /\ row' = [row EXCEPT ![i] = GoneRow]
           /\ \/ req' = [req EXCEPT ![r].pc = "remove", ![r].img = i,
                                    ![r].size = row[i].size, ![r].thumb = row[i].thumb]
              \/ req' = [req EXCEPT ![r] = IdDone(r, i)]
        \/ req' = [req EXCEPT ![r] = IdDone(r, i)] /\ UNCHANGED row
  BY DEF DeleteRow
<1>3. i \in Image
  BY DEF TypeOK, Request
<1>4. used[u] \in Nat /\ used'[u] = used[u]
  BY <1>1 DEF TypeOK
<1>5. CASE UNCHANGED row /\ req' = [req EXCEPT ![r] = IdDone(r, i)]
  <2>1. req'[r].pc \in {"pick", "idle"}
    BY <1>5, NextRequestHolds, OnlyOne
  <2>2. Idles(r)
    BY <1>1, <2>1 DEF Idles, RefundPc, RemovePc
  <2> QED BY <1>1, <1>5, <2>2, IdlesBalanced
<1>6. CASE Deletable(r, i) /\ row' = [row EXCEPT ![i] = GoneRow]
  <2>1. row'[i] = GoneRow /\ \A j \in Image \ {i} : row'[j] = row[j]
    BY <1>3, <1>6 DEF TypeOK
  <2>2. Bytes(u)' + RowSize(row[i], u) = Bytes(u) + RowSize(row'[i], u) /\ Bytes(u) \in Nat /\ Bytes(u)' \in Nat
    BY <1>3, <2>1, BytesStep
  <2>3. RowSize(row[i], u) = (IF req[r].user = u THEN row[i].size ELSE 0) /\ RowSize(row'[i], u) = 0
    BY <1>6, <2>1 DEF RowSize, GoneRow, NoRow, Deletable
  <2>4. /\ InFlight(u, RefundPc)' + Amount(req[r], u, RefundPc)
             = InFlight(u, RefundPc) + Amount(req'[r], u, RefundPc)
        /\ InFlight(u, RefundPc) \in Nat /\ InFlight(u, RefundPc)' \in Nat
    BY <1>1, InFlightStep
  <2>5. /\ InFlight(u, {"charge"})' + Amount(req[r], u, {"charge"})
             = InFlight(u, {"charge"}) + Amount(req'[r], u, {"charge"})
        /\ InFlight(u, {"charge"}) \in Nat /\ InFlight(u, {"charge"})' \in Nat
    BY <1>1, InFlightStep
  <2>6. /\ Amount(req[r], u, RefundPc) = 0 /\ Amount(req[r], u, {"charge"}) = 0
        /\ Amount(req'[r], u, {"charge"}) = 0
    BY <1>1 DEF Amount, RefundPc, RemovePc
  <2>7. Amount(req'[r], u, RefundPc) <= RowSize(row[i], u)
    <3>1. CASE req' = [req EXCEPT ![r] = IdDone(r, i)]
      <4>1. req'[r].pc \in {"pick", "idle"}
        BY <3>1, NextRequestHolds, OnlyOne
      <4>2. Amount(req'[r], u, RefundPc) = 0
        BY <4>1 DEF Amount, RefundPc, RemovePc
      <4> QED BY <1>3, <4>2, <2>3, SizeIsNat DEF TypeOK, Row
    <3>2. CASE req' = [req EXCEPT ![r].pc = "remove", ![r].img = i,
                                  ![r].size = row[i].size, ![r].thumb = row[i].thumb]
      <4>1. req'[r].pc = "remove" /\ req'[r].user = req[r].user /\ req'[r].size = row[i].size
        BY <3>2 DEF TypeOK, Request
      <4>2. Amount(req'[r], u, RefundPc) = IF req[r].user = u THEN row[i].size ELSE 0
        BY <4>1 DEF Amount, RefundPc, RemovePc
      <4>3. row[i].size \in Nat
        BY <1>3, SizeIsNat DEF TypeOK, Row
      <4> QED BY <2>3, <4>2, <4>3
    <3> QED BY <1>2, <3>1, <3>2
  <2>8. Amount(req'[r], u, RefundPc) \in Nat /\ RowSize(row[i], u) \in Nat
    BY <1>1, <1>3, <2>1, InFlightStep, BytesStep
  <2> QED BY <1>4, <2>2, <2>3, <2>4, <2>5, <2>6, <2>7, <2>8 DEF Balanced
<1> QED BY <1>2, <1>5, <1>6

\* A charge that is made moves its size from what is due to storage_used.
LEMMA ChargeBalanced ==
    ASSUME OwnInv, TypeOK', NEW r \in Req, Charge(r), "charge" \notin slipped', NEW u \in User, Balanced(u)
    PROVE  Balanced(u)'
<1> USE DEF OwnInv, TypeInv
<1>1. req[r].pc = "charge" /\ req' = [req EXCEPT ![r] = FileDone(r)] /\ UNCHANGED row
  BY DEF Charge
<1>2. req[r].user \in User /\ req[r].size \in Nat
  BY <1>1, SizeIsNat DEF TypeOK, HeldImage, UserPc, Request
<1>3. used' = [used EXCEPT ![req[r].user] = @ + req[r].size]
  BY DEF Charge, Slips
<1>4. used[u] \in Nat /\ used'[u] = used[u] + (IF req[r].user = u THEN req[r].size ELSE 0)
  BY <1>2, <1>3 DEF TypeOK
<1>5. req'[r].pc \in {"file", "idle"} /\ \A q \in Req \ {r} : req'[q] = req[q]
  BY <1>1, OnlyOne, NextRequestHolds
<1>6. /\ InFlight(u, RefundPc)' + Amount(req[r], u, RefundPc) = InFlight(u, RefundPc) + Amount(req'[r], u, RefundPc)
      /\ InFlight(u, RefundPc) \in Nat /\ InFlight(u, RefundPc)' \in Nat
  BY <1>5, InFlightStep
<1>7. /\ InFlight(u, {"charge"})' + Amount(req[r], u, {"charge"})
           = InFlight(u, {"charge"}) + Amount(req'[r], u, {"charge"})
      /\ InFlight(u, {"charge"}) \in Nat /\ InFlight(u, {"charge"})' \in Nat
  BY <1>5, InFlightStep
<1>8. Amount(req[r], u, RefundPc) = 0 /\ Amount(req'[r], u, RefundPc) = 0 /\ Amount(req'[r], u, {"charge"}) = 0
  BY <1>1, <1>5 DEF Amount, RefundPc, RemovePc
<1>9. Amount(req[r], u, {"charge"}) = IF req[r].user = u THEN req[r].size ELSE 0
  BY <1>1 DEF Amount
<1>10. Bytes(u)' = Bytes(u) /\ Bytes(u) \in Nat
  BY <1>1, SameRows, RowSizes
<1> QED BY <1>2, <1>4, <1>6, <1>7, <1>8, <1>9, <1>10 DEF Balanced

\* A refund takes off no more than what it was kept for; where it is floored
\* at 0, what is still to be charged covers the rest.
LEMMA RefundBalanced ==
    ASSUME OwnInv, TypeOK', NEW r \in Req, Refund(r), NEW u \in User, Balanced(u)
    PROVE  Balanced(u)'
<1> USE DEF OwnInv, TypeInv
<1>1. /\ \A p \in Req \ {r} : req'[p] = req[p]
      /\ req[r].pc = "refund" /\ req'[r].pc \in {"pick", "idle"}
      /\ req[r].user \in User /\ req[r].size \in Nat
      /\ UNCHANGED used \/ used' = [used EXCEPT ![req[r].user] = Monus(@, req[r].size)]
      /\ UNCHANGED row
  BY RefundSettles
<1>2. Bytes(u)' = Bytes(u) /\ Bytes(u) \in Nat
  BY <1>1, SameRows, RowSizes
<1>3. /\ InFlight(u, RefundPc)' + Amount(req[r], u, RefundPc) = InFlight(u, RefundPc) + Amount(req'[r], u, RefundPc)
      /\ InFlight(u, RefundPc) \in Nat /\ InFlight(u, RefundPc)' \in Nat
  BY <1>1, InFlightStep
<1>4. /\ InFlight(u, {"charge"})' + Amount(req[r], u, {"charge"})
           = InFlight(u, {"charge"}) + Amount(req'[r], u, {"charge"})
      /\ InFlight(u, {"charge"}) \in Nat /\ InFlight(u, {"charge"})' \in Nat
  BY <1>1, InFlightStep
<1>5. Amount(req'[r], u, RefundPc) = 0 /\ Amount(req[r], u, {"charge"}) = 0 /\ Amount(req'[r], u, {"charge"}) = 0
  BY <1>1 DEF Amount, RefundPc, RemovePc
<1>6. Amount(req[r], u, RefundPc) = IF req[r].user = u THEN req[r].size ELSE 0
  BY <1>1 DEF Amount, RefundPc
<1>7. used[u] \in Nat
  BY DEF TypeOK
<1>8. used'[u] = used[u] \/ (u = req[r].user /\ used'[u] = Monus(used[u], req[r].size))
  BY <1>1 DEF TypeOK
<1>9. CASE used'[u] = used[u]
  BY <1>1, <1>2, <1>3, <1>4, <1>5, <1>6, <1>7, <1>9 DEF Balanced
<1>10. CASE u = req[r].user /\ used'[u] = Monus(used[u], req[r].size)
  BY <1>1, <1>2, <1>3, <1>4, <1>5, <1>6, <1>7, <1>10 DEF Balanced, Monus
<1> QED BY <1>8, <1>9, <1>10

\* An admin's deletion hides a row: its owner goes on paying for it.
LEMMA ForceDeleteBalanced ==
    ASSUME OwnInv, TypeOK', ForceDelete, NEW u \in User, Balanced(u)
    PROVE  Balanced(u)'
<1> USE DEF OwnInv, TypeInv
<1>1. PICK i \in Image : row[i].status \in {"live", "hidden"} /\ row' = [row EXCEPT ![i].status = "hidden"]
  BY DEF ForceDelete
<1>2. /\ \A j \in Image \ {i} : row'[j] = row[j]
      /\ row'[i].status = "hidden" /\ row'[i].owner = row[i].owner /\ row'[i].size = row[i].size
  BY <1>1 DEF TypeOK, Row
<1>3. RowSize(row'[i], u) = RowSize(row[i], u)
  BY <1>1, <1>2 DEF RowSize
<1>4. /\ Bytes(u)' + RowSize(row[i], u) = Bytes(u) + RowSize(row'[i], u)
      /\ Bytes(u) \in Nat /\ Bytes(u)' \in Nat
      /\ RowSize(row[i], u) \in Nat /\ RowSize(row'[i], u) \in Nat
  BY <1>2, BytesStep
<1>5. Bytes(u)' = Bytes(u)
  BY <1>3, <1>4
<1>6. UNCHANGED <<used, req>>
  BY DEF ForceDelete
<1>7. InFlight(u, RefundPc)' = InFlight(u, RefundPc) /\ InFlight(u, {"charge"})' = InFlight(u, {"charge"})
  BY <1>6 DEF InFlight, RefundPc, RemovePc
<1> QED BY <1>5, <1>6, <1>7 DEF Balanced

\* The other steps of a request.
LEMMA OtherStepsIdle ==
    ASSUME TypeInv, NEW r \in Req,
           \/ Arrive(r) \/ Disconnect(r) \/ SkipFile(r) \/ AcceptFile(r) \/ RefuseFile(r)
           \/ PutOriginal(r) \/ MakeThumbnail(r) \/ UndoOriginal(r) \/ UndoThumbnail(r)
           \/ RemoveOriginal(r) \/ RemoveThumbnail(r) \/ FetchObject(r)
    PROVE  Idles(r) /\ UNCHANGED <<row, used>>
<1> USE DEF TypeInv
<1>1. CASE Arrive(r)
  BY <1>1, ArriveSettles DEF Idles, RefundPc, RemovePc
<1>2. CASE Disconnect(r)
  BY <1>2, DisconnectSettles DEF Idles
<1>3. CASE SkipFile(r) \/ RefuseFile(r) \/ FetchObject(r)
  BY <1>3, EndSettles DEF Idles, RefundPc, RemovePc
<1>4. CASE AcceptFile(r)
  <2>1. PICK s \in Size, i \in Image : req' = [req EXCEPT ![r].pc = "put", ![r].img = i, ![r].size = s]
    BY <1>4 DEF AcceptFile
  <2>2. req'[r].pc = "put" /\ \A q \in Req \ {r} : req'[q] = req[q]
    BY <2>1 DEF TypeOK, Request
  <2>3. req[r].pc = "file" /\ UNCHANGED <<row, used>>
    BY <1>4 DEF AcceptFile
  <2> QED BY <2>2, <2>3 DEF Idles, RefundPc, RemovePc
<1>5. CASE PutOriginal(r) \/ MakeThumbnail(r)
  BY <1>5, UploadSettles DEF Idles, RefundPc, RemovePc
<1>6. CASE UndoOriginal(r) \/ UndoThumbnail(r)
  BY <1>6, UndoSettles DEF Idles, RefundPc, RemovePc
<1>7. CASE RemoveOriginal(r) \/ RemoveThumbnail(r)
  BY <1>7, RemoveSettles DEF Idles, RefundPc, RemovePc
<1> QED BY <1>1, <1>2, <1>3, <1>4, <1>5, <1>6, <1>7

LEMMA BooksStep == ASSUME BooksInv, TypeInv', [Next]_vars PROVE NeverUndercounts'
<1> USE DEF BooksInv, OwnInv, TypeInv
<1>1. CASE "charge" \in slipped'
  BY <1>1 DEF NeverUndercounts
<1>2. CASE "charge" \notin slipped'
  <2> SUFFICES ASSUME NEW u \in User PROVE Balanced(u)'
    BY DEF NeverUndercounts, Balanced, RefundPc
  <2>1. Balanced(u)
    BY <1>2, SlipsStay, BooksAre
  <2>2. ASSUME NEW r \in Req, Arrive(r) \/ Work(r) \/ Disconnect(r) PROVE Balanced(u)'
    BY <1>2, <2>1, <2>2, OtherStepsIdle, IdlesBalanced, InsertBalanced, DeleteBalanced, ChargeBalanced,
       RefundBalanced DEF Work
  <2>3. CASE ForceDelete
    BY <2>1, <2>3, ForceDeleteBalanced
  <2>4. ~Crash
    BY <1>2 DEF Crash
  <2>5. CASE UNCHANGED vars
    BY <2>1, <2>5 DEF vars, Balanced, Bytes, Stored, InFlight, RefundPc, RemovePc
  <2> QED BY <2>2, <2>3, <2>4, <2>5 DEF Next
<1> QED BY <1>1, <1>2

LEMMA BooksInit == Init => NeverUndercounts
<1> SUFFICES ASSUME Init, NEW u \in User PROVE Balanced(u)
  BY BooksAre
<1>1. TypeOK
  BY TypeInit DEF TypeInv
<1>2. InFlight(u, RefundPc) = 0
  <2>1. \A r \in Req : Amounts(u, RefundPc)[r] = 0
    BY DEF Amounts, Amount, Init, Idle, RefundPc, RemovePc
  <2> QED BY <1>1, <2>1, AmountsTyped, SumOfZeros, ConstAssumption
<1>3. Bytes(u) = 0
  <2> DEFINE f == [i \in Image |-> RowSize(row[i], u)]
  <2>1. f \in [Image -> Nat] /\ Bytes(u) = SumFunction(f)
    BY <1>1, RowSizes
  <2>2. \A i \in Image : f[i] = 0
    BY DEF RowSize, Init, NoRow
  <2> HIDE DEF f
  <2> QED BY <2>1, <2>2, SumOfZeros, ConstAssumption
<1>4. InFlight(u, {"charge"}) \in Nat /\ used[u] = 0
  BY <1>1, AmountsTyped DEF Init
<1> QED BY <1>2, <1>3, <1>4 DEF Balanced

\* NeverUndercounts: for all users, images and requests at once, no order of uploads
\* and deletions makes bytes free of charge as long as every charge was made.
THEOREM BytesPaidFor == Spec => []NeverUndercounts
<1>1. Init => BooksInv
  BY TypeInit, OwnInit, BooksInit DEF BooksInv, OwnInv
<1>2. BooksInv /\ [Next]_vars => BooksInv'
  BY TypeStep, OwnStep, BooksStep DEF BooksInv, OwnInv
<1>3. BooksInv => NeverUndercounts
  BY DEF BooksInv
<1> QED BY <1>1, <1>2, <1>3, PTL DEF Spec

=============================================================================
