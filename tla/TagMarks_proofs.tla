--------------------------- MODULE TagMarks_proofs --------------------------
(***************************************************************************)
(* Proofs about TagMarks, for any number of images, users, names, requests *)
(* and ids and any failing statements: the types, the two invariants, and  *)
(* that the handlers implement MarkBoard.                                  *)
(***************************************************************************)
EXTENDS TagMarks, TLAPS

\* Ids are issued once: a live id belongs to one name, and none is ahead of
\* the sequence.  Without it a new tag could take over the marks of another.
IdsFresh ==
    /\ \A n \in Name : tagId[n] <= lastId
    /\ \A n, k \in Name : tagId[n] # 0 /\ tagId[n] = tagId[k] => n = k

IInv == TypeOK /\ IdsFresh /\ TogglesCount /\ Attached

\* Initially no tag exists and nothing is marked.
LEMMA InitInv == Init => IInv
  BY TagAssumption DEF Init, IInv, TypeOK, IdsFresh, TogglesCount, Attached,
     Idle, Request, Mark, TagId

\* A toggle knows which mark it is about.
LEMMA WantedMark ==
    ASSUME TypeOK, NEW r \in Req, At(r, "unmark") \/ At(r, "mark")
    PROVE  Wanted(r) \in Mark
  BY DEF TypeOK, At, Wanted, Mark, TagId, Request

\* Clearing marks settles their counts, and leaves the others attached to
\* whatever they were attached to.
LEMMA ClearKeeps ==
    ASSUME IInv, NEW gone, Clear(gone)
    PROVE  /\ marks' \subseteq marks /\ told' \in [Mark -> -1..2]
           /\ marks' \subseteq Mark
           /\ \A m \in Mark : told'[m] = IF m \in marks' THEN 1 ELSE 0
  BY DEF IInv, TypeOK, TogglesCount, Clear

\* A request of the listed shapes keeps the type of the slots.
LEMMA AnswerTyped ==
    ASSUME TypeOK, NEW r \in Req, NEW how \in {"ok", "refused", "mark", "upsert", "remove"},
           Answer(r, how), req[r].pc \notin {"idle", "ok", "refused"},
           how = "mark" => req[r].pc = "unmark"
    PROVE  /\ req' \in [Req -> Request]
           /\ \A q \in Req :
                /\ req'[q].pc \in {"unmark", "mark"} => req'[q].tag # 0 /\ req'[q].user \in User
                /\ req'[q].pc \notin {"idle", "ok", "refused"} => req'[q].image \in Image
  <1>1. req' \in [Req -> Request]
    BY DEF TypeOK, Answer, Request
  <1>2. \A q \in Req \ {r} : req'[q] = req[q]
    BY DEF TypeOK, Answer
  <1>3. req'[r] = [req[r] EXCEPT !.pc = how]
    BY DEF TypeOK, Answer
  <1> QED
    BY SMTT(30), <1>1, <1>2, <1>3 DEF TypeOK, Request

\* What the slots must satisfy for TypeOK.
SlotsOK ==
    /\ req \in [Req -> Request]
    /\ \A r \in Req :
         /\ req[r].pc \in {"unmark", "mark"} => req[r].tag # 0 /\ req[r].user \in User
         /\ req[r].pc \notin {"idle", "ok", "refused"} => req[r].image \in Image

\* What the tables must satisfy for the invariant.
TablesOK ==
    /\ image \in [Image -> {"public", "hidden", "gone"}]
    /\ tagId \in [Name -> 0..MaxId] /\ lastId \in 0..MaxId
    /\ marks \subseteq Mark /\ told \in [Mark -> -1..2]
    /\ changes \in 0..MaxChanges
    /\ IdsFresh /\ TogglesCount /\ Attached

LEMMA Parts == IInv <=> SlotsOK /\ TablesOK
  BY DEF IInv, TypeOK, SlotsOK, TablesOK

\* A new request of a client is well typed.
LEMMA AskTyped ==
    ASSUME SlotsOK, NEW r \in Req, NEW q \in Request, Asks(r, q),
           q.image \in Image, q.pc \in {"unmark", "mark"} => q.tag # 0 /\ q.user \in User
    PROVE  SlotsOK'
  <1>1. req' \in [Req -> Request]
    BY DEF SlotsOK, Asks
  <1>2. \A k \in Req : req'[k] = IF k = r THEN q ELSE req[k]
    BY DEF SlotsOK, Asks
  <1> QED
    BY <1>1, <1>2 DEF SlotsOK

\* A step of a request keeps its slot well typed.
LEMMA SlotStep ==
    ASSUME IInv, NEW r \in Req,
           \/ BeginToggle(r) \/ Unmark(r) \/ InsertMark(r)
           \/ BeginAddTags(r) \/ CheckPublic(r, "addcheck", "upsert") \/ UpsertTag(r) \/ Link(r)
           \/ BeginRemoveTag(r) \/ CheckPublic(r, "removecheck", "remove") \/ RemoveMarks(r)
           \/ Respond(r)
    PROVE  SlotsOK'
  <1> USE TagAssumption
  <1>1. CASE BeginToggle(r)
    <2>1. PICK i \in Image, t \in Issued, u \in User :
            Asks(r, [Idle EXCEPT !.pc = "unmark", !.image = i, !.tag = t, !.user = u])
      BY <1>1 DEF BeginToggle
    <2> DEFINE q == [Idle EXCEPT !.pc = "unmark", !.image = i, !.tag = t, !.user = u]
    <2>2. t \in 0..MaxId /\ t # 0
      BY DEF Issued, IInv, TypeOK
    <2>3. q \in Request /\ q.image \in Image /\ q.tag # 0 /\ q.user \in User
      BY <2>2 DEF Idle, Request
    <2> QED
      BY <2>1, <2>3, AskTyped, Parts
  <1>2. CASE Unmark(r)
    BY <1>2, AnswerTyped DEF IInv, SlotsOK, Unmark, At, Goto
  <1>3. CASE InsertMark(r)
    BY <1>3, AnswerTyped DEF IInv, SlotsOK, InsertMark, At
  <1>4. CASE BeginAddTags(r)
    <2>1. PICK i \in Image, names \in SUBSET Name \ {{}} :
            Asks(r, [Idle EXCEPT !.pc = "addcheck", !.image = i, !.todo = names, !.asked = names])
      BY <1>4 DEF BeginAddTags
    <2> DEFINE q == [Idle EXCEPT !.pc = "addcheck", !.image = i, !.todo = names, !.asked = names]
    <2>2. names \in SUBSET Name
      OBVIOUS
    <2>3. Idle \in Request
      BY DEF Idle, Request
    <2>4. q \in Request /\ q.image \in Image /\ q.pc = "addcheck"
      BY <2>2, <2>3 DEF Idle, Request
    <2> QED
      BY <2>1, <2>4, AskTyped, Parts
  <1>5. CASE CheckPublic(r, "addcheck", "upsert")
    BY <1>5, AnswerTyped DEF IInv, SlotsOK, CheckPublic, At, Goto
  <1>6. CASE UpsertTag(r)
    <2>1. PICK n \in req[r].todo :
            \/ /\ Upsert(n)
               /\ req' = [req EXCEPT ![r].pc = "link", ![r].todo = @ \ {n}, ![r].tag = tagId'[n]]
            \/ req' = [req EXCEPT ![r].pc = IF req[r].todo = {n} THEN "ok" ELSE "upsert",
                                  ![r].todo = @ \ {n}]
      BY <1>6 DEF UpsertTag
    <2>2. n \in Name /\ req[r].image \in Image /\ req[r] \in Request
      BY <1>6, <2>1 DEF IInv, TypeOK, UpsertTag, At, Request
    <2>3. Upsert(n) => tagId'[n] \in 0..MaxId
      BY <2>2 DEF IInv, TypeOK, Upsert
    <2> QED
      BY <2>1, <2>2, <2>3 DEF IInv, TypeOK, SlotsOK, Request
  <1>7. CASE Link(r)
    BY <1>7, AnswerTyped DEF IInv, SlotsOK, Link, At, Goto
  <1>8. CASE BeginRemoveTag(r)
    <2>1. PICK i \in Image, t \in Issued :
            Asks(r, [Idle EXCEPT !.pc = "removecheck", !.image = i, !.tag = t])
      BY <1>8 DEF BeginRemoveTag
    <2> DEFINE q == [Idle EXCEPT !.pc = "removecheck", !.image = i, !.tag = t]
    <2>2. t \in 0..MaxId
      BY DEF Issued, IInv, TypeOK
    <2>3. q \in Request /\ q.image \in Image /\ q.pc = "removecheck"
      BY <2>2 DEF Idle, Request
    <2> QED
      BY <2>1, <2>3, AskTyped, Parts
  <1>9. CASE CheckPublic(r, "removecheck", "remove")
    BY <1>9, AnswerTyped DEF IInv, SlotsOK, CheckPublic, At, Goto
  <1>10. CASE RemoveMarks(r)
    BY <1>10, AnswerTyped DEF IInv, SlotsOK, RemoveMarks, At
  <1>11. CASE Respond(r)
    BY <1>11 DEF IInv, TypeOK, SlotsOK, Respond, Idle, Request
  <1> QED
    BY <1>1, <1>2, <1>3, <1>4, <1>5, <1>6, <1>7, <1>8, <1>9, <1>10, <1>11

\* Creating a tag keeps every id a name already has.
LEMMA UpsertKeeps ==
    ASSUME TablesOK, NEW n \in Name, Upsert(n), UNCHANGED <<image, marks, told, changes>>
    PROVE  TablesOK'
  <1>1. /\ tagId' \in [Name -> 0..MaxId] /\ lastId' \in 0..MaxId /\ IdsFresh'
        /\ \A k \in Name : tagId[k] # 0 => tagId'[k] = tagId[k]
    BY TagAssumption DEF TablesOK, IdsFresh, Upsert
  <1>2. Attached'
    BY <1>1 DEF TablesOK, Attached, TagExists, Exists, Mark, TagId
  <1> QED
    BY <1>1, <1>2 DEF TablesOK, TogglesCount

\* Each step keeps the tables in order.
LEMMA TablesStep == ASSUME IInv, Next PROVE TablesOK'
  <1> USE TagAssumption, Parts
  <1>1. ASSUME NEW r \in Req, Unmark(r) PROVE TablesOK'
    <2>1. Wanted(r) \in Mark
      BY <1>1, WantedMark DEF IInv, Unmark
    <2>2. CASE Wanted(r) \in marks /\ marks' = marks \ {Wanted(r)}
               /\ told' = [told EXCEPT ![Wanted(r)] = @ - 1]
      BY <1>1, <2>1, <2>2 DEF TablesOK, IdsFresh, TogglesCount, Attached, Unmark, Exists, TagExists
    <2>3. CASE UNCHANGED <<marks, told>>
      BY <1>1, <2>3 DEF TablesOK, IdsFresh, TogglesCount, Attached, Unmark, Exists, TagExists
    <2> QED
      BY <1>1, <2>2, <2>3 DEF Unmark
  <1>2. ASSUME NEW r \in Req, InsertMark(r) PROVE TablesOK'
    <2>1. Wanted(r) \in Mark
      BY <1>2, WantedMark DEF IInv, InsertMark
    <2>2. CASE Insertable(Wanted(r)) /\ marks' = marks \cup {Wanted(r)}
               /\ told' = [told EXCEPT ![Wanted(r)] = @ + 1]
      BY <1>2, <2>1, <2>2 DEF TablesOK, IdsFresh, TogglesCount, Attached, InsertMark,
         Insertable, Exists, TagExists
    <2>3. CASE UNCHANGED <<marks, told>>
      BY <1>2, <2>3 DEF TablesOK, IdsFresh, TogglesCount, Attached, InsertMark, Exists, TagExists
    <2> QED
      BY <1>2, <2>2, <2>3 DEF InsertMark
  <1>3. ASSUME NEW r \in Req, UpsertTag(r) PROVE TablesOK'
    <2>1. PICK n \in req[r].todo : Upsert(n) \/ UNCHANGED <<tagId, lastId>>
      BY <1>3 DEF UpsertTag
    <2>2. n \in Name
      BY <2>1 DEF SlotsOK, Request
    <2>3. CASE Upsert(n)
      BY <1>3, <2>2, <2>3, UpsertKeeps DEF UpsertTag
    <2>4. CASE UNCHANGED <<tagId, lastId>>
      BY <1>3, <2>4 DEF UpsertTag, TablesOK, IdsFresh, TogglesCount, Attached, Exists, TagExists
    <2> QED
      BY <2>1, <2>3, <2>4
  <1>4. ASSUME NEW r \in Req, RemoveMarks(r) PROVE TablesOK'
    <2>1. CASE Clear({m \in Mark : m[1] = req[r].image /\ m[2] = req[r].tag})
      BY <1>4, <2>1, ClearKeeps DEF RemoveMarks, TablesOK, IdsFresh, TogglesCount, Attached,
         Exists, TagExists
    <2>2. CASE UNCHANGED <<marks, told>>
      BY <1>4, <2>2 DEF RemoveMarks, TablesOK, IdsFresh, TogglesCount, Attached, Exists, TagExists
    <2> QED
      BY <1>4, <2>1, <2>2 DEF RemoveMarks
  <1>5. CASE CreateTag
    BY <1>5, UpsertKeeps DEF CreateTag
  <1>6. CASE DeleteTag
    <2>1. PICK n \in Name : /\ tagId[n] # 0 /\ tagId' = [tagId EXCEPT ![n] = 0]
                            /\ Clear({m \in Mark : m[2] = tagId[n]})
      BY <1>6 DEF DeleteTag
    <2>2. tagId' \in [Name -> 0..MaxId] /\ IdsFresh'
      BY <1>6, <2>1 DEF DeleteTag, TablesOK, IdsFresh
    <2>3. \A m \in marks' : m \in marks /\ m[2] # tagId[n]
      BY <2>1 DEF Clear, TablesOK
    <2>4. Attached'
      BY <1>6, <2>1, <2>3 DEF DeleteTag, TablesOK, Attached, Exists, TagExists
    <2> QED
      BY <1>6, <2>1, <2>2, <2>4, ClearKeeps DEF DeleteTag, TablesOK, TogglesCount
  <1>7. CASE DeleteImage
    <2>1. PICK i \in Image : /\ image' = [image EXCEPT ![i] = "gone"]
                             /\ Clear({m \in Mark : m[1] = i})
      BY <1>7 DEF DeleteImage
    <2>2. \A m \in marks' : m \in marks /\ m[1] # i
      BY <2>1 DEF Clear, TablesOK
    <2>3. Attached'
      BY <1>7, <2>1, <2>2 DEF DeleteImage, TablesOK, Attached, Exists, TagExists, Mark
    <2> QED
      BY <1>7, <2>1, <2>3, ClearKeeps DEF DeleteImage, TablesOK, IdsFresh, TogglesCount
  <1>8. CASE HideImage
    BY <1>8 DEF HideImage, TablesOK, IdsFresh, TogglesCount, Attached, Exists, TagExists, Mark
  <1>9. CASE UNCHANGED Tables
    BY <1>9 DEF Tables, TablesOK, IdsFresh, TogglesCount, Attached, Exists, TagExists
  <1> QED
    BY <1>1, <1>2, <1>3, <1>4, <1>5, <1>6, <1>7, <1>8, <1>9
       DEF Next, BeginToggle, BeginAddTags, CheckPublic, Link, BeginRemoveTag, Respond

\* Every step keeps the invariant.
LEMMA StepInv == IInv /\ [Next]_vars => IInv'
  <1> SUFFICES ASSUME IInv, [Next]_vars PROVE IInv'
    OBVIOUS
  <1>1. CASE Next
    <2>1. TablesOK'
      BY <1>1, TablesStep
    <2>2. ASSUME UNCHANGED req PROVE SlotsOK'
      BY <2>2, Parts DEF SlotsOK
    <2>3. SlotsOK'
      BY <1>1, <2>2, SlotStep, Parts
         DEF Next, CreateTag, DeleteTag, DeleteImage, HideImage, SlotsOK
    <2> QED
      BY <2>1, <2>3 DEF IInv, TypeOK, SlotsOK, TablesOK
  <1>2. CASE UNCHANGED vars
    BY <1>2 DEF vars, IInv, TypeOK, IdsFresh, TogglesCount, Attached, Exists, TagExists
  <1> QED
    BY <1>1, <1>2

\* The invariant holds of every reachable state.
LEMMA Invariance == Spec => []IInv
  BY InitInv, StepInv, PTL DEF Spec

\* Every reachable state is well typed.
THEOREM TypeCorrect == Spec => []TypeOK
  BY Invariance, PTL DEF IInv

\* No toggle is lost or counted twice, whatever interleaves with it.
THEOREM TogglesAddUp == Spec => []TogglesCount
  BY Invariance, PTL DEF IInv

\* No mark ever hangs on an image or a tag that does not exist.
THEOREM AlwaysAttached == Spec => []MarksAttached
  BY Invariance, PTL DEF IInv, MarksAttached

-----------------------------------------------------------------------------
(* TagMarks implements MarkBoard. *)

BoardImages == {i \in Image : Exists(i)}
BoardTags == {t \in TagId : TagExists(t)}
BoardVars == <<BoardImages, BoardTags, marks, told>>

\* No handler of these touches the board.
LEMMA Unseen ==
    ASSUME UNCHANGED <<image, tagId, marks, told>>
    PROVE  UNCHANGED BoardVars
  BY DEF BoardVars, BoardImages, BoardTags, Exists, TagExists

\* A toggle's DELETE takes a mark, or leaves the board as it is.
LEMMA UnmarkOnBoard ==
    ASSUME IInv, NEW r \in Req, Unmark(r)
    PROVE  (\E m \in Mark : Board!Take(m)) \/ UNCHANGED BoardVars
  <1>1. Wanted(r) \in Mark
    BY WantedMark DEF IInv, Unmark
  <1>2. CASE UNCHANGED <<marks, told>>
    BY <1>2, Unseen DEF Unmark
  <1>3. CASE Wanted(r) \in marks /\ marks' = marks \ {Wanted(r)}
             /\ told' = [told EXCEPT ![Wanted(r)] = @ - 1]
    <2>1. Board!Take(Wanted(r))
      BY <1>3 DEF Board!Take, Unmark, Exists, TagExists
    <2> QED
      BY <1>1, <2>1
  <1> QED
    BY <1>2, <1>3 DEF Unmark

\* A toggle's INSERT adds a mark, or leaves the board as it is.
LEMMA InsertOnBoard ==
    ASSUME IInv, NEW r \in Req, InsertMark(r)
    PROVE  (\E m \in Mark : Board!Add(m)) \/ UNCHANGED BoardVars
  <1>1. Wanted(r) \in Mark
    BY WantedMark DEF IInv, InsertMark
  <1>2. CASE UNCHANGED <<marks, told>>
    BY <1>2, Unseen DEF InsertMark
  <1>3. CASE Insertable(Wanted(r)) /\ marks' = marks \cup {Wanted(r)}
             /\ told' = [told EXCEPT ![Wanted(r)] = @ + 1]
    <2>1. Board!Add(Wanted(r))
      BY <1>1, <1>3 DEF Board!Add, InsertMark, Insertable, Exists, TagExists, Mark
    <2> QED
      BY <1>1, <2>1
  <1> QED
    BY <1>2, <1>3 DEF InsertMark

\* Clearing marks is the board's clearing.
LEMMA ClearOnBoard == ASSUME NEW gone, Clear(gone) PROVE Board!Clear(gone)
  BY DEF Clear, Board!Clear, Board!Mark, Mark

\* An upsert adds a tag that did not exist, or nothing.
LEMMA UpsertOnBoard ==
    ASSUME IInv, NEW n \in Name, Upsert(n), UNCHANGED <<image, marks, told>>
    PROVE  (\E t \in TagId : Board!NewTag(t)) \/ UNCHANGED BoardVars
  <1>1. CASE UNCHANGED tagId
    BY <1>1, Unseen
  <1>2. CASE tagId[n] = 0 /\ lastId < MaxId /\ tagId' = [tagId EXCEPT ![n] = lastId + 1]
    <2> DEFINE t == lastId + 1
    <2>1. t \in TagId /\ ~TagExists(t)
      BY <1>2, TagAssumption DEF IInv, TypeOK, IdsFresh, TagId, TagExists
    <2>2. \A k \in TagId : TagExists(k)' <=> TagExists(k) \/ k = t
      BY <1>2 DEF IInv, TypeOK, TagId, TagExists
    <2>3. Board!NewTag(t)
      BY <2>1, <2>2 DEF Board!NewTag, Exists
    <2> QED
      BY <2>1, <2>3
  <1> QED
    BY <1>1, <1>2 DEF Upsert

\* RemoveTag clears the marks of a tag on an image.
LEMMA RemoveOnBoard ==
    ASSUME IInv, NEW r \in Req, RemoveMarks(r)
    PROVE  (\E i \in Image, t \in TagId : Board!Untag(i, t)) \/ UNCHANGED BoardVars
  <1>1. CASE UNCHANGED <<marks, told>>
    BY <1>1, Unseen DEF RemoveMarks
  <1> DEFINE i == req[r].image  t == req[r].tag
             gone == {m \in Mark : m[1] = i /\ m[2] = t}
  <1>2. CASE Clear(gone)
    <2>1. i \in Image /\ t \in 0..MaxId
      BY DEF IInv, TypeOK, RemoveMarks, At, Request
    <2>2. CASE t = 0
      <3>1. gone = {}
        BY <2>2, TagAssumption DEF Mark, TagId
      <3>2. UNCHANGED <<marks, told>>
        BY <1>2, <3>1 DEF Clear, IInv, TypeOK
      <3> QED
        BY <3>2, <1>1
    <2>3. CASE t # 0
      <3>1. t \in TagId
        BY <2>1, <2>3 DEF TagId
      <3>2. Board!Untag(i, t)
        BY <1>2, ClearOnBoard DEF Board!Untag, Board!Mark, Mark, RemoveMarks, Exists, TagExists
      <3> QED
        BY <2>1, <3>1, <3>2
    <2> QED
      BY <2>2, <2>3
  <1> QED
    BY <1>1, <1>2 DEF RemoveMarks

\* Deleting a tag drops it, because no other name has its id.
LEMMA DeleteTagOnBoard ==
    ASSUME IInv, DeleteTag
    PROVE  \E t \in TagId : Board!DropTag(t)
  <1>1. PICK n \in Name : /\ tagId[n] # 0 /\ tagId' = [tagId EXCEPT ![n] = 0]
                          /\ Clear({m \in Mark : m[2] = tagId[n]})
    BY DEF DeleteTag
  <1>2. tagId[n] \in TagId
    BY <1>1, TagAssumption DEF IInv, TypeOK, TagId
  <1>3. \A k \in TagId : TagExists(k)' <=> TagExists(k) /\ k # tagId[n]
    BY <1>1 DEF IInv, TypeOK, IdsFresh, TagId, TagExists
  <1>4. BoardTags' = BoardTags \ {tagId[n]}
    BY <1>3 DEF BoardTags
  <1>5. Board!Clear({m \in Board!Mark : m[2] = tagId[n]})
    BY <1>1, ClearOnBoard DEF Board!Mark, Mark
  <1>6. Board!DropTag(tagId[n])
    BY <1>4, <1>5 DEF Board!DropTag, BoardTags, DeleteTag, Exists
  <1> QED
    BY <1>2, <1>6

\* Deleting an image drops it.
LEMMA DeleteImageOnBoard ==
    ASSUME IInv, DeleteImage
    PROVE  \E i \in Image : Board!DropImage(i)
  <1>1. PICK i \in Image : /\ image' = [image EXCEPT ![i] = "gone"]
                           /\ Clear({m \in Mark : m[1] = i})
    BY DEF DeleteImage
  <1>2. BoardImages' = BoardImages \ {i}
    BY <1>1 DEF BoardImages, Exists, IInv, TypeOK
  <1>3. Board!Clear({m \in Board!Mark : m[1] = i})
    BY <1>1, ClearOnBoard DEF Board!Mark, Mark
  <1>4. Board!DropImage(i)
    BY <1>2, <1>3 DEF Board!DropImage, BoardImages, DeleteImage, TagExists
  <1> QED
    BY <1>4

\* Every step of the handlers is a step of the board or leaves it alone.
LEMMA StepOnBoard == ASSUME IInv, [Next]_vars PROVE Board!Next \/ UNCHANGED BoardVars
  <1>1. ASSUME NEW r \in Req, Unmark(r) PROVE Board!Next \/ UNCHANGED BoardVars
    BY <1>1, UnmarkOnBoard DEF Board!Next, Board!Mark, Mark
  <1>2. ASSUME NEW r \in Req, InsertMark(r) PROVE Board!Next \/ UNCHANGED BoardVars
    BY <1>2, InsertOnBoard DEF Board!Next, Board!Mark, Mark
  <1>3. ASSUME NEW r \in Req, UpsertTag(r) PROVE Board!Next \/ UNCHANGED BoardVars
    <2>1. PICK n \in req[r].todo : Upsert(n) \/ UNCHANGED <<tagId, lastId>>
      BY <1>3 DEF UpsertTag
    <2>2. n \in Name
      BY <2>1 DEF IInv, TypeOK, Request
    <2>3. CASE Upsert(n)
      BY <1>3, <2>2, <2>3, UpsertOnBoard DEF UpsertTag, Board!Next
    <2>4. CASE UNCHANGED tagId
      BY <1>3, <2>4, Unseen DEF UpsertTag
    <2> QED
      BY <2>1, <2>3, <2>4
  <1>4. ASSUME NEW r \in Req, RemoveMarks(r) PROVE Board!Next \/ UNCHANGED BoardVars
    BY <1>4, RemoveOnBoard DEF Board!Next
  <1>5. CASE CreateTag
    BY <1>5, UpsertOnBoard DEF CreateTag, Board!Next
  <1>6. CASE DeleteTag
    BY <1>6, DeleteTagOnBoard DEF Board!Next
  <1>7. CASE DeleteImage
    BY <1>7, DeleteImageOnBoard DEF Board!Next
  <1>8. CASE HideImage
    <2>1. \A i \in Image : Exists(i)' <=> Exists(i)
      BY <1>8 DEF HideImage, Exists, IInv, TypeOK
    <2> QED
      BY <1>8, <2>1 DEF HideImage, BoardVars, BoardImages, BoardTags, TagExists
  <1>9. CASE UNCHANGED Tables
    BY <1>9, Unseen DEF Tables
  <1>10. CASE UNCHANGED vars
    BY <1>10, Unseen DEF vars
  <1> QED
    BY <1>1, <1>2, <1>3, <1>4, <1>5, <1>6, <1>7, <1>8, <1>9, <1>10
       DEF Next, BeginToggle, BeginAddTags, CheckPublic, Link, BeginRemoveTag, Respond

\* The handlers, with their races and failures, implement the board: a mark is
\* flipped by one toggle at a time and goes with its image or its tag.
THEOREM TagMarksImplementBoard == Spec => ImplementsBoard
  <1>1. Init => Board!Init
    BY DEF Init, Board!Init, Board!Mark, Mark, Exists, TagExists, TagId
  <1>2. IInv /\ [Next]_vars => [Board!Next]_BoardVars
    BY StepOnBoard
  <1> QED
    BY <1>1, <1>2, Invariance, PTL
       DEF Spec, ImplementsBoard, Board!Spec, BoardVars, BoardImages, BoardTags

=============================================================================
