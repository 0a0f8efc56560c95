---------------------------- MODULE Pages_proofs ----------------------------
(***************************************************************************)
(* The comments of an image, the tabs over one storage, the upload of the  *)
(* phone, and the sessions of both clients, which keep variables of their  *)
(* own in the run of the pages.                                            *)
(*                                                                         *)
(* Comments are deleted by right, though the owner is read in one          *)
(* statement and the row deleted in another, by its id alone.  What makes  *)
(* it so is that an id is never given to a second comment: what was read   *)
(* of the owner still holds of whatever has that id later on.              *)
(*                                                                         *)
(* A text is posted once and not lost, and a list shows what its own       *)
(* client did, since a text that is not sent again is either in its box,   *)
(* in one call, or stored.                                                 *)
(*                                                                         *)
(* The tabs agree on their tokens as far as they can, for any number of    *)
(* tabs, accounts, pairs and lost answers.  What makes it inductive is     *)
(* what is known of a call while its answer is on the way: the pair in it  *)
(* is live, nobody holds it yet, and the pair it replaces is known to be   *)
(* exchanged by this very tab.                                             *)
(*                                                                         *)
(* The phone loses and doubles no picture.  What makes it inductive is     *)
(* where each picture of a request is: stored, passed over, or among what  *)
(* the server has left, which was stored before only when it is sent again *)
(* after an error.                                                         *)
(*                                                                         *)
(* A session is what was asked for last.  What makes it inductive is that, *)
(* unless calls overlapped, one call is under way at most and asks for     *)
(* that; and, on the phone, that the last write is the session.            *)
(***************************************************************************)
EXTENDS Comments, TwoTabs, MobileUpload, AccountPages, MobileShell, FiniteSetTheorems, TLAPS

(* Comments are numbered from 1 on, as they come.                          *)
Numbered(S) ==
    /\ IsFiniteSet(S)
    /\ \A x \in S : x.id \in 1..Cardinality(S)
    /\ \A x, y \in S : x.id = y.id => x = y

Shaped(r) ==
    r = [pc |-> r.pc, client |-> r.client, kind |-> r.kind, text |-> r.text, id |-> r.id]
Calls == call = [s \in Slot |-> call[s]] /\ \A s \in Slot : Shaped(call[s])

(* A deletion that was allowed is one its client may ask for.              *)
Permitted(s) ==
    Handles(s, "delete", "allowed") =>
        \E r \in posted : r.id = call[s].id /\ MayDelete(call[s].client, r)

CommentsInv ==
    /\ Calls /\ Numbered(posted) /\ rows \subseteq posted
    /\ \A s \in Slot : Permitted(s)

-----------------------------------------------------------------------------
(* A comment that is stored gets a number that no other has had.           *)
LEMMA NumberedGrows ==
    ASSUME NEW S, Numbered(S), NEW r, r.id = Cardinality(S) + 1
    PROVE  Numbered(S \cup {r}) /\ r \notin S
<1>1. Cardinality(S) \in Nat
  BY FS_CardinalityType DEF Numbered
<1>2. r \notin S
  BY <1>1 DEF Numbered
<1>3. IsFiniteSet(S \cup {r}) /\ Cardinality(S \cup {r}) = Cardinality(S) + 1
  BY <1>2, FS_AddElement DEF Numbered
<1>4. \A x \in S \cup {r} : x.id \in 1..(Cardinality(S) + 1)
  BY <1>1 DEF Numbered
<1>5. \A x, y \in S \cup {r} : x.id = y.id => x = y
  BY <1>1 DEF Numbered
<1> QED
  BY <1>2, <1>3, <1>4, <1>5 DEF Numbered

(* In the beginning nothing is under way.                                  *)
LEMMA CommentsBegin == Init => CommentsInv
<1> SUFFICES ASSUME Init PROVE CommentsInv
  OBVIOUS
<1>1. Calls /\ \A s \in Slot : call[s].pc = "idle"
  BY DEF Init, Calls, Shaped, NoCall
<1>2. Numbered(posted) /\ rows = posted
  BY CommentsAssumption DEF Init, Numbered
<1> QED
  BY <1>1, <1>2 DEF CommentsInv, Permitted, Handles

(* A call that begins or ends allows nothing.                              *)
LEMMA SetCallKeeps ==
    ASSUME CommentsInv, NEW s, NEW new, call' = [call EXCEPT ![s] = new],
           Shaped(new), new.pc # "allowed", posted' = posted, rows' \subseteq rows
    PROVE  CommentsInv'
<1>1. \A t \in Slot : call'[t] = IF t = s THEN new ELSE call[t]
  BY DEF CommentsInv, Calls
<1>2. Calls'
  BY <1>1 DEF CommentsInv, Calls, Shaped
<1>3. \A t \in Slot : Permitted(t)'
  BY <1>1 DEF CommentsInv, Permitted, Handles, MayDelete
<1> QED
  BY <1>2, <1>3 DEF CommentsInv, Numbered

(* A request that is sent is a call.                                       *)
LEMMA RequestShaped ==
    ASSUME NEW c, NEW kind, NEW text, NEW id
    PROVE  Shaped(Request(c, kind, text, id)) /\ Request(c, kind, text, id).pc = "sent"
  BY DEF Shaped, Request

(* Nor does a call that goes on, but by the step that reads the owner.     *)
LEMMA GotoKeeps ==
    ASSUME CommentsInv, NEW s \in Slot, NEW pc, Goto(s, pc), pc # "allowed",
           posted' = posted, rows' \subseteq rows
    PROVE  CommentsInv'
<1> DEFINE new == [call[s] EXCEPT !.pc = pc]
<1>1. call' = [call EXCEPT ![s] = new]
  BY DEF Goto
<1>2. new = [pc |-> pc, client |-> call[s].client, kind |-> call[s].kind,
             text |-> call[s].text, id |-> call[s].id]
  BY DEF CommentsInv, Calls, Shaped
<1>3. Shaped(new) /\ new.pc = pc
  BY <1>2 DEF Shaped
<1> HIDE DEF new
<1> QED
  BY <1>1, <1>3, SetCallKeeps

(* What does not touch the calls may add a comment at most.                *)
LEMMA CommentsStill ==
    ASSUME CommentsInv, call' = call, posted' = posted, rows' \subseteq rows
    PROVE  CommentsInv'
  BY DEF CommentsInv, Calls, Shaped, Numbered, Permitted, Handles, MayDelete

-----------------------------------------------------------------------------
(* The comment is stored under a new number (comment_service.go, Create).  *)
LEMMA InsertKeeps ==
    ASSUME CommentsInv, NEW s \in Slot, Insert(s)
    PROVE  CommentsInv' /\ rows \subseteq rows'
<1> DEFINE row == [id |-> lastId + 1, by |-> Author(call[s].client), text |-> call[s].text]
<1>1. rows' = rows \cup {row} /\ posted' = posted \cup {row} /\ Goto(s, "ok")
  BY DEF Insert
<1>2. row.id = Cardinality(posted) + 1
  BY DEF lastId
<1> HIDE DEF row
<1>3. Numbered(posted') /\ rows' \subseteq posted'
  BY <1>1, <1>2, NumberedGrows DEF CommentsInv
<1>4. /\ \A t \in Slot : call'[t] = IF t = s THEN [call[s] EXCEPT !.pc = "ok"] ELSE call[t]
      /\ call' = [t \in Slot |-> call'[t]]
  BY <1>1 DEF Goto, CommentsInv, Calls
<1>5. [call[s] EXCEPT !.pc = "ok"] =
          [pc |-> "ok", client |-> call[s].client, kind |-> call[s].kind,
           text |-> call[s].text, id |-> call[s].id]
  BY DEF CommentsInv, Calls, Shaped
<1>6. Calls'
  BY <1>4, <1>5 DEF CommentsInv, Calls, Shaped
<1>7. \A t \in Slot : Permitted(t)'
  BY <1>1, <1>4, <1>5 DEF CommentsInv, Permitted, Handles, MayDelete
<1> QED
  BY <1>1, <1>3, <1>6, <1>7 DEF CommentsInv

(* The owner is read, and is the one who asks, or an admin does            *)
(* (comment_service.go, Delete).                                           *)
LEMMA CheckOwnerKeeps ==
    ASSUME CommentsInv, NEW s \in Slot, CheckOwner(s)
    PROVE  CommentsInv'
<1>1. UNCHANGED <<rows, posted>>
  BY DEF CheckOwner, server
<1>2. CASE \E r \in rows : r.id = call[s].id /\ MayDelete(call[s].client, r)
  <2>1. call' = [call EXCEPT ![s].pc = "allowed"]
    BY <1>2 DEF CheckOwner, Goto
  <2>2. /\ \A t \in Slot : call'[t] = IF t = s THEN [call[s] EXCEPT !.pc = "allowed"] ELSE call[t]
        /\ call' = [t \in Slot |-> call'[t]]
    BY <2>1 DEF CommentsInv, Calls
  <2>3. [call[s] EXCEPT !.pc = "allowed"] =
            [pc |-> "allowed", client |-> call[s].client, kind |-> call[s].kind,
             text |-> call[s].text, id |-> call[s].id]
    BY DEF CommentsInv, Calls, Shaped
  <2>4. Calls'
    BY <2>2, <2>3 DEF CommentsInv, Calls, Shaped
  <2>5. Permitted(s)'
    BY <1>1, <1>2, <2>2, <2>3 DEF CommentsInv, Permitted, MayDelete
  <2>6. \A t \in Slot \ {s} : Permitted(t)'
    BY <1>1, <2>2 DEF CommentsInv, Permitted, Handles, MayDelete
  <2> QED
    BY <1>1, <2>4, <2>5, <2>6 DEF CommentsInv, Numbered
<1>3. CASE ~\E r \in rows : r.id = call[s].id /\ MayDelete(call[s].client, r)
  BY <1>1, <1>3, GotoKeeps DEF CheckOwner
<1> QED
  BY <1>2, <1>3

(* The row that is deleted by its id is the one whose owner was read.      *)
LEMMA DeleteRowByRight ==
    ASSUME CommentsInv, NEW s \in Slot, DeleteRow(s)
    PROVE  DeletedByRightStep
<1> SUFFICES ASSUME NEW r \in rows, r \notin rows'
             PROVE  call[s].kind = "delete" /\ call[s].id = r.id /\ MayDelete(call[s].client, r)
  BY DEF DeletedByRightStep
<1>1. call[s].kind = "delete" /\ call[s].id = r.id
  BY DEF DeleteRow, Handles
<1>2. PICK q \in posted : q.id = call[s].id /\ MayDelete(call[s].client, q)
  BY DEF DeleteRow, CommentsInv, Permitted
<1>3. q = r
  BY <1>1, <1>2 DEF CommentsInv, Numbered
<1> QED
  BY <1>1, <1>2, <1>3

-----------------------------------------------------------------------------
(* Every step keeps the invariant, and deletes by right.                   *)
LEMMA NextStep == CommentsInv /\ [Next]_vars => CommentsInv' /\ DeletedByRightStep
<1> SUFFICES ASSUME CommentsInv, [Next]_vars PROVE CommentsInv' /\ DeletedByRightStep
  OBVIOUS
<1>a. ASSUME CommentsInv', rows \subseteq rows' \/ ~exists' PROVE CommentsInv' /\ DeletedByRightStep
  BY <1>a DEF DeletedByRightStep
<1>1. ASSUME NEW c, Serve(c) \/ Land(c) PROVE CommentsInv' /\ DeletedByRightStep
  BY <1>1, <1>a, CommentsStill DEF Serve, Land, server
<1>2. ASSUME NEW c, NEW t, Type(c, t) PROVE CommentsInv' /\ DeletedByRightStep
  BY <1>2, <1>a, CommentsStill DEF Type, server
<1>3. ASSUME NEW c, NEW s, Create(c, s) PROVE CommentsInv' /\ DeletedByRightStep
  <2>1. call' = [call EXCEPT ![s] = Request(c, "create", draft[c], 0)] /\ UNCHANGED <<rows, posted>>
    BY <1>3 DEF Create, server
  <2> QED
    BY <1>a, <2>1, RequestShaped, SetCallKeeps
<1>4. ASSUME NEW c, NEW s, NEW row, AskDelete(c, s, row) PROVE CommentsInv' /\ DeletedByRightStep
  <2>1. call' = [call EXCEPT ![s] = Request(c, "delete", NoText, row.id)] /\ UNCHANGED <<rows, posted>>
    BY <1>4 DEF AskDelete, server
  <2> QED
    BY <1>a, <2>1, RequestShaped, SetCallKeeps
<1>5. ASSUME NEW c, NEW s, NEW id, AskDeleteById(c, s, id) PROVE CommentsInv' /\ DeletedByRightStep
  <2>1. call' = [call EXCEPT ![s] = Request(c, "delete", NoText, id)] /\ UNCHANGED <<rows, posted>>
    BY <1>5 DEF AskDeleteById, server
  <2> QED
    BY <1>a, <2>1, RequestShaped, SetCallKeeps
<1>6. ASSUME NEW s \in Slot, Insert(s) PROVE CommentsInv' /\ DeletedByRightStep
  BY <1>6, <1>a, InsertKeeps
<1>7. ASSUME NEW s \in Slot, NoImage(s) PROVE CommentsInv' /\ DeletedByRightStep
  BY <1>7, <1>a, GotoKeeps DEF NoImage, server
<1>8. ASSUME NEW s \in Slot, CheckOwner(s) PROVE CommentsInv' /\ DeletedByRightStep
  <2>1. rows' = rows
    BY <1>8 DEF CheckOwner, server
  <2> QED
    BY <1>8, <1>a, <2>1, CheckOwnerKeeps
<1>9. ASSUME NEW s \in Slot, DeleteRow(s) PROVE CommentsInv' /\ DeletedByRightStep
  <2>1. Goto(s, "ok") /\ posted' = posted /\ rows' \subseteq rows
    BY <1>9 DEF DeleteRow
  <2> QED
    BY <1>9, <2>1, GotoKeeps, DeleteRowByRight
<1>10. ASSUME NEW s \in Slot, Finish(s), UNCHANGED <<rows, posted>>
       PROVE  CommentsInv' /\ DeletedByRightStep
  <2>1. Shaped(NoCall) /\ NoCall.pc = "idle"
    BY DEF Shaped, NoCall
  <2>2. call' = [call EXCEPT ![s] = NoCall]
    BY <1>10 DEF Finish
  <2> QED
    BY <1>10, <1>a, <2>1, <2>2, SetCallKeeps
<1>11. CASE DropImage
  BY <1>11, <1>a, CommentsStill DEF DropImage
<1>12. CASE UNCHANGED vars
  BY <1>12, <1>a, CommentsStill DEF vars, server
<1>13. CASE Next
  <2>1. CASE \E c \in scene.who :
                \/ Serve(c) \/ Land(c)
                \/ \E t \in Writes(c) \cap scene.texts : Type(c, t)
    BY <2>1, <1>1, <1>2
  <2>2. CASE \E c \in scene.who, s \in scene.slots :
                Submit(c, s, "button") \/ Submit(c, s, "enter") \/ Comment(c, s)
    BY <2>2, <1>3 DEF Submit, Comment
  <2>3. CASE \E c \in scene.who, s \in scene.slots :
                \/ \E row \in rows : AskDelete(c, s, row)
                \/ \E id \in 1..lastId : AskDeleteById(c, s, id)
    BY <2>3, <1>4, <1>5
  <2>4. CASE \E s \in Slot : Insert(s) \/ NoImage(s) \/ CheckOwner(s) \/ DeleteRow(s)
    BY <2>4, <1>6, <1>7, <1>8, <1>9
  <2>5. CASE \E s \in Slot : Created(s) \/ Deleted(s) \/ Refuse(s) \/ LoseAnswer(s)
    BY <2>5, <1>10 DEF Created, Deleted, Refuse, LoseAnswer, server
  <2> QED
    BY <1>11, <1>13, <2>1, <2>2, <2>3, <2>4, <2>5 DEF Next
<1> QED
  BY <1>12, <1>13

(* While its image exists a comment goes only by a request of its author   *)
(* or of an admin, for any number of clients and of requests at once       *)
(* (comment_service.go:60-71).                                             *)
THEOREM CommentsDeletedByRight == Spec => DeletedByRight
<1>1. Init => CommentsInv
  BY CommentsBegin
<1>2. CommentsInv /\ [Next]_vars => CommentsInv' /\ [DeletedByRightStep]_vars
  BY NextStep
<1> QED
  BY <1>1, <1>2, PTL DEF Spec, DeletedByRight

-----------------------------------------------------------------------------
\* What the comments of the users come to.

Posted(t) == \E r \in posted : r.text = t
Carries(s, t) == call[s].kind = "create" /\ call[s].text = t

\* Whose texts are where.
TextsHeld ==
    /\ scene \in Scene /\ typed \subseteq scene.texts \cap Text /\ replaced \subseteq typed
    /\ DOMAIN draft = Client
    /\ \A c \in Client : draft[c] \in (Writes(c) \cap typed) \cup {NoText}
    /\ \A s \in Slot : call[s].kind = "create" =>
          /\ call[s].client \in Client /\ call[s].text \in Writes(call[s].client) \cap typed
          /\ call[s].pc \in {"sent", "ok", "refused"}
    /\ \A s \in Slot : call[s].kind = "delete" => call[s].client \in Client
    /\ \A r \in posted : r \in scene.old \/ r.text \in typed

\* What is not sent again is sent in one call, and not stored before it.
SentFresh ==
    \A t \in typed \ insisted :
        /\ \A x, y \in posted : x.text = t /\ y.text = t => x = y
        /\ \A s, r \in Slot : Carries(s, t) /\ Carries(r, t) => s = r
        /\ \A s \in Slot : Carries(s, t) /\ call[s].pc # "ok" => ~Posted(t)
        /\ \A c \in Client : draft[c] = t =>
              IF c \in Mobile THEN ~Posted(t) /\ \A s \in Slot : ~Carries(s, t)
              ELSE t \in refused \/ ~Posted(t) \/ \E s \in Slot : Carries(s, t)

\* What is in the box of the web page while it sends is what it sends, or was
\* typed meanwhile.
BoxWaits ==
    \A s \in Slot :
        call[s].kind = "create" =>
            /\ call[s].pc = "ok" => Posted(call[s].text)
            /\ call[s].client \notin Mobile =>
                  draft[call[s].client] \in {call[s].text, NoText} \cup waited

Kept ==
    \A c \in Client : \A t \in (typed \ replaced) \cap Writes(c) :
        \/ draft[c] = t \/ Posted(t)
        \/ IF c \in Mobile THEN t \in refused \/ \E s \in Slot : Carries(s, t) ELSE t \in waited

\* Ids are given once: what was deleted does not come back.
RemovedGone == \A p \in removed : p[1] \in 1..lastId /\ \A r \in rows : r.id # p[1]

\* The list a client has, or is about to have, shows what the client did, but for
\* what it has not heard of yet.
Unheard(c, s, kind) == call[s].client = c /\ call[s].kind = kind /\ call[s].pc = "ok"
Tells(c, list) ==
    /\ \A r \in rows : r.text \in Writes(c) =>
          r \in list \/ \E s \in Slot : Unheard(c, s, "create") /\ call[s].text = r.text
    /\ \A r \in list : <<r.id, c>> \in removed =>
          \E s \in Slot : Unheard(c, s, "delete") /\ call[s].id = r.id
Latest(e) == IF e.flight = "answered" THEN e.answer ELSE e.data
ListsTell ==
    /\ DOMAIN comments = Client
    /\ \A c \in Client : comments[c] = [data |-> comments[c].data, flight |-> comments[c].flight,
                                       answer |-> comments[c].answer]
    /\ \A c \in Client : comments[c].flight \in {"none", "asked", "answered"}
    /\ exists => \A c \in scene.who \ deaf :
          comments[c].flight # "asked" => Tells(c, Latest(comments[c]))

Texts == TextsHeld /\ SentFresh /\ BoxWaits /\ Kept
Lists == RemovedGone /\ ListsTell
TextInv == CommentsInv /\ Texts /\ Lists

\* No text is typed by two users, and none is NoText.
LEMMA TextsApart ==
    /\ \A c \in Client : \A t \in Writes(c) : t \in Text /\ t # NoText
    /\ \A c, d \in Client : \A t : t \in Writes(c) /\ t \in Writes(d) => c = d
BY CommentsAssumption DEF Text

\* What no step but a few touches: what is typed, sent and stored.
LEMMA TextsStill ==
    ASSUME TextInv, UNCHANGED <<scene, typed, replaced, waited, insisted, draft, posted>>, refused \subseteq refused',
           \A s \in Slot : call'[s].kind = "create" =>
               /\ call[s].kind = "create" /\ call'[s].client = call[s].client /\ call'[s].text = call[s].text
               /\ call'[s].pc = call[s].pc \/ (call[s].pc = "sent" /\ call'[s].pc = "refused"),
           \A s \in Slot : call[s].kind = "create" /\ call'[s].kind # "create" => call[s].text \in refused',
           \A s \in Slot : call'[s].kind = "delete" => call'[s].client \in Client
    PROVE  Texts'
<1> USE DEF TextInv, Texts
<1>1. TextsHeld' BY DEF TextsHeld
<1>2. \A t : Posted(t)' <=> Posted(t) BY DEF Posted
<1>3. \A s \in Slot : \A t : Carries(s, t)' => Carries(s, t) BY DEF Carries
<1>4. \A s \in Slot : \A t : Carries(s, t) => Carries(s, t)' \/ t \in refused' BY DEF Carries
<1>5. SentFresh'
  <2> SUFFICES ASSUME NEW t \in typed \ insisted
               PROVE  /\ \A x, y \in posted : x.text = t /\ y.text = t => x = y
                      /\ \A s, r \in Slot : Carries(s, t)' /\ Carries(r, t)' => s = r
                      /\ \A s \in Slot : Carries(s, t)' /\ call'[s].pc # "ok" => ~Posted(t)
                      /\ \A c \in Client : draft[c] = t =>
                            IF c \in Mobile THEN ~Posted(t) /\ \A s \in Slot : ~Carries(s, t)'
                            ELSE t \in refused' \/ ~Posted(t) \/ \E s \in Slot : Carries(s, t)'
    BY <1>2 DEF SentFresh
  <2>1. \A s \in Slot : Carries(s, t)' /\ call'[s].pc # "ok" => call[s].pc # "ok" BY DEF Carries
  <2> QED BY <1>3, <1>4, <2>1 DEF SentFresh
<1>6. BoxWaits' BY <1>2 DEF BoxWaits
<1>7. Kept' BY <1>2, <1>4 DEF Kept
<1> QED BY <1>1, <1>5, <1>6, <1>7

\* The same for what is listed.
LEMMA ListsStill ==
    ASSUME TextInv, UNCHANGED <<scene, comments, posted, removed>>, rows' \subseteq rows, exists' => exists,
           deaf \subseteq deaf',
           \A s \in Slot : call[s].pc = "ok" => call'[s] = call[s] \/ call[s].client \in deaf'
    PROVE  Lists'
<1> USE DEF TextInv, Lists
<1>1. RemovedGone' BY DEF RemovedGone, lastId
<1>2. ASSUME exists', NEW c \in scene.who \ deaf', comments[c].flight # "asked"
      PROVE  Tells(c, Latest(comments[c]))'
  <2>1. Tells(c, Latest(comments[c])) BY <1>2 DEF ListsTell
  <2>2. \A s \in Slot : \A kind : Unheard(c, s, kind) => call'[s] = call[s] BY <1>2 DEF Unheard
  <2> QED BY <2>1, <2>2 DEF Tells, Unheard, Latest
<1> QED BY <1>1, <1>2 DEF ListsTell

-----------------------------------------------------------------------------
\* A slot that is used for one call after another.
LEMMA SlotSet ==
    ASSUME CommentsInv, NEW s \in Slot, NEW new, call' = [call EXCEPT ![s] = new]
    PROVE  call'[s] = new /\ \A r \in Slot \ {s} : call'[r] = call[r]
BY DEF CommentsInv, Calls

LEMMA SlotGoes ==
    ASSUME CommentsInv, NEW s \in Slot, NEW pc, Goto(s, pc)
    PROVE  /\ call'[s].pc = pc /\ call'[s].client = call[s].client /\ call'[s].kind = call[s].kind
           /\ call'[s].text = call[s].text /\ call'[s].id = call[s].id
           /\ \A r \in Slot \ {s} : call'[r] = call[r]
<1>1. call' = [call EXCEPT ![s] = [call[s] EXCEPT !.pc = pc]] BY DEF Goto
<1>2. Shaped(call[s]) BY DEF CommentsInv, Calls
<1>3. call'[s] = [call[s] EXCEPT !.pc = pc] /\ \A r \in Slot \ {s} : call'[r] = call[r] BY <1>1, SlotSet
<1> QED BY <1>2, <1>3 DEF Shaped

LEMMA SlotFree == NoCall.kind # "create" /\ NoCall.kind # "delete" /\ NoCall.pc = "idle"
BY Zenon DEF NoCall

LEMMA TextsBegin == Init => Texts /\ Lists
<1> SUFFICES ASSUME Init PROVE Texts /\ Lists
  OBVIOUS
<1>1. /\ scene \in Scene /\ rows = scene.old /\ posted = scene.old /\ removed = {} /\ typed = {} /\ replaced = {}
      /\ draft = [c \in Client |-> NoText] /\ exists = TRUE
      /\ \A s \in Slot : call[s].kind # "create" /\ call[s].kind # "delete" /\ call[s].pc = "idle"
  BY SlotFree DEF Init
<1>2. Texts BY <1>1 DEF Texts, TextsHeld, SentFresh, BoxWaits, Kept
<1>3. DOMAIN comments = Client /\ scene.who \subseteq Client BY <1>1, CommentsAssumption DEF Init
<1>4. \A c \in Client : comments[c] = IF c \in scene.who THEN [data |-> NoData, flight |-> "asked", answer |-> NoData]
                                      ELSE [data |-> NoData, flight |-> "none", answer |-> NoData]
  BY DEF Init, Observed, Empty
<1>5. RemovedGone BY <1>1 DEF RemovedGone
<1>6. ListsTell
  <2>1. \A c \in scene.who : comments[c].flight = "asked" BY <1>3, <1>4
  <2>2. \A c \in Client : /\ comments[c] = [data |-> comments[c].data, flight |-> comments[c].flight,
                                            answer |-> comments[c].answer]
                           /\ comments[c].flight \in {"none", "asked", "answered"}
    BY <1>4
  <2> QED BY <1>3, <2>1, <2>2 DEF ListsTell
<1> QED BY <1>2, <1>5, <1>6 DEF Lists

-----------------------------------------------------------------------------
\* Typing.
LEMMA TypeKeepsTexts ==
    ASSUME TextInv, NEW c \in Client, NEW t \in Writes(c) \cap scene.texts, Type(c, t), scene' = scene
    PROVE  Texts'
<1> USE DEF TextInv, Texts
<1>1. /\ t \notin typed /\ typed' = typed \cup {t} /\ UNCHANGED <<posted, call, refused, insisted>>
      /\ draft'[c] = t /\ DOMAIN draft' = Client /\ \A d \in Client \ {c} : draft'[d] = draft[d]
      /\ replaced' = replaced \cup ({draft[c]} \ {NoText}) /\ waited \subseteq waited'
      /\ (Creating(c) # {} => t \in waited')
  BY DEF Type, server, TextsHeld
<1>2. t \in Text /\ t # NoText BY TextsApart
<1>3. ~Posted(t) /\ \A s \in Slot : ~Carries(s, t)
  <2>1. \A r \in scene.old : r.text # t BY CommentsAssumption DEF TextsHeld
  <2> QED BY <1>1, <2>1 DEF Posted, Carries, TextsHeld
<1>4. (\A u : Posted(u)' <=> Posted(u)) /\ \A s \in Slot : \A u : Carries(s, u)' <=> Carries(s, u)
  BY <1>1 DEF Posted, Carries
<1>5. TextsHeld' BY <1>1, <1>2 DEF TextsHeld
<1>6. SentFresh'
  <2>1. ASSUME NEW u \in typed \ insisted, u # t, NEW d \in Client, draft'[d] = u PROVE draft[d] = u BY <1>1, <2>1
  <2> QED BY <1>1, <1>3, <1>4, <2>1 DEF SentFresh, Posted, Carries
<1>7. BoxWaits'
  <2> SUFFICES ASSUME NEW s \in Slot, call[s].kind = "create", call[s].client \notin Mobile
               PROVE  draft'[call[s].client] \in {call[s].text, NoText} \cup waited'
    BY <1>1, <1>4 DEF BoxWaits
  <2>1. call[s].client \in Client /\ call[s].pc # "idle" BY DEF TextsHeld
  <2>2. CASE call[s].client = c BY <1>1, <2>1, <2>2 DEF Creating
  <2>3. CASE call[s].client # c BY <1>1, <2>1, <2>3 DEF BoxWaits
  <2> QED BY <2>2, <2>3
<1>8. Kept'
  <2> SUFFICES ASSUME NEW d \in Client, NEW u \in (typed' \ replaced') \cap Writes(d)
               PROVE  \/ draft'[d] = u \/ Posted(u)
                      \/ IF d \in Mobile THEN u \in refused \/ \E s \in Slot : Carries(s, u) ELSE u \in waited'
    BY <1>1, <1>4 DEF Kept
  <2>1. CASE u = t BY <1>1, <2>1, TextsApart
  <2>2. CASE u # t
    <3>1. u \in (typed \ replaced) \cap Writes(d) BY <1>1, <2>2
    <3>2. draft[d] = u => d # c BY <1>1, TextsApart
    <3> QED BY <1>1, <3>1, <3>2 DEF Kept
  <2> QED BY <2>1, <2>2
<1> QED BY <1>5, <1>6, <1>7, <1>8

\* Sending, from a page, which keeps its box, or from a phone.
LEMMA CreateKeepsTexts ==
    ASSUME TextInv, NEW c \in Client, NEW s \in Slot, Sendable(c), Create(c, s), scene' = scene,
           draft' = IF c \in Mobile THEN [draft EXCEPT ![c] = NoText] ELSE draft
    PROVE  Texts'
<1> USE DEF TextInv, Texts
<1> DEFINE u == draft[c]
<1>1. /\ call[s].pc = "idle" /\ call' = [call EXCEPT ![s] = Request(c, "create", u, 0)]
      /\ insisted' = IF u \in refused \/ (\E r \in Creating(c) : call[r].text = u) THEN insisted \cup {u} ELSE insisted
      /\ UNCHANGED <<posted, typed, replaced, waited, refused>>
  BY DEF Create, server
<1>2. /\ call'[s].pc = "sent" /\ call'[s].kind = "create" /\ call'[s].client = c /\ call'[s].text = u
      /\ \A r \in Slot \ {s} : call'[r] = call[r]
  <2>1. call'[s] = Request(c, "create", u, 0) /\ \A r \in Slot \ {s} : call'[r] = call[r] BY <1>1, SlotSet
  <2> QED BY <2>1 DEF Request
<1>3. u \in Writes(c) \cap typed /\ u # NoText /\ call[s].kind # "create" BY <1>1 DEF Sendable, TextsHeld
<1>4. /\ DOMAIN draft' = Client
      /\ \A d \in Client : draft'[d] = draft[d] \/ (d = c /\ c \in Mobile /\ draft'[d] = NoText)
      /\ c \in Mobile => draft'[c] = NoText
  BY DEF TextsHeld
<1>5. /\ \A r \in Slot : \A t : Carries(r, t)' <=> Carries(r, t) \/ (r = s /\ t = u)
      /\ \A t : ~Carries(s, t)
      /\ \A t : Posted(t)' <=> Posted(t)
  BY <1>1, <1>2, <1>3 DEF Carries, Posted
<1>6. TextsHeld' BY <1>1, <1>2, <1>3, <1>4 DEF TextsHeld
<1>7. ASSUME u \notin insisted' PROVE ~Posted(u) /\ \A r \in Slot : ~Carries(r, u)
  <2>1. u \notin insisted /\ u \notin refused /\ ~\E r \in Creating(c) : call[r].text = u BY <1>1, <1>7
  <2>2. ASSUME NEW r \in Slot, Carries(r, u) PROVE FALSE
    <3>1. call[r].client = c /\ call[r].pc # "idle" BY <1>3, <2>2, TextsApart DEF TextsHeld, Carries
    <3> QED BY <2>1, <2>2, <3>1 DEF Creating, Carries
  <2> QED BY <1>3, <2>1, <2>2 DEF SentFresh
<1>8. SentFresh'
  <2> SUFFICES ASSUME NEW t \in typed \ insisted'
               PROVE  /\ \A x, y \in posted : x.text = t /\ y.text = t => x = y
                      /\ \A q, r \in Slot : Carries(q, t)' /\ Carries(r, t)' => q = r
                      /\ \A r \in Slot : Carries(r, t)' /\ call'[r].pc # "ok" => ~Posted(t)
                      /\ \A d \in Client : draft'[d] = t =>
                            IF d \in Mobile THEN ~Posted(t) /\ \A r \in Slot : ~Carries(r, t)'
                            ELSE t \in refused \/ ~Posted(t) \/ \E r \in Slot : Carries(r, t)'
    BY <1>1, <1>5 DEF SentFresh
  <2>0. t \notin insisted /\ t # NoText BY <1>1, TextsApart, CommentsAssumption DEF TextsHeld
  <2>1. CASE t = u
    <3>1. ~Posted(u) /\ \A r \in Slot : ~Carries(r, u) BY <1>7, <2>1
    <3>2. \A d \in Client : draft'[d] = u => d \notin Mobile
      <4>1. \A d \in Client : draft[d] = u => d = c BY <1>3, TextsApart DEF TextsHeld
      <4> QED BY <1>3, <1>4, <4>1
    <3> QED BY <1>5, <2>0, <2>1, <3>1, <3>2 DEF SentFresh
  <2>2. CASE t # u
    <3>1. \A r \in Slot : Carries(r, t)' <=> Carries(r, t) BY <1>5, <2>2
    <3>2. \A r \in Slot : Carries(r, t) => call'[r].pc = call[r].pc BY <1>2, <1>5
    <3>3. \A d \in Client : draft'[d] = t => draft[d] = t BY <1>4, <2>0
    <3> QED BY <2>0, <3>1, <3>2, <3>3 DEF SentFresh
  <2> QED BY <2>1, <2>2
<1>9. BoxWaits'
  <2>1. c \notin Mobile => draft'[c] = u OBVIOUS
  <2>2. \A r \in Slot \ {s} : call[r].kind = "create" /\ call[r].client \notin Mobile =>
            draft'[call[r].client] = draft[call[r].client]
    BY <1>4 DEF TextsHeld
  <2> QED BY <1>1, <1>2, <1>5, <2>1, <2>2 DEF BoxWaits
<1>10. Kept'
  <2> SUFFICES ASSUME NEW d \in Client, NEW t \in (typed \ replaced) \cap Writes(d)
               PROVE  \/ draft'[d] = t \/ Posted(t)
                      \/ IF d \in Mobile THEN t \in refused \/ \E r \in Slot : Carries(r, t)' ELSE t \in waited
    BY <1>1, <1>5 DEF Kept
  <2>1. CASE draft'[d] = draft[d] BY <1>5, <2>1 DEF Kept
  <2>2. CASE d = c /\ c \in Mobile /\ t = u BY <1>5, <2>2
  <2>3. CASE d = c /\ c \in Mobile /\ t # u BY <1>5, <2>3 DEF Kept
  <2> QED BY <1>4, <2>1, <2>2, <2>3
<1> QED BY <1>6, <1>8, <1>9, <1>10

\* The comment is stored.
LEMMA InsertKeepsTexts ==
    ASSUME TextInv, NEW s \in Slot, Insert(s), scene' = scene
    PROVE  Texts'
<1> USE DEF TextInv, Texts
<1> DEFINE u == call[s].text
           row == [id |-> lastId + 1, by |-> Author(call[s].client), text |-> u]
<1>1. /\ call[s].kind = "create" /\ call[s].pc = "sent" /\ posted' = posted \cup {row} /\ row.text = u
      /\ UNCHANGED <<typed, replaced, waited, refused, insisted, draft>>
  BY DEF Insert, Handles, Clients, history
<1>2. /\ call'[s].pc = "ok" /\ call'[s].client = call[s].client /\ call'[s].kind = call[s].kind
      /\ call'[s].text = u /\ \A r \in Slot \ {s} : call'[r] = call[r]
  BY SlotGoes DEF Insert
<1> HIDE DEF row
<1>3. /\ \A r \in Slot : \A t : Carries(r, t)' <=> Carries(r, t)
      /\ \A t : Posted(t)' <=> Posted(t) \/ t = u
      /\ Carries(s, u)
  BY <1>1, <1>2 DEF Carries, Posted
<1>4. TextsHeld' BY <1>1, <1>2 DEF TextsHeld
<1>5. SentFresh'
  <2> SUFFICES ASSUME NEW t \in typed \ insisted
               PROVE  /\ \A x, y \in posted' : x.text = t /\ y.text = t => x = y
                      /\ \A q, r \in Slot : Carries(q, t) /\ Carries(r, t) => q = r
                      /\ \A r \in Slot : Carries(r, t) /\ call'[r].pc # "ok" => ~Posted(t)'
                      /\ \A d \in Client : draft[d] = t =>
                            IF d \in Mobile THEN ~Posted(t)' /\ \A r \in Slot : ~Carries(r, t)
                            ELSE t \in refused \/ ~Posted(t)' \/ \E r \in Slot : Carries(r, t)
    BY <1>1, <1>3 DEF SentFresh
  <2>1. CASE t = u
    <3>1. ~Posted(u) BY <1>1, <1>3, <2>1 DEF SentFresh
    <3>2. \A x, y \in posted' : x.text = u /\ y.text = u => x = y BY <1>1, <3>1 DEF Posted
    <3>3. \A r \in Slot : Carries(r, u) => r = s BY <1>3, <2>1 DEF SentFresh
    <3> QED BY <1>2, <1>3, <2>1, <3>2, <3>3 DEF SentFresh
  <2>2. CASE t # u
    <3>1. \A x \in posted' : x.text = t => x \in posted BY <1>1, <2>2
    <3>2. \A r \in Slot : Carries(r, t) => call'[r] = call[r] BY <1>2, <2>2 DEF Carries
    <3> QED BY <1>3, <2>2, <3>1, <3>2 DEF SentFresh
  <2> QED BY <2>1, <2>2
<1>6. BoxWaits' BY <1>1, <1>2, <1>3 DEF BoxWaits
<1>7. Kept' BY <1>1, <1>3 DEF Kept
<1> QED BY <1>4, <1>5, <1>6, <1>7

\* The page hears of it, and empties its box; the phone has done so.
LEMMA CreatedKeepsTexts ==
    ASSUME TextInv, NEW s \in Slot, Created(s), scene' = scene
    PROVE  Texts'
<1> USE DEF TextInv, Texts
<1> DEFINE u == call[s].text
           c == call[s].client
<1>1. /\ call[s].kind = "create" /\ call[s].pc = "ok" /\ Finish(s)
      /\ draft' = IF c \in Mobile THEN draft ELSE [draft EXCEPT ![c] = NoText]
      /\ UNCHANGED <<posted, typed, replaced, waited, refused, insisted>>
  BY DEF Created, Handles, server, history
<1>2. call'[s].kind # "create" /\ call'[s].kind # "delete" /\ \A r \in Slot \ {s} : call'[r] = call[r]
  <2>1. call'[s] = NoCall /\ \A r \in Slot \ {s} : call'[r] = call[r] BY <1>1, SlotSet DEF Finish
  <2> QED BY <2>1, SlotFree
<1>3. c \in Client /\ u \in Writes(c) \cap typed /\ Posted(u) BY <1>1 DEF TextsHeld, BoxWaits
<1>4. /\ \A r \in Slot : \A t : Carries(r, t)' <=> Carries(r, t) /\ r # s
      /\ \A t : Carries(s, t) <=> t = u
      /\ \A t : Posted(t)' <=> Posted(t)
  BY <1>1, <1>2 DEF Carries, Posted
<1>5. /\ DOMAIN draft' = Client
      /\ \A d \in Client : draft'[d] = draft[d] \/ (d = c /\ c \notin Mobile /\ draft'[d] = NoText)
      /\ c \notin Mobile => draft'[c] = NoText
  BY <1>1, <1>3 DEF TextsHeld
<1>6. TextsHeld' BY <1>1, <1>2, <1>5 DEF TextsHeld
<1>7. SentFresh'
  <2> SUFFICES ASSUME NEW t \in typed \ insisted
               PROVE  /\ \A x, y \in posted : x.text = t /\ y.text = t => x = y
                      /\ \A q, r \in Slot : Carries(q, t)' /\ Carries(r, t)' => q = r
                      /\ \A r \in Slot : Carries(r, t)' /\ call'[r].pc # "ok" => ~Posted(t)
                      /\ \A d \in Client : draft'[d] = t =>
                            IF d \in Mobile THEN ~Posted(t) /\ \A r \in Slot : ~Carries(r, t)'
                            ELSE t \in refused \/ ~Posted(t) \/ \E r \in Slot : Carries(r, t)'
    BY <1>1, <1>4 DEF SentFresh
  <2>0. t # NoText BY CommentsAssumption DEF TextsHeld
  <2>1. \A r \in Slot : Carries(r, t)' => Carries(r, t) /\ call'[r] = call[r] BY <1>2, <1>4
  <2>2. ASSUME NEW d \in Client, draft'[d] = t
        PROVE  IF d \in Mobile THEN ~Posted(t) /\ \A r \in Slot : ~Carries(r, t)'
               ELSE t \in refused \/ ~Posted(t) \/ \E r \in Slot : Carries(r, t)'
    <3>1. draft[d] = t /\ t \in Writes(d) BY <1>5, <2>0, <2>2 DEF TextsHeld
    <3>2. d \notin Mobile => d # c BY <1>5, <2>0, <2>2
    <3>3. d \notin Mobile => t # u BY <1>3, <3>1, <3>2, TextsApart
    <3> QED BY <1>4, <2>1, <3>1, <3>3 DEF SentFresh
  <2> QED BY <2>1, <2>2 DEF SentFresh
<1>8. BoxWaits'
  <2> SUFFICES ASSUME NEW r \in Slot \ {s}, call[r].kind = "create"
               PROVE  /\ call[r].pc = "ok" => Posted(call[r].text)
                      /\ call[r].client \notin Mobile =>
                            draft'[call[r].client] \in {call[r].text, NoText} \cup waited
    BY <1>1, <1>2, <1>4 DEF BoxWaits
  <2>1. draft'[call[r].client] \in {draft[call[r].client], NoText} BY <1>5 DEF TextsHeld
  <2> QED BY <2>1 DEF BoxWaits
<1>9. Kept'
  <2> SUFFICES ASSUME NEW d \in Client, NEW t \in (typed \ replaced) \cap Writes(d)
               PROVE  \/ draft'[d] = t \/ Posted(t)
                      \/ IF d \in Mobile THEN t \in refused \/ \E r \in Slot : Carries(r, t)' ELSE t \in waited
    BY <1>1, <1>4 DEF Kept
  <2>0. t # NoText BY TextsApart
  <2>1. CASE t = u BY <1>3, <2>1
  <2>2. CASE t # u
    <3>1. \A r \in Slot : Carries(r, t) => Carries(r, t)' BY <1>4, <2>2
    <3>2. draft[d] = t /\ d = c /\ c \notin Mobile => t \in waited BY <1>1, <2>0, <2>2 DEF BoxWaits
    <3> QED BY <1>5, <3>1, <3>2 DEF Kept
  <2> QED BY <2>1, <2>2
<1> QED BY <1>6, <1>7, <1>8, <1>9

-----------------------------------------------------------------------------
\* A list is fetched.
LEMMA FetchKeepsLists ==
    ASSUME TextInv, NEW c \in Client, Serve(c) \/ Land(c), scene' = scene
    PROVE  Lists'
<1> USE DEF TextInv, Lists
<1> DEFINE e == comments[c]
<1>1. /\ UNCHANGED <<exists, rows, posted, removed, call, deaf>>
      /\ \/ e.flight = "asked" /\ comments' = [comments EXCEPT ![c] = Served(@, rows)]
         \/ e.flight = "answered" /\ comments' = [comments EXCEPT ![c] = Landed(@)]
  BY DEF Serve, Land, server, Aged
<1>2. DOMAIN comments = Client /\ e = [data |-> e.data, flight |-> e.flight, answer |-> e.answer]
  BY DEF ListsTell
<1>3. /\ DOMAIN comments' = Client /\ \A d \in Client \ {c} : comments'[d] = comments[d]
      /\ \/ e.flight = "asked" /\ comments'[c] = [data |-> e.data, flight |-> "answered", answer |-> rows]
         \/ e.flight = "answered" /\ comments'[c] = [data |-> e.answer, flight |-> "none", answer |-> NoData]
  BY <1>1, <1>2 DEF Served, Landed
<1>4. RemovedGone' BY <1>1 DEF RemovedGone, lastId
<1>5. ASSUME exists, NEW d \in scene.who \ deaf, comments'[d].flight # "asked"
      PROVE  Tells(d, Latest(comments'[d]))
  <2>0. d \in Client BY CommentsAssumption DEF Texts, TextsHeld
  <2>1. CASE d # c BY <1>3, <1>5, <2>0, <2>1 DEF ListsTell
  <2>2. CASE d = c /\ e.flight = "asked"
    <3>1. Latest(comments'[d]) = rows BY <1>3, <2>2 DEF Latest
    <3>2. Tells(d, rows) BY DEF Tells, RemovedGone
    <3> QED BY <3>1, <3>2
  <2>3. CASE d = c /\ e.flight = "answered"
    <3>1. Latest(comments'[d]) = Latest(e) BY <1>3, <2>3 DEF Latest
    <3> QED BY <1>5, <2>3, <3>1 DEF ListsTell
  <2> QED BY <1>3, <2>1, <2>2, <2>3
<1>6. \A d \in Client : /\ comments'[d] = [data |-> comments'[d].data, flight |-> comments'[d].flight,
                                           answer |-> comments'[d].answer]
                        /\ comments'[d].flight \in {"none", "asked", "answered"}
  BY <1>3 DEF ListsTell
<1> QED BY <1>1, <1>3, <1>4, <1>5, <1>6 DEF ListsTell, Tells, Unheard, Latest

\* A comment appears: whoever sent it has not heard of it yet.
LEMMA InsertKeepsLists ==
    ASSUME TextInv, NEW s \in Slot, Insert(s), scene' = scene
    PROVE  Lists'
<1> USE DEF TextInv, Lists
<1> DEFINE row == [id |-> lastId + 1, by |-> Author(call[s].client), text |-> call[s].text]
<1>1. /\ call[s].kind = "create" /\ call[s].pc = "sent" /\ exists /\ row.text = call[s].text /\ row.id = lastId + 1
      /\ rows' = rows \cup {row} /\ posted' = posted \cup {row}
      /\ UNCHANGED <<exists, comments, removed, deaf>>
  BY DEF Insert, Handles, Clients
<1>2. /\ call'[s].pc = "ok" /\ call'[s].client = call[s].client /\ call'[s].kind = "create"
      /\ call'[s].text = call[s].text /\ \A r \in Slot \ {s} : call'[r] = call[r]
  BY <1>1, SlotGoes DEF Insert
<1> HIDE DEF row
<1>3. call[s].client \in Client /\ call[s].text \in Writes(call[s].client) BY <1>1 DEF Texts, TextsHeld
<1>4. RemovedGone'
  <2>0. row.id = Cardinality(posted) + 1 /\ Numbered(posted) BY <1>1 DEF CommentsInv, lastId
  <2>1. row \notin posted /\ IsFiniteSet(posted)
    <3>1. row \notin posted BY <2>0, NumberedGrows
    <3> QED BY <2>0, <3>1 DEF Numbered
  <2>2. lastId \in Nat /\ lastId' = lastId + 1 BY <1>1, <2>1, FS_CardinalityType, FS_AddElement DEF lastId
  <2> QED BY <1>1, <2>2 DEF RemovedGone
<1>5. ASSUME NEW c \in scene.who \ deaf, comments[c].flight # "asked"
      PROVE  Tells(c, Latest(comments[c]))'
  <2>1. Tells(c, Latest(comments[c])) BY <1>1, <1>5 DEF ListsTell
  <2>2. \A r \in Slot : \A kind : Unheard(c, r, kind) => call'[r] = call[r] BY <1>1, <1>2 DEF Unheard
  <2>3. row.text \in Writes(c) => Unheard(c, s, "create")' /\ call'[s].text = row.text
    <3>1. c \in Client BY CommentsAssumption DEF Texts, TextsHeld
    <3> QED BY <1>1, <1>2, <1>3, <3>1, TextsApart DEF Unheard
  <2>4. \A x \in rows' : x.text \in Writes(c) =>
            x \in Latest(comments[c]) \/ \E r \in Slot : Unheard(c, r, "create")' /\ call'[r].text = x.text
    BY <1>1, <2>1, <2>2, <2>3 DEF Tells, Unheard
  <2>5. \A x \in Latest(comments[c]) : <<x.id, c>> \in removed' =>
            \E r \in Slot : Unheard(c, r, "delete")' /\ call'[r].id = x.id
    BY <1>1, <2>1, <2>2 DEF Tells, Unheard
  <2> QED BY <1>1, <2>4, <2>5 DEF Tells, Latest
<1> QED BY <1>1, <1>4, <1>5 DEF ListsTell

\* A comment is deleted, by its id: likewise.
LEMMA DeleteKeepsLists ==
    ASSUME TextInv, NEW s \in Slot, DeleteRow(s), scene' = scene
    PROVE  Lists'
<1> USE DEF TextInv, Lists
<1>1. /\ call[s].kind = "delete" /\ call[s].pc = "allowed" /\ rows' = {r \in rows : r.id # call[s].id}
      /\ removed' = removed \cup {<<call[s].id, call[s].client>>}
      /\ UNCHANGED <<exists, posted, comments, deaf>>
  BY DEF DeleteRow, Handles, Clients
<1>2. /\ call'[s].pc = "ok" /\ call'[s].client = call[s].client /\ call'[s].kind = "delete"
      /\ call'[s].id = call[s].id /\ \A r \in Slot \ {s} : call'[r] = call[r]
  BY <1>1, SlotGoes DEF DeleteRow
<1>3. RemovedGone'
  <2>1. call[s].id \in 1..lastId BY <1>1 DEF CommentsInv, Permitted, Handles, Numbered, lastId
  <2> QED BY <1>1, <2>1 DEF RemovedGone, lastId
<1>4. ASSUME exists, NEW c \in scene.who \ deaf, comments[c].flight # "asked"
      PROVE  Tells(c, Latest(comments[c]))'
  <2>1. Tells(c, Latest(comments[c])) BY <1>4 DEF ListsTell
  <2>2. \A r \in Slot : \A kind : Unheard(c, r, kind) => call'[r] = call[r] BY <1>1, <1>2 DEF Unheard
  <2>3. \A x \in rows' : x.text \in Writes(c) =>
            x \in Latest(comments[c]) \/ \E r \in Slot : Unheard(c, r, "create")' /\ call'[r].text = x.text
    BY <1>1, <2>1, <2>2 DEF Tells, Unheard
  <2>4. \A x \in Latest(comments[c]) : <<x.id, c>> \in removed' =>
            \E r \in Slot : Unheard(c, r, "delete")' /\ call'[r].id = x.id
    <3> SUFFICES ASSUME NEW x \in Latest(comments[c]), <<x.id, c>> \in removed'
                 PROVE  \E r \in Slot : Unheard(c, r, "delete")' /\ call'[r].id = x.id
      OBVIOUS
    <3>1. CASE <<x.id, c>> \in removed BY <2>1, <2>2, <3>1 DEF Tells, Unheard
    <3>2. CASE x.id = call[s].id /\ c = call[s].client BY <1>2, <3>2 DEF Unheard
    <3> QED BY <1>1, <3>1, <3>2
  <2> QED BY <1>1, <2>3, <2>4 DEF Tells, Latest
<1> QED BY <1>1, <1>3, <1>4 DEF ListsTell

\* A client hears of its own change, and asks for the list again, unless it is
\* still waiting for the first.
LEMMA HearingKeepsLists ==
    ASSUME TextInv, NEW s \in Slot, NEW c \in Client, c = call[s].client, Finish(s), Refresh(c),
           deaf' = Missed(c), UNCHANGED <<scene, server>>
    PROVE  Lists'
<1> USE DEF TextInv, Lists
<1> DEFINE e == comments[c]
<1>1. UNCHANGED <<scene, exists, rows, posted, removed>> BY DEF server
<1>2. \A r \in Slot \ {s} : call'[r] = call[r] BY SlotSet DEF Finish
<1>3. /\ DOMAIN comments = Client /\ e = [data |-> e.data, flight |-> e.flight, answer |-> e.answer]
      /\ e.flight \in {"none", "asked", "answered"}
  BY DEF ListsTell
<1>4. /\ DOMAIN comments' = Client /\ comments'[c] = Renewed(e) /\ \A d \in Client \ {c} : comments'[d] = comments[d]
  BY <1>3 DEF Refresh
<1>5. comments'[c] = e \/ comments'[c] = [data |-> e.data, flight |-> "asked", answer |-> NoData]
  BY <1>3, <1>4 DEF Renewed
<1>6. comments'[c].flight = "asked" \/ c \in deaf'
  BY <1>3, <1>4, <1>5 DEF Renewed, Missed, Loading, Aged
<1>7. \A d \in Client \ {c} : d \notin deaf' => d \notin deaf BY DEF Missed
<1>8. RemovedGone' BY <1>1 DEF RemovedGone, lastId
<1>9. ASSUME exists, NEW d \in scene.who \ deaf', comments'[d].flight # "asked"
      PROVE  Tells(d, Latest(comments[d]))' /\ comments'[d] = comments[d]
  <2>1. d \in Client /\ d # c BY <1>6, <1>9, CommentsAssumption DEF Texts, TextsHeld
  <2>2. comments'[d] = comments[d] BY <1>4, <2>1
  <2>3. Tells(d, Latest(comments[d])) BY <1>7, <1>9, <2>1, <2>2 DEF ListsTell
  <2>4. \A r \in Slot : \A kind : Unheard(d, r, kind) => call'[r] = call[r] BY <1>2, <2>1 DEF Unheard
  <2> QED BY <1>1, <2>2, <2>3, <2>4 DEF Tells, Unheard, Latest
<1>10. \A d \in Client : /\ comments'[d] = [data |-> comments'[d].data, flight |-> comments'[d].flight,
                                            answer |-> comments'[d].answer]
                         /\ comments'[d].flight \in {"none", "asked", "answered"}
  BY <1>3, <1>4, <1>5 DEF ListsTell
<1> QED BY <1>1, <1>4, <1>8, <1>9, <1>10 DEF ListsTell

-----------------------------------------------------------------------------
LEMMA CallSent ==
    ASSUME TextInv, NEW s \in Slot, NEW c \in Client, NEW id, call[s].pc = "idle",
           call' = [call EXCEPT ![s] = Request(c, "delete", NoText, id)]
    PROVE  /\ call[s].kind # "create" /\ call'[s].kind = "delete" /\ call'[s].client = c
           /\ \A r \in Slot \ {s} : call'[r] = call[r]
<1>1. call'[s] = Request(c, "delete", NoText, id) /\ \A r \in Slot \ {s} : call'[r] = call[r]
  BY SlotSet DEF TextInv
<1> QED BY <1>1 DEF Request, TextInv, Texts, TextsHeld

LEMMA CallEnds ==
    ASSUME TextInv, NEW s \in Slot, Finish(s)
    PROVE  /\ call'[s].kind # "create" /\ call'[s].kind # "delete" /\ call'[s].pc = "idle"
           /\ \A r \in Slot \ {s} : call'[r] = call[r]
<1>1. call'[s] = NoCall /\ \A r \in Slot \ {s} : call'[r] = call[r] BY SlotSet DEF Finish, TextInv
<1> QED BY <1>1, SlotFree

LEMMA TextsStep == TextInv /\ [Next]_vars => TextInv'
<1> SUFFICES ASSUME TextInv, [Next]_vars PROVE Texts' /\ Lists'
  BY NextStep DEF TextInv
<1>a. scene.who \subseteq Client /\ scene.slots \subseteq Slot
  BY CommentsAssumption DEF TextInv, Texts, TextsHeld
<1>1. ASSUME NEW c \in Client, Serve(c) \/ Land(c), scene' = scene PROVE Texts' /\ Lists'
  <2>1. UNCHANGED <<posted, draft, call, typed, replaced, waited, refused, insisted>>
    BY <1>1 DEF Serve, Land, server, history
  <2>2. Texts'
    <3>1. \A s \in Slot : call[s].kind = "delete" => call[s].client \in Client BY DEF TextInv, Texts, TextsHeld
    <3> QED BY <1>1, <2>1, <3>1, TextsStill
  <2> QED BY <1>1, <2>2, FetchKeepsLists
<1>2. ASSUME NEW c \in Client, NEW t \in Writes(c) \cap scene.texts, Type(c, t), scene' = scene
      PROVE  Texts' /\ Lists'
  <2>1. UNCHANGED <<exists, rows, posted, removed, comments, call, deaf>> BY <1>2 DEF Type, server
  <2> QED BY <1>2, <2>1, TypeKeepsTexts, ListsStill
<1>3. ASSUME NEW c \in Client, NEW s \in Slot, \/ Submit(c, s, "button") \/ Submit(c, s, "enter") \/ Comment(c, s),
             scene' = scene
      PROVE  Texts' /\ Lists'
  <2>1. /\ Sendable(c) /\ Create(c, s) /\ draft' = IF c \in Mobile THEN [draft EXCEPT ![c] = NoText] ELSE draft
    BY <1>3 DEF Submit, Comment
  <2>2. /\ UNCHANGED <<exists, rows, posted, removed, comments, deaf>> /\ call[s].pc = "idle"
        /\ call' = [call EXCEPT ![s] = Request(c, "create", draft[c], 0)]
    BY <2>1 DEF Create, server
  <2>3. \A r \in Slot : call[r].pc = "ok" => call'[r] = call[r] BY <2>2, SlotSet DEF TextInv
  <2> QED BY <1>3, <2>1, <2>2, <2>3, CreateKeepsTexts, ListsStill
<1>4. ASSUME NEW c \in Client, NEW s \in Slot, NEW id, call[s].pc = "idle", scene' = scene,
             call' = [call EXCEPT ![s] = Request(c, "delete", NoText, id)],
             UNCHANGED <<server, draft, comments, history, deaf>>
      PROVE  Texts' /\ Lists'
  <2>1. UNCHANGED <<exists, rows, posted, removed, typed, replaced, waited, refused, insisted>>
    BY <1>4 DEF server, history
  <2>2. /\ call[s].kind # "create" /\ call'[s].kind = "delete" /\ call'[s].client = c
        /\ \A r \in Slot \ {s} : call'[r] = call[r]
    BY <1>4, CallSent
  <2>3. \A r \in Slot : call[r].kind = "delete" => call[r].client \in Client BY DEF TextInv, Texts, TextsHeld
  <2>4. Texts' BY <1>4, <2>1, <2>2, <2>3, TextsStill
  <2>5. Lists' BY <1>4, <2>1, <2>2, ListsStill
  <2> QED BY <2>4, <2>5
<1>5. ASSUME NEW s \in Slot, Insert(s), scene' = scene PROVE Texts' /\ Lists'
  BY <1>5, InsertKeepsTexts, InsertKeepsLists
\* A call that goes on, but for an INSERT.
<1>b. ASSUME NEW s \in Slot, NEW pc, Goto(s, pc), scene' = scene, call[s].pc # "ok",
             call[s].kind = "create" => call[s].pc = "sent" /\ pc = "refused",
             UNCHANGED <<posted, Clients>>
      PROVE  Texts' /\ (UNCHANGED removed /\ rows' \subseteq rows /\ (exists' => exists) => Lists')
  <2>1. UNCHANGED <<draft, comments, deaf, typed, replaced, waited, refused, insisted>> BY <1>b DEF Clients, history
  <2>2. /\ call'[s].pc = pc /\ call'[s].client = call[s].client /\ call'[s].kind = call[s].kind
        /\ call'[s].text = call[s].text /\ \A r \in Slot \ {s} : call'[r] = call[r]
    BY <1>b, SlotGoes DEF TextInv
  <2>3. \A r \in Slot : call[r].kind = "delete" => call[r].client \in Client BY DEF TextInv, Texts, TextsHeld
  <2>4. Texts' BY <1>b, <2>1, <2>2, <2>3, TextsStill
  <2>5. \A r \in Slot : call[r].pc = "ok" => call'[r] = call[r] BY <1>b, <2>2
  <2>6. ASSUME UNCHANGED removed, rows' \subseteq rows, exists' => exists PROVE Lists'
    BY <1>b, <2>1, <2>5, <2>6, ListsStill
  <2> QED BY <2>4, <2>6
<1>6. ASSUME NEW s \in Slot, NoImage(s), scene' = scene PROVE Texts' /\ Lists'
  <2>1. Goto(s, "refused") /\ call[s].pc = "sent" /\ UNCHANGED <<exists, rows, posted, removed, Clients>>
    BY <1>6 DEF NoImage, Handles, server
  <2> QED BY <1>6, <1>b, <2>1
<1>7. ASSUME NEW s \in Slot, CheckOwner(s), scene' = scene PROVE Texts' /\ Lists'
  <2>1. PICK pc \in {"allowed", "refused"} : Goto(s, pc) BY <1>7 DEF CheckOwner
  <2>2. call[s].kind = "delete" /\ call[s].pc = "sent" /\ UNCHANGED <<exists, rows, posted, removed, Clients>>
    BY <1>7 DEF CheckOwner, Handles, server
  <2> QED BY <1>7, <1>b, <2>1, <2>2
<1>8. ASSUME NEW s \in Slot, DeleteRow(s), scene' = scene PROVE Texts' /\ Lists'
  <2>1. Goto(s, "ok") /\ call[s].kind = "delete" /\ call[s].pc = "allowed" /\ UNCHANGED <<posted, Clients>>
    BY <1>8 DEF DeleteRow, Handles
  <2> QED BY <1>8, <1>b, <2>1, DeleteKeepsLists
<1>9. ASSUME DropImage, scene' = scene PROVE Texts' /\ Lists'
  <2>1. /\ rows' = {} /\ exists' = FALSE
        /\ UNCHANGED <<posted, removed, call, draft, comments, deaf, typed, replaced, waited, refused, insisted>>
    BY <1>9 DEF DropImage, Clients, history
  <2>2. \A s \in Slot : call[s].kind = "delete" => call[s].client \in Client BY DEF TextInv, Texts, TextsHeld
  <2> QED BY <1>9, <2>1, <2>2, TextsStill, ListsStill
<1>10. ASSUME NEW s \in Slot, Created(s), scene' = scene PROVE Texts' /\ Lists'
  <2>1. call[s].client \in Client BY <1>10 DEF Created, Handles, TextInv, Texts, TextsHeld
  <2>2. /\ Finish(s) /\ Refresh(call[s].client) /\ deaf' = Missed(call[s].client) /\ UNCHANGED <<scene, server>>
    BY <1>10 DEF Created
  <2> QED BY <1>10, <2>1, <2>2, CreatedKeepsTexts, HearingKeepsLists
\* A call that ends, but for a comment the page hears of.
<1>c. ASSUME NEW s \in Slot, Finish(s), scene' = scene,
             UNCHANGED <<posted, draft, typed, replaced, waited, insisted>>,
             refused' = IF call[s].kind = "create" THEN refused \cup {call[s].text} ELSE refused
      PROVE  Texts' /\ \A r \in Slot \ {s} : call'[r] = call[r]
  <2>1. call'[s].kind # "create" /\ call'[s].kind # "delete" /\ \A r \in Slot \ {s} : call'[r] = call[r] BY <1>c, CallEnds
  <2>2. \A r \in Slot : call[r].kind = "delete" => call[r].client \in Client BY DEF TextInv, Texts, TextsHeld
  <2> QED BY <1>c, <2>1, <2>2, TextsStill
<1>11. ASSUME NEW s \in Slot, Deleted(s), scene' = scene PROVE Texts' /\ Lists'
  <2>1. call[s].kind = "delete" /\ call[s].client \in Client
    BY <1>11 DEF Deleted, Handles, TextInv, Texts, TextsHeld
  <2>2. /\ Finish(s) /\ Refresh(call[s].client) /\ deaf' = Missed(call[s].client) /\ UNCHANGED <<scene, server>>
        /\ UNCHANGED <<posted, draft, typed, replaced, waited, insisted, refused>>
    BY <1>11 DEF Deleted, server, history
  <2> QED BY <1>11, <1>c, <2>1, <2>2, HearingKeepsLists
<1>12. ASSUME NEW s \in Slot, Refuse(s) \/ LoseAnswer(s), scene' = scene PROVE Texts' /\ Lists'
  <2>1. /\ Finish(s) /\ UNCHANGED <<exists, rows, posted, removed, draft, comments, typed, replaced, waited, insisted>>
        /\ refused' = IF call[s].kind = "create" THEN refused \cup {call[s].text} ELSE refused
        /\ deaf \subseteq deaf' /\ (call[s].pc = "ok" => call[s].client \in deaf')
    BY <1>12 DEF Refuse, LoseAnswer, server
  <2>2. Texts' /\ \A r \in Slot \ {s} : call'[r] = call[r] BY <1>12, <1>c, <2>1
  <2> QED BY <1>12, <2>1, <2>2, ListsStill
<1>13. CASE UNCHANGED vars
  <2>1. UNCHANGED <<scene, exists, rows, posted, removed, draft, comments, call, deaf, typed, replaced, waited, refused, insisted>>
    BY <1>13 DEF vars, server, history
  <2>2. \A s \in Slot : call[s].kind = "delete" => call[s].client \in Client BY DEF TextInv, Texts, TextsHeld
  <2> QED BY <2>1, <2>2, TextsStill, ListsStill
<1>14. CASE Next
  <2>0. scene' = scene BY <1>14 DEF Next
  <2>1. CASE \E c \in scene.who :
                \/ Serve(c) \/ Land(c)
                \/ \E t \in Writes(c) \cap scene.texts : Type(c, t)
    BY <1>a, <2>0, <2>1, <1>1, <1>2
  <2>2. CASE \E c \in scene.who, s \in scene.slots :
                Submit(c, s, "button") \/ Submit(c, s, "enter") \/ Comment(c, s)
    BY <1>a, <2>0, <2>2, <1>3
  <2>3. CASE \E c \in scene.who, s \in scene.slots :
                \/ \E row \in rows : AskDelete(c, s, row)
                \/ \E id \in 1..lastId : AskDeleteById(c, s, id)
    BY <1>a, <2>0, <2>3, <1>4 DEF AskDelete, AskDeleteById
  <2>4. CASE \E s \in Slot : Insert(s) \/ NoImage(s) \/ CheckOwner(s) \/ DeleteRow(s)
    BY <2>0, <2>4, <1>5, <1>6, <1>7, <1>8
  <2>5. CASE \E s \in Slot : Created(s) \/ Deleted(s) \/ Refuse(s) \/ LoseAnswer(s)
    BY <2>0, <2>5, <1>10, <1>11, <1>12
  <2> QED BY <1>9, <1>14, <2>0, <2>1, <2>2, <2>3, <2>4, <2>5 DEF Next
<1> QED BY <1>13, <1>14

\* A text is posted twice only when its user insisted, none is lost but those that
\* are said to be, and a client at rest sees what it did, for any number of clients,
\* texts and calls at once (CommentsSection.tsx:30-46, ImageDetailScreen.tsx:61).
THEOREM CommentsAlwaysHonest == Spec => []CommentsHonest
<1>1. Init => TextInv BY CommentsBegin, TextsBegin DEF TextInv
<1>2. TextInv /\ [Next]_vars => TextInv' BY TextsStep
<1>3. ASSUME TextInv PROVE PostedOnce
  <2> SUFFICES ASSUME NEW x \in posted, NEW y \in posted, x.text = y.text, x # y, x.text \notin insisted
               PROVE  FALSE
    BY DEF PostedOnce
  <2>1. x.text \notin typed BY <1>3 DEF TextInv, Texts, SentFresh
  <2>2. x \in scene.old /\ y \in scene.old BY <1>3, <2>1 DEF TextInv, Texts, TextsHeld
  <2> QED BY <1>3, <2>2, CommentsAssumption DEF TextInv, Texts, TextsHeld
<1>4. ASSUME TextInv PROVE NoTextLost
  BY <1>4 DEF TextInv, Texts, Kept, NoTextLost, Posted, Carries
<1>5. ASSUME TextInv PROVE OwnChangesShown
  <2> SUFFICES ASSUME NEW c \in Client \ deaf, exists, c \in scene.who, Resting(comments[c]),
                      \A s \in Slot : call[s].client # c
               PROVE  /\ {r \in rows : r.text \in Writes(c)} \subseteq comments[c].data
                      /\ \A r \in comments[c].data : <<r.id, c>> \notin removed
    BY DEF OwnChangesShown
  <2>1. Tells(c, comments[c].data) BY <1>5 DEF TextInv, Lists, ListsTell, Resting, Latest
  <2> QED BY <2>1 DEF Tells, Unheard
<1>6. TextInv => CommentsHonest BY <1>3, <1>4, <1>5 DEF CommentsHonest
<1> QED BY <1>1, <1>2, <1>6, PTL DEF Spec

-----------------------------------------------------------------------------
TabSession == [pair: Nat, user: Account \cup {NoUser}]
TabRequest == [pc: {"idle", "refresh", "ok", "refused"}, from: Nat, pair: Nat]
TabsTyped ==
    /\ owner \in Seq(Account) /\ live \subseteq DOMAIN owner
    /\ storage \in TabSession /\ tab \in [Tab -> TabSession] /\ request \in [Tab -> TabRequest]

(* A session that is kept names a pair that was handed out, to its user    *)
(* but for those that are mixed.                                           *)
Owned(s) == s # None => s.pair \in DOMAIN owner /\ (owner[s.pair] = s.user \/ s.pair \in mixed)
AllOwned == Owned(storage) /\ \A t \in Tab : Owned(tab[t])

(* A refresh token under way is nobody's unheard answer.                   *)
Asking(t) ==
    request[t].pc = "refresh" =>
        /\ request[t].from \in DOMAIN owner
        /\ \A u \in Tab : request[u].pc = "ok" => request[u].pair # request[t].from

(* The pair of an answer under way is live, known to this call alone, and  *)
(* of the account whose pair was sent.                                     *)
Answered(t) ==
    request[t].pc = "ok" =>
        /\ request[t].from \in DOMAIN owner /\ <<request[t].from, t>> \in undone
        /\ request[t].pair \in live /\ owner[request[t].pair] = owner[request[t].from]
        /\ storage.pair # request[t].pair
        /\ \A u \in Tab : tab[u].pair # request[t].pair
        /\ \A u \in Tab \ {t} : request[u].pc = "ok" => request[u].pair # request[t].pair

TabsInv ==
    /\ TabsTyped /\ AllOwned
    /\ \A t \in Tab : Asking(t) /\ Answered(t)
    /\ StoredTokenLives /\ LostToAnotherTab

-----------------------------------------------------------------------------
(* A pair that is handed out is a new one, and those before keep their     *)
(* owners (auth_service.go, Login and RefreshToken).                       *)
LEMMA HandOutFresh ==
    ASSUME owner \in Seq(Account), NEW u \in Account, HandOut(u)
    PROVE  /\ owner' \in Seq(Account) /\ NextPair \in Nat \ {0}
           /\ NextPair \in DOMAIN owner' /\ owner'[NextPair] = u
           /\ \A p \in DOMAIN owner : p \in DOMAIN owner' /\ owner'[p] = owner[p]
           /\ NextPair \notin DOMAIN owner
  BY DEF HandOut, NextPair

(* No session that is kept has the pair that is handed out next.           *)
LEMMA NextPairUnused ==
    ASSUME TabsTyped, NEW s \in TabSession, Owned(s)
    PROVE  s.pair # NextPair
<1>1. NextPair \in Nat \ {0} /\ NextPair \notin DOMAIN owner
  BY DEF TabsTyped, NextPair
<1>2. CASE s = None
  BY <1>1, <1>2 DEF None
<1>3. CASE s # None
  BY <1>1, <1>3 DEF Owned
<1> QED
  BY <1>2, <1>3

(* The pair of nobody is never live.                                       *)
LEMMA LivePositive ==
    ASSUME TabsInv, NEW p \in live
    PROVE  p # 0
<1>1. owner \in Seq(Account) /\ p \in DOMAIN owner
  BY DEF TabsInv, TabsTyped
<1> QED
  BY <1>1

(* In the beginning nobody is logged in.                                   *)
LEMMA TabsBegin == TabsInit => TabsInv
<1> SUFFICES ASSUME TabsInit PROVE TabsInv
  OBVIOUS
<1>1. TabsTyped
  BY DEF TabsInit, TabsTyped, TabSession, TabRequest, None, NoRequest
<1>2. \A t \in Tab : request[t].pc = "idle" /\ tab[t] = None
  BY DEF TabsInit, NoRequest
<1> QED
  BY <1>1, <1>2 DEF TabsInit, TabsInv, AllOwned, Owned, Asking, Answered, StoredTokenLives,
     LostToAnotherTab, LoggedIn

-----------------------------------------------------------------------------
(* A page load takes over what is stored; an answer on its way is lost     *)
(* with it (authStore.ts, getStored).                                      *)
LEMMA ReloadKeeps ==
    ASSUME TabsInv, NEW t \in Tab, Reload(t)
    PROVE  TabsInv'
<1> USE DEF TabsInv
<1>1. /\ tab' = [tab EXCEPT ![t] = storage] /\ request' = [request EXCEPT ![t] = NoRequest]
      /\ UNCHANGED <<owner, live, storage, undone, mixed>>
  BY DEF Reload, GetStored, tokens
<1>2. /\ tab'[t] = storage /\ request'[t].pc = "idle"
      /\ \A u \in Tab \ {t} : tab'[u] = tab[u] /\ request'[u] = request[u]
  BY <1>1 DEF TabsTyped, NoRequest
<1>3. orphaned \subseteq orphaned' /\ (request[t].pc = "ok" => request[t].from \in orphaned')
  BY DEF Reload, Unanswered
<1>4. TabsTyped'
  BY <1>1 DEF TabsTyped, TabRequest, NoRequest
<1>5. AllOwned'
  BY <1>1, <1>2 DEF AllOwned, Owned
<1>6. ASSUME NEW u \in Tab PROVE Asking(u)' /\ Answered(u)'
  BY <1>1, <1>2 DEF Asking, Answered
<1>7. StoredTokenLives'
  BY <1>1, <1>2, <1>3 DEF StoredTokenLives
<1>8. LostToAnotherTab'
  <2> SUFFICES ASSUME NEW u \in Tab, LoggedIn(u)', request'[u] = NoRequest, tab'[u].pair \notin live'
               PROVE  \/ \E v \in Tab \ {u} : <<tab'[u].pair, v>> \in undone'
                      \/ tab'[u].pair \in orphaned'
    BY DEF LostToAnotherTab
  <2>1. CASE u = t
    <3>1. storage # None /\ storage.pair \notin live
      BY <1>1, <1>2, <2>1 DEF LoggedIn
    <3>2. CASE storage.pair \in orphaned
      BY <1>2, <1>3, <2>1, <3>2
    <3>3. CASE \E v \in Tab : request[v].pc = "ok" /\ request[v].from = storage.pair
      BY <1>1, <1>2, <1>3, <2>1, <3>3 DEF Answered
    <3> QED
      BY <3>1, <3>2, <3>3 DEF StoredTokenLives
  <2>2. CASE u # t
    BY <1>1, <1>2, <1>3, <2>2 DEF LostToAnotherTab, LoggedIn
  <2> QED
    BY <2>1, <2>2
<1> QED
  BY <1>4, <1>5, <1>6, <1>7, <1>8

(* A login hands out a new pair, to the tab and to the storage, whatever   *)
(* answer the tab still waits for.                                         *)
LEMMA LoginKeeps ==
    ASSUME TabsInv, NEW t \in Tab, NEW a \in Account, Login(t, a)
    PROVE  TabsInv'
<1> USE DEF TabsInv
<1> DEFINE s == [pair |-> NextPair, user |-> a]
<1>1. /\ tab' = [tab EXCEPT ![t] = s] /\ storage' = s /\ live' = live \cup {NextPair}
      /\ UNCHANGED <<request, undone, orphaned, mixed>>
  BY DEF Login, SetAuth
<1>2. /\ owner' \in Seq(Account) /\ NextPair \in Nat \ {0}
      /\ NextPair \in DOMAIN owner' /\ owner'[NextPair] = a
      /\ \A p \in DOMAIN owner : p \in DOMAIN owner' /\ owner'[p] = owner[p]
      /\ NextPair \notin DOMAIN owner
  BY HandOutFresh DEF Login, TabsTyped
<1>3. /\ tab'[t] = s /\ \A u \in Tab \ {t} : tab'[u] = tab[u]
      /\ s.pair = NextPair /\ s.user = a
  BY <1>1 DEF TabsTyped
<1>4. TabsTyped'
  BY <1>1, <1>2 DEF TabsTyped, TabSession
<1>5. AllOwned'
  BY <1>1, <1>2, <1>3 DEF AllOwned, Owned
<1>6. ASSUME NEW u \in Tab PROVE Asking(u)' /\ Answered(u)'
  <2>1. Asking(u)'
    BY <1>1, <1>2 DEF Asking
  <2>2. ASSUME request[u].pc = "ok" PROVE request[u].pair \in DOMAIN owner
    BY <2>2 DEF Answered, TabsTyped
  <2>3. Answered(u)'
    BY <1>1, <1>2, <1>3, <2>2 DEF Answered
  <2> QED
    BY <2>1, <2>3
<1>7. StoredTokenLives'
  BY <1>1, <1>3 DEF StoredTokenLives
<1>8. LostToAnotherTab'
  BY <1>1, <1>3 DEF LostToAnotherTab, LoggedIn
<1> QED
  BY <1>4, <1>5, <1>6, <1>7, <1>8

(* A tab and the storage are emptied, and nothing is revoked but the pair  *)
(* of that tab, which other tabs then lose to this one.                    *)
LEMMA ClearingKeeps ==
    ASSUME TabsInv, NEW t \in Tab, ClearAuth(t), UNCHANGED <<owner, mixed>>,
           orphaned \subseteq orphaned', undone \subseteq undone', live' \subseteq live,
           \A p \in live \ live' : p = tab[t].pair /\ <<p, t>> \in undone',
           request' = request \/ request' = [request EXCEPT ![t] = NoRequest]
    PROVE  TabsInv'
<1> USE DEF TabsInv
<1>1. tab' = [tab EXCEPT ![t] = None] /\ storage' = None
  BY DEF ClearAuth, SetAuth
<1>2. /\ tab'[t] = None
      /\ \A u \in Tab \ {t} : tab'[u] = tab[u] /\ request'[u] = request[u]
  BY <1>1 DEF TabsTyped
<1>3. \A u \in Tab : request'[u].pc # "idle" => request'[u] = request[u]
  BY DEF TabsTyped, NoRequest
<1>4. TabsTyped'
  <2>1. None \in TabSession /\ NoRequest \in TabRequest
    BY DEF TabSession, TabRequest, NoRequest, None
  <2>2. request' \in [Tab -> TabRequest]
    BY <2>1 DEF TabsTyped
  <2> QED
    BY <1>1, <2>1, <2>2 DEF TabsTyped
<1>5. AllOwned'
  BY <1>1, <1>2 DEF AllOwned, Owned
<1>6. ASSUME NEW u \in Tab PROVE Asking(u)' /\ Answered(u)'
  <2>1. Asking(u)'
    BY <1>3 DEF Asking
  <2>2. ASSUME request[u].pc = "ok" PROVE request[u].pair \in live' /\ request[u].pair # 0
    <3>1. request[u].pair \in live /\ request[u].pair # tab[t].pair
      BY <2>2 DEF Answered
    <3> QED
      BY <3>1, LivePositive
  <2>3. Answered(u)'
    BY <1>1, <1>2, <1>3, <2>2 DEF Answered, None
  <2> QED
    BY <2>1, <2>3
<1>7. StoredTokenLives'
  BY <1>1 DEF StoredTokenLives
<1>8. LostToAnotherTab'
  BY <1>1, <1>2 DEF LostToAnotherTab, LoggedIn
<1> QED
  BY <1>4, <1>5, <1>6, <1>7, <1>8

-----------------------------------------------------------------------------
(* A refresh token is sent: the one the tab keeps.                         *)
LEMMA AskRefreshKeeps ==
    ASSUME TabsInv, NEW t \in Tab, AskRefresh(t)
    PROVE  TabsInv'
<1> USE DEF TabsInv
<1>1. /\ request' = [request EXCEPT ![t] = [pc |-> "refresh", from |-> tab[t].pair, pair |-> 0]]
      /\ UNCHANGED <<owner, live, storage, tab, undone, orphaned, mixed>>
      /\ LoggedIn(t) /\ request[t] = NoRequest
  BY DEF AskRefresh, tokens
<1>2. /\ request'[t].pc = "refresh" /\ request'[t].from = tab[t].pair /\ request[t].pc = "idle"
      /\ \A u \in Tab \ {t} : request'[u] = request[u]
  BY <1>1 DEF TabsTyped, NoRequest
<1>3. TabsTyped'
  BY <1>1 DEF TabsTyped, TabRequest, TabSession
<1>4. AllOwned'
  BY <1>1 DEF AllOwned, Owned
<1>5. ASSUME NEW u \in Tab PROVE Asking(u)' /\ Answered(u)'
  <2>1. tab[t].pair \in DOMAIN owner
    BY <1>1 DEF AllOwned, Owned, LoggedIn
  <2>2. \A v \in Tab : request'[v].pc = "ok" =>
            v # t /\ request'[v] = request[v] /\ request[v].pair # tab[t].pair
    BY <1>2 DEF Answered
  <2>4. Asking(u)'
    BY <1>1, <1>2, <2>1, <2>2 DEF Asking
  <2>3. Answered(u)'
    BY <1>1, <1>2 DEF Answered
  <2> QED
    BY <2>3, <2>4
<1>6. StoredTokenLives'
  BY <1>1, <1>2 DEF StoredTokenLives
<1>7. LostToAnotherTab'
  BY <1>1, <1>2 DEF LostToAnotherTab, LoggedIn, NoRequest
<1> QED
  BY <1>3, <1>4, <1>5, <1>6, <1>7

(* The exchange: the pair that was sent is undone by this tab, and the new *)
(* one is known to nobody but its call; or it is refused.                  *)
LEMMA ExchangeKeeps ==
    ASSUME TabsInv, NEW t \in Tab, Exchange(t)
    PROVE  TabsInv'
<1> USE DEF TabsInv
<1> DEFINE old == request[t].from
<1>1. /\ request[t].pc = "refresh" /\ UNCHANGED <<storage, tab, orphaned, mixed>>
  BY DEF Exchange
<1>2. CASE old \in live
  <2>1. old \in DOMAIN owner /\ owner[old] \in Account
    BY <1>2 DEF TabsTyped
  <2>2. /\ HandOut(owner[old]) /\ live' = (live \ {old}) \cup {NextPair}
        /\ undone' = undone \cup {<<old, t>>}
        /\ request' = [request EXCEPT ![t].pc = "ok", ![t].pair = NextPair]
    BY <1>2 DEF Exchange
  <2>3. /\ owner' \in Seq(Account) /\ NextPair \in Nat \ {0}
        /\ NextPair \in DOMAIN owner' /\ owner'[NextPair] = owner[old]
        /\ \A p \in DOMAIN owner : p \in DOMAIN owner' /\ owner'[p] = owner[p]
        /\ NextPair \notin DOMAIN owner
    BY <2>1, <2>2, HandOutFresh DEF TabsTyped
  <2>4. /\ request'[t].pc = "ok" /\ request'[t].pair = NextPair /\ request'[t].from = old
        /\ \A u \in Tab \ {t} : request'[u] = request[u]
    BY <2>2 DEF TabsTyped, TabRequest
  <2>5. storage.pair # NextPair /\ \A u \in Tab : tab[u].pair # NextPair
    BY NextPairUnused DEF TabsTyped, AllOwned
  <2>6. ASSUME NEW u \in Tab, request[u].pc = "ok"
        PROVE  u # t /\ request[u].pair \in live \ {old} /\ request[u].pair # NextPair
    <3>1. u # t
      BY <1>1, <2>6
    <3>2. request[u].pair \in live /\ request[u].pair # old
      BY <1>1, <2>6 DEF Answered, Asking
    <3>3. request[u].pair \in DOMAIN owner
      BY <3>2 DEF TabsTyped
    <3> QED
      BY <2>3, <3>1, <3>2, <3>3
  <2>7. TabsTyped'
    <3>1. request' \in [Tab -> TabRequest]
      BY <2>2, <2>3 DEF TabsTyped, TabRequest
    <3>2. live' \subseteq DOMAIN owner'
      BY <2>2, <2>3 DEF TabsTyped
    <3> QED
      BY <1>1, <2>3, <3>1, <3>2 DEF TabsTyped
  <2>8. AllOwned'
    BY <1>1, <2>3 DEF AllOwned, Owned
  <2>9. ASSUME NEW u \in Tab PROVE Asking(u)' /\ Answered(u)'
    <3>1. CASE u = t
      <4>1. Asking(u)'
        BY <2>4, <3>1 DEF Asking
      <4>2. \A v \in Tab \ {t} : request'[v].pc = "ok" => request'[v].pair # NextPair
        BY <2>4, <2>6
      <4>3. owner'[NextPair] = owner'[old] /\ old \in DOMAIN owner'
        BY <2>1, <2>3
      <4>4. <<old, t>> \in undone' /\ NextPair \in live'
        BY <2>2
      <4>5. storage'.pair # NextPair /\ \A v \in Tab : tab'[v].pair # NextPair
        BY <1>1, <2>5
      <4> QED
        BY <2>4, <3>1, <4>1, <4>2, <4>3, <4>4, <4>5 DEF Answered
    <3>2. CASE u # t
      <4>1. Asking(u)'
        <5>1. ASSUME request[u].pc = "refresh", NEW v \in Tab, request'[v].pc = "ok"
              PROVE  request'[v].pair # request[u].from
          BY <2>3, <2>4, <5>1 DEF Asking
        <5> QED
          BY <2>3, <2>4, <3>2, <5>1 DEF Asking
      <4>2. ASSUME request[u].pc = "ok"
            PROVE  request[u].pair \in DOMAIN owner /\ request[u].from \in DOMAIN owner
        BY <4>2 DEF Answered, TabsTyped
      <4>3. ASSUME request[u].pc = "ok", NEW v \in Tab \ {u}, request'[v].pc = "ok"
            PROVE  request'[v].pair # request[u].pair
        <5>1. CASE v = t
          BY <2>4, <2>6, <4>3, <5>1
        <5>2. CASE v # t
          <6>1. Answered(u) /\ request[v].pc = "ok" /\ request'[v] = request[v]
            BY <2>4, <4>3, <5>2
          <6> QED
            BY <4>3, <6>1 DEF Answered
        <5> QED
          BY <5>1, <5>2
      <4>4. ASSUME request[u].pc = "ok"
            PROVE  /\ request[u].from \in DOMAIN owner' /\ <<request[u].from, u>> \in undone'
                   /\ request[u].pair \in live' /\ owner'[request[u].pair] = owner'[request[u].from]
        BY <2>2, <2>3, <2>6, <4>2, <4>4 DEF Answered
      <4>5. Answered(u)'
        BY <1>1, <2>4, <3>2, <4>3, <4>4 DEF Answered
      <4> QED
        BY <4>1, <4>5
    <3> QED
      BY <3>1, <3>2
  <2>10. StoredTokenLives'
    BY <1>1, <2>2, <2>4, <2>6 DEF StoredTokenLives
  <2>11. LostToAnotherTab'
    <3> SUFFICES ASSUME NEW u \in Tab, LoggedIn(u)', request'[u] = NoRequest, tab'[u].pair \notin live'
                 PROVE  \/ \E v \in Tab \ {u} : <<tab'[u].pair, v>> \in undone'
                        \/ tab'[u].pair \in orphaned'
      BY DEF LostToAnotherTab
    <3>1. u # t /\ request[u] = NoRequest /\ LoggedIn(u) /\ tab'[u] = tab[u]
      BY <1>1, <2>4 DEF NoRequest, LoggedIn
    <3>2. CASE tab[u].pair = old
      BY <2>2, <3>1, <3>2
    <3>3. CASE tab[u].pair # old
      BY <1>1, <2>2, <3>1, <3>3 DEF LostToAnotherTab
    <3> QED
      BY <3>2, <3>3
  <2> QED
    BY <2>7, <2>8, <2>9, <2>10, <2>11
<1>3. CASE old \notin live
  <2>1. /\ request' = [request EXCEPT ![t].pc = "refused"] /\ UNCHANGED <<owner, live, undone>>
    BY <1>3 DEF Exchange
  <2>2. request'[t].pc = "refused" /\ \A u \in Tab \ {t} : request'[u] = request[u]
    BY <2>1 DEF TabsTyped, TabRequest
  <2>3. TabsTyped'
    BY <1>1, <2>1 DEF TabsTyped, TabRequest, TabSession
  <2>4. AllOwned'
    BY <1>1, <2>1 DEF AllOwned, Owned
  <2>5. ASSUME NEW u \in Tab PROVE Asking(u)' /\ Answered(u)'
    BY <1>1, <2>1, <2>2 DEF Asking, Answered
  <2>6. StoredTokenLives'
    BY <1>1, <2>1, <2>2 DEF StoredTokenLives
  <2>7. LostToAnotherTab'
    BY <1>1, <2>1, <2>2 DEF LostToAnotherTab, LoggedIn, NoRequest
  <2> QED
    BY <2>3, <2>4, <2>5, <2>6, <2>7
<1> QED
  BY <1>2, <1>3

(* The answer arrives: its pair, which is live and this call's alone,      *)
(* takes the place of the old one in the tab and in the storage.  It is of *)
(* the user beside it, unless that user has logged in meanwhile.           *)
LEMMA RefreshOkKeeps ==
    ASSUME TabsInv, NEW t \in Tab, RefreshOk(t)
    PROVE  TabsInv'
<1> USE DEF TabsInv
<1> DEFINE s == [pair |-> request[t].pair, user |-> tab[t].user]
<1>1. /\ tab' = [tab EXCEPT ![t] = s] /\ storage' = s
      /\ request' = [request EXCEPT ![t] = NoRequest]
      /\ UNCHANGED <<owner, live, undone, orphaned>> /\ request[t].pc = "ok" /\ LoggedIn(t)
  BY DEF RefreshOk, SetAuth, tokens
<1>2. /\ tab'[t] = s /\ request'[t].pc = "idle" /\ s.pair = request[t].pair /\ s.user = tab[t].user
      /\ \A u \in Tab \ {t} : tab'[u] = tab[u] /\ request'[u] = request[u]
  BY <1>1 DEF TabsTyped, NoRequest
<1>3. /\ s.pair \in live /\ s.pair \in DOMAIN owner /\ owner[s.pair] = owner[request[t].from]
      /\ \A u \in Tab \ {t} : request[u].pc = "ok" => request[u].pair # s.pair
  BY <1>1 DEF Answered, TabsTyped
<1>4. TabsTyped'
  BY <1>1 DEF TabsTyped, TabSession, TabRequest, NoRequest
<1>5. AllOwned'
  <2>1. mixed \subseteq mixed'
    BY DEF RefreshOk
  <2>2. owner[s.pair] = s.user \/ s.pair \in mixed'
    <3>1. CASE tab[t].pair # request[t].from \/ request[t].from \in mixed
      BY <3>1 DEF RefreshOk
    <3>2. CASE tab[t].pair = request[t].from /\ request[t].from \notin mixed
      BY <1>1, <1>3, <3>2 DEF AllOwned, Owned, LoggedIn
    <3> QED
      BY <3>1, <3>2
  <2> QED
    BY <1>1, <1>2, <1>3, <2>1, <2>2 DEF AllOwned, Owned
<1>6. ASSUME NEW u \in Tab PROVE Asking(u)' /\ Answered(u)'
  BY <1>1, <1>2, <1>3 DEF Asking, Answered
<1>7. StoredTokenLives'
  BY <1>1, <1>3 DEF StoredTokenLives
<1>8. LostToAnotherTab'
  BY <1>1, <1>2, <1>3 DEF LostToAnotherTab, LoggedIn
<1> QED
  BY <1>4, <1>5, <1>6, <1>7, <1>8

(* A call that failed orphans the pair that was exchanged for its answer.  *)
LEMMA LoseAnswerKeeps ==
    ASSUME TabsInv, NEW t \in Tab, LoseRefresh(t)
    PROVE  TabsInv'
<1> USE DEF TabsInv
<1>1. /\ request' = [request EXCEPT ![t].pc = "refused"]
      /\ UNCHANGED <<owner, live, storage, tab, undone, mixed>>
  BY DEF LoseRefresh, tokens
<1>2. request'[t].pc = "refused" /\ \A u \in Tab \ {t} : request'[u] = request[u]
  BY <1>1 DEF TabsTyped, TabRequest
<1>3. orphaned \subseteq orphaned' /\ (request[t].pc = "ok" => request[t].from \in orphaned')
  BY DEF LoseRefresh, Unanswered
<1>4. TabsTyped'
  BY <1>1 DEF TabsTyped, TabRequest, TabSession
<1>5. AllOwned'
  BY <1>1 DEF AllOwned, Owned
<1>6. ASSUME NEW u \in Tab PROVE Asking(u)' /\ Answered(u)'
  BY <1>1, <1>2 DEF Asking, Answered
<1>7. StoredTokenLives'
  BY <1>1, <1>2, <1>3 DEF StoredTokenLives
<1>8. LostToAnotherTab'
  BY <1>1, <1>2, <1>3 DEF LostToAnotherTab, LoggedIn, NoRequest
<1> QED
  BY <1>4, <1>5, <1>6, <1>7, <1>8

(* A step that changes nothing of what the invariant is about.             *)
LEMMA TabsStill ==
    ASSUME TabsInv, UNCHANGED tabVars
    PROVE  TabsInv'
<1> USE DEF tabVars, tokens
<1>1. TabsTyped' /\ AllOwned'
  BY DEF TabsInv, TabsTyped, AllOwned, Owned
<1>2. ASSUME NEW u \in Tab PROVE Asking(u)' /\ Answered(u)'
  BY DEF TabsInv, Asking, Answered
<1>3. StoredTokenLives' /\ LostToAnotherTab'
  BY DEF TabsInv, StoredTokenLives, LostToAnotherTab, LoggedIn
<1> QED
  BY <1>1, <1>2, <1>3 DEF TabsInv

-----------------------------------------------------------------------------
(* Every step keeps the invariant.                                         *)
LEMMA TabsStep == TabsInv /\ [TabsNext]_tabVars => TabsInv'
<1> SUFFICES ASSUME TabsInv, [TabsNext]_tabVars PROVE TabsInv'
  OBVIOUS
<1>1. ASSUME NEW t \in Tab, Reload(t) PROVE TabsInv'
  BY <1>1, ReloadKeeps
<1>2. ASSUME NEW t \in Tab, AskRefresh(t) PROVE TabsInv'
  BY <1>2, AskRefreshKeeps
<1>3. ASSUME NEW t \in Tab, Exchange(t) PROVE TabsInv'
  BY <1>3, ExchangeKeeps
<1>4. ASSUME NEW t \in Tab, RefreshOk(t) PROVE TabsInv'
  BY <1>4, RefreshOkKeeps
<1>5. ASSUME NEW t \in Tab, RefreshFailed(t) PROVE TabsInv'
  BY <1>5, ClearingKeeps DEF RefreshFailed, tokens
<1>6. ASSUME NEW t \in Tab, LoseRefresh(t) PROVE TabsInv'
  BY <1>6, LoseAnswerKeeps
<1>7. ASSUME NEW t \in Tab, NEW u \in Account, Login(t, u) PROVE TabsInv'
  BY <1>7, LoginKeeps
<1>8. ASSUME NEW t \in Tab, NEW revokes \in BOOLEAN, Logout(t, revokes) PROVE TabsInv'
  <2>1. /\ live' \subseteq live /\ undone \subseteq undone'
        /\ \A p \in live \ live' : p = tab[t].pair /\ <<p, t>> \in undone'
    BY <1>8 DEF Logout
  <2> QED
    BY <1>8, <2>1, ClearingKeeps DEF Logout
<1>9. ASSUME NEW t \in Tab, NoToken(t) PROVE TabsInv'
  BY <1>9, ClearingKeeps DEF NoToken, tokens
<1>10. CASE UNCHANGED tabVars
  BY <1>10, TabsStill
<1> QED
  BY <1>1, <1>2, <1>3, <1>4, <1>5, <1>6, <1>7, <1>8, <1>9, <1>10 DEF TabsNext

(* The sessions that are kept being owned is TokensOfTheirUser.            *)
LEMMA TabsInvSaysTabsAgree == TabsInv => TabsAgree
  BY DEF TabsInv, AllOwned, Owned, TabsAgree, TokensOfTheirUser

(* The stored token lives unless its successor is on its way or was lost,  *)
(* a tab loses its token only to another tab or with a lost answer, and    *)
(* all tokens are of the user beside them but where somebody logged in     *)
(* while they were asked for, for any number of tabs that never hear of    *)
(* each other and log out and in at any time (authStore.ts:27-50,          *)
(* client.ts:28-49).                                                       *)
THEOREM TabsAlwaysAgree == TabsSpec => []TabsAgree
<1>1. TabsSpec => []TabsInv
  BY TabsBegin, TabsStep, PTL DEF TabsSpec
<1> QED
  BY <1>1, TabsInvSaysTabsAgree, PTL

-----------------------------------------------------------------------------
Once(s) == \A i, j \in DOMAIN s : s[i] = s[j] => i = j
Copied == {p \in Picture : copies[p] > 0}

\* What the server has left of a request.
Left(r) == ToSet(rest[r])

UploadTyped ==
    /\ files \in Seq(Picture) /\ form \in Seq(Picture) /\ rest \in [Try -> Seq(Picture)]
    /\ xhr \in {"idle", "sent", "ok", "error"} /\ serving \subseteq Try /\ sent \in 0..MaxSent
    /\ copies \in [Picture -> Nat] /\ picked \subseteq Picture

\* A selection has no picture twice, and none is stored that was never chosen.
Selected ==
    /\ Once(files) /\ \A r \in Try : Once(rest[r])
    /\ ToSet(files) \cup ToSet(form) \cup Copied \cup failed \subseteq picked

\* How far the server is with the request the phone waits for, and with those
\* it gave up.
ServerAt ==
    /\ xhr # "idle" => sent \in Try
    /\ xhr = "sent" => sent \in serving
    /\ xhr = "ok" => sent \notin serving
    /\ \A r \in Try :
          /\ r \notin serving => rest[r] = <<>>
          /\ Left(r) \subseteq IF r = sent /\ xhr # "idle" THEN ToSet(form) ELSE failed
    /\ xhr \in {"sent", "ok"} => ToSet(form) \subseteq Copied \cup unread \cup Left(sent)

\* What is about to be stored a second time, or by two requests, was sent again
\* after an error.
SentBefore ==
    /\ \A r \in Try :
          /\ Left(r) \cap Copied \subseteq again
          /\ \A q \in Try \ {r} : Left(r) \cap Left(q) \subseteq again
    /\ \A p \in ToSet(files) \cap Copied : p \in failed \/ (xhr # "idle" /\ p \in ToSet(form))

UploadInv == UploadTyped /\ Selected /\ ServerAt /\ SentBefore /\ NothingLostNorDoubled

LEMMA Elements ==
    ASSUME NEW s \in Seq(Picture)
    PROVE  /\ ToSet(s) \subseteq Picture /\ \A p : p \in ToSet(s) <=> \E i \in 1..Len(s) : s[i] = p
           /\ DOMAIN s = 1..Len(s) /\ Len(s) \in Nat
  BY DEF ToSet

LEMMA ElementsOfNone == ToSet(<<>>) = {} /\ Once(<<>>) /\ <<>> \in Seq(Picture)
  BY DEF ToSet, Once

\* A sequence cut in two.
LEMMA Cut ==
    ASSUME NEW s \in Seq(Picture), NEW n \in 0..Len(s)
    PROVE  /\ SubSeq(s, 1, n) \in Seq(Picture) /\ SubSeq(s, n + 1, Len(s)) \in Seq(Picture)
           /\ Len(SubSeq(s, 1, n)) = n
           /\ ToSet(s) = ToSet(SubSeq(s, 1, n)) \cup ToSet(SubSeq(s, n + 1, Len(s)))
           /\ Once(s) => Once(SubSeq(s, 1, n))
<1> DEFINE a == SubSeq(s, 1, n)
           b == SubSeq(s, n + 1, Len(s))
<1>1. a \in Seq(Picture) /\ Len(a) = n /\ \A i \in 1..n : a[i] = s[i]
  OBVIOUS
<1>2. b \in Seq(Picture) /\ Len(b) = Len(s) - n /\ \A i \in 1..(Len(s) - n) : b[i] = s[n + i]
  OBVIOUS
<1> HIDE DEF a, b
<1>3. ASSUME NEW p, p \in ToSet(s) PROVE p \in ToSet(a) \cup ToSet(b)
  <2>1. PICK i \in 1..Len(s) : s[i] = p
    BY <1>3, Elements
  <2>2. CASE i \in 1..n BY <1>1, <2>1, <2>2, Elements
  <2>3. CASE i \notin 1..n
    <3>1. i - n \in 1..(Len(s) - n) /\ n + (i - n) = i BY <2>3
    <3>2. b[i - n] = p BY <1>2, <2>1, <3>1
    <3> QED BY <1>2, <3>1, <3>2, Elements
  <2> QED BY <2>2, <2>3
<1>4. ASSUME NEW p, p \in ToSet(a) \cup ToSet(b) PROVE p \in ToSet(s)
  <2>1. CASE p \in ToSet(a)
    <3>1. PICK i \in 1..n : a[i] = p BY <1>1, <2>1, Elements
    <3> QED BY <1>1, <3>1, Elements
  <2>2. CASE p \in ToSet(b)
    <3>1. PICK i \in 1..(Len(s) - n) : b[i] = p BY <1>2, <2>2, Elements
    <3>2. n + i \in 1..Len(s) /\ s[n + i] = p BY <1>2, <3>1
    <3> QED BY <3>2, Elements
  <2> QED BY <1>4, <2>1, <2>2
<1>5. Once(s) => Once(a)
  BY <1>1, Elements DEF Once
<1>6. ToSet(s) = ToSet(a) \cup ToSet(b)
  BY <1>3, <1>4
<1> QED BY <1>1, <1>2, <1>5, <1>6 DEF a, b

LEMMA Joined ==
    ASSUME NEW s \in Seq(Picture), NEW t \in Seq(Picture)
    PROVE  /\ s \o t \in Seq(Picture) /\ ToSet(s \o t) = ToSet(s) \cup ToSet(t)
           /\ Once(s) /\ Once(t) /\ ToSet(s) \cap ToSet(t) = {} => Once(s \o t)
<1> DEFINE c == s \o t
<1>1. c \in Seq(Picture) /\ Len(c) = Len(s) + Len(t)
  OBVIOUS
<1>2. /\ \A i \in 1..Len(s) : c[i] = s[i]
      /\ \A i \in 1..Len(t) : c[Len(s) + i] = t[i]
      /\ \A i \in 1..Len(c) : i > Len(s) => i - Len(s) \in 1..Len(t) /\ c[i] = t[i - Len(s)]
  OBVIOUS
<1> HIDE DEF c
<1>3. ASSUME NEW p, p \in ToSet(s) \cup ToSet(t) PROVE p \in ToSet(c)
  <2>1. CASE p \in ToSet(s)
    <3>1. PICK i \in 1..Len(s) : s[i] = p BY <2>1, Elements
    <3> QED BY <1>1, <1>2, <3>1, Elements
  <2>2. CASE p \in ToSet(t)
    <3>1. PICK i \in 1..Len(t) : t[i] = p BY <2>2, Elements
    <3>2. Len(s) + i \in 1..Len(c) BY <1>1, <3>1, Elements
    <3> QED BY <1>1, <1>2, <3>1, <3>2, Elements
  <2> QED BY <1>3, <2>1, <2>2
<1>4. ASSUME NEW p, p \in ToSet(c) PROVE p \in ToSet(s) \cup ToSet(t)
  <2>1. PICK i \in 1..Len(c) : c[i] = p BY <1>1, <1>4, Elements
  <2>2. CASE i > Len(s) BY <1>2, <2>1, <2>2, Elements
  <2>3. CASE ~(i > Len(s))
    <3>1. i \in 1..Len(s) BY <2>3, Elements
    <3> QED BY <1>2, <2>1, <3>1, Elements
  <2> QED BY <2>2, <2>3
<1>5. ASSUME Once(s), Once(t), ToSet(s) \cap ToSet(t) = {} PROVE Once(c)
  <2> SUFFICES ASSUME NEW i \in 1..Len(c), NEW j \in 1..Len(c), c[i] = c[j], i <= j PROVE i = j
    BY <1>1, Elements DEF Once
  <2>1. CASE j <= Len(s)
    <3>1. i \in 1..Len(s) /\ j \in 1..Len(s) /\ s[i] = s[j] BY <1>2, <2>1
    <3> QED BY <1>5, <3>1, Elements DEF Once
  <2>2. CASE i > Len(s)
    <3>1. /\ i - Len(s) \in 1..Len(t) /\ j - Len(s) \in 1..Len(t)
          /\ t[i - Len(s)] = t[j - Len(s)]
      BY <1>2, <2>2, Elements
    <3> QED BY <1>5, <3>1, Elements DEF Once
  <2>3. CASE i <= Len(s) /\ j > Len(s)
    <3>1. s[i] \in ToSet(s) /\ s[i] = t[j - Len(s)] /\ t[j - Len(s)] \in ToSet(t)
      BY <1>2, <2>3, Elements
    <3> QED BY <1>5, <3>1
  <2> QED BY <1>1, <2>1, <2>2, <2>3, Elements
<1>6. ToSet(c) = ToSet(s) \cup ToSet(t) BY <1>3, <1>4
<1> QED BY <1>1, <1>5, <1>6 DEF c

LEMMA Shortened ==
    ASSUME NEW s \in Seq(Picture), s # <<>>
    PROVE  /\ Tail(s) \in Seq(Picture) /\ Head(s) \in Picture
           /\ ToSet(s) = {Head(s)} \cup ToSet(Tail(s))
           /\ Once(s) => Once(Tail(s)) /\ Head(s) \notin ToSet(Tail(s))
<1> DEFINE t == Tail(s)
<1>1. /\ t \in Seq(Picture) /\ Len(s) > 0 /\ Len(t) = Len(s) - 1 /\ \A i \in 1..Len(t) : t[i] = s[i + 1]
      /\ Head(s) = s[1] /\ Head(s) \in Picture
  OBVIOUS
<1> HIDE DEF t
<1>2. ASSUME NEW p, p \in ToSet(s) PROVE p = Head(s) \/ p \in ToSet(t)
  <2>1. PICK i \in 1..Len(s) : s[i] = p BY <1>2, Elements
  <2>2. CASE i = 1 BY <1>1, <2>1, <2>2
  <2>3. CASE i # 1
    <3>1. i - 1 \in 1..Len(t) /\ t[i - 1] = p BY <1>1, <2>1, <2>3
    <3> QED BY <1>1, <3>1, Elements
  <2> QED BY <2>2, <2>3
<1>3. ASSUME NEW p, p \in ToSet(t) PROVE \E i \in 2..Len(s) : s[i] = p
  <2>1. PICK i \in 1..Len(t) : t[i] = p BY <1>1, <1>3, Elements
  <2>2. i + 1 \in 2..Len(s) /\ s[i + 1] = p BY <1>1, <2>1
  <2> QED BY <2>2
<1>4. ToSet(s) = {Head(s)} \cup ToSet(t)
  <2>1. Head(s) \in ToSet(s) BY <1>1, Elements
  <2>2. ToSet(t) \subseteq ToSet(s)
    <3> SUFFICES ASSUME NEW p \in ToSet(t) PROVE p \in ToSet(s)
      OBVIOUS
    <3>1. PICK i \in 2..Len(s) : s[i] = p BY <1>3
    <3> QED BY <3>1, Elements
  <2> QED BY <1>2, <2>1, <2>2
<1>5. ASSUME Once(s) PROVE Once(t) /\ Head(s) \notin ToSet(t)
  <2>1. Once(t)
    <3> SUFFICES ASSUME NEW i \in 1..Len(t), NEW j \in 1..Len(t), t[i] = t[j] PROVE i = j
      BY <1>1, Elements DEF Once
    <3>1. i + 1 \in 1..Len(s) /\ j + 1 \in 1..Len(s) /\ s[i + 1] = s[j + 1] BY <1>1
    <3> QED BY <1>5, <3>1, Elements DEF Once
  <2>2. ASSUME Head(s) \in ToSet(t) PROVE FALSE
    <3>1. PICK i \in 2..Len(s) : s[i] = s[1] BY <1>1, <1>3, <2>2
    <3> QED BY <1>1, <1>5, <3>1, Elements DEF Once
  <2> QED BY <2>1, <2>2
<1> QED BY <1>1, <1>4, <1>5 DEF t

LEMMA TakenOut ==
    ASSUME NEW s \in Seq(Picture), NEW i \in DOMAIN s
    PROVE  /\ RemoveAt(s, i) \in Seq(Picture) /\ ToSet(RemoveAt(s, i)) \subseteq ToSet(s)
           /\ ToSet(s) \subseteq {s[i]} \cup ToSet(RemoveAt(s, i))
           /\ Once(s) => Once(RemoveAt(s, i))
<1> DEFINE t == RemoveAt(s, i)
<1>0. i \in 1..Len(s) /\ Len(s) \in Nat BY Elements
<1>1. /\ t \in Seq(Picture) /\ i \in 1..Len(s) /\ Len(t) = Len(s) - 1
      /\ \A j \in 1..Len(t) : t[j] = IF j < i THEN s[j] ELSE s[j + 1]
  <2> DEFINE a == SubSeq(s, 1, i - 1)
             b == SubSeq(s, i + 1, Len(s))
  <2>1. a \in Seq(Picture) /\ Len(a) = i - 1 /\ \A j \in 1..(i - 1) : a[j] = s[j]
    BY <1>0
  <2>2. b \in Seq(Picture) /\ Len(b) = Len(s) - i /\ \A j \in 1..(Len(s) - i) : b[j] = s[i + j]
    BY <1>0
  <2>3. t = a \o b BY DEF RemoveAt
  <2> HIDE DEF a, b, t
  <2>4. a \in Seq(Picture) /\ b \in Seq(Picture) /\ Len(a) \in Nat /\ Len(b) \in Nat
    BY <2>1, <2>2
  <2>6. t \in Seq(Picture) /\ Len(t) = Len(s) - 1
    BY <1>0, <2>1, <2>2, <2>3
  <2>7. \A j \in 1..Len(t) : t[j] = IF j <= Len(a) THEN a[j] ELSE b[j - Len(a)]
    BY <2>3, <2>4
  <2>5. ASSUME NEW j \in 1..Len(t) PROVE t[j] = IF j < i THEN s[j] ELSE s[j + 1]
    <3>1. CASE j < i BY <1>0, <2>1, <2>6, <2>7, <3>1
    <3>2. CASE ~(j < i)
      <4>1. j - (i - 1) \in 1..(Len(s) - i) /\ i + (j - (i - 1)) = j + 1 BY <1>0, <2>6, <3>2
      <4>2. t[j] = b[j - (i - 1)] BY <1>0, <2>1, <2>7, <3>2
      <4> QED BY <2>2, <3>2, <4>1, <4>2
    <3> QED BY <3>1, <3>2
  <2> QED BY <1>0, <2>5, <2>6
<1> HIDE DEF t
<1>2. ASSUME NEW p \in ToSet(t) PROVE p \in ToSet(s)
  <2>1. PICK j \in 1..Len(t) : t[j] = p BY <1>1, Elements
  <2>2. j \in 1..Len(s) /\ j + 1 \in 1..Len(s) BY <1>1, <2>1, Elements
  <2> QED BY <1>1, <2>1, <2>2, Elements
<1>3. ASSUME NEW p \in ToSet(s), p # s[i] PROVE p \in ToSet(t)
  <2>1. PICK j \in 1..Len(s) : s[j] = p BY Elements
  <2>2. CASE j < i
    <3>1. j \in 1..Len(t) /\ t[j] = p BY <1>1, <2>1, <2>2
    <3> QED BY <1>1, <3>1, Elements
  <2>3. CASE j > i
    <3>1. j - 1 \in 1..Len(t) /\ t[j - 1] = p BY <1>1, <2>1, <2>3
    <3> QED BY <1>1, <3>1, Elements
  <2>4. j # i BY <1>3, <2>1
  <2> QED BY <1>1, <2>2, <2>3, <2>4
<1>4. ASSUME Once(s) PROVE Once(t)
  <2> SUFFICES ASSUME NEW j \in 1..Len(t), NEW k \in 1..Len(t), t[j] = t[k] PROVE j = k
    BY <1>1, Elements DEF Once
  <2> DEFINE a == IF j < i THEN j ELSE j + 1
             b == IF k < i THEN k ELSE k + 1
  <2>1. a \in 1..Len(s) /\ b \in 1..Len(s) /\ s[a] = s[b] BY <1>1
  <2>2. a = b BY <1>4, <2>1, Elements DEF Once
  <2> QED BY <1>1, <2>2
<1> QED BY <1>1, <1>2, <1>3, <1>4 DEF t

LEMMA UploadStarts == UploadInit => UploadInv
<1> SUFFICES ASSUME UploadInit PROVE UploadInv
  OBVIOUS
<1>1. UploadTyped BY ElementsOfNone, UploadAssumption DEF UploadInit, UploadTyped
<1>2. /\ Copied = {} /\ ToSet(files) = {} /\ ToSet(form) = {} /\ Once(files)
      /\ \A r \in Try : rest[r] = <<>> /\ Left(r) = {} /\ Once(rest[r])
  BY ElementsOfNone DEF UploadInit, Copied, Left
<1> QED
  BY <1>1, <1>2 DEF UploadInv, Selected, ServerAt, SentBefore, NothingLostNorDoubled, NoPictureLost,
     StoredTwiceOnlyIfSentAgain, UploadInit, Copied

LEMMA UploadAdds ==
    ASSUME UploadInv, NEW assets \in Seq(Picture), ToSet(assets) \cap picked = {}, Once(assets), AddFiles(assets)
    PROVE  UploadInv'
<1> USE UploadAssumption
<1> DEFINE all == files \o assets
           n == IF Len(all) < MaxFiles THEN Len(all) ELSE MaxFiles
<1>1. all \in Seq(Picture) /\ ToSet(all) = ToSet(files) \cup ToSet(assets) /\ Once(all)
  <2>1. ToSet(files) \cap ToSet(assets) = {} BY DEF UploadInv, Selected
  <2> QED BY <2>1, Joined DEF UploadInv, UploadTyped, Selected
<1>2. n \in 0..Len(all) BY <1>1, Elements
<1>3. /\ files' = SubSeq(all, 1, n) /\ beyondTen' = beyondTen \cup ToSet(SubSeq(all, n + 1, Len(all)))
      /\ picked' = picked \cup ToSet(assets)
      /\ UNCHANGED <<takenBack, form, xhr, rest, serving, copies, sent, late, unread, failed, again>>
  BY DEF AddFiles, Server
<1> HIDE DEF all, n
<1>4. /\ files' \in Seq(Picture) /\ Once(files') /\ ToSet(files') \subseteq ToSet(files) \cup ToSet(assets)
      /\ ToSet(files) \cup ToSet(assets) \subseteq ToSet(files') \cup beyondTen'
      /\ beyondTen \subseteq beyondTen'
  BY <1>1, <1>2, <1>3, Cut
<1>5. Copied' = Copied /\ \A r \in Try : Left(r)' = Left(r) BY <1>3 DEF Copied, Left
<1>6. UploadTyped' BY <1>3, <1>4, Elements DEF UploadInv, UploadTyped
<1>7. Selected' BY <1>3, <1>4, <1>5 DEF UploadInv, Selected
<1>8. ServerAt' BY <1>3, <1>5 DEF UploadInv, ServerAt, Left
<1>9. SentBefore' BY <1>3, <1>4, <1>5 DEF UploadInv, SentBefore, Selected
<1>10. NoPictureLost'
  <2>1. picked \ (takenBack \cup beyondTen \cup late \cup unread) \subseteq ToSet(files) \cup Copied
    BY DEF UploadInv, NothingLostNorDoubled, NoPictureLost, Copied
  <2> QED BY <2>1, <1>3, <1>4, <1>5 DEF NoPictureLost, Copied
<1>11. StoredTwiceOnlyIfSentAgain'
  BY <1>3 DEF UploadInv, NothingLostNorDoubled, StoredTwiceOnlyIfSentAgain
<1> QED BY <1>6, <1>7, <1>8, <1>9, <1>10, <1>11 DEF UploadInv, NothingLostNorDoubled

\* The properties, in terms of what is stored.
LEMMA NoneLostIs == NoPictureLost <=> picked \ (takenBack \cup beyondTen \cup late \cup unread) \subseteq ToSet(files) \cup Copied
BY DEF NoPictureLost, Copied

LEMMA UploadPicks == ASSUME UploadInv, PickImages \/ TakePhoto PROVE UploadInv'
<1>1. CASE PickImages
  <2>1. PICK p, q \in Fresh : p < q /\ AddFiles(<<p, q>>) BY <1>1 DEF PickImages
  <2>2. p \in Picture /\ q \in Picture /\ p # q /\ p \notin picked /\ q \notin picked
    BY <2>1, UploadAssumption DEF Fresh
  <2>3. <<p, q>> \in Seq(Picture) /\ ToSet(<<p, q>>) = {p, q} /\ Once(<<p, q>>)
    BY <2>2 DEF ToSet, Once
  <2> QED BY <2>1, <2>2, <2>3, UploadAdds
<1>2. CASE TakePhoto
  <2>1. PICK p \in Fresh : AddFiles(<<p>>) BY <1>2 DEF TakePhoto
  <2>2. p \in Picture /\ p \notin picked BY <2>1 DEF Fresh
  <2>3. <<p>> \in Seq(Picture) /\ ToSet(<<p>>) = {p} /\ Once(<<p>>)
    BY <2>2 DEF ToSet, Once
  <2> QED BY <2>1, <2>2, <2>3, UploadAdds
<1> QED BY <1>1, <1>2

LEMMA UploadTakesBack == ASSUME UploadInv, NEW i \in 1..MaxFiles, TakeBack(i) PROVE UploadInv'
<1>1. /\ i \in DOMAIN files /\ files' = RemoveAt(files, i) /\ takenBack' = takenBack \cup {files[i]}
      /\ UNCHANGED <<form, xhr, rest, serving, copies, sent, picked, beyondTen, late, unread, failed, again>>
  BY DEF TakeBack, Server
<1>2. /\ files' \in Seq(Picture) /\ Once(files') /\ ToSet(files') \subseteq ToSet(files)
      /\ ToSet(files) \subseteq takenBack' \cup ToSet(files')
  BY <1>1, TakenOut DEF UploadInv, UploadTyped, Selected
<1>3. Copied' = Copied /\ \A r \in Try : Left(r)' = Left(r) BY <1>1 DEF Copied, Left
<1>4. UploadTyped' BY <1>1, <1>2 DEF UploadInv, UploadTyped
<1>5. Selected' BY <1>1, <1>2, <1>3 DEF UploadInv, Selected
<1>6. ServerAt' BY <1>1, <1>3 DEF UploadInv, ServerAt, Left
<1>7. SentBefore' BY <1>1, <1>2, <1>3 DEF UploadInv, SentBefore
<1>8. NoPictureLost'
  <2>1. picked \ (takenBack \cup beyondTen \cup late \cup unread) \subseteq ToSet(files) \cup Copied
    BY NoneLostIs DEF UploadInv, NothingLostNorDoubled
  <2>2. (picked \ (takenBack \cup beyondTen \cup late \cup unread) \subseteq ToSet(files) \cup Copied)'
    BY <1>1, <1>2, <1>3, <2>1
  <2> QED BY <1>3, <2>2 DEF NoPictureLost, Copied
<1>9. StoredTwiceOnlyIfSentAgain'
  BY <1>1 DEF UploadInv, NothingLostNorDoubled, StoredTwiceOnlyIfSentAgain
<1> QED BY <1>4, <1>5, <1>6, <1>7, <1>8, <1>9 DEF UploadInv, NothingLostNorDoubled

\* A request goes off: what it sends and is stored already has failed before.
\* The server has one picture less to store of a request.
LEMMA OneLess ==
    ASSUME UploadInv, NEW r \in Try, rest[r] # <<>>, Passed(r)
    PROVE  /\ rest' \in [Try -> Seq(Picture)] /\ NextOf(r) \in Picture
           /\ Left(r) = {NextOf(r)} \cup Left(r)' /\ NextOf(r) \notin Left(r)'
           /\ \A q \in Try \ {r} : rest'[q] = rest[q] /\ Left(q)' = Left(q)
           /\ \A q \in Try : Once(rest'[q])
<1>1. /\ rest[r] \in Seq(Picture) /\ Once(rest[r]) /\ rest \in [Try -> Seq(Picture)]
      /\ \A q \in Try : Once(rest[q])
  BY DEF UploadInv, UploadTyped, Selected
<1>2. /\ Tail(rest[r]) \in Seq(Picture) /\ Head(rest[r]) \in Picture /\ Once(Tail(rest[r]))
      /\ ToSet(rest[r]) = {Head(rest[r])} \cup ToSet(Tail(rest[r])) /\ Head(rest[r]) \notin ToSet(Tail(rest[r]))
  BY <1>1, Shortened
<1>3. /\ rest' \in [Try -> Seq(Picture)] /\ rest'[r] = Tail(rest[r])
      /\ \A q \in Try \ {r} : rest'[q] = rest[q]
  BY <1>1, <1>2 DEF Passed
<1> QED BY <1>1, <1>2, <1>3 DEF Left, NextOf

LEMMA UploadGoesOff == ASSUME UploadInv, Upload PROVE UploadInv'
<1>0. PICK n \in Try : n = sent + 1 /\ n \in 0..MaxSent
  BY UploadAssumption DEF Upload, Send, UploadInv, UploadTyped, Try
<1>1. /\ xhr = "idle" /\ form' = files /\ xhr' = "sent" /\ rest' = [rest EXCEPT ![n] = files]
      /\ sent' = n /\ serving' = serving \cup {n} /\ again' = again \cup (ToSet(files) \cap failed)
      /\ UNCHANGED <<files, copies, picked, takenBack, beyondTen, late, unread, failed>>
  BY <1>0 DEF Upload, Send, IsPending
<1>3. /\ rest' \in [Try -> Seq(Picture)] /\ rest'[n] = files /\ Left(n)' = ToSet(files)
      /\ \A r \in Try \ {n} : rest'[r] = rest[r] /\ Left(r)' = Left(r)
  BY <1>1, <1>0 DEF UploadInv, UploadTyped, Left
<1>4. Copied' = Copied BY <1>1 DEF Copied
<1>5. UploadTyped' BY <1>1, <1>0, <1>3 DEF UploadInv, UploadTyped
<1>6. Selected' BY <1>1, <1>3, <1>4 DEF UploadInv, Selected
<1>7. \A r \in Try : Left(r) \subseteq failed BY <1>1 DEF UploadInv, ServerAt
<1>8. ServerAt'
  <2>1. ASSUME NEW r \in Try
        PROVE  /\ r \notin serving' => rest'[r] = <<>>
               /\ Left(r)' \subseteq IF r = sent' /\ xhr' # "idle" THEN ToSet(form') ELSE failed'
    BY <1>1, <1>3, <1>7 DEF UploadInv, ServerAt
  <2>2. Left(sent)' = ToSet(files)
    BY <1>1, <1>0, <1>3 DEF Left
  <2> QED BY <1>1, <1>0, <2>1, <2>2 DEF ServerAt
<1>9. SentBefore'
  <2>1. ToSet(files) \cap Copied \subseteq failed BY <1>1 DEF UploadInv, SentBefore
  <2>2. ASSUME NEW r \in Try PROVE Left(r)' \cap Copied \subseteq again'
    BY <1>1, <1>3, <2>1 DEF UploadInv, SentBefore
  <2>3. ASSUME NEW r \in Try, NEW q \in Try \ {r} PROVE Left(r)' \cap Left(q)' \subseteq again'
    <3>1. CASE r # n /\ q # n BY <1>1, <1>3, <3>1 DEF UploadInv, SentBefore
    <3>2. CASE r = n \/ q = n BY <1>1, <1>3, <1>7, <3>2
    <3> QED BY <3>1, <3>2
  <2> QED BY <1>1, <1>4, <2>1, <2>2, <2>3 DEF SentBefore
<1>10. NothingLostNorDoubled'
  BY <1>1 DEF UploadInv, NothingLostNorDoubled, NoPictureLost, StoredTwiceOnlyIfSentAgain
<1> QED BY <1>5, <1>6, <1>8, <1>9, <1>10 DEF UploadInv

LEMMA UploadStores == ASSUME UploadInv, NEW r \in Try, StoreNext(r) PROVE UploadInv'
<1> DEFINE p == NextOf(r)
<1>1. /\ r \in serving /\ copies' = [copies EXCEPT ![p] = @ + 1] /\ rest[r] # <<>> /\ Passed(r)
      /\ UNCHANGED <<xhr, serving, unread, files, form, sent, picked, takenBack, beyondTen, late, failed, again>>
  BY DEF StoreNext, Phone
<1>2. /\ rest' \in [Try -> Seq(Picture)] /\ p \in Picture
      /\ Left(r) = {p} \cup Left(r)' /\ p \notin Left(r)'
      /\ \A q \in Try \ {r} : rest'[q] = rest[q] /\ Left(q)' = Left(q)
      /\ \A q \in Try : Once(rest'[q])
  BY <1>1, OneLess
<1> HIDE DEF p
<1>3. copies' \in [Picture -> Nat] /\ Copied' = Copied \cup {p}
  <2>1. copies' \in [Picture -> Nat] /\ copies'[p] > 0 /\ \A q \in Picture \ {p} : copies'[q] = copies[q]
    BY <1>1, <1>2 DEF UploadInv, UploadTyped
  <2> QED BY <1>2, <2>1 DEF Copied
<1>4. UploadTyped' BY <1>1, <1>2, <1>3 DEF UploadInv, UploadTyped
<1>5. IF r = sent /\ xhr # "idle" THEN p \in ToSet(form) ELSE p \in failed
  BY <1>2 DEF UploadInv, ServerAt
<1>6. Selected'
  <2>1. p \in picked BY <1>5 DEF UploadInv, Selected
  <2> QED BY <1>1, <1>2, <1>3, <2>1 DEF UploadInv, Selected
<1>7. ServerAt'
  <2>1. ASSUME NEW q \in Try
        PROVE  /\ q \notin serving' => rest'[q] = <<>>
               /\ Left(q)' \subseteq IF q = sent' /\ xhr' # "idle" THEN ToSet(form') ELSE failed'
    BY <1>1, <1>2 DEF UploadInv, ServerAt
  <2>2. ASSUME xhr \in {"sent", "ok"} PROVE ToSet(form) \subseteq Copied \cup {p} \cup unread \cup Left(sent)'
    <3>1. sent \in Try /\ ToSet(form) \subseteq Copied \cup unread \cup Left(sent)
      BY <2>2 DEF UploadInv, ServerAt
    <3>2. ToSet(rest'[sent]) \cup {p} = Left(sent) \cup {p}
      BY <1>2, <3>1 DEF Left
    <3> QED BY <1>1, <3>1, <3>2 DEF Left
  <2> QED BY <1>1, <1>3, <2>1, <2>2 DEF UploadInv, ServerAt
<1>8. SentBefore'
  <2>1. ASSUME NEW q \in Try, NEW q2 \in Try \ {q}
        PROVE  Left(q)' \cap Copied' \subseteq again' /\ Left(q)' \cap Left(q2)' \subseteq again'
    <3>1. \A q3 \in Try : Left(q3)' \subseteq Left(q3)
      BY <1>2
    <3>2. CASE q = r BY <1>1, <1>2, <1>3, <3>1, <3>2 DEF UploadInv, SentBefore
    <3>3. CASE q # r
      <4>1. p \in Left(r) BY <1>2
      <4>2. p \in Left(q) => p \in again BY <3>3, <4>1 DEF UploadInv, SentBefore
      <4> QED BY <1>1, <1>2, <1>3, <3>1, <3>3, <4>2 DEF UploadInv, SentBefore
    <3> QED BY <3>2, <3>3
  <2>2. ASSUME NEW q \in Try PROVE Left(q)' \cap Copied' \subseteq again'
    <3>1. CASE q = r BY <1>1, <1>2, <1>3, <3>1 DEF UploadInv, SentBefore
    <3>2. CASE q # r BY <2>1, <3>2
    <3> QED BY <3>1, <3>2
  <2>3. \A x \in ToSet(files) \cap Copied' : x \in failed \/ (xhr # "idle" /\ x \in ToSet(form))
    BY <1>3, <1>5 DEF UploadInv, SentBefore
  <2> QED BY <1>1, <2>1, <2>2, <2>3 DEF SentBefore
<1>9. NoPictureLost'
  <2>1. picked \ (takenBack \cup beyondTen \cup late \cup unread) \subseteq ToSet(files) \cup Copied
    BY NoneLostIs DEF UploadInv, NothingLostNorDoubled
  <2>2. (picked \ (takenBack \cup beyondTen \cup late \cup unread) \subseteq ToSet(files) \cup Copied)'
    BY <1>1, <1>3, <2>1
  <2> QED BY <2>2 DEF NoPictureLost, Copied
<1>10. StoredTwiceOnlyIfSentAgain'
  <2> SUFFICES ASSUME NEW q \in Picture, copies'[q] > 1 PROVE q \in again'
    BY DEF StoredTwiceOnlyIfSentAgain
  <2>1. CASE q = p
    <3>1. copies[p] > 0 BY <1>1, <1>2, <2>1 DEF UploadInv, UploadTyped
    <3> QED BY <1>1, <1>2, <2>1, <3>1 DEF UploadInv, SentBefore, Copied
  <2>2. CASE q # p
    BY <1>1, <1>2, <2>2 DEF UploadInv, UploadTyped, NothingLostNorDoubled, StoredTwiceOnlyIfSentAgain
  <2> QED BY <2>1, <2>2
<1> QED BY <1>4, <1>6, <1>7, <1>8, <1>9, <1>10 DEF UploadInv, NothingLostNorDoubled

LEMMA UploadSkips == ASSUME UploadInv, NEW r \in Try, SkipUnreadable(r) PROVE UploadInv'
<1> DEFINE p == NextOf(r)
<1>1. /\ r \in serving /\ unread' = unread \cup {p} /\ rest[r] # <<>> /\ Passed(r)
      /\ UNCHANGED <<xhr, serving, copies, files, form, sent, picked, takenBack, beyondTen, late, failed, again>>
  BY DEF SkipUnreadable, Phone
<1>2. /\ rest' \in [Try -> Seq(Picture)] /\ Left(r) = {p} \cup Left(r)'
      /\ \A q \in Try \ {r} : rest'[q] = rest[q] /\ Left(q)' = Left(q)
      /\ \A q \in Try : Once(rest'[q])
  BY <1>1, OneLess
<1> HIDE DEF p
<1>3. Copied' = Copied BY <1>1 DEF Copied
<1>4. UploadTyped' BY <1>1, <1>2 DEF UploadInv, UploadTyped
<1>5. Selected' BY <1>1, <1>2, <1>3 DEF UploadInv, Selected
<1>6. ServerAt'
  <2>1. ASSUME NEW q \in Try
        PROVE  /\ q \notin serving' => rest'[q] = <<>>
               /\ Left(q)' \subseteq IF q = sent' /\ xhr' # "idle" THEN ToSet(form') ELSE failed'
    BY <1>1, <1>2 DEF UploadInv, ServerAt
  <2>2. ASSUME xhr \in {"sent", "ok"} PROVE ToSet(form) \subseteq Copied \cup unread \cup {p} \cup Left(sent)'
    <3>1. sent \in Try /\ ToSet(form) \subseteq Copied \cup unread \cup Left(sent)
      BY <2>2 DEF UploadInv, ServerAt
    <3>2. ToSet(rest'[sent]) \cup {p} = Left(sent) \cup {p}
      BY <1>2, <3>1 DEF Left
    <3> QED BY <1>1, <3>1, <3>2 DEF Left
  <2> QED BY <1>1, <1>3, <2>1, <2>2 DEF UploadInv, ServerAt
<1>7. SentBefore'
  <2>1. \A q \in Try : Left(q)' \subseteq Left(q) BY <1>2
  <2>2. ASSUME NEW q \in Try
        PROVE  /\ Left(q)' \cap Copied' \subseteq again'
               /\ \A q2 \in Try \ {q} : Left(q)' \cap Left(q2)' \subseteq again'
    BY <1>1, <1>3, <2>1 DEF UploadInv, SentBefore
  <2> QED BY <1>1, <1>3, <2>2 DEF UploadInv, SentBefore
<1>8. NothingLostNorDoubled'
  BY <1>1 DEF UploadInv, NothingLostNorDoubled, NoPictureLost, StoredTwiceOnlyIfSentAgain
<1> QED BY <1>4, <1>5, <1>6, <1>7, <1>8 DEF UploadInv

\* The server is done with a request, or the phone gives it up.
LEMMA UploadAnswered == ASSUME UploadInv, NEW r \in Try, RefuseNext(r) \/ AnswerOk(r) PROVE UploadInv'
<1>1. /\ UNCHANGED <<copies, unread, files, form, sent, picked, takenBack, beyondTen, late, failed, again>>
      /\ r \in serving /\ serving' = serving \ {r}
  BY DEF RefuseNext, AnswerOk, Answer, Phone
<1>2. Copied' = Copied BY <1>1 DEF Copied
<1>3. /\ rest' \in [Try -> Seq(Picture)] /\ rest'[r] = <<>> /\ Left(r)' = {} /\ Once(rest'[r])
      /\ \A q \in Try \ {r} : rest'[q] = rest[q] /\ Left(q)' = Left(q)
  <2>1. rest' = [rest EXCEPT ![r] = <<>>] \/ (rest' = rest /\ rest[r] = <<>>)
    BY DEF RefuseNext, AnswerOk
  <2>2. rest \in [Try -> Seq(Picture)] BY DEF UploadInv, UploadTyped
  <2> QED BY <2>1, <2>2, ElementsOfNone DEF Left
<1>4. xhr' = xhr \/ (r = sent /\ xhr = "sent" /\ xhr' = "error")
          \/ (r = sent /\ xhr = "sent" /\ xhr' = "ok" /\ Left(r) = {})
  BY ElementsOfNone DEF RefuseNext, AnswerOk, Answer, Left
<1>5. UploadTyped' BY <1>1, <1>3, <1>4 DEF UploadInv, UploadTyped
<1>6. Selected' BY <1>1, <1>2, <1>3 DEF UploadInv, Selected
<1>7. xhr' = "idle" <=> xhr = "idle" BY <1>4
<1>8. ServerAt'
  <2>1. ASSUME NEW q \in Try
        PROVE  /\ q \notin serving' => rest'[q] = <<>>
               /\ Left(q)' \subseteq IF q = sent' /\ xhr' # "idle" THEN ToSet(form') ELSE failed'
    BY <1>1, <1>3, <1>7 DEF UploadInv, ServerAt
  <2>2. ASSUME xhr' \in {"sent", "ok"} PROVE ToSet(form) \subseteq Copied \cup unread \cup Left(sent)'
    <3>1. xhr \in {"sent", "ok"} /\ sent \in Try /\ ToSet(form) \subseteq Copied \cup unread \cup Left(sent)
      BY <1>4, <2>2 DEF UploadInv, ServerAt
    <3>2. Left(sent) = ToSet(rest'[sent])
      <4>1. CASE sent = r /\ xhr = "ok"
        BY <1>1, <4>1 DEF UploadInv, ServerAt
      <4>2. CASE sent = r /\ xhr = "sent"
        <5>1. xhr' = "ok"
          BY <1>4, <2>2, <4>2 DEF RefuseNext, AnswerOk, Answer
        <5> QED BY <1>3, <1>4, <4>2, <5>1 DEF Left
      <4>3. CASE sent # r BY <1>3, <3>1, <4>3 DEF Left
      <4> QED BY <3>1, <4>1, <4>2, <4>3
    <3> QED BY <1>1, <3>1, <3>2 DEF Left
  <2>3. /\ xhr' # "idle" => sent \in Try
        /\ xhr' = "sent" => sent \in serving'
        /\ xhr' = "ok" => sent \notin serving'
    <3>1. xhr' = "sent" => r # sent
      BY DEF RefuseNext, AnswerOk, Answer
    <3> QED BY <1>1, <1>4, <1>7, <3>1 DEF UploadInv, ServerAt
  <2> QED BY <1>1, <1>2, <2>1, <2>2, <2>3 DEF ServerAt
<1>9. SentBefore'
  <2>1. \A q \in Try : Left(q)' \subseteq Left(q) BY <1>3
  <2>2. ASSUME NEW q \in Try
        PROVE  /\ Left(q)' \cap Copied' \subseteq again'
               /\ \A q2 \in Try \ {q} : Left(q)' \cap Left(q2)' \subseteq again'
    BY <1>1, <1>2, <2>1 DEF UploadInv, SentBefore
  <2> QED BY <1>1, <1>2, <1>7, <2>2 DEF UploadInv, SentBefore
<1>10. NothingLostNorDoubled'
  BY <1>1 DEF UploadInv, NothingLostNorDoubled, NoPictureLost, StoredTwiceOnlyIfSentAgain
<1> QED BY <1>5, <1>6, <1>8, <1>9, <1>10 DEF UploadInv

LEMMA UploadTimesOut == ASSUME UploadInv, TimeOut PROVE UploadInv'
<1>1. /\ xhr # "idle" /\ xhr' = "error"
      /\ UNCHANGED <<rest, serving, copies, unread, files, form, sent, picked, takenBack, beyondTen, late, failed, again>>
  BY DEF TimeOut, Server, Phone
<1>2. Copied' = Copied /\ \A r \in Try : Left(r)' = Left(r) BY <1>1 DEF Copied, Left
<1>3. UploadTyped' /\ Selected' BY <1>1, <1>2 DEF UploadInv, UploadTyped, Selected
<1>4. ServerAt' BY <1>1, <1>2 DEF UploadInv, ServerAt
<1>5. SentBefore' BY <1>1, <1>2 DEF UploadInv, SentBefore
<1>6. NothingLostNorDoubled'
  BY <1>1 DEF UploadInv, NothingLostNorDoubled, NoPictureLost, StoredTwiceOnlyIfSentAgain
<1> QED BY <1>3, <1>4, <1>5, <1>6 DEF UploadInv

LEMMA UploadSettles == ASSUME UploadInv, OnSuccess \/ OnError PROVE UploadInv'
<1>1. /\ xhr' = "idle" /\ form' = <<>>
      /\ UNCHANGED <<rest, serving, copies, sent, picked, takenBack, beyondTen, unread, again>>
      /\ late \subseteq late' /\ failed \subseteq failed'
  BY DEF OnSuccess, OnError, Server
<1>2. Copied' = Copied /\ ToSet(form') = {} /\ \A r \in Try : Left(r)' = Left(r)
  BY <1>1, ElementsOfNone DEF Copied, Left
<1>3. /\ files' \in {files, <<>>} /\ ToSet(files') \subseteq ToSet(files) /\ Once(files')
  BY ElementsOfNone DEF OnSuccess, OnError, UploadInv, Selected
<1>4. UploadTyped' BY <1>1, <1>3, ElementsOfNone DEF UploadInv, UploadTyped
<1>5. Selected'
  <2>1. failed' \subseteq picked BY DEF OnSuccess, OnError, UploadInv, Selected
  <2> QED BY <1>1, <1>2, <1>3, <2>1 DEF UploadInv, Selected
<1>6. CASE OnSuccess
  <2>1. xhr = "ok" /\ files' = <<>> /\ late' = late \cup (ToSet(files) \ ToSet(form)) /\ failed' = failed
    BY <1>6 DEF OnSuccess
  <2>2. sent \in Try /\ Left(sent) = {} /\ ToSet(form) \subseteq Copied \cup unread
    BY <2>1, ElementsOfNone DEF UploadInv, ServerAt, Left
  <2>3. ToSet(files') = {} BY <2>1, ElementsOfNone
  <2>4. ServerAt' BY <1>1, <1>2, <2>1, <2>2 DEF UploadInv, ServerAt
  <2>7. SentBefore' BY <1>1, <1>2, <2>3 DEF UploadInv, SentBefore
  <2>5. NoPictureLost'
    <3>1. picked \ (takenBack \cup beyondTen \cup late \cup unread) \subseteq ToSet(files) \cup Copied
      BY NoneLostIs DEF UploadInv, NothingLostNorDoubled
    <3>2. picked' \ (takenBack' \cup beyondTen' \cup late' \cup unread') \subseteq Copied'
      BY <1>1, <1>2, <2>1, <2>2, <3>1
    <3> QED BY <3>2 DEF NoPictureLost, Copied
  <2>6. StoredTwiceOnlyIfSentAgain'
    BY <1>1 DEF UploadInv, NothingLostNorDoubled, StoredTwiceOnlyIfSentAgain
  <2> QED BY <1>4, <1>5, <2>4, <2>5, <2>6, <2>7 DEF UploadInv, NothingLostNorDoubled
<1>7. CASE OnError
  <2>1. xhr = "error" /\ files' = files /\ failed' = failed \cup ToSet(form) /\ late' = late
    BY <1>7 DEF OnError
  <2>2. ServerAt' BY <1>1, <1>2, <2>1 DEF UploadInv, ServerAt
  <2>3. SentBefore' BY <1>1, <1>2, <2>1 DEF UploadInv, SentBefore
  <2>4. NothingLostNorDoubled'
    BY <1>1, <2>1 DEF UploadInv, NothingLostNorDoubled, NoPictureLost, StoredTwiceOnlyIfSentAgain
  <2> QED BY <1>4, <1>5, <2>2, <2>3, <2>4 DEF UploadInv
<1> QED BY <1>6, <1>7

LEMMA UploadStays == ASSUME UploadInv, UNCHANGED uploadVars PROVE UploadInv'
BY DEF UploadInv, uploadVars, uploadHistory, UploadTyped, Selected, ServerAt, SentBefore, Copied, Left,
       NothingLostNorDoubled, NoPictureLost, StoredTwiceOnlyIfSentAgain

(* For any pictures and requests, whatever is refused, unreadable, late or *)
(* lost: no picture goes but as the histories name it, and none is stored  *)
(* twice that was not sent again after an error (UploadScreen.tsx:19-70).  *)
THEOREM PicturesKept == UploadSpec => []NothingLostNorDoubled
<1>1. UploadInv /\ [UploadNext]_uploadVars => UploadInv'
  BY UploadPicks, UploadTakesBack, UploadGoesOff, UploadStores, UploadSkips, UploadAnswered, UploadTimesOut,
     UploadSettles, UploadStays DEF UploadNext
<1>2. UploadInv => NothingLostNorDoubled BY DEF UploadInv
<1> QED BY <1>1, <1>2, UploadStarts, PTL DEF UploadSpec

-----------------------------------------------------------------------------
\* A call that is under way, and the page whose form or button waits for it.
SessionCalls == {s \in occasion.slots : sessionCall[s].kind \in {"login", "logout"}}
Submitted == {s \in occasion.slots : sessionCall[s].here /\ sessionCall[s].kind \in {"login", "register"}}
PageOf(c) == IF c.kind = "logout" THEN "profile" ELSE c.kind

CallShape(c) == c = [kind |-> c.kind, who |-> c.who, good |-> c.good, pc |-> c.pc, here |-> c.here]
CallsTyped(ops, slots) ==
    /\ ops = [s \in slots |-> ops[s]]
    /\ \A s \in slots :
          /\ CallShape(ops[s]) /\ ops[s].kind \in {"idle", "login", "register", "logout"}
          /\ ops[s].here \in BOOLEAN
SessionTyped ==
    /\ CallsTyped(sessionCall, occasion.slots)
    /\ busy \in BOOLEAN /\ leaving \in BOOLEAN /\ tagsAsked \in BOOLEAN
    /\ crossed \in BOOLEAN /\ inherited \in BOOLEAN

\* Only the page that is shown waits, for one submission.
FormWaits ==
    /\ \A s \in occasion.slots :
          sessionCall[s].here => sessionCall[s].kind # "idle" /\ path = PageOf(sessionCall[s])
    /\ \A s, t \in Submitted : s = t

\* Unless calls of the session overlapped, there is one, for what was last asked for.
LastAsked ==
    ~crossed =>
        /\ \A s, t \in SessionCalls : s = t
        /\ \A s \in SessionCalls :
              intent = IF sessionCall[s].kind = "login" THEN sessionCall[s].who ELSE NoUser

\* Whose list the profile is waiting for.
ListOf ==
    /\ mine = [data |-> mine.data, flight |-> mine.flight, answer |-> mine.answer]
    /\ mine.flight \in {"none", "asked", "answered"}
    /\ Aged(mine) => mine.answer = asker
    /\ path = "profile" /\ ~inherited /\ ~Resting(mine) => asker = user

AccountInv == SessionTyped /\ AccountsHold /\ FormWaits /\ LastAsked /\ ListOf

LEMMA AccountBegins == AccountInit => AccountInv
<1> SUFFICES ASSUME AccountInit PROVE AccountInv
  OBVIOUS
<1>1. SessionTyped /\ FormWaits
  BY DEF AccountInit, SessionTyped, CallsTyped, FormWaits, CallShape, NoSessionCall, Submitted
<1>2. AccountsHold
  BY DEF AccountInit, AccountsHold, GuardsHold, FrontPageNeedsUser, SessionAsAsked, BusyTellsSubmission,
         OwnListShown, NoSessionCall, Empty, Protected
<1>3. LastAsked /\ ListOf
  BY DEF AccountInit, LastAsked, ListOf, SessionCalls, NoSessionCall, Empty, Aged, Resting
<1> QED
  BY <1>1, <1>2, <1>3 DEF AccountInv

\* Where a route leads is for whoever is there.
LEMMA RouteGuarded ==
    ASSUME NEW p, NEW u
    PROVE  /\ ProtectedRoute(p, u) \in Protected => u # NoUser
           /\ ProtectedRoute(p, u) = "admin" => u = AdminAccount
           /\ ProtectedRoute("gallery", u) \in {"gallery", "login"}
           /\ ProtectedRoute("login", u) = "login"
  BY DEF ProtectedRoute, AdminRoute, Protected

\* A page that is mounted, and a change of the user elsewhere than on the pages
\* that ask in his name.
LEMMA RouteKeepsPages ==
    ASSUME AccountInv, NEW p, NEW u, NEW ops, Route(p, u, ops),
           ~Stays(p, u) \/ path \notin {"profile", "landing"}
    PROVE  GuardsHold' /\ FrontPageNeedsUser' /\ OwnListShown' /\ ListOf'
<1> DEFINE q == ProtectedRoute(p, u)
<1>1. user' = u /\ path' = q
  BY DEF Route
<1>2. GuardsHold'
  BY <1>1, RouteGuarded DEF GuardsHold
<1>3. CASE Stays(p, u)
  <2>1. UNCHANGED fetches /\ path' \notin {"profile", "landing"}
    BY <1>3, <1>1 DEF Stays, Route
  <2> QED
    BY <1>2, <2>1 DEF AccountInv, ListOf, fetches, FrontPageNeedsUser, OwnListShown, Aged
<1>4. CASE ~Stays(p, u)
  <2>1. Mount(q, u)
    BY <1>4 DEF Stays, Route
  <2>2. FrontPageNeedsUser'
    BY <1>1, <2>1 DEF FrontPageNeedsUser, Mount, AccountInv, SessionTyped
  <2>3. CASE q = "profile"
    <3>1. /\ mine' = Observed(mine) /\ asker' = IF Resting(mine) THEN u ELSE asker
          /\ inherited' = (~Resting(mine) /\ asker # u)
      BY <2>1, <2>3 DEF Mount
    <3>2. ListOf
      BY DEF AccountInv
    <3>3. ListOf' /\ ~Resting(mine')
      BY <1>1, <3>1, <3>2 DEF ListOf, Observed, Resting, Aged
    <3> QED
      BY <1>2, <2>2, <3>3 DEF OwnListShown, Resting
  <2>4. CASE q # "profile"
    <3>1. UNCHANGED <<mine, asker, inherited>>
      BY <2>1, <2>4 DEF Mount
    <3> QED
      BY <1>1, <1>2, <2>2, <2>4, <3>1 DEF AccountInv, ListOf, OwnListShown, Aged
  <2> QED
    BY <2>3, <2>4
<1> QED
  BY <1>3, <1>4

\* What an action that stays on its page leaves alone.
LEMMA PageStays ==
    ASSUME AccountInv, UNCHANGED <<user, path>>, UNCHANGED <<mine, asker, inherited>>,
           tagsAsked' = tagsAsked, leaving' \in BOOLEAN, leaving => leaving'
    PROVE  GuardsHold' /\ FrontPageNeedsUser' /\ OwnListShown' /\ ListOf'
  BY DEF AccountInv, AccountsHold, GuardsHold, FrontPageNeedsUser, OwnListShown, ListOf, Aged, Resting

\* The session is as before when no call of it comes or goes.
LEMMA SessionSame ==
    ASSUME AccountInv, occasion' = occasion, UNCHANGED <<user, intent, crossed>>,
           \A s \in occasion.slots :
              \/ sessionCall'[s].kind = sessionCall[s].kind /\ sessionCall'[s].who = sessionCall[s].who
              \/ /\ sessionCall[s].kind \notin {"login", "logout"}
                 /\ sessionCall'[s].kind \notin {"login", "logout"}
    PROVE  LastAsked' /\ SessionAsAsked'
<1>1. /\ SessionCalls' = SessionCalls /\ (UnderWay' <=> UnderWay)
      /\ \A s \in SessionCalls : sessionCall'[s].kind = sessionCall[s].kind /\ sessionCall'[s].who = sessionCall[s].who
  BY DEF SessionCalls, UnderWay
<1> QED
  BY <1>1 DEF AccountInv, AccountsHold, LastAsked, SessionAsAsked

\* The last call of the session ends, and the user is as it has asked.
LEMMA SessionEnds ==
    ASSUME AccountInv, occasion' = occasion, crossed' = crossed,
           NEW s \in SessionCalls,
           \A t \in SessionCalls' : t \in SessionCalls /\ t # s,
           ~crossed => user' = intent'
    PROVE  LastAsked' /\ SessionAsAsked'
<1>1. ~crossed => SessionCalls' = {}
  BY DEF AccountInv, LastAsked
<1> QED
  BY <1>1 DEF LastAsked, SessionAsAsked, UnderWay, SessionCalls

\* A call is sent.
LEMMA SessionAsks ==
    ASSUME AccountInv, occasion' = occasion, user' = user, NEW s \in occasion.slots,
           NEW kind \in {"login", "logout"}, NEW who, NEW good, Ask(s, kind, who, good),
           Want(IF kind = "login" THEN who ELSE NoUser)
    PROVE  LastAsked' /\ SessionAsAsked'
<1>1. /\ sessionCall'[s].kind = kind /\ sessionCall'[s].who = who
      /\ \A t \in occasion.slots : t # s => sessionCall'[t] = sessionCall[t]
  BY DEF AccountInv, SessionTyped, CallsTyped, Ask
<1>2. UnderWay'
  BY <1>1 DEF UnderWay
<1>3. CASE UnderWay
  BY <1>2, <1>3 DEF Want, LastAsked, SessionAsAsked
<1>4. CASE ~UnderWay
  <2>1. SessionCalls' = {s}
    BY <1>1, <1>4 DEF UnderWay, SessionCalls
  <2> QED
    BY <1>1, <1>2, <1>4, <2>1 DEF Want, LastAsked, SessionAsAsked
<1> QED
  BY <1>3, <1>4

\* A page that is left takes its form with it.
LEMMA FormLeft ==
    ASSUME occasion' = occasion, NEW ops,
           sessionCall' = [s \in occasion.slots |-> [ops[s] EXCEPT !.here = FALSE]],
           CallsTyped(ops, occasion.slots),
           FreshForm, leaving' \in BOOLEAN, tagsAsked' \in BOOLEAN, crossed' \in BOOLEAN, inherited' \in BOOLEAN
    PROVE  /\ SessionTyped' /\ FormWaits' /\ BusyTellsSubmission'
           /\ \A s \in occasion.slots : sessionCall'[s].kind = ops[s].kind /\ sessionCall'[s].who = ops[s].who
<1>1. \A s \in occasion.slots :
         /\ CallShape(sessionCall'[s]) /\ ~sessionCall'[s].here /\ sessionCall'[s].here \in BOOLEAN
         /\ sessionCall'[s].kind = ops[s].kind /\ sessionCall'[s].who = ops[s].who
  <2> TAKE s \in occasion.slots
  <2> DEFINE c == ops[s]
  <2>1. c = [kind |-> c.kind, who |-> c.who, good |-> c.good, pc |-> c.pc, here |-> c.here]
    BY DEF CallShape, CallsTyped
  <2>2. sessionCall'[s] = [c EXCEPT !.here = FALSE]
    OBVIOUS
  <2> HIDE DEF c
  <2>3. sessionCall'[s] = [kind |-> c.kind, who |-> c.who, good |-> c.good, pc |-> c.pc, here |-> FALSE]
    BY <2>1, <2>2
  <2> QED
    BY <2>3 DEF c, CallShape
<1> QED
  BY <1>1 DEF SessionTyped, CallsTyped, FormWaits, BusyTellsSubmission, FreshForm, Submitted, CallShape

\* One entry of the calls changes.
Replaced(s, c) == [sessionCall EXCEPT ![s] = c]
LEMMA OneCall ==
    ASSUME SessionTyped, NEW s \in occasion.slots, NEW c,
           CallShape(c), c.kind \in {"idle", "login", "register", "logout"}, c.here \in BOOLEAN,
           NEW ops, ops = Replaced(s, c)
    PROVE  /\ CallsTyped(ops, occasion.slots) /\ ops[s] = c
           /\ \A t \in occasion.slots : t # s => ops[t] = sessionCall[t]
  BY DEF SessionTyped, CallsTyped, Replaced

LEMMA NoneIsCall ==
    /\ CallShape(NoSessionCall) /\ NoSessionCall.kind = "idle" /\ NoSessionCall.here = FALSE
    /\ NoSessionCall.kind \in {"idle", "login", "register", "logout"} /\ NoSessionCall.here \in BOOLEAN
  BY DEF CallShape, NoSessionCall

\* An answer has come: the call is gone, and the page is left or its form waits no more.
LEMMA AnswerSettles ==
    ASSUME AccountInv, occasion' = occasion, NEW s \in occasion.slots, NEW p, NEW u,
           Settled(s, p, u), UNCHANGED <<leaving, crossed>>,
           sessionCall[s].kind = "logout" => ProtectedRoute(p, u) # "profile",
           ~Stays(p, u) \/ path \notin {"profile", "landing"}
    PROVE  /\ SessionTyped' /\ FormWaits' /\ BusyTellsSubmission'
           /\ GuardsHold' /\ FrontPageNeedsUser' /\ OwnListShown' /\ ListOf'
           /\ \A t \in occasion.slots : t # s =>
                 sessionCall'[t].kind = sessionCall[t].kind /\ sessionCall'[t].who = sessionCall[t].who
           /\ sessionCall'[s].kind = "idle" /\ user' = u
<1> DEFINE ops == Without(s)
<1>1. Route(p, u, ops)
  BY DEF Settled
<1>2. GuardsHold' /\ FrontPageNeedsUser' /\ OwnListShown' /\ ListOf'
  BY <1>1, RouteKeepsPages
<1>3. /\ CallsTyped(ops, occasion.slots) /\ ops[s] = NoSessionCall
      /\ \A t \in occasion.slots : t # s => ops[t] = sessionCall[t]
  <2>1. ops = Replaced(s, NoSessionCall) /\ SessionTyped
    BY DEF Without, Replaced, AccountInv
  <2> QED
    BY <2>1, OneCall, NoneIsCall
<1> HIDE DEF ops
<1>4. tagsAsked' \in BOOLEAN /\ inherited' \in BOOLEAN /\ crossed' \in BOOLEAN /\ leaving' \in BOOLEAN
  BY <1>1 DEF Route, Mount, fetches, AccountInv, SessionTyped
<1>5. CASE Stays(p, u)
  <2>1. sessionCall' = ops /\ path' = path /\ user' = u /\ busy' = (busy /\ ~sessionCall[s].here)
    BY <1>1, <1>5 DEF Stays, Route, Settled
  <2>2. sessionCall[s].here => sessionCall[s].kind \in {"login", "register"}
    BY <1>5 DEF Stays, AccountInv, FormWaits, SessionTyped, CallsTyped, PageOf
  <2>3. SessionTyped'
    BY <1>3, <1>4, <2>1 DEF SessionTyped, AccountInv
  <2>4. Submitted' = Submitted \ {s} /\ (sessionCall[s].here => Submitted = {s})
    BY <1>3, <2>1, <2>2, NoneIsCall DEF Submitted, AccountInv, FormWaits
  <2>5. FormWaits'
    <3>1. \A t, r \in Submitted' : t = r
      BY <2>4 DEF FormWaits, AccountInv
    <3>2. \A t \in occasion.slots :
             sessionCall'[t].here => sessionCall'[t].kind # "idle" /\ path' = PageOf(sessionCall'[t])
      BY <1>3, <2>1, NoneIsCall DEF FormWaits, AccountInv, PageOf
    <3> QED
      BY <3>1, <3>2 DEF FormWaits
  <2>6. BusyTellsSubmission'
    <3>1. (busy <=> Submitted # {}) /\ (BusyTellsSubmission' <=> (busy' <=> Submitted' # {}))
      BY DEF BusyTellsSubmission, AccountInv, AccountsHold, Submitted
    <3>2. s \in Submitted => sessionCall[s].here
      BY DEF Submitted
    <3> QED
      BY <2>1, <2>4, <3>1, <3>2
  <2> QED
    BY <1>2, <1>3, <2>1, <2>3, <2>5, <2>6, NoneIsCall
<1>6. CASE ~Stays(p, u)
  <2>1. sessionCall' = [t \in occasion.slots |-> [ops[t] EXCEPT !.here = FALSE]] /\ user' = u /\ FreshForm
    BY <1>1, <1>6 DEF Stays, Route, Settled
  <2>2. /\ SessionTyped' /\ FormWaits' /\ BusyTellsSubmission'
        /\ \A t \in occasion.slots : sessionCall'[t].kind = ops[t].kind /\ sessionCall'[t].who = ops[t].who
    BY <1>3, <1>4, <2>1, FormLeft
  <2> QED
    BY <1>2, <1>3, <2>1, <2>2, NoneIsCall
<1> QED
  BY <1>5, <1>6

\* A page is left, with no answer.
LEMMA LeavesPage ==
    ASSUME AccountInv, occasion' = occasion, NEW p, NEW u, Route(p, u, sessionCall), ~Stays(p, u), FreshForm,
           UNCHANGED leaving, crossed' \in BOOLEAN
    PROVE  /\ SessionTyped' /\ FormWaits' /\ BusyTellsSubmission' /\ user' = u
           /\ GuardsHold' /\ FrontPageNeedsUser' /\ OwnListShown' /\ ListOf'
           /\ \A t \in occasion.slots :
                 sessionCall'[t].kind = sessionCall[t].kind /\ sessionCall'[t].who = sessionCall[t].who
<1>1. /\ sessionCall' = [s \in occasion.slots |-> [sessionCall[s] EXCEPT !.here = FALSE]] /\ user' = u
  BY DEF Route, Stays
<1>2. tagsAsked' \in BOOLEAN /\ inherited' \in BOOLEAN /\ leaving' \in BOOLEAN
  BY DEF Route, Mount, fetches, AccountInv, SessionTyped
<1>3. CallsTyped(sessionCall, occasion.slots)
  BY DEF AccountInv, SessionTyped
<1> QED
  BY <1>1, <1>2, <1>3, FormLeft, RouteKeepsPages


LEMMA FollowLeaves == ASSUME AccountInv, NEW p, Follow(p) PROVE ~Stays(p, user)
<1>1. p \in Links /\ p # path
  BY DEF Follow
<1>2. GuardsHold
  BY DEF AccountInv, AccountsHold
<1> QED
  BY <1>1, <1>2 DEF Links, HomeLinks, Menu, Stays, ProtectedRoute, AdminRoute, GuardsHold, Protected

LEMMA PageLeft ==
    ASSUME AccountInv, occasion' = occasion, NEW p \in occasion.paths, Follow(p) \/ Navigate(p)
    PROVE  AccountInv'
<1>1. Route(p, user, sessionCall) /\ FreshForm /\ ~Stays(p, user) /\ UNCHANGED <<leaving, intent, crossed>>
  BY FollowLeaves DEF Follow, Navigate
<1>2. crossed' \in BOOLEAN
  BY <1>1 DEF AccountInv, SessionTyped
<1>3. /\ SessionTyped' /\ FormWaits' /\ BusyTellsSubmission' /\ user' = user
      /\ GuardsHold' /\ FrontPageNeedsUser' /\ OwnListShown' /\ ListOf'
      /\ \A t \in occasion.slots :
            sessionCall'[t].kind = sessionCall[t].kind /\ sessionCall'[t].who = sessionCall[t].who
  BY <1>1, <1>2, LeavesPage
<1>4. LastAsked' /\ SessionAsAsked'
  BY <1>1, <1>3, SessionSame
<1> QED
  BY <1>3, <1>4 DEF AccountInv, AccountsHold

LEMMA PageLoaded == ASSUME AccountInv, occasion' = occasion, NEW p, PageLoad(p) PROVE AccountInv'
<1>1. /\ path' = ProtectedRoute(p, user) /\ user' = user /\ ~busy' /\ busy' \in BOOLEAN
      /\ sessionCall' = [s \in occasion.slots |-> NoSessionCall]
      /\ tagsAsked' = (path' = "landing" /\ user = NoUser) /\ leaving' = FALSE /\ inherited' = FALSE
      /\ mine' = (IF path' = "profile" THEN Observed(Empty) ELSE Empty)
      /\ asker' = (IF path' = "profile" THEN user ELSE NoUser)
      /\ crossed' = (crossed \/ UnderWay) /\ intent' = IF UnderWay THEN NoUser ELSE intent
  BY DEF PageLoad, FreshForm
<1>2. SessionTyped' /\ FormWaits' /\ BusyTellsSubmission'
  BY <1>1, NoneIsCall DEF SessionTyped, CallsTyped, FormWaits, Submitted, BusyTellsSubmission, AccountInv
<1>3. LastAsked' /\ SessionAsAsked'
  BY <1>1, NoneIsCall DEF LastAsked, SessionAsAsked, SessionCalls, AccountInv, AccountsHold
<1>4. GuardsHold'
  BY <1>1, RouteGuarded DEF GuardsHold
<1>5. FrontPageNeedsUser'
  BY <1>1 DEF FrontPageNeedsUser
<1>6. ListOf' /\ OwnListShown'
  BY <1>1 DEF ListOf, OwnListShown, Observed, Empty, Aged, Resting
<1> QED
  BY <1>2, <1>3, <1>4, <1>5, <1>6 DEF AccountInv, AccountsHold

LEMMA FormTyped == ASSUME AccountInv, occasion' = occasion, NEW f, TypeForm(f) PROVE AccountInv'
<1>1. UNCHANGED <<accounts, user, path, errors, busy, fetches, sessionCall, leaving, intent, crossed>>
  BY DEF TypeForm
<1>2. GuardsHold' /\ FrontPageNeedsUser' /\ OwnListShown' /\ ListOf'
  BY <1>1, PageStays DEF fetches, AccountInv, SessionTyped
<1>3. LastAsked' /\ SessionAsAsked'
  BY <1>1, SessionSame
<1>4. SessionTyped' /\ FormWaits' /\ BusyTellsSubmission'
  BY <1>1 DEF fetches, AccountInv, AccountsHold, SessionTyped, FormWaits, BusyTellsSubmission, Submitted
<1> QED
  BY <1>2, <1>3, <1>4 DEF AccountInv, AccountsHold

\* A call is sent from the page that is shown.
LEMMA CallAsked ==
    ASSUME AccountInv, occasion' = occasion, NEW s \in occasion.slots, NEW kind \in {"login", "register", "logout"},
           NEW who, NEW good, Ask(s, kind, who, good), UNCHANGED <<path, leaving, tagsAsked, inherited>>,
           path = IF kind = "logout" THEN "profile" ELSE kind,
           busy' = (busy \/ kind # "logout"), kind # "logout" => ~busy, crossed' \in BOOLEAN
    PROVE  SessionTyped' /\ FormWaits' /\ BusyTellsSubmission'
<1> DEFINE c == [kind |-> kind, who |-> who, good |-> good, pc |-> "sent", here |-> TRUE]
<1>1. sessionCall' = Replaced(s, c) /\ sessionCall[s] = NoSessionCall
  BY DEF Ask, Replaced
<1>2. CallShape(c) /\ c.kind = kind /\ c.here = TRUE
  BY DEF CallShape
<1> HIDE DEF c
<1>3. /\ CallsTyped(sessionCall', occasion.slots) /\ sessionCall'[s] = c
      /\ \A t \in occasion.slots : t # s => sessionCall'[t] = sessionCall[t]
  <2>1. c.kind \in {"idle", "login", "register", "logout"} /\ c.here \in BOOLEAN
    BY <1>2
  <2>2. SessionTyped
    BY DEF AccountInv
  <2> QED
    BY <1>1, <1>2, <2>1, <2>2, OneCall
<1>4. SessionTyped'
  BY <1>3 DEF SessionTyped, AccountInv
<1>5. /\ busy <=> Submitted # {}
      /\ BusyTellsSubmission' <=> (busy' <=> Submitted' # {})
  BY DEF AccountInv, AccountsHold, BusyTellsSubmission, Submitted
<1>6. s \notin Submitted /\ Submitted' = IF kind = "logout" THEN Submitted ELSE Submitted \cup {s}
  BY <1>1, <1>2, <1>3, NoneIsCall DEF Submitted
<1>7. BusyTellsSubmission'
  BY <1>5, <1>6
<1>8. \A a, b \in Submitted' : a = b
  BY <1>5, <1>6 DEF AccountInv, FormWaits
<1>9. \A t \in occasion.slots :
         sessionCall'[t].here => sessionCall'[t].kind # "idle" /\ path' = PageOf(sessionCall'[t])
  BY <1>2, <1>3 DEF AccountInv, FormWaits, PageOf
<1> QED
  BY <1>4, <1>7, <1>8, <1>9 DEF FormWaits

LEMMA FormSubmitted == ASSUME AccountInv, occasion' = occasion, NEW s \in occasion.slots, SubmitForm(s) PROVE AccountInv'
<1>1. path \in {"login", "register"} /\ ~busy /\ UNCHANGED <<user, path, fetches, leaving>>
  BY DEF SubmitForm
<1>2. GuardsHold' /\ FrontPageNeedsUser' /\ OwnListShown' /\ ListOf'
  BY <1>1, PageStays DEF fetches, AccountInv, SessionTyped
<1>3. CASE Valid
  <2>1. /\ Ask(s, path, fields.who, fields.password = "right") /\ busy' = TRUE
        /\ IF path = "login" THEN Want(fields.who) ELSE UNCHANGED <<intent, crossed>>
    BY <1>3 DEF SubmitForm
  <2>2. crossed' \in BOOLEAN
    BY <2>1 DEF Want, UnderWay, AccountInv, SessionTyped
  <2>3. SessionTyped' /\ FormWaits' /\ BusyTellsSubmission'
    BY <1>1, <2>1, <2>2, CallAsked DEF fetches
  <2>4. CASE path = "login"
    BY <1>1, <1>2, <2>1, <2>3, <2>4, SessionAsks DEF AccountInv, AccountsHold
  <2>5. CASE path = "register"
    <3>1. \A t \in occasion.slots :
             \/ sessionCall'[t].kind = sessionCall[t].kind /\ sessionCall'[t].who = sessionCall[t].who
             \/ sessionCall[t].kind = "idle" /\ sessionCall'[t].kind = "register"
      BY <2>1, <2>5, NoneIsCall DEF Ask, AccountInv, SessionTyped
    <3>2. LastAsked' /\ SessionAsAsked'
      BY <1>1, <2>1, <2>5, <3>1, SessionSame
    <3> QED
      BY <1>2, <2>3, <3>2 DEF AccountInv, AccountsHold
  <2> QED
    BY <1>1, <2>4, <2>5
<1>4. CASE ~Valid
  <2>1. UNCHANGED <<busy, sessionCall, intent, crossed>>
    BY <1>4 DEF SubmitForm
  <2>2. LastAsked' /\ SessionAsAsked'
    BY <1>1, <2>1, SessionSame
  <2>3. SessionTyped' /\ FormWaits' /\ BusyTellsSubmission'
    BY <1>1, <2>1 DEF fetches, AccountInv, AccountsHold, SessionTyped, FormWaits, BusyTellsSubmission, Submitted
  <2> QED
    BY <1>2, <2>2, <2>3 DEF AccountInv, AccountsHold
<1> QED
  BY <1>3, <1>4

LEMMA LogoutAsked == ASSUME AccountInv, occasion' = occasion, NEW s \in occasion.slots, LogoutOnProfile(s) PROVE AccountInv'
<1>1. /\ path = "profile" /\ Ask(s, "logout", user, TRUE) /\ Want(NoUser)
      /\ UNCHANGED <<user, view, fetches, leaving>>
  BY DEF LogoutOnProfile
<1>2. GuardsHold' /\ FrontPageNeedsUser' /\ OwnListShown' /\ ListOf'
  BY <1>1, PageStays DEF fetches, view, AccountInv, SessionTyped
<1>3. crossed' \in BOOLEAN
  BY <1>1 DEF Want, UnderWay
<1>4. SessionTyped' /\ FormWaits' /\ BusyTellsSubmission'
  BY <1>1, <1>3, CallAsked DEF fetches, view, AccountInv, SessionTyped
<1>5. LastAsked' /\ SessionAsAsked'
  BY <1>1, SessionAsks
<1> QED
  BY <1>2, <1>4, <1>5 DEF AccountInv, AccountsHold


LEMMA AdminLeaves == ASSUME AccountInv, occasion' = occasion, HandleLogout PROVE AccountInv'
<1>1. /\ path = "admin" /\ Route("login", NoUser, sessionCall) /\ FreshForm /\ Want(NoUser) /\ UNCHANGED leaving
  BY DEF HandleLogout
<1>2. ~Stays("login", NoUser) /\ crossed' \in BOOLEAN
  BY <1>1, RouteGuarded DEF Stays, Want, UnderWay
<1>3. /\ SessionTyped' /\ FormWaits' /\ BusyTellsSubmission' /\ user' = NoUser
      /\ GuardsHold' /\ FrontPageNeedsUser' /\ OwnListShown' /\ ListOf'
      /\ \A t \in occasion.slots :
            sessionCall'[t].kind = sessionCall[t].kind /\ sessionCall'[t].who = sessionCall[t].who
  BY <1>1, <1>2, LeavesPage
<1>4. UnderWay' <=> UnderWay
  BY <1>3 DEF UnderWay
<1>5. crossed' = UnderWay /\ intent' = NoUser
  BY <1>1 DEF Want
<1>6. LastAsked' /\ SessionAsAsked'
  BY <1>3, <1>4, <1>5 DEF LastAsked, SessionAsAsked, SessionCalls, UnderWay
<1> QED
  BY <1>3, <1>6 DEF AccountInv, AccountsHold

LEMMA ServerWorks ==
    ASSUME AccountInv, occasion' = occasion, NEW s \in occasion.slots, Work(s) \/ NoAnswer(s)
    PROVE  AccountInv'
<1>1. PICK pc : sessionCall' = [sessionCall EXCEPT ![s].pc = pc]
  BY DEF Work, NoAnswer
<1>2. UNCHANGED <<user, view, fetches, leaving, intent, crossed>>
  BY DEF Work, NoAnswer
<1> DEFINE c == [sessionCall[s] EXCEPT !.pc = pc]
<1>3. sessionCall' = Replaced(s, c)
  BY <1>1 DEF Replaced
<1>4. /\ CallShape(c) /\ c.kind = sessionCall[s].kind /\ c.who = sessionCall[s].who
      /\ c.here = sessionCall[s].here
  <2> DEFINE d == sessionCall[s]
  <2>1. d = [kind |-> d.kind, who |-> d.who, good |-> d.good, pc |-> d.pc, here |-> d.here]
    BY DEF AccountInv, SessionTyped, CallsTyped, CallShape
  <2> HIDE DEF d
  <2>2. [d EXCEPT !.pc = pc] = [kind |-> d.kind, who |-> d.who, good |-> d.good, pc |-> pc, here |-> d.here]
    BY <2>1
  <2> QED
    BY <2>2 DEF d, CallShape
<1> HIDE DEF c
<1>5. /\ CallsTyped(sessionCall', occasion.slots) /\ sessionCall'[s] = c
      /\ \A t \in occasion.slots : t # s => sessionCall'[t] = sessionCall[t]
  <2>1. c.kind \in {"idle", "login", "register", "logout"} /\ c.here \in BOOLEAN /\ SessionTyped
    BY <1>4 DEF AccountInv, SessionTyped, CallsTyped
  <2> QED
    BY <1>3, <1>4, <2>1, OneCall
<1>6. \A t \in occasion.slots :
         /\ sessionCall'[t].kind = sessionCall[t].kind /\ sessionCall'[t].who = sessionCall[t].who
         /\ sessionCall'[t].here = sessionCall[t].here
  BY <1>4, <1>5
<1>7. SessionTyped'
  BY <1>2, <1>5 DEF fetches, view, SessionTyped, AccountInv
<1>8. FormWaits' /\ BusyTellsSubmission'
  <2>1. Submitted' = Submitted /\ path' = path /\ busy' = busy
    BY <1>2, <1>6 DEF Submitted, view
  <2> QED
    BY <1>6, <2>1 DEF FormWaits, PageOf, BusyTellsSubmission, AccountInv, AccountsHold, Submitted
<1>9. LastAsked' /\ SessionAsAsked'
  BY <1>2, <1>6, SessionSame
<1>10. GuardsHold' /\ FrontPageNeedsUser' /\ OwnListShown' /\ ListOf'
  BY <1>2, PageStays DEF fetches, view, AccountInv, SessionTyped
<1> QED
  BY <1>7, <1>8, <1>9, <1>10 DEF AccountInv, AccountsHold

LEMMA SessionAnswered ==
    ASSUME AccountInv, occasion' = occasion, NEW s \in occasion.slots,
           HasLoggedIn(s) \/ LogoutSettled(s)
    PROVE  AccountInv'
<1> DEFINE p == IF sessionCall[s].kind = "login" THEN "gallery" ELSE "login"
           u == IF sessionCall[s].kind = "login" THEN sessionCall[s].who ELSE NoUser
<1>1. Settled(s, p, u) /\ UNCHANGED <<leaving, intent, crossed>> /\ sessionCall[s].kind \in {"login", "logout"}
  BY DEF HasLoggedIn, LogoutSettled
<1>2. ProtectedRoute(p, u) \in {"gallery", "login"}
  BY RouteGuarded
<1>3. ~Stays(p, u) \/ path \notin {"profile", "landing"}
  BY <1>2 DEF Stays
<1> HIDE DEF p
<1>4. /\ SessionTyped' /\ FormWaits' /\ BusyTellsSubmission'
      /\ GuardsHold' /\ FrontPageNeedsUser' /\ OwnListShown' /\ ListOf'
      /\ \A t \in occasion.slots : t # s =>
            sessionCall'[t].kind = sessionCall[t].kind /\ sessionCall'[t].who = sessionCall[t].who
      /\ sessionCall'[s].kind = "idle" /\ user' = u
  BY <1>1, <1>2, <1>3, AnswerSettles
<1>5. s \in SessionCalls /\ \A t \in SessionCalls' : t \in SessionCalls /\ t # s
  BY <1>1, <1>4 DEF SessionCalls
<1>6. ~crossed => user' = intent'
  BY <1>1, <1>4, <1>5 DEF AccountInv, LastAsked
<1>7. LastAsked' /\ SessionAsAsked'
  BY <1>1, <1>5, <1>6, SessionEnds
<1> QED
  BY <1>4, <1>7 DEF AccountInv, AccountsHold

LEMMA Registered ==
    ASSUME AccountInv, occasion' = occasion, NEW s \in occasion.slots, HasRegistered(s)
    PROVE  AccountInv'
<1>1. Settled(s, "login", user) /\ UNCHANGED <<leaving, intent, crossed>> /\ sessionCall[s].kind = "register"
  BY DEF HasRegistered
<1>2. ProtectedRoute("login", user) = "login"
  BY RouteGuarded
<1>3. ~Stays("login", user) \/ path \notin {"profile", "landing"}
  BY <1>2 DEF Stays
<1>4. /\ SessionTyped' /\ FormWaits' /\ BusyTellsSubmission'
      /\ GuardsHold' /\ FrontPageNeedsUser' /\ OwnListShown' /\ ListOf'
      /\ \A t \in occasion.slots : t # s =>
            sessionCall'[t].kind = sessionCall[t].kind /\ sessionCall'[t].who = sessionCall[t].who
      /\ sessionCall'[s].kind = "idle" /\ user' = user
  BY <1>1, <1>2, <1>3, AnswerSettles
<1>5. LastAsked' /\ SessionAsAsked'
  BY <1>1, <1>4, SessionSame
<1> QED
  BY <1>4, <1>5 DEF AccountInv, AccountsHold

LEMMA RejectedShown ==
    ASSUME AccountInv, occasion' = occasion, NEW s \in occasion.slots, Rejected(s)
    PROVE  AccountInv'
<1>1. /\ sessionCall[s].kind \in {"login", "register"} /\ sessionCall' = Without(s)
      /\ busy' = (busy /\ ~sessionCall[s].here) /\ leaving' \in BOOLEAN /\ (leaving => leaving')
      /\ intent' = (IF sessionCall[s].kind = "login" /\ ~crossed THEN user ELSE intent)
      /\ UNCHANGED <<user, path, fetches, crossed>>
  BY DEF Rejected, AccountInv, SessionTyped
<1>2. /\ CallsTyped(sessionCall', occasion.slots) /\ sessionCall'[s] = NoSessionCall
      /\ \A t \in occasion.slots : t # s => sessionCall'[t] = sessionCall[t]
  <2>1. sessionCall' = Replaced(s, NoSessionCall) /\ SessionTyped
    BY <1>1 DEF Without, Replaced, AccountInv
  <2> QED
    BY <2>1, OneCall, NoneIsCall
<1>3. SessionTyped'
  BY <1>1, <1>2 DEF fetches, SessionTyped, AccountInv
<1>4. Submitted' = Submitted \ {s} /\ (sessionCall[s].here => Submitted = {s})
  BY <1>1, <1>2, NoneIsCall DEF Submitted, AccountInv, FormWaits
<1>5. FormWaits'
  <2>1. \A t, r \in Submitted' : t = r
    BY <1>4 DEF FormWaits, AccountInv
  <2>2. \A t \in occasion.slots :
           sessionCall'[t].here => sessionCall'[t].kind # "idle" /\ path' = PageOf(sessionCall'[t])
    BY <1>1, <1>2, NoneIsCall DEF FormWaits, AccountInv, PageOf
  <2> QED
    BY <2>1, <2>2 DEF FormWaits
<1>6. BusyTellsSubmission'
  <2>1. (busy <=> Submitted # {}) /\ (BusyTellsSubmission' <=> (busy' <=> Submitted' # {}))
    BY DEF BusyTellsSubmission, AccountInv, AccountsHold, Submitted
  <2>2. s \in Submitted => sessionCall[s].here
    BY DEF Submitted
  <2> QED
    BY <1>1, <1>4, <2>1, <2>2
<1>7. GuardsHold' /\ FrontPageNeedsUser' /\ OwnListShown' /\ ListOf'
  BY <1>1, PageStays DEF fetches
<1>8. CASE sessionCall[s].kind = "login"
  <2>1. s \in SessionCalls /\ \A t \in SessionCalls' : t \in SessionCalls /\ t # s
    BY <1>2, <1>8, NoneIsCall DEF SessionCalls
  <2>2. ~crossed => user' = intent'
    BY <1>1, <1>8
  <2>3. LastAsked' /\ SessionAsAsked'
    BY <1>1, <2>1, <2>2, SessionEnds
  <2> QED
    BY <1>3, <1>5, <1>6, <1>7, <2>3 DEF AccountInv, AccountsHold
<1>9. CASE sessionCall[s].kind = "register"
  <2>1. LastAsked' /\ SessionAsAsked'
    BY <1>1, <1>2, <1>9, NoneIsCall, SessionSame
  <2> QED
    BY <1>3, <1>5, <1>6, <1>7, <2>1 DEF AccountInv, AccountsHold
<1> QED
  BY <1>1, <1>8, <1>9

\* The fetches of the list and of the tags leave session and forms alone.
LEMMA Fetched ==
    ASSUME AccountInv, occasion' = occasion, ServeMine \/ LandMine \/ FetchFails \/ RefuseTags
    PROVE  AccountInv'
<1>1. UNCHANGED <<user, view, sessionCall, intent, crossed>>
  BY DEF ServeMine, LandMine, FetchFails, RefuseTags
<1>2. leaving' \in BOOLEAN /\ tagsAsked' \in BOOLEAN /\ inherited' \in BOOLEAN
  BY DEF ServeMine, LandMine, FetchFails, RefuseTags, AccountInv, SessionTyped
<1>3. SessionTyped' /\ FormWaits' /\ BusyTellsSubmission'
  BY <1>1, <1>2 DEF view, AccountInv, AccountsHold, SessionTyped, FormWaits, BusyTellsSubmission, Submitted
<1>4. LastAsked' /\ SessionAsAsked'
  BY <1>1, SessionSame
<1>5. GuardsHold'
  BY <1>1 DEF view, AccountInv, AccountsHold, GuardsHold
<1>6. FrontPageNeedsUser'
  BY <1>1 DEF ServeMine, LandMine, FetchFails, RefuseTags, view, AccountInv, AccountsHold, FrontPageNeedsUser
<1> SUFFICES OwnListShown' /\ ListOf'
  BY <1>3, <1>4, <1>5, <1>6 DEF AccountInv, AccountsHold
<1> USE DEF AccountInv, AccountsHold, ListOf, OwnListShown, Resting, Aged, view
<1>7. CASE ServeMine
  BY <1>1, <1>7 DEF ServeMine, Served
<1>8. CASE LandMine
  BY <1>1, <1>8 DEF LandMine, Landed
<1>9. CASE FetchFails
  BY <1>1, <1>9 DEF FetchFails, Failed
<1>10. CASE RefuseTags
  BY <1>1, <1>10 DEF RefuseTags
<1> QED
  BY <1>7, <1>8, <1>9, <1>10

LEMMA AccountsStill == ASSUME AccountInv, UNCHANGED accountVars PROVE AccountInv'
<1>1. UNCHANGED <<occasion, user, view, fetches, sessionCall, leaving, intent, crossed>>
  BY DEF accountVars
<1>2. SessionTyped' /\ FormWaits' /\ BusyTellsSubmission'
  BY <1>1 DEF view, fetches, AccountInv, AccountsHold, SessionTyped, FormWaits, BusyTellsSubmission, Submitted
<1>3. LastAsked' /\ SessionAsAsked'
  BY <1>1, SessionSame
<1>4. GuardsHold' /\ FrontPageNeedsUser' /\ OwnListShown' /\ ListOf'
  BY <1>1, PageStays DEF view, fetches, AccountInv, SessionTyped
<1> QED
  BY <1>2, <1>3, <1>4 DEF AccountInv, AccountsHold

(* For any accounts, forms, late answers and page loads: guarded pages and *)
(* the front page have their user, the session is what was asked for last, *)
(* the form waits while it should, and the profile lists its own user's    *)
(* images (AuthPage.tsx:144-160, ProfilePage.tsx:111-129, AdminRoute.tsx,  *)
(* ProtectedRoute.tsx).                                                    *)
THEOREM AccountsAlwaysHold == AccountSpec => []AccountsHold
<1>1. AccountInv /\ [AccountNext]_accountVars => AccountInv'
  <2> SUFFICES ASSUME AccountInv, AccountNext PROVE AccountInv'
    BY AccountsStill
  <2>1. occasion' = occasion
    BY DEF AccountNext
  <2>2. CASE \E p \in occasion.paths : Follow(p) \/ Navigate(p)
    BY <2>1, <2>2, PageLeft
  <2>3. CASE ReloadPage \/ GoHome
    BY <2>1, <2>3, PageLoaded DEF ReloadPage, GoHome
  <2>4. CASE HandleLogout
    BY <2>1, <2>4, AdminLeaves
  <2>5. CASE \E f \in Filled : TypeForm(f)
    BY <2>1, <2>5, FormTyped
  <2>6. CASE \E s \in occasion.slots :
                \/ SubmitForm(s) \/ LogoutOnProfile(s) \/ Work(s) \/ NoAnswer(s)
                \/ HasLoggedIn(s) \/ HasRegistered(s) \/ Rejected(s) \/ LogoutSettled(s)
    BY <2>1, <2>6, FormSubmitted, LogoutAsked, ServerWorks, SessionAnswered, Registered, RejectedShown
  <2>7. CASE ServeMine \/ LandMine \/ FetchFails \/ RefuseTags
    BY <2>1, <2>7, Fetched
  <2> QED
    BY <2>2, <2>3, <2>4, <2>5, <2>6, <2>7 DEF AccountNext
<1>2. AccountInv => AccountsHold
  BY DEF AccountInv
<1> QED
  BY <1>1, <1>2, AccountBegins, PTL DEF AccountSpec

-----------------------------------------------------------------------------
\* What AsyncStorage will hold once it has done all writes.
Written == IF writes = <<>> THEN disk ELSE Last(writes)
PhoneSessions == {s \in Line : phoneCall[s].kind \in {"login", "logout"}}

PhoneTyped ==
    /\ isLoading \in BOOLEAN /\ timer \in BOOLEAN /\ wentBack \in BOOLEAN
    /\ overlapped \in BOOLEAN /\ forgotten \in BOOLEAN
    /\ stack \in Seq(Screen) /\ writes \in Seq(Who) /\ disk \in Who /\ holder \in Who
    /\ phoneCall = [s \in Line |-> phoneCall[s]]
    /\ \A s \in Line :
          /\ phoneCall[s].kind \in {"idle", "login", "register", "logout"}
          /\ phoneCall[s].kind = "login" => phoneCall[s].who \in Account

\* Before the first rendering nothing is asked for.
Starting ==
    /\ isLoading <=> stack = <<>>
    /\ isLoading => ~timer /\ \A s \in Line : phoneCall[s].kind = "idle"

\* Unless calls of the session overlapped, there is one, for what was last asked for;
\* what is, or will be, stored is the session, and survives the process.
AskedLast ==
    /\ ~overlapped =>
        /\ \A s, t \in PhoneSessions : s = t
        /\ \A s \in PhoneSessions :
              wanted = IF phoneCall[s].kind = "login" THEN phoneCall[s].who ELSE NoUser
    /\ ~isLoading /\ ~forgotten => Written = holder
    /\ ~PhoneCalls /\ ~overlapped /\ ~forgotten => Written = wanted

ShellInv == PhoneTyped /\ Starting /\ AskedLast /\ TabsNeedLogin

LEMMA ShellInvHolds == ShellInv => ShellHolds
  BY DEF ShellInv, ShellHolds, AskedLast, SessionKept

LEMMA LastOf ==
    ASSUME NEW S, NEW w \in Seq(S), w # <<>>
    PROVE  /\ Last(w) = w[Len(w)] /\ Last(w) \in S /\ Len(w) \in Nat \ {0} /\ Last(w) \in ToSet(w)
  BY DEF Last, ToSet

LEMMA AppendedLast ==
    ASSUME NEW S, NEW w \in Seq(S), NEW x \in S
    PROVE  Append(w, x) \in Seq(S) /\ Append(w, x) # <<>> /\ Last(Append(w, x)) = x
  BY DEF Last

LEMMA EmptyLength == ASSUME NEW S, NEW w \in Seq(S) PROVE Len(w) = 0 <=> w = <<>>
  OBVIOUS

LEMMA TailLast ==
    ASSUME NEW S, NEW w \in Seq(S), w # <<>>
    PROVE  /\ Tail(w) \in Seq(S) /\ Head(w) \in S
           /\ Last(w) = IF Tail(w) = <<>> THEN Head(w) ELSE Last(Tail(w))
<1>1. /\ Tail(w) \in Seq(S) /\ Head(w) = w[1] /\ w[1] \in S /\ Len(w) \in Nat \ {0}
      /\ Len(Tail(w)) = Len(w) - 1 /\ \A i \in 1..(Len(w) - 1) : Tail(w)[i] = w[i + 1]
  OBVIOUS
<1>2. CASE Len(w) = 1
  <2>1. Len(Tail(w)) = 0
    BY <1>1, <1>2
  <2>2. Tail(w) = <<>>
    BY <1>1, <2>1, EmptyLength
  <2> QED
    BY <1>1, <1>2, <2>2 DEF Last
<1>3. CASE Len(w) # 1
  <2>1. Len(w) - 1 \in 1..(Len(w) - 1) /\ (Len(w) - 1) + 1 = Len(w) /\ Len(Tail(w)) # 0
    BY <1>1, <1>3
  <2>2. Tail(w) # <<>>
    BY <1>1, <2>1, EmptyLength
  <2> QED
    BY <1>1, <2>1, <2>2 DEF Last
<1> QED
  BY <1>2, <1>3

LEMMA WholeSeq == ASSUME NEW S, NEW w \in Seq(S) PROVE SubSeq(w, 1, Len(w)) = w
  OBVIOUS

LEMMA Navigated ==
    ASSUME NEW st \in Seq(Screen), st # <<>>, NEW screen \in Screen
    PROVE  LET r == NavigateTo(st, screen) IN r \in Seq(Screen) /\ r # <<>> /\ Last(r) = screen
  BY AppendedLast DEF NavigateTo

LEMMA Guarded ==
    ASSUME NEW st \in Seq(Screen), st # <<>>, NEW before, NEW u
    PROVE  LET r == GuardTabs(st, before, u)
           IN  r \in Seq(Screen) /\ r # <<>> /\ (u = NoUser => Last(r) # "MainTabs")
<1>1. "Landing" \in Screen
  BY DEF Screen
<1>2. Last(st) \in ToSet(st)
  BY LastOf
<1> QED
  BY <1>1, <1>2, Navigated DEF GuardTabs

LEMMA ShellBegins == ShellInit => ShellInv
<1> SUFFICES ASSUME ShellInit PROVE ShellInv
  OBVIOUS
<1>1. PhoneTyped /\ Starting
  <2>1. /\ phoneCall = [s \in Line |-> phoneCall[s]]
        /\ \A s \in Line : phoneCall[s].kind = "idle"
    BY DEF ShellInit, NoPhoneCall
  <2>2. <<>> \in Seq(Screen) /\ <<>> \in Seq(Who) /\ NoUser \in Who
    BY DEF Who
  <2> QED
    BY <2>1, <2>2 DEF ShellInit, PhoneTyped, Starting
<1>2. AskedLast /\ TabsNeedLogin
  BY DEF ShellInit, AskedLast, TabsNeedLogin, Top, PhoneSessions, PhoneCalls, NoPhoneCall, Written
<1> QED
  BY <1>1, <1>2 DEF ShellInv

\* No call of the session comes or goes, and what will be stored stays.
LEMMA SessionUntouched ==
    ASSUME ShellInv, UNCHANGED <<wanted, overlapped, forgotten>>, Written' = Written,
           ~isLoading' => holder' = IF isLoading THEN Written ELSE holder,
           \A s \in Line :
              \/ phoneCall'[s].kind = phoneCall[s].kind /\ phoneCall'[s].who = phoneCall[s].who
              \/ /\ phoneCall[s].kind \notin {"login", "logout"}
                 /\ phoneCall'[s].kind \notin {"login", "logout"}
    PROVE  AskedLast'
<1>1. /\ PhoneSessions' = PhoneSessions /\ (PhoneCalls' <=> PhoneCalls)
      /\ \A s \in PhoneSessions : phoneCall'[s].kind = phoneCall[s].kind /\ phoneCall'[s].who = phoneCall[s].who
  BY DEF PhoneSessions, PhoneCalls
<1> QED
  BY <1>1 DEF ShellInv, AskedLast, PhoneTyped

\* The screens change.
LEMMA ScreensKeep ==
    ASSUME ShellInv, stack # <<>>, UNCHANGED <<isLoading, holder, writes, disk, phoneCall, overlapped, forgotten, wanted>>,
           timer' \in BOOLEAN, wentBack' \in BOOLEAN, stack' \in Seq(Screen), stack' # <<>>,
           Last(stack') = "MainTabs" => holder # NoUser \/ wentBack'
    PROVE  ShellInv'
<1>1. AskedLast'
  BY SessionUntouched DEF Written
<1> QED
  BY <1>1 DEF ShellInv, PhoneTyped, Starting, TabsNeedLogin, Top

LEMMA ShellHydrates == ASSUME ShellInv, Hydrate PROVE ShellInv'
<1>1. /\ isLoading /\ writes = <<>> /\ isLoading' = FALSE /\ holder' = disk /\ stack' = <<"Landing">>
      /\ UNCHANGED <<disk, writes, timer, phoneCall, wanted, overlapped, forgotten, wentBack>>
  BY DEF Hydrate
<1>2. stack' \in Seq(Screen) /\ stack' # <<>> /\ Last(stack') = "Landing"
  BY <1>1 DEF Screen, Last
<1>3. AskedLast'
  BY <1>1, SessionUntouched DEF Written
<1> QED
  BY <1>1, <1>2, <1>3 DEF ShellInv, PhoneTyped, Starting, TabsNeedLogin, Top

LEMMA ShellKilled == ASSUME ShellInv, Kill PROVE ShellInv'
<1>1. /\ isLoading' = TRUE /\ holder' = NoUser /\ stack' = <<>> /\ timer' = FALSE
      /\ phoneCall' = [s \in Line |-> NoPhoneCall]
      /\ overlapped' = (overlapped \/ \E s \in Line : phoneCall[s].kind # "idle")
      /\ wentBack' = FALSE /\ UNCHANGED <<disk, wanted>> /\ ~isLoading
  BY DEF Kill
<1>2. PICK n \in 0..Len(writes) : writes' = SubSeq(writes, 1, n) /\ forgotten' = (forgotten \/ n < Len(writes))
  BY DEF Kill
<1>3. writes \in Seq(Who) /\ Len(writes) \in Nat
  BY DEF ShellInv, PhoneTyped
<1>4. PhoneTyped' /\ Starting'
  <2>1. writes' \in Seq(Who) /\ forgotten' \in BOOLEAN
    BY <1>2, <1>3
  <2>2. /\ phoneCall' = [s \in Line |-> phoneCall'[s]]
        /\ \A s \in Line : phoneCall'[s].kind = "idle"
    BY <1>1 DEF NoPhoneCall
  <2>3. <<>> \in Seq(Screen) /\ NoUser \in Who
    BY DEF Who
  <2>4. overlapped' \in BOOLEAN /\ disk' \in Who
    BY <1>1 DEF ShellInv, PhoneTyped
  <2> QED
    BY <1>1, <2>1, <2>2, <2>3, <2>4 DEF PhoneTyped, Starting
<1>5. ~PhoneCalls' /\ PhoneSessions' = {}
  BY <1>1 DEF PhoneCalls, PhoneSessions, NoPhoneCall
<1>6. ~overlapped' => ~PhoneCalls /\ ~overlapped
  BY <1>1 DEF PhoneCalls
<1>7. ~forgotten' => ~forgotten /\ Written' = Written
  <2>1. SUFFICES ASSUME ~forgotten' PROVE ~forgotten /\ writes' = writes
    BY <1>1 DEF Written
  <2>2. ~forgotten /\ ~(n < Len(writes))
    BY <1>2, <2>1
  <2>3. n = Len(writes)
    BY <1>3, <2>2
  <2> QED
    BY <1>2, <1>3, <2>2, <2>3, WholeSeq
<1>8. AskedLast'
  BY <1>1, <1>5, <1>6, <1>7 DEF ShellInv, AskedLast
<1> QED
  BY <1>1, <1>4, <1>8 DEF ShellInv, TabsNeedLogin, Top

LEMMA ShellPersists == ASSUME ShellInv, Persist PROVE ShellInv'
<1>1. /\ writes # <<>> /\ disk' = Head(writes) /\ writes' = Tail(writes)
      /\ UNCHANGED <<isLoading, stack, timer, wentBack, holder, phoneCall, wanted, overlapped, forgotten>>
  BY DEF Persist, app
<1>2. writes' \in Seq(Who) /\ disk' \in Who /\ Written' = Written
  BY <1>1, TailLast DEF ShellInv, PhoneTyped, Written
<1>3. AskedLast'
  BY <1>1, <1>2, SessionUntouched DEF ShellInv, AskedLast
<1> QED
  BY <1>1, <1>2, <1>3 DEF ShellInv, PhoneTyped, Starting, TabsNeedLogin, Top

\* A call ends, or is sent.
LEMMA Ended ==
    ASSUME ShellInv, NEW s \in Line, Done(s)
    PROVE  /\ phoneCall' = [t \in Line |-> phoneCall'[t]] /\ phoneCall'[s].kind = "idle"
           /\ \A t \in Line : t # s => phoneCall'[t] = phoneCall[t]
  BY DEF ShellInv, PhoneTyped, Done, NoPhoneCall

LEMMA Dialled ==
    ASSUME ShellInv, NEW s \in Line, NEW kind, NEW u, Dial(s, kind, u)
    PROVE  /\ phoneCall' = [t \in Line |-> phoneCall'[t]]
           /\ phoneCall[s].kind = "idle" /\ phoneCall'[s].kind = kind /\ phoneCall'[s].who = u
           /\ \A t \in Line : t # s => phoneCall'[t] = phoneCall[t]
           /\ UNCHANGED <<isLoading, stack, timer, wentBack, holder, disk, writes, forgotten>>
  BY DEF ShellInv, PhoneTyped, Dial, NoPhoneCall, app, store

LEMMA ShellAsks ==
    ASSUME ShellInv, NEW s \in Line, NEW kind \in {"login", "logout"}, NEW u,
           kind = "login" => u \in Account, Dial(s, kind, u), ~isLoading,
           PhoneWants(IF kind = "login" THEN u ELSE NoUser)
    PROVE  ShellInv'
<1>1. /\ phoneCall' = [t \in Line |-> phoneCall'[t]]
      /\ phoneCall'[s].kind = kind /\ phoneCall'[s].who = u
      /\ \A t \in Line : t # s => phoneCall'[t] = phoneCall[t]
      /\ UNCHANGED <<isLoading, stack, timer, wentBack, holder, disk, writes, forgotten>>
  BY Dialled
<1>2. PhoneCalls' /\ s \in PhoneSessions'
  BY <1>1 DEF PhoneCalls, PhoneSessions
<1>3. CASE PhoneCalls
  BY <1>1, <1>2, <1>3 DEF PhoneWants, ShellInv, AskedLast, PhoneTyped, Starting, TabsNeedLogin, Top, Written
<1>4. CASE ~PhoneCalls
  <2>1. PhoneSessions' = {s}
    BY <1>1, <1>2, <1>4 DEF PhoneCalls, PhoneSessions
  <2>2. overlapped' = FALSE /\ wanted' = IF kind = "login" THEN u ELSE NoUser
    BY <1>4 DEF PhoneWants
  <2>3. AskedLast'
    BY <1>1, <1>2, <2>1, <2>2 DEF ShellInv, AskedLast, Written
  <2> QED
    BY <1>1, <2>2, <2>3 DEF ShellInv, PhoneTyped, Starting, TabsNeedLogin, Top
<1> QED
  BY <1>3, <1>4

LEMMA ShellRegisters == ASSUME ShellInv, NEW s \in Line, SendRegister(s) PROVE ShellInv'
<1>1. Dial(s, "register", NoUser) /\ UNCHANGED <<wanted, overlapped>> /\ Top = "Register"
  BY DEF SendRegister
<1>2. /\ phoneCall' = [t \in Line |-> phoneCall'[t]]
      /\ phoneCall[s].kind = "idle" /\ phoneCall'[s].kind = "register"
      /\ \A t \in Line : t # s => phoneCall'[t] = phoneCall[t]
      /\ UNCHANGED <<isLoading, stack, timer, wentBack, holder, disk, writes, forgotten>>
  BY <1>1, Dialled
<1>3. AskedLast'
  BY <1>1, <1>2, SessionUntouched DEF ShellInv, AskedLast, Written
<1>4. ~isLoading
  BY <1>1 DEF Top, ShellInv, Starting
<1> QED
  BY <1>1, <1>2, <1>3, <1>4 DEF ShellInv, PhoneTyped, Starting, TabsNeedLogin, Top

\* setAuth or clearAuth, as the last call of the session has asked.
LEMMA ShellSets ==
    ASSUME ShellInv, NEW s \in Line, Done(s), NEW u \in Who, NEW st \in Seq(Screen), st # <<>>,
           SetUser(u, st), UNCHANGED <<wanted, overlapped>>, phoneCall[s].kind \in {"login", "logout"},
           u = IF phoneCall[s].kind = "login" THEN phoneCall[s].who ELSE NoUser
    PROVE  ShellInv'
<1>1. /\ holder' = u /\ writes' = Append(writes, u) /\ stack' = GuardTabs(st, holder, u)
      /\ timer' = (timer \/ (holder = NoUser /\ u # NoUser))
      /\ wentBack' = (wentBack /\ u = NoUser /\ stack' = stack)
      /\ UNCHANGED <<disk, isLoading, forgotten>>
  BY DEF SetUser
<1>2. /\ phoneCall' = [t \in Line |-> phoneCall'[t]] /\ phoneCall'[s].kind = "idle"
      /\ \A t \in Line : t # s => phoneCall'[t] = phoneCall[t]
  BY Ended
<1>3. ~isLoading
  BY DEF ShellInv, Starting
<1>4. stack' \in Seq(Screen) /\ stack' # <<>> /\ (u = NoUser => Last(stack') # "MainTabs")
  BY <1>1, Guarded
<1>5. writes' \in Seq(Who) /\ Written' = u
  BY <1>1, AppendedLast DEF ShellInv, PhoneTyped, Written
<1>6. timer' \in BOOLEAN /\ wentBack' \in BOOLEAN
  BY <1>1 DEF ShellInv, PhoneTyped
<1>7. PhoneTyped' /\ Starting' /\ TabsNeedLogin'
  BY <1>1, <1>2, <1>3, <1>4, <1>5, <1>6 DEF ShellInv, PhoneTyped, Starting, TabsNeedLogin, Top
<1>8. ~overlapped => PhoneSessions' = {} /\ wanted = u
  BY <1>2 DEF ShellInv, AskedLast, PhoneSessions
<1>9. AskedLast'
  BY <1>1, <1>5, <1>8 DEF AskedLast
<1> QED
  BY <1>7, <1>9 DEF ShellInv

LEMMA ShellAnswered == ASSUME ShellInv, NEW s \in Line, PhoneLoggedIn(s) \/ PhoneLoggedOut(s) PROVE ShellInv'
<1>1. stack \in Seq(Screen) /\ ~isLoading /\ stack # <<>>
  BY DEF PhoneLoggedIn, PhoneLoggedOut, ShellInv, Starting, PhoneTyped
<1>2. CASE PhoneLoggedIn(s)
  <2>1. phoneCall[s].who \in Who
    BY <1>2 DEF PhoneLoggedIn, ShellInv, PhoneTyped, Who
  <2> QED
    BY <1>1, <1>2, <2>1, ShellSets DEF PhoneLoggedIn
<1>3. CASE PhoneLoggedOut(s)
  <2>1. NavigateTo(stack, "Landing") \in Seq(Screen) /\ NavigateTo(stack, "Landing") # <<>>
    BY <1>1, Navigated DEF Screen
  <2>2. NoUser \in Who
    BY DEF Who
  <2> QED
    BY <1>3, <2>1, <2>2, ShellSets DEF PhoneLoggedOut
<1> QED
  BY <1>2, <1>3

LEMMA ShellRegistered == ASSUME ShellInv, NEW s \in Line, PhoneRegistered(s) PROVE ShellInv'
<1>1. /\ phoneCall[s].kind = "register" /\ Done(s) /\ stack' = NavigateTo(stack, "Login") /\ wentBack' = FALSE
      /\ UNCHANGED <<isLoading, timer, holder, disk, writes, wanted, overlapped, forgotten>>
  BY DEF PhoneRegistered, store
<1>2. /\ phoneCall' = [t \in Line |-> phoneCall'[t]] /\ phoneCall'[s].kind = "idle"
      /\ \A t \in Line : t # s => phoneCall'[t] = phoneCall[t]
  BY <1>1, Ended
<1>3. ~isLoading /\ stack \in Seq(Screen) /\ stack # <<>> /\ "Login" \in Screen
  BY <1>1 DEF ShellInv, Starting, PhoneTyped, Screen
<1>4. stack' \in Seq(Screen) /\ stack' # <<>> /\ Last(stack') = "Login"
  BY <1>1, <1>3, Navigated
<1>5. AskedLast'
  BY <1>1, <1>2, SessionUntouched DEF ShellInv, AskedLast, Written
<1> QED
  BY <1>1, <1>2, <1>3, <1>4, <1>5 DEF ShellInv, PhoneTyped, Starting, TabsNeedLogin, Top

LEMMA ShellRejected == ASSUME ShellInv, NEW s \in Line, PhoneRejected(s) PROVE ShellInv'
<1>1. /\ phoneCall[s].kind \in {"login", "register"} /\ Done(s)
      /\ wanted' = (IF phoneCall[s].kind = "login" /\ ~overlapped THEN holder ELSE wanted)
      /\ UNCHANGED <<isLoading, stack, timer, wentBack, holder, disk, writes, overlapped, forgotten>>
  BY DEF PhoneRejected, store, app
<1>2. /\ phoneCall' = [t \in Line |-> phoneCall'[t]] /\ phoneCall'[s].kind = "idle"
      /\ \A t \in Line : t # s => phoneCall'[t] = phoneCall[t]
  BY <1>1, Ended
<1>3. ~isLoading
  BY <1>1 DEF ShellInv, Starting
<1>4. PhoneTyped' /\ Starting' /\ TabsNeedLogin'
  BY <1>1, <1>2, <1>3 DEF ShellInv, PhoneTyped, Starting, TabsNeedLogin, Top
<1>5. CASE phoneCall[s].kind = "login" /\ ~overlapped
  <2>1. PhoneSessions' = {} /\ wanted' = holder /\ Written' = Written
    BY <1>1, <1>2, <1>5 DEF ShellInv, AskedLast, PhoneSessions, Written
  <2>2. AskedLast'
    BY <1>1, <1>3, <2>1 DEF ShellInv, AskedLast
  <2> QED
    BY <1>4, <2>2 DEF ShellInv
<1>6. CASE phoneCall[s].kind = "register"
  <2>1. AskedLast'
    BY <1>1, <1>2, <1>6, SessionUntouched DEF ShellInv, AskedLast, Written
  <2> QED
    BY <1>4, <2>1 DEF ShellInv
<1>7. CASE overlapped
  BY <1>1, <1>4, <1>7 DEF ShellInv, AskedLast, Written
<1> QED
  BY <1>1, <1>5, <1>6, <1>7

LEMMA ShellNavigates ==
    ASSUME ShellInv, TimerFires \/ GoBack \/ \E screen \in Screen : TapLink(screen)
    PROVE  ShellInv'
<1>1. UNCHANGED <<isLoading, holder, writes, disk, phoneCall, overlapped, forgotten, wanted>>
  BY DEF TimerFires, GoBack, TapLink, store
<1>2. timer' \in BOOLEAN /\ wentBack' \in BOOLEAN /\ stack \in Seq(Screen)
  BY DEF TimerFires, GoBack, TapLink, ShellInv, PhoneTyped
<1>3. CASE TimerFires
  <2>1. stack # <<>> /\ "MainTabs" \in Screen
    BY <1>3 DEF TimerFires, ShellInv, Starting, Screen
  <2>2. NavigateTo(stack, "MainTabs") \in Seq(Screen) /\ NavigateTo(stack, "MainTabs") # <<>>
    BY <1>2, <2>1, Navigated
  <2>3. stack' \in Seq(Screen) /\ stack' # <<>> /\ (holder = NoUser => Last(stack') # "MainTabs")
    BY <1>3, <2>2, Guarded DEF TimerFires
  <2> QED
    BY <1>1, <1>2, <2>1, <2>3, ScreensKeep
<1>4. CASE GoBack
  <2>1. /\ Len(stack) > 1 /\ stack' = SubSeq(stack, 1, Len(stack) - 1) /\ Len(stack) \in Nat
        /\ wentBack' = (holder = NoUser /\ Last(stack') = "MainTabs")
    BY <1>2, <1>4 DEF GoBack, Front
  <2>2. stack # <<>> /\ stack' \in Seq(Screen) /\ stack' # <<>>
    <3> DEFINE n == Len(stack)
    <3>1. n \in Nat /\ n > 1
      BY <2>1
    <3> HIDE DEF n
    <3>2. n - 1 \in 1..n /\ n - 1 # 0 /\ n # 0
      BY <3>1
    <3>3. SubSeq(stack, 1, n - 1) \in Seq(Screen) /\ Len(SubSeq(stack, 1, n - 1)) = n - 1
      BY <1>2, <3>2 DEF n
    <3>4. stack' \in Seq(Screen) /\ Len(stack') # 0 /\ Len(stack) # 0
      BY <2>1, <3>2, <3>3 DEF n
    <3> QED
      BY <1>2, <3>4, EmptyLength
  <2> QED
    BY <1>1, <1>2, <2>1, <2>2, ScreensKeep
<1>5. CASE \E screen \in Screen : TapLink(screen)
  <2>1. PICK screen \in Screen : TapLink(screen)
    BY <1>5
  <2>2. screen \in ScreenLinks /\ stack' = NavigateTo(stack, screen)
    BY <2>1 DEF TapLink
  <2>3. stack # <<>> /\ (screen = "MainTabs" => holder # NoUser)
    BY <2>2 DEF ScreenLinks, Top
  <2>4. stack' \in Seq(Screen) /\ stack' # <<>> /\ Last(stack') = screen
    BY <1>2, <2>2, <2>3, Navigated
  <2> QED
    BY <1>1, <1>2, <2>3, <2>4, ScreensKeep
<1> QED
  BY <1>3, <1>4, <1>5

LEMMA ShellStill == ASSUME ShellInv, UNCHANGED shellVars PROVE ShellInv'
<1>1. UNCHANGED <<isLoading, stack, timer, wentBack, holder, disk, writes, phoneCall, wanted, overlapped, forgotten>>
  BY DEF shellVars, app, store
<1>2. AskedLast'
  BY <1>1, SessionUntouched DEF ShellInv, AskedLast, Written
<1> QED
  BY <1>1, <1>2 DEF ShellInv, PhoneTyped, Starting, TabsNeedLogin, Top

(* For any accounts, overlapping calls, screens, writes and kills of the   *)
(* process: the tabs need a user, and the session that is kept is the one  *)
(* last asked for (RootNavigator.tsx:34-92, store/authStore.ts:29-56).     *)
THEOREM ShellAlwaysHolds == ShellSpec => []ShellHolds
<1>1. ShellInv /\ [ShellNext]_shellVars => ShellInv'
  <2> SUFFICES ASSUME ShellInv, ShellNext PROVE ShellInv'
    BY ShellStill
  <2>1. CASE Hydrate \/ Kill \/ Persist
    BY <2>1, ShellHydrates, ShellKilled, ShellPersists
  <2>2. CASE TimerFires \/ GoBack \/ \E screen \in Screen : TapLink(screen)
    BY <2>2, ShellNavigates
  <2>3. CASE \E s \in Line : (\E u \in Account : SendLogin(s, u)) \/ TapLogout(s)
    <3>1. Top # "nothing" => ~isLoading
      BY DEF Top, ShellInv, Starting
    <3>2. CASE \E s \in Line : \E u \in Account : SendLogin(s, u)
      BY <3>1, <3>2, ShellAsks DEF SendLogin
    <3>3. CASE \E s \in Line : TapLogout(s)
      BY <3>1, <3>3, ShellAsks DEF TapLogout
    <3> QED
      BY <2>3, <3>2, <3>3
  <2>4. CASE \E s \in Line : \/ SendRegister(s) \/ PhoneLoggedIn(s) \/ PhoneRegistered(s)
                             \/ PhoneRejected(s) \/ PhoneLoggedOut(s)
    BY <2>4, ShellRegisters, ShellAnswered, ShellRegistered, ShellRejected
  <2> QED
    BY <2>1, <2>2, <2>3, <2>4 DEF ShellNext
<1> QED
  BY <1>1, ShellBegins, ShellInvHolds, PTL DEF ShellSpec

=============================================================================
