------------------------------ MODULE Comments ------------------------------
(***************************************************************************)
(* The comments of one image: the table, the handlers that add and delete, *)
(* and the clients that write: the section of the web page, which empties  *)
(* its box when a comment was stored, and the screen of the mobile app,    *)
(* which empties it when one is sent.  A text stands for all that is typed *)
(* between two sendings; typing again makes another text.                  *)
(* A definition Name_Variant is Name with a plausible bug in it.           *)
(***************************************************************************)
EXTENDS Integers, FiniteSets, QueryCache

CONSTANTS
    Client, Mobile,    \* the clients, and those that are phones
    Author(_),         \* the account a client is logged in with
    Writes(_),         \* the texts its user may type
    Admin,             \* accounts with the role admin
    NoText, TooLong,   \* TooLong: texts a client refuses to send
    Slot,              \* bound: calls under way
    Scene,             \* bound: who is there, with which of the slots, what is
                       \* typed, and the comments that are old
    MaxId,             \* bound: comments.id
    MaxCutOff          \* bound: answers that never arrive

VARIABLES
    scene,     \* one of Scene
    exists,    \* the image
    rows,      \* the comments: [id, by, text]
    draft,     \* the box of each client
    comments,  \* cache: the list each client shows
    call,      \* calls under way
    posted,    \* history: all comments ever stored; their number is the last id
    typed, replaced, \* history: texts typed so far, and those typed over
    waited,    \* history: texts typed while a comment of the client was being sent
    refused,   \* history: texts whose comment was refused, or its answer lost
    insisted,  \* history: texts sent again after that, or while they were being sent
    cutOff,    \* history: answers lost
    deaf,      \* history: clients whose list may miss a change of their own
    removed    \* history: [id, client] of the deletions

history == <<typed, replaced, waited, refused, insisted, cutOff>>
server == <<exists, rows, posted, removed>>
vars == <<scene, server, draft, comments, call, history, deaf>>

Text == UNION {Writes(c) : c \in Client}
\* A text stands for one typing: no two users type the same, and comments that
\* are old have texts of their own, and the first ids.
ASSUME CommentsAssumption ==
    /\ NoText \notin Text
    /\ \A c, d \in Client : c # d => Writes(c) \cap Writes(d) = {}
    /\ \A sc \in Scene :
        /\ sc.who \subseteq Client /\ sc.slots \subseteq Slot
        /\ IsFiniteSet(sc.old) /\ \A x \in sc.old : x.id \in 1..Cardinality(sc.old) /\ x.text \notin sc.texts
        /\ \A x, y \in sc.old : x.id = y.id \/ x.text = y.text => x = y

Row == [id: 1..MaxId, by: {Author(c) : c \in Client}, text: Text]
lastId == Cardinality(posted)
Request(c, kind, text, id) ==
    [pc |-> "sent", client |-> c, kind |-> kind, text |-> text, id |-> id]
NoCall == [pc |-> "idle", client |-> NoText, kind |-> "", text |-> NoText, id |-> 0]

TypeOK ==
    /\ exists \in BOOLEAN /\ rows \subseteq posted /\ posted \subseteq Row
    /\ \A x, y \in posted : x.id = y.id => x = y
    /\ draft \in [Client -> Text \cup {NoText}]
    /\ \A s \in Slot : call[s].pc \in {"idle", "sent", "allowed", "ok", "refused"}
    /\ \A c \in Client : comments[c].data = NoData \/ comments[c].data \subseteq posted
    /\ deaf \subseteq Client /\ removed \subseteq (1..MaxId) \X Client

Init ==
    /\ scene \in Scene
    /\ exists = TRUE /\ rows = scene.old /\ posted = scene.old /\ removed = {}
    /\ draft = [c \in Client |-> NoText]
    /\ comments = [c \in Client |-> IF c \in scene.who THEN Observed(Empty) ELSE Empty]
    /\ call = [s \in Slot |-> NoCall]
    /\ typed = {} /\ replaced = {}
    /\ waited = {} /\ refused = {} /\ insisted = {}
    /\ cutOff = 0 /\ deaf = {}

Creating(c) ==
    {s \in Slot : call[s].client = c /\ call[s].kind = "create" /\ call[s].pc # "idle"}

\* The box: a text takes the place of what is there.
Type(c, t) ==
    /\ t \in Writes(c) \ typed
    /\ draft' = [draft EXCEPT ![c] = t]
    /\ typed' = typed \cup {t}
    /\ replaced' = replaced \cup ({draft[c]} \ {NoText})
    /\ waited' = IF Creating(c) # {} THEN waited \cup {t} ELSE waited
    /\ UNCHANGED <<server, comments, call, refused, insisted, cutOff, deaf>>

\* createMutation.mutate.
Create(c, s) ==
    /\ call[s].pc = "idle"
    /\ call' = [call EXCEPT ![s] = Request(c, "create", draft[c], 0)]
    /\ insisted' = IF draft[c] \in refused \/ (\E r \in Creating(c) : call[r].text = draft[c])
                   THEN insisted \cup {draft[c]} ELSE insisted
    /\ UNCHANGED <<server, comments, typed, replaced, waited, refused, cutOff, deaf>>

\* handleSubmit of the web page, from its button or from Enter: Enter does not
\* wait for the comment that is being sent.
Sendable(c) == draft[c] # NoText /\ draft[c] \notin TooLong
Submit(c, s, key) ==
    /\ c \notin Mobile /\ Sendable(c)
    /\ key = "button" => Creating(c) = {}
    /\ Create(c, s) /\ UNCHANGED draft
\* handleComment of the mobile screen empties the box at once.
Comment_KeepsDraft(c, s) ==
    c \in Mobile /\ Sendable(c) /\ Create(c, s) /\ UNCHANGED draft
Comment(c, s) ==
    /\ c \in Mobile /\ Sendable(c) /\ Create(c, s)
    /\ draft' = [draft EXCEPT ![c] = NoText]

\* The button beside a comment, for its author and for admins.
MayDelete(c, row) == row.by = Author(c) \/ Author(c) \in Admin
AskDelete(c, s, row) ==
    /\ comments[c].data # NoData /\ row \in comments[c].data /\ MayDelete(c, row)
    /\ call[s].pc = "idle"
    /\ call' = [call EXCEPT ![s] = Request(c, "delete", NoText, row.id)]
    /\ UNCHANGED <<server, draft, comments, history, deaf>>
\* The route takes any id, whatever the pages offer.
AskDeleteById(c, s, id) ==
    /\ call[s].pc = "idle" /\ \E r \in rows : r.id = id /\ ~MayDelete(c, r)
    /\ call' = [call EXCEPT ![s] = Request(c, "delete", NoText, id)]
    /\ UNCHANGED <<server, draft, comments, history, deaf>>

-----------------------------------------------------------------------------
Goto(s, pc) == call' = [call EXCEPT ![s].pc = pc]
Handles(s, kind, pc) == call[s].kind = kind /\ call[s].pc = pc
Clients == <<draft, comments, history, deaf>>

\* CommentService.Create: the length, then an INSERT that needs the image.
Insert(s) ==
    /\ Handles(s, "create", "sent") /\ exists /\ lastId < MaxId
    /\ LET row == [id |-> lastId + 1, by |-> Author(call[s].client), text |-> call[s].text]
       IN  rows' = rows \cup {row} /\ posted' = posted \cup {row}
    /\ Goto(s, "ok") /\ UNCHANGED <<exists, removed, Clients>>
NoImage(s) ==
    /\ Handles(s, "create", "sent") /\ ~exists
    /\ Goto(s, "refused") /\ UNCHANGED <<server, Clients>>

\* CommentService.Delete: the owner is read ...
CheckOwner_AnyUser(s) ==
    /\ Handles(s, "delete", "sent")
    /\ IF \E r \in rows : r.id = call[s].id THEN Goto(s, "allowed") ELSE Goto(s, "refused")
    /\ UNCHANGED <<server, Clients>>
CheckOwner(s) ==
    /\ Handles(s, "delete", "sent")
    /\ IF \E r \in rows : r.id = call[s].id /\ MayDelete(call[s].client, r)
       THEN Goto(s, "allowed") ELSE Goto(s, "refused")
    /\ UNCHANGED <<server, Clients>>
\* ... and the comment deleted by its id, if it is still there.
DeleteRow(s) ==
    /\ Handles(s, "delete", "allowed")
    /\ rows' = {r \in rows : r.id # call[s].id}
    /\ removed' = removed \cup {<<call[s].id, call[s].client>>}
    /\ Goto(s, "ok") /\ UNCHANGED <<exists, posted, Clients>>

\* The image is deleted by somebody: ON DELETE CASCADE.
DropImage ==
    /\ exists /\ exists' = FALSE /\ rows' = {}
    /\ UNCHANGED <<posted, removed, call, Clients>>

-----------------------------------------------------------------------------
Finish(s) == call' = [call EXCEPT ![s] = NoCall]
Refresh(c) == comments' = [comments EXCEPT ![c] = Renewed(@)]
\* The first fetch of the list is kept, whatever it was answered.
Missed(c) == IF Loading(comments[c]) /\ Aged(comments[c]) THEN deaf \cup {c}
             ELSE IF Loading(comments[c]) THEN deaf ELSE deaf \ {c}

Created_KeepsBox(s) ==
    /\ Handles(s, "create", "ok")
    /\ LET c == call[s].client
       IN  Refresh(c) /\ deaf' = Missed(c) /\ UNCHANGED draft
    /\ Finish(s) /\ UNCHANGED <<server, history>>
\* onSuccess: the web page empties the box, whatever is in it by now.
Created(s) ==
    /\ Handles(s, "create", "ok")
    /\ LET c == call[s].client
       IN  /\ Refresh(c) /\ deaf' = Missed(c)
           /\ draft' = IF c \in Mobile THEN draft ELSE [draft EXCEPT ![c] = NoText]
    /\ Finish(s) /\ UNCHANGED <<server, history>>

Deleted_NoRefresh(s) ==
    Handles(s, "delete", "ok") /\ Finish(s) /\ UNCHANGED <<server, draft, comments, deaf, history>>
Deleted(s) ==
    /\ Handles(s, "delete", "ok")
    /\ LET c == call[s].client IN Refresh(c) /\ deaf' = Missed(c)
    /\ Finish(s) /\ UNCHANGED <<server, draft, history>>

\* An error: the web page shows a message, the mobile screen nothing.
Refuse_ClearsBox(s) ==
    /\ call[s].pc = "refused" /\ Finish(s)
    /\ refused' = IF call[s].kind = "create" THEN refused \cup {call[s].text} ELSE refused
    /\ draft' = [draft EXCEPT ![call[s].client] = NoText]
    /\ UNCHANGED <<server, comments, typed, replaced, waited, insisted, cutOff, deaf>>
Refuse(s) ==
    /\ call[s].pc = "refused" /\ Finish(s)
    /\ refused' = IF call[s].kind = "create" THEN refused \cup {call[s].text} ELSE refused
    /\ UNCHANGED <<server, draft, comments, typed, replaced, waited, insisted, cutOff, deaf>>
\* The server is done and its answer never arrives.
LoseAnswer(s) ==
    /\ call[s].pc = "ok" /\ cutOff < MaxCutOff /\ cutOff' = cutOff + 1
    /\ refused' = IF call[s].kind = "create" THEN refused \cup {call[s].text} ELSE refused
    /\ deaf' = deaf \cup {call[s].client}
    /\ Finish(s) /\ UNCHANGED <<server, draft, comments, typed, replaced, waited, insisted>>

\* CommentService.List.
Serve(c) ==
    /\ comments[c].flight = "asked"
    /\ comments' = [comments EXCEPT ![c] = Served(@, rows)]
    /\ UNCHANGED <<server, draft, call, history, deaf>>
Land(c) ==
    /\ Aged(comments[c])
    /\ comments' = [comments EXCEPT ![c] = Landed(@)]
    /\ UNCHANGED <<server, draft, call, history, deaf>>

Next ==
    /\ \/ \E c \in scene.who :
          \/ Serve(c) \/ Land(c)
          \/ \E t \in Writes(c) \cap scene.texts : Type(c, t)
          \/ \E s \in scene.slots :
                \/ Submit(c, s, "button") \/ Submit(c, s, "enter") \/ Comment(c, s)
                \/ \E row \in rows : AskDelete(c, s, row)
                \/ \E id \in 1..lastId : AskDeleteById(c, s, id)
       \/ \E s \in Slot :
          \/ Insert(s) \/ NoImage(s) \/ CheckOwner(s) \/ DeleteRow(s)
          \/ Created(s) \/ Deleted(s) \/ Refuse(s) \/ LoseAnswer(s)
       \/ DropImage
    /\ UNCHANGED scene

Spec == Init /\ [][Next]_vars

-----------------------------------------------------------------------------
\* A text is posted twice only when its user sends it again while it is being
\* sent (Enter does not wait), or after an error (CommentsSection.tsx:129).
PostedOnce ==
    \A x, y \in posted : x.text = y.text /\ x # y => x.text \in insisted

\* What was typed, and not typed over, is in the box, being sent or stored.
\* But the web page drops what is typed while a comment is being sent, and the
\* mobile screen what was refused (CommentsSection.tsx:32,
\* ImageDetailScreen.tsx:61).
NoTextLost ==
    \A c \in Client : \A t \in (typed \ replaced) \cap Writes(c) :
        \/ draft[c] = t \/ (\E r \in posted : r.text = t) \/ (\E s \in Slot : call[s].text = t)
        \/ t \in IF c \in Mobile THEN refused ELSE waited

\* A client at rest shows its own comments and none it has deleted, whatever
\* the others do (CommentsSection.tsx:30-46).
OwnChangesShown ==
    \A c \in Client \ deaf :
        exists /\ c \in scene.who /\ Resting(comments[c]) /\ (\A s \in Slot : call[s].client # c) =>
            /\ {r \in rows : r.text \in Writes(c)} \subseteq comments[c].data
            /\ \A r \in comments[c].data : <<r.id, c>> \notin removed

\* What the users write and read of the comments is what they did.
CommentsHonest == PostedOnce /\ NoTextLost /\ OwnChangesShown

\* While the image exists a comment goes only by a request of its author or of
\* an admin, though the owner was read in an earlier statement
\* (comment_service.go:60-71).
DeletedByRightStep ==
    \A r \in rows \ rows' : exists' =>
        \E s \in Slot : call[s].kind = "delete" /\ call[s].id = r.id /\ MayDelete(call[s].client, r)
DeletedByRight == [][DeletedByRightStep]_vars

=============================================================================
