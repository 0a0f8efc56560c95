---------------------------- MODULE UploadQueue -----------------------------
(***************************************************************************)
(* The upload page of the web client: a queue of files, and a loop that    *)
(* sends the files that were pending when the button was clicked, one      *)
(* after the other, while the user goes on adding, removing and clearing,  *)
(* and may leave the page and come back.                                   *)
(*                                                                         *)
(* The loop is an async function: it holds the list it was started with,   *)
(* and goes on when the page is gone.  A file stands for its name and      *)
(* size, which is all the page tells files apart by.  Ids count up, and    *)
(* cards are only ever appended, so a list of cards is the set of them,    *)
(* in the order of the ids.                                                *)
(* A definition Name_Variant is Name with a plausible bug in it.           *)
(***************************************************************************)
EXTENDS Integers, Sequences, FiniteSets, FiniteSetsExt

CONSTANTS
    File,
    Refusable,     \* files of a type or size the page does not take
    Loop,          \* runs of handleUpload that may be under way
    MaxEntries,    \* bound: cards made
    MaxVisits      \* bound: visits of the page

ASSUME QueueAssumption ==
    /\ Refusable \subseteq File
    /\ MaxEntries \in Nat /\ MaxVisits \in Nat \ {0}

VARIABLES
    visit,      \* which visit of the page this is; it is odd on the page, even off it
    files,      \* the cards of the queue
    uploading, doneCount,
    fading,     \* cards the fading button would send, {} when none fades
    loop,       \* the runs
    made,       \* cards made so far: the next id
    jumps,      \* timers that will open the gallery
    sent,       \* history: times the file of a card was sent
    rows,       \* images the server has made of it
    again,      \* history: visits in which the button was clicked while it faded
    unheard     \* history: cards whose file was stored and the answer lost

vars == <<visit, files, uploading, doneCount, fading, loop, made, jumps, sent, rows, again, unheard>>
page == <<visit, made>>
server == <<sent, rows, unheard>>

Id == 1..MaxEntries
FileEntry == [id: Id, file: File, status: {"pending", "uploading", "done", "error"}]
Idle == [pc |-> "idle", visit |-> 0, todo |-> {}, done |-> 0]

TypeOK ==
    /\ visit \in 1..(2 * MaxVisits) /\ made \in 0..MaxEntries
    /\ files \subseteq FileEntry /\ fading \subseteq Id
    /\ uploading \in BOOLEAN /\ doneCount \in 0..MaxEntries
    /\ DOMAIN loop = Loop
    /\ \A p \in Loop :
        /\ loop[p].pc \in {"idle", "next", "wait"} /\ loop[p].todo \subseteq Id
        /\ loop[p].done \in 0..MaxEntries /\ loop[p].visit \in 0..(2 * MaxVisits)
    /\ sent \in [Id -> Nat] /\ rows \in [Id -> Nat] /\ jumps \in Nat
    /\ again \subseteq 1..visit /\ unheard \subseteq Id
    /\ \A e, x \in files : e.id = x.id => e = x

Init ==
    /\ visit = 1 /\ files = {} /\ uploading = FALSE /\ doneCount = 0
    /\ fading = {} /\ loop = [p \in Loop |-> Idle] /\ made = 0
    /\ sent = [i \in Id |-> 0] /\ rows = [i \in Id |-> 0] /\ jumps = 0
    /\ again = {} /\ unheard = {}

OnPage == visit % 2 = 1
Pending_All(cards) == {e.id : e \in cards}

Pending(cards) == {e.id : e \in {x \in cards : x.status = "pending"}}
ButtonShown == OnPage /\ ~uploading /\ Pending(files) # {}

\* The ring and the bar of the whole upload: so many done, of those not refused.
TotalValid == Cardinality({e \in files : e.status # "error"})
Progress == [value |-> doneCount, total |-> TotalValid]

\* A button that is no longer rendered fades out as it was rendered last, with
\* the handler and the list of that rendering (AnimatePresence).
Rerender ==
    fading' = IF ~OnPage' \/ ButtonShown' THEN {}
              ELSE IF ButtonShown THEN Pending(files) ELSE fading

\* setFiles(map): a card that was removed meanwhile stays removed.
WithStatus(id, status) ==
    {IF e.id = id THEN [e EXCEPT !.status = status] ELSE e : e \in files}

\* makeEntry and addFiles: fresh is what is left of a batch without the files
\* that the list already has; the batch is not compared with itself.
AddFiles(fresh) ==
    /\ OnPage
    /\ \A i \in DOMAIN fresh : fresh[i] \notin {e.file : e \in files}
    /\ made + Len(fresh) <= MaxEntries
    /\ files' = files \cup {[id |-> made + i, file |-> fresh[i],
                            status |-> IF fresh[i] \in Refusable THEN "error" ELSE "pending"] :
                           i \in DOMAIN fresh}
    /\ made' = made + Len(fresh)
    /\ UNCHANGED <<visit, uploading, doneCount, loop, server, jumps, again>>
    /\ Rerender

\* The cards that show a button to remove them.
Removable(e) == e.status \in {"pending", "error"}
RemoveFile(e) ==
    /\ Removable(e)
    /\ files' = {x \in files : x.id # e.id}
    /\ UNCHANGED <<page, uploading, doneCount, loop, server, jumps, again>>
    /\ Rerender

ClearAll ==
    /\ files # {}
    /\ files' = {}
    /\ UNCHANGED <<page, uploading, doneCount, loop, server, jumps, again>>
    /\ Rerender

\* handleUpload up to the loop, with the pending cards of its rendering.
Start(p, snapshot) ==
    /\ loop[p].pc = "idle"
    /\ uploading' = TRUE /\ doneCount' = 0
    /\ loop' = [loop EXCEPT ![p] = [pc |-> "next", visit |-> visit, todo |-> snapshot, done |-> 0]]
    /\ UNCHANGED <<page, files, server, jumps>>
Click(p) == ButtonShown /\ Start(p, Pending(files)) /\ UNCHANGED again /\ Rerender
\* One more click in the time the button takes to fade.  Bound: it happens once.
ClickAgain(p) ==
    /\ fading # {} /\ again = {}
    /\ Start(p, fading) /\ fading' = {}
    /\ again' = again \cup {visit}

FadeOut ==
    /\ fading # {}
    /\ fading' = {}
    /\ UNCHANGED <<page, files, uploading, doneCount, loop, server, jumps, again>>

\* The card a run is at: it goes through its list in order.
Current(p) == Min(loop[p].todo)
\* Where a run is in its list; it stays the run of its visit.
Continue(p, pc, todo, done) ==
    loop' = [loop EXCEPT ![p] = [pc |-> pc, visit |-> loop[p].visit, todo |-> todo, done |-> done]]

Send_DoneAtOnce(p) ==
    /\ loop[p].pc = "next" /\ loop[p].todo # {}
    /\ files' = WithStatus(Current(p), "done")
    /\ sent' = [sent EXCEPT ![Current(p)] = @ + 1]
    /\ Continue(p, "wait", loop[p].todo, loop[p].done)
    /\ UNCHANGED <<page, uploading, doneCount, rows, unheard, jumps, again>>
    /\ Rerender

\* The next round of the loop, as far as the await.
Send(p) ==
    /\ loop[p].pc = "next" /\ loop[p].todo # {}
    /\ files' = WithStatus(Current(p), "uploading")
    /\ sent' = [sent EXCEPT ![Current(p)] = @ + 1]
    /\ Continue(p, "wait", loop[p].todo, loop[p].done)
    /\ UNCHANGED <<page, uploading, doneCount, rows, unheard, jumps, again>>
    /\ Rerender

\* State setters of a page that is gone do nothing.
Here(p) == loop[p].visit = visit

Succeed(p) ==
    /\ loop[p].pc = "wait"
    /\ rows' = [rows EXCEPT ![Current(p)] = @ + 1]
    /\ files' = WithStatus(Current(p), "done")
    /\ doneCount' = IF Here(p) THEN loop[p].done + 1 ELSE doneCount
    /\ Continue(p, "next", loop[p].todo \ {Current(p)}, loop[p].done + 1)
    /\ UNCHANGED <<page, uploading, sent, unheard, jumps, again>>
    /\ Rerender

StoredUnheard(i) == rows' = [rows EXCEPT ![i] = @ + 1] /\ unheard' = unheard \cup {i}

Fail_EndsLoop(p) ==
    /\ loop[p].pc = "wait"
    /\ UNCHANGED <<rows, unheard>> \/ StoredUnheard(Current(p))
    /\ files' = WithStatus(Current(p), "error")
    /\ loop' = [loop EXCEPT ![p] = Idle]
    /\ UNCHANGED <<page, uploading, doneCount, sent, jumps, again>>
    /\ Rerender

\* The server refuses, or does not answer in time, having stored the file or not.
Fail(p) ==
    /\ loop[p].pc = "wait"
    /\ UNCHANGED <<rows, unheard>> \/ StoredUnheard(Current(p))
    /\ files' = WithStatus(Current(p), "error")
    /\ Continue(p, "next", loop[p].todo \ {Current(p)}, loop[p].done)
    /\ UNCHANGED <<page, uploading, doneCount, sent, jumps, again>>
    /\ Rerender

Finish(p) ==
    /\ loop[p].pc = "next" /\ loop[p].todo = {}
    /\ uploading' = IF Here(p) THEN FALSE ELSE uploading
    /\ jumps' = IF loop[p].done > 0 THEN jumps + 1 ELSE jumps
    /\ loop' = [loop EXCEPT ![p] = Idle]
    /\ UNCHANGED <<page, files, doneCount, server, again>>
    /\ Rerender

\* The page is left, by the user or by a timer: its state is gone, its loop is not.
Unmount ==
    /\ visit' = visit + 1 /\ files' = {} /\ uploading' = FALSE /\ doneCount' = 0
    /\ fading' = {}
Leave == OnPage /\ Unmount /\ UNCHANGED <<loop, made, server, jumps, again>>
Return ==
    /\ ~OnPage /\ visit < 2 * MaxVisits
    /\ visit' = visit + 1
    /\ UNCHANGED <<files, uploading, doneCount, fading, loop, made, server, jumps, again>>
Jump ==
    /\ jumps > 0 /\ jumps' = jumps - 1
    /\ IF OnPage THEN Unmount ELSE UNCHANGED <<visit, files, uploading, doneCount, fading>>
    /\ UNCHANGED <<loop, made, server, again>>

Batch == {<<f>> : f \in File} \cup (File \X File)
Work(p) == Send(p) \/ Succeed(p) \/ Fail(p) \/ Finish(p)
Next ==
    \/ \E fresh \in Batch : AddFiles(fresh)
    \/ \E e \in files : RemoveFile(e)
    \/ ClearAll \/ FadeOut \/ Leave \/ Return \/ Jump
    \/ \E p \in Loop : Click(p) \/ ClickAgain(p)
    \/ \E p \in Loop : Send(p) \/ Succeed(p) \/ Fail(p) \/ Finish(p)

Spec == Init /\ [][Next]_vars
\* Every request is answered, or times out.
FairSpec == Spec /\ \A p \in Loop : WF_vars(Work(p))

Active(p) == loop[p].pc # "idle"

(* A visit in which the fading button was clicked, too, has two runs over  *)
(* the same cards: nothing is claimed of it but that it comes to an end.   *)
ClickedOnce == visit \notin again

Cleared == {i \in 1..made : rows[i] > 0 /\ i \notin {e.id : e \in files}}

(* A card tells what became of its file: what is pending was never sent,   *)
(* what is uploading is being sent by a loop of this visit, what is done   *)
(* is stored once, what failed is not stored, unless its answer was lost   *)
(* (UploadPage.tsx:246-289); the progress counts no more than there are    *)
(* cards, but for those that were stored and cleared away (:300-301); and  *)
(* the state is of its type, ids once each.                                *)
HonestCards ==
    /\ TypeOK
    /\ ClickedOnce => \A e \in files :
        /\ e.status = "pending" => sent[e.id] = 0
        /\ e.status = "uploading" =>
             \E p \in Loop : Here(p) /\ loop[p].pc = "wait" /\ Current(p) = e.id
        /\ e.status = "done" => rows[e.id] = 1
        /\ e.status = "error" => rows[e.id] = 0 \/ e.id \in unheard
    /\ ClickedOnce /\ uploading => Progress.value <= Progress.total + Cardinality(Cleared)

(* No card's file is sent twice, through removals, failures, later runs    *)
(* and visits, unless the button was clicked while it faded                *)
(* (UploadPage.tsx:247).                                                   *)
SentOnce == again = {} => \A i \in Id : sent[i] <= 1

(* The page says it is uploading exactly while a loop of this visit runs:  *)
(* the button cannot be stuck, nor offered twice; runs of earlier visits   *)
(* that go on do not touch it (UploadPage.tsx:250,291).                    *)
SpinnerHonest ==
    ClickedOnce => (uploading <=> OnPage /\ \E p \in Loop : Active(p) /\ Here(p))

(* An upload that was started comes to an end, whatever becomes of its     *)
(* files and however many loops run (UploadPage.tsx:254-291).              *)
UploadEnds == uploading ~> ~uploading
=============================================================================
