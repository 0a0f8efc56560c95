------------------------- MODULE UploadQueue_proofs -------------------------
(***************************************************************************)
(* The upload page, for any number of files, cards, runs and visits: its   *)
(* spinner tells the truth, for which nothing of the queue is needed; no   *)
(* card's file is sent twice; and the cards and the progress tell what     *)
(* became of the files.                                                    *)
(***************************************************************************)
EXTENDS UploadQueue, SumTheorems, FunctionTheorems

Running(p) == Active(p) /\ Here(p)

\* Runs know the visit they began in, and begin only on the page; so do the
\* button that fades, and a page that is left has stopped uploading.
VisitsKnown ==
    /\ visit \in Nat \ {0} /\ uploading \in BOOLEAN
    /\ DOMAIN loop = Loop
    /\ again \subseteq 1..visit
    /\ \A p \in Loop : loop[p].visit \in 0..visit
    /\ \A p \in Loop : Running(p) => OnPage
    /\ fading # {} => OnPage
    /\ ~OnPage => ~uploading

\* While the button was clicked once, at most one run is of this visit.
OneRun == ClickedOnce => \A p, q \in Loop : Running(p) /\ Running(q) => p = q
SpinInv == VisitsKnown /\ OneRun /\ SpinnerHonest

LEMMA SpinInit == Init => SpinInv
<1> SUFFICES ASSUME Init PROVE SpinInv
  OBVIOUS
<1>1. /\ visit = 1 /\ fading = {} /\ uploading = FALSE /\ again = {} /\ DOMAIN loop = Loop
      /\ \A p \in Loop : loop[p].pc = "idle" /\ loop[p].visit = 0
  BY DEF Init, Idle
<1>2. \A p \in Loop : ~Running(p) /\ loop[p].visit \in 0..visit
  BY <1>1 DEF Running, Active
<1>3. VisitsKnown
  <2>1. visit \in Nat \ {0} /\ DOMAIN loop = Loop /\ again \subseteq 1..visit
    BY <1>1
  <2>2. uploading \in BOOLEAN /\ (fading # {} => OnPage) /\ (~OnPage => ~uploading)
    BY <1>1, Zenon
  <2> QED BY <1>2, <2>1, <2>2, Zenon DEF VisitsKnown
<1>4. OneRun /\ SpinnerHonest
  BY <1>1, <1>2 DEF OneRun, SpinnerHonest, Running
<1> QED BY <1>3, <1>4 DEF SpinInv

\* What happens to the cards does not matter.
LEMMA CardSteps ==
    ASSUME SpinInv, UNCHANGED <<visit, uploading, loop, again>>,
           fading' = {} \/ fading' = fading \/ OnPage
    PROVE  SpinInv'
  BY DEF SpinInv, VisitsKnown, OneRun, SpinnerHonest, ClickedOnce, Running, Active, Here, OnPage

LEMMA Rerenders == ASSUME Rerender PROVE fading' = {} \/ fading' = fading \/ OnPage
  BY DEF Rerender, ButtonShown

\* A run that goes on is of the visit it was of.
LEMMA RunGoesOn ==
    ASSUME SpinInv, NEW p \in Loop, Active(p), NEW l, l.pc # "idle", l.visit = loop[p].visit,
           loop' = [loop EXCEPT ![p] = l],
           UNCHANGED <<visit, uploading, again>>, Rerender
    PROVE  SpinInv'
<1>1. \A q \in Loop : (Running(q)' <=> Running(q)) /\ loop'[q].visit = loop[q].visit
  BY DEF SpinInv, VisitsKnown, Running, Active, Here
<1>2. DOMAIN loop' = Loop
  BY DEF SpinInv, VisitsKnown
<1>3. fading' # {} => OnPage
  BY Rerenders DEF SpinInv, VisitsKnown
<1> QED BY <1>1, <1>2, <1>3 DEF SpinInv, VisitsKnown, OneRun, SpinnerHonest, ClickedOnce, OnPage, Running

LEMMA PageLeft == ASSUME SpinInv, Unmount, UNCHANGED <<loop, again>> PROVE SpinInv'
<1>1. visit' = visit + 1 /\ ~uploading' /\ uploading' \in BOOLEAN /\ fading' = {}
  BY DEF Unmount
<1>2. \A p \in Loop : ~Running(p)' /\ loop'[p].visit \in 0..visit'
  BY <1>1 DEF SpinInv, VisitsKnown, Running, Here
<1> QED BY <1>1, <1>2 DEF SpinInv, VisitsKnown, OneRun, SpinnerHonest, Running

LEMMA SpinStep == ASSUME SpinInv, [Next]_vars PROVE SpinInv'
<1> USE DEF server, page
<1>1. ASSUME NEW fresh \in Batch, AddFiles(fresh) PROVE SpinInv'
  BY <1>1, CardSteps, Rerenders DEF AddFiles
<1>2. ASSUME NEW e \in files, RemoveFile(e) PROVE SpinInv'
  BY <1>2, CardSteps, Rerenders DEF RemoveFile
<1>3. CASE ClearAll
  BY <1>3, CardSteps, Rerenders DEF ClearAll
<1>4. CASE FadeOut
  BY <1>4, CardSteps DEF FadeOut
<1>5. CASE Leave
  BY <1>5, PageLeft DEF Leave
<1>6. CASE Return
  <2>1. visit' = visit + 1 /\ UNCHANGED <<uploading, fading, loop, again>> /\ ~OnPage
    BY <1>6 DEF Return
  <2>2. \A p \in Loop : ~Running(p)' /\ loop'[p].visit \in 0..visit'
    BY <2>1 DEF SpinInv, VisitsKnown, Running, Here
  <2> QED BY <2>1, <2>2 DEF SpinInv, VisitsKnown, OneRun, SpinnerHonest, Running
<1>7. CASE Jump
  <2>1. CASE OnPage
    BY <1>7, <2>1, PageLeft DEF Jump
  <2>2. CASE ~OnPage
    BY <1>7, <2>2, CardSteps DEF Jump
  <2> QED BY <2>1, <2>2
<1>8. ASSUME NEW p \in Loop, Click(p) PROVE SpinInv'
  <2>1. /\ OnPage /\ ~uploading /\ uploading' = TRUE /\ UNCHANGED <<visit, again>>
        /\ loop' = [loop EXCEPT ![p] = [pc |-> "next", visit |-> visit, todo |-> Pending(files), done |-> 0]]
    BY <1>8 DEF Click, Start, ButtonShown
  <2>2. /\ Running(p)' /\ loop'[p].visit = visit /\ DOMAIN loop' = Loop
        /\ \A q \in Loop \ {p} : (Running(q)' <=> Running(q)) /\ loop'[q].visit = loop[q].visit
    BY <2>1 DEF SpinInv, VisitsKnown, Running, Active, Here
  <2>3. ClickedOnce => \A q \in Loop : ~Running(q)
    BY <2>1 DEF SpinInv, SpinnerHonest, Running
  <2> QED BY <2>1, <2>2, <2>3 DEF SpinInv, VisitsKnown, OneRun, SpinnerHonest, ClickedOnce, OnPage, Running
<1>9. ASSUME NEW p \in Loop, ClickAgain(p) PROVE SpinInv'
  <2>1. /\ OnPage /\ uploading' = TRUE /\ UNCHANGED visit /\ again' = again \cup {visit} /\ fading' = {}
        /\ loop' = [loop EXCEPT ![p] = [pc |-> "next", visit |-> visit, todo |-> fading, done |-> 0]]
    BY <1>9 DEF ClickAgain, Start, SpinInv, VisitsKnown
  <2>2. loop'[p].visit = visit /\ DOMAIN loop' = Loop /\ \A q \in Loop \ {p} : loop'[q].visit = loop[q].visit
    BY <2>1 DEF SpinInv, VisitsKnown
  <2> QED BY <2>1, <2>2 DEF SpinInv, VisitsKnown, OneRun, SpinnerHonest, ClickedOnce, OnPage
<1>10. ASSUME NEW p \in Loop, Send(p) \/ Succeed(p) \/ Fail(p) PROVE SpinInv'
  <2>1. Active(p) /\ UNCHANGED <<visit, uploading, again>> /\ Rerender
    BY <1>10 DEF Send, Succeed, Fail, Active
  <2>2. PICK l : loop' = [loop EXCEPT ![p] = l] /\ l.pc # "idle" /\ l.visit = loop[p].visit
    BY <1>10 DEF Send, Succeed, Fail, Continue
  <2> QED BY <2>1, <2>2, RunGoesOn
<1>11. ASSUME NEW p \in Loop, Finish(p) PROVE SpinInv'
  <2>1. /\ Active(p) /\ UNCHANGED <<visit, again>> /\ Rerender /\ loop' = [loop EXCEPT ![p] = Idle]
        /\ uploading' = IF Here(p) THEN FALSE ELSE uploading
    BY <1>11 DEF Finish, Active
  <2>2. /\ ~Running(p)' /\ loop'[p].visit = 0 /\ DOMAIN loop' = Loop
        /\ \A q \in Loop \ {p} : (Running(q)' <=> Running(q)) /\ loop'[q].visit = loop[q].visit
    BY <2>1 DEF SpinInv, VisitsKnown, Running, Active, Here, Idle
  <2>3. fading' # {} => OnPage
    BY <2>1, Rerenders DEF SpinInv, VisitsKnown
  <2>4. uploading' \in BOOLEAN /\ (uploading' => uploading) /\ (OnPage' <=> OnPage) /\ (ClickedOnce' <=> ClickedOnce)
    BY <2>1 DEF SpinInv, VisitsKnown, OnPage, ClickedOnce
  <2>5. VisitsKnown'
    <3>1. \A q \in Loop : loop'[q].visit \in 0..visit' /\ (Running(q)' => OnPage)
      BY <2>1, <2>2 DEF SpinInv, VisitsKnown
    <3>2. visit' \in Nat \ {0} /\ again' \subseteq 1..visit'
      BY <2>1 DEF SpinInv, VisitsKnown
    <3> QED BY <2>2, <2>3, <2>4, <3>1, <3>2, Zenon DEF SpinInv, VisitsKnown
  <2>6. OneRun'
    BY <2>2, <2>4 DEF SpinInv, OneRun
  <2>7. CASE Here(p)
    <3>1. ~uploading' /\ Running(p)
      BY <2>1, <2>7 DEF Running
    <3>2. ClickedOnce => \A q \in Loop : ~Running(q)'
      BY <2>2, <3>1 DEF SpinInv, OneRun
    <3> QED BY <2>4, <2>5, <2>6, <3>1, <3>2 DEF SpinInv, SpinnerHonest, Running
  <2>8. CASE ~Here(p)
    <3>1. uploading' = uploading /\ ~Running(p)
      BY <2>1, <2>8 DEF Running
    <3>2. \A q \in Loop : Running(q)' <=> Running(q)
      BY <2>2, <3>1
    <3> QED BY <2>4, <2>5, <2>6, <3>1, <3>2 DEF SpinInv, SpinnerHonest, Running
  <2> QED BY <2>7, <2>8
<1>12. CASE UNCHANGED vars
  BY <1>12, CardSteps DEF vars
<1> QED BY <1>1, <1>2, <1>3, <1>4, <1>5, <1>6, <1>7, <1>8, <1>9, <1>10, <1>11, <1>12 DEF Next

\* SpinnerHonest: for any number of runs, files and visits the page says it is
\* uploading exactly while a run of this visit goes on.
THEOREM SpinnerAlwaysHonest == Spec => []SpinnerHonest
<1>1. SpinInv => SpinnerHonest
  BY DEF SpinInv
<1>2. SpinInv /\ [Next]_vars => SpinInv'
  BY SpinStep
<1> QED BY <1>1, <1>2, SpinInit, PTL DEF Spec

-----------------------------------------------------------------------------
(* What a run has still to send. *)

CardIds == {e.id : e \in files}
Unsent(p) == IF loop[p].pc = "wait" THEN loop[p].todo \ {Current(p)} ELSE loop[p].todo
\* Of a visit in which the button was clicked as it is meant to be.
Single(p) == Active(p) /\ loop[p].visit \notin again

Limits ==
    /\ \A p \in Loop : /\ loop[p].todo \subseteq 1..made
                       /\ loop[p].done + Cardinality(loop[p].todo) <= MaxEntries
                       /\ loop[p].pc = "wait" => loop[p].todo # {}
    /\ CardIds \subseteq 1..made /\ fading \subseteq 1..made /\ (~OnPage => files = {})
    /\ \A i \in Id : i > made => sent[i] = 0 /\ rows[i] = 0

\* Runs of different visits have different cards, the cards on the page are no
\* business of the earlier ones, and a visit has one run unless clicked twice.
Separate ==
    /\ \A p, q \in Loop : Active(p) /\ Active(q) /\ loop[p].visit # loop[q].visit =>
          loop[p].todo \cap loop[q].todo = {}
    /\ \A p \in Loop : Active(p) /\ ~Here(p) => loop[p].todo \cap (CardIds \cup fading) = {}
    /\ \A p, q \in Loop : Single(p) /\ Active(q) /\ loop[q].visit = loop[p].visit => p = q

\* What a run will send it has not sent, and what it is sending is not stored yet.
Ahead ==
    \A p \in Loop : Single(p) =>
        /\ \A i \in Unsent(p) : sent[i] = 0 /\ rows[i] = 0
        /\ loop[p].pc = "wait" => rows[Current(p)] = 0

\* The cards of this visit, as HonestCards has them, and as its run needs them.
CardsTell ==
    ClickedOnce =>
        /\ \A e \in files :
            /\ e.status = "pending" => sent[e.id] = 0 /\ rows[e.id] = 0
            /\ e.status = "uploading" => \E p \in Loop : Here(p) /\ loop[p].pc = "wait" /\ Current(p) = e.id
            /\ e.status = "done" => rows[e.id] = 1
            /\ e.status = "error" => rows[e.id] = 0 \/ e.id \in unheard
        /\ \A p \in Loop : Active(p) /\ Here(p) =>
            /\ \A e \in files : e.id \in Unsent(p) => e.status = "pending"
            /\ \A e \in files : loop[p].pc = "wait" /\ e.id = Current(p) => e.status = "uploading"
            /\ doneCount = loop[p].done

\* What counts as done on this page.
Stored == {i \in 1..made : rows[i] > 0 /\ ~\E e \in files : e.id = i /\ e.status = "error"}
Counts == ClickedOnce => \A p \in Loop : Active(p) /\ Here(p) => loop[p].done <= Cardinality(Stored)

QueueInv == SpinInv /\ TypeOK /\ Limits /\ Separate /\ Ahead /\ CardsTell /\ Counts /\ SentOnce

LEMMA QueueInit == Init => QueueInv
<1> SUFFICES ASSUME Init PROVE QueueInv
  OBVIOUS
<1>1. SpinInv BY SpinInit
<1>2. /\ visit = 1 /\ files = {} /\ doneCount = 0 /\ fading = {} /\ made = 0 /\ jumps = 0 /\ again = {} /\ unheard = {}
      /\ sent = [i \in Id |-> 0] /\ rows = [i \in Id |-> 0] /\ DOMAIN loop = Loop /\ uploading = FALSE
      /\ \A p \in Loop : loop[p].pc = "idle" /\ loop[p].todo = {} /\ loop[p].done = 0 /\ loop[p].visit = 0
  BY DEF Init, Idle
<1>3. CardIds = {} BY <1>2 DEF CardIds
<1>4. TypeOK
  <2>1. uploading \in BOOLEAN BY <1>1 DEF SpinInv, VisitsKnown
  <2>2. visit \in 1..(2 * MaxVisits) /\ made \in 0..MaxEntries /\ doneCount \in 0..MaxEntries
    BY <1>2, QueueAssumption
  <2>3. sent \in [Id -> Nat] /\ rows \in [Id -> Nat] BY <1>2
  <2>4. \A p \in Loop : loop[p].visit \in 0..(2 * MaxVisits) /\ loop[p].done \in 0..MaxEntries
    BY <1>2, QueueAssumption
  <2>5. /\ files \subseteq FileEntry /\ fading \subseteq Id /\ again \subseteq 1..visit /\ unheard \subseteq Id /\ jumps \in Nat
        /\ \A e, x \in files : e.id = x.id => e = x
    BY <1>2
  <2> QED BY <1>2, <2>1, <2>2, <2>3, <2>4, <2>5 DEF TypeOK
<1>5. Limits BY <1>2, <1>3, QueueAssumption, FS_EmptySet DEF Limits, OnPage
<1>6. Separate /\ Ahead /\ CardsTell /\ Counts /\ SentOnce
  BY <1>2 DEF Separate, Ahead, CardsTell, Counts, SentOnce, Active, Single
<1> QED BY <1>1, <1>4, <1>5, <1>6 DEF QueueInv

\* The least of the cards that are left.
LEMMA LeastIs ==
    ASSUME NEW S, S \subseteq Nat, S # {} PROVE Min(S) \in S
<1>1. \E x \in S : \A y \in S : x <= y BY LeastNat
<1> QED BY <1>1 DEF Min

LEMMA CurrentIs ==
    ASSUME QueueInv, NEW p \in Loop, loop[p].todo # {}
    PROVE  Current(p) \in loop[p].todo /\ Current(p) \in 1..made /\ Current(p) \in Id
<1>1. loop[p].todo \subseteq 1..made /\ 1..made \subseteq Id /\ 1..made \subseteq Nat
  BY QueueAssumption DEF QueueInv, Limits, TypeOK, Id
<1> QED BY <1>1, LeastIs DEF Current

LEMMA IdsFinite ==
    ASSUME QueueInv, NEW S, S \subseteq Id
    PROVE  IsFiniteSet(S) /\ Cardinality(S) \in Nat /\ Cardinality(S) <= MaxEntries
<1>1. IsFiniteSet(Id) /\ Cardinality(Id) = MaxEntries BY QueueAssumption, FS_Interval DEF Id
<1> QED BY <1>1, FS_Subset, FS_CardinalityType

\* Cards that get another status.
LEMMA StatusCards ==
    ASSUME QueueInv, NEW i, NEW st \in {"uploading", "done", "error"}, files' = WithStatus(i, st)
    PROVE  /\ files' \subseteq FileEntry /\ \A e, x \in files' : e.id = x.id => e = x
           /\ CardIds' = CardIds
           /\ \A x \in files' : \/ x \in files /\ x.id # i
                                \/ x.id = i /\ x.status = st
<1>1. files \subseteq FileEntry /\ \A e, x \in files : e.id = x.id => e = x BY DEF QueueInv, TypeOK
<1> DEFINE New(e) == IF e.id = i THEN [e EXCEPT !.status = st] ELSE e
<1>2. \A e \in FileEntry : /\ New(e) \in FileEntry /\ New(e).id = e.id
                           /\ (e.id # i => New(e) = e) /\ (e.id = i => New(e).status = st)
  BY DEF FileEntry
<1>3. files' = {New(e) : e \in files} BY DEF WithStatus
<1> HIDE DEF New
<1> QED BY <1>1, <1>2, <1>3 DEF CardIds

\* Whatever is rendered: the button fades with cards of the page, if at all.
LEMMA FadingKept ==
    ASSUME QueueInv, Rerender \/ fading' = {} \/ UNCHANGED fading
    PROVE  fading' \subseteq CardIds \cup fading
BY DEF Rerender, Pending, CardIds

LEMMA IdsKnown ==
    ASSUME QueueInv PROVE CardIds \cup fading \subseteq 1..made /\ 1..made \subseteq Id /\ made \in Nat
BY QueueAssumption DEF QueueInv, Limits, TypeOK, Id

\* Cards come with new ids, or go; the runs and the server have no part in it.
LEMMA CardsComeAndGo ==
    ASSUME QueueInv, SpinInv',
           UNCHANGED <<visit, uploading, doneCount, loop, sent, rows, unheard, again>>, jumps' \in Nat,
           Rerender \/ fading' = {} \/ UNCHANGED fading, made' \in made..MaxEntries,
           \A x \in files' : x \in FileEntry /\ x.id <= made' /\ (x \in files \/ (x.id > made /\ x.status \in {"pending", "error"})),
           \A e, x \in files' : e.id = x.id => e = x,
           files' = {} \/ OnPage
    PROVE  QueueInv'
<1> USE DEF QueueInv
<1>1. fading' \subseteq 1..made /\ fading' \subseteq CardIds \cup fading /\ made \in Nat /\ 1..made \subseteq 1..made'
      /\ 1..made \subseteq Id
  BY FadingKept, IdsKnown
<1>2. CardIds' \subseteq 1..made' BY <1>1 DEF CardIds, FileEntry, Id
<1>3. TypeOK'
  <2>1. made' \in 0..MaxEntries BY <1>1, QueueAssumption DEF TypeOK
  <2>2. files' \subseteq FileEntry OBVIOUS
  <2>3. fading' \subseteq Id BY <1>1
  <2> QED BY <2>1, <2>2, <2>3 DEF TypeOK
<1>4. Limits'
  BY <1>1, <1>2 DEF Limits, OnPage, Current, Id, TypeOK
<1>5. \A p \in Loop : (Active(p)' <=> Active(p)) /\ (Here(p)' <=> Here(p)) /\ (Single(p)' <=> Single(p))
                      /\ Unsent(p)' = Unsent(p) /\ Current(p)' = Current(p)
  BY DEF Active, Here, Single, Unsent, Current
<1>6. Separate'
  <2>1. \A p \in Loop : loop[p].todo \subseteq 1..made BY DEF Limits
  <2>2. CardIds' \cap (1..made) \subseteq CardIds BY <1>1 DEF CardIds
  <2>3. \A p \in Loop : Active(p) /\ ~Here(p) => loop'[p].todo \cap (CardIds' \cup fading') = {}
    BY <1>1, <2>1, <2>2 DEF Separate
  <2> QED BY <1>5, <2>3 DEF Separate
<1>7. Ahead' BY <1>5 DEF Ahead
<1>8. CardsTell'
  <2> SUFFICES ASSUME ClickedOnce PROVE CardsTell' BY DEF CardsTell, ClickedOnce
  <2>1. \A x \in files' : x \notin files => x.id \in Id /\ sent[x.id] = 0 /\ rows[x.id] = 0
                                              /\ x.status \in {"pending", "error"}
                                              /\ \A p \in Loop : x.id \notin loop[p].todo
    BY <1>1 DEF Limits, FileEntry
  <2>2. \A p \in Loop : Unsent(p) \subseteq loop[p].todo
                        /\ (loop[p].pc = "wait" => Current(p) \in loop[p].todo)
    BY CurrentIs DEF Unsent, Limits
  <2>3. \A e \in files' :
            /\ e.status = "pending" => sent'[e.id] = 0 /\ rows'[e.id] = 0
            /\ e.status = "uploading" => \E p \in Loop : Here(p)' /\ loop'[p].pc = "wait" /\ Current(p)' = e.id
            /\ e.status = "done" => rows'[e.id] = 1
            /\ e.status = "error" => rows'[e.id] = 0 \/ e.id \in unheard'
    BY <1>5, <2>1 DEF CardsTell
  <2>4. \A p \in Loop : Active(p) /\ Here(p) =>
            /\ \A e \in files' : e.id \in Unsent(p) => e.status = "pending"
            /\ \A e \in files' : loop[p].pc = "wait" /\ e.id = Current(p) => e.status = "uploading"
            /\ doneCount = loop[p].done
    BY <2>1, <2>2 DEF CardsTell
  <2> QED BY <1>5, <2>3, <2>4 DEF CardsTell
<1>9. Counts'
  <2>1. Stored \subseteq Stored' BY <1>1 DEF Stored
  <2>2. IsFiniteSet(Stored') /\ Cardinality(Stored') \in Nat
    <3>1. Stored' \subseteq Id BY QueueAssumption, <1>1 DEF Stored, Id
    <3> QED BY <3>1, IdsFinite
  <2>3. Cardinality(Stored) <= Cardinality(Stored') /\ Cardinality(Stored) \in Nat BY <2>1, <2>2, FS_Subset, FS_CardinalityType
  <2>4. \A p \in Loop : loop[p].done \in Nat BY DEF TypeOK
  <2> QED BY <1>5, <2>2, <2>3, <2>4 DEF Counts, ClickedOnce
<1> QED BY <1>3, <1>4, <1>6, <1>7, <1>8, <1>9 DEF SentOnce

\* A page that is left, or opened again, has no cards, and its runs are of the past.
LEMMA VisitEnds ==
    ASSUME QueueInv, SpinInv', visit' = visit + 1, visit' <= 2 * MaxVisits, files' = {}, fading' = {},
           uploading' = FALSE, doneCount' \in 0..MaxEntries, jumps' \in Nat,
           UNCHANGED <<loop, made, sent, rows, unheard, again>>
    PROVE  QueueInv'
<1> USE DEF QueueInv
<1>1. visit \in Nat /\ visit' \in Nat /\ (\A p \in Loop : loop[p].visit <= visit /\ loop[p].visit \in Nat) /\ again \subseteq 1..visit
  BY DEF SpinInv, VisitsKnown
<1>2. \A p \in Loop : (Active(p)' <=> Active(p)) /\ ~Here(p)' /\ (Single(p)' <=> Single(p))
                      /\ Unsent(p)' = Unsent(p) /\ Current(p)' = Current(p)
  BY <1>1 DEF Active, Here, Single, Unsent, Current
<1>3. CardIds' = {} BY DEF CardIds
<1>4. TypeOK'
  <2>1. visit' \in 1..(2 * MaxVisits) /\ again' \subseteq 1..visit' BY <1>1
  <2>2. uploading' \in BOOLEAN BY DEF SpinInv, VisitsKnown
  <2> QED BY <2>1, <2>2 DEF TypeOK
<1>5. Limits' BY <1>2, <1>3 DEF Limits
<1>6. Separate' BY <1>2, <1>3 DEF Separate
<1>7. Ahead' /\ Counts' /\ SentOnce' BY <1>2 DEF Ahead, Counts, SentOnce
<1>8. CardsTell' BY <1>2 DEF CardsTell
<1> QED BY <1>4, <1>5, <1>6, <1>7, <1>8

\* In a visit where the button was clicked as it is meant to be, a run is alone.
LEMMA Alone ==
    ASSUME QueueInv, ClickedOnce, NEW p \in Loop, NEW q \in Loop, Active(p), Here(p), Active(q), Here(q)
    PROVE  p = q
BY DEF QueueInv, SpinInv, OneRun, Running

\* A run begins, with cards of the page: the pending ones, or those of the
\* button that fades, and then the visit is one in which it was clicked twice.
LEMMA RunBegins ==
    ASSUME QueueInv, SpinInv', NEW p \in Loop, NEW s, Start(p, s), s \subseteq CardIds \cup fading, OnPage,
           Rerender \/ fading' = {},
           (again' = again /\ s = Pending(files) /\ ~uploading) \/ again' = again \cup {visit}
    PROVE  QueueInv'
<1> USE DEF QueueInv
<1> DEFINE new == [pc |-> "next", visit |-> visit, todo |-> s, done |-> 0]
<1>1. /\ loop[p].pc = "idle" /\ uploading' = TRUE /\ doneCount' = 0 /\ loop' = [loop EXCEPT ![p] = new]
      /\ UNCHANGED <<visit, made, files, sent, rows, unheard, jumps>>
  BY DEF Start, page, server
<1>2. DOMAIN loop = Loop /\ visit \in 1..(2 * MaxVisits) /\ again \subseteq 1..visit BY DEF TypeOK
<1>3. loop'[p] = new /\ DOMAIN loop' = Loop /\ \A q \in Loop \ {p} : loop'[q] = loop[q]
  BY <1>1, <1>2
<1>4. /\ loop'[p].pc = "next" /\ loop'[p].visit = visit /\ loop'[p].todo = s /\ loop'[p].done = 0
  BY <1>3
<1> HIDE DEF new
<1>5. \A q \in Loop \ {p} : (Active(q)' <=> Active(q)) /\ (Here(q)' <=> Here(q)) /\ Unsent(q)' = Unsent(q)
                            /\ Current(q)' = Current(q) /\ (Single(q)' => Single(q))
  BY <1>1, <1>3 DEF Active, Here, Single, Unsent, Current
<1>6. Active(p)' /\ Here(p)' /\ Unsent(p)' = s /\ ~Active(p)
  BY <1>1, <1>4 DEF Active, Here, Unsent
<1>7. /\ s \subseteq 1..made /\ s \subseteq Id /\ fading' \subseteq CardIds \cup fading /\ CardIds' = CardIds
      /\ fading' \subseteq 1..made /\ fading' \subseteq Id
  <2>1. fading' \subseteq CardIds \cup fading BY FadingKept
  <2> QED BY <1>1, <2>1, IdsKnown DEF CardIds
<1>8. TypeOK'
  <2>1. again' \subseteq 1..visit' /\ uploading' \in BOOLEAN BY DEF SpinInv, VisitsKnown
  <2>2. \A q \in Loop : /\ loop'[q].pc \in {"idle", "next", "wait"} /\ loop'[q].todo \subseteq Id
                        /\ loop'[q].done \in 0..MaxEntries /\ loop'[q].visit \in 0..(2 * MaxVisits)
    <3>1. \A q \in Loop \ {p} : /\ loop[q].pc \in {"idle", "next", "wait"} /\ loop[q].todo \subseteq Id
                                /\ loop[q].done \in 0..MaxEntries /\ loop[q].visit \in 0..(2 * MaxVisits)
      BY DEF TypeOK
    <3>2. 0 \in 0..MaxEntries /\ visit \in 0..(2 * MaxVisits) BY <1>2, QueueAssumption
    <3> QED BY <1>3, <1>4, <1>7, <3>1, <3>2
  <2>3. /\ visit' \in 1..(2 * MaxVisits) /\ made' \in 0..MaxEntries /\ doneCount' \in 0..MaxEntries
        /\ files' \subseteq FileEntry /\ \A e, x \in files' : e.id = x.id => e = x
        /\ sent' \in [Id -> Nat] /\ rows' \in [Id -> Nat] /\ jumps' \in Nat /\ unheard' \subseteq Id
    BY <1>1, QueueAssumption DEF TypeOK, Start, page, server
  <2> QED BY <1>3, <1>7, <2>1, <2>2, <2>3, Zenon DEF TypeOK
<1>9. Limits'
  <2>0. Cardinality(s) \in Nat /\ Cardinality(s) <= MaxEntries BY <1>7, IdsFinite
  <2>1. loop'[p].done + Cardinality(loop'[p].todo) <= MaxEntries BY <1>4, <2>0
  <2> QED BY <1>1, <1>3, <1>4, <1>7, <2>1 DEF Limits, OnPage
<1>10. again' = again => (ClickedOnce => \A q \in Loop : Active(q) => ~Here(q))
  BY <1>2 DEF SpinInv, SpinnerHonest, ClickedOnce
<1>11. Separate'
  <2>1. \A q \in Loop \ {p} : Active(q) /\ loop[q].visit # visit => loop[q].todo \cap s = {}
    BY DEF Separate, Here
  <2>2. \A q, u \in Loop : Active(q)' /\ Active(u)' /\ loop'[q].visit # loop'[u].visit =>
          loop'[q].todo \cap loop'[u].todo = {}
    BY <1>3, <1>4, <1>5, <2>1 DEF Separate
  <2>3. \A q \in Loop : Active(q)' /\ ~Here(q)' => loop'[q].todo \cap (CardIds' \cup fading') = {}
    BY <1>3, <1>5, <1>6, <1>7 DEF Separate
  <2>4. ASSUME NEW q \in Loop, NEW u \in Loop, Single(q)', Active(u)', loop'[u].visit = loop'[q].visit PROVE q = u
    <3>1. CASE q # p /\ u # p BY <1>3, <1>5, <2>4, <3>1 DEF Separate
    <3>2. CASE loop'[q].visit = visit /\ q # u
      <4>1. again' = again /\ ClickedOnce BY <1>1, <2>4, <3>2 DEF Single, ClickedOnce
      <4>2. \A x \in Loop \ {p} : Active(x)' => loop'[x].visit # visit
        BY <1>3, <1>5, <1>10, <4>1 DEF Here
      <4> QED BY <2>4, <3>2, <4>2 DEF Single
    <3> QED BY <1>4, <2>4, <3>1, <3>2
  <2> QED BY <2>2, <2>3, <2>4 DEF Separate
<1>12. ClickedOnce' => again' = again /\ ClickedOnce BY <1>1 DEF ClickedOnce
<1>13. ClickedOnce' => \A e \in files : (e.id \in s <=> e.status = "pending")
  <2> SUFFICES ASSUME ClickedOnce' PROVE \A e \in files : (e.id \in s <=> e.status = "pending")
    OBVIOUS
  <2>1. s = Pending(files) BY <1>1 DEF ClickedOnce
  <2>2. \A e, x \in files : e.id = x.id => e = x BY DEF TypeOK
  <2> QED BY <2>1, <2>2 DEF Pending
<1>14. Ahead'
  <2>1. Single(p)' => \A i \in s : sent[i] = 0 /\ rows[i] = 0
    <3> SUFFICES ASSUME Single(p)' PROVE \A i \in s : sent[i] = 0 /\ rows[i] = 0
      OBVIOUS
    <3>1. ClickedOnce' BY <1>1, <1>4 DEF Single, ClickedOnce
    <3>2. s = Pending(files) BY <1>1, <3>1 DEF ClickedOnce
    <3> QED BY <1>12, <3>1, <3>2 DEF Pending, CardsTell
  <2> QED BY <1>1, <1>3, <1>4, <1>5, <1>6, <2>1 DEF Ahead
<1>15. CardsTell'
  <2> SUFFICES ASSUME ClickedOnce' PROVE CardsTell' BY DEF CardsTell
  <2>1. \A q \in Loop : Active(q)' /\ Here(q)' => q = p BY <1>5, <1>10, <1>12
  <2>2. \A q \in Loop : Here(q) /\ loop[q].pc = "wait" => Here(q)' /\ loop'[q].pc = "wait" /\ Current(q)' = Current(q)
    BY <1>1, <1>3, <1>5
  <2> QED BY <1>1, <1>4, <1>6, <1>12, <1>13, <2>1, <2>2 DEF CardsTell
<1>16. Counts'
  <2>1. ClickedOnce' => \A q \in Loop : Active(q)' /\ Here(q)' => q = p BY <1>5, <1>10, <1>12
  <2>2. Stored' \subseteq Id BY <1>1, QueueAssumption DEF Stored, TypeOK, Id
  <2>3. Cardinality(Stored') \in Nat BY <2>2, IdsFinite
  <2> QED BY <1>4, <2>1, <2>3 DEF Counts
<1>17. SentOnce' BY <1>1, <1>2 DEF SentOnce
<1> QED BY <1>8, <1>9, <1>11, <1>14, <1>15, <1>16, <1>17

\* A round of a run: it sends the card it is at, or has its answer.
Round(p, st, l) ==
    /\ Active(p) /\ loop[p].todo # {} /\ files' = WithStatus(Current(p), st) /\ loop' = [loop EXCEPT ![p] = l]
    /\ l.visit = loop[p].visit
    /\ \/ /\ loop[p].pc = "next" /\ l.pc = "wait" /\ st = "uploading"
          /\ l.todo = loop[p].todo /\ l.done = loop[p].done
       \/ /\ loop[p].pc = "wait" /\ l.pc = "next" /\ st \in {"done", "error"}
          /\ l.todo = loop[p].todo \ {Current(p)} /\ l.done \in {loop[p].done, loop[p].done + 1}
    /\ UNCHANGED <<visit, uploading, made, jumps, again>> /\ Rerender

LEMMA RoundLoops ==
    ASSUME QueueInv, NEW p \in Loop, NEW st, NEW l, Round(p, st, l)
    PROVE  /\ loop'[p] = l /\ DOMAIN loop' = Loop /\ \A q \in Loop \ {p} : loop'[q] = loop[q]
           /\ \A q \in Loop : (Active(q)' <=> Active(q)) /\ (Here(q)' <=> Here(q)) /\ (Single(q)' <=> Single(q))
                              /\ loop'[q].visit = loop[q].visit /\ loop'[q].todo \subseteq loop[q].todo
           /\ \A q \in Loop \ {p} : Unsent(q)' = Unsent(q) /\ Current(q)' = Current(q)
           /\ Unsent(p)' = loop[p].todo \ {Current(p)}
           /\ l.pc = "wait" => Current(p)' = Current(p)
<1>1. DOMAIN loop = Loop BY DEF QueueInv, TypeOK
<1>2. loop'[p] = l /\ DOMAIN loop' = Loop /\ \A q \in Loop \ {p} : loop'[q] = loop[q] BY <1>1 DEF Round
<1>3. \A q \in Loop : (Active(q)' <=> Active(q)) /\ loop'[q].visit = loop[q].visit /\ loop'[q].todo \subseteq loop[q].todo
  BY <1>2 DEF Round, Active
<1>4. \A q \in Loop : (Here(q)' <=> Here(q)) /\ (Single(q)' <=> Single(q))
  BY <1>3 DEF Round, Here, Single
<1>5. \A q \in Loop \ {p} : Unsent(q)' = Unsent(q) /\ Current(q)' = Current(q)
  BY <1>2 DEF Unsent, Current
<1>6. (l.pc = "wait" => Current(p)' = Current(p)) /\ Unsent(p)' = loop[p].todo \ {Current(p)}
  BY <1>2 DEF Round, Unsent, Current
<1> QED BY <1>2, <1>3, <1>4, <1>5, <1>6

\* Nobody else has the card, and it is not on the page of a later visit.
LEMMA OwnCard ==
    ASSUME QueueInv, NEW p \in Loop, Active(p), loop[p].todo # {}
    PROVE  /\ \A q \in Loop \ {p} : Single(q) => Current(p) \notin loop[q].todo
           /\ ~Here(p) => Current(p) \notin CardIds
<1>1. Current(p) \in loop[p].todo BY CurrentIs
<1>2. ASSUME NEW q \in Loop \ {p}, Single(q) PROVE Current(p) \notin loop[q].todo
  BY <1>1, <1>2 DEF QueueInv, Separate, Single
<1> QED BY <1>1, <1>2 DEF QueueInv, Separate

\* The part of the invariant that does not ask what became of the file.
LEMMA RoundKeeps ==
    ASSUME QueueInv, SpinInv', NEW p \in Loop, NEW st, NEW l, Round(p, st, l),
           sent' \in [Id -> Nat], rows' \in [Id -> Nat], unheard' \subseteq Id,
           doneCount' = doneCount \/ (doneCount' = loop[p].done + 1 /\ l.pc = "next"),
           \A j \in Id : j # Current(p) => sent'[j] = sent[j] /\ rows'[j] = rows[j]
    PROVE  TypeOK' /\ Limits' /\ Separate'
<1> USE DEF QueueInv
<1>1. /\ loop'[p] = l /\ DOMAIN loop' = Loop /\ \A q \in Loop \ {p} : loop'[q] = loop[q]
      /\ \A q \in Loop : (Active(q)' <=> Active(q)) /\ (Here(q)' <=> Here(q)) /\ (Single(q)' <=> Single(q))
                         /\ loop'[q].visit = loop[q].visit /\ loop'[q].todo \subseteq loop[q].todo
  BY RoundLoops
<1>2. Current(p) \in loop[p].todo /\ Current(p) \in 1..made /\ Current(p) \in Id BY CurrentIs DEF Round
<1>3. /\ files' \subseteq FileEntry /\ \A e, x \in files' : e.id = x.id => e = x
      /\ CardIds' = CardIds
  BY StatusCards DEF Round
<1>4. /\ fading' \subseteq CardIds \cup fading /\ fading' \subseteq 1..made /\ fading' \subseteq Id
      /\ UNCHANGED <<visit, uploading, made, jumps, again>>
  BY FadingKept, IdsKnown DEF Round
<1>5. /\ loop[p].done \in Nat /\ loop[p].done <= MaxEntries /\ doneCount \in 0..MaxEntries /\ loop[p].todo \subseteq Id
      /\ loop[p].done + Cardinality(loop[p].todo) <= MaxEntries /\ loop[p].visit \in 0..(2 * MaxVisits)
  BY QueueAssumption DEF TypeOK, Limits
<1>6. /\ IsFiniteSet(loop[p].todo) /\ Cardinality(loop[p].todo) \in Nat
      /\ Cardinality(loop[p].todo \ {Current(p)}) = Cardinality(loop[p].todo) - 1
      /\ Cardinality(loop[p].todo \ {Current(p)}) \in Nat
  <2>1. IsFiniteSet(loop[p].todo) /\ Cardinality(loop[p].todo) \in Nat BY <1>5, IdsFinite
  <2>2. IsFiniteSet(loop[p].todo \ {Current(p)})
        /\ Cardinality(loop[p].todo \ {Current(p)}) = Cardinality(loop[p].todo) - 1
    BY <1>2, <2>1, FS_RemoveElement
  <2> QED BY <2>1, <2>2, FS_CardinalityType
<1>7. l.done + Cardinality(l.todo) <= MaxEntries /\ l.done \in 0..MaxEntries
  <2>1. CASE l.todo = loop[p].todo /\ l.done = loop[p].done BY <1>5, <2>1, QueueAssumption
  <2>2. CASE l.todo = loop[p].todo \ {Current(p)} /\ l.done \in {loop[p].done, loop[p].done + 1}
    BY <1>5, <1>6, <2>2, QueueAssumption
  <2> QED BY <2>1, <2>2 DEF Round
<1>8. doneCount' \in 0..MaxEntries
  <2>1. CASE doneCount' = doneCount BY <1>5, <2>1
  <2>2. CASE doneCount' = loop[p].done + 1 /\ l.pc = "next"
    <3>1. loop[p].done + 1 \in 0..MaxEntries BY <1>5, <1>6, QueueAssumption
    <3> QED BY <2>2, <3>1
  <2> QED BY <2>1, <2>2
<1>9. l.pc \in {"next", "wait"} /\ l.todo \subseteq loop[p].todo /\ l.visit = loop[p].visit
      /\ (l.pc = "wait" => l.todo # {})
  BY DEF Round
<1>10. TypeOK'
  <2>1. \A q \in Loop : /\ loop'[q].pc \in {"idle", "next", "wait"} /\ loop'[q].todo \subseteq Id
                        /\ loop'[q].done \in 0..MaxEntries /\ loop'[q].visit \in 0..(2 * MaxVisits)
    <3>1. \A q \in Loop \ {p} : /\ loop[q].pc \in {"idle", "next", "wait"} /\ loop[q].todo \subseteq Id
                                /\ loop[q].done \in 0..MaxEntries /\ loop[q].visit \in 0..(2 * MaxVisits)
      BY DEF TypeOK
    <3> QED BY <1>1, <1>5, <1>7, <1>9, <3>1
  <2>2. /\ visit' \in 1..(2 * MaxVisits) /\ made' \in 0..MaxEntries /\ again' \subseteq 1..visit' /\ jumps' \in Nat
        /\ uploading' \in BOOLEAN
    BY <1>4 DEF TypeOK
  <2> QED BY <1>1, <1>3, <1>4, <1>8, <2>1, <2>2, Zenon DEF TypeOK
<1>11. Limits'
  <2>1. ~OnPage' => files' = {} BY <1>4 DEF Limits, OnPage, Round, WithStatus
  <2>2. \A q \in Loop : /\ loop'[q].todo \subseteq 1..made'
                        /\ loop'[q].done + Cardinality(loop'[q].todo) <= MaxEntries
                        /\ loop'[q].pc = "wait" => loop'[q].todo # {}
    BY <1>1, <1>4, <1>7, <1>9 DEF Limits
  <2>3. \A j \in Id : j > made' => sent'[j] = 0 /\ rows'[j] = 0
    BY <1>2, <1>4 DEF Limits, TypeOK
  <2> QED BY <1>3, <1>4, <2>1, <2>2, <2>3 DEF Limits
<1>12. Separate'
  <2>1. \A q, u \in Loop : Active(q) /\ Active(u) /\ loop[q].visit # loop[u].visit => loop'[q].todo \cap loop'[u].todo = {}
    BY <1>1 DEF Separate
  <2>2. \A q \in Loop : Active(q) /\ ~Here(q) => loop'[q].todo \cap (CardIds' \cup fading') = {}
    BY <1>1, <1>3, <1>4 DEF Separate
  <2>3. \A q, u \in Loop : Single(q) /\ Active(u) /\ loop[u].visit = loop[q].visit => q = u
    BY DEF Separate
  <2> QED BY <1>1, <2>1, <2>2, <2>3 DEF Separate
<1> QED BY <1>10, <1>11, <1>12

\* The part that does.
LEMMA RoundTells ==
    ASSUME QueueInv, NEW p \in Loop, NEW st \in {"uploading", "done", "error"}, NEW l, Round(p, st, l),
           rows' \in [Id -> Nat],
           \A j \in Id : j # Current(p) => sent'[j] = sent[j] /\ rows'[j] = rows[j],
           rows'[Current(p)] >= rows[Current(p)], unheard \subseteq unheard',
           st = "uploading" => rows'[Current(p)] = rows[Current(p)],
           st = "done" => rows'[Current(p)] = rows[Current(p)] + 1 /\ l.done = loop[p].done + 1,
           st = "error" => (rows'[Current(p)] = rows[Current(p)] \/ Current(p) \in unheard') /\ l.done = loop[p].done,
           doneCount' = IF Here(p) /\ st = "done" THEN loop[p].done + 1 ELSE doneCount
    PROVE  Ahead' /\ CardsTell' /\ Counts'
<1> USE DEF QueueInv
<1> DEFINE i == Current(p)
<1>1. /\ loop'[p] = l /\ DOMAIN loop' = Loop /\ \A q \in Loop \ {p} : loop'[q] = loop[q]
      /\ \A q \in Loop : (Active(q)' <=> Active(q)) /\ (Here(q)' <=> Here(q)) /\ (Single(q)' <=> Single(q))
      /\ \A q \in Loop \ {p} : Unsent(q)' = Unsent(q) /\ Current(q)' = Current(q)
      /\ Unsent(p)' = loop[p].todo \ {i} /\ (l.pc = "wait" => Current(p)' = i)
  BY RoundLoops
<1>2. i \in loop[p].todo /\ i \in 1..made /\ i \in Id /\ Active(p) BY CurrentIs DEF Round
<1>3. /\ \A q \in Loop \ {p} : Single(q) => i \notin loop[q].todo
      /\ ~Here(p) => i \notin CardIds
  BY OwnCard DEF Round
<1>4. /\ CardIds' = CardIds
      /\ \A x \in files' : (x \in files /\ x.id # i) \/ (x.id = i /\ x.status = st)
  BY StatusCards DEF Round
<1>5. \A q \in Loop : /\ loop[q].todo \subseteq Id /\ Unsent(q) \subseteq loop[q].todo
                      /\ (loop[q].pc = "wait" => Current(q) \in loop[q].todo)
  BY CurrentIs DEF Unsent, Limits, TypeOK
<1>6. Single(p) => rows[i] = 0 /\ (l.pc = "wait" => st = "uploading") /\ \A j \in loop[p].todo \ {i} : sent[j] = 0 /\ rows[j] = 0
  BY <1>2 DEF Ahead, Round, Unsent
<1>7. \A x \in CardIds : x \in Id BY IdsKnown
<1>8. (ClickedOnce' <=> ClickedOnce) /\ made' = made BY DEF Round, ClickedOnce
<1>9. ClickedOnce /\ Here(p) => Single(p) BY <1>2 DEF Single, Here, ClickedOnce
<1>a. (l.pc = "wait" => st = "uploading") /\ (st = "uploading" => l.pc = "wait")
      /\ (loop[p].pc = "wait" => st # "uploading")
  BY DEF Round
<1> HIDE DEF i
<1>10. Ahead'
  <2>1. ASSUME NEW q \in Loop \ {p}, Single(q)
        PROVE  /\ \A j \in Unsent(q)' : sent'[j] = 0 /\ rows'[j] = 0
               /\ loop'[q].pc = "wait" => rows'[Current(q)'] = 0
    <3>1. \A j \in loop[q].todo : j \in Id /\ j # i BY <1>3, <1>5, <2>1
    <3>2. \A j \in loop[q].todo : sent'[j] = sent[j] /\ rows'[j] = rows[j] BY <3>1 DEF i
    <3> QED BY <1>1, <1>5, <2>1, <3>2 DEF Ahead
  <2>2. ASSUME Single(p)
        PROVE  /\ \A j \in Unsent(p)' : sent'[j] = 0 /\ rows'[j] = 0
               /\ loop'[p].pc = "wait" => rows'[Current(p)'] = 0
    <3>1. \A j \in loop[p].todo \ {i} : sent'[j] = sent[j] /\ rows'[j] = rows[j] BY <1>5 DEF i
    <3>2. l.pc = "wait" => rows'[i] = 0 BY <1>6, <1>a, <2>2 DEF i
    <3> QED BY <1>1, <1>6, <2>2, <3>1, <3>2
  <2> QED BY <1>1, <2>1, <2>2 DEF Ahead
<1>11. CardsTell'
  <2> SUFFICES ASSUME ClickedOnce PROVE CardsTell' BY <1>8 DEF CardsTell
  <2>1. ASSUME NEW x \in files', x \in files, x.id # i
        PROVE  /\ x.status = "pending" => sent'[x.id] = 0 /\ rows'[x.id] = 0
               /\ x.status = "uploading" => \E q \in Loop : Here(q)' /\ loop'[q].pc = "wait" /\ Current(q)' = x.id
               /\ x.status = "done" => rows'[x.id] = 1
               /\ x.status = "error" => rows'[x.id] = 0 \/ x.id \in unheard'
    <3>1. x.id \in Id BY <1>7, <2>1 DEF CardIds
    <3>2. sent'[x.id] = sent[x.id] /\ rows'[x.id] = rows[x.id] BY <2>1, <3>1 DEF i
    <3>3. ASSUME NEW q \in Loop, Here(q), loop[q].pc = "wait", Current(q) = x.id
          PROVE  Here(q)' /\ loop'[q].pc = "wait" /\ Current(q)' = x.id
      <4>1. q # p BY <2>1, <3>3 DEF i
      <4> QED BY <1>1, <3>3, <4>1
    <3> QED BY <2>1, <3>2, <3>3 DEF CardsTell
  <2>2. ASSUME NEW x \in files', x.id = i, x.status = st
        PROVE  /\ x.status # "pending"
               /\ x.status = "uploading" => \E q \in Loop : Here(q)' /\ loop'[q].pc = "wait" /\ Current(q)' = x.id
               /\ x.status = "done" => rows'[x.id] = 1
               /\ x.status = "error" => rows'[x.id] = 0 \/ x.id \in unheard'
    <3>1. Here(p) BY <1>3, <1>4, <2>2 DEF CardIds
    <3>2. rows[i] = 0 BY <1>6, <1>9, <3>1
    <3>3. st = "uploading" => Here(p)' /\ loop'[p].pc = "wait" /\ Current(p)' = i BY <1>1, <1>a, <3>1
    <3>4. (st = "done" => rows'[i] = 1) /\ (st = "error" => rows'[i] = 0 \/ i \in unheard')
      BY <3>2 DEF i
    <3> QED BY <2>2, <3>3, <3>4
  <2>3. ASSUME NEW q \in Loop, Active(q), Here(q)
        PROVE  /\ \A x \in files' : x.id \in Unsent(q)' => x.status = "pending"
               /\ \A x \in files' : loop'[q].pc = "wait" /\ x.id = Current(q)' => x.status = "uploading"
               /\ doneCount' = loop'[q].done
    <3>1. CASE q = p
      <4>1. \A x \in files : x.id \in loop[p].todo /\ x.id # i => x.status = "pending"
        BY <2>3, <3>1 DEF CardsTell, Unsent, i
      <4>2. doneCount' = l.done
        <5>1. doneCount = loop[p].done BY <2>3, <3>1 DEF CardsTell
        <5>2. st = "uploading" => l.done = loop[p].done BY DEF Round
        <5> QED BY <2>3, <3>1, <5>1, <5>2
      <4> QED BY <1>1, <1>4, <1>a, <3>1, <4>1, <4>2
    <3>2. CASE q # p
      <4>1. ~Here(p) BY <1>2, <2>3, <3>2, Alone
      <4>2. \A x \in files' : x \in files BY <1>3, <1>4, <4>1 DEF CardIds
      <4> QED BY <1>1, <2>3, <3>2, <4>1, <4>2 DEF CardsTell
    <3> QED BY <3>1, <3>2
  <2> QED BY <1>1, <1>4, <1>8, <2>1, <2>2, <2>3 DEF CardsTell
<1>12. Counts'
  <2> SUFFICES ASSUME ClickedOnce, NEW q \in Loop, Active(q), Here(q) PROVE loop'[q].done <= Cardinality(Stored')
    BY <1>1, <1>8 DEF Counts
  <2>1. Stored \subseteq Id /\ Stored' \subseteq Id BY <1>8, IdsKnown DEF Stored
  <2>2. /\ IsFiniteSet(Stored) /\ Cardinality(Stored) \in Nat
        /\ IsFiniteSet(Stored') /\ Cardinality(Stored') \in Nat
    BY <2>1, IdsFinite
  <2>3. \A j \in Stored : j # i => j \in Stored'
    BY <1>4, <1>8, <2>1 DEF Stored, i
  <2>4. loop[q].done <= Cardinality(Stored) /\ loop[q].done \in Nat BY DEF Counts, TypeOK
  <2>5. CASE q = p
    <3>1. rows[i] = 0 BY <1>6, <1>9, <2>5
    <3>2. i \notin Stored BY <3>1 DEF Stored
    <3>3. Cardinality(Stored) <= Cardinality(Stored') BY <2>2, <2>3, <3>2, FS_Subset
    <3>4. CASE st = "done"
      <4>1. rows'[i] = 1 BY <3>1, <3>4 DEF i
      <4>2. i \in Stored' BY <1>2, <1>4, <1>8, <3>4, <4>1 DEF Stored
      <4>3. IsFiniteSet(Stored \cup {i}) /\ Cardinality(Stored \cup {i}) = Cardinality(Stored) + 1
        BY <2>2, <3>2, FS_AddElement
      <4>4. Cardinality(Stored \cup {i}) <= Cardinality(Stored') BY <2>2, <2>3, <4>2, FS_Subset
      <4> QED BY <1>1, <2>2, <2>4, <2>5, <3>4, <4>3, <4>4
    <3>5. CASE st # "done"
      <4>1. l.done = loop[p].done BY <3>5 DEF Round
      <4> QED BY <1>1, <2>2, <2>4, <2>5, <3>3, <4>1
    <3> QED BY <3>4, <3>5
  <2>6. CASE q # p
    <3>1. ~Here(p) BY <1>2, <2>6, Alone
    <3>2. i \notin CardIds BY <1>3, <3>1
    <3>3. i \in Stored => rows'[i] > 0 BY <1>2 DEF Stored, i, TypeOK
    <3>4. Stored \subseteq Stored' BY <1>4, <1>8, <2>3, <3>2, <3>3 DEF Stored, CardIds
    <3>5. Cardinality(Stored) <= Cardinality(Stored') BY <2>2, <3>4, FS_Subset
    <3> QED BY <1>1, <2>2, <2>4, <2>6, <3>5
  <2> QED BY <2>5, <2>6
<1> QED BY <1>10, <1>11, <1>12

\* A run that is at the end of its list.
LEMMA RunEnds == ASSUME QueueInv, SpinInv', NEW p \in Loop, Finish(p) PROVE QueueInv'
<1> USE DEF QueueInv
<1>1. /\ loop[p].pc = "next" /\ loop[p].todo = {} /\ loop' = [loop EXCEPT ![p] = Idle] /\ jumps' \in {jumps, jumps + 1}
      /\ UNCHANGED <<visit, made, files, doneCount, sent, rows, unheard, again>> /\ Rerender
  BY DEF Finish, page, server
<1>2. DOMAIN loop = Loop BY DEF TypeOK
<1>3. loop'[p] = Idle /\ DOMAIN loop' = Loop /\ \A q \in Loop \ {p} : loop'[q] = loop[q]
  BY <1>1, <1>2
<1>4. loop'[p].pc = "idle" /\ loop'[p].todo = {} /\ loop'[p].done = 0 /\ loop'[p].visit = 0 BY <1>3 DEF Idle
<1>5. ~Active(p)' /\ \A q \in Loop \ {p} : (Active(q)' <=> Active(q)) /\ (Here(q)' <=> Here(q)) /\ (Single(q)' <=> Single(q))
                                           /\ Unsent(q)' = Unsent(q) /\ Current(q)' = Current(q)
  BY <1>1, <1>3, <1>4 DEF Active, Here, Single, Unsent, Current
<1>6. /\ fading' \subseteq CardIds \cup fading /\ fading' \subseteq 1..made /\ fading' \subseteq Id
      /\ CardIds' = CardIds /\ Stored' = Stored
  <2>1. fading' \subseteq CardIds \cup fading BY <1>1, FadingKept
  <2> QED BY <1>1, <2>1, IdsKnown DEF CardIds, Stored
<1>7. TypeOK'
  <2>1. \A q \in Loop : /\ loop'[q].pc \in {"idle", "next", "wait"} /\ loop'[q].todo \subseteq Id
                        /\ loop'[q].done \in 0..MaxEntries /\ loop'[q].visit \in 0..(2 * MaxVisits)
    <3>1. \A q \in Loop \ {p} : /\ loop[q].pc \in {"idle", "next", "wait"} /\ loop[q].todo \subseteq Id
                                /\ loop[q].done \in 0..MaxEntries /\ loop[q].visit \in 0..(2 * MaxVisits)
      BY DEF TypeOK
    <3>2. 0 \in 0..MaxEntries /\ 0 \in 0..(2 * MaxVisits) BY QueueAssumption
    <3> QED BY <1>3, <1>4, <3>1, <3>2
  <2>2. jumps' \in Nat /\ uploading' \in BOOLEAN BY <1>1 DEF TypeOK, SpinInv, VisitsKnown
  <2> QED BY <1>1, <1>3, <1>6, <2>1, <2>2 DEF TypeOK
<1>8. Limits'
  <2>1. Cardinality({}) = 0 BY FS_EmptySet
  <2>2. loop'[p].done + Cardinality(loop'[p].todo) <= MaxEntries BY <1>4, <2>1, QueueAssumption
  <2> QED BY <1>1, <1>3, <1>4, <1>6, <2>2 DEF Limits, OnPage
<1>9. Separate'
  <2>1. ~Single(p)' BY <1>5 DEF Single
  <2>2. \A q \in Loop : loop'[q].todo \subseteq loop[q].todo BY <1>3, <1>4
  <2>3. \A q \in Loop : (Active(q)' => Active(q) /\ q # p) /\ (Single(q)' => Single(q)) /\ (q # p => loop'[q].visit = loop[q].visit)
    BY <1>3, <1>5, <2>1
  <2>4. \A q, u \in Loop : Active(q)' /\ Active(u)' /\ loop'[q].visit # loop'[u].visit => loop'[q].todo \cap loop'[u].todo = {}
    BY <2>2, <2>3 DEF Separate
  <2>5. \A q \in Loop : Active(q)' /\ ~Here(q)' => loop'[q].todo \cap (CardIds' \cup fading') = {}
    BY <1>5, <1>6, <2>2, <2>3 DEF Separate
  <2>6. \A q, u \in Loop : Single(q)' /\ Active(u)' /\ loop'[u].visit = loop'[q].visit => q = u
    <3>1. \A q \in Loop : Single(q)' => q # p BY <2>1
    <3> QED BY <2>3, <3>1 DEF Separate
  <2> QED BY <2>4, <2>5, <2>6 DEF Separate
<1>10. Ahead'
  <2>1. ~Single(p)' BY <1>5 DEF Single
  <2> QED BY <1>1, <1>3, <1>5, <2>1 DEF Ahead
<1>11. CardsTell'
  <2> SUFFICES ASSUME ClickedOnce PROVE CardsTell' BY <1>1 DEF CardsTell, ClickedOnce
  <2>1. \A q \in Loop : Here(q) /\ loop[q].pc = "wait" => Here(q)' /\ loop'[q].pc = "wait" /\ Current(q)' = Current(q)
    BY <1>1, <1>3, <1>5
  <2> QED BY <1>1, <1>3, <1>5, <2>1 DEF CardsTell
<1>12. Counts' BY <1>1, <1>3, <1>5, <1>6 DEF Counts, ClickedOnce
<1> QED BY <1>1, <1>7, <1>8, <1>9, <1>10, <1>11, <1>12 DEF SentOnce

\* A batch of one or two files.
LEMMA BatchIs ==
    ASSUME NEW b \in Batch
    PROVE  Len(b) \in Nat /\ DOMAIN b = 1..Len(b) /\ \A i \in DOMAIN b : b[i] \in File
<1>1. CASE \E f \in File : b = <<f>> BY <1>1
<1>2. CASE b \in File \X File
  <2>1. PICK f, g \in File : b = <<f, g>> BY <1>2
  <2> QED BY <2>1
<1> QED BY <1>1, <1>2 DEF Batch

LEMMA QueueStep == ASSUME QueueInv, [Next]_vars PROVE QueueInv'
<1> USE DEF QueueInv, server, page
<1>0. SpinInv' BY SpinStep
<1>a. made \in 0..MaxEntries /\ jumps \in Nat /\ doneCount \in 0..MaxEntries /\ visit \in 1..(2 * MaxVisits)
      /\ files \subseteq FileEntry /\ \A e, x \in files : e.id = x.id => e = x
  BY DEF TypeOK
<1>b. \A e \in files : e.id <= made BY IdsKnown DEF CardIds
<1>c. 0 \in 0..MaxEntries /\ made \in made..MaxEntries BY <1>a, QueueAssumption
<1>1. ASSUME NEW fresh \in Batch, AddFiles(fresh) PROVE QueueInv'
  <2>1. /\ OnPage /\ made' = made + Len(fresh) /\ made' <= MaxEntries /\ Rerender
        /\ UNCHANGED <<visit, uploading, doneCount, loop, sent, rows, unheard, jumps, again>>
    BY <1>1 DEF AddFiles
  <2>2. made' \in made..MaxEntries BY <1>a, <2>1, BatchIs
  <2> DEFINE card(i) == [id |-> made + i, file |-> fresh[i],
                         status |-> IF fresh[i] \in Refusable THEN "error" ELSE "pending"]
  <2>3. files' = files \cup {card(i) : i \in DOMAIN fresh} BY <1>1 DEF AddFiles
  <2>4. \A i \in DOMAIN fresh : /\ card(i) \in FileEntry /\ card(i).id = made + i /\ card(i).id > made /\ card(i).id <= made'
                                /\ card(i).status \in {"pending", "error"}
    <3> SUFFICES ASSUME NEW i \in DOMAIN fresh
                 PROVE  /\ card(i) \in FileEntry /\ card(i).id = made + i /\ card(i).id > made /\ card(i).id <= made'
                        /\ card(i).status \in {"pending", "error"}
      OBVIOUS
    <3>1. i \in 1..Len(fresh) /\ Len(fresh) \in Nat /\ fresh[i] \in File BY BatchIs
    <3>2. made + i \in Id /\ made + i > made /\ made + i <= made'
      BY <1>a, <2>1, <3>1, QueueAssumption DEF Id
    <3>3. card(i).id = made + i /\ card(i).status \in {"pending", "error"} OBVIOUS
    <3> QED BY <3>1, <3>2, <3>3 DEF FileEntry
  <2>5. \A i, j \in DOMAIN fresh : made + i = made + j => i = j BY <1>a, BatchIs
  <2> HIDE DEF card
  <2>6. \A e, x \in files' : e.id = x.id => e = x
    <3> SUFFICES ASSUME NEW e \in files', NEW x \in files', e.id = x.id PROVE e = x
      OBVIOUS
    <3>1. CASE e \in files /\ x \in files BY <1>a, <3>1
    <3>2. CASE e \notin files /\ x \notin files BY <2>3, <2>4, <2>5, <3>2
    <3>3. \A y \in files : y.id \in Nat BY <1>a DEF FileEntry, Id
    <3>4. \A y \in files' : y \notin files => y.id > made /\ y.id \in Nat BY <2>3, <2>4, <1>a DEF FileEntry, Id
    <3> QED BY <1>a, <1>b, <3>1, <3>2, <3>3, <3>4
  <2>7. \A x \in files' : x \in FileEntry /\ x.id <= made' /\ (x \in files \/ (x.id > made /\ x.status \in {"pending", "error"}))
    <3>1. \A x \in files : x.id \in Nat BY <1>a DEF FileEntry, Id
    <3> QED BY <1>a, <1>b, <2>2, <2>3, <2>4, <3>1
  <2> QED BY <1>0, <1>a, <2>1, <2>2, <2>6, <2>7, CardsComeAndGo
<1>2. ASSUME NEW e \in files, RemoveFile(e) PROVE QueueInv'
  <2>1. /\ files' \subseteq files /\ Rerender /\ OnPage
        /\ UNCHANGED <<visit, uploading, doneCount, loop, made, sent, rows, unheard, jumps, again>>
    BY <1>2 DEF RemoveFile, Limits
  <2> QED BY <1>0, <1>a, <1>b, <1>c, <2>1, CardsComeAndGo
<1>3. CASE ClearAll
  BY <1>0, <1>3, <1>a, <1>c, CardsComeAndGo DEF ClearAll
<1>4. CASE FadeOut
  BY <1>0, <1>4, <1>a, <1>b, <1>c, CardsComeAndGo DEF FadeOut, Limits
<1>5. ASSUME Unmount, OnPage, UNCHANGED <<loop, made, sent, rows, unheard, again>>, jumps' \in Nat PROVE QueueInv'
  <2>1. visit' = visit + 1 /\ files' = {} /\ fading' = {} /\ uploading' = FALSE /\ doneCount' = 0
    BY <1>5 DEF Unmount
  <2>2. visit' <= 2 * MaxVisits BY <1>5, <1>a, <2>1, QueueAssumption DEF OnPage
  <2> QED BY <1>0, <1>5, <1>c, <2>1, <2>2, VisitEnds
<1>6. CASE Leave BY <1>5, <1>6, <1>a DEF Leave
<1>7. CASE Return
  <2>1. /\ ~OnPage /\ visit' = visit + 1 /\ visit < 2 * MaxVisits
        /\ UNCHANGED <<files, uploading, doneCount, fading, loop, made, sent, rows, unheard, jumps, again>>
    BY <1>7 DEF Return
  <2>2. files = {} /\ fading = {} /\ uploading = FALSE BY <2>1 DEF Limits, SpinInv, VisitsKnown
  <2>3. visit' <= 2 * MaxVisits BY <1>a, <2>1, QueueAssumption
  <2> QED BY <1>0, <1>a, <2>1, <2>2, <2>3, VisitEnds
<1>8. CASE Jump
  <2>1. jumps' \in Nat /\ UNCHANGED <<loop, made, sent, rows, unheard, again>> BY <1>8, <1>a DEF Jump
  <2>2. CASE OnPage BY <1>5, <1>8, <2>1, <2>2 DEF Jump
  <2>3. CASE ~OnPage
    <3>1. UNCHANGED <<visit, files, uploading, doneCount, fading>> BY <1>8, <2>3 DEF Jump
    <3>2. files = {} BY <2>3 DEF Limits
    <3> QED BY <1>0, <1>a, <1>c, <2>1, <3>1, <3>2, CardsComeAndGo
  <2> QED BY <2>2, <2>3
<1>9. ASSUME NEW p \in Loop, Click(p) PROVE QueueInv'
  <2>1. OnPage /\ ~uploading /\ Start(p, Pending(files)) /\ UNCHANGED again /\ Rerender BY <1>9 DEF Click, ButtonShown
  <2>2. Pending(files) \subseteq CardIds \cup fading BY DEF Pending, CardIds
  <2> QED BY <1>0, <2>1, <2>2, RunBegins
<1>10. ASSUME NEW p \in Loop, ClickAgain(p) PROVE QueueInv'
  <2>1. OnPage /\ Start(p, fading) /\ again' = again \cup {visit} /\ fading' = {} BY <1>10 DEF ClickAgain, SpinInv, VisitsKnown
  <2> QED BY <1>0, <2>1, RunBegins
<1>d. ASSUME NEW p \in Loop, loop[p].pc \in {"next", "wait"}, loop[p].todo # {}
      PROVE  /\ Current(p) \in Id /\ sent \in [Id -> Nat] /\ rows \in [Id -> Nat] /\ unheard \subseteq Id /\ loop[p].done \in Nat
             /\ Active(p)
  BY <1>d, CurrentIs DEF TypeOK, Active
<1>11. ASSUME NEW p \in Loop, Send(p) PROVE QueueInv'
  <2> DEFINE l == [pc |-> "wait", visit |-> loop[p].visit, todo |-> loop[p].todo, done |-> loop[p].done]
  <2>1. Current(p) \in Id /\ sent \in [Id -> Nat] /\ rows \in [Id -> Nat] /\ unheard \subseteq Id
    BY <1>11, <1>d DEF Send
  <2>2. Round(p, "uploading", l) /\ l.done = loop[p].done /\ l.pc = "wait"
    BY <1>11, <1>d DEF Send, Continue, Round
  <2>3. sent' = [sent EXCEPT ![Current(p)] = @ + 1] /\ UNCHANGED <<rows, unheard, doneCount>> BY <1>11 DEF Send
  <2>4. sent' \in [Id -> Nat] /\ \A j \in Id : j # Current(p) => sent'[j] = sent[j] BY <2>1, <2>3
  <2> HIDE DEF l
  <2>5. TypeOK' /\ Limits' /\ Separate' BY <1>0, <2>1, <2>2, <2>3, <2>4, RoundKeeps
  <2>6. Ahead' /\ CardsTell' /\ Counts' BY <1>a, <2>1, <2>2, <2>3, <2>4, RoundTells
  <2>7. SentOnce'
    <3> SUFFICES ASSUME again = {} PROVE \A j \in Id : sent'[j] <= 1
      BY <2>2 DEF Round, SentOnce
    <3>1. Single(p) /\ Current(p) \in Unsent(p) BY <1>11, <1>d, CurrentIs DEF Single, Unsent, Send
    <3>2. sent[Current(p)] = 0 BY <3>1 DEF Ahead
    <3> QED BY <2>1, <2>3, <3>2 DEF SentOnce
  <2> QED BY <1>0, <2>5, <2>6, <2>7
<1>12. ASSUME NEW p \in Loop, Succeed(p) PROVE QueueInv'
  <2> DEFINE l == [pc |-> "next", visit |-> loop[p].visit, todo |-> loop[p].todo \ {Current(p)}, done |-> loop[p].done + 1]
  <2>0. loop[p].pc = "wait" /\ loop[p].todo # {} BY <1>12 DEF Succeed, Limits
  <2>1. Current(p) \in Id /\ sent \in [Id -> Nat] /\ rows \in [Id -> Nat] /\ unheard \subseteq Id
    BY <2>0, <1>d
  <2>2. Round(p, "done", l) /\ l.done = loop[p].done + 1 /\ l.pc = "next"
    BY <1>12, <2>0, <1>d DEF Succeed, Continue, Round
  <2>3. rows' = [rows EXCEPT ![Current(p)] = @ + 1] /\ UNCHANGED <<sent, unheard, again>>
        /\ doneCount' = IF Here(p) THEN loop[p].done + 1 ELSE doneCount
    BY <1>12 DEF Succeed
  <2>4. rows' \in [Id -> Nat] /\ rows'[Current(p)] = rows[Current(p)] + 1 /\ rows[Current(p)] \in Nat
        /\ \A j \in Id : j # Current(p) => rows'[j] = rows[j]
    BY <2>1, <2>3
  <2> HIDE DEF l
  <2>5. TypeOK' /\ Limits' /\ Separate' BY <1>0, <2>1, <2>2, <2>3, <2>4, RoundKeeps
  <2>6. Ahead' /\ CardsTell' /\ Counts' BY <2>1, <2>2, <2>3, <2>4, RoundTells
  <2> QED BY <1>0, <2>3, <2>5, <2>6 DEF SentOnce
<1>13. ASSUME NEW p \in Loop, Fail(p) PROVE QueueInv'
  <2> DEFINE l == [pc |-> "next", visit |-> loop[p].visit, todo |-> loop[p].todo \ {Current(p)}, done |-> loop[p].done]
  <2>0. loop[p].pc = "wait" /\ loop[p].todo # {} BY <1>13 DEF Fail, Limits
  <2>1. Current(p) \in Id /\ sent \in [Id -> Nat] /\ rows \in [Id -> Nat] /\ unheard \subseteq Id
    BY <2>0, <1>d
  <2>2. Round(p, "error", l) /\ l.done = loop[p].done /\ l.pc = "next"
    BY <1>13, <2>0, <1>d DEF Fail, Continue, Round
  <2>3. UNCHANGED <<sent, doneCount, again>> BY <1>13 DEF Fail
  <2>4. /\ rows' \in [Id -> Nat] /\ unheard' \subseteq Id /\ unheard \subseteq unheard'
        /\ rows'[Current(p)] >= rows[Current(p)] /\ (rows'[Current(p)] = rows[Current(p)] \/ Current(p) \in unheard')
        /\ \A j \in Id : j # Current(p) => rows'[j] = rows[j]
    <3>1. CASE UNCHANGED <<rows, unheard>> BY <2>1, <3>1
    <3>2. CASE StoredUnheard(Current(p)) BY <2>1, <3>2 DEF StoredUnheard
    <3> QED BY <1>13, <3>1, <3>2 DEF Fail
  <2> HIDE DEF l
  <2>5. TypeOK' /\ Limits' /\ Separate' BY <1>0, <2>1, <2>2, <2>3, <2>4, RoundKeeps
  <2>6. Ahead' /\ CardsTell' /\ Counts' BY <2>2, <2>3, <2>4, RoundTells
  <2> QED BY <1>0, <2>3, <2>5, <2>6 DEF SentOnce
<1>14. ASSUME NEW p \in Loop, Finish(p) PROVE QueueInv' BY <1>0, <1>14, RunEnds
<1>15. CASE UNCHANGED vars
  <2>1. UNCHANGED <<visit, uploading, doneCount, loop, sent, rows, unheard, again, files, fading, made, jumps>>
    BY <1>15 DEF vars
  <2>2. files' = {} \/ OnPage BY <2>1 DEF Limits
  <2> QED BY <1>0, <1>a, <1>b, <1>c, <2>1, <2>2, CardsComeAndGo
<1> QED BY <1>1, <1>2, <1>3, <1>4, <1>6, <1>7, <1>8, <1>9, <1>10, <1>11, <1>12, <1>13, <1>14, <1>15 DEF Next

THEOREM QueueAlways == Spec => []QueueInv
<1>1. QueueInv /\ [Next]_vars => QueueInv' BY QueueStep
<1> QED BY <1>1, QueueInit, PTL DEF Spec

\* SentOnce: no card's file is sent twice, unless the button was clicked while it faded.
THEOREM NothingSentTwice == Spec => []SentOnce
<1>1. QueueInv => SentOnce BY DEF QueueInv
<1> QED BY <1>1, QueueAlways, PTL

\* The number of cards that are done, or were when they were cleared away.
LEMMA StoredIsShown ==
    ASSUME QueueInv PROVE Cardinality(Stored) <= TotalValid + Cardinality(Cleared) /\ TotalValid \in Nat
<1> USE DEF QueueInv
<1> DEFINE good == {e \in files : e.status # "error"}
           ids == {e.id : e \in good}
<1>1. ids \subseteq Id /\ Cleared \subseteq Id /\ Stored \subseteq ids \cup Cleared
  BY IdsKnown DEF Stored, Cleared, CardIds
<1>2. IsFiniteSet(ids) /\ IsFiniteSet(Cleared) /\ Cardinality(ids) \in Nat /\ Cardinality(Cleared) \in Nat
  BY <1>1, IdsFinite
<1>3. IsFiniteSet(good) /\ Cardinality(good) = Cardinality(ids)
  <2> DEFINE f == [e \in good |-> e.id]
  <2>1. f \in Bijection(good, ids)
    <3>1. \A e, x \in good : e.id = x.id => e = x BY DEF TypeOK
    <3> QED BY <3>1 DEF Bijection, Injection, Surjection, IsInjective
  <2>2. ExistsBijection(good, ids) BY <2>1 DEF ExistsBijection
  <2> QED BY <1>2, <2>2, FS_Bijection, Fun_ExistsBijSymmetric
<1>4. /\ IsFiniteSet(ids \cup Cleared)
      /\ Cardinality(ids \cup Cleared) = Cardinality(ids) + Cardinality(Cleared) - Cardinality(ids \cap Cleared)
      /\ Cardinality(ids \cap Cleared) \in Nat
  BY <1>2, FS_Union, FS_Intersection, FS_CardinalityType
<1>5. Cardinality(Stored) <= Cardinality(ids \cup Cleared) /\ Cardinality(Stored) \in Nat
  BY <1>1, <1>4, FS_Subset, FS_CardinalityType
<1> QED BY <1>2, <1>3, <1>4, <1>5 DEF TotalValid

\* HonestCards: a card tells what became of its file, and the progress counts no
\* more than there is to see.
THEOREM CardsAlwaysHonest == Spec => []HonestCards
<1>1. ASSUME QueueInv PROVE HonestCards
  <2>1. ASSUME ClickedOnce, uploading PROVE doneCount <= TotalValid + Cardinality(Cleared)
    <3>1. PICK p \in Loop : Active(p) /\ Here(p) BY <1>1, <2>1 DEF QueueInv, SpinInv, SpinnerHonest
    <3>2. doneCount = loop[p].done /\ loop[p].done <= Cardinality(Stored)
      BY <1>1, <2>1, <3>1 DEF QueueInv, CardsTell, Counts
    <3>3. Stored \subseteq Id /\ Cleared \subseteq Id BY <1>1, IdsKnown DEF Stored, Cleared
    <3>4. Cardinality(Stored) \in Nat /\ Cardinality(Cleared) \in Nat BY <1>1, <3>3, IdsFinite
    <3>5. loop[p].done \in Nat BY <1>1 DEF QueueInv, TypeOK
    <3> QED BY <1>1, <3>2, <3>4, <3>5, StoredIsShown
  <2> QED BY <1>1, <2>1 DEF QueueInv, CardsTell, HonestCards, Progress
<1>2. QueueInv => HonestCards BY <1>1
<1> QED BY <1>2, QueueAlways, PTL

=============================================================================
