---------------------------- MODULE Views_proofs ----------------------------
(***************************************************************************)
(* What shows the state of the server somewhere else shows it truly: the   *)
(* directory of the print export, and the screens with their lists and     *)
(* controls.                                                               *)
(*                                                                         *)
(* A run of the export that nothing disturbs is exact, for any number of   *)
(* images, names, tags and runs, and whatever the directory held before.   *)
(*                                                                         *)
(* A list at rest is true because the entry of the cache that is shown is  *)
(* current, fetches that are under way included: without a fetch it has    *)
(* what the server has, and an answer on its way as well; unless a call    *)
(* has changed the server and not yet said so, or the client can not know. *)
(* To that each page adds how its calls relate to what its user asked for, *)
(* and the lists that the server sorts are described by how many are newer *)
(* than a row, so that no induction over a list is needed.                 *)
(***************************************************************************)
EXTENDS PrintSync, Screens, FiniteSetTheorems, SequenceTheorems, TLAPS

\* What run j is to put under a name, and what it has read of it so far.
Want(j, n) == Named(job[j].tag, n)
Copied(j) == Result(job[j].tag) \ (job[j].rows \cup {job[j].cur})
Exact(j, n) == IF Want(j, n) = {} THEN export[n] = "nofile" ELSE export[n] \in Want(j, n)

\* Nothing runs beside a run that is not disturbed.
Alone == \A j, q \in Job : calm[j] /\ Running(q) => q = j

Copying(j) == job[j].pc \in {"rows", "open", "fill"}

\* What it still has to read is to be exported, and so is what it holds.
Reading(j) ==
    /\ At(j, "rows") => job[j].cur = NoRow
    /\ Copying(j) => job[j].rows \subseteq Result(job[j].tag)
    /\ job[j].pc \in {"open", "fill"} =>
         /\ job[j].cur \in Result(job[j].tag) \ job[j].rows
         /\ job[j].data = job[j].cur[1]

\* The names it has kept are those of the rows it has copied, and each of
\* their files is right, but for the one being written.
Keeping(j) ==
    Copying(j) =>
        /\ job[j].kept = {row[2] : row \in Copied(j)}
        /\ \A n \in job[j].kept : export[n] \in Want(j, n) \/ (At(j, "fill") /\ n = job[j].cur[2])

\* Once all are copied, a name nothing wants has no file or is to be removed.
Sweeping(j) ==
    At(j, "sweep") =>
        \A n \in Filename :
            IF Want(j, n) = {} THEN export[n] = "nofile" \/ n \in job[j].doomed
                               ELSE export[n] \in Want(j, n) /\ n \notin job[j].doomed
Finished(j) == At(j, "done") => \A n \in Filename : Exact(j, n)

Right(j) == ~At(j, "stalled") /\ Reading(j) /\ Keeping(j) /\ Sweeping(j) /\ Finished(j)
SyncInv == TypeOK /\ Alone /\ \A j \in Job : calm[j] => Right(j)

LEMMA TypeInit == Init => TypeOK
  BY SyncAssumption DEF Init, TypeOK, Idle, HasRead, Run, Content, Job

LEMMA RowParts == ASSUME NEW row \in Row PROVE row[1] \in Image /\ row[2] \in Filename
  BY DEF Row

\* The result of the query has a row for each image to be exported.
LEMMA ResultRows ==
    ASSUME TypeOK, NEW t \in Tag
    PROVE  /\ Result(t) \subseteq Row
           /\ \A row \in Result(t) : /\ row[1] \in Exportable(t) /\ row[1] \in Image
                                     /\ row[2] = filename[row[1]] /\ row[2] \in Filename
           /\ \A i \in Exportable(t) : <<i, filename[i]>> \in Result(t)
  BY DEF TypeOK, Result, Exportable, Row

LEMMA Shapes ==
    ASSUME NEW t \in Tag, NEW rows \in SUBSET Row, NEW kept \in SUBSET Filename, NEW doomed \in SUBSET Filename,
           NEW row \in Row, NEW d \in Image \cup {"nofile", "errorpage"}
    PROVE  /\ Reads(t, rows, kept) \in Run
           /\ Copies("open", t, rows, row, d, kept) \in Run /\ Copies("fill", t, rows, row, d, kept) \in Run
           /\ HasRead("sweep", t, kept, doomed) \in Run
           /\ HasRead("done", t, kept, doomed) \in Run /\ HasRead("idle", t, kept, doomed) \in Run
  BY DEF Reads, Copies, HasRead, Run

LEMMA MoveTyped ==
    ASSUME TypeOK, NEW j \in Job, NEW l \in Run, l.pc \in {"open", "fill"} => l.cur \in Row,
           Move(j, l), UNCHANGED <<World, manuals>>, NoFault \/ \E kind : Fault(kind, j),
           export' \in [Filename -> Content]
    PROVE  TypeOK'
<1>1. job' \in [Job -> Run] /\ \A q \in Job : job'[q].pc \in {"open", "fill"} => job'[q].cur \in Row
  BY DEF TypeOK, Move
<1>2. faults' \in 0..MaxFaults /\ calm' \in [Job -> BOOLEAN]
  <2>1. MaxFaults \in Nat
    BY SyncAssumption
  <2>2. CASE NoFault
    BY <2>2 DEF TypeOK, NoFault
  <2>3. ASSUME NEW kind, Fault(kind, j) PROVE faults' \in 0..MaxFaults /\ calm' \in [Job -> BOOLEAN]
    <3>1. faults < MaxFaults /\ faults' = faults + 1 /\ calm' = [calm EXCEPT ![j] = FALSE]
      BY <2>3 DEF Fault
    <3> QED BY <2>1, <3>1 DEF TypeOK
  <2> QED BY <2>2, <2>3
<1> QED BY <1>1, <1>2 DEF TypeOK, World

Acts(j) == Work(j) \/ Stall(j) \/ Resume(j) \/ BreakOff(j)

LEMMA TypeStep == ASSUME TypeOK, [Next]_vars PROVE TypeOK'
<1> USE SyncAssumption DEF Job
<1>1. ASSUME NEW j \in Job, Acts(j) PROVE TypeOK'
  <2> USE DEF Job
  <2>0. /\ job[j] \in Run /\ job[j].tag \in Tag /\ job[j].rows \in SUBSET Row
        /\ job[j].kept \in SUBSET Filename /\ job[j].doomed \in SUBSET Filename
        /\ job[j].data \in Image \cup {"nofile", "errorpage"}
    BY DEF TypeOK, Run
  <2>1. CASE Download(j)
    <3>1. PICK row \in job[j].rows :
            \/ /\ Move(j, Copies("open", job[j].tag, job[j].rows \ {row}, row, Fetched(row[1]), job[j].kept))
               /\ NoFault
            \/ Move(j, Reads(job[j].tag, job[j].rows \ {row}, job[j].kept)) /\ Fault("download", j)
      BY <2>1 DEF Download
    <3>2. UNCHANGED <<World, manuals>> /\ export' \in [Filename -> Content]
      BY <2>1 DEF Download, TypeOK
    <3>3. /\ row \in Row /\ Fetched(row[1]) \in Image \cup {"nofile", "errorpage"}
          /\ Copies("open", job[j].tag, job[j].rows \ {row}, row, Fetched(row[1]), job[j].kept).cur = row
          /\ Reads(job[j].tag, job[j].rows \ {row}, job[j].kept).pc = "rows"
      BY <2>0, RowParts DEF Fetched, Copies, Reads
    <3> QED BY <2>0, <3>1, <3>2, <3>3, Shapes, MoveTyped
  <2>2. CASE OpenFile(j)
    <3> DEFINE l == Copies("fill", job[j].tag, job[j].rows, job[j].cur, job[j].data, job[j].kept)
    <3>1. Move(j, l) /\ NoFault /\ UNCHANGED <<World, manuals>> /\ job[j].cur \in Row
      BY <2>2 DEF OpenFile, At, TypeOK
    <3>2. export' \in [Filename -> Content]
      BY <2>2, <3>1, RowParts DEF OpenFile, TypeOK, Content
    <3>3. l \in Run /\ l.cur \in Row
      BY <2>0, <3>1, Shapes DEF Copies
    <3> QED BY <3>1, <3>2, <3>3, MoveTyped
  <2>3. CASE FillFile(j)
    <3>1. job[j].cur \in Row /\ job[j].cur[2] \in Filename /\ UNCHANGED <<World, manuals>>
      BY <2>3, RowParts DEF FillFile, At, TypeOK
    <3>2. export' \in [Filename -> Content]
      BY <2>0, <2>3, <3>1 DEF FillFile, TypeOK, Content
    <3>3. PICK kept \in SUBSET Filename :
            Move(j, Reads(job[j].tag, job[j].rows, kept)) /\ (NoFault \/ Fault("write", j))
      BY <2>0, <2>3, <3>1 DEF FillFile, Keep
    <3>4. Reads(job[j].tag, job[j].rows, kept) \in Run /\ Reads(job[j].tag, job[j].rows, kept).pc = "rows"
      BY <2>0, Shapes, <3>1 DEF Reads
    <3> QED BY <3>1, <3>2, <3>3, <3>4, MoveTyped
  <2>4. CASE ListExports(j)
    <3>1. PICK listed \in SUBSET Filename :
            Move(j, HasRead("sweep", job[j].tag, job[j].kept, listed)) /\ (NoFault \/ Fault("list", j))
      BY <2>4 DEF ListExports, Doomed, Entries
    <3>2. UNCHANGED <<World, manuals>> /\ export' \in [Filename -> Content]
      BY <2>4 DEF ListExports, TypeOK
    <3> DEFINE l == HasRead("sweep", job[j].tag, job[j].kept, listed)
    <3>3. l \in Run /\ l.pc = "sweep" /\ Move(j, l) /\ (NoFault \/ Fault("list", j))
      BY <2>0, <3>1 DEF HasRead, Run
    <3> HIDE DEF l
    <3> QED BY <3>2, <3>3, MoveTyped
  <2>5. CASE RemoveFile(j)
    <3>1. PICK n \in job[j].doomed :
            /\ \/ export' = [export EXCEPT ![n] = "nofile"] /\ NoFault
               \/ UNCHANGED export /\ Fault("remove", j)
            /\ Move(j, HasRead("sweep", job[j].tag, job[j].kept, job[j].doomed \ {n}))
      BY <2>5 DEF RemoveFile
    <3>2. UNCHANGED <<World, manuals>>
      BY <2>5 DEF RemoveFile
    <3>3. export' \in [Filename -> Content]
      BY <2>0, <3>1 DEF TypeOK, Content
    <3> DEFINE l == HasRead("sweep", job[j].tag, job[j].kept, job[j].doomed \ {n})
    <3>4. l \in Run /\ l.pc = "sweep" /\ Move(j, l) /\ (NoFault \/ Fault("remove", j))
      BY <2>0, <3>1 DEF HasRead, Run
    <3> HIDE DEF l
    <3> QED BY <3>2, <3>3, <3>4, MoveTyped
  <2>6. CASE Report(j) \/ Return(j)
    BY <2>6 DEF TypeOK, Report, Return, Move, NoFault, World, Run, At, HasRead, Idle
  <2>7. CASE BreakOff(j)
    BY <2>7 DEF TypeOK, BreakOff, Move, Fault, World, Run, At, Reads
  <2>8. CASE Stall(j)
    BY <2>8 DEF TypeOK, Stall, Move, Fault, World, Run, At
  <2>9. CASE Resume(j)
    BY <2>9 DEF TypeOK, Resume, Move, NoFault, World, Run, At
  <2> QED BY <1>1, <2>1, <2>2, <2>3, <2>4, <2>5, <2>6, <2>7, <2>8, <2>9 DEF Work, Acts
<1>2. ASSUME NEW j \in Job, NEW t \in Tag, Start(j, t), manuals' \in 0..MaxManual PROVE TypeOK'
  <2>1. Result(t) \in SUBSET Row /\ {} \in SUBSET Filename
    BY <1>2, ResultRows
  <2>2. Reads(t, Result(t), {}) \in Run
    BY <2>1 DEF Reads, Run
  <2>3. job' \in [Job -> Run] /\ \A q \in Job : job'[q].pc \in {"open", "fill"} => job'[q].cur \in Row
    BY <1>2, <2>2 DEF Start, Move, TypeOK, Reads
  <2> QED BY <1>2, <2>3 DEF TypeOK, Start, World
<1>3. CASE Tick
  BY <1>2, <1>3 DEF Tick, TypeOK
<1>4. ASSUME NEW j \in Job, Ask(j) PROVE TypeOK'
  BY <1>2, <1>4 DEF Ask, TypeOK
<1>5. ASSUME NEW j \in Job, QueryFails(j) PROVE TypeOK'
  BY <1>5 DEF TypeOK, QueryFails, Fault, World, At
<1>6. CASE Crash
  BY <1>6 DEF TypeOK, Crash, World, Run, Idle, HasRead
<1>7. CASE Retag
  <2>1. PICK t \in Tag, i \in Image :
          Change(/\ carrier' = [carrier EXCEPT ![t] = IF i \in @ THEN @ \ {i} ELSE @ \cup {i}]
                 /\ UNCHANGED <<filename, img>>)
    BY <1>7 DEF Retag
  <2> QED BY <2>1 DEF Change, Disturb, TypeOK
<1>11. CASE Rename
  <2>1. PICK i \in Image, n \in Filename :
          Change(filename' = [filename EXCEPT ![i] = n] /\ UNCHANGED <<img, carrier>>)
    BY <1>11 DEF Rename
  <2> QED BY <2>1 DEF Change, Disturb, TypeOK
<1>8. CASE DeleteImage
  <2>1. PICK i \in Image : Change(img' = [img EXCEPT ![i] = "deleted"] /\ UNCHANGED <<filename, carrier>>)
    BY <1>8 DEF DeleteImage
  <2> QED BY <2>1 DEF Change, Disturb, TypeOK
<1>10. CASE EraseObject
  <2>1. PICK i \in Image : Disturb(img' = [img EXCEPT ![i] = "erased"] /\ UNCHANGED <<filename, carrier, changes>>)
    BY <1>10 DEF EraseObject
  <2> QED BY <2>1 DEF Disturb, TypeOK
<1>9. CASE UNCHANGED vars
  BY <1>9 DEF TypeOK, vars
<1> QED BY <1>1, <1>3, <1>4, <1>5, <1>6, <1>7, <1>8, <1>9, <1>10, <1>11 DEF Next, Acts

-----------------------------------------------------------------------------
(***************************************************************************)
(* A step of one run: the others are idle, or are disturbed already.       *)
(***************************************************************************)
LEMMA IdleRight == ASSUME NEW j, At(j, "idle") PROVE Right(j)
  BY DEF At, Right, Reading, Keeping, Sweeping, Finished, Copying

\* It is enough to look at the run that moves, and only if it is not disturbed.
LEMMA OwnStep ==
    ASSUME SyncInv, TypeOK', NEW j \in Job, Running(j), NEW l, Move(j, l),
           \A q \in Job : calm'[q] => calm[q],
           calm'[j] => Right(j)'
    PROVE  SyncInv'
<1>1. \A q \in Job : calm'[q] => q = j
  BY DEF SyncInv, Alone
<1>2. \A q \in Job : q # j /\ Running(q)' => Running(q)
  BY DEF Move, Running, At, SyncInv, TypeOK
<1>3. Alone'
  BY <1>1, <1>2 DEF SyncInv, Alone
<1> QED BY <1>1, <1>3 DEF SyncInv

\* Names and tags stay, so the run of a tag wants what it wanted.
LEMMA WantStays ==
    ASSUME UNCHANGED World
    PROVE  /\ \A t : Exportable(t)' = Exportable(t)
           /\ \A t : Result(t)' = Result(t)
           /\ \A t, n : Named(t, n)' = Named(t, n)
  BY DEF World, Exportable, Result, Named

LEMMA DownloadRight ==
    ASSUME TypeOK, NEW j \in Job, Right(j), At(j, "rows"), UNCHANGED <<World, export>>,
           NEW row \in job[j].rows,
           Move(j, Copies("open", job[j].tag, job[j].rows \ {row}, row, Fetched(row[1]), job[j].kept))
    PROVE  Right(j)'
<1>1. /\ job'[j].pc = "open" /\ job'[j].tag = job[j].tag /\ job'[j].rows = job[j].rows \ {row}
      /\ job'[j].cur = row /\ job'[j].data = Fetched(row[1]) /\ job'[j].kept = job[j].kept
  BY DEF Move, Copies, TypeOK
<1>2. /\ job[j].pc = "rows" /\ job[j].cur = NoRow /\ row \in Result(job[j].tag)
      /\ job[j].rows \subseteq Result(job[j].tag) /\ job[j].tag \in Tag
  BY DEF At, Right, Reading, Copying, TypeOK, Run
<1>3. Fetched(row[1]) = row[1] /\ Result(job[j].tag) \subseteq Row
  BY <1>2, ResultRows DEF Exportable, Fetched
<1>4. Result(job[j].tag)' = Result(job[j].tag)
  BY <1>1, WantStays
<1>5. Copied(j)' = Copied(j)
  BY <1>1, <1>2, <1>3, <1>4, SyncAssumption DEF Copied, Row
<1>6. Reading(j)'
  BY <1>1, <1>2, <1>3, <1>4 DEF Reading, At, Copying
<1>7. Keeping(j)'
  BY <1>1, <1>2, <1>5, WantStays DEF Right, Keeping, Copying, At, Want, World
<1> QED BY <1>1, <1>6, <1>7 DEF Right, Sweeping, Finished, At

LEMMA OpenRight ==
    ASSUME TypeOK, NEW j \in Job, Right(j), OpenFile(j)
    PROVE  Right(j)'
<1>1. /\ job'[j].pc = "fill" /\ job'[j].tag = job[j].tag /\ job'[j].rows = job[j].rows
      /\ job'[j].cur = job[j].cur /\ job'[j].data = job[j].data /\ job'[j].kept = job[j].kept
  BY DEF OpenFile, Move, Copies, TypeOK
<1>2. /\ UNCHANGED World /\ job[j].pc = "open"
      /\ export' = [export EXCEPT ![job[j].cur[2]] = "torn"]
  BY DEF OpenFile, At
<1>3. Result(job[j].tag)' = Result(job[j].tag) /\ Copied(j)' = Copied(j)
  BY <1>1, <1>2, WantStays DEF Copied
<1>4. Reading(j)'
  BY <1>1, <1>2, <1>3 DEF Right, Reading, At, Copying
<1>5. Keeping(j)'
  <2>1. job[j].kept \subseteq Filename
    BY DEF TypeOK, Run
  <2>2. \A n \in job[j].kept : n = job[j].cur[2] \/ (export'[n] = export[n] /\ Want(j, n)' = Want(j, n))
    BY <1>1, <1>2, <2>1, WantStays DEF Want, TypeOK
  <2> QED BY <1>1, <1>2, <1>3, <2>2 DEF Right, Keeping, Copying, At, World
<1> QED BY <1>1, <1>4, <1>5 DEF Right, Sweeping, Finished, At

LEMMA FillRight ==
    ASSUME TypeOK, NEW j \in Job, Right(j), At(j, "fill"), UNCHANGED World,
           export' = [export EXCEPT ![job[j].cur[2]] = job[j].data],
           Move(j, Reads(job[j].tag, job[j].rows, Keep(j)))
    PROVE  Right(j)'
<1>1. /\ job'[j].pc = "rows" /\ job'[j].tag = job[j].tag /\ job'[j].rows = job[j].rows
      /\ job'[j].cur = NoRow /\ job'[j].kept = job[j].kept \cup {job[j].cur[2]}
  BY DEF Move, Reads, Keep, TypeOK
<1>2. job[j].pc = "fill" /\ job[j].tag \in Tag /\ job[j].kept \subseteq Filename
  BY DEF At, TypeOK, Run
<1> DEFINE row == job[j].cur
<1>3. /\ row[1] = job[j].data /\ row \in Result(job[j].tag) \ job[j].rows
      /\ job[j].rows \subseteq Result(job[j].tag)
  BY <1>2 DEF Right, Reading, Copying
<1>4. /\ row[1] \in Exportable(job[j].tag) /\ row[2] = filename[row[1]] /\ row[2] \in Filename
      /\ Result(job[j].tag) \subseteq Row
  BY <1>2, <1>3, ResultRows
<1>5. Result(job[j].tag)' = Result(job[j].tag)
  BY <1>1, WantStays
<1>6. Copied(j)' = Copied(j) \cup {row}
  BY <1>1, <1>3, <1>4, <1>5, SyncAssumption DEF Copied, Row
<1>7. Reading(j)'
  BY <1>1, <1>3, <1>5 DEF Reading, At, Copying
<1>8. row[1] \in Want(j, row[2])
  BY <1>4 DEF Want, Named
<1>9. export'[row[2]] = row[1] /\ \A n \in job[j].kept : n # row[2] => export'[n] \in Want(j, n)
  BY <1>2, <1>3, <1>4 DEF Right, Keeping, At, Copying, TypeOK
<1>10. job'[j].kept = {x[2] : x \in Copied(j)'}
  <2>1. job[j].kept = {x[2] : x \in Copied(j)}
    BY <1>2 DEF Right, Keeping, Copying
  <2> QED BY <1>1, <1>6, <2>1
<1>11. Keeping(j)'
  BY <1>1, <1>8, <1>9, <1>10, WantStays DEF Keeping, Want
<1> QED BY <1>1, <1>7, <1>11 DEF Right, Sweeping, Finished, At

LEMMA ListRight ==
    ASSUME TypeOK, NEW j \in Job, Right(j), At(j, "rows"), job[j].rows = {}, UNCHANGED <<World, export>>,
           Move(j, HasRead("sweep", job[j].tag, job[j].kept, Doomed(j)))
    PROVE  Right(j)'
<1>1. /\ job'[j].pc = "sweep" /\ job'[j].tag = job[j].tag /\ job'[j].doomed = Entries \ job[j].kept
      /\ job[j].pc = "rows" /\ job[j].tag \in Tag
  BY DEF Move, HasRead, TypeOK, At, Doomed, Run
<1>2. Copied(j) = Result(job[j].tag)
  <2>1. job[j].cur = NoRow
    BY <1>1 DEF Right, Reading, At
  <2>2. Result(job[j].tag) \subseteq Row
    BY <1>1, ResultRows
  <2> QED BY <2>1, <2>2, SyncAssumption DEF Copied, Row
<1>3. job[j].kept = {row[2] : row \in Result(job[j].tag)} /\ \A n \in job[j].kept : export[n] \in Want(j, n)
  BY <1>1, <1>2 DEF Right, Keeping, Copying, At
<1>4. \A n \in Filename : n \in job[j].kept <=> Want(j, n) # {}
  <2> DEFINE t == job[j].tag
  <2>1. /\ \A row \in Result(t) : row[1] \in Exportable(t) /\ row[2] = filename[row[1]]
        /\ \A i \in Exportable(t) : <<i, filename[i]>> \in Result(t)
    BY <1>1, ResultRows
  <2>2. \A n \in Filename : n \in job[j].kept <=> \E i \in Exportable(t) : filename[i] = n
    <3>1. ASSUME NEW i \in Exportable(t) PROVE filename[i] \in job[j].kept
      <4>1. <<i, filename[i]>> \in Result(t) /\ <<i, filename[i]>>[2] = filename[i]
        BY <2>1
      <4> QED BY <1>3, <4>1
    <3> QED BY <1>3, <2>1, <3>1
  <2> QED BY <2>2 DEF Want, Named
<1>5. \A n \in Filename : Want(j, n)' = Want(j, n)
  BY <1>1, WantStays DEF Want
<1>6. Sweeping(j)'
  BY <1>1, <1>3, <1>4, <1>5 DEF Sweeping, Entries
<1> QED BY <1>1, <1>6 DEF Right, Reading, Keeping, Copying, Finished, At

LEMMA RemoveRight ==
    ASSUME TypeOK, NEW j \in Job, Right(j), At(j, "sweep"), UNCHANGED World, NEW n \in job[j].doomed,
           export' = [export EXCEPT ![n] = "nofile"],
           Move(j, HasRead("sweep", job[j].tag, job[j].kept, job[j].doomed \ {n}))
    PROVE  Right(j)'
<1>1. /\ job'[j].pc = "sweep" /\ job'[j].tag = job[j].tag /\ job'[j].doomed = job[j].doomed \ {n}
      /\ job[j].pc = "sweep" /\ n \in Filename
  BY DEF Move, HasRead, TypeOK, At, Run
<1>2. \A m \in Filename : Want(j, m)' = Want(j, m)
  BY <1>1, WantStays DEF Want
<1>3. Sweeping(j)'
  BY <1>1, <1>2 DEF Right, Sweeping, At, TypeOK
<1> QED BY <1>1, <1>3 DEF Right, Reading, Keeping, Copying, Finished, At

LEMMA ReportRight ==
    ASSUME TypeOK, NEW j \in Job, Right(j), Report(j)
    PROVE  Right(j)'
<1>1. /\ job'[j].pc = "done" /\ job'[j].tag = job[j].tag
      /\ job[j].pc = "sweep" /\ job[j].doomed = {} /\ UNCHANGED <<World, export>>
  BY DEF Report, Move, HasRead, TypeOK, At
<1>2. \A n \in Filename : Want(j, n)' = Want(j, n)
  BY <1>1, WantStays DEF Want
<1>3. Finished(j)'
  BY <1>1, <1>2 DEF Right, Sweeping, Finished, Exact, At
<1> QED BY <1>1, <1>3 DEF Right, Reading, Keeping, Copying, Sweeping, At

LEMMA WorkStep == ASSUME SyncInv, TypeOK', NEW j \in Job, Acts(j) PROVE SyncInv'
<1>1. TypeOK /\ calm \in [Job -> BOOLEAN] /\ (calm[j] => Right(j))
  BY DEF SyncInv, TypeOK
<1>2. Running(j)
  BY DEF Acts, Work, Download, OpenFile, FillFile, ListExports, RemoveFile, Report, Return, Stall, Resume, BreakOff, Running, At
<1>3. PICK l : Move(j, l)
  BY DEF Acts, Work, Download, OpenFile, FillFile, ListExports, RemoveFile, Report, Return, Stall, Resume, BreakOff
<1>4. NoFault \/ \E kind : Fault(kind, j)
  BY DEF Acts, Work, Download, OpenFile, FillFile, ListExports, RemoveFile, Report, Return, Stall, Resume, BreakOff
<1>5. \A q \in Job : calm'[q] => calm[q]
  BY <1>1, <1>4 DEF NoFault, Fault
<1>6. calm'[j] => NoFault
  BY <1>1, <1>4 DEF Fault
<1>7. ASSUME calm'[j] PROVE Right(j)'
  <2>1. Right(j) /\ ~\E kind : Fault(kind, j)
    BY <1>1, <1>5, <1>7 DEF Fault
  <2>2. CASE Download(j)
    BY <1>1, <2>1, <2>2, DownloadRight DEF Download
  <2>3. CASE FillFile(j)
    BY <1>1, <2>1, <2>3, FillRight DEF FillFile
  <2>4. CASE OpenFile(j) \/ Report(j)
    BY <1>1, <2>1, <2>4, OpenRight, ReportRight
  <2>6. CASE ListExports(j)
    BY <1>1, <2>1, <2>6, ListRight DEF ListExports
  <2>7. CASE RemoveFile(j)
    BY <1>1, <2>1, <2>7, RemoveRight DEF RemoveFile
  <2>8. ~Resume(j)
    BY <2>1 DEF Resume, Right
  <2>5. CASE Return(j)
    <3>1. job'[j] = Idle
      BY <1>1, <2>5 DEF Return, Move, TypeOK
    <3>2. At(j, "idle")'
      BY <3>1 DEF At, Idle, HasRead
    <3> QED BY <3>2 DEF At, Right, Reading, Keeping, Sweeping, Finished, Copying
  <2> QED BY <1>7, <2>1, <2>2, <2>3, <2>4, <2>5, <2>6, <2>7, <2>8 DEF Acts, Work, Stall, BreakOff
<1> QED BY <1>2, <1>3, <1>5, <1>7, OwnStep

\* The run of a tag begins with all there is to export still to be read.
LEMMA StartStep == ASSUME SyncInv, TypeOK', NEW j \in Job, NEW t \in Tag, Start(j, t) PROVE SyncInv'
<1>1. /\ job'[j].pc = "rows" /\ job'[j].tag = t /\ job'[j].rows = Result(t)
      /\ job'[j].cur = NoRow /\ job'[j].kept = {} /\ \A q \in Job \ {j} : job'[q] = job[q]
  BY DEF SyncInv, TypeOK, Start, Move, Reads
<1>2. UNCHANGED World /\ \A q \in Job : calm'[q] => q = j /\ \A k \in Job : ~Running(k)
  BY DEF Start
<1>3. Alone'
  BY <1>1, <1>2 DEF Alone, Running, At
<1>4. Result(t)' = Result(t)
  BY <1>2, WantStays
<1>5. Copied(j)' = {}
  BY <1>1, <1>4 DEF Copied
<1>6. Right(j)'
  BY <1>1, <1>4, <1>5 DEF Right, Reading, Keeping, Copying, Sweeping, Finished, At
<1> QED BY <1>2, <1>3, <1>6 DEF SyncInv

LEMMA Disturbed == ASSUME TypeOK', \A j \in Job : ~calm'[j] PROVE SyncInv'
  BY DEF SyncInv, Alone

LEMMA SyncStep == ASSUME SyncInv, [Next]_vars PROVE SyncInv'
<1>1. TypeOK'
  BY TypeStep DEF SyncInv
<1>2. ASSUME NEW j \in Job, Acts(j) PROVE SyncInv'
  BY <1>1, <1>2, WorkStep
<1>3. CASE Tick
  BY <1>1, <1>3, StartStep, SyncAssumption DEF Tick, Job
<1>4. ASSUME NEW j \in Job, Ask(j) PROVE SyncInv'
  BY <1>1, <1>4, StartStep DEF Ask
<1>5. ASSUME NEW j \in Job, QueryFails(j) PROVE SyncInv'
  <2>1. UNCHANGED <<filename, img, carrier, export, job>> /\ \A q \in Job : calm'[q] => calm[q]
    BY <1>5 DEF QueryFails, Fault, World, SyncInv, TypeOK
  <2>2. \A q \in Job : Right(q)' <=> Right(q)
    BY <2>1 DEF Right, Reading, Keeping, Sweeping, Finished, Copying, At, Copied, Want, Exact, Named, Exportable, Result
  <2> QED BY <1>1, <2>1, <2>2 DEF SyncInv, Alone, Running, At
<1>6. CASE Crash \/ Retag \/ Rename \/ DeleteImage \/ EraseObject
  <2>1. calm' = [j \in Job |-> FALSE]
    BY <1>6 DEF Crash, Retag, Rename, DeleteImage, EraseObject, Change, Disturb
  <2> QED BY <1>1, <2>1, Disturbed
<1>7. CASE UNCHANGED vars
  <2>1. \A q \in Job : Right(q)' <=> Right(q)
    BY <1>7 DEF vars, Right, Reading, Keeping, Sweeping, Finished, Copying, At, Copied, Want, Exact, Named, Exportable, Result
  <2> QED BY <1>1, <1>7, <2>1 DEF vars, SyncInv, Alone, Running, At
<1> QED BY <1>2, <1>3, <1>4, <1>5, <1>6, <1>7 DEF Next, Acts

\* CalmRunExact: for any number of images, names, tags and runs, a run that nothing
\* disturbed leaves the images of its tag in the directory and no other file,
\* whatever was there before.
THEOREM CalmRunsAreExact == Spec => []CalmRunExact
<1>1. Init => SyncInv
  BY TypeInit DEF Init, SyncInv, Alone
<1>2. SyncInv /\ [Next]_vars => SyncInv'
  BY SyncStep
<1>3. SyncInv => CalmRunExact
  BY DEF SyncInv, CalmRunExact, Right, Finished, Exact, Want
<1> QED BY <1>1, <1>2, <1>3, PTL DEF Spec

-----------------------------------------------------------------------------
(* A list in order of age: everything is in it, at the place that its age   *)
(* gives it.                                                                *)
LEMMA Places ==
    ASSUME NEW S \in SUBSET Int, IsFiniteSet(S)
    PROVE  /\ \A i \in S : Cardinality(Newer(S, i)) \in 0..Cardinality(S) - 1
           /\ \A i, j \in S : i < j => Cardinality(Newer(S, j)) < Cardinality(Newer(S, i))
           /\ \A n \in 1..Cardinality(S) : \E i \in S : Cardinality(Newer(S, i)) = n - 1
<1>0. Cardinality(S) \in Nat
  BY FS_CardinalityType
<1>1. \A i \in S : IsFiniteSet(Newer(S, i)) /\ Cardinality(Newer(S, i)) \in 0..Cardinality(S) - 1
  <2> TAKE i \in S
  <2>1. Newer(S, i) \subseteq S \ {i}
    BY DEF Newer
  <2>2. IsFiniteSet(S \ {i}) /\ Cardinality(S \ {i}) = Cardinality(S) - 1
    BY FS_RemoveElement
  <2>3. IsFiniteSet(Newer(S, i)) /\ Cardinality(Newer(S, i)) <= Cardinality(S) - 1
    BY <2>1, <2>2, FS_Subset
  <2> QED
    BY <1>0, <2>3, FS_CardinalityType
<1>2. \A i, j \in S : i < j => Cardinality(Newer(S, j)) < Cardinality(Newer(S, i))
  <2> SUFFICES ASSUME NEW i \in S, NEW j \in S, i < j
               PROVE  Cardinality(Newer(S, j)) < Cardinality(Newer(S, i))
    OBVIOUS
  <2>1. Newer(S, j) \subseteq Newer(S, i) \ {j} /\ j \in Newer(S, i)
    <3>1. i \in Int /\ j \in Int /\ i < j /\ \A k \in S : k \in Int
      OBVIOUS
    <3>2. \A k \in S : k > j => k > i /\ k # j
      BY <3>1
    <3> QED
      BY <3>1, <3>2 DEF Newer
  <2>2. IsFiniteSet(Newer(S, i) \ {j})
        /\ Cardinality(Newer(S, i) \ {j}) = Cardinality(Newer(S, i)) - 1
    BY <1>1, <2>1, FS_RemoveElement
  <2>3. Cardinality(Newer(S, j)) <= Cardinality(Newer(S, i)) - 1
    BY <2>1, <2>2, FS_Subset
  <2> QED
    BY <1>1, <2>3
<1>3. \A n \in 1..Cardinality(S) : \E i \in S : Cardinality(Newer(S, i)) = n - 1
  <2> DEFINE f == [i \in S |-> Cardinality(Newer(S, i))]
             T == 0..Cardinality(S) - 1
  <2>1. f \in Injection(S, T)
    <3>1. f \in [S -> T]
      BY <1>1
    <3>2. \A i, j \in S : f[i] = f[j] => i = j
      <4> SUFFICES ASSUME NEW i \in S, NEW j \in S, i # j PROVE f[i] # f[j]
        OBVIOUS
      <4>1. i < j \/ j < i
        OBVIOUS
      <4> QED
        BY <1>1, <1>2, <4>1
    <3> QED
      BY <3>1, <3>2 DEF Injection, IsInjective
  <2>2. IsFiniteSet(T) /\ Cardinality(T) = Cardinality(S)
    <3>1. 0 \in Int /\ Cardinality(S) - 1 \in Int
      BY <1>0
    <3> QED
      BY <1>0, <3>1, FS_Interval
  <2>3. f \in Surjection(S, T)
    BY <2>1, <2>2, FS_Injection
  <2>4. \A t \in T : \E i \in S : f[i] = t
    BY <2>3 DEF Surjection
  <2>5. \A n \in 1..Cardinality(S) : n - 1 \in T
    BY <1>0
  <2> QED
    BY <2>4, <2>5
<1> QED
  BY <1>1, <1>2, <1>3

LEMMA Sorted ==
    ASSUME NEW S \in SUBSET Int, IsFiniteSet(S)
    PROVE  /\ Cardinality(S) \in Nat
           /\ Descending(S) \in Seq(S) /\ Len(Descending(S)) = Cardinality(S)
           /\ \A n \in 1..Cardinality(S) :
                 Descending(S)[n] \in S /\ Cardinality(Newer(S, Descending(S)[n])) = n - 1
           /\ \A i \in S : /\ Cardinality(Newer(S, i)) + 1 \in 1..Cardinality(S)
                           /\ Descending(S)[Cardinality(Newer(S, i)) + 1] = i
           /\ \A m, n \in 1..Cardinality(S) : m < n => Descending(S)[m] > Descending(S)[n]
<1>0. Cardinality(S) \in Nat
  BY FS_CardinalityType
<1>1. \A n \in 1..Cardinality(S) :
         Descending(S)[n] \in S /\ Cardinality(Newer(S, Descending(S)[n])) = n - 1
  BY Places DEF Descending
<1>2. Descending(S) \in [1..Cardinality(S) -> S]
  BY <1>1 DEF Descending
<1>3. Descending(S) \in Seq(S) /\ Len(Descending(S)) = Cardinality(S)
  BY <1>0, <1>2
<1>4. \A i, j \in S : i # j => Cardinality(Newer(S, i)) # Cardinality(Newer(S, j))
  <2> SUFFICES ASSUME NEW i \in S, NEW j \in S, i # j
               PROVE  Cardinality(Newer(S, i)) # Cardinality(Newer(S, j))
    OBVIOUS
  <2>0. i \in Int /\ j \in Int
    OBVIOUS
  <2>1. i < j \/ j < i
    BY <2>0
  <2>2. Cardinality(Newer(S, i)) \in Int /\ Cardinality(Newer(S, j)) \in Int
    <3>1. \A k \in S : Cardinality(Newer(S, k)) \in 0..Cardinality(S) - 1
      BY Places
    <3> QED
      BY <3>1
  <2>3. /\ i < j => Cardinality(Newer(S, j)) < Cardinality(Newer(S, i))
        /\ j < i => Cardinality(Newer(S, i)) < Cardinality(Newer(S, j))
    BY Places
  <2> QED
    BY <2>1, <2>2, <2>3
<1>5. \A i \in S : /\ Cardinality(Newer(S, i)) + 1 \in 1..Cardinality(S)
                   /\ Descending(S)[Cardinality(Newer(S, i)) + 1] = i
  <2> TAKE i \in S
  <2>1. PICK c \in Int : c = Cardinality(Newer(S, i)) /\ c + 1 \in 1..Cardinality(S)
    <3>1. Cardinality(Newer(S, i)) \in 0..Cardinality(S) - 1
      BY Places
    <3> QED
      BY <1>0, <3>1
  <2>2. Descending(S)[c + 1] \in S /\ Cardinality(Newer(S, Descending(S)[c + 1])) = (c + 1) - 1
    BY <1>1, <2>1
  <2>3. (c + 1) - 1 = c
    OBVIOUS
  <2>4. Descending(S)[c + 1] = i
    BY <1>4, <2>1, <2>2, <2>3
  <2> QED
    BY <2>1, <2>4
<1>6. ASSUME NEW m \in 1..Cardinality(S), NEW n \in 1..Cardinality(S), m < n
      PROVE  Descending(S)[m] > Descending(S)[n]
  <2> DEFINE i == Descending(S)[m]
             j == Descending(S)[n]
  <2>0. i \in S /\ j \in S /\ Cardinality(Newer(S, i)) = m - 1 /\ Cardinality(Newer(S, j)) = n - 1
    BY <1>1
  <2>1. i < j => Cardinality(Newer(S, j)) < Cardinality(Newer(S, i))
    BY <2>0, Places
  <2>2. i # j
    <3>1. m - 1 # n - 1
      BY <1>0, <1>6
    <3> QED
      BY <2>0, <3>1
  <2>3. ~(i < j)
    BY <1>0, <1>6, <2>0, <2>1
  <2>4. i \in Int /\ j \in Int
    BY <2>0
  <2> HIDE DEF i, j
  <2>5. i > j
    BY <2>2, <2>3, <2>4
  <2> QED
    BY <2>5 DEF i, j
<1> QED
  BY <1>0, <1>1, <1>3, <1>5, <1>6

(* An entry of the query client, and what a step may make of it.            *)
CacheEntry(e) ==
    DOMAIN e = {"data", "flight", "answer"} /\ e.flight \in {"none", "asked", "answered"}
Evolves(e, f, truth) ==
    \/ f = e \/ f = Observed(e) \/ f = Renewed(e) \/ f = Empty \/ f = Failed(e)
    \/ f = Served(e, truth)
    \/ f = Landed(e) /\ e.flight = "answered"
(* What it holds is one of these.                                           *)
HoldsOf(e, these) ==
    /\ e.data = NoData \/ e.data \in these
    /\ e.flight = "answered" => e.answer \in these

LEMMA EntryEvolves ==
    ASSUME NEW e, NEW f, NEW truth, CacheEntry(e), Evolves(e, f, truth),
           NEW these, HoldsOf(e, these), truth \in these
    PROVE  CacheEntry(f) /\ HoldsOf(f, these)
<1>1. CASE f = e
  BY <1>1
<1>2. CASE f = Observed(e)
  BY <1>2 DEF CacheEntry, HoldsOf, Observed
<1>3. CASE f = Renewed(e)
  BY <1>3 DEF CacheEntry, HoldsOf, Renewed
<1>4. CASE f = Empty
  BY <1>4 DEF CacheEntry, HoldsOf, Empty
<1>5. CASE f = Failed(e)
  BY <1>5 DEF CacheEntry, HoldsOf, Failed
<1>6. CASE f = Served(e, truth)
  BY <1>6 DEF CacheEntry, HoldsOf, Served
<1>7. CASE f = Landed(e) /\ e.flight = "answered"
  BY <1>7 DEF CacheEntry, HoldsOf, Landed
<1> QED
  BY <1>1, <1>2, <1>3, <1>4, <1>5, <1>6, <1>7 DEF Evolves

LEMMA StaysEntry ==
    ASSUME NEW e, NEW f, NEW truth, CacheEntry(e), Evolves(e, f, truth)
    PROVE  CacheEntry(f)
<1>1. HoldsOf(e, {e.data, e.answer, truth})
  BY DEF HoldsOf
<1> QED
  BY <1>1, EntryEvolves

(* An entry that will be fetched again, or has what the server has.         *)
Current(e, truth) ==
    /\ e.flight = "none" => e.data = truth
    /\ e.flight = "answered" => e.answer = truth

LEMMA StaysCurrent ==
    ASSUME NEW e, NEW f, NEW truth, CacheEntry(e), Current(e, truth),
           \/ f = e \/ f = Observed(e) \/ f = Renewed(e)
           \/ f = Served(e, truth)
           \/ f = Landed(e) /\ e.flight = "answered"
    PROVE  Current(f, truth)
<1>1. CASE f = Observed(e) \/ f = e
  BY <1>1 DEF CacheEntry, Current, Observed
<1>2. CASE f = Renewed(e)
  BY <1>2 DEF CacheEntry, Current, Renewed
<1>3. CASE f = Served(e, truth)
  BY <1>3 DEF CacheEntry, Current, Served
<1>4. CASE f = Landed(e) /\ e.flight = "answered"
  BY <1>4 DEF CacheEntry, Current, Landed
<1> QED
  BY <1>1, <1>2, <1>3, <1>4

LEMMA AskedAgain ==
    ASSUME NEW e, NEW truth, CacheEntry(e)
    PROVE  /\ e.flight # "answered" => Current(Observed(e), truth)
           /\ ~(Loading(e) /\ Aged(e)) => Current(Renewed(e), truth)
BY DEF CacheEntry, Current, Observed, Renewed, Loading, Aged

-----------------------------------------------------------------------------
(* The page of an image.  A call under way is one of these.                *)
DetailCall == [kind: {"idle", "toggle", "add", "delete"}, tag: Detail!Tag \cup {""},
               pc: {"idle", "sent", "insert", "ok", "refused"}]
DetailCalls ==
    /\ dCall \in [Calls -> DetailCall]
    /\ \A s \in Calls :
          /\ dCall[s].kind = "idle" => dCall[s] = Detail!NoCall
          /\ dCall[s].pc = "insert" => dCall[s].kind = "toggle"
          /\ dCall[s].kind \in {"toggle", "add"} => dCall[s].tag \in Detail!Tag
DetailTyped ==
    /\ DetailCalls
    /\ CacheEntry(dImage) /\ CacheEntry(dKnown)
    /\ dClicks \in [Detail!Tag -> Int]

(* Clicks on a tag that have not changed its mark yet.                     *)
Unapplied(t) ==
    {s \in Calls : /\ dCall[s].kind = "toggle" /\ dCall[s].tag = t
                   /\ dCall[s].pc \in {"sent", "insert"}}
(* A mark is what the clicks on its tag have made of it, but for those.    *)
MarksTellClicks ==
    /\ \A t \in Detail!Tag : IsFiniteSet(Unapplied(t))
    /\ dExists =>
          \A t \in Detail!Tag :
             (t \in dMarks) <=> ((dClicks[t] - Cardinality(Unapplied(t))) % 2 = 1)

Unreported(kind) == \E s \in Calls : dCall[s].kind = kind /\ dCall[s].pc = "ok"
ImageCurrent ==
    dExists /\ dOpen /\ "image" \notin dMissed /\ ~Unreported("toggle") => Current(dImage, dMarks)
TagsCurrent ==
    dOpen /\ "tags" \notin dMissed /\ ~Unreported("add") => Current(dKnown, dTags)
DetailInv == DetailTyped /\ MarksTellClicks /\ ImageCurrent /\ TagsCurrent

(* A call that begins, goes on or ends.                                    *)
LEMMA DetailCallChanges ==
    ASSUME DetailCalls, NEW s \in Calls, NEW c \in DetailCall,
           c.kind = "idle" => c = Detail!NoCall, c.pc = "insert" => c.kind = "toggle",
           c.kind \in {"toggle", "add"} => c.tag \in Detail!Tag,
           dCall' = [dCall EXCEPT ![s] = c]
    PROVE  DetailCalls' /\ \A r \in Calls : dCall'[r] = IF r = s THEN c ELSE dCall[r]
<1>1. \A r \in Calls : dCall'[r] = IF r = s THEN c ELSE dCall[r]
  BY DEF DetailCalls
<1>2. dCall' \in [Calls -> DetailCall]
  BY DEF DetailCalls
<1> QED
  BY <1>1, <1>2 DEF DetailCalls

LEMMA DetailCallBegins ==
    ASSUME DetailCalls, NEW s \in Calls, NEW kind \in {"toggle", "add", "delete"},
           NEW t \in Detail!Tag \cup {""}, kind # "delete" => t \in Detail!Tag,
           Detail!Send(s, kind, t)
    PROVE  /\ DetailCalls' /\ dCall'[s].kind = kind
           /\ \A r \in Calls :
                 dCall'[r] = IF r = s THEN [kind |-> kind, tag |-> t, pc |-> "sent"] ELSE dCall[r]
<1> DEFINE c == [kind |-> kind, tag |-> t, pc |-> "sent"]
<1>1. dCall' = [dCall EXCEPT ![s] = c]
  BY DEF Detail!Send
<1>2. c \in DetailCall /\ c.kind = kind /\ c.tag = t /\ c.pc = "sent"
  BY DEF DetailCall
<1> HIDE DEF c
<1>3. DetailCalls' /\ \A r \in Calls : dCall'[r] = IF r = s THEN c ELSE dCall[r]
  BY <1>1, <1>2, DetailCallChanges
<1>4. dCall'[s].kind = kind
  BY <1>2, <1>3
<1> QED
  BY <1>3, <1>4 DEF c

LEMMA DetailCallGoes ==
    ASSUME DetailCalls, NEW s \in Calls, NEW pc \in {"ok", "insert", "refused"},
           dCall[s].kind # "idle", pc = "insert" => dCall[s].kind = "toggle",
           Detail!Goto(s, pc)
    PROVE  /\ DetailCalls'
           /\ \A r \in Calls : dCall'[r] = IF r = s THEN [dCall[s] EXCEPT !.pc = pc] ELSE dCall[r]
<1> DEFINE c == [dCall[s] EXCEPT !.pc = pc]
<1>1. dCall' = [dCall EXCEPT ![s] = c]
  BY DEF Detail!Goto
<1>2. dCall[s] \in DetailCall /\ (dCall[s].kind \in {"toggle", "add"} => dCall[s].tag \in Detail!Tag)
  BY DEF DetailCalls
<1>3. c \in DetailCall /\ c.kind = dCall[s].kind /\ c.tag = dCall[s].tag /\ c.pc = pc
  BY <1>2 DEF DetailCall
<1> HIDE DEF c
<1>4. DetailCalls' /\ \A r \in Calls : dCall'[r] = IF r = s THEN c ELSE dCall[r]
  BY <1>1, <1>2, <1>3, DetailCallChanges
<1> QED
  BY <1>4 DEF c

LEMMA DetailCallEnds ==
    ASSUME DetailCalls, NEW s \in Calls, Detail!Finish(s)
    PROVE  DetailCalls' /\ \A r \in Calls : dCall'[r] = IF r = s THEN Detail!NoCall ELSE dCall[r]
<1> DEFINE c == Detail!NoCall
<1>1. dCall' = [dCall EXCEPT ![s] = c]
  BY DEF Detail!Finish
<1>2. c \in DetailCall /\ c.kind = "idle" /\ c.pc = "idle"
  BY DEF DetailCall, Detail!NoCall
<1> HIDE DEF c
<1>3. DetailCalls' /\ \A r \in Calls : dCall'[r] = IF r = s THEN c ELSE dCall[r]
  BY <1>1, <1>2, DetailCallChanges DEF c
<1> QED
  BY <1>3 DEF c

(* Parity.                                                                 *)
LEMMA OddOrEven == \A n \in Int : (n + 1) % 2 = 1 <=> ~(n % 2 = 1)
  OBVIOUS
LEMMA OneLess == \A n \in Int : (n - 1) % 2 = 1 <=> ~(n % 2 = 1)
  OBVIOUS

LEMMA ClickCounted ==
    ASSUME DetailTyped, MarksTellClicks, NEW s \in Calls, NEW t \in Detail!Tag,
           Detail!Toggle(s, t)
    PROVE  DetailTyped' /\ MarksTellClicks'
<1>0. /\ Detail!Send(s, "toggle", t)
      /\ dCall[s].kind = "idle" /\ dClicks' = [dClicks EXCEPT ![t] = dClicks[t] + 1]
      /\ UNCHANGED <<dImage, dKnown, dExists, dMarks>>
  BY DEF Detail!Toggle, Detail!Send, Detail!server
<1>1. /\ DetailCalls'
      /\ \A r \in Calls :
            dCall'[r] = IF r = s THEN [kind |-> "toggle", tag |-> t, pc |-> "sent"] ELSE dCall[r]
  <2>1. DetailCalls
    BY DEF DetailTyped
  <2> QED
    BY <1>0, <2>1, DetailCallBegins
<1>2. dClicks' = [dClicks EXCEPT ![t] = dClicks[t] + 1] /\ dClicks' \in [Detail!Tag -> Int]
  BY <1>0 DEF DetailTyped
<1>3. DetailTyped'
  BY <1>0, <1>1, <1>2 DEF DetailTyped, CacheEntry
<1>4. Unapplied(t)' = Unapplied(t) \cup {s} /\ s \notin Unapplied(t)
  BY <1>0, <1>1 DEF Unapplied
<1>5. \A u \in Detail!Tag : u # t => Unapplied(u)' = Unapplied(u)
  BY <1>0, <1>1 DEF Unapplied
<1>6. IsFiniteSet(Unapplied(t)') /\ Cardinality(Unapplied(t)') = Cardinality(Unapplied(t)) + 1
      /\ Cardinality(Unapplied(t)) \in Nat
  BY <1>4, FS_AddElement, FS_CardinalityType DEF MarksTellClicks
<1>7. \A u \in Detail!Tag : IsFiniteSet(Unapplied(u)')
  BY <1>5, <1>6 DEF MarksTellClicks
<1>8. \A u \in Detail!Tag :
         dClicks'[u] - Cardinality(Unapplied(u)') = dClicks[u] - Cardinality(Unapplied(u))
  <2>1. dClicks[t] \in Int
    BY DEF DetailTyped
  <2>2. dClicks'[t] - Cardinality(Unapplied(t)') = dClicks[t] - Cardinality(Unapplied(t))
    BY <1>2, <1>6, <2>1 DEF DetailTyped
  <2> QED
    BY <2>2, <1>2, <1>5 DEF DetailTyped
<1> QED
  BY <1>0, <1>3, <1>7, <1>8 DEF MarksTellClicks

(* What leaves the unapplied clicks alone.                                 *)
LEMMA NothingApplied ==
    ASSUME MarksTellClicks, \A t \in Detail!Tag : Unapplied(t)' = Unapplied(t),
           UNCHANGED dClicks, dExists' => dExists /\ dMarks' = dMarks
    PROVE  MarksTellClicks'
BY DEF MarksTellClicks

(* A click that is applied, or refused and taken back.                     *)
LEMMA OneApplied ==
    ASSUME DetailTyped, MarksTellClicks, NEW s \in Calls, NEW t \in Detail!Tag,
           s \in Unapplied(t), Unapplied(t)' = Unapplied(t) \ {s},
           \A u \in Detail!Tag : u # t => Unapplied(u)' = Unapplied(u),
           UNCHANGED dExists,
           \/ UNCHANGED dClicks /\ dMarks' = IF t \in dMarks THEN dMarks \ {t} ELSE dMarks \cup {t}
           \/ dClicks' = [dClicks EXCEPT ![t] = @ - 1] /\ UNCHANGED dMarks
    PROVE  MarksTellClicks'
<1>1. IsFiniteSet(Unapplied(t)') /\ Cardinality(Unapplied(t)') = Cardinality(Unapplied(t)) - 1
      /\ Cardinality(Unapplied(t)) \in Nat
  BY FS_RemoveElement, FS_CardinalityType DEF MarksTellClicks
<1>2. \A u \in Detail!Tag : IsFiniteSet(Unapplied(u)')
  BY <1>1 DEF MarksTellClicks
<1>3. dClicks[t] \in Int
  BY DEF DetailTyped
<1>4. CASE UNCHANGED dClicks /\ dMarks' = IF t \in dMarks THEN dMarks \ {t} ELSE dMarks \cup {t}
  <2>1. dClicks'[t] - Cardinality(Unapplied(t)') = (dClicks[t] - Cardinality(Unapplied(t))) + 1
    BY <1>1, <1>3, <1>4
  <2>2. dClicks[t] - Cardinality(Unapplied(t)) \in Int
    BY <1>1, <1>3
  <2>3. (dClicks'[t] - Cardinality(Unapplied(t)')) % 2 = 1
            <=> ~((dClicks[t] - Cardinality(Unapplied(t))) % 2 = 1)
    BY <2>1, <2>2, OddOrEven
  <2>4. \A u \in Detail!Tag : u # t =>
           /\ (u \in dMarks') <=> (u \in dMarks)
           /\ dClicks'[u] - Cardinality(Unapplied(u)') = dClicks[u] - Cardinality(Unapplied(u))
    BY <1>4
  <2>5. (t \in dMarks') <=> ~(t \in dMarks)
    BY <1>4
  <2> QED
    BY <1>2, <2>3, <2>4, <2>5 DEF MarksTellClicks
<1>5. CASE dClicks' = [dClicks EXCEPT ![t] = @ - 1] /\ UNCHANGED dMarks
  <2>1. dClicks'[t] - Cardinality(Unapplied(t)') = dClicks[t] - Cardinality(Unapplied(t))
    BY <1>1, <1>3, <1>5 DEF DetailTyped
  <2>2. \A u \in Detail!Tag : u # t => dClicks'[u] = dClicks[u]
    BY <1>5 DEF DetailTyped
  <2>3. \A u \in Detail!Tag :
           dClicks'[u] - Cardinality(Unapplied(u)') = dClicks[u] - Cardinality(Unapplied(u))
    BY <2>1, <2>2
  <2> QED
    BY <1>2, <1>5, <2>3 DEF MarksTellClicks
<1> QED
  BY <1>4, <1>5
(* A call that begins or is refused has changed nothing yet.               *)
LEMMA StillCurrent ==
    ASSUME ImageCurrent, TagsCurrent, UNCHANGED <<dMarks, dTags, dOpen, dImage, dKnown, dMissed>>,
           dExists' => dExists, Unreported("toggle") => Unreported("toggle")',
           Unreported("add") => Unreported("add")'
    PROVE  ImageCurrent' /\ TagsCurrent'
BY DEF ImageCurrent, TagsCurrent, Current

(* A fetch that is answered, lands or fails.                               *)
LEMMA DetailCache ==
    /\ \A e, truth : Detail!Served(e, truth) = Served(e, truth)
    /\ \A e : /\ Detail!Landed(e) = Landed(e) /\ Detail!Failed(e) = Failed(e)
             /\ Detail!Observed(e) = Observed(e) /\ Detail!Renewed(e) = Renewed(e)
BY DEF Detail!Served, Detail!Landed, Detail!Failed, Detail!Observed, Detail!Renewed,
   Served, Landed, Failed, Observed, Renewed

LEMMA DetailStep ==
    ASSUME DetailInv, [Detail!Next]_Detail!vars
    PROVE  DetailInv'
<1>0. DetailCalls /\ DetailTyped /\ MarksTellClicks /\ ImageCurrent /\ TagsCurrent
  BY DEF DetailInv, DetailTyped
<1>1. CASE UNCHANGED Detail!vars
  <2>1. DetailTyped' /\ \A t \in Detail!Tag : Unapplied(t)' = Unapplied(t)
    BY <1>0, <1>1 DEF Detail!vars, Detail!server, DetailTyped, DetailCalls, CacheEntry, Unapplied
  <2>2. MarksTellClicks'
    BY <1>0, <1>1, <2>1, NothingApplied DEF Detail!vars, Detail!server
  <2>3. ImageCurrent' /\ TagsCurrent'
    BY <1>0, <1>1 DEF Detail!vars, Detail!server, ImageCurrent, TagsCurrent, Current, Unreported
  <2> QED
    BY <2>1, <2>2, <2>3 DEF DetailInv
<1>2. ASSUME NEW s \in Calls, NEW t \in Detail!Tag, Detail!Toggle(s, t)
      PROVE  DetailInv'
  <2>1. DetailTyped' /\ MarksTellClicks'
    BY <1>0, <1>2, ClickCounted
  <2>2. /\ Detail!Send(s, "toggle", t) /\ dCall[s].kind = "idle"
        /\ UNCHANGED <<dMarks, dTags, dOpen, dImage, dKnown, dMissed, dExists>>
    BY <1>2 DEF Detail!Toggle, Detail!Send, Detail!server
  <2>3. \A r \in Calls :
           dCall'[r] = IF r = s THEN [kind |-> "toggle", tag |-> t, pc |-> "sent"] ELSE dCall[r]
    BY <1>0, <2>2, DetailCallBegins
  <2>4. ImageCurrent' /\ TagsCurrent'
    BY <1>0, <2>2, <2>3, StillCurrent DEF Unreported
  <2> QED
    BY <2>1, <2>4 DEF DetailInv
<1>3. ASSUME NEW s \in Calls, NEW kind \in {"add", "delete"}, NEW t \in Detail!Tag \cup {""},
             kind = "add" => t \in Detail!Tag, Detail!Send(s, kind, t), UNCHANGED dClicks
      PROVE  DetailInv'
  <2>2. /\ dCall[s].kind = "idle"
        /\ UNCHANGED <<dMarks, dTags, dOpen, dImage, dKnown, dMissed, dExists>>
    BY <1>3 DEF Detail!Send, Detail!server
  <2>1. kind \in {"toggle", "add", "delete"} /\ (kind # "delete" => t \in Detail!Tag)
        /\ kind # "toggle"
    BY <1>3
  <2>3. /\ DetailCalls' /\ dCall'[s].kind = kind
        /\ \A r \in Calls :
              dCall'[r] = IF r = s THEN [kind |-> kind, tag |-> t, pc |-> "sent"] ELSE dCall[r]
    BY <1>0, <1>3, <2>1, DetailCallBegins
  <2>4. ImageCurrent' /\ TagsCurrent'
    BY <1>0, <2>2, <2>3, StillCurrent DEF Unreported
  <2>5. \A u \in Detail!Tag : Unapplied(u)' = Unapplied(u)
    BY <2>1, <2>2, <2>3 DEF Unapplied
  <2>6. MarksTellClicks'
    BY <1>0, <1>3, <2>2, <2>5, NothingApplied
  <2>7. DetailTyped'
    BY <1>0, <1>3, <2>2, <2>3 DEF DetailTyped, CacheEntry
  <2> QED
    BY <2>4, <2>6, <2>7 DEF DetailInv
<1>4. ASSUME NEW s \in Calls, Detail!Unmark(s)
      PROVE  DetailInv'
  <2>0. PICK t \in Detail!Tag : t = dCall[s].tag
    BY <1>0, <1>4 DEF Detail!Unmark, DetailCalls
  <2>1. /\ dCall[s].kind = "toggle" /\ dCall[s].pc = "sent" /\ t = dCall[s].tag
        /\ dMarks' = dMarks \ {t}
        /\ UNCHANGED <<dTags, dOpen, dImage, dKnown, dMissed, dExists, dClicks>>
    BY <2>0, <1>4 DEF Detail!Unmark
  <2>2. CASE t \in dMarks
    <3>1. Detail!Goto(s, "ok")
      BY <1>4, <2>1, <2>2 DEF Detail!Unmark
    <3>2. DetailCalls' /\ \A r \in Calls :
             dCall'[r] = IF r = s THEN [dCall[s] EXCEPT !.pc = "ok"] ELSE dCall[r]
      BY <1>0, <2>1, <3>1, DetailCallGoes
    <3>3. dCall'[s].kind = "toggle" /\ dCall'[s].pc = "ok" /\ dCall'[s].tag = t
      BY <1>0, <2>1, <3>2 DEF DetailCalls, DetailCall
    <3>4. Unapplied(t)' = Unapplied(t) \ {s} /\ s \in Unapplied(t)
      BY <2>1, <3>2, <3>3 DEF Unapplied
    <3>5. \A u \in Detail!Tag : u # t => Unapplied(u)' = Unapplied(u)
      BY <2>1, <3>2, <3>3 DEF Unapplied
    <3>6. MarksTellClicks'
      BY <1>0, <2>1, <2>2, <3>4, <3>5, OneApplied
    <3>7. DetailTyped'
      BY <1>0, <2>1, <3>2 DEF DetailTyped, CacheEntry
    <3>8. Unreported("toggle")' /\ (Unreported("add") => Unreported("add")')
      BY <2>1, <3>2, <3>3 DEF Unreported
    <3>9. ImageCurrent' /\ TagsCurrent'
      BY <1>0, <2>1, <3>8 DEF ImageCurrent, TagsCurrent, Current
    <3> QED
      BY <3>6, <3>7, <3>9 DEF DetailInv
  <2>3. CASE t \notin dMarks
    <3>1. Detail!Goto(s, "insert") /\ dMarks' = dMarks
      BY <1>4, <2>1, <2>3 DEF Detail!Unmark
    <3>2. DetailCalls' /\ \A r \in Calls :
             dCall'[r] = IF r = s THEN [dCall[s] EXCEPT !.pc = "insert"] ELSE dCall[r]
      BY <1>0, <2>1, <3>1, DetailCallGoes
    <3>3. dCall'[s].kind = "toggle" /\ dCall'[s].pc = "insert" /\ dCall'[s].tag = t
      BY <1>0, <2>1, <3>2 DEF DetailCalls, DetailCall
    <3>4. \A u \in Detail!Tag : Unapplied(u)' = Unapplied(u)
      BY <2>1, <3>2, <3>3 DEF Unapplied
    <3>5. MarksTellClicks'
      BY <1>0, <2>1, <3>1, <3>4, NothingApplied
    <3>7. DetailTyped'
      BY <1>0, <2>1, <3>2 DEF DetailTyped, CacheEntry
    <3>8. ImageCurrent' /\ TagsCurrent'
      BY <1>0, <2>1, <3>1, <3>2, StillCurrent DEF Unreported
    <3> QED
      BY <3>5, <3>7, <3>8 DEF DetailInv
  <2> QED
    BY <2>2, <2>3
<1>5. ASSUME NEW s \in Calls, Detail!Mark(s)
      PROVE  DetailInv'
  <2>0. PICK t \in Detail!Tag : t = dCall[s].tag
    BY <1>0, <1>5 DEF Detail!Mark, DetailCalls
  <2>1. /\ dCall[s].kind = "toggle" /\ dCall[s].pc = "insert" /\ t = dCall[s].tag
        /\ UNCHANGED <<dTags, dOpen, dImage, dKnown, dMissed, dExists>>
    BY <1>0, <2>0, <1>5 DEF Detail!Mark, DetailCalls
  <2>2. ASSUME NEW pc \in {"ok", "refused"}, Detail!Goto(s, pc), dClicks' \in [Detail!Tag -> Int],
               \/ UNCHANGED dClicks /\ dMarks' = IF t \in dMarks THEN dMarks \ {t} ELSE dMarks \cup {t}
               \/ dClicks' = [dClicks EXCEPT ![t] = @ - 1] /\ UNCHANGED dMarks,
               pc = "ok" \/ UNCHANGED dMarks
        PROVE  DetailInv'
    <3>1. pc \in {"ok", "insert", "refused"} /\ dCall[s].kind # "idle"
      BY <2>1, <2>2
    <3>2. DetailCalls' /\ \A r \in Calls :
             dCall'[r] = IF r = s THEN [dCall[s] EXCEPT !.pc = pc] ELSE dCall[r]
      BY <1>0, <2>1, <2>2, <3>1, DetailCallGoes
    <3>3. dCall'[s].kind = "toggle" /\ dCall'[s].pc = pc /\ dCall'[s].tag = t
      BY <1>0, <2>1, <3>2 DEF DetailCalls, DetailCall
    <3>4. Unapplied(t)' = Unapplied(t) \ {s} /\ s \in Unapplied(t)
      BY <2>1, <3>2, <3>3 DEF Unapplied
    <3>5. \A u \in Detail!Tag : u # t => Unapplied(u)' = Unapplied(u)
      BY <2>1, <3>2, <3>3 DEF Unapplied
    <3>6. MarksTellClicks'
      BY <1>0, <2>1, <2>2, <3>4, <3>5, OneApplied
    <3>7. DetailTyped'
      BY <1>0, <2>1, <2>2, <3>2 DEF DetailTyped, CacheEntry
    <3>8. /\ Unreported("add") => Unreported("add")'
          /\ Unreported("toggle") => Unreported("toggle")'
          /\ pc = "ok" => Unreported("toggle")'
      BY <2>1, <3>2, <3>3 DEF Unreported
    <3>9. ImageCurrent' /\ TagsCurrent'
      BY <1>0, <2>1, <2>2, <3>8 DEF ImageCurrent, TagsCurrent, Current
    <3> QED
      BY <3>6, <3>7, <3>9 DEF DetailInv
  <2>3. CASE dExists /\ t \notin dMarks
    BY <1>0, <1>5, <2>1, <2>2, <2>3 DEF Detail!Mark, DetailTyped
  <2>4. CASE ~(dExists /\ t \notin dMarks)
    <3>1. Detail!Goto(s, "refused") /\ UNCHANGED dMarks /\ dClicks' = [dClicks EXCEPT ![t] = @ - 1]
      BY <1>5, <2>1, <2>4 DEF Detail!Mark
    <3>2. dClicks' \in [Detail!Tag -> Int]
      BY <1>0, <2>1, <3>1 DEF DetailTyped
    <3> QED
      BY <2>2, <3>1, <3>2
  <2> QED
    BY <2>3, <2>4
<1>6. ASSUME NEW s \in Calls, Detail!MakeTag(s)
      PROVE  DetailInv'
  <2>1. /\ dCall[s].kind = "add" /\ dCall[s].pc = "sent" /\ Detail!Goto(s, "ok")
        /\ UNCHANGED <<dMarks, dOpen, dImage, dKnown, dMissed, dExists, dClicks>>
    BY <1>6 DEF Detail!MakeTag
  <2>2. DetailCalls' /\ \A r \in Calls :
           dCall'[r] = IF r = s THEN [dCall[s] EXCEPT !.pc = "ok"] ELSE dCall[r]
    BY <1>0, <2>1, DetailCallGoes
  <2>3. dCall'[s].kind = "add" /\ dCall'[s].pc = "ok"
    BY <1>0, <2>1, <2>2 DEF DetailCalls, DetailCall
  <2>4. \A u \in Detail!Tag : Unapplied(u)' = Unapplied(u)
    BY <2>1, <2>2, <2>3 DEF Unapplied
  <2>5. MarksTellClicks'
    BY <1>0, <2>1, <2>4, NothingApplied
  <2>6. DetailTyped'
    BY <1>0, <2>1, <2>2 DEF DetailTyped, CacheEntry
  <2>7. Unreported("add")' /\ (Unreported("toggle") => Unreported("toggle")')
    BY <2>1, <2>2, <2>3 DEF Unreported
  <2>8. ImageCurrent' /\ TagsCurrent'
    BY <1>0, <2>1, <2>7 DEF ImageCurrent, TagsCurrent, Current
  <2> QED
    BY <2>5, <2>6, <2>8 DEF DetailInv
<1>7. ASSUME NEW s \in Calls, Detail!Erase(s)
      PROVE  DetailInv'
  <2>1. /\ dCall[s].kind = "delete" /\ dCall[s].pc = "sent"
        /\ UNCHANGED <<dTags, dOpen, dImage, dKnown, dMissed, dClicks>>
        /\ dExists' => dExists /\ UNCHANGED dMarks
    BY <1>7 DEF Detail!Erase, Detail!Gone
  <2>2. PICK pc \in {"ok", "refused"} : Detail!Goto(s, pc)
    BY <1>7 DEF Detail!Erase
  <2>3. DetailCalls' /\ \A r \in Calls :
           dCall'[r] = IF r = s THEN [dCall[s] EXCEPT !.pc = pc] ELSE dCall[r]
    BY <1>0, <2>1, <2>2, DetailCallGoes
  <2>4. dCall'[s].kind = "delete"
    BY <1>0, <2>1, <2>3 DEF DetailCalls, DetailCall
  <2>5. \A u \in Detail!Tag : Unapplied(u)' = Unapplied(u)
    BY <2>1, <2>3, <2>4 DEF Unapplied
  <2>6. MarksTellClicks'
    BY <1>0, <2>1, <2>5, NothingApplied
  <2>7. DetailTyped'
    BY <1>0, <2>1, <2>3 DEF DetailTyped, CacheEntry
  <2>8. \A kind \in {"toggle", "add"} : Unreported(kind) => Unreported(kind)'
    BY <2>1, <2>3 DEF Unreported
  <2>9. ImageCurrent' /\ TagsCurrent'
    BY <1>0, <2>1, <2>8 DEF ImageCurrent, TagsCurrent, Current
  <2> QED
    BY <2>6, <2>7, <2>9 DEF DetailInv
<1>8. CASE Detail!EraseElsewhere
  <2>1. /\ UNCHANGED <<dTags, dOpen, dImage, dKnown, dMissed, dClicks, dCall>> /\ ~dExists'
    BY <1>8 DEF Detail!EraseElsewhere, Detail!Gone
  <2>2. DetailTyped' /\ \A u \in Detail!Tag : Unapplied(u)' = Unapplied(u)
    BY <1>0, <2>1 DEF DetailTyped, DetailCalls, CacheEntry, Unapplied
  <2>3. MarksTellClicks'
    BY <1>0, <2>1, <2>2, NothingApplied
  <2>4. ImageCurrent' /\ TagsCurrent'
    BY <1>0, <2>1 DEF ImageCurrent, TagsCurrent, Current, Unreported
  <2> QED
    BY <2>2, <2>3, <2>4 DEF DetailInv
<1>9. ASSUME NEW s \in Calls, Detail!Finish(s), dCall[s].pc \in {"ok", "refused"},
             UNCHANGED <<dExists, dTags, dMarks, dClicks>>,
             CacheEntry(dImage)', CacheEntry(dKnown)',
             ~Unreported("toggle")' /\ dExists /\ dOpen' /\ "image" \notin dMissed'
                => Current(dImage', dMarks),
             ~Unreported("add")' /\ dOpen' /\ "tags" \notin dMissed' => Current(dKnown', dTags)
      PROVE  DetailInv'
  <2>1. DetailCalls' /\ \A r \in Calls : dCall'[r] = IF r = s THEN Detail!NoCall ELSE dCall[r]
    BY <1>0, <1>9, DetailCallEnds
  <2>a. dCall'[s].kind = "idle" /\ \A r \in Calls : r # s => dCall'[r] = dCall[r]
    <3>1. Detail!NoCall.kind = "idle"
      BY DEF Detail!NoCall
    <3> QED
      BY <2>1, <3>1
  <2>2. \A u \in Detail!Tag : Unapplied(u)' = Unapplied(u)
    BY <1>9, <2>a DEF Unapplied
  <2>3. MarksTellClicks'
    BY <1>0, <1>9, <2>2, NothingApplied
  <2>4. DetailTyped'
    BY <1>0, <1>9, <2>1 DEF DetailTyped
  <2>5. ImageCurrent' /\ TagsCurrent'
    BY <1>9 DEF ImageCurrent, TagsCurrent, Current
  <2> QED
    BY <2>3, <2>4, <2>5 DEF DetailInv
<1>10. ASSUME NEW s \in Calls, Detail!Toggled(s)
       PROVE  DetailInv'
  <2>1. /\ dCall[s].kind = "toggle" /\ dCall[s].pc = "ok" /\ Detail!Finish(s)
        /\ UNCHANGED <<dExists, dTags, dMarks, dClicks, dOpen, dKnown>>
        /\ dImage' = Detail!Refetch(dImage) /\ dMissed' = Detail!Again("image", dImage)
    BY <1>10 DEF Detail!Toggled, Detail!server
  <2>2. \A r \in Calls : dCall'[r] = IF r = s THEN Detail!NoCall ELSE dCall[r]
    BY <1>0, <2>1, DetailCallEnds
  <2>3. Unreported("add") => Unreported("add")'
    BY <2>1, <2>2 DEF Unreported
  <2>4. CacheEntry(dImage)' /\ CacheEntry(dKnown)'
    BY <1>0, <2>1 DEF DetailTyped, CacheEntry, Detail!Refetch, Detail!Renewed
  <2>5. dOpen' /\ "image" \notin dMissed' => dImage'.flight = "asked"
    BY <1>0, <2>1 DEF DetailTyped, CacheEntry, Detail!Refetch, Detail!Renewed, Detail!Again,
       Detail!Misses, Detail!Loading, Detail!Aged
  <2>6. dImage'.flight = "asked" => Current(dImage', dMarks)
    BY DEF Current
  <2>7. ("tags" \in dMissed') <=> ("tags" \in dMissed)
    BY <2>1 DEF Detail!Again
  <2>8. ~Unreported("add")' /\ dOpen' /\ "tags" \notin dMissed' => Current(dKnown', dTags)
    BY <1>0, <2>1, <2>3, <2>7 DEF TagsCurrent
  <2> QED
    BY <1>9, <2>1, <2>4, <2>5, <2>6, <2>8
<1>11. ASSUME NEW s \in Calls, Detail!Added(s)
       PROVE  DetailInv'
  <2>1. /\ dCall[s].kind = "add" /\ dCall[s].pc = "ok" /\ Detail!Finish(s)
        /\ UNCHANGED <<dExists, dTags, dMarks, dClicks, dOpen>>
        /\ dImage' = Detail!Refetch(dImage) /\ dKnown' = Detail!Refetch(dKnown)
        /\ ("image" \in dMissed') <=> Detail!Misses("image", dImage)
        /\ ("tags" \in dMissed') <=> Detail!Misses("tags", dKnown)
    BY <1>11 DEF Detail!Added, Detail!server
  <2>2. CacheEntry(dImage)' /\ CacheEntry(dKnown)'
    BY <1>0, <2>1 DEF DetailTyped, CacheEntry, Detail!Refetch, Detail!Renewed
  <2>3. dOpen' /\ "image" \notin dMissed' => dImage'.flight = "asked"
    BY <1>0, <2>1 DEF DetailTyped, CacheEntry, Detail!Refetch, Detail!Renewed,
       Detail!Misses, Detail!Loading, Detail!Aged
  <2>4. dOpen' /\ "tags" \notin dMissed' => dKnown'.flight = "asked"
    BY <1>0, <2>1 DEF DetailTyped, CacheEntry, Detail!Refetch, Detail!Renewed,
       Detail!Misses, Detail!Loading, Detail!Aged
  <2>5. /\ dImage'.flight = "asked" => Current(dImage', dMarks)
        /\ dKnown'.flight = "asked" => Current(dKnown', dTags)
    BY DEF Current
  <2> QED
    BY <1>9, <2>1, <2>2, <2>3, <2>4, <2>5
<1>12. ASSUME NEW s \in Calls, Detail!Deleted(s) \/ Detail!Refuse(s) \/ Detail!LoseAnswer(s)
       PROVE  DetailInv'
  <2>1. /\ dCall[s].pc \in {"ok", "refused"} /\ Detail!Finish(s)
        /\ UNCHANGED <<dExists, dTags, dMarks, dClicks, dImage, dKnown>>
        /\ \/ ~dOpen' \/ {"image", "tags"} \subseteq dMissed'
           \/ dCall[s].pc = "refused" /\ UNCHANGED <<dOpen, dMissed>>
    BY <1>12 DEF Detail!Deleted, Detail!Refuse, Detail!LoseAnswer, Detail!server
  <2>2. \A r \in Calls : dCall'[r] = IF r = s THEN Detail!NoCall ELSE dCall[r]
    BY <1>0, <2>1, DetailCallEnds
  <2>3. dCall[s].pc = "refused" =>
           \A kind \in {"toggle", "add"} : Unreported(kind) => Unreported(kind)'
    BY <2>2 DEF Unreported
  <2>4. CacheEntry(dImage)' /\ CacheEntry(dKnown)'
    BY <1>0, <2>1 DEF DetailTyped, CacheEntry
  <2>5. ~Unreported("toggle")' /\ dExists /\ dOpen' /\ "image" \notin dMissed'
            => Current(dImage', dMarks)
    BY <1>0, <2>1, <2>3 DEF ImageCurrent
  <2>6. ~Unreported("add")' /\ dOpen' /\ "tags" \notin dMissed' => Current(dKnown', dTags)
    BY <1>0, <2>1, <2>3 DEF TagsCurrent
  <2> QED
    BY <1>9, <2>1, <2>4, <2>5, <2>6
<1>13. ASSUME UNCHANGED <<dExists, dTags, dMarks, dClicks, dCall>>,
              CacheEntry(dImage)', CacheEntry(dKnown)',
              ~Unreported("toggle") /\ dExists /\ dOpen' /\ "image" \notin dMissed'
                 => Current(dImage', dMarks),
              ~Unreported("add") /\ dOpen' /\ "tags" \notin dMissed' => Current(dKnown', dTags)
       PROVE  DetailInv'
  <2>1. DetailCalls' /\ \A u \in Detail!Tag : Unapplied(u)' = Unapplied(u)
    BY <1>0, <1>13 DEF DetailCalls, Unapplied
  <2>2. MarksTellClicks'
    BY <1>0, <1>13, <2>1, NothingApplied
  <2>3. DetailTyped'
    BY <1>0, <1>13, <2>1 DEF DetailTyped
  <2>4. Unreported("toggle")' = Unreported("toggle") /\ Unreported("add")' = Unreported("add")
    BY <1>13 DEF Unreported
  <2>5. ImageCurrent' /\ TagsCurrent'
    BY <1>13, <2>4 DEF ImageCurrent, TagsCurrent, Current
  <2> QED
    BY <2>2, <2>3, <2>5 DEF DetailInv
<1>14. CASE Detail!Leave
  <2>1. UNCHANGED <<dExists, dTags, dMarks, dClicks, dCall, dImage, dKnown>> /\ ~dOpen'
    BY <1>14 DEF Detail!Leave, Detail!server
  <2>2. CacheEntry(dImage)' /\ CacheEntry(dKnown)'
    BY <1>0, <2>1 DEF DetailTyped, CacheEntry
  <2> QED
    BY <1>13, <2>1, <2>2
<1>15. CASE Detail!Enter
  <2>1. /\ UNCHANGED <<dExists, dTags, dMarks, dClicks, dCall>>
        /\ dImage' = Detail!Observed(dImage) /\ dKnown' = Detail!Observed(dKnown)
        /\ ("image" \in dMissed') <=> Detail!Aged(dImage)
        /\ ("tags" \in dMissed') <=> Detail!Aged(dKnown)
    BY <1>15 DEF Detail!Enter, Detail!server
  <2>2. CacheEntry(dImage)' /\ CacheEntry(dKnown)'
    BY <1>0, <2>1 DEF DetailTyped, CacheEntry, Detail!Observed
  <2>3. /\ "image" \notin dMissed' => dImage'.flight = "asked"
        /\ "tags" \notin dMissed' => dKnown'.flight = "asked"
    BY <1>0, <2>1 DEF DetailTyped, CacheEntry, Detail!Observed, Detail!Aged
  <2>4. /\ dImage'.flight = "asked" => Current(dImage', dMarks)
        /\ dKnown'.flight = "asked" => Current(dKnown', dTags)
    BY DEF Current
  <2> QED
    BY <1>13, <2>1, <2>2, <2>3, <2>4
<1>16. CASE Detail!Serve \/ Detail!NotFound \/ Detail!Land
  <2>1. UNCHANGED <<dExists, dTags, dMarks, dClicks, dCall, dKnown, dOpen, dMissed>>
    BY <1>16 DEF Detail!Serve, Detail!NotFound, Detail!Land, Detail!server
  <2>a. \/ dImage' = Detail!Served(dImage, dMarks)
        \/ dImage' = Detail!Failed(dImage) /\ ~dExists
        \/ dImage' = Detail!Landed(dImage) /\ dImage.flight = "answered"
    BY <1>16 DEF Detail!Serve, Detail!NotFound, Detail!Land, Detail!Aged
  <2>b. /\ CacheEntry(dImage)'
        /\ dExists /\ Current(dImage, dMarks) => Current(dImage', dMarks)
    <3>1. CacheEntry(dImage) /\ Evolves(dImage, dImage', dMarks)
      BY <1>0, <2>a, DetailCache DEF DetailTyped, Evolves
    <3>2. CacheEntry(dImage')
      BY <3>1, StaysEntry
    <3>3. dExists /\ Current(dImage, dMarks) => Current(dImage', dMarks)
      BY <2>a, <3>1, StaysCurrent, DetailCache
    <3> QED
      BY <3>2, <3>3 DEF CacheEntry
  <2>2. CacheEntry(dImage)' /\ CacheEntry(dKnown)'
    BY <1>0, <2>1, <2>b DEF DetailTyped, CacheEntry
  <2>3. ~Unreported("toggle") /\ dExists /\ dOpen' /\ "image" \notin dMissed'
            => Current(dImage', dMarks)
    BY <1>0, <2>1, <2>b DEF ImageCurrent
  <2>4. ~Unreported("add") /\ dOpen' /\ "tags" \notin dMissed' => Current(dKnown', dTags)
    BY <1>0, <2>1 DEF TagsCurrent
  <2> QED
    BY <1>13, <2>1, <2>2, <2>3, <2>4
<1>17. CASE Detail!FetchTags
  <2>1. UNCHANGED <<dExists, dTags, dMarks, dClicks, dCall, dImage, dOpen, dMissed>>
    BY <1>17 DEF Detail!FetchTags, Detail!server
  <2>a. \/ dKnown' = Detail!Served(dKnown, dTags)
        \/ dKnown' = Detail!Landed(dKnown) /\ dKnown.flight = "answered"
    BY <1>17 DEF Detail!FetchTags, Detail!Aged
  <2>b. CacheEntry(dKnown)' /\ (Current(dKnown, dTags) => Current(dKnown', dTags))
    <3>1. CacheEntry(dKnown) /\ Evolves(dKnown, dKnown', dTags)
      BY <1>0, <2>a, DetailCache DEF DetailTyped, Evolves
    <3>2. CacheEntry(dKnown')
      BY <3>1, StaysEntry
    <3>3. Current(dKnown, dTags) => Current(dKnown', dTags)
      BY <2>a, <3>1, StaysCurrent, DetailCache
    <3> QED
      BY <3>2, <3>3 DEF CacheEntry
  <2>2. CacheEntry(dImage)' /\ CacheEntry(dKnown)'
    BY <1>0, <2>1, <2>b DEF DetailTyped, CacheEntry
  <2>3. ~Unreported("add") /\ dOpen' /\ "tags" \notin dMissed' => Current(dKnown', dTags)
    BY <1>0, <2>1, <2>b DEF TagsCurrent
  <2>4. ~Unreported("toggle") /\ dExists /\ dOpen' /\ "image" \notin dMissed'
            => Current(dImage', dMarks)
    BY <1>0, <2>1 DEF ImageCurrent
  <2> QED
    BY <1>13, <2>1, <2>2, <2>3, <2>4
<1>18. ASSUME NEW s \in Calls, NEW t \in Detail!Tag, Detail!AddTag(s, t) PROVE DetailInv'
  BY <1>3, <1>18 DEF Detail!AddTag
<1>19. ASSUME NEW s \in Calls, Detail!Delete(s) PROVE DetailInv'
  BY <1>3, <1>19 DEF Detail!Delete
<1> QED
  BY <1>1, <1>2, <1>4, <1>5, <1>6, <1>7, <1>8, <1>10, <1>11, <1>12, <1>14, <1>15, <1>16, <1>17,
     <1>18, <1>19 DEF Detail!Next

LEMMA DetailBegins == Detail!Init => DetailInv
<1> SUFFICES ASSUME Detail!Init PROVE DetailInv
  OBVIOUS
<1>0. \A s \in Calls : dCall[s] = Detail!NoCall
  BY DEF Detail!Init
<1>1. DetailTyped /\ \A s \in Calls : dCall[s].kind = "idle"
  <2>1. DetailCalls
    BY <1>0 DEF Detail!Init, DetailCalls, DetailCall, Detail!NoCall
  <2>2. CacheEntry(dImage) /\ CacheEntry(dKnown)
    BY DEF Detail!Init, CacheEntry, Detail!Observed, Detail!Empty
  <2>3. dClicks \in [Detail!Tag -> Int]
    BY DEF Detail!Init
  <2>4. Detail!NoCall.kind = "idle"
    BY DEF Detail!NoCall
  <2> QED
    BY <1>0, <2>1, <2>2, <2>3, <2>4 DEF DetailTyped
<1>2. \A t \in Detail!Tag : Unapplied(t) = {}
  BY <1>1 DEF Unapplied
<1>3. MarksTellClicks
  <2>1. \A t \in Detail!Tag : dClicks[t] - Cardinality(Unapplied(t)) = 0
    BY <1>2, FS_EmptySet DEF Detail!Init
  <2>2. 0 % 2 # 1
    OBVIOUS
  <2> QED
    BY <1>2, <2>1, <2>2, FS_EmptySet DEF MarksTellClicks, Detail!Init
<1>4. dImage.flight = "asked" /\ dKnown.flight = "asked"
  BY DEF Detail!Init, Detail!Observed, Detail!Empty
<1>5. ImageCurrent /\ TagsCurrent
  BY <1>4 DEF ImageCurrent, TagsCurrent, Current
<1> QED
  BY <1>1, <1>3, <1>5 DEF DetailInv

(* At rest nothing is on the way.                                          *)
LEMMA DetailHolds == DetailInv => Detail!LitTagsTellClicks /\ Detail!AddedTagsOffered
<1> SUFFICES ASSUME DetailInv, Detail!AtRest
             PROVE  /\ dExists /\ "image" \notin dMissed =>
                          \A t \in Detail!Tag : (t \in dImage.data) <=> (dClicks[t] % 2 = 1)
                    /\ "tags" \notin dMissed => dKnown.data = dTags
  BY DEF Detail!LitTagsTellClicks, Detail!AddedTagsOffered
<1>1. /\ dOpen /\ dImage.flight = "none" /\ dKnown.flight = "none"
      /\ \A s \in Calls : dCall[s].kind = "idle" /\ dCall[s].pc = "idle"
  <2>1. [kind |-> "idle", tag |-> "", pc |-> "idle"].kind = "idle"
        /\ [kind |-> "idle", tag |-> "", pc |-> "idle"].pc = "idle"
    OBVIOUS
  <2> QED
    BY <2>1 DEF Detail!AtRest, Detail!Resting, Detail!NoCall
<1>2. \A t \in Detail!Tag : Unapplied(t) = {} /\ dClicks[t] \in Int
  BY <1>1 DEF Unapplied, DetailInv, DetailTyped
<1>3. \A t \in Detail!Tag : dClicks[t] - Cardinality(Unapplied(t)) = dClicks[t]
  BY <1>2, FS_EmptySet
<1>4. ~Unreported("toggle") /\ ~Unreported("add")
  BY <1>1 DEF Unreported
<1> QED
  BY <1>1, <1>3, <1>4 DEF DetailInv, MarksTellClicks, ImageCurrent, TagsCurrent, Current

(* The page of an image: at rest a tag is lit exactly if it was clicked an  *)
(* odd number of times, however the calls and the fetches overlapped, and   *)
(* the tags the user added can be clicked (ImageDetailPage.tsx:205-231).    *)
THEOREM DetailTrue == Detail!Spec => [](Detail!LitTagsTellClicks /\ Detail!AddedTagsOffered)
<1>1. Detail!Init => DetailInv
  BY DetailBegins
<1>2. DetailInv /\ [Detail!Next]_Detail!vars => DetailInv'
  BY DetailStep
<1>3. DetailInv => Detail!LitTagsTellClicks /\ Detail!AddedTagsOffered
  BY DetailHolds
<1> QED
  BY <1>1, <1>2, <1>3, PTL DEF Detail!Spec

-----------------------------------------------------------------------------
(* The monitor.  A row that was stored is still there or older than every   *)
(* range that can be asked for.                                             *)
HostInv ==
    /\ hNow \in Nat /\ hCollected \subseteq 0..hNow /\ hMetrics \subseteq hCollected
    /\ \A t \in hCollected \ hMetrics : Host!Old(t)

LEMMA HostBegins == Host!Init => HostInv
BY DEF Host!Init, HostInv

LEMMA HostStep ==
    ASSUME HostInv, [Host!Next]_Host!vars
    PROVE  HostInv'
<1>0. /\ HostKept * HostDayLength \in Nat
      /\ \A t \in hCollected : t \in Nat /\ t <= hNow
  BY HostAssumption DEF HostInv
<1>1. CASE UNCHANGED <<hNow, hMetrics, hCollected>>
  BY <1>1 DEF HostInv, Host!Old, Host!Cutoff
<1>2. CASE Host!Insert
  <2>1. /\ hNow' = hNow /\ hNow \in 0..hNow
        /\ \/ hMetrics' = hMetrics \cup {hNow} /\ hCollected' = hCollected \cup {hNow}
           \/ UNCHANGED <<hMetrics, hCollected>>
    BY <1>2 DEF Host!Insert, HostInv
  <2>2. /\ hCollected' \subseteq 0..hNow /\ hMetrics' \subseteq hCollected'
        /\ hCollected' \ hMetrics' \subseteq hCollected \ hMetrics
    BY <2>1 DEF HostInv
  <2> QED
    BY <2>1, <2>2 DEF HostInv, Host!Old, Host!Cutoff
<1>3. CASE Host!DeleteOld
  BY <1>3 DEF HostInv, Host!DeleteOld, Host!Old, Host!Cutoff
<1>4. CASE Host!Tick
  BY <1>0, <1>4 DEF HostInv, Host!Tick, Host!Old, Host!Cutoff
<1> QED
  BY <1>1, <1>2, <1>3, <1>4 DEF Host!Next, Host!Start, Host!Minute, Host!Stop, Host!vars

(* Days are of one length.                                                  *)
LEMMA LaterDay ==
    ASSUME NEW D \in Nat \ {0}, NEW a \in Int, NEW b \in Int
    PROVE  /\ a \div D > b \div D => a > b
           /\ a > b + D => a \div D > b \div D
OBVIOUS

LEMMA HostHolds == HostInv => Host!HistoryReaches
<1> SUFFICES ASSUME HostInv, NEW range \in HostPeriods, NEW t \in hCollected
             PROVE  LET shown == Host!GetHistory(range)
                    IN  /\ t \in shown => t > Host!Cutoff(range)
                        /\ t > Host!Cutoff(range - 1) => t \in shown
  BY DEF Host!HistoryReaches, Host!GetHistory, HostInv
<1>1. /\ range \in Nat /\ HostDayLength \in Nat \ {0} /\ range <= HostKept /\ HostKept \in Nat
      /\ range * HostDayLength <= HostKept * HostDayLength
      /\ range * HostDayLength \in Nat /\ HostKept * HostDayLength \in Nat
  BY HostAssumption
<1>2. t \in Int /\ hNow \in Int
  BY DEF HostInv
<1>3. /\ Host!Cutoff(range) \in Int
      /\ Host!Cutoff(range - 1) = Host!Cutoff(range) + HostDayLength
      /\ Host!Cutoff(HostKept) <= Host!Cutoff(range)
  BY <1>1, <1>2 DEF Host!Cutoff
<1>4. t \in Host!GetHistory(range) => t > Host!Cutoff(range)
  BY <1>1, <1>2, <1>3, LaterDay DEF Host!GetHistory, Host!Since, Host!Day
<1>5. ASSUME t > Host!Cutoff(range - 1) PROVE t \in Host!GetHistory(range)
  <2>1. t > Host!Cutoff(range) + HostDayLength
    BY <1>3, <1>5
  <2>2. t \in hMetrics
    BY <1>1, <1>2, <1>3, <2>1 DEF HostInv, Host!Old, Host!Cutoff
  <2>3. Host!Since(t, Host!Cutoff(range))
    BY <1>1, <1>2, <1>3, <2>1, LaterDay DEF Host!Since, Host!Day
  <2> QED
    BY <2>2, <2>3 DEF Host!GetHistory
<1> QED
  BY <1>4, <1>5

(* No range of the history lacks what was measured in it, or shows more.    *)
THEOREM MonitorKeepsHistory == Host!Spec => []Host!HistoryReaches
<1>1. Host!Init => HostInv
  BY HostBegins
<1>2. HostInv /\ [Host!Next]_Host!vars => HostInv'
  BY HostStep
<1>3. HostInv => Host!HistoryReaches
  BY HostHolds
<1> QED
  BY <1>1, <1>2, <1>3, PTL DEF Host!Spec

-----------------------------------------------------------------------------
(* The gallery.  A call under way, and what one may still change or has     *)
(* changed without saying so.                                               *)
GalleryCall ==
    [kind: {"idle", "delete", "rename", "batch", "detail"}, ids: SUBSET GalleryImages,
     mine: BOOLEAN, pc: {"idle", "sent", "ok", "refused"}, here: BOOLEAN]
CallSound(o) ==
    /\ o.kind = "idle" => o.pc = "idle"
    /\ o.pc = "sent" /\ o.kind # "batch" => \E i \in GalleryImages : o.ids = {i}
    /\ o.pc = "refused" => o.kind # "batch"
Dirty(o) == o.kind = "batch" \/ o.pc = "ok"
GalleryCalls ==
    gOp \in [Calls -> GalleryCall] /\ \A s \in Calls : CallSound(gOp[s])

(* All that can be ticked are images, and the bar is there for the ticks.   *)
GallerySelection ==
    gSelected \subseteq GalleryImages /\ gSelecting \in BOOLEAN /\ Gallery!TicksMatchMode

(* An answer counts what matches; as long as nothing is deleted it is right.*)
Counts(k) == {d \in {gList[k].data, gList[k].answer, Gallery!Truth(k)} :
                 /\ d.total \in 0..Cardinality(GalleryImages)
                 /\ gAlive = GalleryImages => d.total = Len(Gallery!NewestFirst[Gallery!Matching(k)])}
GalleryLists ==
    /\ gAlive \subseteq GalleryImages /\ gKey \in Gallery!Key
    /\ DOMAIN gList = Gallery!Key
    /\ \A k \in Gallery!Key : CacheEntry(gList[k]) /\ HoldsOf(gList[k], Counts(k))

GalleryCurrent ==
    gScreen = "gallery" /\ ~gOvertaken /\ (\A s \in Calls : ~Dirty(gOp[s]))
        => Current(gList[gKey], Gallery!Truth(gKey))

GalleryPaged ==
    ~gNarrowed /\ gAlive = GalleryImages =>
        \/ gKey.page = 1
        \/ gKey.page <= Gallery!LastPage(Len(Gallery!NewestFirst[Gallery!Matching(gKey)]))

GalleryInv == GalleryCalls /\ GallerySelection /\ GalleryLists /\ GalleryCurrent /\ GalleryPaged

LEMMA GalleryCache ==
    /\ \A e, truth : Gallery!Served(e, truth) = Served(e, truth)
    /\ \A e : /\ Gallery!Landed(e) = Landed(e) /\ Gallery!Failed(e) = Failed(e)
             /\ Gallery!Observed(e) = Observed(e) /\ Gallery!Renewed(e) = Renewed(e)
             /\ Gallery!Loading(e) = Loading(e) /\ Gallery!Aged(e) = Aged(e)
             /\ Gallery!Resting(e) = Resting(e)
    /\ Gallery!Empty = Empty
BY DEF Gallery!Served, Gallery!Landed, Gallery!Failed, Gallery!Observed, Gallery!Renewed,
   Gallery!Loading, Gallery!Aged, Gallery!Resting, Gallery!Empty,
   Served, Landed, Failed, Observed, Renewed, Loading, Aged, Resting, Empty

LEMMA GalleryCounts == \A S : Gallery!Cardinality(S) = Cardinality(S)
BY DEF Gallery!Cardinality, Cardinality

LEMMA PagesGrow ==
    ASSUME NEW m \in Nat, NEW n \in Nat, m <= n
    PROVE  /\ Gallery!LastPage(m) \in Nat /\ Gallery!LastPage(n) \in Nat
           /\ Gallery!LastPage(m) <= Gallery!LastPage(n)
<1>1. GalleryPageSize \in Nat \ {0}
  BY GalleryAssumption
<1>2. m + GalleryPageSize - 1 \in Nat /\ n + GalleryPageSize - 1 \in Nat
      /\ m + GalleryPageSize - 1 <= n + GalleryPageSize - 1
  BY <1>1
<1> DEFINE a == m + GalleryPageSize - 1
           b == n + GalleryPageSize - 1
<1>3. a \in Nat /\ b \in Nat /\ a <= b
  BY <1>2
<1>4. Gallery!LastPage(m) = a \div GalleryPageSize /\ Gallery!LastPage(n) = b \div GalleryPageSize
  BY DEF Gallery!LastPage
<1> HIDE DEF a, b
<1>5. /\ a \div GalleryPageSize \in Nat /\ b \div GalleryPageSize \in Nat
      /\ a \div GalleryPageSize <= b \div GalleryPageSize
  BY <1>1, <1>3
<1> QED
  BY <1>4, <1>5

LEMMA GalleryKeys ==
    /\ Gallery!Page \subseteq Nat \ {0} /\ 1 \in Gallery!Page
    /\ \A own \in BOOLEAN : Gallery!Home(own) \in Gallery!Key /\ Gallery!Home(own).page = 1
                             /\ Gallery!Home(own).mine = own
    /\ \A k \in Gallery!Key :
          /\ k.page \in Gallery!Page /\ k.mine \in BOOLEAN /\ k.filtered \in BOOLEAN
          /\ \A own \in BOOLEAN : [k EXCEPT !.mine = own] \in Gallery!Key
          /\ [k EXCEPT !.filtered = ~k.filtered] \in Gallery!Key
<1>1. Cardinality(GalleryImages) \in Nat
  BY GalleryAssumption, FS_CardinalityType
<1>2. Gallery!LastPage(Cardinality(GalleryImages)) \in Nat
  BY <1>1, PagesGrow
<1>3. Gallery!Page \subseteq Nat \ {0} /\ 1 \in Gallery!Page
  BY <1>2, GalleryCounts DEF Gallery!Page
<1>4. \A own \in BOOLEAN : Gallery!Home(own) \in Gallery!Key /\ Gallery!Home(own).page = 1
                                  /\ Gallery!Home(own).mine = own
  BY <1>3 DEF Gallery!Key, Gallery!Home
<1>5. \A k \in Gallery!Key :
          /\ k.page \in Gallery!Page /\ k.mine \in BOOLEAN /\ k.filtered \in BOOLEAN
          /\ \A own \in BOOLEAN : [k EXCEPT !.mine = own] \in Gallery!Key
          /\ [k EXCEPT !.filtered = ~k.filtered] \in Gallery!Key
  BY DEF Gallery!Key
<1> QED
  BY <1>3, <1>4, <1>5

LEMMA GalleryPageKeys ==
    ASSUME NEW k \in Gallery!Key, NEW n \in Gallery!Page
    PROVE  /\ [k EXCEPT !.page = n] \in Gallery!Key
           /\ [k EXCEPT !.page = n].mine = k.mine
           /\ [k EXCEPT !.page = n].filtered = k.filtered
           /\ [k EXCEPT !.page = n].page = n
           /\ [k EXCEPT !.filtered = ~k.filtered, !.page = n] \in Gallery!Key
           /\ [k EXCEPT !.filtered = ~k.filtered, !.page = n].page = n
BY DEF Gallery!Key

(* What matches, as long as nothing changes.                                *)
LEMMA SameImages ==
    ASSUME UNCHANGED <<gUser, gAlive, gRenamed>>
    PROVE  \A k : Gallery!Truth(k)' = Gallery!Truth(k) /\ Gallery!Matching(k)' = Gallery!Matching(k)
BY DEF Gallery!Truth, Gallery!Matching

LEMMA MatchingCounted ==
    ASSUME gAlive \subseteq GalleryImages, NEW k
    PROVE  /\ Gallery!Matching(k) \in SUBSET GalleryImages
           /\ Gallery!Truth(k).total = Len(Gallery!NewestFirst[Gallery!Matching(k)])
           /\ Gallery!Truth(k).total \in 0..Cardinality(GalleryImages)
<1>1. Gallery!Matching(k) \in SUBSET GalleryImages
  BY DEF Gallery!Matching
<1>2. Gallery!NewestFirst[Gallery!Matching(k)] = Descending(Gallery!Matching(k))
  <2>1. Gallery!NewestFirst[Gallery!Matching(k)] = Gallery!Descending(Gallery!Matching(k))
    BY <1>1 DEF Gallery!NewestFirst
  <2>2. Gallery!Descending(Gallery!Matching(k)) = Descending(Gallery!Matching(k))
    BY DEF Gallery!Descending, Descending, Gallery!Newer, Newer, Gallery!Cardinality, Cardinality
  <2> QED
    BY <2>1, <2>2
<1>3. Gallery!Truth(k).total = Len(Gallery!NewestFirst[Gallery!Matching(k)])
  BY DEF Gallery!Truth
<1>4. /\ IsFiniteSet(Gallery!Matching(k)) /\ Gallery!Matching(k) \in SUBSET Int
      /\ Cardinality(Gallery!Matching(k)) <= Cardinality(GalleryImages)
      /\ Cardinality(GalleryImages) \in Nat
  BY <1>1, GalleryAssumption, FS_Subset, FS_CardinalityType
<1>5. Len(Descending(Gallery!Matching(k))) = Cardinality(Gallery!Matching(k))
      /\ Cardinality(Gallery!Matching(k)) \in Nat
  BY <1>4, Sorted
<1> QED
  BY <1>1, <1>2, <1>3, <1>4, <1>5

(* Steps by what they do to the page.                                       *)
GalleryShows(k) ==
    /\ Gallery!ShowKey(k) /\ gScreen' = "gallery"
    /\ UNCHANGED <<gAlive, gRenamed, gSelecting, gSelected>>
    /\ \/ gNarrowed' = TRUE
       \/ k.page = 1
       \/ /\ gNarrowed' = gNarrowed /\ k.mine = gKey.mine /\ k.filtered = gKey.filtered
          /\ \/ k.page < gKey.page
             \/ gList[gKey].data # NoData /\ k.page <= Gallery!LastPage(gList[gKey].data.total)
GalleryPicks ==
    /\ UNCHANGED <<gAlive, gRenamed, gScreen, gKey, gList, gOp, gOvertaken, gNarrowed>>
    /\ \/ \E i \in GalleryImages : Gallery!ToggleSelect(i)
       \/ gSelected' = {} /\ gSelecting' = FALSE
       \/ UNCHANGED <<gSelected, gSelecting>>
GallerySends(s) ==
    \E kind \in {"delete", "rename", "batch", "detail"}, ids \in SUBSET GalleryImages :
        /\ kind # "batch" => \E i \in GalleryImages : ids = {i}
        /\ Gallery!Send(s, kind, ids)
GalleryLeaves ==
    \/ Gallery!Leave(gOp)
    \/ \E s \in Calls, i \in GalleryImages : Gallery!Leave(Gallery!With(s, "delete", {i}))
GalleryAnswers(s) ==
    \/ Gallery!Work(s) \/ Gallery!Succeed(s) \/ Gallery!BatchDone(s) \/ Gallery!OpenedDeleted(s)
    \/ Gallery!Refuse(s) \/ Gallery!LoseAnswer(s)
GalleryFetches(k) == Gallery!Serve(k) \/ Gallery!Land(k) \/ Gallery!FetchFails(k)

LEMMA KeyShown ==
    ASSUME GalleryLists, Gallery!SwitchMode \/ Gallery!FilterByTag \/ Gallery!Search
    PROVE  \E k \in Gallery!Key : GalleryShows(k)
<1>0. gKey \in Gallery!Key
  BY DEF GalleryLists
<1>1. CASE Gallery!SwitchMode
  <2>1. [gKey EXCEPT !.mine = ~gKey.mine] \in Gallery!Key
    BY <1>0, GalleryKeys
  <2> QED
    BY <1>1, <2>1 DEF Gallery!SwitchMode, GalleryShows, Gallery!Here, Gallery!Browse, Gallery!server
<1>2. CASE Gallery!FilterByTag
  <2>1. [gKey EXCEPT !.filtered = ~gKey.filtered] \in Gallery!Key
    BY <1>0, GalleryKeys
  <2> QED
    BY <1>2, <2>1 DEF Gallery!FilterByTag, GalleryShows, Gallery!Here, Gallery!Browse, Gallery!server
<1>3. CASE Gallery!Search
  <2>1. /\ [gKey EXCEPT !.filtered = ~gKey.filtered, !.page = 1] \in Gallery!Key
        /\ [gKey EXCEPT !.filtered = ~gKey.filtered, !.page = 1].page = 1
    BY <1>0, GalleryKeys, GalleryPageKeys
  <2> QED
    BY <1>3, <2>1 DEF Gallery!Search, GalleryShows, Gallery!Here, Gallery!Browse, Gallery!server
<1> QED
  BY <1>1, <1>2, <1>3

LEMMA PageTurned ==
    ASSUME GalleryLists, Gallery!PrevPage \/ Gallery!NextPage
    PROVE  \E k \in Gallery!Key : GalleryShows(k)
<1>0. /\ gKey \in Gallery!Key /\ gKey.page \in Gallery!Page /\ gKey.page \in Nat \ {0}
      /\ HoldsOf(gList[gKey], Counts(gKey))
  BY GalleryKeys DEF GalleryLists
<1>a. Cardinality(GalleryImages) \in Nat /\ Gallery!LastPage(Cardinality(GalleryImages)) \in Nat
      /\ Gallery!Page = 1..Gallery!LastPage(Cardinality(GalleryImages)) + 1
  BY GalleryAssumption, FS_CardinalityType, PagesGrow, GalleryCounts DEF Gallery!Page
<1>1. CASE Gallery!PrevPage
  <2>1. gKey.page # 1 /\ Gallery!ShowKey([gKey EXCEPT !.page = gKey.page - 1])
    BY <1>1 DEF Gallery!PrevPage
  <2>2. gKey.page - 1 \in Gallery!Page /\ gKey.page - 1 < gKey.page
    BY <1>0, <1>a, <2>1
  <2> DEFINE k == [gKey EXCEPT !.page = gKey.page - 1]
  <2>3. k \in Gallery!Key /\ k.page = gKey.page - 1 /\ k.mine = gKey.mine /\ k.filtered = gKey.filtered
    BY <1>0, <2>2, GalleryPageKeys
  <2> HIDE DEF k
  <2>4. /\ gScreen' = "gallery" /\ UNCHANGED <<gAlive, gRenamed, gSelecting, gSelected, gNarrowed>>
    BY <1>1 DEF Gallery!PrevPage, Gallery!PagerShown, Gallery!Here, Gallery!Browse, Gallery!server
  <2>5. Gallery!ShowKey(k) /\ k.page < gKey.page
    BY <2>1, <2>2, <2>3 DEF k
  <2> QED
    BY <2>3, <2>4, <2>5 DEF GalleryShows
<1>2. CASE Gallery!NextPage
  <2>1. /\ gKey.page < Gallery!LastPage(Gallery!Total) /\ Gallery!Total > GalleryPageSize
        /\ Gallery!ShowKey([gKey EXCEPT !.page = gKey.page + 1])
        /\ gScreen' = "gallery" /\ UNCHANGED <<gAlive, gRenamed, gSelecting, gSelected, gNarrowed>>
    BY <1>2 DEF Gallery!NextPage, Gallery!PagerShown, Gallery!Here, Gallery!Browse, Gallery!server
  <2>2. gList[gKey].data # NoData /\ Gallery!Total = gList[gKey].data.total
    BY <2>1, GalleryAssumption DEF Gallery!Total, Gallery!Shown
  <2>3. Gallery!Total \in Nat /\ Gallery!Total <= Cardinality(GalleryImages)
    BY <1>0, <1>a, <2>2 DEF HoldsOf, Counts
  <2>4. /\ Gallery!LastPage(Gallery!Total) \in Nat
        /\ Gallery!LastPage(Gallery!Total) <= Gallery!LastPage(Cardinality(GalleryImages))
    BY <1>a, <2>3, PagesGrow
  <2>5. gKey.page + 1 \in Gallery!Page /\ gKey.page + 1 <= Gallery!LastPage(Gallery!Total)
    BY <1>0, <1>a, <2>1, <2>4
  <2> DEFINE k == [gKey EXCEPT !.page = gKey.page + 1]
  <2>6. k \in Gallery!Key /\ k.page = gKey.page + 1 /\ k.mine = gKey.mine /\ k.filtered = gKey.filtered
        /\ Gallery!ShowKey(k)
    BY <1>0, <2>1, <2>5, GalleryPageKeys
  <2> HIDE DEF k
  <2>7. k.page <= Gallery!LastPage(gList[gKey].data.total)
    BY <2>2, <2>5, <2>6
  <2> QED
    BY <2>1, <2>2, <2>6, <2>7 DEF GalleryShows
<1> QED
  BY <1>1, <1>2

LEMMA GalleryActs ==
    ASSUME GalleryLists, GallerySelection, [Gallery!Next]_Gallery!vars
    PROVE  \/ UNCHANGED Gallery!vars
           \/ /\ gUser' = gUser
              /\ \/ \E k \in Gallery!Key : GalleryShows(k)
                 \/ GalleryPicks \/ GalleryLeaves
                 \/ \E s \in Calls : GallerySends(s) \/ GalleryAnswers(s)
                 \/ \E k \in Gallery!Key : GalleryFetches(k)
<1> DEFINE Goal == \/ \E k \in Gallery!Key : GalleryShows(k)
                   \/ GalleryPicks \/ GalleryLeaves
                   \/ \E s \in Calls : GallerySends(s) \/ GalleryAnswers(s)
                   \/ \E k \in Gallery!Key : GalleryFetches(k)
<1>1. ASSUME NEW own \in BOOLEAN, Gallery!Return(own) PROVE Goal
  <2>1. Gallery!Home(own) \in Gallery!Key /\ Gallery!Home(own).page = 1
    BY GalleryKeys
  <2>2. GalleryShows(Gallery!Home(own))
    BY <1>1, <2>1 DEF Gallery!Return, GalleryShows, Gallery!server
  <2> QED
    BY <2>1, <2>2
<1>2. ASSUME NEW i \in GalleryImages, Gallery!ToggleSelect(i) PROVE GalleryPicks
  BY <1>2 DEF GalleryPicks, Gallery!ToggleSelect, Gallery!Still, Gallery!server
<1>3. ASSUME Gallery!ClearSelection PROVE GalleryPicks
  BY <1>3 DEF GalleryPicks, Gallery!ClearSelection, Gallery!Still, Gallery!server
<1>4. ASSUME NEW i \in GalleryImages, NEW j \in GalleryImages, Gallery!Drag(i, j) PROVE GalleryPicks
  BY <1>4 DEF GalleryPicks, Gallery!Drag, Gallery!Still, Gallery!server
<1>5. ASSUME NEW i \in GalleryImages, Gallery!Open(i) PROVE GalleryLeaves
  BY <1>5 DEF GalleryLeaves, Gallery!Open
<1>6. ASSUME NEW s \in Calls, NEW i \in GalleryImages, Gallery!Delete(s, i)
      PROVE  GalleryLeaves \/ GallerySends(s)
  <2>1. CASE gSelecting
    <3>1. Gallery!Send(s, "delete", {i})
      BY <1>6, <2>1 DEF Gallery!Delete
    <3> QED
      BY <3>1 DEF GallerySends
  <2>2. CASE ~gSelecting
    BY <1>6, <2>2 DEF Gallery!Delete, GalleryLeaves
  <2> QED
    BY <2>1, <2>2
<1>7. ASSUME NEW s \in Calls, NEW i \in GalleryImages,
             Gallery!Rename(s, i) \/ Gallery!DeleteOpened(s, i)
      PROVE  GallerySends(s)
  <2>1. Gallery!Send(s, "rename", {i}) \/ Gallery!Send(s, "detail", {i})
    BY <1>7 DEF Gallery!Rename, Gallery!DeleteOpened
  <2> QED
    BY <2>1 DEF GallerySends
<1>8. ASSUME NEW s \in Calls, Gallery!BatchDelete(s) PROVE GallerySends(s)
  <2>1. Gallery!Send(s, "batch", gSelected) /\ gSelected \in SUBSET GalleryImages
    BY <1>8 DEF Gallery!BatchDelete, GallerySelection
  <2> QED
    BY <2>1 DEF GallerySends
<1>9. ASSUME Gallery!User PROVE Goal
  <2>1. CASE \/ Gallery!PrevPage \/ Gallery!NextPage
             \/ Gallery!SwitchMode \/ Gallery!FilterByTag \/ Gallery!Search
    BY <2>1, KeyShown, PageTurned
  <2>2. CASE \/ \E i \in GalleryImages :
                   Gallery!ToggleSelect(i) \/ (\E j \in GalleryImages : Gallery!Drag(i, j))
                     \/ Gallery!Open(i)
             \/ Gallery!ClearSelection
    BY <2>2, <1>2, <1>3, <1>4, <1>5
  <2>3. CASE \E s \in Calls : \/ Gallery!BatchDelete(s)
                              \/ \E i \in GalleryImages : \/ Gallery!Delete(s, i)
                                                          \/ Gallery!Rename(s, i)
                                                          \/ Gallery!DeleteOpened(s, i)
    BY <2>3, <1>6, <1>7, <1>8
  <2>4. CASE \E own \in BOOLEAN : Gallery!Return(own)
    BY <2>4, <1>1
  <2> HIDE DEF Goal
  <2> QED
    BY <1>9, <2>1, <2>2, <2>3, <2>4 DEF Gallery!User
<1>10. ASSUME NEW s \in Calls, Gallery!Call(s) PROVE GalleryAnswers(s)
  BY <1>10 DEF Gallery!Call, GalleryAnswers
<1>11. ASSUME NEW k \in Gallery!Key, Gallery!Fetch(k) PROVE GalleryFetches(k)
  BY <1>11 DEF Gallery!Fetch, GalleryFetches
<1> QED
  BY <1>9, <1>10, <1>11 DEF Gallery!Next

LEMMA SelectionKept ==
    ASSUME GalleryLists, GallerySelection, [Gallery!Next]_Gallery!vars
    PROVE  GallerySelection'
<1>1. CASE UNCHANGED <<gSelecting, gSelected>>
  BY <1>1 DEF GallerySelection, Gallery!TicksMatchMode
<1>2. CASE gSelecting' = FALSE /\ gSelected' = {}
  BY <1>2 DEF GallerySelection, Gallery!TicksMatchMode
<1>3. ASSUME NEW i \in GalleryImages, Gallery!ToggleSelect(i) PROVE GallerySelection'
  BY <1>3 DEF Gallery!ToggleSelect, GallerySelection, Gallery!TicksMatchMode
<1>4. CASE UNCHANGED Gallery!vars
  BY <1>1, <1>4 DEF Gallery!vars, Gallery!local
<1>5. ASSUME NEW k \in Gallery!Key, GalleryShows(k) PROVE GallerySelection'
  BY <1>1, <1>5 DEF GalleryShows
<1>6. CASE GalleryPicks
  BY <1>1, <1>2, <1>3, <1>6 DEF GalleryPicks
<1>7. CASE GalleryLeaves
  BY <1>2, <1>7 DEF GalleryLeaves, Gallery!Leave
<1>8. ASSUME NEW s \in Calls, GallerySends(s) PROVE GallerySelection'
  BY <1>1, <1>8 DEF GallerySends, Gallery!Send, Gallery!local
<1>9. ASSUME NEW s \in Calls, GalleryAnswers(s) PROVE GallerySelection'
  BY <1>1, <1>2, <1>9 DEF GalleryAnswers, Gallery!Work, Gallery!Succeed, Gallery!BatchDone,
     Gallery!OpenedDeleted, Gallery!Refuse, Gallery!LoseAnswer, Gallery!local
<1>10. ASSUME NEW k \in Gallery!Key, GalleryFetches(k) PROVE GallerySelection'
  BY <1>1, <1>10 DEF GalleryFetches, Gallery!Serve, Gallery!Land, Gallery!FetchFails, Gallery!local
<1> QED
  BY <1>4, <1>5, <1>6, <1>7, <1>8, <1>9, <1>10, GalleryActs

(* What a step does to the lists.                                           *)
ListsMove ==
    /\ gAlive' \subseteq gAlive /\ gKey' \in Gallery!Key /\ DOMAIN gList' = Gallery!Key
    /\ \A x \in Gallery!Key : Evolves(gList[x], gList'[x], Gallery!Truth(x))

LEMMA ListsMoved ==
    ASSUME GalleryLists, GallerySelection, [Gallery!Next]_Gallery!vars
    PROVE  ListsMove
<1>0. /\ gKey \in Gallery!Key /\ DOMAIN gList = Gallery!Key
      /\ \A x \in Gallery!Key : CacheEntry(gList[x])
  BY DEF GalleryLists
<1>1. ASSUME UNCHANGED <<gKey, gList>>, gAlive' \subseteq gAlive PROVE ListsMove
  BY <1>0, <1>1 DEF ListsMove, Evolves
<1>2. ASSUME NEW k \in Gallery!Key, gKey' = k, UNCHANGED gAlive,
             gList' = [x \in Gallery!Key |-> IF x = k THEN Gallery!Observed(gList[k])
                                              ELSE IF x = gKey THEN gList[x] ELSE Gallery!Empty]
      PROVE  ListsMove
  BY <1>0, <1>2, GalleryCache DEF ListsMove, Evolves
<1>3. ASSUME NEW k \in Gallery!Key, NEW e, gList' = [gList EXCEPT ![k] = e],
             Evolves(gList[k], e, Gallery!Truth(k)), UNCHANGED <<gKey, gAlive>>
      PROVE  ListsMove
  BY <1>0, <1>3 DEF ListsMove, Evolves
<1>4. CASE UNCHANGED Gallery!vars
  BY <1>1, <1>4 DEF Gallery!vars, Gallery!local, Gallery!server
<1>5. ASSUME NEW k \in Gallery!Key, GalleryShows(k) PROVE ListsMove
  BY <1>2, <1>5 DEF GalleryShows, Gallery!ShowKey
<1>6. CASE GalleryPicks
  BY <1>1, <1>6 DEF GalleryPicks
<1>7. CASE GalleryLeaves
  <2>1. /\ gKey' = Gallery!Home(gKey.mine) /\ UNCHANGED gAlive
        /\ gList' = [k \in Gallery!Key |-> IF k = gKey \/ k = gKey' THEN gList[k] ELSE Gallery!Empty]
    BY <1>7 DEF GalleryLeaves, Gallery!Leave, Gallery!server
  <2>2. gKey' \in Gallery!Key
    BY <1>0, <2>1, GalleryKeys
  <2> QED
    BY <1>0, <2>1, <2>2, GalleryCache DEF ListsMove, Evolves
<1>8. ASSUME NEW s \in Calls, GallerySends(s) PROVE ListsMove
  BY <1>1, <1>8 DEF GallerySends, Gallery!Send, Gallery!local, Gallery!server
<1>9. ASSUME NEW s \in Calls, GalleryAnswers(s) PROVE ListsMove
  <2>1. ASSUME Gallery!Work(s) PROVE ListsMove
    <3>1. UNCHANGED <<gKey, gList>> /\ gAlive' \subseteq gAlive
      BY <2>1 DEF Gallery!Work, Gallery!local, Gallery!server
    <3> QED
      BY <1>1, <3>1
  <2>2. ASSUME NEW own, Gallery!Invalidate(own), UNCHANGED <<gKey, gAlive>> PROVE ListsMove
    <3>1. CASE gList' = [gList EXCEPT ![gKey] = Gallery!Renewed(@)]
      <4>1. Evolves(gList[gKey], Gallery!Renewed(gList[gKey]), Gallery!Truth(gKey))
        BY GalleryCache DEF Evolves
      <4> QED
        BY <1>0, <1>3, <2>2, <3>1, <4>1
    <3>2. CASE UNCHANGED gList
      BY <1>1, <2>2, <3>2
    <3> QED
      BY <2>2, <3>1, <3>2 DEF Gallery!Invalidate
  <2>3. CASE Gallery!Succeed(s)
    BY <2>2, <2>3 DEF Gallery!Succeed, Gallery!local, Gallery!server
  <2>4. CASE Gallery!BatchDone(s)
    BY <2>2, <2>4 DEF Gallery!BatchDone, Gallery!server
  <2>5. CASE Gallery!OpenedDeleted(s)
    <3> DEFINE k == IF Gallery!Here THEN [gKey EXCEPT !.mine = FALSE] ELSE Gallery!Home(FALSE)
    <3>1. k \in Gallery!Key
      BY <1>0, GalleryKeys
    <3>2. \/ UNCHANGED <<gKey, gList>>
          \/ /\ gKey' = k
             /\ gList' = [x \in Gallery!Key |-> IF x = k THEN Gallery!Observed(gList[k])
                                                ELSE IF x = gKey THEN gList[x] ELSE Gallery!Empty]
      BY <2>5 DEF Gallery!OpenedDeleted
    <3>3. UNCHANGED gAlive
      BY <2>5 DEF Gallery!OpenedDeleted, Gallery!server
    <3> HIDE DEF k
    <3> QED
      BY <1>1, <1>2, <3>1, <3>2, <3>3
  <2>6. CASE Gallery!Refuse(s) \/ Gallery!LoseAnswer(s)
    BY <1>1, <2>6 DEF Gallery!Refuse, Gallery!LoseAnswer, Gallery!local, Gallery!server
  <2> QED
    BY <1>9, <2>1, <2>3, <2>4, <2>5, <2>6 DEF GalleryAnswers
<1>10. ASSUME NEW k \in Gallery!Key, GalleryFetches(k) PROVE ListsMove
  <2>1. \E e : gList' = [gList EXCEPT ![k] = e] /\ Evolves(gList[k], e, Gallery!Truth(k))
    BY <1>0, <1>10, GalleryCache DEF GalleryFetches, Gallery!Serve, Gallery!Land, Gallery!FetchFails,
       Evolves, Aged
  <2>2. UNCHANGED <<gKey, gAlive>>
    BY <1>10 DEF GalleryFetches, Gallery!Serve, Gallery!Land, Gallery!FetchFails, Gallery!local,
       Gallery!server
  <2> QED
    BY <1>3, <2>1, <2>2
<1> QED
  BY <1>4, <1>5, <1>6, <1>7, <1>8, <1>9, <1>10, GalleryActs

LEMMA ListsKept ==
    ASSUME GalleryLists, ListsMove, gUser' = gUser
    PROVE  GalleryLists'
<1>0. gAlive \subseteq GalleryImages /\ gAlive' \subseteq gAlive
  BY DEF GalleryLists, ListsMove
<1>1. ASSUME NEW k \in Gallery!Key
      PROVE  CacheEntry(gList'[k]) /\ HoldsOf(gList'[k], Counts(k)')
  <2> DEFINE these == Counts(k)
             held == {d \in {gList[k].data, gList[k].answer, Gallery!Truth(k)} :
                        /\ d.total \in 0..Cardinality(GalleryImages)
                        /\ gAlive = GalleryImages =>
                              d.total = Len(Gallery!NewestFirst[Gallery!Matching(k)])}
  <2>1. /\ CacheEntry(gList[k]) /\ HoldsOf(gList[k], these)
        /\ Evolves(gList[k], gList'[k], Gallery!Truth(k))
    BY DEF GalleryLists, ListsMove
  <2>2. Gallery!Truth(k) \in these
    BY <1>0, MatchingCounted DEF Counts
  <2>3. CacheEntry(gList'[k]) /\ HoldsOf(gList'[k], these)
    BY <2>1, <2>2, EntryEvolves
  <2>4. gAlive' = GalleryImages => gAlive = GalleryImages /\ Gallery!Matching(k)' = Gallery!Matching(k)
    BY <1>0 DEF Gallery!Matching
  <2>5. \A d : /\ d \in these
               /\ d = gList'[k].data \/ d = gList'[k].answer
               => d \in Counts(k)'
    BY <2>4 DEF Counts
  <2> HIDE DEF these
  <2>6. HoldsOf(gList'[k], Counts(k)')
    BY <2>3, <2>5 DEF HoldsOf
  <2> QED
    BY <2>3, <2>6
<1> QED
  BY <1>0, <1>1 DEF GalleryLists, ListsMove, CacheEntry, HoldsOf

(* A call that only changes who it answers to.                              *)
SameCall(o, p) == p \in GalleryCall /\ p.kind = o.kind /\ p.ids = o.ids /\ p.pc = o.pc
LEMMA CallTurns ==
    ASSUME NEW o \in GalleryCall, NEW b \in BOOLEAN
    PROVE  SameCall(o, o) /\ SameCall(o, [o EXCEPT !.mine = b]) /\ SameCall(o, [o EXCEPT !.here = b])
BY DEF SameCall, GalleryCall

LEMMA CallsAlike ==
    ASSUME GalleryCalls, DOMAIN gOp' = Calls, gOp' = [t \in Calls |-> gOp'[t]],
           \A t \in Calls : SameCall(gOp[t], gOp'[t])
    PROVE  GalleryCalls' /\ \A t \in Calls : Dirty(gOp'[t]) <=> Dirty(gOp[t])
<1>1. \A t \in Calls : gOp'[t] \in GalleryCall
  BY DEF SameCall
<1>2. gOp' \in [Calls -> GalleryCall]
  BY <1>1
<1>3. \A t \in Calls : CallSound(gOp'[t]) /\ (Dirty(gOp'[t]) <=> Dirty(gOp[t]))
  BY DEF GalleryCalls, CallSound, Dirty, SameCall
<1> QED
  BY <1>2, <1>3 DEF GalleryCalls, CallSound

LEMMA OneCallChanges ==
    ASSUME GalleryCalls, NEW s \in Calls, NEW o \in GalleryCall, CallSound(o),
           gOp' = [gOp EXCEPT ![s] = o]
    PROVE  GalleryCalls' /\ gOp'[s] = o /\ \A t \in Calls : t # s => gOp'[t] = gOp[t]
<1>1. gOp' \in [Calls -> GalleryCall] /\ gOp'[s] = o /\ \A t \in Calls : t # s => gOp'[t] = gOp[t]
  BY DEF GalleryCalls
<1> QED
  BY <1>1 DEF GalleryCalls, CallSound

LEMMA IdleCall ==
    /\ Gallery!Idle \in GalleryCall /\ CallSound(Gallery!Idle) /\ ~Dirty(Gallery!Idle)
BY DEF Gallery!Idle, GalleryCall, CallSound, Dirty

(* A new call.                                                              *)
LEMMA NewCall ==
    ASSUME GalleryCalls, GalleryLists, NEW s \in Calls,
           NEW kind \in {"delete", "rename", "batch", "detail"}, NEW ids \in SUBSET GalleryImages,
           kind # "batch" => \E i \in GalleryImages : ids = {i}, Gallery!Free(s)
    PROVE  \E o \in GalleryCall : /\ Gallery!With(s, kind, ids) = [gOp EXCEPT ![s] = o]
                                  /\ CallSound(o) /\ ~Dirty(gOp[s])
<1> DEFINE o == [kind |-> kind, ids |-> ids, mine |-> gKey.mine, pc |-> "sent", here |-> TRUE]
<1>1. gKey.mine \in BOOLEAN
  BY GalleryKeys DEF GalleryLists
<1>2. o \in GalleryCall /\ CallSound(o)
  BY <1>1 DEF GalleryCall, CallSound
<1>3. Gallery!With(s, kind, ids) = [gOp EXCEPT ![s] = o]
  BY DEF Gallery!With
<1>4. ~Dirty(gOp[s])
  BY DEF Gallery!Free, Dirty, GalleryCalls, CallSound
<1> QED
  BY <1>2, <1>3, <1>4

(* The calls after a step; clean ones stay clean unless they did something. *)
LEMMA ShownCalls ==
    ASSUME GalleryCalls, NEW k \in Gallery!Key, GalleryShows(k)
    PROVE  GalleryCalls'
<1>1. k.mine \in BOOLEAN
  BY GalleryKeys
<1>2. gOp' = [s \in Calls |-> IF gOp[s].kind \in {"delete", "rename"} /\ gOp[s].here
                              THEN [gOp[s] EXCEPT !.mine = k.mine] ELSE gOp[s]]
  BY DEF GalleryShows, Gallery!ShowKey
<1>3. \A t \in Calls : SameCall(gOp[t], gOp'[t])
  BY <1>1, <1>2, CallTurns DEF GalleryCalls
<1>4. DOMAIN gOp' = Calls /\ gOp' = [t \in Calls |-> gOp'[t]]
  BY <1>2
<1> QED
  BY <1>3, <1>4, CallsAlike

LEMMA LeftCalls ==
    ASSUME GalleryCalls, GalleryLists, GalleryLeaves
    PROVE  GalleryCalls'
<1>1. ASSUME NEW calls \in [Calls -> GalleryCall], \A t \in Calls : CallSound(calls[t]),
             Gallery!Leave(calls)
      PROVE  GalleryCalls'
  <2>1. gOp' = [t \in Calls |-> [calls[t] EXCEPT !.here = FALSE]]
    BY <1>1 DEF Gallery!Leave
  <2>2. \A t \in Calls : SameCall(calls[t], gOp'[t])
    BY <2>1, CallTurns
  <2>3. \A t \in Calls : gOp'[t] \in GalleryCall /\ CallSound(gOp'[t])
    BY <1>1, <2>2 DEF SameCall, CallSound
  <2>4. gOp' \in [Calls -> GalleryCall]
    BY <2>1, <2>3
  <2> QED
    BY <2>3, <2>4 DEF GalleryCalls, CallSound
<1>2. CASE Gallery!Leave(gOp)
  BY <1>1, <1>2 DEF GalleryCalls
<1>3. ASSUME NEW s \in Calls, NEW i \in GalleryImages,
             Gallery!Leave(Gallery!With(s, "delete", {i}))
      PROVE  GalleryCalls'
  <2> DEFINE o == [kind |-> "delete", ids |-> {i}, mine |-> gKey.mine, pc |-> "sent", here |-> TRUE]
  <2>1. gKey.mine \in BOOLEAN
    BY GalleryKeys DEF GalleryLists
  <2>2. o \in GalleryCall /\ CallSound(o)
    BY <2>1 DEF GalleryCall, CallSound
  <2>3. Gallery!With(s, "delete", {i}) = [gOp EXCEPT ![s] = o]
    BY DEF Gallery!With
  <2> HIDE DEF o
  <2>4. /\ [gOp EXCEPT ![s] = o] \in [Calls -> GalleryCall]
        /\ \A t \in Calls : CallSound([gOp EXCEPT ![s] = o][t])
    BY <2>2 DEF GalleryCalls
  <2> QED
    BY <1>1, <1>3, <2>3, <2>4
<1> QED
  BY <1>2, <1>3 DEF GalleryLeaves

LEMMA WorkedCall ==
    ASSUME GalleryCalls, NEW s \in Calls, Gallery!Work(s)
    PROVE  /\ GalleryCalls'
           /\ (\A t \in Calls : ~Dirty(gOp'[t])) =>
                 (\A t \in Calls : ~Dirty(gOp[t])) /\ UNCHANGED <<gAlive, gRenamed>>
<1>0. gOp[s] \in GalleryCall /\ CallSound(gOp[s]) /\ gOp[s].pc = "sent"
  BY DEF GalleryCalls, Gallery!Work
<1>1. PICK i \in gOp[s].ids :
         /\ IF i \notin gAlive \cap gUser.own THEN UNCHANGED <<gAlive, gRenamed>>
            ELSE IF gOp[s].kind = "rename" THEN gRenamed' = gRenamed \cup {i} /\ UNCHANGED gAlive
            ELSE gAlive' = gAlive \ {i} /\ UNCHANGED gRenamed
         /\ gOp' = [gOp EXCEPT ![s].ids = @ \ {i},
                               ![s].pc = IF gOp[s].ids # {i} THEN "sent"
                                         ELSE IF gOp[s].kind = "batch" \/ i \in gAlive \cap gUser.own
                                         THEN "ok" ELSE "refused"]
  BY DEF Gallery!Work, Gallery!server
<1> DEFINE pc == IF gOp[s].ids # {i} THEN "sent"
                 ELSE IF gOp[s].kind = "batch" \/ i \in gAlive \cap gUser.own
                 THEN "ok" ELSE "refused"
           o == [gOp[s] EXCEPT !.ids = gOp[s].ids \ {i}, !.pc = pc]
<1>2. gOp' = [gOp EXCEPT ![s] = o]
  BY <1>1 DEF GalleryCalls
<1>3. pc \in {"sent", "ok", "refused"}
  OBVIOUS
<1>4. /\ pc = "sent" => gOp[s].kind = "batch"
      /\ pc = "refused" => gOp[s].kind # "batch" /\ i \notin gAlive \cap gUser.own
  BY <1>0, <1>1 DEF CallSound
<1> HIDE DEF pc
<1>5. /\ o \in GalleryCall /\ o.kind = gOp[s].kind /\ o.pc = pc
  BY <1>0, <1>3 DEF GalleryCall
<1>6. CallSound(o)
  BY <1>0, <1>4, <1>5 DEF CallSound
<1> HIDE DEF o
<1>7. GalleryCalls' /\ gOp'[s] = o /\ \A t \in Calls : t # s => gOp'[t] = gOp[t]
  BY <1>2, <1>5, <1>6, OneCallChanges
<1>8. ASSUME \A t \in Calls : ~Dirty(gOp'[t])
      PROVE  (\A t \in Calls : ~Dirty(gOp[t])) /\ UNCHANGED <<gAlive, gRenamed>>
  <2>1. o.kind # "batch" /\ o.pc = "refused"
    BY <1>3, <1>4, <1>5, <1>7, <1>8 DEF Dirty
  <2>2. ~Dirty(gOp[s])
    BY <1>0, <1>5, <2>1 DEF Dirty
  <2> QED
    BY <1>1, <1>4, <1>5, <1>7, <1>8, <2>1, <2>2
<1> QED
  BY <1>7, <1>8

LEMMA FinishedCall ==
    ASSUME GalleryCalls, NEW s \in Calls, Gallery!Finish(s)
    PROVE  GalleryCalls' /\ \A t \in Calls : t # s => gOp'[t] = gOp[t]
BY IdleCall, OneCallChanges DEF Gallery!Finish

LEMMA OpenedCalls ==
    ASSUME GalleryCalls, NEW s \in Calls, Gallery!OpenedDeleted(s)
    PROVE  GalleryCalls'
<1>1. CASE Gallery!Finish(s)
  BY <1>1, FinishedCall
<1>2. CASE gOp' = [t \in Calls |->
                     IF t = s THEN Gallery!Idle
                     ELSE IF gOp[t].kind \in {"delete", "rename"} /\ gOp[t].here
                     THEN [gOp[t] EXCEPT !.mine = FALSE] ELSE gOp[t]]
  <2>1. ASSUME NEW t \in Calls PROVE gOp'[t] \in GalleryCall /\ CallSound(gOp'[t])
    <3>1. gOp[t] \in GalleryCall /\ CallSound(gOp[t])
      BY DEF GalleryCalls
    <3>2. gOp'[t] = Gallery!Idle \/ SameCall(gOp[t], gOp'[t])
      BY <1>2, <3>1, CallTurns
    <3> QED
      BY <3>1, <3>2, IdleCall DEF SameCall, CallSound
  <2>2. gOp' \in [Calls -> GalleryCall]
    BY <1>2, <2>1
  <2> QED
    BY <2>1, <2>2 DEF GalleryCalls, CallSound
<1> QED
  BY <1>1, <1>2 DEF Gallery!OpenedDeleted

LEMMA GalleryCallsKept ==
    ASSUME GalleryCalls, GalleryLists, GallerySelection, [Gallery!Next]_Gallery!vars
    PROVE  GalleryCalls'
<1>1. CASE UNCHANGED gOp
  BY <1>1 DEF GalleryCalls, CallSound
<1>2. CASE UNCHANGED Gallery!vars
  BY <1>1, <1>2 DEF Gallery!vars
<1>3. CASE GalleryPicks
  BY <1>1, <1>3 DEF GalleryPicks
<1>4. ASSUME NEW s \in Calls, GallerySends(s) PROVE GalleryCalls'
  <2>1. PICK kind \in {"delete", "rename", "batch", "detail"}, ids \in SUBSET GalleryImages :
           /\ kind # "batch" => \E i \in GalleryImages : ids = {i}
           /\ Gallery!Send(s, kind, ids)
    BY <1>4 DEF GallerySends
  <2>2. Gallery!Free(s) /\ gOp' = Gallery!With(s, kind, ids)
    BY <2>1 DEF Gallery!Send
  <2>3. \E o \in GalleryCall : gOp' = [gOp EXCEPT ![s] = o] /\ CallSound(o)
    BY <2>1, <2>2, NewCall
  <2> QED
    BY <2>3, OneCallChanges
<1>5. ASSUME NEW s \in Calls, GalleryAnswers(s) PROVE GalleryCalls'
  <2>1. CASE Gallery!Finish(s)
    BY <2>1, FinishedCall
  <2> QED
    BY <1>5, <2>1, WorkedCall, OpenedCalls DEF GalleryAnswers, Gallery!Succeed, Gallery!BatchDone,
       Gallery!Refuse, Gallery!LoseAnswer
<1>6. ASSUME NEW k \in Gallery!Key, GalleryFetches(k) PROVE GalleryCalls'
  BY <1>1, <1>6 DEF GalleryFetches, Gallery!Serve, Gallery!Land, Gallery!FetchFails
<1> QED
  BY <1>2, <1>3, <1>4, <1>5, <1>6, GalleryActs, ShownCalls, LeftCalls

LEMMA GalleryCurrentKept ==
    ASSUME GalleryInv, [Gallery!Next]_Gallery!vars
    PROVE  GalleryCurrent'
<1>0. /\ GalleryCalls /\ GallerySelection /\ GalleryLists /\ GalleryCurrent
      /\ gKey \in Gallery!Key /\ DOMAIN gList = Gallery!Key
      /\ \A x \in Gallery!Key : CacheEntry(gList[x])
  BY DEF GalleryInv, GalleryLists
<1> SUFFICES ASSUME gScreen' = "gallery", ~gOvertaken', \A s \in Calls : ~Dirty(gOp'[s])
             PROVE  Current(gList'[gKey'], Gallery!Truth(gKey)')
  BY DEF GalleryCurrent, Current, Dirty
(* Nothing but fetches.                                                     *)
<1>1. ASSUME \A s \in Calls : ~Dirty(gOp[s]),
             UNCHANGED <<gUser, gAlive, gRenamed, gScreen, gKey>>, ~gOvertaken,
             \/ gList'[gKey] = gList[gKey]
             \/ gList'[gKey] = Served(gList[gKey], Gallery!Truth(gKey))
             \/ gList'[gKey] = Landed(gList[gKey]) /\ gList[gKey].flight = "answered"
      PROVE  Current(gList'[gKey'], Gallery!Truth(gKey)')
  <2>1. Current(gList[gKey], Gallery!Truth(gKey))
    BY <1>0, <1>1 DEF GalleryCurrent
  <2>2. Current(gList'[gKey], Gallery!Truth(gKey))
    BY <1>0, <1>1, <2>1, StaysCurrent
  <2>3. Gallery!Truth(gKey)' = Gallery!Truth(gKey)
    BY <1>1 DEF Gallery!Truth, Gallery!Matching
  <2> QED
    BY <1>1, <2>2, <2>3
(* A list that is asked for.                                                *)
<1>2. ASSUME NEW k \in Gallery!Key, gKey' = k, gList'[k] = Gallery!Observed(gList[k]),
             gOvertaken' = Gallery!Aged(gList[k])
      PROVE  Current(gList'[gKey'], Gallery!Truth(gKey)')
  <2>1. gList[k].flight # "answered" /\ gList'[k] = Observed(gList[k])
    BY <1>2, GalleryCache DEF Aged
  <2> QED
    BY <1>0, <1>2, <2>1, AskedAgain
<1>3. CASE UNCHANGED Gallery!vars
  <2>1. \A s \in Calls : ~Dirty(gOp[s])
    BY <1>3 DEF Gallery!vars, Dirty
  <2> QED
    BY <1>1, <1>3, <2>1 DEF Gallery!vars, Gallery!local, Gallery!server
<1>4. ASSUME NEW k \in Gallery!Key, GalleryShows(k)
      PROVE  Current(gList'[gKey'], Gallery!Truth(gKey)')
  BY <1>2, <1>4 DEF GalleryShows, Gallery!ShowKey
<1>5. ASSUME GalleryPicks, gUser' = gUser
      PROVE  Current(gList'[gKey'], Gallery!Truth(gKey)')
  <2>1. \A s \in Calls : ~Dirty(gOp[s])
    BY <1>5 DEF GalleryPicks, Dirty
  <2> QED
    BY <1>1, <1>5, <2>1 DEF GalleryPicks
<1>6. CASE GalleryLeaves
  BY <1>6 DEF GalleryLeaves, Gallery!Leave
<1>7. ASSUME NEW s \in Calls, GallerySends(s), gUser' = gUser
      PROVE  Current(gList'[gKey'], Gallery!Truth(gKey)')
  <2>1. PICK kind \in {"delete", "rename", "batch", "detail"}, ids \in SUBSET GalleryImages :
           /\ kind # "batch" => \E i \in GalleryImages : ids = {i}
           /\ Gallery!Send(s, kind, ids)
    BY <1>7 DEF GallerySends
  <2>2. /\ Gallery!Free(s) /\ gOp' = Gallery!With(s, kind, ids)
        /\ UNCHANGED <<gAlive, gRenamed, gScreen, gKey, gOvertaken, gList>>
    BY <2>1 DEF Gallery!Send, Gallery!local, Gallery!server
  <2>3. PICK o \in GalleryCall : gOp' = [gOp EXCEPT ![s] = o] /\ CallSound(o) /\ ~Dirty(gOp[s])
    BY <1>0, <2>1, <2>2, NewCall
  <2>4. \A t \in Calls : t # s => gOp'[t] = gOp[t]
    BY <1>0, <2>3, OneCallChanges
  <2>5. \A t \in Calls : ~Dirty(gOp[t])
    BY <2>3, <2>4
  <2> QED
    BY <1>1, <1>7, <2>2, <2>5
<1>8. ASSUME NEW own, Gallery!Invalidate(own), UNCHANGED <<gScreen, gKey>>
      PROVE  Current(gList'[gKey'], Gallery!Truth(gKey)')
  <2>1. /\ gList' = [gList EXCEPT ![gKey] = Gallery!Renewed(@)]
        /\ ~(Gallery!Loading(gList[gKey]) /\ Gallery!Aged(gList[gKey]))
    BY <1>8 DEF Gallery!Invalidate, Gallery!Here
  <2>2. gList'[gKey] = Renewed(gList[gKey]) /\ ~(Loading(gList[gKey]) /\ Aged(gList[gKey]))
    BY <1>0, <2>1, GalleryCache
  <2> QED
    BY <1>0, <1>8, <2>2, AskedAgain
<1>9. ASSUME NEW s \in Calls, GalleryAnswers(s), gUser' = gUser
      PROVE  Current(gList'[gKey'], Gallery!Truth(gKey)')
  <2>1. CASE Gallery!Work(s)
    <3>1. (\A t \in Calls : ~Dirty(gOp[t])) /\ UNCHANGED <<gAlive, gRenamed>>
      BY <1>0, <2>1, WorkedCall
    <3> QED
      BY <1>1, <1>9, <2>1, <3>1 DEF Gallery!Work, Gallery!local
  <2>2. CASE Gallery!Succeed(s)
    BY <1>8, <2>2 DEF Gallery!Succeed, Gallery!local
  <2>3. CASE Gallery!BatchDone(s)
    BY <1>8, <2>3 DEF Gallery!BatchDone
  <2>4. CASE Gallery!OpenedDeleted(s)
    <3> DEFINE k == IF Gallery!Here THEN [gKey EXCEPT !.mine = FALSE] ELSE Gallery!Home(FALSE)
    <3>1. k \in Gallery!Key
      BY <1>0, GalleryKeys
    <3>2. /\ gKey' = k /\ gOvertaken' = Gallery!Aged(gList[k])
          /\ gList' = [x \in Gallery!Key |-> IF x = k THEN Gallery!Observed(gList[k])
                                             ELSE IF x = gKey THEN gList[x] ELSE Gallery!Empty]
      BY <2>4 DEF Gallery!OpenedDeleted
    <3> HIDE DEF k
    <3>3. gList'[k] = Gallery!Observed(gList[k])
      BY <3>1, <3>2
    <3> QED
      BY <1>2, <3>1, <3>2, <3>3
  <2>5. CASE Gallery!Refuse(s)
    <3>1. gOp[s].pc = "refused" /\ Gallery!Finish(s) 
          /\ UNCHANGED <<gAlive, gRenamed, gScreen, gKey, gOvertaken, gList>>
      BY <2>5 DEF Gallery!Refuse, Gallery!local, Gallery!server
    <3>2. ~Dirty(gOp[s])
      BY <1>0, <3>1 DEF Dirty, GalleryCalls, CallSound
    <3>3. \A t \in Calls : ~Dirty(gOp[t])
      BY <1>0, <3>1, <3>2, FinishedCall
    <3> QED
      BY <1>1, <1>9, <3>1, <3>3
  <2>6. CASE Gallery!LoseAnswer(s)
    BY <2>6 DEF Gallery!LoseAnswer
  <2> QED
    BY <1>9, <2>1, <2>2, <2>3, <2>4, <2>5, <2>6 DEF GalleryAnswers
<1>10. ASSUME NEW k \in Gallery!Key, GalleryFetches(k), gUser' = gUser
       PROVE  Current(gList'[gKey'], Gallery!Truth(gKey)')
  <2>1. /\ UNCHANGED <<gAlive, gRenamed, gScreen, gKey, gOp>> /\ ~gOvertaken
        /\ \/ gList' = [gList EXCEPT ![k] = Gallery!Served(gList[k], Gallery!Truth(k))]
           \/ gList' = [gList EXCEPT ![k] = Gallery!Landed(gList[k])] /\ Gallery!Aged(gList[k])
           \/ gList' = [gList EXCEPT ![k] = Gallery!Failed(gList[k])] /\ k # gKey
    <3>1. ~gOvertaken'
      OBVIOUS
    <3>2. CASE Gallery!Serve(k)
      BY <3>2 DEF Gallery!Serve, Gallery!local, Gallery!server
    <3>3. CASE Gallery!Land(k)
      BY <3>3 DEF Gallery!Land, Gallery!local, Gallery!server
    <3>4. CASE Gallery!FetchFails(k)
      BY <1>0, <3>1, <3>4 DEF Gallery!FetchFails, Gallery!local, Gallery!server
    <3> QED
      BY <1>10, <3>2, <3>3, <3>4 DEF GalleryFetches
  <2>2. \/ gList'[gKey] = gList[gKey]
        \/ gList'[gKey] = Served(gList[gKey], Gallery!Truth(gKey))
        \/ gList'[gKey] = Landed(gList[gKey]) /\ gList[gKey].flight = "answered"
    BY <1>0, <2>1, GalleryCache DEF Aged
  <2>3. \A t \in Calls : ~Dirty(gOp[t])
    BY <2>1 DEF Dirty
  <2> QED
    BY <1>1, <1>10, <2>1, <2>2, <2>3
<1> QED
  BY <1>0, <1>3, <1>4, <1>5, <1>6, <1>7, <1>9, <1>10, GalleryActs

-----------------------------------------------------------------------------
LEMMA GalleryPagedKept ==
    ASSUME GalleryInv, [Gallery!Next]_Gallery!vars
    PROVE  GalleryPaged'
<1>0. /\ GallerySelection /\ GalleryLists /\ GalleryPaged /\ gKey \in Gallery!Key
      /\ gAlive \subseteq GalleryImages
      /\ ListsMove /\ gAlive' \subseteq gAlive /\ gKey' \in Gallery!Key
  BY ListsMoved DEF GalleryInv, GalleryLists, ListsMove
<1>1. gUser' = gUser
  BY DEF Gallery!vars, Gallery!Next
<1> SUFFICES ASSUME ~gNarrowed', gAlive' = GalleryImages
             PROVE  \/ gKey'.page = 1
                    \/ gKey'.page <= Gallery!LastPage(Len(Gallery!NewestFirst[Gallery!Matching(gKey)']))
  BY DEF GalleryPaged, Gallery!LastPage, Gallery!NewestFirst
<1>2. gAlive = GalleryImages
  BY <1>0
<1>3. ASSUME gKey' = gKey, ~gNarrowed
      PROVE  \/ gKey'.page = 1
             \/ gKey'.page <= Gallery!LastPage(Len(Gallery!NewestFirst[Gallery!Matching(gKey)']))
  <2>1. Gallery!Matching(gKey)' = Gallery!Matching(gKey)
    BY <1>1, <1>2, <1>3 DEF Gallery!Matching
  <2> QED
    BY <1>0, <1>2, <1>3, <2>1 DEF GalleryPaged
<1>4. CASE UNCHANGED Gallery!vars
  BY <1>3, <1>4 DEF Gallery!vars, Gallery!local
<1>5. ASSUME NEW k \in Gallery!Key, GalleryShows(k)
      PROVE  \/ gKey'.page = 1
             \/ gKey'.page <= Gallery!LastPage(Len(Gallery!NewestFirst[Gallery!Matching(gKey)']))
  <2>1. gKey' = k
    BY <1>5 DEF GalleryShows, Gallery!ShowKey
  <2>2. CASE k.page = 1
    BY <2>1, <2>2
  <2>3. CASE /\ gNarrowed' = gNarrowed /\ k.mine = gKey.mine /\ k.filtered = gKey.filtered
             /\ \/ k.page < gKey.page
                \/ gList[gKey].data # NoData /\ k.page <= Gallery!LastPage(gList[gKey].data.total)
    <3> DEFINE last == Gallery!LastPage(Len(Gallery!NewestFirst[Gallery!Matching(gKey)]))
    <3>1. Gallery!Matching(gKey)' = Gallery!Matching(gKey)
      BY <1>1, <1>2, <2>1, <2>3 DEF Gallery!Matching
    <3>2. gKey.page = 1 \/ gKey.page <= last
      BY <1>0, <1>2, <2>3 DEF GalleryPaged
    <3>3. ~(k.page < gKey.page) => k.page <= last
      <4> SUFFICES ASSUME ~(k.page < gKey.page) PROVE k.page <= last
        OBVIOUS
      <4>1. gList[gKey].data # NoData /\ k.page <= Gallery!LastPage(gList[gKey].data.total)
        BY <2>3
      <4>2. HoldsOf(gList[gKey], Counts(gKey))
        BY <1>0 DEF GalleryLists
      <4>3. gList[gKey].data.total = Len(Gallery!NewestFirst[Gallery!Matching(gKey)])
        BY <1>2, <4>1, <4>2 DEF HoldsOf, Counts
      <4> QED
        BY <4>1, <4>3
    <3>4. k.page \in Nat \ {0} /\ gKey.page \in Nat \ {0}
      BY <1>0, GalleryKeys
    <3>5. last \in Nat
      <4>1. Gallery!Truth(gKey).total = Len(Gallery!NewestFirst[Gallery!Matching(gKey)])
            /\ Gallery!Truth(gKey).total \in 0..Cardinality(GalleryImages)
        BY <1>0, MatchingCounted
      <4>2. Len(Gallery!NewestFirst[Gallery!Matching(gKey)]) \in Nat
        BY <4>1
      <4> QED
        BY <4>2, PagesGrow
    <3> HIDE DEF last
    <3>6. k.page = 1 \/ k.page <= last
      BY <3>2, <3>3, <3>4, <3>5
    <3> QED
      BY <2>1, <3>1, <3>6 DEF last
  <2> QED
    BY <1>5, <2>2, <2>3 DEF GalleryShows
<1>6. CASE GalleryPicks
  BY <1>3, <1>6 DEF GalleryPicks
<1>7. CASE GalleryLeaves
  <2>1. gKey' = Gallery!Home(gKey.mine)
    BY <1>7 DEF GalleryLeaves, Gallery!Leave
  <2>2. gKey'.page = 1
    BY <1>0, <2>1, GalleryKeys
  <2> QED
    BY <2>2
<1>8. ASSUME NEW s \in Calls, GallerySends(s)
      PROVE  \/ gKey'.page = 1
             \/ gKey'.page <= Gallery!LastPage(Len(Gallery!NewestFirst[Gallery!Matching(gKey)']))
  BY <1>3, <1>8 DEF GallerySends, Gallery!Send, Gallery!local
<1>9. ASSUME NEW s \in Calls, GalleryAnswers(s)
      PROVE  \/ gKey'.page = 1
             \/ gKey'.page <= Gallery!LastPage(Len(Gallery!NewestFirst[Gallery!Matching(gKey)']))
  <2>1. CASE Gallery!OpenedDeleted(s)
    <3>1. gKey' = Gallery!Home(FALSE) \/ (gKey' = gKey /\ ~gNarrowed) \/ gNarrowed'
      BY <2>1 DEF Gallery!OpenedDeleted, Gallery!Here
    <3>2. Gallery!Home(FALSE).page = 1
      BY GalleryKeys
    <3> QED
      BY <1>3, <3>1, <3>2
  <2> QED
    BY <1>3, <1>9, <2>1 DEF GalleryAnswers, Gallery!Work, Gallery!Succeed, Gallery!BatchDone,
       Gallery!Refuse, Gallery!LoseAnswer, Gallery!local
<1>10. ASSUME NEW k \in Gallery!Key, GalleryFetches(k)
       PROVE  \/ gKey'.page = 1
              \/ gKey'.page <= Gallery!LastPage(Len(Gallery!NewestFirst[Gallery!Matching(gKey)']))
  BY <1>3, <1>10 DEF GalleryFetches, Gallery!Serve, Gallery!Land, Gallery!FetchFails, Gallery!local
<1> QED
  BY <1>0, <1>4, <1>5, <1>6, <1>7, <1>8, <1>9, <1>10, GalleryActs

LEMMA GalleryBegins == Gallery!Init => GalleryInv
<1> SUFFICES ASSUME Gallery!Init PROVE GalleryInv
  OBVIOUS
<1>1. /\ gAlive = GalleryImages /\ gScreen = "gallery" /\ gKey = Gallery!Home(FALSE)
      /\ gSelecting = FALSE /\ gSelected = {} /\ gOvertaken = FALSE
      /\ gList = [k \in Gallery!Key |-> IF k = Gallery!Home(FALSE) THEN Observed(Empty) ELSE Empty]
      /\ gOp = [s \in Calls |-> Gallery!Idle]
  BY GalleryCache DEF Gallery!Init
<1>2. gKey \in Gallery!Key /\ gKey.page = 1
  BY <1>1, GalleryKeys
<1>3. GalleryCalls
  BY <1>1 DEF GalleryCalls, GalleryCall, CallSound, Gallery!Idle
<1>4. GallerySelection
  BY <1>1 DEF GallerySelection, Gallery!TicksMatchMode
<1>5. \A k \in Gallery!Key : /\ DOMAIN gList[k] = {"data", "flight", "answer"}
                             /\ gList[k].data = NoData /\ gList[k].flight \in {"none", "asked"}
  BY <1>1 DEF Observed, Empty
<1>6. GalleryLists
  BY <1>1, <1>2, <1>5 DEF GalleryLists, CacheEntry, HoldsOf
<1>7. gList[gKey].flight = "asked"
  BY <1>1, <1>2 DEF Observed, Empty
<1>8. GalleryCurrent
  BY <1>7 DEF GalleryCurrent, Current
<1> QED
  BY <1>2, <1>3, <1>4, <1>6, <1>8 DEF GalleryInv, GalleryPaged

LEMMA GalleryHolds ==
    GalleryInv => Gallery!HonestList /\ Gallery!PageInRange /\ Gallery!TicksMatchMode
<1> SUFFICES ASSUME GalleryInv
             PROVE  Gallery!HonestList /\ Gallery!PageInRange /\ Gallery!TicksMatchMode
  OBVIOUS
<1>0. GallerySelection /\ GalleryLists /\ GalleryCurrent /\ GalleryPaged /\ gKey \in Gallery!Key
  BY DEF GalleryInv, GalleryLists
<1>1. Gallery!HonestList
  <2> SUFFICES ASSUME Gallery!Here, ~gOvertaken, Gallery!Resting(gList[gKey]),
                      \A s \in Calls : gOp[s] = Gallery!Idle
               PROVE  Gallery!Shown = Gallery!Truth(gKey)
    BY DEF Gallery!HonestList
  <2>1. \A s \in Calls : ~Dirty(gOp[s])
    BY DEF Dirty, Gallery!Idle
  <2>2. gList[gKey].flight = "none"
    BY DEF Gallery!Resting
  <2> QED
    BY <1>0, <2>1, <2>2 DEF GalleryCurrent, Current, Gallery!Here, Gallery!Shown
<1>2. Gallery!PageInRange
  <2> SUFFICES ASSUME ~gNarrowed, gAlive = GalleryImages, gList[gKey].data # NoData
               PROVE  gKey.page \in 1..Gallery!LastPage(Gallery!Total) \cup {1}
    BY DEF Gallery!PageInRange, Gallery!Shown
  <2>1. HoldsOf(gList[gKey], Counts(gKey))
    BY <1>0 DEF GalleryLists
  <2>2. /\ Gallery!Total = Len(Gallery!NewestFirst[Gallery!Matching(gKey)])
        /\ Gallery!Total \in 0..Cardinality(GalleryImages)
    BY <2>1 DEF HoldsOf, Counts, Gallery!Total, Gallery!Shown
  <2>3. Gallery!Total \in Nat
    BY <2>2
  <2>4. Gallery!LastPage(Gallery!Total) \in Nat
    BY <2>3, PagesGrow
  <2>5. gKey.page \in Nat \ {0}
    BY <1>0, GalleryKeys
  <2>6. gKey.page = 1 \/ gKey.page <= Gallery!LastPage(Gallery!Total)
    BY <1>0, <2>2 DEF GalleryPaged
  <2> QED
    BY <2>4, <2>5, <2>6
<1>3. Gallery!TicksMatchMode
  BY <1>0 DEF GallerySelection
<1> QED
  BY <1>1, <1>2, <1>3

(* The gallery: a list at rest is what the server has, the pager leads      *)
(* nowhere beyond the last page, and the bar of the ticks is there exactly  *)
(* for the ticks (GalleryPage.tsx:291-309, :343-365, :611-635).             *)
THEOREM GalleryTrue ==
    Gallery!Spec => [](Gallery!HonestList /\ Gallery!PageInRange /\ Gallery!TicksMatchMode)
<1>1. Gallery!Init => GalleryInv
  BY GalleryBegins
<1>2. GalleryInv /\ [Gallery!Next]_Gallery!vars => GalleryInv'
  <2> SUFFICES ASSUME GalleryInv, [Gallery!Next]_Gallery!vars PROVE GalleryInv'
    OBVIOUS
  <2>1. GalleryCalls /\ GallerySelection /\ GalleryLists
    BY DEF GalleryInv
  <2>2. gUser' = gUser
    BY DEF Gallery!vars, Gallery!Next
  <2>3. GalleryLists'
    BY <2>1, <2>2, ListsMoved, ListsKept
  <2>4. GalleryCalls' /\ GallerySelection'
    BY <2>1, GalleryCallsKept, SelectionKept
  <2>5. GalleryCurrent' /\ GalleryPaged'
    BY GalleryCurrentKept, GalleryPagedKept
  <2> QED
    BY <2>3, <2>4, <2>5 DEF GalleryInv
<1>3. GalleryInv => Gallery!HonestList /\ Gallery!PageInRange /\ Gallery!TicksMatchMode
  BY GalleryHolds
<1> QED
  BY <1>1, <1>2, <1>3, PTL DEF Gallery!Spec

-----------------------------------------------------------------------------
(* The front page.  An answer, and one that has been read to its end.       *)
LandingAnswer == [total: Nat, items: Seq(LandingImages), torn: BOOLEAN]
LandingAnswered(k, d) ==
    /\ d \in LandingAnswer
    /\ k => \A n \in 1..Len(d.items) : d.items[n] \in LandingTagged
    /\ ~d.torn => Len(d.items) = IF d.total < LandingLimit THEN d.total ELSE LandingLimit
(* An entry: the count of an answer that is being read is the right one     *)
(* unless a change came between.                                            *)
LandingEntry(k, e, count) ==
    /\ CacheEntry(e)
    /\ e.flight = "none" => e.answer = NoData
    /\ e.data # NoData => LandingAnswered(k, e.data)
    /\ e.flight = "answered" => LandingAnswered(k, e.answer)
    /\ e.flight = "asked" /\ e.answer # NoData =>
          e.answer \in LandingAnswer /\ (~e.answer.torn => e.answer.total = count)
(* One that will be fetched again, or is being fetched or was fetched after *)
(* the last change.                                                         *)
LandingRight(d, count, these) == d # NoData /\ d.total = count /\ d.items = these
LandingCurrent(e, count, these) ==
    /\ e.flight = "none" => LandingRight(e.data, count, these)
    /\ e.flight = "answered" => LandingRight(e.answer, count, these)
    /\ e.flight = "asked" /\ e.answer # NoData => e.answer.total = count

LandingCount(k) == Cardinality(Landing!Matching(k))
LandingInv ==
    /\ lAlive \subseteq LandingImages /\ lFiltered \in BOOLEAN
    /\ DOMAIN lList = BOOLEAN
    /\ \A k \in BOOLEAN : LandingEntry(k, lList[k], LandingCount(k))
    /\ lScreen = "landing" /\ ~lChanged =>
          LandingCurrent(lList[lFiltered], LandingCount(lFiltered), Landing!Rows(lFiltered))

LEMMA LandingCache ==
    /\ \A e, truth : Landing!Served(e, truth) = Served(e, truth)
    /\ \A e : /\ Landing!Landed(e) = Landed(e) /\ Landing!Failed(e) = Failed(e)
             /\ Landing!Observed(e) = Observed(e)
             /\ Landing!Aged(e) = Aged(e) /\ Landing!Resting(e) = Resting(e)
    /\ Landing!Empty = Empty
    /\ \A S : Landing!Cardinality(S) = Cardinality(S)
BY DEF Landing!Served, Landing!Landed, Landing!Failed, Landing!Observed, Landing!Aged,
   Landing!Resting, Landing!Empty, Landing!Cardinality,
   Served, Landed, Failed, Observed, Aged, Resting, Empty, Cardinality

LEMMA LandingRows ==
    ASSUME lAlive \subseteq LandingImages, NEW k \in BOOLEAN
    PROVE  /\ LandingCount(k) \in Nat
           /\ Landing!Rows(k) \in Seq(LandingImages)
           /\ Len(Landing!Rows(k)) = IF LandingCount(k) < LandingLimit
                                     THEN LandingCount(k) ELSE LandingLimit
           /\ k => \A n \in 1..Len(Landing!Rows(k)) : Landing!Rows(k)[n] \in LandingTagged
<1> DEFINE S == Landing!Matching(k)
           all == Descending(S)
           to == IF Len(all) < LandingLimit THEN Len(all) ELSE LandingLimit
<1>1. S \in SUBSET LandingImages /\ (k => S \subseteq LandingTagged)
  BY DEF Landing!Matching
<1>2. S \in SUBSET Int /\ IsFiniteSet(S)
  BY <1>1, LandingAssumption, FS_Subset
<1>3. Landing!Rows(k) = SubSeq(all, 1, to)
  <2>1. Landing!NewestFirst[S] = Landing!Descending(S)
    BY <1>1 DEF Landing!NewestFirst
  <2>2. Landing!Descending(S) = Descending(S)
    BY DEF Landing!Descending, Descending, Landing!Newer, Newer, Landing!Cardinality, Cardinality
  <2> QED
    BY <2>1, <2>2 DEF Landing!Rows
<1>4. all \in Seq(S) /\ Len(all) = Cardinality(S) /\ Cardinality(S) \in Nat
  BY <1>2, Sorted
<1>5. LandingLimit \in Nat
  BY LandingAssumption
<1> HIDE DEF S, all
<1>6. to \in Nat /\ to <= Len(all)
  BY <1>4, <1>5
<1>7. /\ SubSeq(all, 1, to) \in Seq(S) /\ Len(SubSeq(all, 1, to)) = to
      /\ \A n \in 1..to : SubSeq(all, 1, to)[n] \in S
  BY <1>4, <1>6
<1>8. SubSeq(all, 1, to) \in Seq(LandingImages)
  BY <1>1, <1>7
<1> QED
  BY <1>1, <1>3, <1>4, <1>7, <1>8 DEF LandingCount, S

(* What happens to an entry.                                                *)
LandingKeep(k, e, f) ==
    \/ f = e \/ f = Observed(e) \/ f = Observed(Empty)
    \/ /\ e.flight = "asked"
       /\ f = [e EXCEPT !.answer = [total |-> LandingCount(k), items |-> <<>>, torn |-> FALSE]]
    \/ /\ e.flight = "asked" /\ e.answer # NoData
       /\ f = Served(e, [e.answer EXCEPT !.items = Landing!Rows(k)])
    \/ e.flight = "answered" /\ f = Landed(e)
LandingMove(k, e, f) == LandingKeep(k, e, f) \/ f = Empty \/ f = Failed(e)

LEMMA LandingEntryMoves ==
    ASSUME lAlive \subseteq LandingImages, NEW k \in BOOLEAN, NEW e, NEW f,
           LandingEntry(k, e, LandingCount(k)), LandingMove(k, e, f)
    PROVE  LandingEntry(k, f, LandingCount(k))
<1>1. CASE f = e \/ f = Observed(e)
  BY <1>1 DEF LandingEntry, CacheEntry, Observed
<1>2. CASE f = Empty \/ f = Observed(Empty)
  BY <1>2 DEF LandingEntry, CacheEntry, Observed, Empty
<1>3. CASE f = Failed(e)
  BY <1>3 DEF LandingEntry, CacheEntry, Failed
<1>4. CASE /\ e.flight = "asked"
           /\ f = [e EXCEPT !.answer = [total |-> LandingCount(k), items |-> <<>>, torn |-> FALSE]]
  <2>1. [total |-> LandingCount(k), items |-> <<>>, torn |-> FALSE] \in LandingAnswer
    BY LandingRows DEF LandingAnswer
  <2>2. /\ DOMAIN f = DOMAIN e /\ f.flight = "asked" /\ f.data = e.data
        /\ f.answer = [total |-> LandingCount(k), items |-> <<>>, torn |-> FALSE]
    BY <1>4 DEF LandingEntry, CacheEntry
  <2> QED
    BY <2>1, <2>2 DEF LandingEntry, CacheEntry
<1>5. CASE /\ e.flight = "asked" /\ e.answer # NoData
           /\ f = Served(e, [e.answer EXCEPT !.items = Landing!Rows(k)])
  <2> DEFINE d == [e.answer EXCEPT !.items = Landing!Rows(k)]
  <2>1. e.answer \in LandingAnswer /\ (~e.answer.torn => e.answer.total = LandingCount(k))
    BY <1>5 DEF LandingEntry
  <2>2. /\ d \in LandingAnswer /\ d.items = Landing!Rows(k) /\ d.total = e.answer.total
        /\ d.torn = e.answer.torn
    BY <2>1, LandingRows DEF LandingAnswer
  <2>3. LandingAnswered(k, d)
    BY <2>1, <2>2, LandingRows DEF LandingAnswered
  <2>4. DOMAIN f = DOMAIN e /\ f.flight = "answered" /\ f.data = e.data /\ f.answer = d
    BY <1>5 DEF LandingEntry, CacheEntry, Served
  <2> QED
    BY <2>3, <2>4 DEF LandingEntry, CacheEntry
<1>6. CASE e.flight = "answered" /\ f = Landed(e)
  BY <1>6 DEF LandingEntry, CacheEntry, Landed
<1> QED
  BY <1>1, <1>2, <1>3, <1>4, <1>5, <1>6 DEF LandingMove, LandingKeep

LEMMA LandingStaysCurrent ==
    ASSUME lAlive \subseteq LandingImages, NEW k \in BOOLEAN, NEW e, NEW f,
           LandingEntry(k, e, LandingCount(k)), LandingKeep(k, e, f),
           LandingCurrent(e, LandingCount(k), Landing!Rows(k))
    PROVE  LandingCurrent(f, LandingCount(k), Landing!Rows(k))
<1>1. CASE f = e \/ f = Observed(e)
  BY <1>1 DEF LandingEntry, LandingCurrent, CacheEntry, Observed
<1>2. CASE f = Observed(Empty)
  BY <1>2 DEF LandingCurrent, Observed, Empty
<1>4. CASE /\ e.flight = "asked"
           /\ f = [e EXCEPT !.answer = [total |-> LandingCount(k), items |-> <<>>, torn |-> FALSE]]
  <2>1. /\ f.flight = "asked"
        /\ f.answer = [total |-> LandingCount(k), items |-> <<>>, torn |-> FALSE]
    BY <1>4 DEF LandingEntry, CacheEntry
  <2> QED
    BY <2>1 DEF LandingCurrent
<1>5. CASE /\ e.flight = "asked" /\ e.answer # NoData
           /\ f = Served(e, [e.answer EXCEPT !.items = Landing!Rows(k)])
  <2> DEFINE d == [e.answer EXCEPT !.items = Landing!Rows(k)]
  <2>1. e.answer \in LandingAnswer /\ e.answer.total = LandingCount(k)
    BY <1>5 DEF LandingEntry, LandingCurrent
  <2>2. d \in LandingAnswer /\ d.items = Landing!Rows(k) /\ d.total = LandingCount(k)
    BY <2>1, LandingRows DEF LandingAnswer
  <2>3. f.flight = "answered" /\ f.answer = d
    BY <1>5 DEF LandingEntry, CacheEntry, Served
  <2>4. d # NoData
    BY <2>2, LandingAssumption DEF LandingAnswer
  <2> QED
    BY <2>2, <2>3, <2>4 DEF LandingCurrent, LandingRight
<1>6. CASE e.flight = "answered" /\ f = Landed(e)
  BY <1>6 DEF LandingEntry, LandingCurrent, CacheEntry, Landed
<1> QED
  BY <1>1, <1>2, <1>4, <1>5, <1>6 DEF LandingKeep

(* A list that is asked for anew, with no answer under way.                 *)
LEMMA LandingAsked ==
    ASSUME NEW k \in BOOLEAN, NEW e, NEW count, NEW these, LandingEntry(k, e, count),
           ~(e.flight = "asked" /\ e.answer # NoData), e.flight # "answered"
    PROVE  LandingCurrent(Observed(e), count, these)
BY DEF LandingEntry, LandingCurrent, CacheEntry, Observed

LEMMA LandingBegins == Landing!Init => LandingInv
<1> SUFFICES ASSUME Landing!Init PROVE LandingInv
  OBVIOUS
<1>1. /\ lAlive = LandingStock /\ lFiltered = FALSE
      /\ lList = [k \in BOOLEAN |-> IF k = FALSE THEN Observed(Empty) ELSE Empty]
  BY LandingCache DEF Landing!Init, Landing!Fresh, Landing!FilterKey
<1>2. \A k \in BOOLEAN : /\ DOMAIN lList[k] = {"data", "flight", "answer"}
                         /\ lList[k].data = NoData /\ lList[k].flight \in {"none", "asked"}
                         /\ lList[k].answer = NoData
  BY <1>1 DEF Observed, Empty
<1>3. \A k \in BOOLEAN : LandingEntry(k, lList[k], LandingCount(k))
  BY <1>2 DEF LandingEntry, CacheEntry
<1>4. lList[lFiltered].flight = "asked" /\ lList[lFiltered].answer = NoData
  BY <1>1 DEF Observed, Empty
<1>5. LandingCurrent(lList[lFiltered], LandingCount(lFiltered), Landing!Rows(lFiltered))
  BY <1>4 DEF LandingCurrent
<1> QED
  BY <1>1, <1>3, <1>5, LandingAssumption DEF LandingInv

(* Steps that leave the images alone.                                       *)
LEMMA LandingStep ==
    ASSUME LandingInv, UNCHANGED lAlive, DOMAIN lList' = BOOLEAN, lFiltered' \in BOOLEAN,
           \A k \in BOOLEAN : LandingMove(k, lList[k], lList'[k]),
           lScreen' = "landing" /\ ~lChanged' =>
              LandingCurrent(lList'[lFiltered'], LandingCount(lFiltered'), Landing!Rows(lFiltered'))
    PROVE  LandingInv'
<1>0. lAlive \subseteq LandingImages /\ \A k \in BOOLEAN : LandingEntry(k, lList[k], LandingCount(k))
  BY DEF LandingInv
<1>1. \A k : LandingCount(k)' = LandingCount(k) /\ Landing!Rows(k)' = Landing!Rows(k)
  BY DEF LandingCount, Landing!Rows, Landing!Matching
<1>2. ASSUME NEW k \in BOOLEAN PROVE LandingEntry(k, lList'[k], LandingCount(k))
  BY <1>0, LandingEntryMoves
<1>3. \A k \in BOOLEAN : LandingEntry(k, lList'[k], LandingCount(k)')
  BY <1>1, <1>2
<1>4. lScreen' = "landing" /\ ~lChanged' =>
        LandingCurrent(lList'[lFiltered'], Cardinality(Landing!Matching(lFiltered))', Landing!Rows(lFiltered)')
  <2>1. /\ Cardinality(Landing!Matching(lFiltered))' = LandingCount(lFiltered')
        /\ Landing!Rows(lFiltered)' = Landing!Rows(lFiltered')
    BY DEF LandingCount, Landing!Rows, Landing!Matching
  <2> QED
    BY <2>1
<1> QED
  BY <1>0, <1>3, <1>4 DEF LandingInv, LandingCount, LandingEntry, LandingCurrent, LandingRight,
     LandingAnswered

LEMMA LandingChange ==
    ASSUME LandingInv, NEW now \in SUBSET LandingImages, Landing!Change(now)
    PROVE  LandingInv'
<1>1. /\ lAlive' = now /\ lChanged' = TRUE /\ UNCHANGED <<lScreen, lFiltered>>
      /\ lList' = [k \in BOOLEAN |-> IF lList[k].flight = "asked" /\ lList[k].answer # NoData
                                     THEN [lList[k] EXCEPT !.answer.torn = TRUE] ELSE lList[k]]
  BY DEF Landing!Change, Landing!Tear, Landing!Counted
<1>2. ASSUME NEW k \in BOOLEAN PROVE LandingEntry(k, lList'[k], LandingCount(k)')
  <2> DEFINE e == lList[k]
             f == lList'[k]
  <2>0. LandingEntry(k, e, LandingCount(k))
    BY DEF LandingInv
  <2>1. CASE e.flight = "asked" /\ e.answer # NoData
    <3>1. f = [e EXCEPT !.answer = [e.answer EXCEPT !.torn = TRUE]]
      BY <1>1, <2>1
    <3>2. /\ DOMAIN f = DOMAIN e /\ f.flight = "asked" /\ f.data = e.data
          /\ f.answer = [e.answer EXCEPT !.torn = TRUE]
      BY <2>0, <2>1, <3>1 DEF LandingEntry, CacheEntry
    <3>3. e.answer \in LandingAnswer
      BY <2>0, <2>1 DEF LandingEntry
    <3>4. f.answer \in LandingAnswer /\ f.answer.torn = TRUE
      BY <3>2, <3>3 DEF LandingAnswer
    <3>5. LandingEntry(k, f, LandingCount(k)')
      <4> HIDE DEF f
      <4> QED
        BY <2>0, <3>2, <3>4 DEF LandingEntry, CacheEntry
    <3> QED
      BY <3>5
  <2>2. CASE ~(e.flight = "asked" /\ e.answer # NoData)
    <3>1. f = e
      BY <1>1, <2>2
    <3> QED
      BY <2>0, <2>2, <3>1 DEF LandingEntry
  <2> QED
    BY <2>1, <2>2
<1>3. \A k \in BOOLEAN : LandingEntry(k, lList'[k], LandingCount(k)')
  BY <1>2
<1>4. lAlive' \subseteq LandingImages /\ lFiltered' \in BOOLEAN /\ DOMAIN lList' = BOOLEAN
  BY <1>1 DEF LandingInv
<1> HIDE DEF LandingInv
<1> QED
  BY <1>1, <1>3, <1>4 DEF LandingInv, LandingCount, LandingEntry, LandingAnswered, LandingCurrent,
     LandingRight

LEMMA LandingInvKept ==
    ASSUME LandingInv, [Landing!Next]_Landing!vars
    PROVE  LandingInv'
<1>0. /\ lAlive \subseteq LandingImages /\ lFiltered \in BOOLEAN /\ DOMAIN lList = BOOLEAN
      /\ \A k \in BOOLEAN : LandingEntry(k, lList[k], LandingCount(k))
      /\ lScreen = "landing" /\ ~lChanged =>
            LandingCurrent(lList[lFiltered], LandingCount(lFiltered), Landing!Rows(lFiltered))
  BY DEF LandingInv
(* The list shown stays, and the lists move on.                             *)
<1>1. ASSUME UNCHANGED <<lAlive, lFiltered>>, DOMAIN lList' = BOOLEAN,
             \A k \in BOOLEAN : LandingKeep(k, lList[k], lList'[k]),
             lScreen' = "landing" /\ ~lChanged' => lScreen = "landing" /\ ~lChanged
      PROVE  LandingInv'
  <2>1. \A k \in BOOLEAN : LandingMove(k, lList[k], lList'[k])
    BY <1>1 DEF LandingMove
  <2>2. ASSUME lScreen' = "landing", ~lChanged'
        PROVE  LandingCurrent(lList'[lFiltered], LandingCount(lFiltered), Landing!Rows(lFiltered))
    <3>1. LandingEntry(lFiltered, lList[lFiltered], LandingCount(lFiltered))
          /\ LandingKeep(lFiltered, lList[lFiltered], lList'[lFiltered])
      BY <1>0, <1>1
    <3> QED
      BY <1>0, <1>1, <2>2, <3>1, LandingStaysCurrent
  <2> QED
    BY <1>0, <1>1, <2>1, <2>2, LandingStep
<1>2. ASSUME UNCHANGED <<lAlive, lFiltered, lList>>,
             lScreen' = "landing" /\ ~lChanged' => lScreen = "landing" /\ ~lChanged
      PROVE  LandingInv'
  BY <1>0, <1>1, <1>2 DEF LandingKeep
(* A list that comes into view.                                             *)
<1>3. ASSUME NEW k \in BOOLEAN, UNCHANGED lAlive, lFiltered' = k,
             lList' = [lList EXCEPT ![k] = Observed(lList[k])],
             lChanged' = (Landing!Counted(lList[k]) \/ Aged(lList[k]))
      PROVE  LandingInv'
  <2>1. DOMAIN lList' = BOOLEAN /\ lList'[k] = Observed(lList[k])
        /\ \A x \in BOOLEAN : LandingMove(x, lList[x], lList'[x])
    BY <1>0, <1>3 DEF LandingMove, LandingKeep
  <2>2. ASSUME ~lChanged' PROVE LandingCurrent(lList'[k], LandingCount(k), Landing!Rows(k))
    <3>1. ~(lList[k].flight = "asked" /\ lList[k].answer # NoData) /\ lList[k].flight # "answered"
      BY <1>3, <2>2 DEF Landing!Counted, Aged
    <3>2. LandingEntry(k, lList[k], LandingCount(k))
      BY <1>0
    <3> QED
      BY <2>1, <3>1, <3>2, LandingAsked
  <2> QED
    BY <1>3, <2>1, <2>2, LandingStep
<1>4. ASSUME UNCHANGED Landing!vars PROVE LandingInv'
  BY <1>2, <1>4 DEF Landing!vars
<1>5. ASSUME NEW v, Landing!SetView(v) PROVE LandingInv'
  BY <1>2, <1>5 DEF Landing!SetView
<1>6. ASSUME Landing!ExitDone \/ Landing!ListTags PROVE LandingInv'
  BY <1>2, <1>6 DEF Landing!ExitDone, Landing!ListTags
<1>7. ASSUME Landing!SetTagFilter PROVE LandingInv'
  <2>1. /\ lFiltered' = ~lFiltered /\ UNCHANGED lAlive
        /\ lList' = [lList EXCEPT ![lFiltered'] = Observed(lList[lFiltered'])]
        /\ lChanged' = (Landing!Counted(lList[lFiltered']) \/ Aged(lList[lFiltered']))
    BY <1>7, LandingCache DEF Landing!SetTagFilter, Landing!FilterKey
  <2>2. PICK k \in BOOLEAN : k = lFiltered'
    BY <1>0, <2>1
  <2>3. /\ lFiltered' = k /\ lList' = [lList EXCEPT ![k] = Observed(lList[k])]
        /\ lChanged' = (Landing!Counted(lList[k]) \/ Aged(lList[k]))
    BY <2>1, <2>2
  <2> QED
    BY <1>3, <2>1, <2>3
<1>8. ASSUME Landing!Return PROVE LandingInv'
  <2>1. CASE lSignedIn
    <3>1. /\ lFiltered' = FALSE /\ UNCHANGED lAlive
          /\ lList' = [lList EXCEPT ![FALSE] = Observed(lList[FALSE])]
          /\ lChanged' = (Landing!Counted(lList[FALSE]) \/ Aged(lList[FALSE]))
      BY <1>8, <2>1, LandingCache DEF Landing!Return, Landing!FilterKey
    <3> QED
      BY <1>3, <3>1
  <2>2. CASE ~lSignedIn
    <3>1. /\ lFiltered' = FALSE /\ UNCHANGED lAlive
          /\ lList' = [k \in BOOLEAN |-> IF k = FALSE THEN Observed(Empty) ELSE Empty]
      BY <1>8, <2>2, LandingCache DEF Landing!Return, Landing!Fresh, Landing!FilterKey
    <3>2. DOMAIN lList' = BOOLEAN /\ lList'[FALSE] = Observed(Empty)
          /\ \A x \in BOOLEAN : LandingMove(x, lList[x], lList'[x])
      BY <3>1 DEF LandingMove, LandingKeep
    <3>3. LandingCurrent(lList'[FALSE], LandingCount(FALSE), Landing!Rows(FALSE))
      BY <3>2 DEF LandingCurrent, Observed, Empty
    <3> QED
      BY <3>1, <3>2, <3>3, LandingStep
  <2> QED
    BY <2>1, <2>2
<1>9. ASSUME Landing!RefuseTags PROVE LandingInv'
  <2>1. /\ lScreen' = "login" /\ UNCHANGED <<lAlive, lFiltered>>
        /\ lList' = [k \in BOOLEAN |-> Empty]
    BY <1>9, LandingCache DEF Landing!RefuseTags
  <2>2. DOMAIN lList' = BOOLEAN /\ \A x \in BOOLEAN : LandingMove(x, lList[x], lList'[x])
    BY <2>1 DEF LandingMove
  <2> QED
    BY <1>0, <2>1, <2>2, LandingStep
<1>10. ASSUME NEW i \in LandingImages, Landing!HandlePick(i) PROVE LandingInv'
  BY <1>2, <1>10 DEF Landing!HandlePick
<1>11. ASSUME NEW i \in LandingImages, Landing!Upload(i) \/ Landing!Delete(i) PROVE LandingInv'
  <2>1. lAlive \cup {i} \in SUBSET LandingImages /\ lAlive \ {i} \in SUBSET LandingImages
    BY <1>0
  <2>2. CASE Landing!Upload(i)
    BY <2>1, <2>2, LandingChange DEF Landing!Upload
  <2>3. CASE Landing!Delete(i)
    BY <2>1, <2>3, LandingChange DEF Landing!Delete
  <2> QED
    BY <1>11, <2>2, <2>3
<1>12. ASSUME NEW k \in BOOLEAN, NEW f, lList' = [lList EXCEPT ![k] = f],
              LandingKeep(k, lList[k], f), UNCHANGED <<lAlive, lScreen, lFiltered, lChanged>>
       PROVE  LandingInv'
  <2>1. DOMAIN lList' = BOOLEAN /\ \A x \in BOOLEAN : LandingKeep(x, lList[x], lList'[x])
    BY <1>0, <1>12 DEF LandingKeep
  <2> QED
    BY <1>1, <1>12, <2>1
<1>13. ASSUME NEW k \in BOOLEAN, Landing!Count(k) PROVE LandingInv'
  <2> DEFINE d == [total |-> LandingCount(k), items |-> <<>>, torn |-> FALSE]
             f == [lList[k] EXCEPT !.answer = d]
  <2>1. /\ lList[k].flight = "asked" /\ lList' = [lList EXCEPT ![k] = f]
        /\ UNCHANGED <<lAlive, lScreen, lFiltered, lChanged>>
    BY <1>13, LandingCache DEF Landing!Count, Landing!Fetching, LandingCount
  <2>2. LandingKeep(k, lList[k], f)
    BY <2>1 DEF LandingKeep
  <2> HIDE DEF f
  <2> QED
    BY <1>12, <2>1, <2>2
<1>14. ASSUME NEW k \in BOOLEAN, Landing!ReadRows(k) PROVE LandingInv'
  <2> DEFINE f == Served(lList[k], [lList[k].answer EXCEPT !.items = Landing!Rows(k)])
  <2>1. /\ lList[k].flight = "asked" /\ lList[k].answer # NoData
        /\ lList' = [lList EXCEPT ![k] = f] /\ UNCHANGED <<lAlive, lScreen, lFiltered, lChanged>>
    BY <1>14, LandingCache DEF Landing!ReadRows, Landing!Counted, Landing!Fetching
  <2>2. LandingKeep(k, lList[k], f)
    BY <2>1 DEF LandingKeep
  <2> HIDE DEF f
  <2> QED
    BY <1>12, <2>1, <2>2
<1>15. ASSUME NEW k \in BOOLEAN, Landing!Land(k) PROVE LandingInv'
  <2> DEFINE f == Landed(lList[k])
  <2>1. /\ lList[k].flight = "answered"
        /\ lList' = [lList EXCEPT ![k] = f] /\ UNCHANGED <<lAlive, lScreen, lFiltered, lChanged>>
    BY <1>15, LandingCache DEF Landing!Land, Landing!Fetching, Aged
  <2>2. LandingKeep(k, lList[k], f)
    BY <2>1 DEF LandingKeep
  <2> HIDE DEF f
  <2> QED
    BY <1>12, <2>1, <2>2
<1>16. ASSUME NEW k \in BOOLEAN, Landing!FetchFails(k) PROVE LandingInv'
  <2>1. /\ lList' = [lList EXCEPT ![k] = Failed(lList[k])] /\ lChanged' = TRUE
        /\ UNCHANGED <<lAlive, lFiltered>>
    BY <1>16, LandingCache DEF Landing!FetchFails, Landing!Fetching
  <2>2. DOMAIN lList' = BOOLEAN /\ \A x \in BOOLEAN : LandingMove(x, lList[x], lList'[x])
    BY <1>0, <2>1 DEF LandingMove, LandingKeep
  <2> QED
    BY <1>0, <2>1, <2>2, LandingStep
<1> QED
  BY <1>4, <1>5, <1>6, <1>7, <1>8, <1>9, <1>10, <1>11, <1>13, <1>14, <1>15, <1>16 DEF Landing!Next

LEMMA LandingHolds == LandingInv => Landing!FrontPageHonest /\ Landing!PicksOfTheTag
<1> SUFFICES ASSUME LandingInv PROVE Landing!FrontPageHonest /\ Landing!PicksOfTheTag
  OBVIOUS
<1> DEFINE e == lList[lFiltered]
<1>1. /\ LandingEntry(lFiltered, e, LandingCount(lFiltered)) /\ lFiltered \in BOOLEAN
      /\ Landing!Shown = e
  BY DEF LandingInv, Landing!Shown, Landing!FilterKey
<1>2. ASSUME lScreen = "landing", e.flight = "none", ~lChanged
      PROVE  Landing!images = Landing!Rows(lFiltered) /\ Landing!total = LandingCount(lFiltered)
  <2>1. LandingRight(e.data, LandingCount(lFiltered), Landing!Rows(lFiltered))
    BY <1>2 DEF LandingInv, LandingCurrent
  <2> QED
    BY <1>1, <2>1 DEF LandingRight, Landing!images, Landing!total
<1>3. ASSUME e.data # NoData, ~e.data.torn
      PROVE  Len(Landing!images) = IF Landing!total < LandingLimit THEN Landing!total ELSE LandingLimit
  BY <1>1, <1>3 DEF LandingEntry, LandingAnswered, Landing!images, Landing!total
<1>4. Landing!FrontPageHonest
  BY <1>1, <1>2, <1>3, LandingCache DEF Landing!FrontPageHonest, Resting, LandingCount
<1>5. ASSUME lFiltered PROVE Landing!Range(Landing!images) \subseteq LandingTagged
  <2>1. CASE e.data = NoData
    BY <1>1, <2>1 DEF Landing!images, Landing!Range
  <2>2. CASE e.data # NoData
    <3>1. /\ e.data.items \in Seq(LandingImages)
          /\ \A n \in 1..Len(e.data.items) : e.data.items[n] \in LandingTagged
      BY <1>1, <1>5, <2>2 DEF LandingEntry, LandingAnswered, LandingAnswer
    <3> QED
      BY <1>1, <2>2, <3>1 DEF Landing!images, Landing!Range
  <2> QED
    BY <2>1, <2>2
<1>6. Landing!PicksOfTheTag
  BY <1>5 DEF Landing!PicksOfTheTag, Landing!Pickable, Landing!Drawn, Landing!Cloud, Landing!Grid
<1> QED
  BY <1>4, <1>6

(* The front page: at rest and with no change since, the newest images and  *)
(* their number are the server's, an answer not torn by a change has the    *)
(* images it counts, and what can be picked has the tag that is lit         *)
(* (image_service.go:433-443, LandingPage.tsx:203-215, :387-401).           *)
THEOREM LandingTrue == Landing!Spec => [](Landing!FrontPageHonest /\ Landing!PicksOfTheTag)
<1>1. Landing!Init => LandingInv
  BY LandingBegins
<1>2. LandingInv /\ [Landing!Next]_Landing!vars => LandingInv'
  BY LandingInvKept
<1>3. LandingInv => Landing!FrontPageHonest /\ Landing!PicksOfTheTag
  BY LandingHolds
<1> QED
  BY <1>1, <1>2, <1>3, PTL DEF Landing!Spec

-----------------------------------------------------------------------------
(* The endless list.  The rows of a page that begins after the first F, by  *)
(* how many are newer.                                                      *)
FeedRows(S, F, P) ==
    SubSeq(Descending(S), F + 1, IF F + P < Cardinality(S) THEN F + P ELSE Cardinality(S))
FeedFirst(S, F) ==
    SubSeq(Descending(S), 1, IF F < Cardinality(S) THEN F ELSE Cardinality(S))
LEMMA FeedPage ==
    ASSUME NEW S \in SUBSET Int, IsFiniteSet(S), NEW F \in Nat, NEW P \in Nat \ {0}
    PROVE  LET items == FeedRows(S, F, P) IN
           /\ items \in Seq(S)
           /\ \A m \in 1..Len(items) :
                 /\ items[m] \in S
                 /\ F <= Cardinality(Newer(S, items[m])) /\ Cardinality(Newer(S, items[m])) < F + P
           /\ \A i \in S : F <= Cardinality(Newer(S, i)) /\ Cardinality(Newer(S, i)) < F + P
                 => \E m \in 1..Len(items) : items[m] = i
           /\ \A m, n \in 1..Len(items) : items[m] = items[n] => m = n
           /\ F = 0 /\ items = <<>> => Cardinality(S) = 0
<1> DEFINE W == Descending(S)
           c == Cardinality(S)
           to == IF F + P < c THEN F + P ELSE c
           items == FeedRows(S, F, P)
<1>1. /\ c \in Nat /\ W \in Seq(S) /\ Len(W) = c
      /\ \A n \in 1..c : W[n] \in S /\ Cardinality(Newer(S, W[n])) = n - 1
      /\ \A i \in S : Cardinality(Newer(S, i)) + 1 \in 1..c /\ W[Cardinality(Newer(S, i)) + 1] = i
  BY Sorted
<1>2. items = SubSeq(W, F + 1, to)
  BY DEF FeedRows
<1> HIDE DEF W, c, items
<1>3. to \in Nat /\ to <= c /\ to <= F + P /\ (to = c \/ to = F + P)
  BY <1>1
<1> HIDE DEF to
<1>4. \A n \in F + 1..to : W[n] \in S
  BY <1>1, <1>3
<1>5. /\ items \in Seq(S)
      /\ Len(items) = IF F + 1 <= to THEN to - (F + 1) + 1 ELSE 0
      /\ \A m \in 1..to - (F + 1) + 1 : items[m] = W[F + 1 + m - 1]
  <2>1. F + 1 \in Int /\ to \in Int
    BY <1>3
  <2> QED
    BY <1>2, <1>4, <2>1, SubSeqProperties
<1>6. ASSUME NEW m \in 1..Len(items)
      PROVE  /\ items[m] \in S /\ Cardinality(Newer(S, items[m])) = F + m - 1
             /\ F <= F + m - 1 /\ F + m - 1 < F + P
  <2>1. m \in 1..to - (F + 1) + 1 /\ F + m \in 1..c /\ F + m <= F + P /\ F + 1 + m - 1 = F + m
        /\ m >= 1
    BY <1>1, <1>3, <1>5
  <2>2. items[m] = W[F + m]
    BY <1>5, <2>1
  <2> QED
    BY <1>1, <2>1, <2>2
<1>7. \A m \in 1..Len(items) :
         /\ items[m] \in S
         /\ F <= Cardinality(Newer(S, items[m])) /\ Cardinality(Newer(S, items[m])) < F + P
  <2> TAKE m \in 1..Len(items)
  <2> QED
    BY <1>6
<1>8. ASSUME NEW i \in S, F <= Cardinality(Newer(S, i)), Cardinality(Newer(S, i)) < F + P
      PROVE  \E m \in 1..Len(items) : items[m] = i
  <2>1. PICK r \in Int : r = Cardinality(Newer(S, i)) /\ r + 1 \in 1..c /\ W[r + 1] = i
    <3>1. Cardinality(Newer(S, i)) + 1 \in 1..c /\ W[Cardinality(Newer(S, i)) + 1] = i
      BY <1>1
    <3>2. Cardinality(Newer(S, i)) \in Int
      <4>1. Newer(S, i) \subseteq S
        BY DEF Newer
      <4> QED
        BY <4>1, FS_Subset, FS_CardinalityType
    <3> QED
      BY <3>1, <3>2
  <2>2. F <= r /\ r < F + P /\ r + 1 <= c
    BY <1>1, <1>8, <2>1
  <2>3. r + 1 - F \in 1..to - (F + 1) + 1 /\ r + 1 - F \in 1..Len(items)
    BY <1>1, <1>3, <1>5, <2>2
  <2>4. F + 1 + (r + 1 - F) - 1 = r + 1
    OBVIOUS
  <2> QED
    BY <1>5, <2>1, <2>3, <2>4
<1>9. ASSUME NEW m \in 1..Len(items), NEW n \in 1..Len(items), items[m] = items[n] PROVE m = n
  <2>1. F + m - 1 = F + n - 1
    BY <1>6, <1>9
  <2> QED
    BY <2>1
<1>10. F = 0 /\ items = <<>> => c = 0
  <2> SUFFICES ASSUME F = 0, items = <<>> PROVE c = 0
    OBVIOUS
  <2>1. Len(items) = 0
    OBVIOUS
  <2> QED
    BY <1>1, <1>3, <1>5, <2>1
<1> QED
  BY <1>5, <1>7, <1>8, <1>9, <1>10 DEF c, items

LEMMA FeedJoins ==
    ASSUME NEW S \in SUBSET Int, IsFiniteSet(S), NEW F \in Nat, NEW P \in Nat \ {0}
    PROVE  FeedFirst(S, F) \o FeedRows(S, F, P) = FeedFirst(S, F + P)
<1> DEFINE W == Descending(S)
           a == IF F < Cardinality(S) THEN F ELSE Cardinality(S)
           b == IF F + P < Cardinality(S) THEN F + P ELSE Cardinality(S)
<1>1. W \in Seq(S) /\ Len(W) = Cardinality(S) /\ Cardinality(S) \in Nat
  BY Sorted
<1>2. a \in 0..Len(W) /\ b \in a..Len(W) /\ 1 \in 1..Len(W) + 1 /\ a \in 1 - 1..Len(W)
  BY <1>1
<1>3. FeedFirst(S, F) = SubSeq(W, 1, a) /\ FeedRows(S, F, P) = SubSeq(W, F + 1, b)
      /\ FeedFirst(S, F + P) = SubSeq(W, 1, b)
  BY DEF FeedFirst, FeedRows
<1> HIDE DEF W
<1>4. CASE F < Cardinality(S)
  <2>1. a = F
    BY <1>4
  <2> HIDE DEF a, b
  <2>2. SubSeq(W, 1, a) \o SubSeq(W, a + 1, b) = SubSeq(W, 1, b)
    BY <1>1, <1>2, ConcatAdjacentSubSeq
  <2> QED
    BY <1>3, <2>1, <2>2
<1>5. CASE ~(F < Cardinality(S))
  <2>1. a = Cardinality(S) /\ b = Cardinality(S) /\ b < F + 1 /\ F + 1 \in Int /\ b \in Int
    BY <1>1, <1>5
  <2> HIDE DEF a, b
  <2>2. SubSeq(W, F + 1, b) = <<>>
    BY <2>1, SubSeqEmpty
  <2>3. SubSeq(W, 1, a) \in Seq(S)
    BY <1>1, <1>2
  <2>4. SubSeq(W, 1, a) \o <<>> = SubSeq(W, 1, a)
    BY <2>3, ConcatEmptySeq
  <2> QED
    BY <1>3, <2>1, <2>2, <2>4
<1> QED
  BY <1>4, <1>5

(* A joined list that reaches to the first "depth" rows of what matches:    *)
(* with no change it is these rows; with no upload nothing is twice in it,  *)
(* and what is left of it is among these rows; with no deletion it has all  *)
(* of these that are not new, and all that are newer than one it has.       *)
FeedHas(all) == {all[n] : n \in 1..Len(all)}
FeedSingle(S, all, depth) ==
    /\ \A m, n \in 1..Len(all) : all[m] = all[n] => m = n
    /\ \A i \in FeedHas(all) \cap S : Cardinality(Newer(S, i)) < depth
FeedClosed(old, S, all, depth) ==
    \A i \in old : /\ Cardinality(Newer(S, i)) < depth => i \in FeedHas(all)
                   /\ \A j \in FeedHas(all) : j < i => i \in FeedHas(all)
FeedGood(S, added, gone, all, depth) ==
    /\ added = {} /\ gone = {} => all = FeedFirst(S, depth)
    /\ added = {} => FeedSingle(S, all, depth)
    /\ gone = {} => FeedClosed(S \ added, S, all, depth)

LEMMA NewnessCounted ==
    ASSUME NEW S \in SUBSET Int, IsFiniteSet(S), NEW R \in SUBSET S, NEW i
    PROVE  /\ Cardinality(Newer(S, i)) \in Nat /\ Cardinality(Newer(R, i)) \in Nat
           /\ Cardinality(Newer(R, i)) <= Cardinality(Newer(S, i))
<1>1. Newer(R, i) \subseteq Newer(S, i) /\ Newer(S, i) \subseteq S
  BY DEF Newer
<1>2. IsFiniteSet(Newer(S, i))
  BY <1>1, FS_Subset
<1> QED
  BY <1>1, <1>2, FS_Subset, FS_CardinalityType

LEMMA FeedHasBoth ==
    ASSUME NEW T, NEW s \in Seq(T), NEW t \in Seq(T)
    PROVE  /\ FeedHas(s \o t) = FeedHas(s) \cup FeedHas(t)
           /\ (\A m, n \in 1..Len(s) : s[m] = s[n] => m = n)
              /\ (\A m, n \in 1..Len(t) : t[m] = t[n] => m = n)
              /\ FeedHas(s) \cap FeedHas(t) = {}
                 => \A m, n \in 1..Len(s \o t) : (s \o t)[m] = (s \o t)[n] => m = n
<1> DEFINE u == s \o t
<1>1. /\ u \in Seq(T) /\ Len(u) = Len(s) + Len(t) /\ Len(s) \in Nat /\ Len(t) \in Nat
      /\ \A i \in 1..Len(s) + Len(t) : u[i] = IF i <= Len(s) THEN s[i] ELSE t[i - Len(s)]
  BY ConcatProperties
<1> HIDE DEF u
<1>2. \A i \in 1..Len(s) : i \in 1..Len(u) /\ u[i] = s[i]
  BY <1>1
<1>3. ASSUME NEW i \in 1..Len(t) PROVE Len(s) + i \in 1..Len(u) /\ u[Len(s) + i] = t[i]
  <2>1. Len(s) + i \in 1..Len(s) + Len(t) /\ ~(Len(s) + i <= Len(s)) /\ Len(s) + i - Len(s) = i
    BY <1>1
  <2> QED
    BY <1>1, <2>1
<1>4. ASSUME NEW i \in 1..Len(u)
      PROVE  \/ i \in 1..Len(s) /\ u[i] = s[i]
             \/ ~(i \in 1..Len(s)) /\ i - Len(s) \in 1..Len(t) /\ u[i] = t[i - Len(s)]
  BY <1>1
<1>5. FeedHas(u) \subseteq FeedHas(s) \cup FeedHas(t)
  BY <1>4 DEF FeedHas
<1>6. FeedHas(s) \cup FeedHas(t) \subseteq FeedHas(u)
  BY <1>2, <1>3 DEF FeedHas
<1>7. ASSUME \A m, n \in 1..Len(s) : s[m] = s[n] => m = n,
             \A m, n \in 1..Len(t) : t[m] = t[n] => m = n,
             FeedHas(s) \cap FeedHas(t) = {},
             NEW m \in 1..Len(u), NEW n \in 1..Len(u), u[m] = u[n]
      PROVE  m = n
  <2>1. ASSUME NEW x \in 1..Len(s), NEW y \in 1..Len(t) PROVE s[x] # t[y]
    <3>1. s[x] \in FeedHas(s) /\ t[y] \in FeedHas(t)
      BY DEF FeedHas
    <3> QED
      BY <1>7, <3>1
  <2>2. CASE m \in 1..Len(s) /\ n \in 1..Len(s)
    BY <1>2, <1>7, <2>2
  <2>3. CASE ~(m \in 1..Len(s)) /\ ~(n \in 1..Len(s))
    <3>1. m - Len(s) = n - Len(s)
      BY <1>4, <1>7, <2>3
    <3>2. m \in Int /\ n \in Int
      BY <1>1
    <3> QED
      BY <1>1, <3>1, <3>2
  <2>4. ~(m \in 1..Len(s) /\ ~(n \in 1..Len(s)))
    BY <1>4, <1>7, <2>1
  <2>5. ~(n \in 1..Len(s) /\ ~(m \in 1..Len(s)))
    BY <1>4, <1>7, <2>1
  <2> QED
    BY <2>2, <2>3, <2>4, <2>5
<1> QED
  BY <1>5, <1>6, <1>7 DEF u

(* The next page joins it.                                                  *)
LEMMA FeedGrows ==
    ASSUME NEW S \in SUBSET Int, IsFiniteSet(S), NEW F \in Nat, NEW P \in Nat \ {0},
           NEW added, NEW gone, NEW T, S \subseteq T, T \subseteq Int, NEW all \in Seq(T),
           FeedGood(S, added, gone, all, F)
    PROVE  FeedGood(S, added, gone, all \o FeedRows(S, F, P), F + P)
<1> DEFINE items == FeedRows(S, F, P)
           both == all \o items
<1>1. /\ items \in Seq(S)
      /\ \A i \in FeedHas(items) :
            /\ i \in S
            /\ F <= Cardinality(Newer(S, i)) /\ Cardinality(Newer(S, i)) < F + P
      /\ \A i \in S : F <= Cardinality(Newer(S, i)) /\ Cardinality(Newer(S, i)) < F + P
            => i \in FeedHas(items)
      /\ \A m, n \in 1..Len(items) : items[m] = items[n] => m = n
  BY FeedPage DEF FeedHas
<1>2. items \in Seq(T)
  BY <1>1, SeqMonotonic
<1> HIDE DEF items
<1>3. FeedHas(both) = FeedHas(all) \cup FeedHas(items)
  BY <1>2, FeedHasBoth
<1>4. \A i \in S : Cardinality(Newer(S, i)) \in Nat
  BY NewnessCounted
<1>5. ASSUME added = {} PROVE FeedSingle(S, both, F + P)
  <2>1. FeedSingle(S, all, F)
    BY <1>5 DEF FeedGood
  <2>2. FeedHas(all) \cap FeedHas(items) = {}
    <3> SUFFICES ASSUME NEW i, i \in FeedHas(all), i \in FeedHas(items) PROVE FALSE
      OBVIOUS
    <3>1. i \in S /\ F <= Cardinality(Newer(S, i)) /\ Cardinality(Newer(S, i)) < F
      BY <1>1, <2>1 DEF FeedSingle
    <3> QED
      BY <1>4, <3>1
  <2>3. \A m, n \in 1..Len(all) : all[m] = all[n] => m = n
    BY <2>1 DEF FeedSingle
  <2>4. \A m, n \in 1..Len(both) : both[m] = both[n] => m = n
    BY <1>1, <1>2, <2>2, <2>3, FeedHasBoth
  <2>5. ASSUME NEW i \in FeedHas(both) \cap S PROVE Cardinality(Newer(S, i)) < F + P
    <3>1. CASE i \in FeedHas(all)
      <4>1. Cardinality(Newer(S, i)) < F /\ Cardinality(Newer(S, i)) \in Nat
        BY <1>4, <2>1, <2>5, <3>1 DEF FeedSingle
      <4> QED
        BY <4>1
    <3>2. CASE i \in FeedHas(items)
      BY <1>1, <3>2
    <3> QED
      BY <1>3, <2>5, <3>1, <3>2
  <2> QED
    BY <2>4, <2>5 DEF FeedSingle
<1>6. ASSUME gone = {} PROVE FeedClosed(S \ added, S, both, F + P)
  <2> SUFFICES ASSUME NEW i \in S \ added
               PROVE  /\ Cardinality(Newer(S, i)) < F + P => i \in FeedHas(both)
                      /\ \A j \in FeedHas(both) : j < i => i \in FeedHas(both)
    BY DEF FeedClosed
  <2>1. /\ Cardinality(Newer(S, i)) < F => i \in FeedHas(all)
        /\ \A j \in FeedHas(all) : j < i => i \in FeedHas(all)
    BY <1>6 DEF FeedGood, FeedClosed
  <2>2. Cardinality(Newer(S, i)) < F + P => i \in FeedHas(both)
    <3>1. Cardinality(Newer(S, i)) \in Nat
      BY <1>4
    <3>2. Cardinality(Newer(S, i)) < F \/ F <= Cardinality(Newer(S, i))
      BY <3>1
    <3> QED
      BY <1>1, <1>3, <2>1, <3>2
  <2>3. ASSUME NEW j \in FeedHas(items), j < i PROVE i \in FeedHas(both)
    <3>1. j \in S /\ Cardinality(Newer(S, j)) < F + P
      BY <1>1, <2>3
    <3>2. Cardinality(Newer(S, i)) < Cardinality(Newer(S, j))
      BY <2>3, <3>1, Places
    <3>3. Cardinality(Newer(S, i)) \in Nat /\ Cardinality(Newer(S, j)) \in Nat
      BY <1>4, <3>1
    <3>4. Cardinality(Newer(S, i)) < F + P
      BY <3>1, <3>2, <3>3
    <3> QED
      BY <2>2, <3>4
  <2> QED
    BY <1>3, <2>1, <2>2, <2>3
<1>7. ASSUME added = {}, gone = {} PROVE both = FeedFirst(S, F + P)
  <2>1. all = FeedFirst(S, F)
    BY <1>7 DEF FeedGood
  <2> QED
    BY <2>1, FeedJoins DEF items
<1> HIDE DEF both
<1>8. FeedGood(S, added, gone, both, F + P)
  BY <1>5, <1>6, <1>7 DEF FeedGood
<1> QED
  BY <1>8 DEF both, items

LEMMA FeedEmpty ==
    ASSUME NEW S \in SUBSET Int, IsFiniteSet(S)
    PROVE  FeedGood(S, {}, {}, <<>>, 0)
<1>1. Cardinality(S) \in Nat
  BY FS_CardinalityType
<1>2. FeedFirst(S, 0) = <<>>
  <2>1. FeedFirst(S, 0) = SubSeq(Descending(S), 1, 0)
    BY <1>1 DEF FeedFirst
  <2> QED
    BY <2>1, SubSeqEmpty
<1>3. FeedHas(<<>>) = {}
  BY DEF FeedHas
<1>4. \A i \in S : ~(Cardinality(Newer(S, i)) < 0)
  <2> TAKE i \in S
  <2>1. Cardinality(Newer(S, i)) \in Nat
    BY NewnessCounted
  <2> QED
    BY <2>1
<1> QED
  BY <1>2, <1>3, <1>4 DEF FeedGood, FeedSingle, FeedClosed

LEMMA FeedUploaded ==
    ASSUME NEW S \in SUBSET Int, NEW R, R \in SUBSET Int, IsFiniteSet(R), S \subseteq R,
           NEW i, R \subseteq S \cup {i}, NEW added, NEW gone, NEW all, NEW depth \in Nat,
           FeedGood(S, added, gone, all, depth)
    PROVE  FeedGood(R, added \cup {i}, gone, all, depth)
<1>1. ASSUME gone = {} PROVE FeedClosed(R \ (added \cup {i}), R, all, depth)
  <2> SUFFICES ASSUME NEW j \in R \ (added \cup {i})
               PROVE  /\ Cardinality(Newer(R, j)) < depth => j \in FeedHas(all)
                      /\ \A k \in FeedHas(all) : k < j => j \in FeedHas(all)
    BY DEF FeedClosed
  <2>1. j \in S \ added
    OBVIOUS
  <2>2. /\ Cardinality(Newer(S, j)) < depth => j \in FeedHas(all)
        /\ \A k \in FeedHas(all) : k < j => j \in FeedHas(all)
    BY <1>1, <2>1 DEF FeedGood, FeedClosed
  <2>3. /\ Cardinality(Newer(S, j)) \in Nat /\ Cardinality(Newer(R, j)) \in Nat
        /\ Cardinality(Newer(S, j)) <= Cardinality(Newer(R, j))
    BY NewnessCounted
  <2>4. Cardinality(Newer(R, j)) < depth => Cardinality(Newer(S, j)) < depth
    BY <2>3
  <2> QED
    BY <2>2, <2>4
<1>2. added \cup {i} # {}
  OBVIOUS
<1> QED
  BY <1>1, <1>2 DEF FeedGood

LEMMA FeedDeleted ==
    ASSUME NEW S \in SUBSET Int, IsFiniteSet(S), NEW R \in SUBSET S,
           NEW i, NEW added, NEW gone, NEW all, NEW depth \in Nat,
           FeedGood(S, added, gone, all, depth)
    PROVE  FeedGood(R, added, gone \cup {i}, all, depth)
<1>1. ASSUME added = {} PROVE FeedSingle(R, all, depth)
  <2>1. FeedSingle(S, all, depth)
    BY <1>1 DEF FeedGood
  <2>2. ASSUME NEW j \in FeedHas(all) \cap R PROVE Cardinality(Newer(R, j)) < depth
    <3>1. Cardinality(Newer(S, j)) < depth
      BY <2>1 DEF FeedSingle
    <3>2. /\ Cardinality(Newer(S, j)) \in Nat /\ Cardinality(Newer(R, j)) \in Nat
          /\ Cardinality(Newer(R, j)) <= Cardinality(Newer(S, j))
      BY NewnessCounted
    <3> QED
      BY <3>1, <3>2
  <2> QED
    BY <2>1, <2>2 DEF FeedSingle
<1>2. gone \cup {i} # {}
  OBVIOUS
<1> QED
  BY <1>1, <1>2 DEF FeedGood

-----------------------------------------------------------------------------
(* What matches, where the page shown begins, and how far the joined list   *)
(* reaches: with an answer the page is joined, before that it is not.       *)
FeedSet == {i \in fAlive : fFiltered => i \in FeedMatches}
FeedFrom == fPage * FeedPageSize - FeedPageSize
FeedDepth == IF fQuery.data = NoData THEN FeedFrom ELSE FeedFrom + FeedPageSize
FeedAnswer == [items: Seq(FeedImages), total: Nat]

FeedShape ==
    /\ fAlive \subseteq FeedImages /\ fFiltered \in BOOLEAN
    /\ fPage \in Nat \ {0} /\ fPrevPage \in Nat /\ fImages \in Seq(FeedImages)
    /\ CacheEntry(fQuery)
    /\ fQuery.data # NoData =>
          /\ fQuery.data \in FeedAnswer /\ fQuery.flight = "none"
          /\ fQuery.data.total > 0 => fPrevPage <= fPage
    /\ fQuery.data = NoData => IF fPage = 1 THEN fImages = <<>> ELSE fPrevPage < fPage
    /\ fQuery.flight = "answered" =>
          /\ fQuery.answer \in FeedAnswer
          /\ fPage = 1 /\ fQuery.answer.items = <<>> => fQuery.answer.total = 0
(* The list as it is, and as it will be when the answer lands.              *)
FeedJoined == FeedGood(FeedSet, fAdded, fLost, fImages, FeedDepth)
FeedComing ==
    fQuery.flight = "answered" =>
        FeedGood(FeedSet, fAdded, fLost, fImages \o fQuery.answer.items, FeedFrom + FeedPageSize)
FeedInv == FeedShape /\ FeedJoined /\ FeedComing

LEMMA FeedCache ==
    /\ \A e, truth : Feed!Served(e, truth) = Served(e, truth)
    /\ \A e : /\ Feed!Landed(e) = Landed(e) /\ Feed!Failed(e) = Failed(e)
             /\ Feed!Observed(e) = Observed(e) /\ Feed!Aged(e) = Aged(e)
             /\ Feed!Resting(e) = Resting(e) /\ Feed!Loading(e) = Loading(e)
    /\ Feed!Empty = Empty
BY DEF Feed!Served, Feed!Landed, Feed!Failed, Feed!Observed, Feed!Aged, Feed!Resting, Feed!Loading,
   Feed!Empty, Served, Landed, Failed, Observed, Aged, Resting, Loading, Empty

LEMMA FeedSets ==
    ASSUME fAlive \subseteq FeedImages, fPage \in Nat \ {0}
    PROVE  /\ FeedSet \in SUBSET Int /\ IsFiniteSet(FeedSet) /\ FeedSet \subseteq FeedImages
           /\ FeedImages \subseteq Int /\ FeedPageSize \in Nat \ {0}
           /\ FeedFrom \in Nat /\ FeedDepth \in Nat
           /\ FeedFrom + FeedPageSize = fPage * FeedPageSize
           /\ fPage = 1 => FeedFrom = 0
           /\ (fPage + 1) * FeedPageSize - FeedPageSize = FeedFrom + FeedPageSize
           /\ Feed!Matching = Descending(FeedSet)
           /\ Feed!Truth.items = FeedRows(FeedSet, FeedFrom, FeedPageSize)
           /\ Feed!Truth.total = Cardinality(FeedSet) /\ Cardinality(FeedSet) \in Nat
           /\ Feed!Truth \in FeedAnswer
           /\ fPage = 1 /\ Feed!Truth.items = <<>> => Feed!Truth.total = 0
<1>1. FeedImages \subseteq Int /\ IsFiniteSet(FeedImages) /\ FeedPageSize \in Nat \ {0}
  BY FeedAssumption
<1>2. FeedSet \subseteq FeedImages
  BY DEF FeedSet
<1>3. FeedSet \in SUBSET Int /\ IsFiniteSet(FeedSet)
  BY <1>1, <1>2, FS_Subset
<1> DEFINE E == fPage * FeedPageSize
<1>4. /\ E \in Nat /\ E >= FeedPageSize /\ (fPage = 1 => E = FeedPageSize)
      /\ (fPage + 1) * FeedPageSize = E + FeedPageSize
  BY <1>1
<1>5. FeedFrom = E - FeedPageSize
  BY DEF FeedFrom
<1> HIDE DEF E
<1>6. FeedFrom \in Nat /\ FeedDepth \in Nat /\ FeedFrom + FeedPageSize = E
      /\ (fPage = 1 => FeedFrom = 0)
  BY <1>1, <1>4, <1>5 DEF FeedDepth
<1>7. Feed!Matching = Descending(FeedSet)
  BY DEF Feed!Matching, Feed!Descending, Descending, Feed!Newer, Newer, Feed!Cardinality,
     Cardinality, FeedSet
<1>8. Len(Descending(FeedSet)) = Cardinality(FeedSet) /\ Cardinality(FeedSet) \in Nat
  BY <1>3, Sorted
<1>9. /\ Feed!Truth.total = Cardinality(FeedSet)
      /\ Feed!Truth = [items |-> Feed!Truth.items, total |-> Feed!Truth.total]
      /\ Feed!Truth.items = SubSeq(Descending(FeedSet), E - FeedPageSize + 1,
                                   IF E < Cardinality(FeedSet) THEN E ELSE Cardinality(FeedSet))
  BY <1>7, <1>8 DEF Feed!Truth, E
<1>10. Feed!Truth.items = FeedRows(FeedSet, FeedFrom, FeedPageSize)
  BY <1>5, <1>6, <1>9 DEF FeedRows
<1>11. /\ FeedRows(FeedSet, FeedFrom, FeedPageSize) \in Seq(FeedSet)
       /\ FeedFrom = 0 /\ FeedRows(FeedSet, FeedFrom, FeedPageSize) = <<>> => Cardinality(FeedSet) = 0
  BY <1>1, <1>3, <1>6, FeedPage
<1>12. Feed!Truth.items \in Seq(FeedImages)
  BY <1>2, <1>10, <1>11, SeqMonotonic
<1>13. Feed!Truth \in FeedAnswer
  BY <1>8, <1>9, <1>12 DEF FeedAnswer
<1>14. fPage = 1 /\ Feed!Truth.items = <<>> => Feed!Truth.total = 0
  BY <1>6, <1>9, <1>10, <1>11
<1>15. FeedFrom + FeedPageSize = fPage * FeedPageSize
       /\ (fPage + 1) * FeedPageSize - FeedPageSize = FeedFrom + FeedPageSize
  <2>1. E = fPage * FeedPageSize
    BY DEF E
  <2> QED
    BY <1>1, <1>4, <1>6, <2>1
<1> QED
  BY <1>1, <1>2, <1>3, <1>6, <1>7, <1>8, <1>9, <1>10, <1>13, <1>14, <1>15

LEMMA FeedReset ==
    ASSUME FeedInv, UNCHANGED fAlive, fFiltered' \in BOOLEAN, Feed!Effect(1, Observed(Empty)),
           fAdded' = {}, fLost' = {}
    PROVE  FeedInv'
<1>1. /\ fPage' = 1 /\ fImages' = <<>> /\ fPrevPage' = fPrevPage
      /\ fQuery'.data = NoData /\ fQuery'.flight = "asked" /\ DOMAIN fQuery' = {"data", "flight", "answer"}
  BY DEF Feed!Effect, Feed!NewItems, Observed, Empty
<1>2. FeedShape'
  <2>1. <<>> \in Seq(FeedImages) /\ 1 \in Nat \ {0}
    BY EmptySeq
  <2> QED
    BY <1>1, <2>1 DEF FeedInv, FeedShape, CacheEntry
<1>3. FeedSet' \in SUBSET Int /\ IsFiniteSet(FeedSet')
  <2>1. FeedSet' \subseteq FeedImages
    BY <1>2 DEF FeedSet, FeedShape
  <2> QED
    BY <2>1, FeedAssumption, FS_Subset
<1>4. FeedDepth' = 0
  <2>1. FeedFrom' = 0
    BY <1>1, FeedAssumption DEF FeedFrom
  <2> QED
    BY <1>1, <2>1 DEF FeedDepth
<1>5. FeedJoined'
  BY <1>1, <1>3, <1>4, FeedEmpty DEF FeedJoined
<1>6. FeedComing'
  BY <1>1 DEF FeedComing
<1> QED
  BY <1>2, <1>5, <1>6 DEF FeedInv

LEMMA FeedTurned ==
    ASSUME FeedInv, Feed!OnEndReached
    PROVE  FeedInv'
<1>0. FeedShape /\ FeedJoined
  BY DEF FeedInv
<1>1. fPage \in Nat \ {0} /\ fImages \in Seq(FeedImages) /\ Len(fImages) \in Nat /\ fPrevPage \in Nat
  BY <1>0 DEF FeedShape
<1>2. /\ Len(fImages) < Feed!Total /\ Feed!Effect(fPage + 1, Observed(Empty))
      /\ UNCHANGED <<fAlive, fFiltered, fAdded, fLost>>
  BY FeedCache DEF Feed!OnEndReached, Feed!history
<1>3. fQuery.data # NoData /\ fQuery.data.total > 0 /\ fQuery.data.total \in Nat
  <2>1. fQuery.data # NoData
    BY <1>1, <1>2 DEF Feed!Total
  <2>2. Feed!Total = fQuery.data.total /\ fQuery.data.total \in Nat
    BY <1>0, <2>1 DEF Feed!Total, FeedShape, FeedAnswer
  <2> QED
    BY <1>1, <1>2, <2>1, <2>2
<1>4. fPrevPage <= fPage
  BY <1>0, <1>3 DEF FeedShape
<1>5. /\ fPage' = fPage + 1 /\ fImages' = fImages \o <<>> /\ fPrevPage' = fPrevPage
      /\ fQuery'.data = NoData /\ fQuery'.flight = "asked" /\ DOMAIN fQuery' = {"data", "flight", "answer"}
  BY <1>1, <1>2, <1>4 DEF Feed!Effect, Feed!NewItems, Observed, Empty
<1>6. fImages' = fImages
  BY <1>1, <1>5, ConcatEmptySeq
<1>7. FeedShape'
  BY <1>0, <1>1, <1>2, <1>4, <1>5, <1>6 DEF FeedShape, CacheEntry
<1>8. FeedSet' = FeedSet
  BY <1>2 DEF FeedSet
<1>9. FeedDepth' = FeedDepth
  <2>1. FeedFrom' = (fPage + 1) * FeedPageSize - FeedPageSize
    BY <1>5 DEF FeedFrom
  <2>2. FeedFrom' = FeedFrom + FeedPageSize
    BY <1>0, <2>1, FeedSets DEF FeedShape
  <2> QED
    BY <1>3, <1>5, <2>2 DEF FeedDepth
<1>10. FeedJoined'
  BY <1>0, <1>2, <1>6, <1>8, <1>9 DEF FeedJoined
<1>11. FeedComing'
  BY <1>5 DEF FeedComing
<1> QED
  BY <1>7, <1>10, <1>11 DEF FeedInv

LEMMA FeedServed ==
    ASSUME FeedInv, Feed!Serve
    PROVE  FeedInv'
<1>0. FeedShape /\ FeedJoined
  BY DEF FeedInv
<1>1. /\ fQuery.flight = "asked" /\ fQuery' = Served(fQuery, Feed!Truth)
      /\ UNCHANGED <<fAlive, fPage, fFiltered, fImages, fPrevPage, fAdded, fLost>>
  BY FeedCache DEF Feed!Serve, Feed!history
<1>2. /\ fQuery.data = NoData /\ fQuery'.data = NoData /\ fQuery'.flight = "answered"
      /\ fQuery'.answer = Feed!Truth /\ CacheEntry(fQuery')
  BY <1>0, <1>1 DEF FeedShape, CacheEntry, Served
<1>3. FeedShape'
  <2>1. Feed!Truth \in FeedAnswer /\ (fPage = 1 /\ Feed!Truth.items = <<>> => Feed!Truth.total = 0)
    BY <1>0, FeedSets DEF FeedShape
  <2> QED
    BY <1>0, <1>1, <1>2, <2>1 DEF FeedShape
<1>4. FeedSet' = FeedSet /\ FeedFrom' = FeedFrom /\ FeedDepth' = FeedFrom /\ FeedDepth = FeedFrom
  BY <1>1, <1>2 DEF FeedSet, FeedFrom, FeedDepth
<1>5. FeedGood(FeedSet, fAdded, fLost, fImages, FeedFrom)
  BY <1>0, <1>4 DEF FeedJoined
<1>6. FeedJoined'
  BY <1>1, <1>4, <1>5 DEF FeedJoined
<1>7. FeedGood(FeedSet, fAdded, fLost, fImages \o FeedRows(FeedSet, FeedFrom, FeedPageSize),
               FeedFrom + FeedPageSize)
  <2>1. /\ FeedSet \in SUBSET Int /\ IsFiniteSet(FeedSet) /\ FeedFrom \in Nat
        /\ FeedPageSize \in Nat \ {0} /\ FeedSet \subseteq FeedImages /\ FeedImages \subseteq Int
        /\ fImages \in Seq(FeedImages)
    BY <1>0, FeedSets DEF FeedShape
  <2> QED
    BY <1>5, <2>1, FeedGrows
<1>8. Feed!Truth.items = FeedRows(FeedSet, FeedFrom, FeedPageSize)
  BY <1>0, FeedSets DEF FeedShape
<1>9. FeedComing'
  BY <1>1, <1>2, <1>4, <1>7, <1>8 DEF FeedComing
<1> QED
  BY <1>3, <1>6, <1>9 DEF FeedInv

LEMMA FeedLanded ==
    ASSUME FeedInv, Feed!Land
    PROVE  FeedInv'
<1>0. FeedShape /\ FeedComing
  BY DEF FeedInv
<1>1. /\ fQuery.flight = "answered" /\ Feed!Effect(fPage, Landed(fQuery))
      /\ UNCHANGED <<fAlive, fFiltered, fAdded, fLost>>
  BY FeedCache DEF Feed!Land, Feed!history, Aged
<1>2. /\ fQuery.data = NoData /\ fQuery.answer \in FeedAnswer /\ fQuery.answer # NoData
      /\ fImages \in Seq(FeedImages) /\ fPage \in Nat \ {0} /\ fPrevPage \in Nat
      /\ fPage = 1 /\ fQuery.answer.items = <<>> => fQuery.answer.total = 0
      /\ IF fPage = 1 THEN fImages = <<>> ELSE fPrevPage < fPage
  BY <1>0, <1>1, FeedAssumption DEF FeedShape, FeedAnswer
<1> DEFINE items == fQuery.answer.items
<1>3. items \in Seq(FeedImages)
  BY <1>2 DEF FeedAnswer
<1>4. /\ fQuery'.data = fQuery.answer /\ fQuery'.flight = "none"
      /\ DOMAIN fQuery' = {"data", "flight", "answer"} /\ fPage' = fPage
      /\ fImages' = IF fPage = 1 THEN items
                    ELSE IF fPage > fPrevPage THEN fImages \o items ELSE fImages
      /\ fPrevPage' = IF items # <<>> THEN fPage ELSE fPrevPage
  BY <1>1, <1>2 DEF Feed!Effect, Feed!NewItems, Landed
<1>5. fImages' = fImages \o items /\ fImages' \in Seq(FeedImages)
  <2>1. fPage = 1 => fImages \o items = items
    BY <1>2, <1>3, ConcatEmptySeq
  <2>2. fImages \o items \in Seq(FeedImages)
    BY <1>2, <1>3, ConcatProperties
  <2>3. fPage # 1 => fPage > fPrevPage
    BY <1>2
  <2> HIDE DEF items
  <2> QED
    BY <1>4, <2>1, <2>2, <2>3
<1>6. FeedShape'
  <2>1. fPrevPage' \in Nat /\ (fQuery.answer.total > 0 => fPrevPage' <= fPage)
    <3>1. fQuery.answer.total \in Nat
      BY <1>2 DEF FeedAnswer
    <3>2. CASE items = <<>>
      BY <1>2, <1>4, <3>1, <3>2
    <3>3. CASE items # <<>>
      BY <1>2, <1>4, <3>3
    <3> QED
      BY <3>2, <3>3
  <2> QED
    BY <1>0, <1>1, <1>2, <1>4, <1>5, <2>1 DEF FeedShape, CacheEntry
<1>7. FeedSet' = FeedSet /\ FeedDepth' = FeedFrom + FeedPageSize
  BY <1>1, <1>2, <1>4 DEF FeedSet, FeedFrom, FeedDepth
<1>8. FeedJoined'
  BY <1>0, <1>1, <1>5, <1>7 DEF FeedJoined, FeedComing
<1>9. FeedComing'
  BY <1>4 DEF FeedComing
<1> QED
  BY <1>6, <1>8, <1>9 DEF FeedInv

LEMMA FeedFailed ==
    ASSUME FeedInv, Feed!FetchFails
    PROVE  FeedInv'
<1>0. FeedShape /\ FeedJoined
  BY DEF FeedInv
<1>1. /\ fQuery.flight = "asked" /\ Feed!Effect(fPage, Failed(fQuery))
      /\ UNCHANGED <<fAlive, fFiltered, fAdded, fLost>>
  BY FeedCache DEF Feed!FetchFails, Feed!history
<1>2. /\ fQuery.data = NoData /\ fImages \in Seq(FeedImages)
      /\ IF fPage = 1 THEN fImages = <<>> ELSE fPrevPage < fPage
  BY <1>0, <1>1 DEF FeedShape
<1>3. /\ fQuery'.data = NoData /\ fQuery'.flight = "none"
      /\ DOMAIN fQuery' = {"data", "flight", "answer"} /\ fPage' = fPage
      /\ fPrevPage' = fPrevPage
      /\ fImages' = IF fPage = 1 THEN <<>> ELSE IF fPage > fPrevPage THEN fImages \o <<>> ELSE fImages
  BY <1>0, <1>1, <1>2 DEF FeedShape, CacheEntry, Feed!Effect, Feed!NewItems, Failed
<1>4. fImages' = fImages
  BY <1>2, <1>3, ConcatEmptySeq
<1>5. FeedShape'
  BY <1>0, <1>1, <1>2, <1>3, <1>4 DEF FeedShape, CacheEntry
<1>6. FeedSet' = FeedSet /\ FeedDepth' = FeedDepth
  BY <1>1, <1>2, <1>3 DEF FeedSet, FeedFrom, FeedDepth
<1>7. FeedJoined'
  BY <1>0, <1>1, <1>4, <1>6 DEF FeedJoined
<1>8. FeedComing'
  BY <1>3 DEF FeedComing
<1> QED
  BY <1>5, <1>7, <1>8 DEF FeedInv

LEMMA FeedOthers ==
    ASSUME FeedInv, NEW i \in FeedImages, Feed!Upload(i) \/ Feed!Delete(i)
    PROVE  FeedInv'
<1>0. FeedShape /\ FeedJoined /\ FeedComing
  BY DEF FeedInv
<1>1. /\ UNCHANGED <<fPage, fFiltered, fQuery, fImages, fPrevPage>>
      /\ \/ fAlive' = fAlive \cup {i} /\ fAdded' = fAdded \cup {i} /\ UNCHANGED fLost
         \/ fAlive' = fAlive \ {i} /\ fLost' = fLost \cup {i} /\ UNCHANGED fAdded
  BY DEF Feed!Upload, Feed!Delete, Feed!Local
<1>2. FeedShape'
  BY <1>0, <1>1 DEF FeedShape
<1>3. FeedFrom' = FeedFrom /\ FeedDepth' = FeedDepth
  BY <1>1 DEF FeedFrom, FeedDepth
<1>4. /\ FeedSet \in SUBSET Int /\ IsFiniteSet(FeedSet) /\ FeedDepth \in Nat /\ FeedFrom \in Nat
      /\ FeedPageSize \in Nat \ {0}
  BY <1>0, FeedSets DEF FeedShape
<1>5. FeedSet' \in SUBSET Int /\ IsFiniteSet(FeedSet')
  <2>1. FeedSet' \subseteq FeedImages
    BY <1>2 DEF FeedShape, FeedSet
  <2> QED
    BY <2>1, FeedAssumption, FS_Subset
<1>6. ASSUME NEW all, NEW depth \in Nat, FeedGood(FeedSet, fAdded, fLost, all, depth)
      PROVE  FeedGood(FeedSet', fAdded', fLost', all, depth)
  <2>1. CASE fAlive' = fAlive \cup {i} /\ fAdded' = fAdded \cup {i} /\ UNCHANGED fLost
    <3>1. FeedSet \subseteq FeedSet' /\ FeedSet' \subseteq FeedSet \cup {i}
      BY <1>1, <2>1 DEF FeedSet
    <3> QED
      BY <1>4, <1>5, <1>6, <2>1, <3>1, FeedUploaded
  <2>2. CASE fAlive' = fAlive \ {i} /\ fLost' = fLost \cup {i} /\ UNCHANGED fAdded
    <3>1. FeedSet' \in SUBSET FeedSet
      BY <1>1, <2>2 DEF FeedSet
    <3> QED
      BY <1>4, <1>6, <2>2, <3>1, FeedDeleted
  <2> QED
    BY <1>1, <2>1, <2>2
<1>7. FeedJoined'
  BY <1>0, <1>1, <1>3, <1>4, <1>6 DEF FeedJoined
<1>8. FeedComing'
  <2>1. FeedFrom + FeedPageSize \in Nat
    BY <1>4
  <2> QED
    BY <1>0, <1>1, <1>3, <1>6, <2>1 DEF FeedComing
<1> QED
  BY <1>2, <1>7, <1>8 DEF FeedInv

LEMMA FeedHolds == FeedInv => Feed!JoinedInOrder /\ Feed!ShiftsExplained
<1> SUFFICES ASSUME FeedInv PROVE Feed!JoinedInOrder /\ Feed!ShiftsExplained
  OBVIOUS
<1> DEFINE n == Cardinality(FeedSet)
           W == Descending(FeedSet)
<1>0. /\ FeedGood(FeedSet, fAdded, fLost, fImages, FeedDepth)
      /\ fImages \in Seq(FeedImages) /\ fPage \in Nat \ {0} /\ fAlive \subseteq FeedImages
  BY DEF FeedInv, FeedJoined, FeedShape
<1>1. /\ FeedSet \in SUBSET Int /\ IsFiniteSet(FeedSet) /\ FeedDepth \in Nat
      /\ Feed!Matching = W /\ FeedFrom + FeedPageSize = fPage * FeedPageSize
  BY <1>0, FeedSets
<1>2. /\ n \in Nat /\ W \in Seq(FeedSet) /\ Len(W) = n
      /\ \A m \in 1..n : W[m] \in FeedSet
  BY <1>1, Sorted
<1>3. Feed!Range(fImages) = FeedHas(fImages) /\ Feed!Range(W) \subseteq FeedSet
  BY <1>0, <1>2 DEF Feed!Range, FeedHas
<1>4. Feed!JoinedInOrder
  <2> SUFFICES ASSUME fAdded = {}, fLost = {}
               PROVE  /\ Len(fImages) <= Len(W) /\ fImages = SubSeq(W, 1, Len(fImages))
                      /\ fQuery.data # NoData =>
                            Len(fImages) = IF fPage * FeedPageSize < Len(W)
                                           THEN fPage * FeedPageSize ELSE Len(W)
    BY <1>1 DEF Feed!JoinedInOrder
  <2> DEFINE d == IF FeedDepth < n THEN FeedDepth ELSE n
  <2>1. fImages = SubSeq(W, 1, d)
    BY <1>0 DEF FeedGood, FeedFirst
  <2>2. d \in Nat /\ d <= n
    BY <1>1, <1>2
  <2> HIDE DEF W, n, d
  <2>3. Len(SubSeq(W, 1, d)) = d
    BY <1>2, <2>2
  <2>4. SubSeq(fImages, 1, Len(fImages)) = fImages
    BY <1>0, SubSeqFull
  <2>5. Len(fImages) <= Len(W) /\ fImages = SubSeq(W, 1, Len(fImages))
    BY <1>2, <2>1, <2>2, <2>3, <2>4
  <2>6. ASSUME fQuery.data # NoData
        PROVE  Len(fImages) = IF fPage * FeedPageSize < Len(W) THEN fPage * FeedPageSize ELSE Len(W)
    <3>1. FeedDepth = fPage * FeedPageSize
      BY <1>1, <2>6 DEF FeedDepth
    <3> QED
      BY <1>2, <2>1, <2>3, <3>1 DEF d
  <2> QED
    BY <2>5, <2>6
<1>5. Feed!ShiftsExplained
  <2>1. ASSUME fAdded = {} PROVE \A m, k \in DOMAIN fImages : fImages[m] = fImages[k] => m = k
    <3>1. DOMAIN fImages = 1..Len(fImages)
      BY <1>0
    <3> QED
      BY <1>0, <2>1, <3>1 DEF FeedGood, FeedSingle
  <2>2. ASSUME fLost = {}
        PROVE  \A i \in Feed!Range(W) \ fAdded :
                  (\E j \in FeedHas(fImages) : j < i) => i \in FeedHas(fImages)
    BY <1>0, <1>3, <2>2 DEF FeedGood, FeedClosed
  <2> QED
    BY <1>1, <1>3, <2>1, <2>2 DEF Feed!ShiftsExplained
<1> QED
  BY <1>4, <1>5

(* The endless list: with no change meanwhile the joined pages are the      *)
(* first rows, with no upload nothing is listed twice, and with no deletion *)
(* nothing is left out (GalleryScreen.tsx:41-53, image_service.go:405-456). *)
THEOREM FeedTrue == Feed!Spec => [](Feed!JoinedInOrder /\ Feed!ShiftsExplained)
<1>1. Feed!Init => FeedInv
  <2> SUFFICES ASSUME Feed!Init PROVE FeedInv
    OBVIOUS
  <2>1. /\ fAlive = FeedStock /\ fPage = 1 /\ fFiltered = FALSE /\ fImages = <<>> /\ fPrevPage = 0
        /\ fAdded = {} /\ fLost = {} /\ fQuery.data = NoData /\ fQuery.flight = "asked"
        /\ DOMAIN fQuery = {"data", "flight", "answer"}
    BY FeedCache DEF Feed!Init, Observed, Empty
  <2>2. FeedShape
    <3>1. <<>> \in Seq(FeedImages) /\ 1 \in Nat \ {0} /\ 0 \in Nat
      BY EmptySeq
    <3> QED
      BY <2>1, <3>1, FeedAssumption DEF FeedShape, CacheEntry
  <2>3. FeedSet \in SUBSET Int /\ IsFiniteSet(FeedSet) /\ FeedDepth = 0
    BY <2>1, <2>2, FeedSets DEF FeedShape, FeedDepth
  <2>4. FeedJoined
    BY <2>1, <2>3, FeedEmpty DEF FeedJoined
  <2> QED
    BY <2>1, <2>2, <2>4 DEF FeedInv, FeedComing
<1>2. FeedInv /\ [Feed!Next]_Feed!vars => FeedInv'
  <2> SUFFICES ASSUME FeedInv, [Feed!Next]_Feed!vars PROVE FeedInv'
    OBVIOUS
  <2>1. CASE UNCHANGED Feed!vars
    BY <2>1 DEF Feed!vars, Feed!history, FeedInv, FeedShape, FeedJoined, FeedComing, FeedSet,
       FeedFrom, FeedDepth
  <2>2. CASE Feed!ResetList
    BY <2>2, FeedReset, FeedCache DEF Feed!ResetList, FeedInv, FeedShape
  <2>3. CASE Feed!HandleRefresh
    BY <2>3, FeedReset, FeedCache DEF Feed!HandleRefresh, FeedInv, FeedShape
  <2> QED
    BY <2>1, <2>2, <2>3, FeedTurned, FeedServed, FeedLanded, FeedFailed, FeedOthers DEF Feed!Next
<1>3. FeedInv => Feed!JoinedInOrder /\ Feed!ShiftsExplained
  BY FeedHolds
<1> QED
  BY <1>1, <1>2, <1>3, PTL DEF Feed!Spec

-----------------------------------------------------------------------------
(* The office.  The rows of a list are those of what matches that are on    *)
(* its page.                                                                *)
OfficeNumbers(M) == {t[2] : t \in M}
OfficeRows(q, M) ==
    LET all == Office!NewestFirst[OfficeNumbers(M)]
        size == CASE q.of = "recent" -> OfficeRecentSize
                  [] q.of \in {"users", "images"} -> OfficeTableSize
                  [] OTHER -> Len(all)
        to == IF q.page * size < Len(all) THEN q.page * size ELSE Len(all)
    IN  {<<Office!KindOf(q), n>> : n \in Office!Range(SubSeq(all, (q.page - 1) * size + 1, to))}

LEMMA OfficeTruth ==
    ASSUME NEW q
    PROVE  Office!Truth(q) =
              [rows |-> [t \in OfficeRows(q, Office!Matching(q)) |-> oValue[t]],
               version |-> [t \in OfficeRows(q, Office!Matching(q)) |-> oVersion[t]],
               total |-> Len(Office!NewestFirst[OfficeNumbers(Office!Matching(q))])]
BY DEF Office!Truth, OfficeRows, OfficeNumbers

LEMMA OfficeCache ==
    /\ \A e, truth : Office!Served(e, truth) = Served(e, truth)
    /\ \A e : /\ Office!Landed(e) = Landed(e) /\ Office!Observed(e) = Observed(e)
             /\ Office!Renewed(e) = Renewed(e) /\ Office!Aged(e) = Aged(e)
             /\ Office!Failed(e) = Failed(e) /\ Office!Resting(e) = Resting(e) /\ Office!Loading(e) = Loading(e)
    /\ Office!Empty = Empty
    /\ \A S : Office!Cardinality(S) = Cardinality(S)
BY DEF Office!Served, Office!Landed, Office!Failed, Failed, Office!Observed, Office!Renewed, Office!Aged, Office!Resting,
   Office!Loading, Office!Empty, Office!Cardinality,
   Served, Landed, Observed, Renewed, Aged, Resting, Loading, Empty, Cardinality

LEMMA OfficePages ==
    ASSUME NEW n \in Nat
    PROVE  /\ Office!LastPage(n, OfficeTableSize) \in Nat
           /\ n > 0 => Office!LastPage(n, OfficeTableSize) > 0
           /\ \A p \in Nat \ {0} : p <= Office!LastPage(n, OfficeTableSize)
                                    => (p - 1) * OfficeTableSize < n
<1>1. OfficeTableSize \in Nat \ {0}
  BY OfficeAssumption
<1> DEFINE P == OfficeTableSize
           m == n + P - 1
           last == m \div P
<1>2. m \in Nat /\ P \in Nat \ {0}
  BY <1>1
<1>3. Office!LastPage(n, OfficeTableSize) = last
  BY DEF Office!LastPage
<1> HIDE DEF m, P
<1>4. last \in Nat /\ P * last <= m /\ (last = 0 => m < P)
  BY <1>2
<1> HIDE DEF last
<1>6. n > 0 => last > 0
  BY <1>2, <1>4 DEF m
<1>5. ASSUME NEW p \in Nat \ {0}, p <= last PROVE (p - 1) * P < n
  <2>1. PICK d \in Nat : last = p + d
    <3>1. last - p \in Nat /\ last = p + (last - p)
      BY <1>4, <1>5
    <3> QED
      BY <3>1
  <2>2. P * last = P * p + P * d
    BY <1>2, <2>1
  <2>3. P * d \in Nat /\ P * p \in Nat
    BY <1>2, <2>1
  <2>4. P * p <= m
    BY <1>2, <1>4, <2>2, <2>3
  <2>5. (p - 1) * P = P * p - P
    BY <1>2
  <2>6. m = n + P - 1
    BY DEF m, P
  <2> QED
    BY <1>2, <2>3, <2>4, <2>5, <2>6
<1> QED
  BY <1>3, <1>4, <1>5, <1>6 DEF P

LEMMA OfficeQueries ==
    /\ Office!Page \subseteq Nat \ {0} /\ 1 \in Office!Page
    /\ \A q \in Office!Query : q.page \in Nat \ {0} /\ Office!KindOf(q) \in {"user", "image", "tag"}
    /\ \A p \in Office!Place, n \in Office!Page, s \in BOOLEAN :
          /\ Office!Lists(p, n, s) \in Office!Query
          /\ p \in {"users", "images"} => Office!Lists(p, n, s) = [of |-> p, page |-> n, search |-> s]
          /\ p \in Office!Tabs => Office!Lists(p, n, s) = Office!First(p)
          /\ p = "tags" => Office!Lists(p, n, s) = Office!First(p)
          /\ p = "dashboard" => Office!Lists(p, n, s) = Office!First("recent")
<1>1. Cardinality(OfficeThings) \in Nat /\ Cardinality(OfficeThings) > 0
  <2>1. Cardinality(OfficeThings) \in Nat /\ Cardinality(OfficeThings) # 0
    BY OfficeAssumption, FS_CardinalityType, FS_EmptySet
  <2> QED
    BY <2>1
<1>2. /\ Office!LastPage(Cardinality(OfficeThings), OfficeTableSize) \in Nat
      /\ Office!LastPage(Cardinality(OfficeThings), OfficeTableSize) > 0
  BY <1>1, OfficePages
<1>3. Office!Page \subseteq Nat \ {0} /\ 1 \in Office!Page
  BY <1>2, OfficeCache DEF Office!Page
<1>4. ASSUME NEW q \in Office!Query
      PROVE  q.page \in Nat \ {0} /\ Office!KindOf(q) \in {"user", "image", "tag"}
  BY <1>3 DEF Office!Query, Office!KindOf
<1>5. ASSUME NEW p \in Office!Place, NEW n \in Office!Page, NEW s \in BOOLEAN
      PROVE  /\ Office!Lists(p, n, s) \in Office!Query
             /\ p \in {"users", "images"} => Office!Lists(p, n, s) = [of |-> p, page |-> n, search |-> s]
             /\ p \in Office!Tabs => Office!Lists(p, n, s) = Office!First(p)
             /\ p = "tags" => Office!Lists(p, n, s) = Office!First(p)
             /\ p = "dashboard" => Office!Lists(p, n, s) = Office!First("recent")
  <2>1. CASE p \in {"users", "images"}
    <3>1. Office!Lists(p, n, s) = [of |-> p, page |-> n, search |-> s]
      BY <2>1 DEF Office!Lists, Office!Tabs
    <3>2. Office!Lists(p, n, s) \in Office!Query
      BY <2>1, <3>1 DEF Office!Query
    <3> QED
      BY <2>1, <3>1, <3>2 DEF Office!Tabs
  <2>2. CASE p \in {"dashboard", "tags"} \cup Office!Tabs
    <3>1. /\ p = "dashboard" => Office!Lists(p, n, s) = Office!First("recent")
          /\ p # "dashboard" => Office!Lists(p, n, s) = Office!First(p)
      BY <2>2 DEF Office!Lists, Office!Tabs
    <3>2. \A x \in {"recent", "tags"} \cup Office!Tabs : Office!First(x) \in Office!Query
      BY <1>3 DEF Office!First, Office!Query
    <3>3. /\ p = "dashboard" \/ p \in {"recent", "tags"} \cup Office!Tabs
          /\ p \notin {"users", "images"} /\ (p \in Office!Tabs \/ p = "tags" => p # "dashboard")
      BY <2>2 DEF Office!Tabs
    <3> QED
      BY <3>1, <3>2, <3>3
  <2> QED
    BY <2>1, <2>2 DEF Office!Place, Office!Web
<1> QED
  BY <1>3, <1>4, <1>5

LEMMA OfficeCounted ==
    ASSUME NEW q \in Office!Query
    PROVE  /\ Office!Matching(q) \subseteq Office!Of(Office!KindOf(q))
           /\ Office!Of(Office!KindOf(q)) \subseteq OfficeThings
           /\ IsFiniteSet(Office!Matching(q)) /\ Cardinality(Office!Matching(q)) \in Nat
           /\ \A t \in Office!Matching(q) : t = <<Office!KindOf(q), t[2]>> /\ t[2] \in Int
           /\ OfficeNumbers(Office!Matching(q)) \in SUBSET Int
           /\ IsFiniteSet(OfficeNumbers(Office!Matching(q)))
           /\ Cardinality(OfficeNumbers(Office!Matching(q))) = Cardinality(Office!Matching(q))
           /\ Office!NewestFirst[OfficeNumbers(Office!Matching(q))]
                 = Descending(OfficeNumbers(Office!Matching(q)))
<1> DEFINE M == Office!Matching(q)
           N == OfficeNumbers(M)
           K == Office!KindOf(q)
<1>1. M \subseteq Office!Of(K) /\ Office!Of(K) \subseteq OfficeThings
  BY DEF Office!Matching, Office!Of
<1>2. IsFiniteSet(M) /\ Cardinality(M) \in Nat
  BY <1>1, OfficeAssumption, FS_Subset, FS_CardinalityType
<1>3. \A t \in M : t = <<K, t[2]>> /\ t[2] \in Int
  <2> TAKE t \in M
  <2>1. t \in {"user", "image", "tag"} \X Int /\ t[1] = K
    BY <1>1, OfficeAssumption DEF Office!Of
  <2> QED
    BY <2>1
<1>4. N \in SUBSET Int /\ N \subseteq {t[2] : t \in OfficeThings}
  BY <1>1, <1>3 DEF OfficeNumbers
<1>5. IsFiniteSet(N) /\ Cardinality(N) = Cardinality(M)
  <2> DEFINE f == [t \in M |-> t[2]]
  <2>1. f \in Injection(M, N)
    <3>1. f \in [M -> N]
      BY DEF OfficeNumbers
    <3>2. \A s, t \in M : f[s] = f[t] => s = t
      BY <1>3
    <3> QED
      BY <3>1, <3>2 DEF Injection, IsInjective
  <2>2. f \in Surjection(M, N)
    BY DEF Surjection, OfficeNumbers
  <2> HIDE DEF f
  <2> QED
    BY <1>2, <2>1, <2>2, FS_Surjection
<1>6. Office!NewestFirst[N] = Descending(N)
  <2>1. N \in SUBSET {t[2] : t \in OfficeThings}
    BY <1>4
  <2>2. Office!NewestFirst[N] = Office!Descending(N)
    BY <2>1 DEF Office!NewestFirst
  <2>3. Office!Descending(N) = Descending(N)
    BY DEF Office!Descending, Descending, Office!Newer, Newer, Office!Cardinality, Cardinality
  <2> QED
    BY <2>2, <2>3
<1> QED
  BY <1>1, <1>2, <1>3, <1>4, <1>5, <1>6

(* The rows are among what matches, and a page has some unless it lies      *)
(* beyond the last.                                                         *)
LEMMA OfficeListed ==
    ASSUME NEW q \in Office!Query
    PROVE  /\ OfficeRows(q, Office!Matching(q)) \subseteq Office!Matching(q)
           /\ q.of \in {"users", "images"} /\ OfficeRows(q, Office!Matching(q)) = {}
                 => (q.page - 1) * OfficeTableSize >= Cardinality(Office!Matching(q))
           /\ Office!Truth(q).total = Cardinality(Office!Matching(q))
<1> DEFINE M == Office!Matching(q)
           N == OfficeNumbers(M)
           W == Descending(N)
           size == CASE q.of = "recent" -> OfficeRecentSize
                     [] q.of \in {"users", "images"} -> OfficeTableSize
                     [] OTHER -> Len(W)
           to == IF q.page * size < Len(W) THEN q.page * size ELSE Len(W)
           from == (q.page - 1) * size + 1
           page == SubSeq(W, from, to)
<1>1. /\ W \in Seq(N) /\ Len(W) = Cardinality(M) /\ Cardinality(M) \in Nat
      /\ \A n \in 1..Len(W) : W[n] \in N
  <2>1. N \in SUBSET Int /\ IsFiniteSet(N) /\ Cardinality(N) = Cardinality(M)
    BY OfficeCounted
  <2> QED
    BY <2>1, Sorted
<1>2. Office!NewestFirst[N] = W /\ \A t \in M : t = <<Office!KindOf(q), t[2]>>
  BY OfficeCounted
<1>3. OfficeRows(q, M) = {<<Office!KindOf(q), n>> : n \in Office!Range(page)}
  BY <1>2 DEF OfficeRows
<1>4. Office!Truth(q).total = Cardinality(M)
  BY <1>1, <1>2, OfficeTruth
<1>5. q.page \in Nat \ {0} /\ size \in Nat /\ (q.of \in {"users", "images"} => size = OfficeTableSize)
  BY <1>1, OfficeQueries, OfficeAssumption
<1>6. \A n \in N : <<Office!KindOf(q), n>> \in M
  BY <1>2 DEF OfficeNumbers
<1> HIDE DEF M, N, W, size
<1>7. q.page * size \in Nat /\ (q.page - 1) * size \in Nat /\ q.page * size = (q.page - 1) * size + size
  BY <1>5
<1>8. from \in Nat \ {0} /\ to \in Nat /\ to <= Len(W)
  BY <1>1, <1>7
<1>9. /\ page \in Seq(N) /\ Len(page) = IF from <= to THEN to - from + 1 ELSE 0
      /\ \A n \in 1..to - from + 1 : page[n] = W[from + n - 1]
  <2>1. \A n \in from..to : W[n] \in N
    BY <1>1, <1>8
  <2> QED
    BY <1>8, <2>1, SubSeqProperties
<1> HIDE DEF from, to, page
<1>10. OfficeRows(q, M) \subseteq M
  <2>1. Office!Range(page) \subseteq N
    BY <1>9 DEF Office!Range
  <2> QED
    BY <1>3, <1>6, <2>1
<1>11. ASSUME q.of \in {"users", "images"}, OfficeRows(q, M) = {}
       PROVE  (q.page - 1) * OfficeTableSize >= Cardinality(M)
  <2>1. Office!Range(page) = {}
    BY <1>3, <1>11
  <2>2. Len(page) = 0
    <3>1. \A n \in 1..Len(page) : page[n] \in Office!Range(page)
      BY <1>9 DEF Office!Range
    <3>2. Len(page) \in Nat
      BY <1>9
    <3> QED
      BY <2>1, <3>1, <3>2
  <2>3. ~(from <= to)
    BY <1>8, <1>9, <2>2
  <2>4. size > 0 /\ size = OfficeTableSize
    BY <1>5, <1>11, OfficeAssumption
  <2>5. from = (q.page - 1) * size + 1 /\ to = IF q.page * size < Len(W) THEN q.page * size ELSE Len(W)
    BY DEF from, to
  <2>6. to = Len(W)
    BY <1>1, <1>5, <1>7, <2>3, <2>4, <2>5
  <2> QED
    BY <1>1, <1>7, <2>3, <2>4, <2>5, <2>6
<1> QED
  BY <1>4, <1>10, <1>11 DEF M

(* The truth of a list depends on the things of its kind only.              *)
LEMMA OfficeSame ==
    ASSUME NEW q \in Office!Query,
           \A t \in Office!Of(Office!KindOf(q)) : oValue'[t] = oValue[t] /\ oVersion'[t] = oVersion[t]
    PROVE  Office!Matching(q)' = Office!Matching(q) /\ Office!Truth(q)' = Office!Truth(q)
<1>1. Office!Matching(q)' = Office!Matching(q)
  BY DEF Office!Matching
<1> DEFINE R == OfficeRows(q, Office!Matching(q))
<1>2. R \subseteq Office!Of(Office!KindOf(q))
  BY OfficeListed, OfficeCounted
<1>3. /\ Office!Truth(q) =
            [rows |-> [t \in R |-> oValue[t]], version |-> [t \in R |-> oVersion[t]],
             total |-> Len(Office!NewestFirst[OfficeNumbers(Office!Matching(q))])]
  BY OfficeTruth
<1>4. Office!Truth(q)' =
            [rows |-> [t \in R |-> oValue'[t]], version |-> [t \in R |-> oVersion'[t]],
             total |-> Len(Office!NewestFirst[OfficeNumbers(Office!Matching(q))])]
  BY <1>1 DEF Office!Truth, OfficeRows, OfficeNumbers
<1> HIDE DEF R
<1>5. [t \in R |-> oValue'[t]] = [t \in R |-> oValue[t]]
      /\ [t \in R |-> oVersion'[t]] = [t \in R |-> oVersion[t]]
  BY <1>2
<1> QED
  BY <1>1, <1>3, <1>4, <1>5

-----------------------------------------------------------------------------
(* What is known of the entries, of the calls and of what they will do.     *)
OfficeEntry(e) ==
    /\ CacheEntry(e)
    /\ e.data # NoData => e.data.total \in Nat
    /\ e.flight = "answered" => e.answer.total \in Nat
OfficeCall(o) ==
    /\ DOMAIN o = {"pc", "thing", "want", "version", "from"}
    /\ o.pc \in {"idle", "sent", "ok"}
    /\ o.pc # "idle" => o.thing \in OfficeThings
OfficeRelevant(o, q) == o.pc = "ok" /\ o.thing[1] = Office!KindOf(q) /\ o.want # "password"

OfficeShape ==
    /\ DOMAIN oValue = OfficeThings /\ DOMAIN oVersion = OfficeThings /\ DOMAIN oWish = OfficeThings
    /\ oPlace \in Office!Place /\ oPage \in Office!Page /\ oSearch \in BOOLEAN
    /\ oForm \in Office!Form
    /\ DOMAIN oOp = Calls /\ \A s \in Calls : OfficeCall(oOp[s])
    /\ Office!Asked \in DOMAIN oCache
    /\ \A q \in DOMAIN oCache : q \in Office!Query /\ OfficeEntry(oCache[q])
(* A call for a thing asked for once will do what was wished last.          *)
OfficeCallsWish ==
    \A s \in Calls :
       oOp[s].pc = "sent" /\ oOp[s].want # "password" /\ oOp[s].thing \notin oUnsure =>
          /\ oOp[s].want = oWish[oOp[s].thing]
          /\ oOp[s].want = "gone" /\ oOp[s].thing[1] = "tag" => oOp[s].version = oVersion[oOp[s].thing]
OfficeWishesMet ==
    \A t \in OfficeThings \ oUnsure :
       oWish[t] # "" =>
          /\ oWish[t] # "password"
          /\ \/ oValue[t] = oWish[t]
             \/ \E s \in Calls : /\ oOp[s].pc = "sent" /\ oOp[s].thing = t /\ oOp[s].want = oWish[t]
(* The list shown is what the server has, unless it lacks a change.         *)
OfficeCurrent ==
    /\ Office!Asked \notin oMissed
    /\ \A s \in Calls : ~OfficeRelevant(oOp[s], Office!Asked)
    => Current(Office!Entry(Office!Asked), Office!Truth(Office!Asked))
(* The page of a table has rows.                                            *)
OfficePaged ==
    Office!InTable /\ ~oStrayed =>
       oPage = 1 \/ (oPage - 1) * OfficeTableSize < Cardinality(Office!Matching(Office!Asked))
OfficeInv ==
    OfficeShape /\ OfficeCallsWish /\ OfficeWishesMet /\ OfficeCurrent /\ OfficePaged

LEMMA OfficeEvolves ==
    ASSUME NEW e, NEW f, NEW truth, OfficeEntry(e), Evolves(e, f, truth), truth.total \in Nat
    PROVE  OfficeEntry(f)
<1> DEFINE these == {x \in {e.data, e.answer, truth} : x.total \in Nat}
<1>1. CacheEntry(e) /\ HoldsOf(e, these) /\ truth \in these
  BY DEF OfficeEntry, HoldsOf
<1>2. \A x \in these : x.total \in Nat
  OBVIOUS
<1> HIDE DEF these
<1>3. CacheEntry(f) /\ HoldsOf(f, these)
  BY <1>1, EntryEvolves
<1> QED
  BY <1>2, <1>3 DEF OfficeEntry, HoldsOf

LEMMA OfficeAsked ==
    ASSUME OfficeShape
    PROVE  /\ Office!Asked = Office!Lists(oPlace, oPage, oSearch) /\ Office!Asked \in Office!Query
           /\ Office!Entry(Office!Asked) = oCache[Office!Asked]
           /\ Office!Truth(Office!Asked).total \in Nat
<1>1. Office!Asked = Office!Lists(oPlace, oPage, oSearch) /\ Office!Asked \in Office!Query
  BY OfficeQueries DEF OfficeShape, Office!Asked
<1>2. Office!Truth(Office!Asked).total \in Nat
  BY <1>1, OfficeListed, OfficeCounted
<1> QED
  BY <1>1, <1>2 DEF OfficeShape, Office!Entry

LEMMA OfficeBegins == Office!Init => OfficeInv
<1> SUFFICES ASSUME Office!Init PROVE OfficeInv
  OBVIOUS
<1>0. /\ oPlace = Office!Begins(oDuty) /\ oPage = 1 /\ oSearch = FALSE
      /\ oCache = [q \in {Office!Lists(Office!Begins(oDuty), 1, FALSE)} |-> Observed(Empty)]
      /\ oOp = [s \in Calls |-> Office!NoOp]
      /\ oWish = [t \in OfficeThings |-> ""] /\ oUnsure = {} /\ oMissed = {}
      /\ oVersion = [t \in OfficeThings |-> 0] /\ DOMAIN oValue = OfficeThings
      /\ oForm = Office!Blank
  BY OfficeCache DEF Office!Init
<1>1. Office!Begins(oDuty) \in Office!Place
  BY DEF Office!Begins, Office!Place, Office!Web, Office!Tabs
<1>2. Office!Blank \in Office!Form
  BY OfficeAssumption DEF Office!Blank, Office!Form
<1>3. Office!Asked = Office!Lists(Office!Begins(oDuty), 1, FALSE)
      /\ Office!Asked \in Office!Query /\ oCache = [q \in {Office!Asked} |-> Observed(Empty)]
  BY <1>0, <1>1, OfficeQueries DEF Office!Asked
<1>4. OfficeEntry(Observed(Empty)) /\ \A truth : Current(Observed(Empty), truth)
  BY DEF OfficeEntry, CacheEntry, Observed, Empty, Current
<1>5. \A s \in Calls : OfficeCall(oOp[s]) /\ oOp[s].pc = "idle"
  BY <1>0 DEF OfficeCall, Office!NoOp
<1>6. OfficeShape
  <2>1. oPage \in Office!Page
    BY <1>0, OfficeQueries
  <2> QED
    BY <1>0, <1>1, <1>2, <1>3, <1>4, <1>5, <2>1 DEF OfficeShape
<1>7. OfficeCallsWish /\ OfficeWishesMet
  BY <1>0, <1>5 DEF OfficeCallsWish, OfficeWishesMet
<1>8. OfficeCurrent
  BY <1>3, <1>4, <1>6, OfficeAsked DEF OfficeCurrent
<1>9. OfficePaged
  BY <1>0 DEF OfficePaged
<1> QED
  BY <1>6, <1>7, <1>8, <1>9 DEF OfficeInv

(* Calls that differ in nothing that matters keep the wishes.               *)
LEMMA OfficeSteady ==
    ASSUME OfficeInv, oForm' \in Office!Form,
           UNCHANGED <<oValue, oVersion, oPlace, oPage, oSearch, oCache, oOp, oWish, oUnsure,
                       oMissed, oStrayed>>
    PROVE  OfficeInv'
<1>1. /\ Office!Asked' = Office!Asked /\ \A q : Office!Entry(q)' = Office!Entry(q)
      /\ \A q : Office!Matching(q)' = Office!Matching(q)
      /\ Office!InTable' = Office!InTable
  BY DEF Office!Asked, Office!Lists, Office!Entry, Office!Matching, Office!InTable
<1>2. \A q : Office!Truth(q)' = Office!Truth(q)
  BY DEF Office!Truth, Office!Matching
<1>3. OfficeShape'
  BY <1>1 DEF OfficeInv, OfficeShape
<1>4. OfficeCallsWish' /\ OfficeWishesMet'
  BY DEF OfficeInv, OfficeCallsWish, OfficeWishesMet
<1>5. OfficeCurrent'
  <2>1. Office!Entry(Office!Asked)' = Office!Entry(Office!Asked)
        /\ Office!Truth(Office!Asked)' = Office!Truth(Office!Asked)
    BY DEF Office!Entry, Office!Asked, Office!Truth, Office!Matching, Office!Lists
  <2> QED
    BY <1>1, <2>1 DEF OfficeInv, OfficeCurrent, OfficeRelevant
<1>6. OfficePaged'
  <2>1. Office!Matching(Office!Asked)' = Office!Matching(Office!Asked)
    BY DEF Office!Matching, Office!Asked, Office!Lists
  <2> QED
    BY <1>1, <2>1 DEF OfficeInv, OfficePaged
<1> QED
  BY <1>3, <1>4, <1>5, <1>6 DEF OfficeInv

-----------------------------------------------------------------------------
(* The steps of the wishes.                                                 *)
OfficeAlike ==
    /\ DOMAIN oOp' = Calls
    /\ \A s \in Calls : /\ OfficeCall(oOp'[s])
                        /\ oOp'[s].pc = oOp[s].pc /\ oOp'[s].thing = oOp[s].thing
                        /\ oOp'[s].want = oOp[s].want /\ oOp'[s].version = oOp[s].version

LEMMA OfficeWishesStay ==
    ASSUME OfficeInv, OfficeAlike, UNCHANGED <<oValue, oVersion, oWish, oUnsure>>
    PROVE  OfficeCallsWish' /\ OfficeWishesMet'
<1>1. OfficeCallsWish'
  BY DEF OfficeInv, OfficeCallsWish, OfficeAlike
<1>2. OfficeWishesMet'
  <2> SUFFICES ASSUME NEW t \in OfficeThings \ oUnsure', oWish'[t] # ""
               PROVE  /\ oWish'[t] # "password"
                      /\ \/ oValue'[t] = oWish'[t]
                         \/ \E c \in Calls : /\ oOp'[c].pc = "sent" /\ oOp'[c].thing = t
                                             /\ oOp'[c].want = oWish'[t]
    BY DEF OfficeWishesMet
  <2>1. oWish[t] # "password" /\ (oValue[t] = oWish[t] \/ \E c \in Calls :
            oOp[c].pc = "sent" /\ oOp[c].thing = t /\ oOp[c].want = oWish[t])
    BY DEF OfficeInv, OfficeWishesMet
  <2> QED
    BY <2>1 DEF OfficeAlike
<1> QED
  BY <1>1, <1>2

(* A call that is answered, or whose answer is lost, was not under way.     *)
LEMMA OfficeWishesEnd ==
    ASSUME OfficeInv, NEW s \in Calls, oOp[s].pc = "ok", oOp' = [oOp EXCEPT ![s] = Office!NoOp],
           UNCHANGED <<oValue, oVersion, oWish, oUnsure>>
    PROVE  /\ OfficeCallsWish' /\ OfficeWishesMet'
           /\ DOMAIN oOp' = Calls /\ \A c \in Calls : OfficeCall(oOp'[c])
           /\ \A c \in Calls : IF c = s THEN oOp'[c].pc = "idle" ELSE oOp'[c] = oOp[c]
<1>1. /\ DOMAIN oOp' = Calls
      /\ \A c \in Calls : IF c = s THEN oOp'[c] = Office!NoOp ELSE oOp'[c] = oOp[c]
  BY DEF OfficeInv, OfficeShape
<1>2. OfficeCall(Office!NoOp) /\ Office!NoOp.pc = "idle"
  BY DEF OfficeCall, Office!NoOp
<1>3. OfficeCallsWish'
  BY <1>1, <1>2 DEF OfficeInv, OfficeCallsWish
<1>4. OfficeWishesMet'
  <2> SUFFICES ASSUME NEW t \in OfficeThings \ oUnsure', oWish'[t] # ""
               PROVE  /\ oWish'[t] # "password"
                      /\ \/ oValue'[t] = oWish'[t]
                         \/ \E c \in Calls : /\ oOp'[c].pc = "sent" /\ oOp'[c].thing = t
                                             /\ oOp'[c].want = oWish'[t]
    BY DEF OfficeWishesMet
  <2>1. oWish[t] # "password" /\ (oValue[t] = oWish[t] \/ \E c \in Calls :
            oOp[c].pc = "sent" /\ oOp[c].thing = t /\ oOp[c].want = oWish[t])
    BY DEF OfficeInv, OfficeWishesMet
  <2>2. \A c \in Calls : oOp[c].pc = "sent" => oOp'[c] = oOp[c]
    BY <1>1
  <2> QED
    BY <2>1, <2>2
<1>5. \A c \in Calls : OfficeCall(oOp'[c])
  BY <1>1, <1>2 DEF OfficeInv, OfficeShape
<1> QED
  BY <1>1, <1>2, <1>3, <1>4, <1>5

(* Another list comes into view.                                            *)
LEMMA OfficeOpens ==
    ASSUME OfficeInv, NEW p \in Office!Place, NEW n \in Office!Page, NEW b \in BOOLEAN,
           oPlace' = p, oPage' = n, oSearch' = b, oForm' \in Office!Form,
           Office!Open(Office!Lists(p, n, b)), OfficeAlike,
           UNCHANGED <<oValue, oVersion, oWish, oUnsure>>,
           p \in {"users", "images"} /\ ~oStrayed' =>
              n = 1 \/ (n - 1) * OfficeTableSize
                          < Cardinality(Office!Matching(Office!Lists(p, n, b)))
    PROVE  OfficeInv'
<1> DEFINE q == Office!Lists(p, n, b)
           a == Office!Asked
<1>1. q \in Office!Query /\ a \in Office!Query /\ a \in DOMAIN oCache
      /\ Office!Asked' = q
  <2>1. Office!Asked' = q
    BY DEF Office!Asked, Office!Lists
  <2> QED
    BY <2>1, OfficeAsked, OfficeQueries DEF OfficeInv, OfficeShape
<1>2. /\ oCache' = [x \in {q, a} |-> IF x = q THEN Observed(Office!Entry(q)) ELSE Office!Entry(x)]
      /\ oMissed' = IF Aged(Office!Entry(q)) THEN {q} ELSE {}
  BY OfficeCache DEF Office!Open
<1>3. \A x : OfficeEntry(Office!Entry(x))
  BY OfficeCache DEF OfficeInv, OfficeShape, Office!Entry, OfficeEntry, CacheEntry, Empty
<1>4. Office!Truth(q).total \in Nat
  BY <1>1, OfficeListed, OfficeCounted
<1> HIDE DEF q, a
<1>5. OfficeEntry(Observed(Office!Entry(q)))
  <2>1. Evolves(Office!Entry(q), Observed(Office!Entry(q)), Office!Truth(q))
    BY DEF Evolves
  <2> QED
    BY <1>3, <1>4, <2>1, OfficeEvolves
<1>6. OfficeShape'
  <2>1. DOMAIN oOp' = Calls /\ \A s \in Calls : OfficeCall(oOp'[s])
    BY DEF OfficeAlike
  <2>2. Office!Asked' \in DOMAIN oCache'
        /\ \A x \in DOMAIN oCache' : x \in Office!Query /\ OfficeEntry(oCache'[x])
    BY <1>1, <1>2, <1>3, <1>5
  <2>3. /\ DOMAIN oValue' = OfficeThings /\ DOMAIN oVersion' = OfficeThings
        /\ DOMAIN oWish' = OfficeThings
    BY DEF OfficeInv, OfficeShape
  <2> QED
    BY <2>1, <2>2, <2>3 DEF OfficeShape
<1>7. OfficeCallsWish' /\ OfficeWishesMet'
  BY OfficeWishesStay
<1>8. OfficeCurrent'
  <2> SUFFICES ASSUME q \notin oMissed'
               PROVE  Current(Office!Entry(Office!Asked)', Office!Truth(Office!Asked)')
    BY <1>1 DEF OfficeCurrent
  <2>1. Office!Entry(Office!Asked)' = oCache'[q] /\ oCache'[q] = Observed(Office!Entry(q))
    BY <1>1, <1>2 DEF Office!Entry
  <2>2. CacheEntry(Office!Entry(q)) /\ Office!Entry(q).flight # "answered"
    BY <1>2, <1>3 DEF OfficeEntry, Aged
  <2> QED
    BY <2>1, <2>2, AskedAgain
<1>9. OfficePaged'
  <2>1. Office!InTable' <=> p \in {"users", "images"}
    BY DEF Office!InTable
  <2>2. Office!Matching(Office!Asked)' = Office!Matching(q)
    BY <1>1 DEF Office!Matching
  <2> QED
    BY <2>1, <2>2 DEF OfficePaged, q
<1> QED
  BY <1>6, <1>7, <1>8, <1>9 DEF OfficeInv

(* The administrator asks for a change.                                     *)
LEMMA OfficeAsksFor ==
    ASSUME OfficeInv, NEW s \in Calls, NEW t \in OfficeThings, NEW want, NEW ver, NEW from,
           Office!Free(s), Office!Ask(s, t, want, want, ver, from), want # "password"
    PROVE  OfficeInv'
<1>0. /\ oOp[s].pc = "idle"
      /\ oOp' = [oOp EXCEPT ![s] = [pc |-> "sent", thing |-> t, want |-> want,
                                    version |-> ver, from |-> from]]
      /\ oWish' = [oWish EXCEPT ![t] = want]
      /\ oUnsure' = IF Office!Pending(t) \/ (want = "gone" /\ ver # oVersion[t])
                    THEN oUnsure \cup {t} ELSE oUnsure \ {t}
      /\ UNCHANGED <<oValue, oVersion, oPlace, oPage, oSearch, oForm, oPalette, oCache,
                     oMissed, oStrayed>>
  BY DEF Office!Ask, Office!Free, Office!server, Office!local, Office!Gone
<1>1. /\ DOMAIN oOp = Calls /\ DOMAIN oWish = OfficeThings
      /\ \A c \in Calls : OfficeCall(oOp[c])
  BY DEF OfficeInv, OfficeShape
<1>2. /\ DOMAIN oOp' = Calls /\ DOMAIN oWish' = OfficeThings
      /\ oOp'[s] = [pc |-> "sent", thing |-> t, want |-> want, version |-> ver, from |-> from]
      /\ oWish'[t] = want
      /\ \A c \in Calls : c # s => oOp'[c] = oOp[c]
      /\ \A x \in OfficeThings : x # t => oWish'[x] = oWish[x]
  BY <1>0, <1>1
<1>3. Office!Pending(t) <=> \E c \in Calls : oOp[c].pc = "sent" /\ oOp[c].thing = t
  BY DEF Office!Pending
<1>4. OfficeCall(oOp'[s])
  BY <1>2 DEF OfficeCall
<1>5. \A c \in Calls : OfficeCall(oOp'[c])
  BY <1>1, <1>2, <1>4
<1>6. OfficeShape'
  <2>1. Office!Asked' = Office!Asked
    BY <1>0 DEF Office!Asked, Office!Lists
  <2> QED
    BY <1>0, <1>2, <1>5, <2>1 DEF OfficeInv, OfficeShape
<1>7. OfficeCallsWish'
  <2> SUFFICES ASSUME NEW c \in Calls, oOp'[c].pc = "sent", oOp'[c].want # "password",
                      oOp'[c].thing \notin oUnsure'
               PROVE  /\ oOp'[c].want = oWish'[oOp'[c].thing]
                      /\ oOp'[c].want = "gone" /\ oOp'[c].thing[1] = "tag" =>
                            oOp'[c].version = oVersion'[oOp'[c].thing]
    BY DEF OfficeCallsWish
  <2>1. CASE c = s
    <3>1. oOp'[c].thing = t /\ oOp'[c].want = want /\ oOp'[c].version = ver
      BY <1>2, <2>1
    <3>2. ~(want = "gone" /\ ver # oVersion[t])
      BY <1>0, <3>1
    <3> QED
      BY <1>0, <1>2, <3>1, <3>2
  <2>2. CASE c # s
    <3>1. oOp'[c] = oOp[c]
      BY <1>2, <2>2
    <3>2. oOp[c].thing # t
      BY <1>0, <1>3, <3>1
    <3>3. oOp[c].thing \in OfficeThings
      BY <1>1, <3>1 DEF OfficeCall
    <3>4. oOp[c].thing \notin oUnsure
      BY <1>0, <3>1, <3>2
    <3>5. oWish'[oOp[c].thing] = oWish[oOp[c].thing]
      BY <1>2, <3>2, <3>3
    <3> QED
      BY <1>0, <3>1, <3>4, <3>5 DEF OfficeInv, OfficeCallsWish
  <2> QED
    BY <2>1, <2>2
<1>8. OfficeWishesMet'
  <2> SUFFICES ASSUME NEW x \in OfficeThings \ oUnsure', oWish'[x] # ""
               PROVE  /\ oWish'[x] # "password"
                      /\ \/ oValue'[x] = oWish'[x]
                         \/ \E c \in Calls : /\ oOp'[c].pc = "sent" /\ oOp'[c].thing = x
                                             /\ oOp'[c].want = oWish'[x]
    BY DEF OfficeWishesMet
  <2>1. CASE x = t
    <3>1. oOp'[s].pc = "sent" /\ oOp'[s].thing = t /\ oOp'[s].want = want
      <4> DEFINE o == [pc |-> "sent", thing |-> t, want |-> want, version |-> ver, from |-> from]
      <4>1. o.pc = "sent" /\ o.thing = t /\ o.want = want
        OBVIOUS
      <4>2. oOp'[s] = o
        BY <1>2
      <4> HIDE DEF o
      <4> QED
        BY <4>1, <4>2
    <3>2. oWish'[x] = want
      BY <1>2, <2>1
    <3> QED
      BY <2>1, <3>1, <3>2
  <2>2. CASE x # t
    <3>1. oWish'[x] = oWish[x] /\ x \notin oUnsure
      BY <1>0, <1>2, <2>2
    <3>2. oWish[x] # "password" /\ (oValue[x] = oWish[x] \/ \E c \in Calls :
              oOp[c].pc = "sent" /\ oOp[c].thing = x /\ oOp[c].want = oWish[x])
      BY <3>1 DEF OfficeInv, OfficeWishesMet
    <3>3. \A c \in Calls : oOp[c].pc = "sent" => oOp'[c] = oOp[c]
      BY <1>0, <1>2
    <3> QED
      BY <1>0, <3>1, <3>2, <3>3
  <2> QED
    BY <2>1, <2>2
<1>9. OfficeCurrent'
  <2>1. Office!Entry(Office!Asked)' = Office!Entry(Office!Asked)
        /\ Office!Truth(Office!Asked)' = Office!Truth(Office!Asked)
        /\ Office!Asked' = Office!Asked
    BY <1>0 DEF Office!Entry, Office!Asked, Office!Truth, Office!Matching, Office!Lists
  <2>2. \A c \in Calls : OfficeRelevant(oOp[c], Office!Asked) => OfficeRelevant(oOp'[c], Office!Asked)
    <3> TAKE c \in Calls
    <3>1. oOp[c].pc = "ok" => oOp'[c] = oOp[c]
      BY <1>0, <1>2
    <3> QED
      BY <3>1 DEF OfficeRelevant
  <2> QED
    BY <1>0, <2>1, <2>2 DEF OfficeInv, OfficeCurrent
<1>10. OfficePaged'
  <2>1. Office!Matching(Office!Asked)' = Office!Matching(Office!Asked) /\ Office!InTable' = Office!InTable
    BY <1>0 DEF Office!Matching, Office!Asked, Office!Lists, Office!InTable
  <2> QED
    BY <1>0, <2>1 DEF OfficeInv, OfficePaged
<1> QED
  BY <1>6, <1>7, <1>8, <1>9, <1>10 DEF OfficeInv

-----------------------------------------------------------------------------
(* The server works on a call.                                              *)
LEMMA OfficeWorks ==
    ASSUME OfficeInv, NEW s \in Calls, Office!Work(s)
    PROVE  OfficeInv'
<1> DEFINE o == oOp[s]
           t == o.thing
           want == o.want
           stale == want = "gone" /\ t[1] = "tag" /\ o.version # oVersion[t]
<1>0. /\ o.pc = "sent" /\ t \in OfficeThings /\ DOMAIN oOp = Calls
      /\ \A c \in Calls : OfficeCall(oOp[c])
      /\ DOMAIN oValue = OfficeThings /\ DOMAIN oVersion = OfficeThings
  BY DEF OfficeInv, OfficeShape, OfficeCall, Office!Work
<1>1. /\ oOp' = [oOp EXCEPT ![s] = [oOp[s] EXCEPT !.pc = "ok"]]
      /\ UNCHANGED <<oPlace, oPage, oSearch, oForm, oPalette, oCache, oWish, oUnsure, oMissed>>
  BY DEF Office!Work, Office!local
<1>2. /\ DOMAIN oOp' = Calls /\ \A c \in Calls : c # s => oOp'[c] = oOp[c]
      /\ DOMAIN oOp'[s] = DOMAIN o /\ oOp'[s].pc = "ok" /\ oOp'[s].thing = t /\ oOp'[s].want = want
      /\ \A c \in Calls : OfficeCall(oOp'[c])
  <2>1. DOMAIN oOp' = Calls /\ (\A c \in Calls : c # s => oOp'[c] = oOp[c])
        /\ oOp'[s] = [oOp[s] EXCEPT !.pc = "ok"]
    BY <1>0, <1>1
  <2>2. DOMAIN oOp'[s] = DOMAIN o /\ oOp'[s].pc = "ok" /\ oOp'[s].thing = t /\ oOp'[s].want = want
    BY <1>0, <2>1 DEF OfficeCall
  <2>3. OfficeCall(oOp'[s])
    BY <1>0, <2>2 DEF OfficeCall
  <2> QED
    BY <1>0, <2>1, <2>2, <2>3
<1>3. /\ DOMAIN oValue' = OfficeThings /\ DOMAIN oVersion' = OfficeThings
      /\ \A x \in OfficeThings : x # t => oValue'[x] = oValue[x] /\ oVersion'[x] = oVersion[x]
      /\ want = "password" \/ stale => UNCHANGED <<oValue, oVersion>>
      /\ ~(want = "password" \/ stale) =>
            /\ oValue'[t] = want
            /\ oVersion'[t] = oVersion[t] \/ want # "gone"
  <2>1. CASE want = "password" \/ stale
    <3>1. UNCHANGED <<oValue, oVersion>>
      BY <2>1 DEF Office!Work, Office!server, Office!Gone
    <3> QED
      BY <1>0, <2>1, <3>1
  <2>2. CASE ~(want = "password" \/ stale)
    <3>1. /\ oValue' = [oValue EXCEPT ![t] = want]
          /\ oVersion' = [oVersion EXCEPT ![t] = IF t[1] = "tag" /\ oValue[t] = "gone" /\ want # "gone"
                                                 THEN @ + 1 ELSE @]
      BY <2>2 DEF Office!Work, Office!Gone
    <3> QED
      BY <1>0, <2>2, <3>1
  <2> QED
    BY <2>1, <2>2
<1>4. Office!Asked' = Office!Asked /\ Office!Asked \in Office!Query
      /\ Office!Entry(Office!Asked)' = Office!Entry(Office!Asked)
  <2>1. Office!Asked' = Office!Asked
    BY <1>1 DEF Office!Asked, Office!Lists
  <2>2. Office!Entry(Office!Asked)' = Office!Entry(Office!Asked)
    BY <1>1, <2>1 DEF Office!Entry
  <2> QED
    BY <2>1, <2>2, OfficeAsked DEF OfficeInv
<1>5. /\ oOp[s].want # "password" /\ t \notin oUnsure => want = oWish[t] /\ ~stale
      /\ oStrayed' <=> (oStrayed \/ (want = "gone" /\ oValue[t] # "gone"))
  <2>1. oOp[s].want # "password" /\ t \notin oUnsure => want = oWish[t] /\ ~stale
    BY <1>0 DEF OfficeInv, OfficeCallsWish
  <2> QED
    BY <2>1 DEF Office!Work, Office!Gone
<1> HIDE DEF stale
<1>6. OfficeShape'
  BY <1>1, <1>2, <1>3, <1>4 DEF OfficeInv, OfficeShape
<1>7. OfficeCallsWish'
  <2> SUFFICES ASSUME NEW c \in Calls, oOp'[c].pc = "sent", oOp'[c].want # "password",
                      oOp'[c].thing \notin oUnsure'
               PROVE  /\ oOp'[c].want = oWish'[oOp'[c].thing]
                      /\ oOp'[c].want = "gone" /\ oOp'[c].thing[1] = "tag" =>
                            oOp'[c].version = oVersion'[oOp'[c].thing]
    BY DEF OfficeCallsWish
  <2>1. c # s /\ oOp'[c] = oOp[c]
    BY <1>2
  <2> DEFINE u == oOp[c].thing
  <2>2. u \in OfficeThings /\ oOp[c].want = oWish[u]
        /\ (oOp[c].want = "gone" /\ u[1] = "tag" => oOp[c].version = oVersion[u])
    BY <1>0, <1>1, <2>1 DEF OfficeInv, OfficeCallsWish, OfficeCall
  <2>3. ASSUME oOp[c].want = "gone" PROVE oVersion'[u] = oVersion[u]
    <3>1. CASE u # t
      BY <1>3, <2>2, <3>1
    <3>2. CASE want = "password" \/ stale
      BY <1>3, <3>2
    <3>3. CASE u = t /\ ~(want = "password" \/ stale)
      <4>1. t \notin oUnsure
        BY <1>1, <2>1, <3>3
      <4>2. want = oWish[t]
        BY <1>5, <3>3, <4>1
      <4>3. want = "gone"
        BY <2>2, <2>3, <3>3, <4>2
      <4> QED
        BY <1>3, <3>3, <4>3
    <3> QED
      BY <3>1, <3>2, <3>3
  <2> QED
    BY <1>1, <2>1, <2>2, <2>3
<1>8. OfficeWishesMet'
  <2> SUFFICES ASSUME NEW x \in OfficeThings \ oUnsure', oWish'[x] # ""
               PROVE  /\ oWish'[x] # "password"
                      /\ \/ oValue'[x] = oWish'[x]
                         \/ \E c \in Calls : /\ oOp'[c].pc = "sent" /\ oOp'[c].thing = x
                                             /\ oOp'[c].want = oWish'[x]
    BY DEF OfficeWishesMet
  <2>1. oWish[x] # "password" /\ (oValue[x] = oWish[x] \/ \E c \in Calls :
            oOp[c].pc = "sent" /\ oOp[c].thing = x /\ oOp[c].want = oWish[x])
    BY <1>1 DEF OfficeInv, OfficeWishesMet
  <2>2. CASE x = t /\ ~(want = "password" \/ stale)
    <3>1. want = oWish[t]
      BY <1>1, <1>5, <2>2
    <3> QED
      BY <1>1, <1>3, <2>1, <2>2, <3>1
  <2>3. CASE x # t \/ want = "password" \/ stale
    <3>1. oValue'[x] = oValue[x]
      BY <1>3, <2>3
    <3>2. ASSUME NEW c \in Calls, oOp[c].pc = "sent", oOp[c].thing = x, oOp[c].want = oWish[x]
          PROVE  oOp'[c].pc = "sent" /\ oOp'[c].thing = x /\ oOp'[c].want = oWish[x]
      <4>1. c # s
        <5>1. CASE x # t
          BY <3>2, <5>1
        <5>2. CASE x = t /\ (want = "password" \/ stale)
          <6>1. c = s => want # "password" /\ x \notin oUnsure
            BY <1>1, <2>1, <3>2
          <6> QED
            BY <1>5, <5>2, <6>1
        <5> QED
          BY <2>3, <5>1, <5>2
      <4> QED
        BY <1>2, <3>2, <4>1
    <3> QED
      BY <1>1, <2>1, <3>1, <3>2
  <2> QED
    BY <2>2, <2>3
<1>9. OfficeCurrent'
  <2> SUFFICES ASSUME Office!Asked \notin oMissed',
                      \A c \in Calls : ~OfficeRelevant(oOp'[c], Office!Asked)
               PROVE  Current(Office!Entry(Office!Asked), Office!Truth(Office!Asked)')
    BY <1>4 DEF OfficeCurrent, OfficeRelevant
  <2>1. \A c \in Calls : ~OfficeRelevant(oOp[c], Office!Asked)
    BY <1>0, <1>2 DEF OfficeRelevant
  <2>2. t[1] # Office!KindOf(Office!Asked) \/ want = "password"
    BY <1>2 DEF OfficeRelevant
  <2>3. Office!Truth(Office!Asked)' = Office!Truth(Office!Asked)
    <3>1. \A x \in Office!Of(Office!KindOf(Office!Asked)) :
             oValue'[x] = oValue[x] /\ oVersion'[x] = oVersion[x]
      BY <1>3, <2>2 DEF Office!Of
    <3>2. PICK q \in Office!Query : q = Office!Asked
      BY <1>4
    <3>3. Office!Asked' = q
      BY <1>4, <3>2
    <3>4. Office!Truth(q)' = Office!Truth(q)
      BY <3>1, <3>2, OfficeSame
    <3>5. Office!Truth(Office!Asked)' = Office!Truth(q)'
      BY <3>3, SMTT(60) DEF Office!Truth, Office!Matching, Office!KindOf
    <3> QED
      BY <3>2, <3>4, <3>5
  <2> QED
    BY <1>1, <2>1, <2>3 DEF OfficeInv, OfficeCurrent
<1>10. OfficePaged'
  <2> SUFFICES ASSUME Office!InTable, ~oStrayed'
               PROVE  oPage = 1 \/ (oPage - 1) * OfficeTableSize
                                      < Cardinality(Office!Matching(Office!Asked)')
    BY <1>1 DEF OfficePaged, Office!InTable
  <2>1. PICK q \in Office!Query : q = Office!Asked /\ q = Office!Asked'
    BY <1>4
  <2>2. Office!Matching(Office!Asked)' = Office!Matching(q)'
    BY <2>1 DEF Office!Matching
  <2>3. ASSUME NEW x \in Office!Matching(q) PROVE x \in Office!Matching(q)'
    <3>1. x \in OfficeThings /\ oValue[x] # "gone" /\ x \in Office!Of(Office!KindOf(q))
          /\ (q.search => x \in OfficeFound)
      BY <2>3 DEF Office!Matching, Office!Of, Office!Gone
    <3>2. oValue'[x] # "gone"
      BY <1>3, <1>5, <3>1
    <3> QED
      BY <3>1, <3>2 DEF Office!Matching, Office!Gone
  <2>4. Office!Matching(q)' \subseteq OfficeThings
    BY DEF Office!Matching, Office!Of
  <2>5. IsFiniteSet(Office!Matching(q)')
    BY <2>4, OfficeAssumption, FS_Subset
  <2>6. Cardinality(Office!Matching(q)) <= Cardinality(Office!Matching(q)')
    BY <2>3, <2>5, FS_Subset
  <2>7. Cardinality(Office!Matching(q)) \in Nat /\ Cardinality(Office!Matching(q)') \in Nat
    BY <2>5, OfficeCounted, FS_CardinalityType
  <2>8. oPage = 1 \/ (oPage - 1) * OfficeTableSize < Cardinality(Office!Matching(q))
    BY <1>5, <2>1 DEF OfficeInv, OfficePaged
  <2>9. oPage \in Nat /\ OfficeTableSize \in Nat
    BY OfficeQueries, OfficeAssumption DEF OfficeInv, OfficeShape
  <2>10. (oPage - 1) * OfficeTableSize \in Int
    BY <2>9
  <2> QED
    BY <2>2, <2>6, <2>7, <2>8, <2>10
<1> QED
  BY <1>6, <1>7, <1>8, <1>9, <1>10 DEF OfficeInv

-----------------------------------------------------------------------------
LEMMA OfficeStill ==
    ASSUME UNCHANGED <<oValue, oVersion, oPlace, oPage, oSearch>>
    PROVE  /\ Office!Asked' = Office!Asked /\ Office!InTable' = Office!InTable
           /\ Office!Matching(Office!Asked)' = Office!Matching(Office!Asked)
           /\ Office!Truth(Office!Asked)' = Office!Truth(Office!Asked)
<1>1. Office!Asked' = Office!Asked /\ Office!InTable' = Office!InTable
  BY DEF Office!Asked, Office!Lists, Office!InTable
<1>2. Office!Matching(Office!Asked)' = Office!Matching(Office!Asked)
  BY DEF Office!Asked, Office!Lists, Office!Matching
<1>3. Office!Truth(Office!Asked)' = Office!Truth(Office!Asked)
  BY DEF Office!Asked, Office!Lists, Office!Matching, Office!Truth
<1> QED
  BY <1>1, <1>2, <1>3

(* The calls of the lists: nothing else moves.                              *)
LEMMA OfficeListsMove ==
    ASSUME OfficeInv,
           oOp' = oOp \/ \E s \in Calls :
                            oOp[s].pc = "ok" /\ oOp' = [oOp EXCEPT ![s] = Office!NoOp],
           oForm' \in Office!Form,
           UNCHANGED <<oValue, oVersion, oPlace, oPage, oSearch, oWish, oUnsure, oStrayed>>,
           DOMAIN oCache' = DOMAIN oCache,
           \A q \in DOMAIN oCache : OfficeEntry(oCache'[q]),
           /\ Office!Asked \notin oMissed'
           /\ \A c \in Calls : ~OfficeRelevant(oOp'[c], Office!Asked)
           => Current(oCache'[Office!Asked], Office!Truth(Office!Asked))
    PROVE  OfficeInv'
<1>0. /\ Office!Asked' = Office!Asked /\ Office!InTable' = Office!InTable
      /\ Office!Matching(Office!Asked)' = Office!Matching(Office!Asked)
      /\ Office!Truth(Office!Asked)' = Office!Truth(Office!Asked)
  BY OfficeStill
<1>1. /\ OfficeCallsWish' /\ OfficeWishesMet'
      /\ DOMAIN oOp' = Calls /\ \A c \in Calls : OfficeCall(oOp'[c])
  <2>1. CASE oOp' = oOp
    <3>1. OfficeAlike
      BY <2>1 DEF OfficeAlike, OfficeInv, OfficeShape
    <3> QED
      BY <3>1, OfficeWishesStay DEF OfficeAlike
  <2>2. CASE \E s \in Calls : oOp[s].pc = "ok" /\ oOp' = [oOp EXCEPT ![s] = Office!NoOp]
    BY <2>2, OfficeWishesEnd
  <2> QED
    BY <2>1, <2>2
<1>2. OfficeShape'
  BY <1>0, <1>1 DEF OfficeInv, OfficeShape
<1>3. OfficeCurrent'
  <2>1. Office!Asked \in DOMAIN oCache'
    BY DEF OfficeInv, OfficeShape
  <2>2. Office!Entry(Office!Asked)' = oCache'[Office!Asked]
    BY <1>0, <2>1 DEF Office!Entry
  <2> QED
    BY <1>0, <2>2 DEF OfficeCurrent, OfficeRelevant
<1>4. OfficePaged'
  BY <1>0 DEF OfficeInv, OfficePaged
<1> QED
  BY <1>1, <1>2, <1>3, <1>4 DEF OfficeInv

LEMMA OfficeFetches ==
    ASSUME OfficeInv, NEW q \in DOMAIN oCache,
           Office!Serve(q) \/ Office!Land(q) \/ Office!FetchFails(q)
    PROVE  OfficeInv'
<1> DEFINE a == Office!Asked
           f == oCache'[q]
<1>0. /\ a \in DOMAIN oCache /\ \A x \in DOMAIN oCache : x \in Office!Query /\ OfficeEntry(oCache[x])
      /\ oForm \in Office!Form
  BY DEF OfficeInv, OfficeShape
<1>1. /\ UNCHANGED <<oValue, oVersion, oPlace, oPage, oSearch, oForm, oOp, oWish, oUnsure, oStrayed>>
      /\ DOMAIN oCache' = DOMAIN oCache /\ \A x \in DOMAIN oCache : x # q => oCache'[x] = oCache[x]
      /\ \/ oMissed' = oMissed /\ f = Served(oCache[q], Office!Truth(q))
         \/ oMissed' = oMissed /\ f = Landed(oCache[q]) /\ oCache[q].flight = "answered"
         \/ oMissed' = oMissed \cup {q} /\ f = Failed(oCache[q])
  <2>1. CASE Office!Serve(q)
    BY <2>1, OfficeCache DEF Office!Serve, Office!server, Office!local, Office!ghost
  <2>2. CASE Office!Land(q)
    BY <2>2, OfficeCache DEF Office!Land, Office!server, Office!local, Office!ghost, Aged
  <2>3. CASE Office!FetchFails(q)
    BY <2>3, OfficeCache DEF Office!FetchFails, Office!server, Office!local
  <2> QED
    BY <2>1, <2>2, <2>3
<1>2. Evolves(oCache[q], f, Office!Truth(q))
  BY <1>1 DEF Evolves
<1>3. Office!Truth(q).total \in Nat
  BY <1>0, OfficeListed, OfficeCounted
<1>4. OfficeEntry(f)
  BY <1>0, <1>2, <1>3, OfficeEvolves
<1>5. \A x \in DOMAIN oCache : OfficeEntry(oCache'[x])
  BY <1>0, <1>1, <1>4
<1>6. ASSUME a \notin oMissed', \A c \in Calls : ~OfficeRelevant(oOp'[c], a)
      PROVE  Current(oCache'[a], Office!Truth(a))
  <2>1. Current(oCache[a], Office!Truth(a))
    BY <1>1, <1>6, OfficeAsked DEF OfficeInv, OfficeCurrent
  <2>2. CASE a # q
    BY <1>0, <1>1, <2>1, <2>2
  <2>3. CASE a = q
    <3>1. CacheEntry(oCache[a]) /\ (oCache'[a] = Served(oCache[a], Office!Truth(a))
             \/ (oCache'[a] = Landed(oCache[a]) /\ oCache[a].flight = "answered"))
      BY <1>0, <1>1, <1>6, <2>3 DEF OfficeEntry
    <3> QED
      BY <2>1, <3>1, StaysCurrent
  <2> QED
    BY <2>2, <2>3
<1> QED
  BY <1>0, <1>1, <1>5, <1>6, OfficeListsMove

LEMMA OfficeLoses ==
    ASSUME OfficeInv, NEW s \in Calls, Office!LoseAnswer(s)
    PROVE  OfficeInv'
<1>1. /\ oOp[s].pc = "ok" /\ oOp' = [oOp EXCEPT ![s] = Office!NoOp] /\ oMissed' = oMissed \cup {Office!Asked}
      /\ UNCHANGED <<oValue, oVersion, oPlace, oPage, oSearch, oForm, oCache, oWish, oUnsure, oStrayed>>
  BY DEF Office!LoseAnswer, Office!server, Office!local
<1>2. oForm' \in Office!Form /\ \A q \in DOMAIN oCache : OfficeEntry(oCache'[q])
  BY <1>1 DEF OfficeInv, OfficeShape
<1> QED
  BY <1>1, <1>2, OfficeListsMove

(* A request that fails leaves its thing unsure.                            *)
LEMMA OfficeFails ==
    ASSUME OfficeInv, NEW s \in Calls, Office!RequestFails(s)
    PROVE  OfficeInv'
<1>1. /\ oOp[s].pc = "sent" /\ oOp' = [oOp EXCEPT ![s] = Office!NoOp]
      /\ oUnsure \subseteq oUnsure' /\ (oOp[s].want # "password" => oOp[s].thing \in oUnsure')
      /\ UNCHANGED <<oValue, oVersion, oPlace, oPage, oSearch, oForm, oCache, oWish, oMissed, oStrayed>>
  BY DEF Office!RequestFails, Office!server, Office!local
<1>2. /\ DOMAIN oOp' = Calls
      /\ \A c \in Calls : IF c = s THEN oOp'[c] = Office!NoOp ELSE oOp'[c] = oOp[c]
  BY <1>1 DEF OfficeInv, OfficeShape
<1>3. OfficeCall(Office!NoOp) /\ Office!NoOp.pc = "idle"
  BY DEF OfficeCall, Office!NoOp
<1>4. OfficeShape'
  <2>1. Office!Asked' = Office!Asked
    BY <1>1, OfficeStill
  <2>2. \A c \in Calls : OfficeCall(oOp'[c])
    BY <1>2, <1>3 DEF OfficeInv, OfficeShape
  <2> QED
    BY <1>1, <1>2, <2>1, <2>2 DEF OfficeInv, OfficeShape
<1>5. OfficeCallsWish'
  BY <1>1, <1>2, <1>3 DEF OfficeInv, OfficeCallsWish
<1>6. OfficeWishesMet'
  <2> SUFFICES ASSUME NEW t \in OfficeThings \ oUnsure', oWish'[t] # ""
               PROVE  /\ oWish'[t] # "password"
                      /\ \/ oValue'[t] = oWish'[t]
                         \/ \E c \in Calls : /\ oOp'[c].pc = "sent" /\ oOp'[c].thing = t
                                             /\ oOp'[c].want = oWish'[t]
    BY DEF OfficeWishesMet
  <2>1. oWish[t] # "password" /\ (oValue[t] = oWish[t] \/ \E c \in Calls :
            oOp[c].pc = "sent" /\ oOp[c].thing = t /\ oOp[c].want = oWish[t])
    BY <1>1 DEF OfficeInv, OfficeWishesMet
  <2>2. CASE oValue[t] = oWish[t]
    BY <1>1, <2>1, <2>2
  <2>3. ASSUME NEW c \in Calls, oOp[c].pc = "sent", oOp[c].thing = t, oOp[c].want = oWish[t]
        PROVE  oOp'[c] = oOp[c]
    BY <1>1, <1>2, <2>1, <2>3
  <2> QED
    BY <1>1, <2>1, <2>2, <2>3
<1>7. OfficeCurrent' /\ OfficePaged'
  <2>1. Office!Entry(Office!Asked)' = Office!Entry(Office!Asked)
    BY <1>1, OfficeStill DEF Office!Entry
  <2>2. \A c \in Calls : OfficeRelevant(oOp[c], Office!Asked) => OfficeRelevant(oOp'[c], Office!Asked)
    BY <1>1, <1>2 DEF OfficeRelevant
  <2> QED
    BY <1>1, <2>1, <2>2, OfficeStill DEF OfficeInv, OfficeCurrent, OfficePaged, OfficeRelevant
<1> QED
  BY <1>4, <1>5, <1>6, <1>7 DEF OfficeInv

(* A success refetches the list of its page, whichever it is.               *)
LEMMA OfficeRefetches ==
    ASSUME OfficeShape, NEW o, Office!KindOf(Office!Asked) = o.thing[1], o.want # "password",
           Office!FromHere(o)
    PROVE  Office!Asked \in Office!Invalidated(o)
<1>0. /\ oPlace \in Office!Place /\ oPage \in Office!Page /\ oSearch \in BOOLEAN
      /\ Office!Asked = Office!Lists(oPlace, oPage, oSearch) /\ Office!Asked \in Office!Query
  BY OfficeAsked DEF OfficeShape
<1>1. o.from = oPlace \/ (oPlace = "tags" /\ o.from \in {"form", "left"})
  BY DEF Office!FromHere
<1>2. CASE oPlace = "dashboard"
  <2>1. Office!Asked = Office!First("recent") /\ o.from = "dashboard"
    BY <1>0, <1>1, <1>2, OfficeQueries
  <2>2. Office!Invalidated(o) = {Office!First("recent")}
    BY <2>1 DEF Office!Invalidated, Office!Tabs
  <2> QED
    BY <2>1, <2>2
<1>3. CASE oPlace \in Office!Tabs
  <2>1. Office!Asked = Office!First(oPlace) /\ o.from = oPlace
    BY <1>0, <1>1, <1>3, OfficeQueries DEF Office!Tabs
  <2>2. o.from # "dashboard"
    BY <1>3, <2>1 DEF Office!Tabs
  <2> QED
    BY <1>3, <2>1, <2>2 DEF Office!Invalidated
<1>4. CASE oPlace \in {"users", "images", "tags"}
  <2>1. Office!Asked.of = oPlace
    BY <1>0, <1>4, OfficeQueries DEF Office!First
  <2>2. o.from \notin {"dashboard"} \cup Office!Tabs /\ Office!Asked.of \notin {"recent"} \cup Office!Tabs
    BY <1>1, <1>4, <2>1 DEF Office!Tabs
  <2>3. Office!Invalidated(o) =
           {q \in Office!Query : Office!KindOf(q) = o.thing[1] /\ q.of \notin {"recent"} \cup Office!Tabs}
    BY <2>2 DEF Office!Invalidated
  <2> QED
    BY <1>0, <2>2, <2>3
<1> QED
  BY <1>0, <1>2, <1>3, <1>4 DEF Office!Place, Office!Web

LEMMA OfficeSucceeds ==
    ASSUME OfficeInv, NEW s \in Calls, Office!Succeed(s)
    PROVE  OfficeInv'
<1> DEFINE a == Office!Asked
           o == oOp[s]
           hit == a \in Office!Invalidated(o)
           lacks == Office!LacksChange(o)
<1>0. /\ a \in DOMAIN oCache /\ a \in Office!Query /\ Office!Entry(a) = oCache[a]
      /\ Office!Truth(a).total \in Nat
      /\ \A x \in DOMAIN oCache : OfficeEntry(oCache[x])
      /\ DOMAIN oOp = Calls /\ oForm \in Office!Form
  BY OfficeAsked DEF OfficeInv, OfficeShape
<1>1. /\ o.pc = "ok" /\ oOp' = [oOp EXCEPT ![s] = Office!NoOp]
      /\ oCache' = IF hit THEN [oCache EXCEPT ![a] = Renewed(oCache[a])] ELSE oCache
      /\ oMissed' = IF lacks THEN oMissed \cup {a}
                    ELSE IF hit /\ ~Loading(oCache[a]) THEN oMissed \ {a} ELSE oMissed
      /\ oForm' = IF o.from = "form" THEN [oForm EXCEPT !.name = Office!NoName, !.custom = ""] ELSE oForm
      /\ UNCHANGED <<oValue, oVersion, oPlace, oPage, oSearch, oWish, oUnsure, oStrayed>>
  BY <1>0, OfficeCache DEF Office!Succeed, Office!server
<1>2. oForm' \in Office!Form
  BY <1>0, <1>1 DEF Office!Form
<1>3. DOMAIN oCache' = DOMAIN oCache /\ oCache'[a] = (IF hit THEN Renewed(oCache[a]) ELSE oCache[a])
      /\ \A x \in DOMAIN oCache : x # a => oCache'[x] = oCache[x]
  BY <1>0, <1>1
<1>4. lacks <=> /\ Office!KindOf(a) = o.thing[1]
                /\ ~Office!FromHere(o) \/ (Loading(oCache[a]) /\ Aged(oCache[a]))
  BY <1>0, OfficeCache DEF Office!LacksChange
<1>5. OfficeRelevant(o, a) /\ ~lacks => hit /\ ~(Loading(oCache[a]) /\ Aged(oCache[a]))
  <2> SUFFICES ASSUME OfficeRelevant(o, a), ~lacks PROVE hit /\ ~(Loading(oCache[a]) /\ Aged(oCache[a]))
    OBVIOUS
  <2>1. Office!KindOf(a) = o.thing[1] /\ o.want # "password"
    BY DEF OfficeRelevant
  <2>2. Office!FromHere(o) /\ ~(Loading(oCache[a]) /\ Aged(oCache[a]))
    BY <1>4, <2>1
  <2> QED
    BY <2>1, <2>2, OfficeRefetches DEF OfficeInv
<1>6. CacheEntry(oCache[a])
  BY <1>0 DEF OfficeEntry
<1> HIDE DEF a, hit, lacks
<1>7. OfficeEntry(oCache'[a])
  <2>1. Evolves(oCache[a], oCache'[a], Office!Truth(a))
    BY <1>3 DEF Evolves
  <2> QED
    BY <1>0, <2>1, OfficeEvolves
<1>8. \A x \in DOMAIN oCache : OfficeEntry(oCache'[x])
  BY <1>0, <1>3, <1>7
<1>9. ASSUME a \notin oMissed', \A c \in Calls : ~OfficeRelevant(oOp'[c], a)
      PROVE  Current(oCache'[a], Office!Truth(a))
  <2>0. ~lacks
    BY <1>1, <1>9
  <2>1. CASE hit /\ ~(Loading(oCache[a]) /\ Aged(oCache[a]))
    BY <1>3, <1>6, <2>1, AskedAgain
  <2>2. CASE ~(hit /\ ~(Loading(oCache[a]) /\ Aged(oCache[a])))
    <3>1. ~OfficeRelevant(o, a)
      BY <1>5, <2>0, <2>2
    <3>2. \A c \in Calls : ~OfficeRelevant(oOp[c], a)
      BY <1>0, <1>1, <1>9, <3>1
    <3>3. a \notin oMissed
      BY <1>1, <1>9, <2>0, <2>2
    <3>4. Current(oCache[a], Office!Truth(a))
      BY <1>0, <3>2, <3>3 DEF a, OfficeInv, OfficeCurrent
    <3>5. oCache'[a] = oCache[a] \/ oCache'[a] = Renewed(oCache[a])
      BY <1>3
    <3> QED
      BY <1>6, <3>4, <3>5, StaysCurrent
  <2> QED
    BY <2>1, <2>2
<1> QED
  BY <1>1, <1>2, <1>3, <1>8, <1>9, OfficeListsMove DEF a

-----------------------------------------------------------------------------
(* No list shows a password.                                                *)
LEMMA OfficeResets ==
    ASSUME OfficeInv, NEW s \in Calls, NEW t \in OfficeThings, Office!ResetPassword(s, t)
    PROVE  OfficeInv'
<1> DEFINE o == [pc |-> "sent", thing |-> t, want |-> "password", version |-> 0, from |-> oPlace]
<1>0. /\ oOp[s].pc = "idle" /\ oOp' = [oOp EXCEPT ![s] = o]
      /\ UNCHANGED <<oValue, oVersion, oPlace, oPage, oSearch, oForm, oPalette, oCache,
                     oWish, oUnsure, oMissed, oStrayed>>
  BY DEF Office!ResetPassword, Office!Free, Office!server, Office!local, Office!ghost
<1>1. OfficeCall(o) /\ o.pc = "sent" /\ o.want = "password"
  BY DEF OfficeCall
<1> HIDE DEF o
<1>2. /\ DOMAIN oOp' = Calls /\ oOp'[s] = o /\ \A c \in Calls : c # s => oOp'[c] = oOp[c]
      /\ \A c \in Calls : OfficeCall(oOp'[c])
  BY <1>0, <1>1 DEF OfficeInv, OfficeShape
<1>3. OfficeShape'
  <2>1. Office!Asked' = Office!Asked
    BY <1>0, OfficeStill
  <2> QED
    BY <1>0, <1>2, <2>1 DEF OfficeInv, OfficeShape
<1>4. OfficeCallsWish'
  BY <1>0, <1>1, <1>2 DEF OfficeInv, OfficeCallsWish
<1>5. OfficeWishesMet'
  <2> SUFFICES ASSUME NEW x \in OfficeThings \ oUnsure', oWish'[x] # ""
               PROVE  /\ oWish'[x] # "password"
                      /\ \/ oValue'[x] = oWish'[x]
                         \/ \E c \in Calls : /\ oOp'[c].pc = "sent" /\ oOp'[c].thing = x
                                             /\ oOp'[c].want = oWish'[x]
    BY DEF OfficeWishesMet
  <2>1. oWish[x] # "password" /\ (oValue[x] = oWish[x] \/ \E c \in Calls :
            oOp[c].pc = "sent" /\ oOp[c].thing = x /\ oOp[c].want = oWish[x])
    BY <1>0 DEF OfficeInv, OfficeWishesMet
  <2>2. \A c \in Calls : oOp[c].pc = "sent" => oOp'[c] = oOp[c]
    BY <1>0, <1>2
  <2> QED
    BY <1>0, <2>1, <2>2
<1>6. OfficeCurrent'
  <2>1. Office!Entry(Office!Asked)' = Office!Entry(Office!Asked)
    BY <1>0 DEF Office!Entry, Office!Asked, Office!Lists
  <2>2. \A c \in Calls : OfficeRelevant(oOp[c], Office!Asked) => OfficeRelevant(oOp'[c], Office!Asked)
    BY <1>0, <1>2 DEF OfficeRelevant
  <2>3. Office!Asked' = Office!Asked /\ Office!Truth(Office!Asked)' = Office!Truth(Office!Asked)
    BY <1>0, OfficeStill
  <2> QED
    BY <1>0, <2>1, <2>2, <2>3 DEF OfficeInv, OfficeCurrent
<1>7. OfficePaged'
  BY <1>0, OfficeStill DEF OfficeInv, OfficePaged
<1> QED
  BY <1>3, <1>4, <1>5, <1>6, <1>7 DEF OfficeInv

LEMMA OfficeInvKept ==
    ASSUME OfficeInv, [Office!Next]_Office!vars
    PROVE  OfficeInv'
<1>0. /\ oPlace \in Office!Place /\ oPage \in Office!Page /\ oSearch \in BOOLEAN
      /\ oForm \in Office!Form /\ DOMAIN oOp = Calls /\ \A s \in Calls : OfficeCall(oOp[s])
      /\ Office!Asked = Office!Lists(oPlace, oPage, oSearch) /\ Office!Asked \in Office!Query
      /\ Office!Asked \in DOMAIN oCache /\ OfficeEntry(oCache[Office!Asked])
      /\ Office!Entry(Office!Asked) = oCache[Office!Asked]
      /\ 1 \in Office!Page /\ Office!Page \subseteq Nat \ {0}
  BY OfficeAsked, OfficeQueries DEF OfficeInv, OfficeShape
<1>1. oOp' = oOp => OfficeAlike
  BY <1>0 DEF OfficeAlike
<1>2. CASE UNCHANGED Office!vars
  BY <1>0, <1>2, OfficeSteady DEF Office!vars, Office!server, Office!local, Office!ghost
<1>3. ASSUME NEW p \in Office!Place, Office!Visit(p) PROVE OfficeInv'
  <2>1. /\ oPlace' = p /\ oPage' = 1 /\ oSearch' = FALSE /\ oForm' = Office!Blank
        /\ Office!Open(Office!Lists(p, 1, FALSE))
        /\ oOp' = [s \in Calls |-> [oOp[s] EXCEPT !.from = IF @ = "form" THEN "left" ELSE @]]
        /\ UNCHANGED <<oValue, oVersion, oWish, oUnsure>>
    BY <1>3 DEF Office!Visit, Office!Show, Office!server
  <2>2. oForm' \in Office!Form
    BY <2>1, OfficeAssumption DEF Office!Blank, Office!Form
  <2>3. OfficeAlike
    <3>1. ASSUME NEW s \in Calls
          PROVE  /\ OfficeCall(oOp'[s])
                 /\ oOp'[s].pc = oOp[s].pc /\ oOp'[s].thing = oOp[s].thing
                 /\ oOp'[s].want = oOp[s].want /\ oOp'[s].version = oOp[s].version
      <4>1. PICK x : oOp'[s] = [oOp[s] EXCEPT !.from = x]
        BY <2>1
      <4>2. OfficeCall(oOp[s])
        BY <1>0
      <4> QED
        BY <4>1, <4>2 DEF OfficeCall
    <3>2. DOMAIN oOp' = Calls
      BY <2>1
    <3> QED
      BY <3>1, <3>2 DEF OfficeAlike
  <2> QED
    BY <1>0, <2>1, <2>2, <2>3, OfficeOpens
<1>4. ASSUME NEW p \in Office!Place, Office!SetTab(p) PROVE OfficeInv'
  <2>1. /\ oPlace' = p /\ Office!Open(Office!Lists(p, 1, FALSE)) /\ p \in Office!Tabs
        /\ UNCHANGED <<oValue, oVersion, oPage, oSearch, oForm, oOp, oWish, oUnsure>>
    BY <1>4 DEF Office!SetTab, Office!Show, Office!server
  <2>2. Office!Lists(p, oPage, oSearch) = Office!Lists(p, 1, FALSE)
    BY <1>0, <2>1, OfficeQueries
  <2>3. Office!Open(Office!Lists(p, oPage, oSearch)) /\ p \notin {"users", "images"}
    BY <2>1, <2>2 DEF Office!Tabs
  <2>4. OfficeAlike
    BY <1>1, <2>1
  <2> QED
    BY <1>0, <2>1, <2>3, <2>4, OfficeOpens
<1>5. ASSUME Office!TogglePalette PROVE OfficeInv'
  BY <1>0, <1>5, OfficeSteady DEF Office!TogglePalette, Office!server, Office!ghost
<1>6. ASSUME Office!Search PROVE OfficeInv'
  <2>1. PICK b \in BOOLEAN : b = ~oSearch
    BY <1>0
  <2>2. /\ oPlace' = oPlace /\ oPage' = 1 /\ oSearch' = b
        /\ Office!Open(Office!Lists(oPlace, 1, b))
        /\ UNCHANGED <<oValue, oVersion, oForm, oOp, oWish, oUnsure>>
    BY <1>6, <2>1 DEF Office!Search, Office!Show, Office!server
  <2>3. OfficeAlike
    BY <1>1, <2>2
  <2> QED
    BY <1>0, <2>2, <2>3, OfficeOpens
<1>7. ASSUME NEW n \in Office!Page, Office!GoToPage(n) PROVE OfficeInv'
  <2> DEFINE q == Office!Lists(oPlace, n, oSearch)
             a == Office!Asked
  <2>1. /\ oPlace \in {"users", "images"} /\ n \in 1..Office!LastPage(Office!Total, OfficeTableSize)
        /\ oPage' = n /\ Office!Open(q)
        /\ oStrayed' <=> Office!Total > Cardinality(Office!Matching(a))
        /\ UNCHANGED <<oValue, oVersion, oPlace, oSearch, oForm, oOp, oWish, oUnsure>>
    BY <1>7, OfficeCache DEF Office!GoToPage, Office!InTable, Office!server
  <2>2. Office!Matching(q) = Office!Matching(a)
    <3>1. /\ q = [of |-> oPlace, page |-> n, search |-> oSearch]
          /\ a = [of |-> oPlace, page |-> oPage, search |-> oSearch]
      BY <1>0, <2>1, OfficeQueries
    <3>2. Office!KindOf(q) = Office!KindOf(a) /\ q.search = a.search
      BY <3>1 DEF Office!KindOf
    <3> QED
      BY <3>2 DEF Office!Matching
  <2>3. Office!Total \in Nat
    BY <1>0 DEF Office!Total, Office!Shown, OfficeEntry
  <2>4. Cardinality(Office!Matching(a)) \in Nat
    BY <1>0, OfficeCounted
  <2>5. n \in Nat \ {0} /\ n <= Office!LastPage(Office!Total, OfficeTableSize)
    <3>1. Office!LastPage(Office!Total, OfficeTableSize) \in Nat
      BY <2>3, OfficePages
    <3> QED
      BY <1>0, <2>1, <3>1
  <2>6. (n - 1) * OfficeTableSize < Office!Total
    BY <2>3, <2>5, OfficePages
  <2>7. (n - 1) * OfficeTableSize \in Int
    BY <2>5, OfficeAssumption
  <2>8. ~oStrayed' => n = 1 \/ (n - 1) * OfficeTableSize < Cardinality(Office!Matching(q))
    BY <2>1, <2>2, <2>3, <2>4, <2>6, <2>7
  <2>9. OfficeAlike /\ oForm' \in Office!Form
    BY <1>0, <1>1, <2>1
  <2> QED
    BY <1>0, <2>1, <2>8, <2>9, OfficeOpens
<1>8. ASSUME NEW f \in Office!Form, Office!EditForm(f) PROVE OfficeInv'
  BY <1>8, OfficeSteady DEF Office!EditForm, Office!server, Office!ghost
<1>9. ASSUME NEW s \in Calls, Office!CreateTag(s) PROVE OfficeInv'
  <2> DEFINE t == <<"tag", oForm.name>>
  <2>1. oForm.name \in {x[2] : x \in Office!Of("tag")}
    BY <1>0, <1>9 DEF Office!CreateTag, Office!Form
  <2>2. t \in OfficeThings
    <3>1. PICK x \in Office!Of("tag") : oForm.name = x[2]
      BY <2>1
    <3>2. x \in {"user", "image", "tag"} \X Int /\ x[1] = "tag" /\ x \in OfficeThings
      BY <3>1, OfficeAssumption DEF Office!Of
    <3>3. x = <<x[1], x[2]>>
      BY <3>2
    <3> QED
      BY <3>1, <3>2, <3>3
  <2>3. Office!ActiveColor # "password"
    <3>1. oForm.dot \in OfficeDots /\ oForm.custom \in OfficeColors \cup {""}
      BY <1>0 DEF Office!Form
    <3> QED
      BY <3>1, OfficeAssumption DEF Office!ActiveColor
  <2>4. Office!Free(s) /\ Office!Ask(s, t, Office!ActiveColor, Office!ActiveColor, 0, "form")
    BY <1>9 DEF Office!CreateTag
  <2> QED
    BY <2>2, <2>3, <2>4, OfficeAsksFor
<1>10. ASSUME NEW s \in Calls, NEW t \in OfficeThings, Office!DeleteRow(s, t) PROVE OfficeInv'
  BY <1>10, OfficeAsksFor DEF Office!DeleteRow, Office!Gone
<1>11. ASSUME NEW s \in Calls, NEW t \in OfficeThings, NEW role \in Office!Role,
              Office!UpdateRole(s, t, role)
       PROVE  OfficeInv'
  BY <1>11, OfficeAsksFor DEF Office!UpdateRole, Office!Role
<1>12. ASSUME NEW s \in Calls, NEW t \in OfficeThings, Office!ResetPassword(s, t) PROVE OfficeInv'
  BY <1>12, OfficeResets DEF Office!ResetPassword
<1>13. ASSUME NEW s \in Calls, Office!Work(s) \/ Office!RequestFails(s) \/ Office!Succeed(s) \/ Office!LoseAnswer(s)
       PROVE  OfficeInv'
  BY <1>13, OfficeWorks, OfficeFails, OfficeSucceeds, OfficeLoses
<1>14. ASSUME NEW q \in DOMAIN oCache, Office!Serve(q) \/ Office!Land(q) \/ Office!FetchFails(q)
       PROVE  OfficeInv'
  BY <1>14, OfficeFetches
<1> QED
  BY <1>2, <1>3, <1>4, <1>5, <1>6, <1>7, <1>8, <1>9, <1>10, <1>11, <1>12, <1>13, <1>14
  DEF Office!Next, Office!User

(* At rest nothing lacks a change.                                          *)
LEMMA OfficeHolds == OfficeInv => Office!AsAsked /\ Office!EmptyOnlyAfterDeletion
<1> SUFFICES ASSUME OfficeInv PROVE Office!AsAsked /\ Office!EmptyOnlyAfterDeletion
  OBVIOUS
<1> DEFINE a == Office!Asked
           R == OfficeRows(a, Office!Matching(a))
<1>0. /\ a \in Office!Query /\ a = Office!Lists(oPlace, oPage, oSearch)
      /\ oPlace \in Office!Place /\ oPage \in Office!Page /\ oSearch \in BOOLEAN
  BY OfficeAsked DEF OfficeInv, OfficeShape
<1>1. /\ R \subseteq Office!Matching(a) /\ Office!Matching(a) \subseteq Office!Of(Office!KindOf(a))
      /\ Office!Matching(a) \subseteq OfficeThings
      /\ \A t \in Office!Matching(a) : oValue[t] # "gone"
      /\ Cardinality(Office!Matching(a)) \in Nat /\ IsFiniteSet(Office!Matching(a))
  BY <1>0, OfficeListed, OfficeCounted DEF Office!Matching, Office!Of, Office!Gone
<1>5. Office!NoOp.pc = "idle"
  BY DEF Office!NoOp
<1>2. ASSUME Office!AtRest
      PROVE  /\ Office!Shown = Office!Truth(a) /\ Office!Rows = R
             /\ \A t \in R : Office!Shown.rows[t] = oValue[t]
             /\ \A s \in Calls : oOp[s] = Office!NoOp
  <2>1. /\ Office!Entry(a).flight = "none" /\ Office!Shown # NoData /\ a \notin oMissed
        /\ \A s \in Calls : oOp[s] = Office!NoOp
    BY <1>2, OfficeCache DEF Office!AtRest, Resting
  <2>2. \A s \in Calls : ~OfficeRelevant(oOp[s], a)
    BY <1>5, <2>1 DEF OfficeRelevant
  <2>3. Office!Entry(a).data = Office!Truth(a)
    BY <2>1, <2>2 DEF OfficeInv, OfficeCurrent, Current
  <2>4. Office!Shown = Office!Truth(a)
    BY <2>3 DEF Office!Shown
  <2>5. Office!Shown.rows = [t \in R |-> oValue[t]]
    BY <2>4, OfficeTruth
  <2> QED
    BY <2>1, <2>4, <2>5 DEF Office!Rows
<1>3. Office!AsAsked
  <2> SUFFICES ASSUME Office!AtRest, NEW t \in Office!Of(Office!KindOf(a)) \ oUnsure
               PROVE  /\ t \in Office!Rows /\ oWish[t] # "" => Office!Shown.rows[t] = oWish[t]
                      /\ oWish[t] = "gone" => t \notin Office!Rows
    BY <1>2 DEF Office!AsAsked, Office!Gone
  <2>1. t \in OfficeThings \ oUnsure
    BY DEF Office!Of
  <2>2. \A s \in Calls : oOp[s].pc # "sent"
    BY <1>2, <1>5
  <2>3. oWish[t] # "" => oValue[t] = oWish[t]
    BY <2>1, <2>2 DEF OfficeInv, OfficeWishesMet
  <2> QED
    BY <1>1, <1>2, <2>3
<1>4. Office!EmptyOnlyAfterDeletion
  <2> SUFFICES ASSUME oPlace \in {"users", "images"}, Office!AtRest, Office!Rows = {},
                      Office!Matching(a) # {}, ~oStrayed
               PROVE  FALSE
    BY DEF Office!EmptyOnlyAfterDeletion, Office!InTable
  <2>1. a.of = oPlace /\ a.page = oPage
    BY <1>0, OfficeQueries
  <2>2. (oPage - 1) * OfficeTableSize >= Cardinality(Office!Matching(a))
    BY <1>0, <1>2, <2>1, OfficeListed
  <2>3. Cardinality(Office!Matching(a)) > 0
    BY <1>1, FS_EmptySet
  <2>4. oPage = 1 \/ (oPage - 1) * OfficeTableSize < Cardinality(Office!Matching(a))
    BY DEF OfficeInv, OfficePaged, Office!InTable
  <2>5. oPage \in Nat /\ OfficeTableSize \in Nat
    BY <1>0, OfficeQueries, OfficeAssumption
  <2>6. (oPage - 1) * OfficeTableSize \in Int /\ (oPage = 1 => (oPage - 1) * OfficeTableSize = 0)
    BY <2>5
  <2> QED
    BY <1>1, <2>2, <2>3, <2>4, <2>6
<1> QED
  BY <1>3, <1>4

(* The pages of an administrator: at rest a list shows what the server has, *)
(* also after requests that failed; the roles and the colours asked for     *)
(* last and nothing that was deleted, where the request did not fail or     *)
(* overlap another; and a table is empty only when nothing matches or rows  *)
(* were deleted under it (DashboardPage.tsx:264-270,                        *)
(* UserManagementPage.tsx:17-35, TagManagePage.tsx:43-63,                   *)
(* ImageManagementPage.tsx:8-30).                                           *)
THEOREM OfficeTrue == Office!Spec => [](Office!AsAsked /\ Office!EmptyOnlyAfterDeletion)
<1>1. Office!Init => OfficeInv
  BY OfficeBegins
<1>2. OfficeInv /\ [Office!Next]_Office!vars => OfficeInv'
  BY OfficeInvKept
<1>3. OfficeInv => Office!AsAsked /\ Office!EmptyOnlyAfterDeletion
  BY OfficeHolds
<1> QED
  BY <1>1, <1>2, <1>3, PTL DEF Office!Spec

-----------------------------------------------------------------------------
(* All pages and screens side by side, for any images, users, tags, sizes   *)
(* of a page and calls under way: what a list shows at rest is what the     *)
(* server has, and what can be clicked tells the state it stands for, but   *)
(* for the exceptions that the parts name (GalleryPage.tsx:291-309,         *)
(* ImageDetailPage.tsx:205-231, DashboardPage.tsx:264-270,                  *)
(* GalleryScreen.tsx:41-53, LandingPage.tsx:203-215, monitor/main.go:130).  *)
THEOREM ScreensAlwaysTrue == Screens => []ScreensAreTrue
<1> QED
  BY GalleryTrue, DetailTrue, OfficeTrue, FeedTrue, LandingTrue, MonitorKeepsHistory,
     PTL DEF Screens, ScreensAreTrue

=============================================================================
