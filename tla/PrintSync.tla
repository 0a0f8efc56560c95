----------------------------- MODULE PrintSync ------------------------------
(***************************************************************************)
(* SyncTaggedImages: the images that carry a tag are copied into one       *)
(* directory, /exports, and every other file of it is removed.  A ticker   *)
(* runs it every five minutes for the tag of the prints; an administrator  *)
(* may run it at any time, for any tag.  Nothing keeps two runs apart, and *)
(* tags and images change while they work.                                 *)
(*                                                                         *)
(* The file name is the one of the upload or of the last renaming: two     *)
(* images may share it.                                                    *)
(* A definition Name_Variant is Name with a plausible bug in it.           *)
(***************************************************************************)
EXTENDS Integers, FiniteSets

CONSTANTS
    Image, Filename, NoRow,
    Tag, PrintTag,
    Manual,      \* runs asked for by administrators
    Ticker,      \* the run of the background goroutine
    MaxChanges,  \* bound: changes of tags, names and images
    MaxManual,   \* bound: manual runs
    MaxFaults,   \* bound: failing calls and restarts
    Faults       \* subset of FaultKinds

FaultKinds == {"query", "download", "stall", "write", "cut", "list", "remove", "crash"}

ASSUME SyncAssumption ==
    /\ PrintTag \in Tag /\ Ticker \notin Manual
    /\ NoRow \notin Image \X Filename
    /\ {MaxChanges, MaxManual, MaxFaults} \subseteq Nat
    /\ Faults \subseteq FaultKinds

VARIABLES
    filename,  \* images.filename
    img,       \* "live"; "deleted": the row is gone or hidden; "erased": the object, too
    carrier,   \* the images that carry a tag (image_tags)
    export,    \* the directory: what is in each file
    job,       \* the runs
    calm,      \* history: nothing has disturbed the run
    changes, manuals, faults   \* counters of the bounds

vars == <<filename, img, carrier, export, job, calm, changes, manuals, faults>>

Job == Manual \cup {Ticker}
\* Torn: truncated and not yet written again.  ErrorPage: the answer of the
\* storage for an object that is not there; its status is not looked at.
Content == Image \cup {"nofile", "torn", "errorpage"}
Row == Image \X Filename   \* of the result of the query
Run == [pc: {"idle", "rows", "stalled", "open", "fill", "sweep", "done"},
        tag: Tag,
        rows: SUBSET Row,          \* not yet read
        cur: Row \cup {NoRow},     \* the one being copied
        data: Image \cup {"nofile", "errorpage"},
        kept: SUBSET Filename,
        doomed: SUBSET Filename]   \* entries still to be removed

\* A run that reads rows, that copies one, and that holds none any more.
Reads(t, rows, kept) ==
    [pc |-> "rows", tag |-> t, rows |-> rows, cur |-> NoRow,
     data |-> "nofile", kept |-> kept, doomed |-> {}]
Copies(pc, t, rows, row, d, kept) ==
    [pc |-> pc, tag |-> t, rows |-> rows, cur |-> row, data |-> d, kept |-> kept, doomed |-> {}]
HasRead(pc, t, kept, doomed) ==
    [pc |-> pc, tag |-> t, rows |-> {}, cur |-> NoRow,
     data |-> "nofile", kept |-> kept, doomed |-> doomed]
Idle == HasRead("idle", PrintTag, {}, {})

TypeOK ==
    /\ filename \in [Image -> Filename]
    /\ img \in [Image -> {"live", "deleted", "erased"}]
    /\ carrier \in [Tag -> SUBSET Image]
    /\ export \in [Filename -> Content]
    /\ job \in [Job -> Run] /\ calm \in [Job -> BOOLEAN]
    /\ \A j \in Job : job[j].pc \in {"open", "fill"} => job[j].cur \in Row
    /\ changes \in 0..MaxChanges /\ manuals \in 0..MaxManual /\ faults \in 0..MaxFaults

Init ==
    /\ filename \in [Image -> Filename]
    /\ img = [i \in Image |-> "live"]
    /\ carrier \in [Tag -> SUBSET Image]
    /\ export = [n \in Filename |-> "nofile"]
    /\ job = [j \in Job |-> Idle]
    /\ calm = [j \in Job |-> FALSE]
    /\ changes = 0 /\ manuals = 0 /\ faults = 0

At(j, pc) == job[j].pc = pc
Running(j) == ~At(j, "idle")
Move(j, f) == job' = [job EXCEPT ![j] = f]
Exportable(t) == {i \in carrier[t] : img[i] = "live"}
Result(t) == {<<i, filename[i]>> : i \in Exportable(t)}
World == <<filename, img, carrier, changes>>

\* A call fails: the run is disturbed.
Fault(kind, j) ==
    /\ kind \in Faults /\ faults < MaxFaults
    /\ faults' = faults + 1
    /\ calm' = [calm EXCEPT ![j] = FALSE]
NoFault == UNCHANGED <<faults, calm>>

-----------------------------------------------------------------------------
\* The query: DISTINCT images that carry the tag and are not deleted, each with
\* the name it has now.  A run that starts beside another one disturbs both.
Start(j, t) ==
    /\ At(j, "idle")
    /\ Move(j, Reads(t, Result(t), {}))
    /\ calm' = [k \in Job |-> k = j /\ \A q \in Job : ~Running(q)]
    /\ UNCHANGED <<World, export, faults>>

Tick == Start(Ticker, PrintTag) /\ UNCHANGED manuals
Ask(j) ==
    /\ j \in Manual /\ manuals < MaxManual
    /\ \E t \in Tag : Start(j, t)
    /\ manuals' = manuals + 1

Fetched(i) == IF img[i] = "erased" THEN "errorpage" ELSE i

\* Download the next row; a failure skips it.
Download(j) ==
    /\ At(j, "rows")
    /\ \E row \in job[j].rows :
         \/ /\ Move(j, Copies("open", job[j].tag, job[j].rows \ {row}, row, Fetched(row[1]), job[j].kept))
            /\ NoFault
         \/ /\ Fault("download", j)
            /\ Move(j, Reads(job[j].tag, job[j].rows \ {row}, job[j].kept))
    /\ UNCHANGED <<World, export, manuals>>

\* http.Get has no time-out and the ticker's context never ends: a storage that
\* accepts the connection and does not answer holds the run, for ever if it
\* never answers; and the next tick waits for the run.
Stall(j) ==
    /\ At(j, "rows") /\ job[j].rows # {}
    /\ Fault("stall", j)
    /\ Move(j, [job[j] EXCEPT !.pc = "stalled"])
    /\ UNCHANGED <<World, export, manuals>>
Resume(j) ==
    /\ At(j, "stalled")
    /\ Move(j, [job[j] EXCEPT !.pc = "rows"])
    /\ NoFault
    /\ UNCHANGED <<World, export, manuals>>

\* os.WriteFile truncates the file, then writes it.
OpenFile(j) ==
    /\ At(j, "open")
    /\ export' = [export EXCEPT ![job[j].cur[2]] = "torn"]
    /\ Move(j, Copies("fill", job[j].tag, job[j].rows, job[j].cur, job[j].data, job[j].kept))
    /\ NoFault
    /\ UNCHANGED <<World, manuals>>

Keep_Nothing(j) == job[j].kept
Keep(j) == job[j].kept \cup {job[j].cur[2]}

\* A write that fails leaves the file as it is and the name is not kept.
FillFile(j) ==
    /\ At(j, "fill")
    /\ \/ /\ export' = [export EXCEPT ![job[j].cur[2]] = job[j].data]
          /\ Move(j, Reads(job[j].tag, job[j].rows, Keep(j)))
          /\ NoFault
       \/ /\ Fault("write", j)
          /\ Move(j, Reads(job[j].tag, job[j].rows, job[j].kept))
          /\ UNCHANGED export
    /\ UNCHANGED <<World, manuals>>

\* rows.Err() is not asked: a result that breaks off looks like its end.
BreakOff(j) ==
    /\ At(j, "rows") /\ job[j].rows # {}
    /\ Fault("cut", j)
    /\ Move(j, Reads(job[j].tag, {}, job[j].kept))
    /\ UNCHANGED <<World, export, manuals>>

Entries == {n \in Filename : export[n] # "nofile"}
Doomed_OnlyTorn(j) == {n \in Entries \ job[j].kept : export[n] = "torn"}
Doomed(j) == Entries \ job[j].kept

\* All rows are read: list the directory.  The error is ignored: what was listed
\* before it is swept.
ListExports(j) ==
    /\ At(j, "rows") /\ job[j].rows = {}
    /\ \E listed \in SUBSET Doomed(j) :
         /\ IF listed = Doomed(j) THEN NoFault ELSE Fault("list", j)
         /\ Move(j, HasRead("sweep", job[j].tag, job[j].kept, listed))
    /\ UNCHANGED <<World, export, manuals>>

\* A file that can not be removed stays; it is counted as removed.
RemoveFile(j) ==
    /\ At(j, "sweep")
    /\ \E n \in job[j].doomed :
         /\ \/ export' = [export EXCEPT ![n] = "nofile"] /\ NoFault
            \/ UNCHANGED export /\ Fault("remove", j)
         /\ Move(j, HasRead("sweep", job[j].tag, job[j].kept, job[j].doomed \ {n}))
    /\ UNCHANGED <<World, manuals>>

\* lastSync is set whatever was copied.
Report(j) ==
    /\ At(j, "sweep") /\ job[j].doomed = {}
    /\ Move(j, HasRead("done", job[j].tag, {}, {}))
    /\ NoFault
    /\ UNCHANGED <<World, export, manuals>>

Return(j) ==
    /\ At(j, "done")
    /\ Move(j, Idle)
    /\ NoFault
    /\ UNCHANGED <<World, export, manuals>>

\* The query fails: nothing is touched.
QueryFails(j) ==
    /\ At(j, "idle") /\ (j = Ticker \/ manuals < MaxManual)
    /\ Fault("query", j)
    /\ manuals' = IF j = Ticker THEN manuals ELSE manuals + 1
    /\ UNCHANGED <<World, export, job>>

\* The process ends; the directory stays, a torn file included.
Crash ==
    /\ "crash" \in Faults /\ faults < MaxFaults
    /\ faults' = faults + 1
    /\ job' = [j \in Job |-> Idle] /\ calm' = [j \in Job |-> FALSE]
    /\ UNCHANGED <<World, export, manuals>>

-----------------------------------------------------------------------------
\* What the other handlers do meanwhile.
Disturb(A) ==
    /\ calm' = [j \in Job |-> FALSE]
    /\ A
    /\ UNCHANGED <<export, job, manuals, faults>>
Change(A) == changes < MaxChanges /\ changes' = changes + 1 /\ Disturb(A)

\* ToggleTag, RemoveTag
Retag == \E t \in Tag, i \in Image :
    /\ img[i] = "live"
    /\ Change(/\ carrier' = [carrier EXCEPT ![t] = IF i \in @ THEN @ \ {i} ELSE @ \cup {i}]
              /\ UNCHANGED <<filename, img>>)

\* UpdateImage: any name but the empty one; the file of the old name is not touched.
Rename == \E i \in Image, n \in Filename :
    /\ img[i] = "live"
    /\ Change(filename' = [filename EXCEPT ![i] = n] /\ UNCHANGED <<img, carrier>>)

\* HardDelete: the row first (ForceDeleteImage: the mark), then the object.
DeleteImage == \E i \in Image :
    /\ img[i] = "live"
    /\ Change(img' = [img EXCEPT ![i] = "deleted"] /\ UNCHANGED <<filename, carrier>>)
EraseObject == \E i \in Image :
    /\ img[i] = "deleted"
    /\ Disturb(img' = [img EXCEPT ![i] = "erased"] /\ UNCHANGED <<filename, carrier, changes>>)

Work(j) ==
    \/ Download(j) \/ OpenFile(j) \/ FillFile(j)
    \/ ListExports(j) \/ RemoveFile(j) \/ Report(j) \/ Return(j)

Next ==
    \/ Tick
    \/ \E j \in Job : Ask(j) \/ Work(j) \/ Stall(j) \/ Resume(j) \/ BreakOff(j) \/ QueryFails(j)
    \/ Crash
    \/ Retag \/ Rename \/ DeleteImage \/ EraseObject

Spec == Init /\ [][Next]_vars
\* The goroutine of the ticker and the handlers are scheduled, and calls return,
\* but for a download that stalls: nothing makes it resume.
FairSpec == Spec /\ WF_vars(Tick) /\ \A j \in Job : WF_vars(Work(j))

-----------------------------------------------------------------------------
Named(t, n) == {i \in Exportable(t) : filename[i] = n}

\* A run that nothing disturbed leaves exactly the images of its tag in the
\* directory, whatever earlier runs, overlaps, failures and crashes have left
\* there; of images that share a name it leaves one (and the state is of its type).
CalmRunExact ==
    /\ TypeOK
    /\ \A j \in Job : At(j, "done") /\ calm[j] =>
        \A n \in Filename : LET want == Named(job[j].tag, n) IN
            IF want = {} THEN export[n] = "nofile" ELSE export[n] \in want

\* The directory heals: once tags, names, images and manual runs come to rest, it
\* holds the images to print and nothing else for ever, but for the moment in
\* which the ticker writes a file anew; unless a download of the ticker never
\* ends, which stops the export for good.
BeingWritten(n) == \E j \in Job : At(j, "fill") /\ job[j].cur[2] = n
HoldsThePrints ==
    \A n \in Filename : LET want == Named(PrintTag, n) IN
        IF want = {} THEN export[n] = "nofile"
                     ELSE export[n] \in want \/ (BeingWritten(n) /\ export[n] = "torn")
ExportSettles == <>[]HoldsThePrints \/ <>[]At(Ticker, "stalled")

=============================================================================
