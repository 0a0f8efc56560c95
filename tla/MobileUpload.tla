---------------------------- MODULE MobileUpload ----------------------------
(***************************************************************************)
(* The upload screen of the mobile app: up to ten pictures go in one form, *)
(* in one request that is given up after a minute.  The server stores them *)
(* one by one and stops at the first it refuses; what it has stored stays. *)
(* A definition Name_Variant is Name with a plausible bug in it.           *)
(***************************************************************************)
EXTENDS Integers, Sequences, FiniteSets, SequencesExt

CONSTANTS
    Picture, Bad,  \* the pictures of the phone, and those the server refuses
    MaxFiles,      \* 10 in the code
    MaxSent        \* bound: requests

ASSUME UploadAssumption == Picture \subseteq Nat /\ MaxFiles \in Nat /\ MaxSent \in Nat

VARIABLES
    files,     \* the selection
    form,      \* the files of the request under way
    xhr,       \* the request as the phone sees it
    rest,      \* server: what it has still to store of each request, newest last
    serving,   \* server: the requests it is at work on, the phone waiting or not
    copies,    \* server: how often each picture was stored
    sent,      \* number of requests
    picked,    \* history: the pictures chosen
    takenBack, \* history: those taken back
    beyondTen, \* history: those beyond the ten
    late,      \* history: those chosen while a request was under way that succeeded
    unread,    \* history: those the server could not open and passed over
    failed, again  \* history: those of a request that failed, and those sent again then

uploadHistory == <<picked, takenBack, beyondTen, late, unread, failed, again>>
uploadVars == <<files, form, xhr, rest, serving, copies, sent, uploadHistory>>

Try == 1..MaxSent
UploadTypeOK ==
    /\ files \in Seq(Picture) /\ form \in Seq(Picture) /\ Len(files) <= MaxFiles
    /\ xhr \in {"idle", "sent", "ok", "error"} /\ rest \in [Try -> Seq(Picture)]
    /\ serving \subseteq Try /\ copies \in [Picture -> 0..MaxSent] /\ sent \in 0..MaxSent
    /\ picked \cup takenBack \cup beyondTen \cup late \cup unread \cup failed \cup again \subseteq Picture

UploadInit ==
    /\ files = <<>> /\ form = <<>> /\ xhr = "idle"
    /\ rest = [r \in Try |-> <<>>] /\ serving = {} /\ copies = [p \in Picture |-> 0] /\ sent = 0
    /\ picked = {} /\ takenBack = {} /\ beyondTen = {} /\ late = {} /\ unread = {} /\ failed = {} /\ again = {}

IsPending == xhr # "idle"
Server == <<rest, serving, copies>>

\* setFiles with the assets a picker returned; slice(0, 10).
AddFiles(assets) ==
    LET all == files \o assets
        n == IF Len(all) < MaxFiles THEN Len(all) ELSE MaxFiles
    IN  /\ files' = SubSeq(all, 1, n)
        /\ beyondTen' = beyondTen \cup ToSet(SubSeq(all, n + 1, Len(all)))
        /\ picked' = picked \cup ToSet(assets)
        /\ UNCHANGED <<takenBack, form, xhr, Server, sent, late, unread, failed, again>>
\* Bound: a picture is chosen once.
Fresh == Picture \ picked
\* pickImages: some from the album; takePhoto: one, when the camera is allowed.
PickImages == \E p, q \in Fresh : p < q /\ AddFiles(<<p, q>>)
TakePhoto == \E p \in Fresh : AddFiles(<<p>>)
TakeBack(i) ==
    /\ i \in DOMAIN files /\ files' = RemoveAt(files, i)
    /\ takenBack' = takenBack \cup {files[i]}
    /\ UNCHANGED <<form, xhr, Server, sent, picked, beyondTen, late, unread, failed, again>>

\* The button waits for the request; the token is read once and never renewed.
\* The server may still be at work on one that the phone has given up.
Send ==
    /\ files # <<>> /\ sent < MaxSent
    /\ form' = files /\ xhr' = "sent" /\ sent' = sent + 1
    /\ rest' = [rest EXCEPT ![sent + 1] = files] /\ serving' = serving \cup {sent + 1}
    /\ again' = again \cup (ToSet(files) \cap failed)
    /\ UNCHANGED <<files, copies, picked, takenBack, beyondTen, late, unread, failed>>
Upload_NotPending == Send
Upload == ~IsPending /\ Send

-----------------------------------------------------------------------------
Phone == <<files, form, sent, picked, takenBack, beyondTen, late, failed, again>>
\* The phone hears of the request it waits for, which is the last one.
Answer(r, pc) ==
    /\ serving' = serving \ {r}
    /\ xhr' = IF r = sent /\ xhr = "sent" THEN pc ELSE xhr
NextOf(r) == Head(rest[r])
Passed(r) == rest' = [rest EXCEPT ![r] = Tail(@)]

\* ImageHandler.Upload: one picture after the other.
StoreNext(r) ==
    /\ r \in serving /\ rest[r] # <<>> /\ NextOf(r) \notin Bad
    /\ copies' = [copies EXCEPT ![NextOf(r)] = @ + 1] /\ Passed(r)
    /\ UNCHANGED <<xhr, serving, unread, Phone>>
SkipUnreadable(r) ==
    /\ r \in serving /\ rest[r] # <<>> /\ Passed(r) /\ unread' = unread \cup {NextOf(r)}
    /\ UNCHANGED <<xhr, serving, copies, Phone>>
\* Refused by the token, the size, the type or the quota: the others are left.
\* Nothing says which were stored.
RefuseNext_AsSuccess(r) ==
    /\ r \in serving /\ rest[r] # <<>> /\ Answer(r, "ok")
    /\ rest' = [rest EXCEPT ![r] = <<>>] /\ UNCHANGED <<copies, unread, Phone>>
RefuseNext(r) ==
    /\ r \in serving /\ rest[r] # <<>> /\ Answer(r, "error")
    /\ rest' = [rest EXCEPT ![r] = <<>>] /\ UNCHANGED <<copies, unread, Phone>>
AnswerOk(r) ==
    /\ r \in serving /\ rest[r] = <<>> /\ Answer(r, "ok")
    /\ UNCHANGED <<rest, copies, unread, Phone>>

\* ontimeout and onerror: the server may be at any picture, and go on.
TimeOut ==
    /\ xhr \in {"sent", "ok"} /\ xhr' = "error"
    /\ UNCHANGED <<Server, unread, Phone>>

OnSuccess_KeepsFiles ==
    /\ xhr = "ok" /\ xhr' = "idle" /\ form' = <<>> /\ UNCHANGED files
    /\ late' = late /\ UNCHANGED <<Server, sent, picked, takenBack, beyondTen, unread, failed, again>>
\* onSuccess empties the selection as it is by now.
OnSuccess ==
    /\ xhr = "ok" /\ xhr' = "idle" /\ form' = <<>> /\ files' = <<>>
    /\ late' = late \cup (ToSet(files) \ ToSet(form))
    /\ UNCHANGED <<Server, sent, picked, takenBack, beyondTen, unread, failed, again>>
\* onError shows a message; the selection stays as it is.
OnError_ClearsFiles ==
    /\ xhr = "error" /\ xhr' = "idle" /\ form' = <<>> /\ files' = <<>>
    /\ failed' = failed \cup ToSet(form)
    /\ UNCHANGED <<Server, sent, picked, takenBack, beyondTen, late, unread, again>>
OnError ==
    /\ xhr = "error" /\ xhr' = "idle" /\ form' = <<>> /\ UNCHANGED files
    /\ failed' = failed \cup ToSet(form)
    /\ UNCHANGED <<Server, sent, picked, takenBack, beyondTen, late, unread, again>>

UploadNext ==
    \/ PickImages \/ TakePhoto \/ (\E i \in 1..MaxFiles : TakeBack(i)) \/ Upload
    \/ \E r \in Try : StoreNext(r) \/ SkipUnreadable(r) \/ RefuseNext(r) \/ AnswerOk(r)
    \/ TimeOut \/ OnSuccess \/ OnError
UploadSpec == UploadInit /\ [][UploadNext]_uploadVars

-----------------------------------------------------------------------------
\* A picture that was chosen and not taken back is on the screen or stored; but
\* those beyond the ten, those the server could not open, and those chosen
\* during an upload that succeeds are dropped without a word
\* (UploadScreen.tsx:51, :68; image_handler.go:47-49).
NoPictureLost ==
    picked \ (takenBack \cup beyondTen \cup late \cup unread) \subseteq
        ToSet(files) \cup {p \in Picture : copies[p] > 0}

\* A picture is stored twice only when it was sent again after an error: then
\* the request was refused further on, or its answer came late or never, and the
\* server may even be at work on both requests at once (UploadScreen.tsx:24-31, :46-47).
StoredTwiceOnlyIfSentAgain == \A p \in Picture : copies[p] > 1 => p \in again

\* No picture is lost, and none is stored twice, through time-outs, refusals and
\* pictures chosen or taken back while a request is under way (UploadScreen.tsx:19-70).
NothingLostNorDoubled == NoPictureLost /\ StoredTwiceOnlyIfSentAgain

=============================================================================
