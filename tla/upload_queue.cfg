SPECIFICATION FairSpec
CONSTANTS
    File = {f1, f2}
    Refusable = {f2}
    Loop = {p1, p2}
    MaxEntries = 3
    MaxVisits = 2
INVARIANTS HonestCards SentOnce SpinnerHonest
PROPERTY UploadEnds
CHECK_DEADLOCK FALSE
