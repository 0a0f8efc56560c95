SPECIFICATION Pages
CONSTANTS
    NoData = nodata
    Client = {"web", "phone"}
    Mobile = {"phone"}
    Author <- AuthorOf
    Writes <- TextsOf
    Admin = {"root"}
    NoText = ""
    TooLong = {"w2"}
    Slot = {1, 2}
    Scene <- Talks
    MaxId = 2
    MaxCutOff = 1
    Tab = {"t1", "t2"}
    Account = {"alice", "root"}
    NoUser = ""
    MaxPair = 3
    MaxLost = 1
    Picture = {1, 2, 3}
    Bad = {3}
    MaxFiles = 2
    MaxSent = 2
    AdminAccount = "root"
    Occasion <- Visits
    Line = {1, 2}
    MaxDepth = 3
    MaxWrites = 2
    MaxKills = 1
    Calls = {1, 2}
    GalleryImages = {1, 2, 3}
    GalleryKept = {1}
    GalleryPageSize = 2
    GalleryUsers <- Users
    DetailListed = {"t1"}
    DetailCustom = {"t2"}
    DetailScenes <- Looks
    OfficeThings <- Things
    OfficeStock <- Things
    OfficeFound <- Wanted
    OfficeTableSize = 1
    OfficeRecentSize = 1
    OfficeDots = {"gold"}
    OfficeColors = {"teal"}
    OfficeDuties <- Duties
    OfficeMaxTags = 1
    FeedImages = {1, 2, 3, 4}
    FeedStock = {1, 2, 3}
    FeedMatches = {1, 3, 4}
    FeedPageSize = 1
    LandingImages = {1, 2, 3}
    LandingStock = {1, 2}
    LandingTagged = {1, 3}
    LandingLimit = 1
    HostDayLength = 2
    HostPeriods = {1, 2}
    HostKept = 3
    HostMaxTime = 8
INVARIANTS ScreensAreTrue FiguresAreTrue NothingLostNorDoubled AccountsHold ShellHolds  CommentsHonest
PROPERTIES DeletedByRight
CHECK_DEADLOCK FALSE
