SPECIFICATION FairSpec
CONSTANTS
    Request = {r1, r2}
    Limit = 2
    Window = 3
    MaxCount = 4
    Faults = {"down", "lostreply", "noexpiry"}
INVARIANTS BurstBounded EveryKeyExpires
PROPERTY RefusalEnds
