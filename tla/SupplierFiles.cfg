SPECIFICATION MCSpec
CONSTANTS
    Batches <- MCBatches
    Farms <- MCFarms
    Coas <- MCCoas
    Photos <- MCPhotos
    Admins <- MCAdmins
    Notes = {"n1"}
    None = "none-given"
    Farmer = "farmer"
    Home = "f1"
    BatchVerdicts = {"Approved", "Rejected"}
    FarmVerdicts = {"Approved", "Watchlist"}
    MaxPresses = 4
    MaxCalls = 2
    Readers = {"a1", "x1"}
    CoaAdmins = {"a1"}
    Scans = {"s1"}
    WireReplies <- MCReplies
    Cannabinoids <- MCCannabinoids
    Numbers2026 <- MC2026
    Numbers2025 <- MC2025
    NamedInFile <- MCNamed
    Allowance = 1
    Unread = Unread
    BucketOrder <- MCBuckets
    Names = 4
    Paths <- MCPaths
    Contents = {"x", "y"}
    PAGE = 2
    Secret = "passphrase"
    Lost = Lost
INVARIANT ToldIsRecorded
INVARIANT TrailIsWhole
INVARIANT RowsAreStorable
INVARIANT ReadingHoldsTogether
INVARIANT BackupGivesBackWhatStood
PROPERTY TransitionsAreRecorded
PROPERTY ReleasedContentStands
PROPERTY RecordingEnds
