SPECIFICATION Spec
CONSTANTS
    None = None
    MaxVersion = 3
    SummaryOf <- Summary
    QueueSize = 1
    MaxFlight = 2
    Turns = {1, 2}
    MaxTokens = 2
    Pages = {"overview", "settings", "hardware", "memory"}
    Landing <- Addresses
    DefaultPage = "overview"
    Defaulted = {1}
    MaxCalls = 3
    Drafts = {d1, d2}
    Own = own
    MaxReviews = 2
    Ids = {a1}
    ChatTurns = {1, 2}
    TextOf <- SameText
    MaxReads = 2
    Robots = {r1, r2}
    Views = {"chat", "config", "robots", "uploads"}
    MaxLooks = 4
    Shapes <- FrameShapes
    MaxFrames = 2
    Openings <- Beginnings
    Symbols = {"a", "1", ".", "-", "_", "nl", "~~~", "]:"}
    FinalLines <- Lines_of
CHECK_DEADLOCK FALSE
INVARIANTS
    ClientsTypeOK
    SettledViewIsCurrent
    BusyHasACause
    LastTokensPainted
    OneEndPerTurn
    SentTwiceOnlyUnseen
    HistoryIsHonest
    PanelsShowTheLatest
    RegisteredAsShown
    MetadataIsItsDrafts
    ReviewedOnce
    AnnouncedOnce
    ActiveIsFollowed
    TranscriptIsTheChat
    FramesAreWhole
    NothingIsLost
    ViewsAgree
PROPERTIES
    BadgeSettles
    StreamsAreReleased
    FollowedIsAnnounced
    BlocksStand
