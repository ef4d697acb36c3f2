SPECIFICATION PlaySpec
CONSTANTS
    w1 = w1
    w2 = w2
    e1 = e1
    e2 = e2
    None = None
    Workers = {w1, w2}
    Engines = {e1, e2}
    PoolSize = 2
    MaxFailures = 1
    Callers <- AllCallers
    Positions = {x1, x2}
    Asking = {k1, k2}
    Configs = {c1, c2}
    FirstConfig = c1
    Ttl = 0
    MaxMemoryItems = 1
    Players = {p1, p2}
    Devices = {v1, v2}
    GameIds = {g1, g2}
    MaxCheckpoints = 3
    Tables <- GameTables
    Pieces <- PieceCount
    BookPlies = 0
    Posts = {q1, q2, q3}
    MaxReviewStops = 2
    FeedCallers = {f1, f2, f3}
    MaxRows = 3
    Marks <- AllMarks
    MaxRetries = 2
    MaxStreamRetries = 1
    LookaheadWords = 2
    Tokens <- SomePieces
    MaxWords = 4
    Events = {n1}
    Drills = {d1, d2}
    PlanDays <- Days
    MaxDrops = 1
    Ecos = {C84, X}
    Defaults = {C84}
    FavouriteEco = C84
    Edits = {r1, r2}
    MaxLines = 3
    ByteCap = 6
    ChunkSizes = {1, 4}
    MissPrice = 5
    HitPrice = 1
    MaxFrames = 3
    CardPlies <- CardList
    Signalled = {12}
    Themes = {"generic", "hung_piece"}
    Aliases <- SomeAliases
    Finishes = {h1, h2}
    Histories <- Records
    Reports <- GameReports
    StartRatings = {102, 1200}
    Profiles <- SomeProfiles
    Estimates <- SomeEstimates
    Established = 2
SYMMETRY WorkerEngineSymmetry
INVARIANTS
    PoolSafe
    CacheSafe
    AnalysisSafe
    ReviewSafe
    FeedSafe
    ReplySafe
    StreamSafe
    WeekSafe
    RepertoireSafe
    LlmSafe
    TextsSafe
    PolicySafe
PROPERTIES
    ImplementsSlotPool
    GameRowsKept
    FullReviewKept
    ReadRowsFrozen
    LeakIsNotRetried
    PolicySteps
CHECK_DEADLOCK FALSE
