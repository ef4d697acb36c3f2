SPECIFICATION WorkSpec
CONSTANTS
    p1 = p1
    h1 = h1
    Players = {p1}
    Handles = {h1}
    Proves <- EveryHandle
    Registered <- NoSignUp
    Games <- OneGame
    Unusable = {}
    MaxGames = 2
    Kinds = {"job", "sync"}
    MaxRuns = 2
    MaxLinks = 1
    MaxStops = 1
    MaxClosed = 1
    NoOne = NoOne
    Posts = {q1, q2}
    MaxReviewStops = 1
    Marks = {"leak", "notation", "inevitable", "refusal"}
    MaxRetries = 1
    MaxStreamRetries = 1
    LookaheadWords = 2
    Tokens <- SomePieces
    MaxWords = 3
    Events = {d1, d2}
    Drills = {s1}
    PlanDays <- Days
    MaxDrops = 1
    Library <- Corpus
    Upstream <- Lichess
    Named = {"fork", "tempo"}
    Angled = {"fork"}
    SkillLevels = {1, 2, 3}
    FetchBudget = 5
    DeviceGames = {g1, g2}
    MaxAttempts = 2
    NoPayload = NoPayload
    Servers = {b1, b2}
    Migrations <- SchemaSteps
    Fks = {f1}
    MaxKills = 1
INVARIANTS
    PracticeSafe
    PendingSafe
PROPERTIES
    ServerWorkEnds
    ConversationsEnd
    PlayersWorkEnds
CHECK_DEADLOCK FALSE
