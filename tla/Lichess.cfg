SPECIFICATION LichessSpec
CONSTANTS
    p1 = p1
    p2 = p2
    h1 = h1
    h2 = h2
    NoOne = NoOne
    Players = {p1, p2}
    Handles = {h1, h2}
    Proves <- Ownership
    Registered <- SignedUpWith
    Games <- TwoGames
    Unusable = {}
    MaxGames = 2
    Kinds = {"job", "sync"}
    MaxRuns = 2
    MaxLinks = 2
    MaxStops = 1
    MaxClosed = 0
    s1 = s1
    k1 = k1
    e1 = e1
    Codes = {s1, k1, e1}
    RouteOf <- Routes
    MaxSends = 3
    MaxOutages = 1
    LiveCalls = {l1}
    ChatCalls = {ch1}
    OtherCalls = {o1}
    EvalCalls = {ev1}
    Connections = 1
    Centipawns <- SomeScores
    MateIn = {1}
    PuzzleMoves = {"a", "b", "c", "d", "e", "f", "g", "q", "w"}
    Tree <- MoveTree
    Sound <- SoundMoves
    Promotion = {"q"}
    Payloads <- LichessPuzzles
    Corpora <- CorpusFiles
    Checks = {1, 2}
INVARIANTS
    ImportSafe
    SignInSafe
    LiveMoveSafe
    TrainerSafe
PROPERTIES
    ProgressKept
CHECK_DEADLOCK FALSE
