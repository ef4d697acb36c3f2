SPECIFICATION ImportSpec
CONSTANTS
    p1 = p1
    p2 = p2
    h1 = h1
    h2 = h2
    NoOne = NoOne
    Players = {p1, p2}
    Handles = {h1, h2}
    Proves <- Ownership
    Registered <- SignedUpWith
    Games <- TwoGames
    Unusable = {}
    MaxGames = 2
    Kinds = {"job", "sync"}
    MaxRuns = 2
    MaxLinks = 2
    MaxStops = 1
    MaxClosed = 1
INVARIANT
    StoredGamesSkipped
CHECK_DEADLOCK FALSE
