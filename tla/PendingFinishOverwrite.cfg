SPECIFICATION PendingSpec
CONSTANTS
    NoPayload = NoPayload
    DeviceGames = {g1, g2}
    MaxAttempts = 2
PROPERTY
    RetryClearsOwnPayload
CHECK_DEADLOCK FALSE
