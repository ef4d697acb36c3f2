SPECIFICATION SessionSpec
CONSTANTS
    MaxCalls = 4
    Habits <- CarefulOkOrAccepted
    Grace = 2
    MaxSeconds = 6
    NoToken = NoToken
INVARIANT
    ActiveClientStaysIn
CHECK_DEADLOCK FALSE
