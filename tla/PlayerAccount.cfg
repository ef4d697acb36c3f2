SPECIFICATION AccountSpec
CONSTANTS
    r1 = r1
    r2 = r2
    r3 = r3
    r4 = r4
    g1 = g1
    NoGame = NoGame
    None = None
    Requests <- FourRequests
    GameOf <- Retries
    MaxCalls = 3
    Habits <- TwoHabits
    Grace = 2
    MaxSeconds = 3
    NoToken = NoToken
    Threads = {t1, t2}
    CoachedGames = {x1, x2, x3}
    ChatLimit = 1
    GameLimit = 1
    Window = 2
    MaxTicks = 4
    MaxUnread = 1
    NoRow = NoRow
    Emails = {"mail"}
    LichessIds = {"lich"}
    Passwords = {"first", "second"}
    AuthRequests = {a1, a2}
    MAX_SESSIONS = 2
    SESSION_EXTEND = 1
    SLIDE_THRESHOLD = 1
    ACCESS_EXPIRE = 1
    MaxAccounts = 2
    MaxLogins = 3
    MaxEvents = 4
    MaxFailures = 2
    Servers = {b1, b2}
    Migrations <- SchemaSteps
    Fks = {f1}
    MaxKills = 1
    Taps = {m1, m2}
    AiJobs = {y1}
    MoveKinds = {"SUCCESS", "PROMOTION"}
    MaxPlies <- FewPlies
    MaxResets <- FewResets
SYMMETRY EitherRequest
INVARIANTS
    FinishSafe
    RotationSafe
    MeterSafe
    AccountsSafe
    BillingSafe
    BootSafe
    ScreenSafe
PROPERTIES
    ImplementsLedger
CHECK_DEADLOCK FALSE
