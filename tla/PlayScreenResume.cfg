SPECIFICATION ScreenSpec
CONSTANTS
    Taps = {m1}
    AiJobs = {y1}
    MoveKinds = {"SUCCESS"}
    MaxPlies <- FewPlies
    MaxResets <- FewResets
INVARIANT
    ResumedInStep
CHECK_DEADLOCK FALSE
