SPECIFICATION GameSpec
CONSTANTS
    Tables <- OneTable
    Pieces <- PieceCount
    BookPlies = 0
INVARIANT
    MatingMoveAccepted
CHECK_DEADLOCK FALSE
