--------------------------- MODULE PuzzleTrainer ---------------------------
(***************************************************************************)
(* The puzzle trainer: what GET /puzzles/next serves (puzzles/router.py)   *)
(* from a Lichess payload (lichess/client.py) or from the corpus files     *)
(* (coach/study_plan/library.py), what POST /training/verify-replay says   *)
(* of a move (mistakes/router.py), and the app's sheet that walks the      *)
(* solution (PuzzleTrainerBottomSheet.kt).  A position is the moves that   *)
(* lead to it.                                                             *)
(***************************************************************************)
EXTENDS Naturals, SequencesExt

CONSTANTS PuzzleMoves, \* the moves, as the app and the server write them
          Tree,       \* the positions that legal moves lead to
          Sound,      \* those whose last move the engine lets pass
          Promotion,  \* the moves that promote a pawn
          Payloads,   \* what Lichess may answer
          Corpora,    \* what the corpus files may hold
          Checks      \* attempts whose answer is out

ASSUME TrainerAssumption ==
    /\ Tree \subseteq Seq(PuzzleMoves) /\ <<>> \in Tree
    /\ \A p \in Tree : \A n \in 0..Len(p) : SubSeq(p, 1, n) \in Tree
    /\ Sound \subseteq Tree
    /\ \A p \in Payloads : {p.pgn, p.solution} \subseteq Seq(PuzzleMoves) /\ p.ply \in Nat
    /\ \A c \in Corpora : \A e \in ToSet(c) :
          {e.fen, e.line} \subseteq Seq(PuzzleMoves) /\ e.expected \in PuzzleMoves

VARIABLES corpus,   \* the entries of the files
          hint,     \* the difficulty the player's rating asks for
          sheet,    \* the open sheet
          checks    \* the attempts between the move and the last answer

trainerVars == <<corpus, hint, sheet, checks>>

Hints == {"beginner", "advanced"}
NoPuzzle == [id |-> "none", fen |-> <<>>, line |-> <<>>]
NoCheck == [stage |-> "idle", puzzle |-> NoPuzzle, fen |-> <<>>, move |-> "none"]

\* The sheet fetches a puzzle as soon as it is shown.  crossed: the puzzle came
\* while a move in the one before it was being checked.
Shown == [puzzle |-> NoPuzzle, index |-> 0, fen |-> <<>>, board |-> <<>>,
          open |-> FALSE, fetching |-> TRUE, crossed |-> FALSE]

TrainerTypeOK ==
    /\ corpus \in Corpora /\ hint \in Hints
    /\ {sheet.fen, sheet.board} \subseteq Tree
    /\ sheet.index = 0 \/ sheet.index < Len(sheet.puzzle.line)
    /\ sheet.puzzle = NoPuzzle => ~sheet.open
    /\ \A k \in Checks :
          /\ checks[k].stage \in {"idle", "verify", "solve"}
          /\ checks[k].stage = "idle" <=> checks[k].puzzle = NoPuzzle
          /\ checks[k].stage # "idle" => Append(checks[k].fen, checks[k].move) \in Tree

TrainerInit ==
    /\ corpus \in Corpora /\ hint \in Hints
    /\ sheet = Shown
    /\ checks = [k \in Checks |-> NoCheck]

-----------------------------------------------------------------------------
(* The puzzles the server serves *)

\* The solver's position: the game as far as the payload says it goes.
Decision(p) == SubSeq(p.pgn, 1, IF Len(p.pgn) > p.ply THEN p.ply + 1 ELSE Len(p.pgn))

\* _parse_puzzle_payload replays the game and then the whole solution.
Accepted(p) == p.complete /\ p.solution # <<>> /\ Decision(p) \o p.solution \in Tree

OfLichess ==
    {[id |-> p.id, fen |-> Decision(p), line |-> p.solution] : p \in {q \in Payloads : Accepted(q)}}

\* An entry of the corpus: its line, if it has one, begins with the expected move.
Valid(e) ==
    /\ e.complete /\ Append(e.fen, e.expected) \in Tree
    /\ e.line # <<>> => e.line[1] = e.expected /\ e.fen \o e.line \in Tree

\* load_library fails as a whole at the first entry that is not valid, or repeats an id.
Loads ==
    /\ \A i \in DOMAIN corpus : Valid(corpus[i])
    /\ \A i, j \in DOMAIN corpus : corpus[i].id = corpus[j].id => i = j

\* _corpus_pick: one of the player's difficulty, or any if there is none.
CorpusPicks ==
    LET all == ToSet(corpus)
        banded == {e \in all : e.band = hint}
    IN  {[id |-> e.id, fen |-> e.fen, line |-> IF e.line = <<>> THEN <<e.expected>> ELSE e.line] :
            e \in IF banded = {} THEN all ELSE banded}

\* next_puzzle: Lichess first; the corpus when Lichess is down, off, or not understood.
NextPuzzles == OfLichess \union (IF Loads THEN CorpusPicks ELSE {})

-----------------------------------------------------------------------------
(* The sheet *)

\* "Next puzzle" does nothing while a fetch is out, and stays live during a check.
FetchNextPuzzle ==
    /\ ~sheet.fetching
    /\ sheet' = [sheet EXCEPT !.fetching = TRUE, !.open = FALSE]
    /\ UNCHANGED <<corpus, hint, checks>>

\* 503 without a corpus, 500 with a malformed one, or the network: the board stays locked.
FetchFails ==
    /\ sheet.fetching
    /\ sheet' = [sheet EXCEPT !.fetching = FALSE]
    /\ UNCHANGED <<corpus, hint, checks>>

\* The sheet with a new puzzle.
Loaded(p) ==
    [Shown EXCEPT !.puzzle = p, !.fen = p.fen, !.board = p.fen, !.open = TRUE, !.fetching = FALSE,
                  !.crossed = \E k \in Checks : checks[k].stage # "idle"]

PuzzleArrives ==
    /\ sheet.fetching
    /\ \E p \in NextPuzzles : sheet' = Loaded(p)
    /\ UNCHANGED <<corpus, hint, checks>>

\* Mutated form of Reset: the walk begins again.
ResetWalk(s) ==
    [s EXCEPT !.board = s.puzzle.fen, !.fen = s.puzzle.fen, !.index = 0, !.open = TRUE]

\* resetPosition: to the decision the walk has reached.
Reset(s) == [s EXCEPT !.board = s.fen, !.open = TRUE]

\* The move is tried on the board, which is locked, and sent with the position.
HandleAttempt(k) ==
    /\ sheet.open /\ checks[k] = NoCheck
    /\ \E p \in {q \in Tree : q # <<>> /\ Front(q) = sheet.board} :
          /\ sheet' = [sheet EXCEPT !.board = p, !.open = FALSE]
          /\ checks' = [checks EXCEPT ![k] =
                 [stage |-> "verify", puzzle |-> sheet.puzzle, fen |-> sheet.fen, move |-> Last(p)]]
    /\ UNCHANGED <<corpus, hint>>

\* verify_replay: a promotion is sent without its piece and is illegal so.
IsCorrect(c) == c.move \notin Promotion /\ Append(c.fen, c.move) \in Sound

\* Mutated form of FollowsLine: the walk ends one move of the solver early.
FollowsLineShort(line, index, move) ==
    Len(line) >= 3 /\ index + 3 < Len(line) /\ line[index + 1] = move

\* nextDrillStep: the move is the line's, and the solver has another one after it.
FollowsLine(line, index, move) ==
    Len(line) >= 3 /\ index + 2 < Len(line) /\ line[index + 1] = move

\* advanceWalk plays the reply, if the board takes it; a move that ends the line, or
\* leaves it, goes to POST /training/solve.  Line, index and board are those of now.
Approved(k) ==
    /\ checks[k].stage = "verify" /\ IsCorrect(checks[k])
    /\ LET line == sheet.puzzle.line
           replied == Append(sheet.board, line[sheet.index + 2])
       IN  IF FollowsLine(line, sheet.index, checks[k].move) /\ replied \in Tree
           THEN /\ sheet' = [sheet EXCEPT !.index = @ + 2, !.board = replied, !.fen = replied, !.open = TRUE]
                /\ checks' = [checks EXCEPT ![k] = NoCheck]
           ELSE checks' = [checks EXCEPT ![k].stage = "solve"] /\ UNCHANGED sheet
    /\ UNCHANGED <<corpus, hint>>

\* A wrong move, a refused one, an engine that is busy, a solve that is not saved.
NotApproved(k) ==
    /\ checks[k] # NoCheck
    /\ sheet' = Reset(sheet)
    /\ checks' = [checks EXCEPT ![k] = NoCheck]
    /\ UNCHANGED <<corpus, hint>>

\* The credit has come: the board stays as it is.
Credited(k) ==
    /\ checks[k].stage = "solve"
    /\ checks' = [checks EXCEPT ![k] = NoCheck]
    /\ UNCHANGED <<corpus, hint, sheet>>

\* The sheet is closed and opened again; its calls are cancelled.
Reopen ==
    /\ sheet' = Shown
    /\ checks' = [k \in Checks |-> NoCheck]
    /\ UNCHANGED <<corpus, hint>>

TrainerNext ==
    \/ FetchNextPuzzle \/ FetchFails \/ PuzzleArrives \/ Reopen
    \/ \E k \in Checks : HandleAttempt(k) \/ Approved(k) \/ NotApproved(k) \/ Credited(k)

TrainerSpec == TrainerInit /\ [][TrainerNext]_trainerVars

-----------------------------------------------------------------------------
(* Properties *)

Whole(p) == p.fen \o p.line

\* lichess/client.py 693-700: whatever Lichess and the files hold, the line of a puzzle
\* that is served is not empty and legal from the puzzle's position.  That the player
\* can walk it is not said: the board cannot send a promotion, and a move that mates
\* is refused.
ServedLegal == sheet.puzzle # NoPuzzle => sheet.puzzle.line # <<>> /\ Whole(sheet.puzzle) \in Tree

\* PuzzleTrainerBottomSheet.kt 53-59: the XP of a puzzle is asked for after a sound
\* move that leaves the line, or when no move of the solver is left in it, for a
\* puzzle that did not cross with the check of another's move.
CreditNeedsWalk ==
    ~sheet.crossed => \A k \in Checks :
        checks[k].stage = "solve" =>
            LET c == checks[k]
                walked == Append(c.fen, c.move)
            IN  /\ walked \in Sound /\ IsPrefix(c.fen, Whole(c.puzzle))
                /\ IsPrefix(walked, Whole(c.puzzle)) => Len(walked) >= Len(Whole(c.puzzle)) - 1

\* The player moves on the position that is sent with the move, and that position
\* is the puzzle's after the moves found so far, but for a puzzle that crossed.
BoardIsWalk ==
    sheet.open /\ ~sheet.crossed =>
        /\ sheet.board = sheet.fen
        /\ sheet.fen = sheet.puzzle.fen \o SubSeq(sheet.puzzle.line, 1, sheet.index)

\* PuzzleTrainerBottomSheet.kt 60-62: whatever is answered, and in which order, no
\* answer takes back what has been found of the puzzle on the board.
ProgressKept ==
    [][sheet'.fetching = sheet.fetching /\ sheet'.puzzle # NoPuzzle
          => sheet'.index >= sheet.index /\ IsPrefix(sheet.fen, sheet'.fen)]_trainerVars

\* A puzzle that is served has a legal line, is played on the board it is about, and
\* is paid for at the end of the line or for a sound move off it.
TrainerSafe == TrainerTypeOK /\ ServedLegal /\ CreditNeedsWalk /\ BoardIsWalk
=============================================================================
