----------------------------- MODULE PlayScreen -----------------------------
(***************************************************************************)
(* The app's game against the engine: the turn loop of ChessViewModel.kt,  *)
(* the board it drives (ChessBoardView.kt), and the activity that wires    *)
(* the two, saves the game after every move and resumes it                 *)
(* (MainActivity.kt).  A ply is the side that made it; which moves are     *)
(* legal, promote or end the game is left open.  Every step that touches   *)
(* the state runs on the main thread; coroutines hop there from others in  *)
(* any order.                                                              *)
(***************************************************************************)
EXTENDS Naturals, Sequences

CONSTANTS Taps,       \* coroutines of the player's moves
          AiJobs,    \* coroutines of the engine's
          MoveKinds,  \* what a legal move of the player may be
          MaxPlies,   \* bounds, for a player who is hasty or not: plies on
          MaxResets   \* the board, and states in the life of one screen

ASSUME PlayScreenAssumption ==
    /\ MoveKinds \subseteq {"SUCCESS", "PROMOTION"}
    /\ MaxPlies \in [BOOLEAN -> Nat] /\ MaxResets \in [BOOLEAN -> Nat \ {0}]

VARIABLES board,    \* ChessBoardView
          play,     \* ChessViewModel
          taps, aiJobs,
          saved,    \* the snapshot in the preferences
          resumed,  \* this screen was opened with a snapshot
          hasty     \* the player acts before the last move's coroutines are through

screenVars == <<board, play, taps, aiJobs, saved, resumed, hasty>>

Sides == {"white", "black"}
NoTap == [at |-> "idle", of |-> 0, side |-> "white", result |-> "FAILED"]
NoJob == [at |-> "idle", of |-> 0, plies |-> <<>>, white |-> TRUE, over |-> FALSE, saves |-> TRUE]
NoSnapshot == [plies |-> <<>>, white |-> TRUE, history |-> <<>>, current |-> TRUE]

\* ended: a result that nobody has consumed yet.  choosing: the promotion dialog
\* is open.  undoable: plies on the board's undo stack.
NewBoard == [plies |-> <<>>, white |-> TRUE, undoable |-> 0, over |-> FALSE, ended |-> FALSE,
             selected |-> "none", choosing |-> FALSE]

\* id is stateId; a move and a hint carry the id they were made under.
NewPlay == [turn |-> "HUMAN", thinking |-> FALSE, id |-> 0, history |-> <<>>, hint |-> {}]

SidesOf(history) == [i \in DOMAIN history |-> history[i].side]

\* The undo stack is a part of the board, and a coroutine is of a state there has been.
ScreenTypeOK ==
    /\ board.plies \in Seq(Sides) /\ board.undoable \in 0..Len(board.plies)
    /\ board.selected \in Sides \union {"none"}
    /\ board.over => board.plies # <<>>
    /\ play.turn \in {"HUMAN", "AI"} /\ play.id \in 0..MaxResets[hasty]
    /\ \A t \in Taps : taps[t].at \in {"idle", "launched", "applied", "coaching"}
                       /\ taps[t].of <= play.id
    /\ \A r \in AiJobs : aiJobs[r].at \in {"idle", "asked", "searching", "replied"}
                          /\ aiJobs[r].of <= play.id
    /\ SidesOf(play.history) \in Seq(Sides)
    /\ saved.history \in Seq(Sides)

ScreenInit ==
    /\ board = NewBoard /\ play = NewPlay
    /\ taps = [t \in Taps |-> NoTap] /\ aiJobs = [r \in AiJobs |-> NoJob]
    /\ saved = NoSnapshot
    /\ resumed = FALSE /\ hasty \in BOOLEAN

\* The main thread has run what the last tap and the last reply posted to it.
Settled ==
    /\ \A t \in Taps : taps[t].at \notin {"launched", "applied"}
    /\ \A r \in AiJobs : aiJobs[r].at # "replied"

\* The promotion dialog is modal and cannot be dismissed.
PlayerMayAct == (hasty \/ Settled) /\ ~board.choosing

-----------------------------------------------------------------------------
(* The board *)

SideToMove == IF board.white THEN "white" ELSE "black"

\* executeMove
Placed(side) == [board EXCEPT !.plies = Append(@, side), !.undoable = @ + 1]

\* The other side moves; checkAndRecordGameOver finds that it has a move, or none.
Passed(b, ends) == [b EXCEPT !.white = ~@, !.over = @ \/ ends, !.ended = @ \/ ends]

\* What the snapshot keeps of the board b: the history has not got its last move yet.
Snapshot(b) ==
    [plies |-> b.plies, white |-> b.white, history |-> SidesOf(play.history), current |-> TRUE]

\* onGameOver reports the game and clears the snapshot.
Cleared == [NoSnapshot EXCEPT !.current = FALSE]

UndoneOnce(b) ==
    IF b.undoable = 0 THEN b
    ELSE [b EXCEPT !.plies = SubSeq(@, 1, Len(@) - 1), !.undoable = @ - 1,
                   !.white = b.plies[Len(b.plies)] = "white", !.over = FALSE]

\* undoBoth: the player's move, with the engine's answer if it has come.
UndoneBoth ==
    LET once == UndoneOnce(board)
    IN  IF board.undoable > 0 /\ ~once.white THEN UndoneOnce(once) ELSE once

-----------------------------------------------------------------------------
(* The player's move *)

\* The first touch selects a piece of the side to move.
SelectPiece ==
    /\ PlayerMayAct /\ ~board.over /\ board.selected = "none"
    /\ board' = [board EXCEPT !.selected = SideToMove]
    /\ UNCHANGED <<play, taps, aiJobs, saved, resumed, hasty>>

\* The second asks for the move, which onHumanMove takes on the player's turn.
TapTarget ==
    /\ PlayerMayAct /\ ~board.over /\ board.selected # "none"
    /\ board' = [board EXCEPT !.selected = "none"]
    /\ IF play.turn = "HUMAN"
       THEN \E t \in Taps : taps[t] = NoTap
               /\ taps' = [taps EXCEPT ![t] = [NoTap EXCEPT !.at = "launched", !.of = play.id,
                                                           !.side = board.selected]]
       ELSE UNCHANGED taps
    /\ UNCHANGED <<play, aiJobs, saved, resumed, hasty>>

\* applyMove: a move of the wrong side, or of an ended game, fails.
Applied(t, result, ends) ==
    IF result = "FAILED" THEN board
    ELSE LET placed == Placed(taps[t].side)
         IN  IF result = "SUCCESS" THEN Passed(placed, ends)
             ELSE [placed EXCEPT !.choosing = TRUE]

\* The first hop: the board moves and the snapshot is written, whatever came of it.
ApplyHumanMove(t) ==
    /\ taps[t].at = "launched"
    /\ \E result \in MoveKinds \union {"FAILED"}, ends \in BOOLEAN :
          /\ result # "FAILED" => ~board.over /\ taps[t].side = SideToMove
                                  /\ Len(board.plies) < MaxPlies[hasty]
          /\ result # "SUCCESS" => ~ends
          /\ board' = Applied(t, result, ends)
          /\ saved' = Snapshot(board')
          /\ taps' = [taps EXCEPT ![t].at = "applied", ![t].result = result]
    /\ UNCHANGED <<play, aiJobs, resumed, hasty>>

\* requestAIMove on the engine's turn: one that finds the flag up asks nobody.
Ask(p, saves) ==
    IF p.thinking THEN play' = p /\ UNCHANGED aiJobs
    ELSE /\ play' = [p EXCEPT !.thinking = TRUE]
         /\ \E r \in AiJobs : aiJobs[r] = NoJob
              /\ aiJobs' = [aiJobs EXCEPT ![r] = [NoJob EXCEPT !.at = "asked", !.of = p.id,
                                                                  !.saves = saves]]

Recordable(t) == taps[t].of = play.id /\ taps[t].result = "SUCCESS"

\* The second hop: the move is recorded; then the game is reported, or the coach
\* is asked (unless the safety gate is shut) and the engine.
RecordHumanMove(t) ==
    /\ taps[t].at = "applied"
    /\ IF ~Recordable(t)
       THEN taps' = [taps EXCEPT ![t] = NoTap] /\ UNCHANGED <<board, play, aiJobs, saved>>
       ELSE LET ply == [side |-> taps[t].side, of |-> taps[t].of]
                recorded == [play EXCEPT !.history = Append(@, ply)]
            IN  IF board.ended
                THEN /\ play' = recorded
                     /\ board' = [board EXCEPT !.ended = FALSE]
                     /\ saved' = Cleared
                     /\ taps' = [taps EXCEPT ![t] = NoTap]
                     /\ UNCHANGED aiJobs
                ELSE /\ Ask([recorded EXCEPT !.turn = "AI"], TRUE)
                     /\ \E coach \in {NoTap, [NoTap EXCEPT !.at = "coaching", !.of = play.id]} :
                           taps' = [taps EXCEPT ![t] = coach]
                     /\ UNCHANGED <<board, saved>>
    /\ UNCHANGED <<resumed, hasty>>

\* onPromotionFinished: the promotion itself may have ended the game.
AfterPromotion(b) ==
    IF b.ended
    THEN board' = [b EXCEPT !.ended = FALSE] /\ saved' = Cleared /\ UNCHANGED <<play, aiJobs>>
    ELSE board' = b /\ UNCHANGED saved /\ Ask([play EXCEPT !.turn = "AI"], FALSE)

\* The player picks the piece: promotePawn and onPromotionFinished.
PickPromotion ==
    /\ board.choosing
    /\ \E ends \in BOOLEAN :
          LET promoted == Passed([board EXCEPT !.choosing = FALSE], ends)
          IN  IF play.turn = "HUMAN" THEN AfterPromotion(promoted)
              ELSE board' = promoted /\ UNCHANGED <<play, aiJobs, saved>>
    /\ UNCHANGED <<taps, resumed, hasty>>

\* Mutated form of OfThisState: a late answer counts.
OfAnyState(of) == of <= play.id

OfThisState(of) == of = play.id

\* The coach's answer to a move; a call that fails clears the hint.
HintArrives(t) ==
    /\ taps[t].at = "coaching"
    /\ IF OfThisState(taps[t].of)
       THEN \E hint \in {{}, {taps[t].of}} : play' = [play EXCEPT !.hint = hint]
       ELSE UNCHANGED play
    /\ taps' = [taps EXCEPT ![t] = NoTap]
    /\ UNCHANGED <<board, aiJobs, saved, resumed, hasty>>

-----------------------------------------------------------------------------
(* The engine's reply *)

ExportPosition(r) ==
    /\ aiJobs[r].at = "asked" /\ aiJobs[r].of = play.id
    /\ aiJobs' = [aiJobs EXCEPT ![r].at = "searching", ![r].plies = board.plies,
                                  ![r].white = board.white, ![r].over = board.over]
    /\ UNCHANGED <<board, play, taps, saved, resumed, hasty>>

AskedHere(q) == q.plies = board.plies /\ q.white = board.white

\* No move, or a fault: the player goes on.
GiveTurnBack == play' = [play EXCEPT !.turn = "HUMAN"]

\* The engine finds a move if there is one.  applyAIMove drops a move that the
\* board has made illegal meanwhile; the history takes it all the same.
MakeReply(r) ==
    LET q == aiJobs[r]
        side == IF q.white THEN "white" ELSE "black"
    IN  /\ ~q.over /\ Len(board.plies) < MaxPlies[hasty]
        /\ play' = [play EXCEPT !.turn = "HUMAN",
                                !.history = Append(@, [side |-> side, of |-> q.of])]
        /\ \E legal, ends \in BOOLEAN :
              /\ AskedHere(q) => legal
              /\ legal => ~board.over /\ side = SideToMove
              /\ ends => legal
              /\ LET moved == IF legal THEN Passed(Placed(side), ends) ELSE board
                 IN  /\ board' = [moved EXCEPT !.ended = FALSE]
                     /\ saved' = IF moved.ended THEN Cleared
                                 ELSE IF q.saves THEN Snapshot(moved) ELSE saved

\* processAIMoveResult, in the state that asked.
ReplyArrives(r) ==
    /\ aiJobs[r].at = "searching" /\ aiJobs[r].of = play.id
    /\ aiJobs' = [aiJobs EXCEPT ![r] = [NoJob EXCEPT !.at = "replied", !.of = play.id]]
    /\ \/ play.turn = "AI" /\ MakeReply(r)
       \/ play.turn = "AI" /\ GiveTurnBack /\ UNCHANGED <<board, saved>>
       \/ play.turn # "AI" /\ UNCHANGED <<board, play, saved>>
    /\ UNCHANGED <<taps, resumed, hasty>>

\* The finally of a reply that is through, or was cancelled, or is discarded: it
\* lowers the flag, whoever raised it.
ReplyEnds(r) ==
    /\ aiJobs[r].at = "replied" \/ (aiJobs[r] # NoJob /\ aiJobs[r].of # play.id)
    /\ aiJobs' = [aiJobs EXCEPT ![r] = NoJob]
    /\ play' = [play EXCEPT !.thinking = FALSE]
    /\ UNCHANGED <<board, taps, saved, resumed, hasty>>

-----------------------------------------------------------------------------
(* Leaving a game *)

\* invalidateState
Invalidated == [NewPlay EXCEPT !.id = play.id + 1]

\* The undo button takes moves off the board and every move off the history.
Undo ==
    /\ PlayerMayAct /\ play.id < MaxResets[hasty]
    /\ board' = UndoneBoth
    /\ play' = Invalidated
    /\ UNCHANGED <<taps, aiJobs, saved, resumed, hasty>>

\* performResetGame: resetBoard keeps a result that nobody has consumed.
ResetGame ==
    /\ PlayerMayAct /\ play.id < MaxResets[hasty]
    /\ board' = [NewBoard EXCEPT !.ended = board.ended]
    /\ play' = Invalidated
    /\ saved' = NoSnapshot
    /\ resumed' = FALSE
    /\ UNCHANGED <<taps, aiJobs, hasty>>

\* restoreMoveHistory infers the turn from the number of moves.
Restored(s) ==
    [NewPlay EXCEPT !.id = 1, !.turn = IF Len(s.history) % 2 = 0 THEN "HUMAN" ELSE "AI",
                    !.history = [i \in DOMAIN s.history |-> [side |-> s.history[i], of |-> 1]]]

\* The screen goes with its coroutines: the exit button saves the game first,
\* the back gesture and a killed process do not.  It comes back with the
\* snapshot, or with a new game.
LeaveAndReturn ==
    \E exits, resumes \in BOOLEAN :
       LET kept == IF exits /\ play.history # <<>> THEN Snapshot(board) ELSE saved
       IN  /\ exits => PlayerMayAct
           /\ resumes => kept.current /\ kept.history # <<>>
           /\ IF resumes
              THEN /\ board' = [NewBoard EXCEPT !.plies = kept.plies, !.white = kept.white]
                   /\ play' = Restored(kept) /\ saved' = kept
              ELSE board' = NewBoard /\ play' = NewPlay /\ saved' = NoSnapshot
           /\ resumed' = resumes
           /\ taps' = [t \in Taps |-> NoTap] /\ aiJobs' = [r \in AiJobs |-> NoJob]
           /\ UNCHANGED hasty

ScreenNext ==
    \/ SelectPiece \/ TapTarget \/ PickPromotion \/ Undo \/ ResetGame \/ LeaveAndReturn
    \/ \E t \in Taps : ApplyHumanMove(t) \/ RecordHumanMove(t) \/ HintArrives(t)
    \/ \E r \in AiJobs : ExportPosition(r) \/ ReplyArrives(r) \/ ReplyEnds(r)

ScreenSpec == ScreenInit /\ [][ScreenNext]_screenVars

-----------------------------------------------------------------------------
(* Properties *)

\* However resets, undos, moves, hints and aiJobs interleave, the history and
\* the hint are of the state that is shown (stateId; ChessViewModelTest 67,
\* "AI move is discarded after reset").
StaleDiscarded ==
    /\ \A i \in DOMAIN play.history : play.history[i].of = play.id
    /\ play.hint \subseteq {play.id}

\* ChessViewModel.kt 288-293: no fault "must leave `turn = AI` (board frozen
\* forever)".  A player who waits for the coroutines of the move before, on a
\* screen that was not resumed, always has the turn or a reply under way.
NeverFrozen ==
    ~hasty /\ ~resumed /\ play.turn = "AI" =>
        \E r \in AiJobs : aiJobs[r].at \in {"asked", "searching"} /\ aiJobs[r].of = play.id

\* ChessViewModel.kt 235-239: a move that ends the game, a promotion too, is
\* reported as soon as the main thread is through with it, and the engine is
\* never asked for a move in a finished position.
EndIsReported ==
    ~hasty =>
        /\ Settled /\ ~board.choosing => ~board.ended
        /\ \A r \in AiJobs : aiJobs[r].at = "searching" => ~aiJobs[r].over

\* ChessViewModel.kt 499-507: the call that restores the history "resyncs the
\* ViewModel", so that the exported game has every move played before, and the
\* count is "the true half-move number".
ResumedInStep ==
    resumed /\ play.id = 1 /\ Settled => SidesOf(play.history) = board.plies

\* The game screen shows one state of the game, and always goes on with it.
ScreenSafe == ScreenTypeOK /\ StaleDiscarded /\ NeverFrozen /\ EndIsReported
=============================================================================
