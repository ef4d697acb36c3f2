---------------------------- MODULE GameAnalysis ----------------------------
(***************************************************************************)
(* What the server makes of a finished game's engine evaluations: the      *)
(* player's losses (analysis/pgn_accuracy.py), the first mistake           *)
(* (mistakes/detector.py), the check of a replayed move (verify.py) and    *)
(* the critical moments of a review (review/moments.py).                   *)
(*                                                                         *)
(* A game is the evaluations of its positions, from White's side, played   *)
(* a ply at a time; each game draws them from one of a few tables.  The    *)
(* invariants judge every prefix of every game.  Scores of moments are in  *)
(* thousandths, so that the magnitude bonus is an integer.                 *)
(***************************************************************************)
EXTENDS Integers, Sequences, FiniteSets, FiniteSetsExt

MATE_VALUE_CP == 10000

CONSTANTS Tables,    \* the evaluations a game starts with and is made of, mate
                     \* in n as its value, and a bound on its plies
          Pieces(_), \* pieces on the board before a ply
          BookPlies  \* OPENING_BOOK_PLIES

ASSUME GameAnalysisAssumption ==
    /\ \A t \in Tables : t.start \in t.cps /\ t.cps \subseteq -MATE_VALUE_CP..MATE_VALUE_CP /\ t.plies \in Nat
    /\ BookPlies \in Nat

VARIABLES
    side,   \* the player's colour, "none" before the game
    table,  \* the table this game draws from
    series, \* white_pov_eval_per_position_cp, from the start position on
    mated   \* the last ply gave checkmate

gameVars == <<side, table, series, mated>>

INACCURACY == 50
MISTAKE == 150     \* also MIN_MISTAKE_LOSS_CP
BLUNDER == 300
WINNING == 200
LOSING == 200
HOLD_LOSS_MAX == 50
OPPONENT_ERROR_SWING == 150
MIN_PLY_GAP == 3
VERIFY_THRESHOLD == 30

Plies == 1..(Len(series) - 1)
WhiteMoves(ply) == ply % 2 = 1
Sign == IF side = "white" THEN 1 ELSE -1
Mine(ply) == WhiteMoves(ply) = (side = "white")
MyPlies == {ply \in Plies : Mine(ply)}

-----------------------------------------------------------------------------
(* pgn_accuracy.py: the walk *)

\* _evaluate_cp: mate in n collapses to a value; mate 0 is a position in which
\* the side to move has lost.
EvaluateCp(type, value, whiteToMove) ==
    CASE type = "cp" -> value
      [] type = "mate" /\ value > 0 -> MATE_VALUE_CP
      [] type = "mate" /\ value < 0 -> -MATE_VALUE_CP
      [] type = "mate" /\ value = 0 -> IF whiteToMove THEN -MATE_VALUE_CP ELSE MATE_VALUE_CP

NoTable == [start |-> 0, cps |-> {0}, plies |-> 0]

GameInit == side = "none" /\ table = NoTable /\ series = <<>> /\ mated = FALSE

\* The evaluation of the start position comes first.
Begin ==
    /\ side = "none"
    /\ side' \in {"white", "black"}
    /\ table' \in Tables
    /\ series' = <<EvaluateCp("cp", table'.start, TRUE)>>
    /\ UNCHANGED mated

Evaluate(type, value) ==
    /\ side # "none" /\ ~mated /\ Len(series) <= table.plies
    /\ series' = Append(series, EvaluateCp(type, value, WhiteMoves(Len(series) + 1)))
    /\ UNCHANGED <<side, table>>

PlayPly == UNCHANGED mated /\ \E cp \in table.cps : Evaluate("cp", cp)
GiveMate == mated' = TRUE /\ Evaluate("mate", 0)

GameNext == Begin \/ PlayPly \/ GiveMate
GameSpec == GameInit /\ [][GameNext]_gameVars

Eval(ply) == series[ply + 1]
MaxZero(n) == IF n > 0 THEN n ELSE 0

\* The loss of a player's move, and its evaluations from the player's side.
LossCp(ply) == IF side = "white" THEN MaxZero(Eval(ply - 1) - Eval(ply))
               ELSE MaxZero(Eval(ply) - Eval(ply - 1))
BeforePov(ply) == Sign * Eval(ply - 1)
AfterPov(ply) == Sign * Eval(ply)

Phase(ply) ==
    IF Pieces(ply) > 24 THEN "opening" ELSE IF Pieces(ply) > 12 THEN "middlegame" ELSE "endgame"

\* _summarise: the counts by severity, and for every phase with errors how
\* many of the player's moves were mistakes or blunders in it.
LossBetween(low, high) == {ply \in MyPlies : LossCp(ply) >= low /\ LossCp(ply) < high}
Blunders == {ply \in MyPlies : LossCp(ply) >= BLUNDER}
Summary ==
    [blunders |-> Cardinality(Blunders),
     mistakes |-> Cardinality(LossBetween(MISTAKE, BLUNDER)),
     inaccuracies |-> Cardinality(LossBetween(INACCURACY, MISTAKE)),
     weaknesses |-> [phase \in {Phase(ply) : ply \in {x \in MyPlies : LossCp(x) >= MISTAKE}} |->
                       Cardinality({x \in MyPlies : Phase(x) = phase /\ LossCp(x) >= MISTAKE})]]

-----------------------------------------------------------------------------
(* detector.py and verify.py *)

\* Mutated form of TransitionTrip: reaching the losing line is not crossing it.
TransitionTripLate(ply) == BeforePov(ply) >= -LOSING /\ AfterPov(ply) < -LOSING

TransitionTrip(ply) == BeforePov(ply) > -LOSING /\ AfterPov(ply) <= -LOSING

\* find_first_mistake: the plies that trip a signal; the first is the answer.
Trips == {ply \in MyPlies : LossCp(ply) >= MISTAKE \/ TransitionTrip(ply)}
FirstMistake == IF Trips = {} THEN 0 ELSE Min(Trips)

\* _score_from_pov: the sign of a mate score, where mate 0 counts as lost.
ScoreFromPov(type, value) ==
    IF type = "cp" THEN value ELSE IF value > 0 THEN MATE_VALUE_CP ELSE -MATE_VALUE_CP

\* verify_replay_move of the move a player made at a ply: the engine, asked for
\* the positions before and after it, answers as it did for the game.
IsCorrect(ply) ==
    LET user == IF mated /\ ply = Len(series) - 1
                THEN ScoreFromPov("mate", 0) ELSE ScoreFromPov("cp", AfterPov(ply))
    IN  ScoreFromPov("cp", BeforePov(ply)) - user <= VERIFY_THRESHOLD

-----------------------------------------------------------------------------
(* moments.py *)

\* The swing of the opponent's preceding ply.
OppPriorSwing(ply) == IF ply = 1 THEN 0 ELSE Sign * (Eval(ply - 1) - Eval(ply - 2))
RecordLoss(ply) == MaxZero(BeforePov(ply) - AfterPov(ply))
Bonus(n) == IF n > 1000 THEN 1000 ELSE n

Moment(ply, type, score) == [ply |-> ply, type |-> type, score |-> score]

Base(type) ==
    CASE type = "missed_win" -> 100000 [] type = "blunder" -> 90000
      [] type = "punished_mistake" -> 70000 [] type = "mistake" -> 60000 [] OTHER -> 0

\* _classify, in the order of its tests.
Classify(ply) ==
    LET loss == RecordLoss(ply)
        swing == OppPriorSwing(ply)
        type == IF BeforePov(ply) >= WINNING /\ loss >= MISTAKE THEN "missed_win"
                ELSE IF loss >= BLUNDER THEN "blunder"
                ELSE IF swing >= OPPONENT_ERROR_SWING /\ loss <= HOLD_LOSS_MAX THEN "punished_mistake"
                ELSE IF loss >= MISTAKE THEN "mistake" ELSE "none"
    IN  Moment(ply, type, Base(type) + Bonus(IF type = "punished_mistake" THEN swing ELSE loss))

Eligible == {ply \in MyPlies : ply > BookPlies}
Remarkable == {Classify(ply) : ply \in {x \in Eligible : Classify(x).type # "none"}}
ReviewMode == IF Remarkable = {} THEN "strategic" ELSE "standard"
Candidates ==
    IF Remarkable # {} THEN Remarkable
    ELSE {Moment(ply, "strategic", 1000 * RecordLoss(ply)) : ply \in {x \in Eligible : RecordLoss(x) > 0}}

Better(a, b) == a.score > b.score \/ (a.score = b.score /\ a.ply < b.ply)
Ranked == LET all == Candidates
          IN  [i \in 1..Cardinality(all) |-> CHOOSE c \in all :
                 Cardinality({d \in all : Better(d, c)}) = i - 1]

Distance(a, b) == IF a.ply > b.ply THEN a.ply - b.ply ELSE b.ply - a.ply
TooClose(c, picked) == \E s \in picked : Distance(c, s) < MIN_PLY_GAP
Negative(c) == c.type \in {"blunder", "missed_win", "mistake"}
Negatives(picked) == {c \in picked : Negative(c)}
PositiveAvailable == \E c \in Candidates : ~Negative(c)

\* The next of the ranking is taken while slots are left; a pass that is capped
\* takes at most two negatives.
Took(picked, c, capped) ==
    IF /\ Cardinality(picked) < 3 /\ c \notin picked /\ ~TooClose(c, picked)
       /\ ~(capped /\ Negative(c) /\ Cardinality(Negatives(picked)) >= 2)
    THEN picked \union {c} ELSE picked

\* A pass over the ranking.
PickPass(start, capped) ==
    LET ranked == Ranked
        after[i \in 0..Len(ranked)] ==
            IF i = 0 THEN start ELSE Took(after[i - 1], ranked[i], capped)
    IN  after[Len(ranked)]

\* The cap holds as long as there is a positive candidate.
FirstPass == PickPass({}, PositiveAvailable)

\* Any candidate fills the slots that are left.
SecondPass(picked) == PickPass(picked, FALSE)

CriticalMoments == SecondPass(FirstPass)

-----------------------------------------------------------------------------
(* Properties *)

\* The errors a phase answers for.
Share(weaknesses, phase) == IF phase \in DOMAIN weaknesses THEN weaknesses[phase] ELSE 0

\* The evaluations recorded; the two producers of losses agree on them, and the
\* phases share out the errors counted.
GameTypeOK ==
    /\ side \in {"none", "white", "black"} /\ table \in Tables \union {NoTable}
    /\ mated \in BOOLEAN
    /\ \A i \in DOMAIN series :
         series[i] \in table.cps \/ (mated /\ i = Len(series) /\ series[i] \in {-MATE_VALUE_CP, MATE_VALUE_CP})
    /\ \A ply \in MyPlies : LossCp(ply) = RecordLoss(ply)
    /\ LET all == Summary
       IN  Share(all.weaknesses, "opening") + Share(all.weaknesses, "middlegame")
               + Share(all.weaknesses, "endgame") = all.blunders + all.mistakes

\* pgn_accuracy.py 377-384: the move that mates is never graded an error.
MatingMoveNoError ==
    mated /\ Mine(Len(series) - 1) => Len(series) - 1 \notin Trips \union Blunders

\* detector.py 5-40: a player who slides from a playable position to a lost one
\* is shown a mistake, however small the steps, unless the opponent's move is
\* what crossed the line.
SlideIsNoticed ==
    LET Pov(ply) == Sign * Eval(ply)
        Crossed(ply) == Pov(ply - 1) > -LOSING /\ Pov(ply) <= -LOSING
    IN  Plies # {} /\ Pov(0) > -LOSING /\ Pov(Len(series) - 1) <= -LOSING
            /\ (\A ply \in Plies \ MyPlies : ~Crossed(ply))
        => FirstMistake # 0

\* moments.py 310-314: the strategic mode means that no move after the opening
\* counts as a mistake or a blunder in the game's summary either.
StrategicMeansNoErrors ==
    ReviewMode = "strategic" =>
        Summary.blunders + Summary.mistakes =
            Cardinality({ply \in MyPlies \ Eligible : LossCp(ply) >= MISTAKE})

\* moments.py 350-353: a card is missing only when every moment left is too
\* close to one that is shown.
CardsFilled ==
    LET shown == CriticalMoments
    IN  Cardinality(shown) < 3 => \A c \in Candidates \ shown : TooClose(c, shown)

\* moments.py 337-349: all three cards are negative only when every positive
\* moment is too close to one of them.
NegativesCapped ==
    LET shown == CriticalMoments
    IN  Cardinality(Negatives(shown)) = 3 =>
            \A c \in Candidates : ~Negative(c) => TooClose(c, shown)

\* verify.py 79-80: "True when the user's move gave up at most
\* VERIFY_THRESHOLD_CP centipawns vs the engine's best": checkmate gives up
\* nothing.
MatingMoveAccepted == mated /\ Mine(Len(series) - 1) => IsCorrect(Len(series) - 1)

\* A game is told one story: its losses, its errors, its first mistake, the mode of
\* its review and the moments on its cards agree.
AnalysisSafe ==
    GameTypeOK /\ MatingMoveNoError /\ SlideIsNoticed /\ StrategicMeansNoErrors
    /\ CardsFilled /\ NegativesCapped
=============================================================================
