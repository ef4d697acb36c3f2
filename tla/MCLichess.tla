------------------------------ MODULE MCLichess ------------------------------
(* Requests that wait for another service.  A player and Lichess: imports,     *)
(* with the players and games of MCLichessImport, and sign-in, link and        *)
(* erasure with one code for each.  The engine and the database's connections: *)
(* the comment on a move, and the evaluation badge.  Both: the trainer and its *)
(* puzzles.  They share no state here: a behaviour is one of the component its *)
(* `part` names, the others rest where they start.                             *)
EXTENDS MCLichessImport, LichessSignIn, LiveMove, PuzzleTrainer, TLC

CONSTANTS s1, k1, e1

VARIABLE part

Routes == (s1 :> "signin") @@ (k1 :> "link") @@ (e1 :> "erase")

\* Scores whose differences take every grade.
SomeScores == {-130, -50, 0}

\* A line of two decisions with a sound deviation and a wrong move at each, a
\* single decision, a promotion, and a short line of the corpus.
PuzzleGames == {<<"a", "b", "c", "d">>, <<"a", "b", "c", "w">>, <<"a", "e", "c">>, <<"a", "w">>,
           <<"f", "g">>, <<"f", "w">>, <<"q">>}
MoveTree == UNION {{SubSeq(g, 1, n) : n \in 0..Len(g)} : g \in PuzzleGames}
SoundMoves == {<<"a", "b">>, <<"a", "b", "c">>, <<"a", "b", "c", "d">>, <<"a", "e">>, <<"f", "g">>, <<"q">>}

\* The game may come whole, the solution may stop fitting it, a part may be missing.
LichessPuzzles ==
    {[id |-> "walk", pgn |-> <<"a", "b", "c">>, ply |-> 0, solution |-> <<"b", "c", "d">>, complete |-> TRUE],
     [id |-> "one", pgn |-> <<"f">>, ply |-> 5, solution |-> <<"g">>, complete |-> TRUE],
     [id |-> "drifted", pgn |-> <<"a">>, ply |-> 0, solution |-> <<"b", "d", "c">>, complete |-> TRUE],
     [id |-> "broken", pgn |-> <<"a">>, ply |-> 0, solution |-> <<"b">>, complete |-> FALSE]}

Queen == [id |-> "queen", fen |-> <<>>, expected |-> "q", line |-> <<>>, band |-> "advanced",
          complete |-> TRUE]
Pair == [Queen EXCEPT !.id = "pair", !.fen = <<"a", "b">>, !.expected = "c", !.line = <<"c", "d">>]
CorpusFiles == {<<>>, <<Queen, Pair>>, <<Queen, [Pair EXCEPT !.expected = "d"]>>, <<Pair, Pair>>}

LichessInit ==
    /\ part \in {"import", "signin", "moves", "badge", "trainer"}
    /\ ImportInit /\ SignInInit /\ LiveMoveInit /\ TrainerInit
    /\ part # "trainer" => corpus = <<>> /\ hint = "beginner"
    /\ part # "signin" => ~account.exists
    /\ part \notin {"moves", "badge"} => ~enginePool

LichessNext ==
    /\ UNCHANGED part
    /\ \/ part = "import" /\ ImportNext /\ UNCHANGED <<signInVars, liveVars, trainerVars>>
       \/ part = "signin" /\ SignInNext /\ UNCHANGED <<importVars, liveVars, trainerVars>>
       \/ part = "moves" /\ DbNext /\ UNCHANGED <<importVars, signInVars, trainerVars>>
       \/ part = "badge" /\ EvalNext /\ UNCHANGED <<importVars, signInVars, trainerVars>>
       \/ part = "trainer" /\ TrainerNext /\ UNCHANGED <<importVars, signInVars, liveVars>>

LichessSpec ==
    LichessInit /\ [][LichessNext]_<<part, importVars, signInVars, liveVars, trainerVars>>
=============================================================================
