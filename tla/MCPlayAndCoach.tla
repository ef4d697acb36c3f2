---------------------------- MODULE MCPlayAndCoach ----------------------------
(* What happens around a player's games: the engine pool and its cache, the    *)
(* saved games, the analysis of a finished one, review jobs, notifications,    *)
(* the coach's answers, streams and texts, the calls of the language model,    *)
(* the rating and the coach's next step, the study week and the repertoire.    *)
(* The components share no state here: a behaviour is one of the component its *)
(* `part` names, the others rest where they start.                             *)
EXTENDS EnginePool, EvalCache, SavedGames, GameAnalysis, GameReview, NotificationFeed,
        CoachReply, ChatStream, LlmCall, CoachTexts, CoachPolicy, StudyWeek, Repertoire,
        TLC

CONSTANTS w1, w2, e1, e2

VARIABLE part

\* The first table serves long slides, the second quick blunders, the third
\* games that go on into the ending.
GameTables ==
    {[start |-> -100, cps |-> {-300, -100, 200}, plies |-> 6],
     [start |-> 0, cps |-> {-200, -100, 0}, plies |-> 6],
     [start |-> 200, cps |-> {-100, 200}, plies |-> 10]}
PieceCount(ply) == 30 - 3 * ply
Days == <<0, 0, 1>>

\* A reply comes in pieces, the rejected phrase in two and the blocked one in one.
SomePieces == {<<"best">>, <<"move">>, <<"key", "key">>, <<"fine", "inevitable">>}

\* Two cards, of one of which the engine has no signal.
CardList == <<12, 31>>
SomeAliases == [hanging_piece |-> "hung_piece"]

\* A player whose record is empty, twice the same weakness, or that weakness in
\* two games of which the older has another one after it; a win and a loss.
Records == {<<>>, << <<"endgame">>, <<"endgame">> >>,
            << <<"endgame", "opening">>, <<"endgame">> >>}
GameReports ==
    {[result |-> "win", accuracy |-> 100, weak |-> <<"endgame">>],
     [result |-> "loss", accuracy |-> 0, weak |-> <<"opening", "endgame">>]}

\* A Lichess account without games, and one with a rapid rating out of the bounds.
SomeProfiles ==
    {<<>>, <<[games |-> 0, rating |-> 1500, provisional |-> TRUE],
             [games |-> 60, rating |-> 500, provisional |-> FALSE]>>}
SomeEstimates == {[rating |-> 900, confidence |-> 50]}

PlayInit ==
    /\ part \in {"pool", "cache", "saved", "analysis", "review", "feed", "reply", "stream",
                 "week", "repertoire", "model", "texts", "policy", "rating"}
    /\ Init /\ CacheInit /\ SavedGamesInit /\ GameInit /\ ReviewInit /\ FeedInit
    /\ CoachInit /\ ChatStreamInit /\ StudyInit /\ RepertoireInit /\ LlmInit
    /\ TextsInit /\ (part = "texts" \/ prose.job = "study")
    /\ PolicyInit /\ (part = "policy" \/ policy.bandit)
    /\ player.rating = IF part = "rating" THEN 102 ELSE 1200
    /\ part \in {"policy", "rating"} \/ games = <<>>
    /\ part = "policy" \/ Cardinality({games[i] : i \in DOMAIN games}) < 2

Rests(p, itsVars) == IF part = p THEN TRUE ELSE UNCHANGED itsVars

PlayNext ==
    /\ UNCHANGED part
    /\ \/ part = "pool" /\ Next
       \/ part = "cache" /\ CacheNext
       \/ part = "saved" /\ SavedGamesNext
       \/ part = "analysis" /\ GameNext
       \/ part = "review" /\ ReviewNext
       \/ part = "feed" /\ FeedNext
       \/ part = "reply" /\ CoachNext
       \/ part = "stream" /\ ChatStreamNext
       \/ part = "week" /\ StudyNext
       \/ part = "repertoire" /\ RepertoireNext
       \/ part = "model" /\ LlmNext
       \/ part = "texts" /\ TextsNext
       \/ part = "policy" /\ PolicyNext
       \/ part = "rating" /\ RatingNext
    /\ Rests("pool", vars) /\ Rests("cache", cacheVars) /\ Rests("saved", gameRowVars)
    /\ Rests("analysis", gameVars) /\ Rests("review", reviewVars) /\ Rests("feed", feedVars)
    /\ Rests("reply", coachVars) /\ Rests("stream", streamVars) /\ Rests("week", studyVars)
    /\ Rests("repertoire", repertoireVars) /\ Rests("model", llmVars)
    /\ Rests("texts", prose) /\ (part = "rating" \/ Rests("policy", policyVars))

PlaySpec ==
    PlayInit
    /\ [][PlayNext]_<<part, vars, cacheVars, gameRowVars, gameVars, reviewVars, feedVars,
                      coachVars, streamVars, studyVars, repertoireVars, llmVars, prose, policyVars>>

\* The threads of the pool and its engines are interchangeable.
WorkerEngineSymmetry == Permutations(Workers) \union Permutations(Engines)
=============================================================================
