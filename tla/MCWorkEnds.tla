------------------------------ MODULE MCWorkEnds ------------------------------
(* The components whose work has to end: import jobs and review jobs, the     *)
(* coach's answers and streams, study weeks and the search for their puzzles, *)
(* the app's pending finish, and the start of the server.  They share no      *)
(* state here: a behaviour is one of the component its `part` names, the      *)
(* others rest where they start.                                              *)
EXTENDS LichessImport, GameReview, CoachReply, ChatStream,
        StudyWeek, PracticePuzzles, PendingFinish, ServerBoot, TLC

CONSTANTS p1, h1

VARIABLE part

SomePieces == {<<"fine">>, <<"best", "move">>, <<"inevitable">>}
OneGame == <<{h1}>>
EveryHandle(p) == Handles
NoSignUp(p) == {}
Days == <<0, 0, 1>>
Corpus == {[id |-> 1, theme |-> "fork", skill |-> 1], [id |-> 2, theme |-> "fork", skill |-> 3],
           [id |-> 3, theme |-> "tempo", skill |-> 2], [id |-> 4, theme |-> "generic", skill |-> 2]}
Lichess == {[id |-> 5, mine |-> TRUE, multi |-> TRUE, rating |-> 2],
            [id |-> 6, mine |-> TRUE, multi |-> TRUE, rating |-> 1],
            [id |-> 7, mine |-> TRUE, multi |-> FALSE, rating |-> 3],
            [id |-> 8, mine |-> FALSE, multi |-> TRUE, rating |-> 1]}

AppGameColumn == [kind |-> "column", on |-> "app_game_id", model |-> FALSE, partial |-> TRUE]
SchemaSteps == <<AppGameColumn, [AppGameColumn EXCEPT !.kind = "index"]>>

WorkInit ==
    /\ part \in {"import", "review", "reply", "stream", "week", "puzzles", "pending", "boot"}
    /\ ImportInit /\ ReviewInit /\ CoachInit /\ ChatStreamInit
    /\ StudyInit /\ PracticeInit /\ PendingInit /\ BootInit
    /\ part # "boot" => postgres /\ safe /\ ~db.tables

Rests(p, itsVars) == IF part = p THEN TRUE ELSE UNCHANGED itsVars

WorkNext ==
    /\ UNCHANGED part
    /\ \/ part = "import" /\ ImportNext
       \/ part = "review" /\ ReviewNext
       \/ part = "reply" /\ CoachNext
       \/ part = "stream" /\ ChatStreamNext
       \/ part = "week" /\ StudyNext
       \/ part = "puzzles" /\ PracticeNext
       \/ part = "pending" /\ PendingNext
       \/ part = "boot" /\ BootNext
    /\ Rests("import", importVars) /\ Rests("review", reviewVars)
    /\ Rests("reply", coachVars) /\ Rests("stream", streamVars) /\ Rests("week", studyVars)
    /\ Rests("puzzles", practiceVars) /\ Rests("pending", pendingVars)
    /\ Rests("boot", bootVars)

workVars == <<part, importVars, reviewVars, coachVars, streamVars, studyVars,
              practiceVars, pendingVars, bootVars>>

\* The fairness of each component; where it is of an action that the start
\* enables, the component's own behaviours only.
WorkFairness ==
    /\ ImportFairness /\ ReviewFairness /\ CoachFairness /\ ChatStreamFairness
    /\ WF_studyVars(part = "week" /\ Midnight)
    /\ \A d \in Drills : WF_studyVars(Sheets(d))
    /\ \A t \in Events : WF_studyVars(part = "week" /\ Background(t))
    /\ PracticeFairness
    /\ \A p \in Servers : WF_bootVars(part = "boot" /\ Boots(p))
    /\ WF_pendingVars(part = "pending" /\ Create("home"))
    /\ WF_pendingVars(Destroy("home"))
    /\ \A a \in Activities :
           WF_pendingVars(RetryRepeats(a) \/ \E o \in CallOutcomes : RetryReturns(a, o))
    /\ \A g \in DeviceGames : SF_pendingVars(\E full \in BOOLEAN : Handle(g, full))
    /\ SF_pendingVars(\E a \in Activities, o \in {"success", "pending"} : RetryReturns(a, o))

WorkSpec == WorkInit /\ [][WorkNext]_workVars /\ WorkFairness

\* No client polls for ever: imports and reviews end (status-polled jobs of
\* import_service.py and review/service.py), and a deployed server comes up.
ServerWorkEnds == JobsEnd /\ ReviewsEnd /\ BootsInTheEnd

\* Whatever the model answers, a reply is served and a stream ends (server.py
\* 1963-2000, chat_stream_pipeline.py 190-194).
ConversationsEnd == EveryoneIsServed /\ StreamEnds

\* A study week is worked off, its puzzles are found, and a finished game's report
\* leaves the device (study_plan/service.py, PendingGameFinish.kt).
PlayersWorkEnds == EveryWeekEnds /\ PracticeSettles /\ PendingSyncs
=============================================================================
