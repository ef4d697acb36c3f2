------------------------------ MODULE LiveMove ------------------------------
(***************************************************************************)
(* POST /live/move and POST /engine/eval of llm/server.py: two best-effort *)
(* evaluations, the grade of the player's move (rag/engine_signal/         *)
(* move_quality.py), whom the hint says is ahead and how it praises, and   *)
(* the pooled database connections that /live/move, /chat and the other    *)
(* authenticated routes check out (auth/router.py).  A score is White's,   *)
(* in centipawns or a signed mate distance.  What the model is asked and   *)
(* what the gates accept is CoachReply's; the tier is Entitlements'.       *)
(***************************************************************************)
EXTENDS Integers, Sequences, FiniteSets

CONSTANTS LiveCalls,    \* requests to /live/move
          ChatCalls,    \* requests to /chat
          OtherCalls,   \* requests to any other authenticated route
          EvalCalls,    \* requests to /engine/eval, which needs no session
          Connections,  \* pool_size + max_overflow
          Centipawns,   \* the centipawn scores the engine may give
          MateIn        \* the mate distances, negative when Black mates

DbCalls == LiveCalls \union ChatCalls \union OtherCalls
RouteCalls == DbCalls \union EvalCalls

Scores == {[type |-> "cp", value |-> v] : v \in Centipawns} \union
          {[type |-> "mate", value |-> v] : v \in MateIn}
Checkmate == [type |-> "mate", value |-> 0]

\* The client sends no game-ending move.  fenBefore: the position before the
\* move is left out, is the one the move was played in, or is another one.
CoachedMoves == [white : BOOLEAN, before : Scores, after : Scores,
          fenBefore : {"absent", "joins", "stale"}]

ASSUME LiveMoveAssumption ==
    /\ LiveCalls \intersect ChatCalls = {} /\ OtherCalls \intersect (LiveCalls \union ChatCalls) = {}
    /\ EvalCalls \intersect DbCalls = {}
    /\ Connections \in Nat \ {0}
    /\ Centipawns \subseteq Int /\ 0 \in Centipawns
    /\ MateIn \subseteq Int \ {0}

VARIABLES
    enginePool, \* the engine pool started
    stage,      \* where each request is
    connected,       \* the requests that hold a connection
    move,       \* <<>> or the move a live call is about
    basis,       \* <<>> or the score the signal is extracted from
    evaluated,  \* the calls whose score is the engine's
    grade,      \* last_move_quality
    tone,       \* what the hint's first sentence does
    told,       \* who is ahead by the prompt or by the hint
    board,      \* <<>> or what an evaluation call is about
    badge       \* <<>> or the score it answers

liveVars == <<enginePool, stage, connected, move, basis, evaluated, grade, tone, told,
              board, badge>>
graded == <<move, basis, evaluated, grade>>
said == <<tone, told>>
badges == <<board, badge>>

Grades == {"best", "good", "inaccuracy", "mistake", "blunder"}
Blames == {"inaccuracy", "mistake", "blunder"}
Stages == {"new", "engine", "quality", "admission", "reload", "model", "boundary",
           "store", "work", "served", "failed"}

\* The variables' types, and no more connections are out than the pool has.
LiveMoveTypeOK ==
    /\ enginePool \in BOOLEAN
    /\ stage \in [RouteCalls -> Stages]
    /\ connected \subseteq DbCalls /\ Cardinality(connected) <= Connections
    /\ \A r \in LiveCalls : /\ move[r] # <<>> => move[r][1] \in CoachedMoves
                            /\ basis[r] # <<>> => basis[r][1] \in Scores
                            /\ stage[r] = "served" => told[r] # "" /\ tone[r] # ""
    /\ evaluated \subseteq LiveCalls
    /\ grade \in [LiveCalls -> Grades \union {"unknown"}]
    /\ tone \in [LiveCalls -> {"", "praise", "tempered", "blame", "none", "model"}]
    /\ told \in [LiveCalls -> {"", "you", "opponent", "white", "black", "equal", "nothing"}]
    /\ \A r \in EvalCalls : stage[r] # "new" => board[r] # <<>>

LiveMoveInit ==
    /\ enginePool \in BOOLEAN
    /\ stage = [r \in RouteCalls |-> "new"] /\ connected = {}
    /\ move = [r \in LiveCalls |-> <<>>] /\ basis = move
    /\ evaluated = {} /\ grade = [r \in LiveCalls |-> "unknown"]
    /\ tone = [r \in LiveCalls |-> ""] /\ told = tone
    /\ board = [r \in EvalCalls |-> <<>>] /\ badge = board

-----------------------------------------------------------------------------
(* The connection pool *)

Goes(r, s) == stage' = [stage EXCEPT ![r] = s]

FreeConnection == Cardinality(connected) < Connections

CheckOut(r) == (r \in connected \/ FreeConnection) /\ connected' = connected \union {r}
CheckIn(r) == connected' = connected \ {r}

\* db.commit() ends the transaction, which returns the connection.
Commit(r) == CheckIn(r)

\* get_current_player's queries open the session's transaction.
Arrive(r) ==
    /\ stage[r] = "new" /\ CheckOut(r)
    /\ Goes(r, CASE r \in LiveCalls -> "engine"
               [] r \in ChatCalls -> "admission"
               [] OTHER -> "work")
    /\ IF r \in LiveCalls
       THEN \E m \in CoachedMoves : move' = [move EXCEPT ![r] = <<m>>]
       ELSE UNCHANGED move
    /\ UNCHANGED <<enginePool, basis, evaluated, grade, said, badges>>

\* pool_timeout passes without a connection: the request is a 500.
Starves(r) ==
    /\ stage[r] \in {"new", "reload"} /\ ~FreeConnection
    /\ Goes(r, "failed")
    /\ UNCHANGED <<enginePool, connected, graded, said, badges>>

\* Another route's handler; the session is closed at its end.
Works(r) ==
    /\ stage[r] = "work"
    /\ Goes(r, "served") /\ CheckIn(r)
    /\ UNCHANGED <<enginePool, graded, said, badges>>

-----------------------------------------------------------------------------
(* The move's grade *)

\* Mutated form of PlayerCp: the score stays White's.
PlayerCpWhites(s, white) == IF s.type = "cp" THEN s.value
                            ELSE IF s.value > 0 THEN 10000 - s.value ELSE -10000 - s.value

\* eval_to_player_cp: a mate is worth almost 10000.
PlayerCp(s, white) ==
    LET cp == IF s.type = "cp" THEN s.value
              ELSE IF s.value > 0 THEN 10000 - s.value ELSE -10000 - s.value
    IN IF white THEN cp ELSE -cp

\* classify_move_quality, by what the move lost.
Quality(before, after) ==
    LET loss == before - after
    IN CASE loss <= 20 -> "best"
         [] loss > 20 /\ loss <= 60 -> "good"
         [] loss > 60 /\ loss <= 120 -> "inaccuracy"
         [] loss > 120 /\ loss <= 250 -> "mistake"
         [] OTHER -> "blunder"

\* The move leads from the position before it to the one after it.
Joins(m) == m.fenBefore = "joins"

\* _enrich_from_fen: the material count.
MaterialScores == {[type |-> "cp", value |-> v] : v \in Centipawns}

\* The evaluation after the move: without a pool or with a failing engine the
\* signal falls back to the material count, and the move is not graded.
EvaluateAfter(r) ==
    /\ stage[r] = "engine"
    /\ \/ /\ enginePool
          /\ basis' = [basis EXCEPT ![r] = <<move[r][1].after>>]
          /\ evaluated' = evaluated \union {r}
          /\ Goes(r, IF move[r][1].fenBefore = "absent" THEN "admission" ELSE "quality")
       \/ /\ \E s \in MaterialScores : basis' = [basis EXCEPT ![r] = <<s>>]
          /\ Goes(r, "admission") /\ UNCHANGED evaluated
    /\ UNCHANGED <<enginePool, connected, move, grade, said, badges>>

\* _live_move_quality: the evaluation before the move may fail as well.
GradeMove(r) ==
    LET m == move[r][1]
        q == Quality(PlayerCp(m.before, m.white), PlayerCp(basis[r][1], m.white))
    IN /\ stage[r] = "quality"
       /\ \E g \in {"unknown"} \union {x \in {q} : Joins(m)} : grade' = [grade EXCEPT ![r] = g]
       /\ Goes(r, "admission")
       /\ UNCHANGED <<enginePool, connected, move, basis, evaluated, said, badges>>

\* admit() and the commit; /chat checks its quota (402 over it), reads the
\* profile and commits.
Admission(r) ==
    /\ stage[r] = "admission"
    /\ IF r \in LiveCalls THEN Goes(r, "reload") /\ Commit(r)
       ELSE \/ Goes(r, "model") /\ Commit(r)
            \/ Goes(r, "served") /\ CheckIn(r)
    /\ UNCHANGED <<enginePool, graded, said, badges>>

\* str(player.id) is an argument of the model call.  The commit has expired the
\* player, so reading it begins a transaction.
ReadPlayer(r) ==
    /\ stage[r] = "reload" /\ CheckOut(r)
    /\ Goes(r, "model")
    /\ UNCHANGED <<enginePool, graded, said, badges>>

-----------------------------------------------------------------------------
(* The hint *)

Other(c) == IF c = "white" THEN "black" ELSE "white"
Colour(white) == IF white THEN "white" ELSE "black"

\* extract_engine_signal: the side is the one the sign names.
Side(s) == IF s.value > 0 THEN "white" ELSE "black"
Abs(n) == IF n < 0 THEN -n ELSE n
Equal(s) == s.type = "cp" /\ Abs(s.value) <= 20
Clear(s) == s.type = "mate" \/ Abs(s.value) > 60

\* _derive_player_color: the opponent is to move.
PlayerColour(m) == Colour(m.white)

\* "you have", "your opponent has", or nobody.
Standing(s, colour) ==
    IF Equal(s) THEN "equal" ELSE IF Side(s) = colour THEN "you" ELSE "opponent"

\* _player_clearly_worse
ClearlyWorse(s, colour) == ~Equal(s) /\ Side(s) # colour /\ Clear(s)

\* The comment on the move, from one of the two tables.
Comment(g, worse) ==
    CASE g = "unknown" -> "none"
      [] g \in Blames -> "blame"
      [] OTHER -> IF worse THEN "tempered" ELSE "praise"

\* _build_hint: simple has the comment alone unless there is none or a mate;
\* advanced has the explainer's sentence, which names the side when it is no mate.
Sentence(style, s, colour, g) ==
    CASE style = "simple" /\ g # "unknown" /\ s.type = "cp" -> "nothing"
      [] style = "advanced" /\ s.type = "cp" /\ ~Equal(s) -> Side(s)
      [] OTHER -> Standing(s, colour)

Hint(r, style) ==
    LET s == basis[r][1]
        colour == PlayerColour(move[r][1])
    IN /\ tone' = [tone EXCEPT ![r] = Comment(grade[r], ClearlyWorse(s, colour))]
       /\ told' = [told EXCEPT ![r] = Sentence(style, s, colour, grade[r])]

\* The model answers: the prompt told it who is ahead.
ModelHint(r) ==
    /\ stage[r] = "model" /\ r \in LiveCalls
    /\ tone' = [tone EXCEPT ![r] = "model"]
    /\ told' = [told EXCEPT ![r] = Standing(basis[r][1], PlayerColour(move[r][1]))]
    /\ Goes(r, "boundary")
    /\ UNCHANGED <<enginePool, connected, graded, badges>>

\* The deterministic hint: the game is over the limit, the model has failed, or
\* the boundary has rejected what it said.
PlainHint(r) ==
    /\ r \in LiveCalls
    /\ \/ stage[r] = "model"
       \/ stage[r] = "boundary" /\ tone[r] = "model"
    /\ \E style \in {"simple", "intermediate", "advanced"} : Hint(r, style)
    /\ Goes(r, "boundary")
    /\ UNCHANGED <<enginePool, connected, graded, badges>>

\* The response is valid; the session is closed with the request.
AnswerMove(r) ==
    /\ stage[r] = "boundary"
    /\ Goes(r, "served") /\ CheckIn(r)
    /\ UNCHANGED <<enginePool, graded, said, badges>>

\* The chat's reply; record and save_exchange open a transaction again.
ChatReply(r) ==
    /\ stage[r] = "model" /\ r \in ChatCalls
    /\ Goes(r, "store")
    /\ UNCHANGED <<enginePool, connected, graded, said, badges>>

\* They are best-effort: without a connection the reply is served unrecorded.
StoreChat(r) ==
    /\ stage[r] = "store"
    /\ \/ r \notin connected /\ CheckOut(r) /\ UNCHANGED stage
       \/ r \in connected /\ CheckIn(r) /\ Goes(r, "served")
       \/ r \notin connected /\ ~FreeConnection /\ Goes(r, "served") /\ UNCHANGED connected
    /\ UNCHANGED <<enginePool, graded, said, badges>>

-----------------------------------------------------------------------------
(* POST /engine/eval *)

\* A checkmate is mate 0, of which the side to move is the loser.
BadgeScore(s, whiteToMove) ==
    IF s.type = "cp" THEN s.value
    ELSE IF s.value > 0 \/ (s.value = 0 /\ ~whiteToMove) THEN 10000 ELSE -10000

AskEval(r) ==
    /\ stage[r] = "new"
    /\ \E s \in Scores \union {Checkmate}, w \in BOOLEAN :
          board' = [board EXCEPT ![r] = <<[score |-> s, whiteToMove |-> w]>>]
    /\ Goes(r, "engine")
    /\ UNCHANGED <<enginePool, connected, graded, said, badge>>

\* No pool, no free engine or a failing one: "unavailable", and no score.
AnswerEval(r) ==
    /\ stage[r] = "engine"
    /\ \/ /\ enginePool
          /\ LET b == board[r][1]
             IN badge' = [badge EXCEPT ![r] = <<BadgeScore(b.score, b.whiteToMove)>>]
       \/ UNCHANGED badge
    /\ Goes(r, "served")
    /\ UNCHANGED <<enginePool, connected, graded, said, board>>

EvalNext == \E r \in EvalCalls : AskEval(r) \/ AnswerEval(r)

DbNext ==
    \/ \E r \in DbCalls : Arrive(r) \/ Starves(r)
    \/ \E r \in LiveCalls : \/ EvaluateAfter(r) \/ GradeMove(r) \/ ReadPlayer(r)
                            \/ ModelHint(r) \/ PlainHint(r) \/ AnswerMove(r)
    \/ \E r \in LiveCalls \union ChatCalls : Admission(r)
    \/ \E r \in ChatCalls : ChatReply(r) \/ StoreChat(r)
    \/ \E r \in OtherCalls : Works(r)

LiveMoveNext == EvalNext \/ DbNext

LiveMoveSpec == LiveMoveInit /\ [][LiveMoveNext]_liveVars

-----------------------------------------------------------------------------
(* Properties *)

\* The order of scores for a colour: its own mate, centipawns, the other's; of two
\* mates of one side it prefers the nearer when it is its own, else the farther.
MateRank(s, colour) ==
    IF s.type = "mate" THEN (IF Side(s) = colour THEN 1 ELSE -1) ELSE 0

LessFor(colour, m, n) == IF colour = "white" THEN m < n ELSE m > n

WorseFor(colour, s, t) ==
    \/ MateRank(s, colour) < MateRank(t, colour)
    \/ s.type = "cp" /\ t.type = "cp" /\ LessFor(colour, s.value, t.value)
    \/ /\ s.type = "mate" /\ MateRank(s, colour) = MateRank(t, colour)
       /\ LessFor(colour, t.value, s.value)

\* move_quality.py 3-8: a move is blamed only when the engine has evaluated both
\* of the positions it joins and its player stands worse after it.
BlameIsEarned ==
    \A r \in LiveCalls : grade[r] \in Blames =>
        LET m == move[r][1]
        IN /\ m.fenBefore = "joins" /\ r \in evaluated
           /\ WorseFor(Colour(m.white), m.after, m.before)

\* live_move_pipeline.py 429-436: whichever of prompt, hint and explainer's
\* sentence names who is ahead, it names the one the score favours, in the seat
\* of the player who moved.
AheadIsWhoItSays ==
    \A r \in LiveCalls :
        LET me == Colour(move[r][1].white)
            named == CASE told[r] = "you" -> me
                       [] told[r] = "opponent" -> Other(me)
                       [] OTHER -> told[r]
        IN told[r] \notin {"", "nothing", "equal"} =>
              IF named = "white" THEN basis[r][1].value > 0 ELSE basis[r][1].value < 0

\* live_move_pipeline.py 174-185: bare praise never greets a player who is being
\* mated or stands more than 60 centipawns worse.
PraiseFitsThePosition ==
    \A r \in LiveCalls : tone[r] = "praise" =>
        LET s == basis[r][1]
            mine == IF move[r][1].white THEN s.value ELSE -s.value
        IN mine >= (IF s.type = "cp" THEN -60 ELSE 1)

\* server.py 1480-1493: the score of the badge favours White exactly when White
\* is better or has mated.
BadgeFavoursTheBetter ==
    \A r \in EvalCalls : badge[r] # <<>> =>
        LET b == board[r][1]
        IN (badge[r][1] > 0) <=>
           (b.score.value > 0 \/ (b.score = Checkmate /\ ~b.whiteToMove))

\* server.py 1932-1939: a chat turn keeps no connection while the model is
\* asked, so slow chats cannot starve the other routes.
ChatsLeaveThePool == \A r \in ChatCalls : stage[r] = "model" => r \notin connected

\* What is said of a move is said from the right side of the board, and who waits for
\* the model keeps no connection.
LiveMoveSafe ==
    LiveMoveTypeOK /\ BlameIsEarned /\ AheadIsWhoItSays /\ PraiseFitsThePosition
    /\ BadgeFavoursTheBetter /\ ChatsLeaveThePool
=============================================================================
